\* A client sends short command lines, some of them empty, and closes.
CONSTANTS
    MaxLen = 3
    MaxBytes = 5
SPECIFICATION Spec
INVARIANTS CommandLinesAllParsed
CHECK_DEADLOCK FALSE
