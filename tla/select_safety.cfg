\* SELECT and DATA sequences of up to three patterns: pattern matching and exclusion.
CONSTANTS
    A = A
    B = B
    s1 = s1
    s2 = s2
    s3 = s3
    Stations = {A, B}
    Streams = {s1, s2, s3}
    StationOf <- MCStationOf
    IdOf <- MCIdOf
    FormatOf <- MCFormatOf
    SubFormatOf <- MCSubFormatOf
    StartSeq <- MCStartSeq
    SelectArgs <- MCSelectArgs
    DataArgs <- MCDataArgs
    MaxSelects = 3
SPECIFICATION Spec
INVARIANTS TypeOK SelectionFollowsGlob AppliedPatternsWellFormed
\* The negotiation ends with DATA: the Select is committed.
CHECK_DEADLOCK FALSE
