\* Every answerable line is answered: one client, no half-close.
CONSTANTS
    c1 = c1
    c2 = c2
    Clients = {c1}
    Texts <- TextsAnswered
    MaxLineLength = 16
    MaxLines = 3
    MainCap = 2
    WriterCap = 1
    InternalBound = 4
    PeerHalfCloses = FALSE
SPECIFICATION Spec
PROPERTIES AnsweredEventually
CHECK_DEADLOCK FALSE
