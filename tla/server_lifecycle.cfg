\* A stopped client task is removed from the main loop map.
CONSTANTS
    c1 = c1
    c2 = c2
    Clients = {c1}
    Texts <- TextsAnswered
    MaxLineLength = 16
    MaxLines = 3
    MainCap = 2
    WriterCap = 1
    InternalBound = 4
    PeerHalfCloses = TRUE
SPECIFICATION Spec
PROPERTIES DeregisteredEventually
CHECK_DEADLOCK FALSE
