\* DATA without arguments, or SELECT followed by a space, panics the client task, whose handle stays in the map.
CONSTANTS
    c1 = c1
    c2 = c2
    Clients = {c1}
    Texts <- TextsPanic
    MaxLineLength = 16
    MaxLines = 1
    MainCap = 2
    WriterCap = 1
    InternalBound = 4
    PeerHalfCloses = FALSE
SPECIFICATION Spec
PROPERTIES DeregisteredEventually
CHECK_DEADLOCK FALSE
