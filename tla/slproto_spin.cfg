\* SLPROTO 4.0 then INFO id: the continue after SLPROTO never fetches INFO.
CONSTANTS
    c1 = c1
    c2 = c2
    Clients = {c1}
    Texts <- TextsSlProto
    MaxLineLength = 16
    MaxLines = 2
    MainCap = 2
    WriterCap = 1
    InternalBound = 4
    PeerHalfCloses = FALSE
SPECIFICATION Spec
PROPERTIES AnsweredEventually
CHECK_DEADLOCK FALSE
