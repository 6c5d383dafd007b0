\* A reply queued for the writer is lost when an over-long line ends tcp_read.
CONSTANTS
    c1 = c1
    c2 = c2
    Clients = {c1}
    Texts <- TextsLong
    MaxLineLength = 16
    MaxLines = 2
    MainCap = 2
    WriterCap = 1
    InternalBound = 4
    PeerHalfCloses = FALSE
SPECIFICATION Spec
PROPERTIES AnsweredEventually
CHECK_DEADLOCK FALSE
