\* Two clients sharing the main loop and its inbox: negotiation safety,
\* registration order, and the end of every task after the main loop's
\* panic, under every interleaving of their tasks.
CONSTANTS
    c1 = c1
    c2 = c2
    Clients = {c1, c2}
    Texts <- TextsNegotiate
    MaxLineLength = 16
    MaxLines = 2
    MainCap = 2
    WriterCap = 1
    InternalBound = 2
    PeerHalfCloses = FALSE
SPECIFICATION Spec
INVARIANTS DataOkOnlyAfterStation
PROPERTIES CommandsNeverPrecedeRegistration ClientsEndWithMainLoop
CHECK_DEADLOCK FALSE
