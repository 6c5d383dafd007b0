\* Safety of the client actor and the main loop: one client, every kind
\* of line, half-close allowed.
CONSTANTS
    c1 = c1
    c2 = c2
    Clients = {c1}
    Texts <- TextsAll
    MaxLineLength = 16
    MaxLines = 3
    MainCap = 2
    WriterCap = 1
    InternalBound = 4
    PeerHalfCloses = TRUE
SPECIFICATION Spec
INVARIANTS TypeOK DataOkOnlyAfterStation
PROPERTIES CommandsNeverPrecedeRegistration
CHECK_DEADLOCK FALSE
