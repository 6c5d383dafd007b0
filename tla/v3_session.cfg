\* slink-tool against a v3 server over every split of the byte stream:
\* framing, INFO requests, the handshake-to-data-transfer switch, liveness.
CONSTANTS
    Configs <- MCConfigs
    Descriptions <- MCDescriptions
    Banners <- MCBanners
    InfoItems = {"NONE", "STATIONS"}
    Modes = {"DATA", "FETCH"}
    BatchFlags = {FALSE, TRUE}
    KeepAlives = {FALSE, TRUE}
    Programs = {"slink-tool", "chain-plugin"}
    MaxInfos = 2
    MaxPackets = 2
SPECIFICATION Spec
INVARIANTS TypeOK InfoRequestsNeverOverlap NoLinePendingInDataPhase SessionOnlyWithV3Server
PROPERTIES RefinesFrameChannel AllFramesEventuallyRead DialUpSessionEnds
\* A real-time session waits for data for ever once the server stops.
CHECK_DEADLOCK FALSE
