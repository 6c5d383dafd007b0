\* slink-tool -i stations -k against a server that answers INFO STATIONS
\* on the ERR channel: is expect_info_resp cleared by that answer?
CONSTANTS
    Configs <- MCConfigs
    Descriptions <- MCDescriptions
    Banners <- MCBannersV3Only
    InfoItems = {"STATIONS"}
    Modes = {"DATA"}
    BatchFlags = {FALSE}
    KeepAlives = {TRUE}
    Programs = {"slink-tool"}
    MaxInfos = 2
    MaxPackets = 1
SPECIFICATION Spec
INVARIANTS ExpectMeansOutstanding
\* A real-time session waits for data for ever once the server stops.
CHECK_DEADLOCK FALSE
