\* slink-tool -x restarted after storing sequence numbers 15 (f) and 16 (10)
\* for two streams of one station.  The program may be stopped for good,
\* so a state with no further step is not an error.
CONSTANTS
    stA = stA
    stB = stB
    sA1 = sA1
    sA2 = sA2
    sB = sB
    Stations = {stA, stB}
    Streams = {sA1, sA2, sB}
    StationOf <- MCStationOf
    NetOf <- MCNetOf
    StaOf <- MCStaOf
    SidText <- MCSidText
    Args <- MCArgs
    AddSelectArgs = FALSE
    StartSeq <- MCStartSeq
    MaxSeq = 17
    MaxRuns = 2
SPECIFICATION Spec
INVARIANTS RecoveredSeqIsNewest
CHECK_DEADLOCK FALSE
