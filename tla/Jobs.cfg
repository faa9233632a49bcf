SPECIFICATION MCSpec
CONSTANTS
    Jobs = {j1, j2}
    Cancels = {c1}
    MaxKills = 1
    Nobody = Nobody
    None = None
    Error = Error
    Watchers = {w1, w2}
    MaxEvents = 3
    MaxDrops = 2
    NoVerdict = NoVerdict
    Main = main
    Children = {child}
    Streams = {out, err}
    Limit = 3
    Chunk = 2
    Capacity = 1
    MaxOutput = 6
CHECK_DEADLOCK FALSE
INVARIANTS
    TypeOK
    OneVerdict
    RunsAlone
    StreamTypeOK
    InOrderExactlyOnce
    ProcessTypeOK
    TruncationIsFlagged
PROPERTIES
    ImplementsContract
    EveryJobEnds
    ImplementsEventLog
    EveryStreamEnds
    ResultIsComplete
    RunEnds
    OutputNeverBlocks
