CONSTANTS
    a = a
    b = b
    c = c
    d = d
    x = x
    source = source
    IP = {a, b, c, d, x}
    Source = {source}
    Listed <- OneSource
    Blacklist = {x}
    Limit = 4
    ValidIPCount = 2
    BatchFloor = 3
    SpeedLimit = 2
    SpeedWorkers = 2
    ProbeWorkers = 3
    MaxLatency = 3
SPECIFICATION FairSpec
INVARIANTS TypeOK BestOfFound ShortScanProbedAll
PROPERTIES ScansEnd
