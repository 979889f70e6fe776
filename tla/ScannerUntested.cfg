CONSTANTS
    a = a
    b = b
    c = c
    d = d
    x = x
    source = source
    IP = {a, b, c}
    Source = {source}
    Listed <- OneSource
    Blacklist = {}
    Limit = 3
    ValidIPCount = 1
    BatchFloor = 2
    SpeedLimit = 1
    SpeedWorkers = 1
    ProbeWorkers = 1
    MaxLatency = 1
SPECIFICATION Spec
INVARIANTS EveryoneTested
