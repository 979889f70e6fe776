CONSTANTS
    IP = {1, 2}
    MaxLatency = 1
    Handler = {}
    Lists <- NoChoice
    InitLists <- NoLists
    Reasons = {"startup", "web", "health", "scheduled"}
    PoolSize = 1
    MinHealthyCount = 1
    HealthFailures = 1
    RecoverySuccesses = 2
    DirectPool = FALSE
    LatencyFilter = FALSE
    EvictEnabled = FALSE
    MinSamples = 1
    MaxRatio = 60
    WindowSamples = 1
    DNSEnabled = FALSE
    Family = {1, 2}
    SyncCount = 1
    LatencySync = FALSE
    Pausing = FALSE
SPECIFICATION Spec
INVARIANTS
    PoolBounded
PROPERTIES
    AdmissionEarned
    CoolingStaysOut
    ProxyKeepsUp
