CONSTANTS
    a = a
    b = b
    IP = {a}
    Nets = {}
    Tester = {maintain}
    Web = {handler}
    AutoBlacklist = TRUE
    Overlap = TRUE
    Failing = {}
    MaxFaults = 0
SPECIFICATION Spec
INVARIANTS TypeOK ExclusiveOnDisk AgreedAtRest
