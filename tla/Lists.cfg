CONSTANTS
    a = a
    b = b
    IP = {a, b}
    Nets = {}
    Tester = {maintain}
    Web = {handler}
    AutoBlacklist = TRUE
    Overlap = FALSE
    Failing = {maintain}
    MaxFaults = 1
SPECIFICATION Spec
SYMMETRY Symmetric
INVARIANTS TypeOK ExclusiveOnDisk AgreedAtRest NothingBarredForwarded
PROPERTIES DecisionsStick Promised
