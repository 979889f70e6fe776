CONSTANTS
    a = a
    b = b
    IP = {a, b}
    Nets <- TheNet
    Tester = {maintain}
    Web = {handler}
    AutoBlacklist = TRUE
    Overlap = FALSE
    Failing = {}
    MaxFaults = 0
SPECIFICATION Spec
PROPERTIES
    BlacklistKept
