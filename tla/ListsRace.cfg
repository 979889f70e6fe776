CONSTANTS
    a = a
    b = b
    IP = {a}
    Nets = {}
    Tester = {maintain, scan}
    Web = {}
    AutoBlacklist = TRUE
    Overlap = TRUE
    Failing = {}
    MaxFaults = 0
SPECIFICATION Spec
PROPERTIES BlacklistKept
