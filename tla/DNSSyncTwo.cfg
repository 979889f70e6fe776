CONSTANTS
    Syncer = {maintain, scan}
    Content = {a, b}
    OtherFamily = {}
    RecordId = {r1, r2, r3, r4, r5}
    SyncCount = 1
SPECIFICATION Spec
SYMMETRY Symmetric
PROPERTIES
    NeverEmptied
