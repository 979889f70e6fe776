CONSTANTS
    Syncer = {maintain, scan}
    Content = {a, b, c}
    OtherFamily = {v6}
    RecordId = {r1, r2, r3, r4}
    SyncCount = 2
SPECIFICATION Spec
SYMMETRY Symmetric
INVARIANTS
    TypeOK
    UserRecordsKept
PROPERTIES
    SuccessMeansPublished
    EmptiedOnlyTogether
    ActsAsCalls
