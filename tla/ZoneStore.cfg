SPECIFICATION Spec
CONSTANTS
    Zones = {x, y}
    Ttls = {0, 300}
    Keys = {1, 2}
    ImportBodies <- MCImportBodies
    Jobs = {job1, job2}
    x = x
    y = y
    job1 = job1
    job2 = job2
    MaxOps = 6
    Keep = 1
    MaxRecordId = 4
    MaxSnapshotId = 2
SYMMETRY Symmetry
INVARIANTS
    TypeOK
    NothingOrphaned
    NoIdComesBack
PROPERTIES
    RestoreIsExact
    CreatedAsAsked
    LatestOnlySucceeded
CHECK_DEADLOCK FALSE
