CONSTANTS
    Procs = {p1, p2}
    Source = src
    Videos = {v1, v2}
    Documents = {d1}
    MaxFaults = 1
    MaxCrashes = 1
    MaxDrops = 1
SPECIFICATION Spec
SYMMETRY Symmetry
CONSTRAINT DropsAlone
INVARIANTS TypeOK OfferedBytesExist RecordingDeletedEverywhere PurgeIsComplete
PROPERTIES TombstoneIsFinal KeepsRetentionPromise
CHECK_DEADLOCK FALSE
