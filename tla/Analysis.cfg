CONSTANTS
    Procs = {p1, p2}
    Keys = {k1, k2}
    Fingerprints = {f1, f2}
    MaxRuns = 3
    MaxVersion = 2
    Workers = {p1, p2, p3}
    MaxAttempts = 3
    Configured = TRUE
    Requests = {p1, p2}
    DiskSize = 8
    HardStop = 2
    MaxActive = 1
    MaxReads = 1
    ReadLimit = 2
    UploadReserve = 3
    MaxUpload = 2
    MaxSize = 2
    Players = {p1, p2}
    MaxCalibrations = 2
    MaxS3Version = 9
    MaxLocalVersion = 6
SPECIFICATION Spec
SYMMETRY Symmetry
INVARIANTS AttemptsFollow CapacityKept ArtifactsMatch
PROPERTIES KeepsRunPromise AttemptsEndOnce
CHECK_DEADLOCK FALSE
