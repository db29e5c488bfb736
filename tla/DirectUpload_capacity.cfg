CONSTANTS
    Sessions = {s1, s2, s3}
    Procs = {p1}
    Contents = {c1}
    Payloads = {"match"}
    None = None
    MaxActive = 2
    MaxFaults = 1
    MaxCrashes = 1
SPECIFICATION Spec
SYMMETRY Symmetry
INVARIANTS CapacityRespected ProviderCapacityRespected
CHECK_DEADLOCK FALSE
