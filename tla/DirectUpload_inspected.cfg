CONSTANTS
    Sessions = {s1}
    Procs = {p1}
    Contents = {c1}
    Payloads = {"match"}
    None = None
    MaxActive = 1
    MaxFaults = 1
    MaxCrashes = 1
SPECIFICATION Spec
INVARIANTS CompletedIsInspected
CHECK_DEADLOCK FALSE
