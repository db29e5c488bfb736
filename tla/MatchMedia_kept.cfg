CONSTANTS
    Procs = {p1, p2}
    Source = src
    Videos = {v1}
    Documents = {d1}
    MaxFaults = 1
    MaxCrashes = 1
    MaxDrops = 0
SPECIFICATION Spec
INVARIANTS WholeDeletionErasesRecording
CHECK_DEADLOCK FALSE
