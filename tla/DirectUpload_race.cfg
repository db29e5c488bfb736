CONSTANTS
    Sessions = {s1, s2}
    Procs = {p1, p2}
    Contents = {c1}
    Payloads = {"match", "altered"}
    None = None
    MaxActive = 2
    MaxFaults = 1
    MaxCrashes = 1
SPECIFICATION Spec
SYMMETRY Symmetry
INVARIANTS TypeOK CompletionExclusive AnalysedSourceIsDeclared  DuplicateAnswered
PROPERTIES CleanupIntentDurable KeepsPromise
CHECK_DEADLOCK FALSE
