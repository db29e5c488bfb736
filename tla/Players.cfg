CONSTANTS
    w1 = w1
    w2 = w2
    f1 = f1
    f2 = f2
    None = None
    Sessions = {1, 2}
    PartCount = 2
    Files = {f1, f2}
    Workers = {w1, w2}
    MaxAttempts = 2
    MaxActive = 1
    MaxFaults = 1
    MaxKeys = 2
    Recordings <- SomeRecordings
    LinkGap = 2
    ShortGap = 1
    MaxDistance = 1
    MaxSpeed = 1
    MinReentry = 1
    Tracks <- AllTracks
    Groups <- Singles
    Eligible <- AtMostThree
    MergeSafe <- Neighbours
    Rank <- LongerFirst
    MaxSelectable = 3
    MaxDecisions = 3
    Frames = 6
    MeasuredGap = 2
    UsableDuration = 2
    StrongDuration = 3
    ExcellentDuration = 5
    MinTracked = 2
    CautiousDuration = 4
    MinObservations = 3
    StrongObservations = 4
    Videos <- SomeVideos
    Players = {1, 2, 3}
    Ticks = 25
    WindowTicks = 12
    MotionGap = 3
    MinContext = 24
    MinMoving = 2
    MinTogether = 2
    Scenes <- SomeScenes
SPECIFICATION Spec
SYMMETRY Symmetry
CONSTRAINT FewLate
INVARIANTS UploadPageHonest CandidatesConsistent OnePersonPerCandidate MeasurementHonest PlayEstimateHonest
PROPERTIES ReviewRespected RivalsAbstain
CHECK_DEADLOCK FALSE
