CONSTANTS
    policy1 = policy1
    policy2 = policy2
    Missing = Missing
    Invalid = Invalid
    Manifests <- AllManifests
    ArtifactStates <- AllArtifacts
    Policies = {policy1, policy2}
    MinimumSamples = 3
    MinimumReviewed = 3
    MinimumCurrent = 2
    MinimumIntervals = 3
    MaxChanges = 3
    SampleLists <- AllSampleLists
    Duration = 3
    MaxIntervals = 2
    ReviewLabels <- IntervalLabels
    Reports <- AllReports
    Comparing <- ChangingHistory
    Grouping <- GroupedHistory
    Trending <- TrendedHistory
    Paging <- PagedHistory
SPECIFICATION Spec
INVARIANTS ReadyIsEarned  PlayReviewHonest ComparedAreSound HistoryHonest
CHECK_DEADLOCK FALSE
