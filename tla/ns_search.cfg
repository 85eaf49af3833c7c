\* A pod after another looks for a node among none, three or four.
SPECIFICATION FairSpec
CONSTANTS
    Workers = {w1, w2}
    MaxNodes = 4
    SnapshotSizes = {0, 3, 4}
    PreFilterSets = {{}, {1, 3}}
    Nominees = {3}
    MaxScore = 1
    Profiles <- SomeProfiles
    Extenders <- TwoExtenders
    MinFeasibleNodesToFind = 1
    MinFeasibleNodesPercentageToFind = 5
INVARIANTS
    TypeOK FeasibleSlotsFilled StopsEarlyOnlyWhenFull FitErrorIsExplained
    SuggestedHostFits
PROPERTIES SkipsOnlyExaminedNodes SchedulePodReturns
