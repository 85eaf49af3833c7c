\* Two starts of the sidecar, three jobs, and one change by other schedulers or early release.
SPECIFICATION Spec
CONSTANTS
    Clusters <- SomeClusters
    SkipLabel = "skip"
    Loads <- SomeLoads
    PodShapes <- SomePods
    MaxCount = 2
    MaxMatches = 3
    MaxChanges = 1
    MaxRestarts = 1
CHECK_DEADLOCK FALSE
INVARIANTS
    TypeOK
    GraphIsATree
    PathsFollowTheTree
    GraphCoversCluster
    TasksWithinCount
    TasksFit
    NodesNotOvercommitted
PROPERTY
    LedgerSpec
