\* A requeue, a database error and failing bindings; every pod is a job of its own.
SPECIFICATION Spec
CONSTANTS
    p1 = p1  p2 = p2  p3 = p3  p4 = p4  g1 = g1  g2 = g2  NoPod = NoPod
    Pods = {p1, p2}
    Groups = {g1}
    GroupOf <- PairAndOne
    LabelKind <- Numbers
    SizeLabel <- Ones
    DurationOf <- Untimed
    OwnerKind <- Bare
    JobOf <- OneJob
    LookupKey <- OwnKey
    Capacity = 2
    MaxFaults <- LooseQueue
    MaxDisruptions <- BindErrors
CHECK_DEADLOCK FALSE
INVARIANTS TypeOK AllocationsHoldTheirPods
PROPERTY QueueSpec
