\* Deadlines with lost replies and failing statements.
SPECIFICATION FairSpec
CONSTANTS
    p1 = p1  p2 = p2  p3 = p3  p4 = p4  g1 = g1  g2 = g2  NoPod = NoPod
    Pods = {p1, p2}
    Groups = {g1}
    GroupOf <- PairAndOne
    LabelKind <- Numbers
    SizeLabel <- ExactSizes
    DurationOf <- PairTimed
    OwnerKind <- OwnedByJob
    JobOf <- OneJob
    LookupKey <- OwnKey
    Capacity = 6
    MaxFaults <- NoFaults
    MaxDisruptions <- Outages
CHECK_DEADLOCK FALSE
INVARIANT RunningIsAllocated
PROPERTIES DeadlineEnforced DeadlineReleases
