\* Requeued pods, restarts, lost replies: second allocations.
SPECIFICATION Spec
CONSTANTS
    p1 = p1  p2 = p2  p3 = p3  p4 = p4  g1 = g1  g2 = g2  NoPod = NoPod
    Pods = {p1, p2}
    Groups = {g1}
    GroupOf <- PairAndOne
    LabelKind <- Numbers
    SizeLabel <- ExactSizes
    DurationOf <- Untimed
    OwnerKind <- Bare
    JobOf <- OneJob
    LookupKey <- OwnKey
    Capacity = 4
    MaxFaults <- PodsComeBack
    MaxDisruptions <- LostWatch
CHECK_DEADLOCK FALSE
INVARIANT HostWasGranted
