\* No faults: groups are bound and their allocations released.
SPECIFICATION FairSpec
CONSTANTS
    p1 = p1  p2 = p2  p3 = p3  p4 = p4  g1 = g1  g2 = g2  NoPod = NoPod
    Pods = {p1, p2, p3, p4}
    Groups = {g1, g2}
    GroupOf <- TwoPairs
    LabelKind <- Numbers
    SizeLabel <- Twos
    DurationOf <- Untimed
    OwnerKind <- Bare
    JobOf <- OneJob
    LookupKey <- OwnKey
    Capacity = 4
    MaxFaults <- NoFaults
    MaxDisruptions <- NoDisruptions
CHECK_DEADLOCK FALSE
INVARIANT NoOrphanedAllocation
PROPERTIES GangSpec GroupIsBound ReleasedWhenDone
