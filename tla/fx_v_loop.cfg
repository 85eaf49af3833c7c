\* Two groups, one of which is cancelled.
SPECIFICATION FairSpec
CONSTANTS
    p1 = p1  p2 = p2  p3 = p3  p4 = p4  g1 = g1  g2 = g2  NoPod = NoPod
    Pods = {p1, p2, p3}
    Groups = {g1, g2}
    GroupOf <- PairAndOne
    LabelKind <- Numbers
    SizeLabel <- ExactSizes
    DurationOf <- Untimed
    OwnerKind <- Bare
    JobOf <- OneJob
    LookupKey <- OwnKey
    Capacity = 2
    MaxFaults <- NoFaults
    MaxDisruptions <- NoDisruptions
CHECK_DEADLOCK FALSE
PROPERTY CompletedIsBound
