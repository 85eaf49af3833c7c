\* Groups of exactly their size, and two database errors.
SPECIFICATION Spec
CONSTANTS
    p1 = p1  p2 = p2  p3 = p3  p4 = p4  g1 = g1  g2 = g2  NoPod = NoPod
    Pods = {p1, p2, p3, p4}
    Groups = {g1, g2}
    GroupOf <- ExactGroups
    LabelKind <- ExactKinds
    SizeLabel <- ExactSizes
    DurationOf <- ExactDurations
    LookupKey <- SameKey
    MaxFaults <- DatabaseErrors
SYMMETRY GroupMates
CHECK_DEADLOCK FALSE
INVARIANTS QuorumSound OneJobPerGroup
