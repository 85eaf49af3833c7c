\* Every kind of fault, a group that can be full twice.
SPECIFICATION Spec
CONSTANTS
    p1 = p1  p2 = p2  p3 = p3  p4 = p4  g1 = g1  g2 = g2  NoPod = NoPod
    Pods = {p1, p2}
    Groups = {g1, g2}
    GroupOf <- MixedGroups
    LabelKind <- MixedKinds
    SizeLabel <- MixedSizes
    DurationOf <- MixedDurations
    LookupKey <- OwnKey
    MaxFaults <- EveryFault
CHECK_DEADLOCK FALSE
INVARIANTS TypeOK RowHasPods JobsArePending JobsAreRunnable
PROPERTY PendingBeforeDelete
