\* Faults of the workers, deadlines, a group of pods of two Jobs.
SPECIFICATION Spec
CONSTANTS
    p1 = p1  p2 = p2  p3 = p3  p4 = p4  g1 = g1  g2 = g2  NoPod = NoPod
    Pods = {p1, p2}
    Groups = {g1}
    GroupOf <- PairAndOne
    LabelKind <- Numbers
    SizeLabel <- ExactSizes
    DurationOf <- FirstTimed
    OwnerKind <- OwnedByJob
    JobOf <- JobEach
    LookupKey <- OwnKey
    Capacity = 4
    MaxFaults <- NoFaults
    MaxDisruptions <- WorkerErrors
CHECK_DEADLOCK FALSE
INVARIANT DeadlineArmed
PROPERTY QueueSpec
