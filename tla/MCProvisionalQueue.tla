------------------------- MODULE MCProvisionalQueue -------------------------
(* Instances of ProvisionalQueue for TLC: the groups and labels of the     *)
(* pods, and how many faults of each kind may happen.                      *)
EXTENDS ProvisionalQueue, TLC

CONSTANTS p1, p2, p3, p4, g1, g2

\* p1 and p2 share g1 and disagree on its size, so that g1 is full with one
\* pod or with two; p3, where it is used, is alone, with the default size.
Among(f) == [p \in Pods |-> f[p]]
MixedGroups == Among((p1 :> g1) @@ (p2 :> g1) @@ (p3 :> g2))
MixedKinds == Among((p1 :> "number") @@ (p2 :> "number") @@ (p3 :> "absent"))
MixedSizes == Among((p1 :> 2) @@ (p2 :> 1) @@ (p3 :> 2))
MixedDurations == Among((p1 :> 5) @@ (p2 :> 0) @@ (p3 :> 0))

\* p1 and p2 make g1 exactly as large as their labels say.  In g2, p3 has the
\* default size and p4 has no labels at all.
ExactGroups == Among((p1 :> g1) @@ (p2 :> g1) @@ (p3 :> g2) @@ (p4 :> g2))
ExactKinds == Among((p1 :> "number") @@ (p2 :> "number") @@ (p3 :> "absent")
                      @@ (p4 :> "nilmap"))
ExactSizes == [p \in Pods |-> 2]
ExactDurations == [p \in Pods |-> 0]

\* The pods of g1 are interchangeable.
GroupMates == Permutations({p1, p2})

\* The two groups are distinct, but name-namespace is the same string.
SameKey == [g \in Groups |-> 1]
OwnKey == [g \in Groups |-> g]

NoFaults == [k \in FaultKinds |-> 0]
EveryFault == [NoFaults EXCEPT !["dberror"] = 2, !["requeue"] = 1, !["restart"] = 2]
DatabaseErrors == [NoFaults EXCEPT !["dberror"] = 2]
OneRestart == [NoFaults EXCEPT !["restart"] = 1]
=============================================================================
