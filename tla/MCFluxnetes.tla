---------------------------- MODULE MCFluxnetes ----------------------------
(* Instances of Fluxnetes for TLC.                                         *)
EXTENDS Fluxnetes, TLC

CONSTANTS p1, p2, p3, p4, g1, g2

Among(f) == [p \in Pods |-> f[p]]

\* A group of two and a group of one, as large as their labels say.
PairAndOne == Among((p1 :> g1) @@ (p2 :> g1) @@ (p3 :> g2))

\* Two groups of two.
TwoPairs == Among((p1 :> g1) @@ (p2 :> g1) @@ (p3 :> g2) @@ (p4 :> g2))
Twos == [p \in Pods |-> 2]

Numbers == [p \in Pods |-> "number"]
ExactSizes ==
    [p \in Pods |-> Cardinality({q \in Pods : PairAndOne[q] = PairAndOne[p]})]
\* Every pod makes its group full.
Ones == [p \in Pods |-> 1]
Untimed == [p \in Pods |-> 0]
\* Only the pods of g1 have a deadline.
PairTimed == Among((p1 :> 5) @@ (p2 :> 5) @@ (p3 :> 0))
\* Only the first pod has a deadline.
FirstTimed == Among((p1 :> 5) @@ (p2 :> 0) @@ (p3 :> 0))

Bare == [p \in Pods |-> "none"]
OwnedByJob == [p \in Pods |-> "Job"]
\* A Job for all pods, or one for each.
OneJob == [p \in Pods |-> "job"]
JobEach == [p \in Pods |-> p]

OwnKey == [g \in Groups |-> g]

NoFaults == [k \in {"requeue", "dberror", "restart"} |-> 0]
\* A pod comes back and a statement of the queue fails.
LooseQueue == [NoFaults EXCEPT !["requeue"] = 1, !["dberror"] = 1]
PodsComeBack == [NoFaults EXCEPT !["restart"] = 1, !["requeue"] = 1]

NoDisruptions == [k \in DisruptionKinds |-> 0]
\* A podspec that is not read, a pod that fits no node, a refused binding.
BindErrors ==
    [NoDisruptions EXCEPT !["podspec"] = 1, !["bind"] = 1, !["nofit"] = 1]
\* Replies of Fluxion and of the database get lost, one of them unseen.
Outages == [NoDisruptions EXCEPT !["rpc"] = 1, !["sql"] = 1, !["nodes"] = 1]
\* The informer loses its watch too.
LostWatch == [Outages EXCEPT !["tombstone"] = 1]
\* The API server refuses a request too, and users delete pods.
WorkerErrors == [Outages EXCEPT !["api"] = 1, !["userDelete"] = 2]
UserDeletion == [NoDisruptions EXCEPT !["userDelete"] = 2]
=============================================================================
