--------------------------- MODULE GangScheduler ---------------------------
(***************************************************************************)
(* What fluxnetes promises to a user who submits groups of pods, without   *)
(* queues, tables, workers, events or flux ids: a group gets its resources *)
(* all at once, once, and only when all of its pods are there; a pod runs  *)
(* only while its group has them; and they come back when all pods of the  *)
(* group are over.  What it does not promise is to wait for room: a group  *)
(* that is complete while the cluster is full may be refused for good, and *)
(* its pods be deleted.                                                    *)
(*                                                                         *)
(*   status   how far each pod is                                          *)
(*   held     per group, the tasks it holds resources for                  *)
(*   refused  the groups for which there was no room                       *)
(***************************************************************************)
EXTENDS Integers, FiniteSets, FiniteSetsExt

CONSTANTS Pods, Groups, GroupOf, Capacity

VARIABLES status, held, refused

vars == <<status, held, refused>>

Members(g) == {p \in Pods : GroupOf[p] = g}
InUse == MapThenSumSet(LAMBDA g : held[g], Groups)

Init ==
    /\ status = [p \in Pods |-> "absent"]
    /\ held = [g \in Groups |-> 0]
    /\ refused = {}

Arrive(p) ==
    /\ status[p] = "absent"
    /\ status' = [status EXCEPT ![p] = "waiting"]
    /\ UNCHANGED <<held, refused>>

\* A group that has not been decided about, with all its pods there.
Ready(g) ==
    /\ held[g] = 0
    /\ g \notin refused
    /\ \A p \in Members(g) : status[p] = "waiting"

\* All of the group or nothing, and only if there is room.
Grant(g) ==
    /\ Ready(g)
    /\ InUse + Cardinality(Members(g)) <= Capacity
    /\ held' = [held EXCEPT ![g] = Cardinality(Members(g))]
    /\ UNCHANGED <<status, refused>>

\* Only if there is none.
Refuse(g) ==
    /\ Ready(g)
    /\ InUse + Cardinality(Members(g)) > Capacity
    /\ refused' = refused \cup {g}
    /\ UNCHANGED <<status, held>>

Start(p) ==
    /\ status[p] = "waiting"
    /\ held[GroupOf[p]] > 0
    /\ status' = [status EXCEPT ![p] = "running"]
    /\ UNCHANGED <<held, refused>>

Finish(p) ==
    /\ status[p] = "running"
    /\ status' = [status EXCEPT ![p] = "over"]
    /\ UNCHANGED <<held, refused>>

Discard(p) ==
    /\ status[p] = "waiting"
    /\ GroupOf[p] \in refused
    /\ status' = [status EXCEPT ![p] = "over"]
    /\ UNCHANGED <<held, refused>>

Release(g) ==
    /\ held[g] > 0
    /\ \A p \in Members(g) : status[p] = "over"
    /\ held' = [held EXCEPT ![g] = 0]
    /\ UNCHANGED <<status, refused>>

Next ==
    \/ \E p \in Pods : Arrive(p) \/ Start(p) \/ Finish(p) \/ Discard(p)
    \/ \E g \in Groups : Grant(g) \/ Refuse(g) \/ Release(g)

Spec == Init /\ [][Next]_vars
=============================================================================
