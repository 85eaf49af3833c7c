----------------------------- MODULE CpuLedger -----------------------------
(***************************************************************************)
(* What the sidecar promises to those who call it, without a graph, cores, *)
(* jobspecs or answers that are parsed: while it runs it keeps a ledger of *)
(* cpu.  The room on each node is fixed when it begins to serve.  A job is *)
(* granted tasks on nodes, never more than it asked for and never beyond   *)
(* the room, under a number of its own; its grant is given back as a whole *)
(* and no other with it; and only the end of the process forgets grants.   *)
(*                                                                         *)
(*   room     per node that is served, the cpu it had left, in milli       *)
(*   grants   per job, what it asked for and the tasks it holds on nodes   *)
(*   nextID   the number of the next job                                   *)
(***************************************************************************)
EXTENDS Integers, FiniteSets, FiniteSetsExt

CONSTANTS
    Nodes,      \* what may be served
    Orders      \* what may be asked for: count tasks of milli cpu each;
                \*   complete, if fewer tasks will not do; together, if they
                \*   are to be on one node

VARIABLES room, grants, nextID

vars == <<room, grants, nextID>>

Sum(f) == MapThenSumSet(LAMBDA x : f[x], DOMAIN f)

\* What a job holds on all nodes, and the cpu that jobs hold on one.
TasksOf(tasks) == Sum(tasks)
Taken(gs, k) == Sum([g \in gs |-> g.tasks[k] * g.order.milli])

Init == room = <<>> /\ grants = {} /\ nextID = 1

Open ==
    /\ room = <<>> /\ grants = {}
    /\ \E served \in SUBSET Nodes : room' \in [served -> Nat]
    /\ UNCHANGED <<grants, nextID>>

\* What may be granted for an order.
Fits(o, tasks) ==
    /\ TasksOf(tasks) <= o.count
    /\ o.complete => TasksOf(tasks) = o.count
    /\ o.together => \A j, k \in DOMAIN tasks : tasks[j] > 0 /\ tasks[k] > 0 => j = k

Grant ==
    /\ nextID' = nextID + 1
    /\ UNCHANGED room
    /\ \A g \in grants : g.id # nextID
    /\ \E o \in Orders : \E tasks \in [DOMAIN room -> 0 .. o.count] :
          /\ Fits(o, tasks)
          /\ grants' = grants \cup {[id |-> nextID, order |-> o, tasks |-> tasks]}
    /\ \A k \in DOMAIN room : Taken(grants', k) <= room[k]

Release ==
    /\ UNCHANGED <<nextID, room>>
    /\ \E g \in grants : grants' = grants \ {g}

Close ==
    /\ nextID' = 1
    /\ room' = <<>> /\ grants' = {}

Next == Open \/ Grant \/ Release \/ Close

Spec == Init /\ [][Next]_vars
=============================================================================
