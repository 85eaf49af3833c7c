-------------------------- MODULE ProvisionalQueue --------------------------
(***************************************************************************)
(* The path of a pod from the scheduling queue to the River job queue:     *)
(* ScheduleOne pops a pod, Enqueue records it in the provisional tables,   *)
(* Schedule moves every full group to the pending table and then to the    *)
(* work queue.  One goroutine runs this path, one SQL statement at a time; *)
(* nothing wraps the statements in a transaction, so a database error or a *)
(* restart of the scheduler can fall between any two of them.              *)
(*                                                                         *)
(*   podState           what this path can tell of a pod: not created,     *)
(*                      unbound, assumed by the scheduler's cache, being   *)
(*                      deleted, or gone (bound, finished or removed)      *)
(*   activeQ            pods waiting in the Kubernetes scheduling queue    *)
(*   pc, inFlight       the statement ScheduleOne runs next, and its pod   *)
(*   deletePod          the local of that name in ScheduleOne              *)
(*   podsProvisional    rows of pods_provisional                           *)
(*   groupsProvisional  rows of groups_provisional (NoRow when absent)     *)
(*   pendingQueue       groups with a row in pending_queue                 *)
(*   batch              the []JobArgs local of ReadyJobs and Schedule      *)
(*   riverJobs          args of the jobs inserted in river_job, per group  *)
(*   faults             how many faults of each kind have happened         *)
(***************************************************************************)
EXTENDS Integers, Sequences, FiniteSets

CONSTANTS
    Pods,        \* pods that name fluxnetes as their scheduler
    Groups,      \* (group name, namespace) pairs
    NoPod,       \* no pod in flight, or an empty podspec
    GroupOf,     \* the group of each pod
    LabelKind,   \* what the pod's labels say about the group size
    SizeLabel,   \* the value of the group-size label, where it is a number
    DurationOf,  \* activeDeadlineSeconds of the pod, 0 when it has none
    LookupKey,   \* name-namespace, the key under which a group is whittled
    MaxFaults    \* bound on the number of faults of each kind

FaultKinds == {"requeue", "dberror", "restart"}

\* The label is a number, is absent among other labels, is not a number, or
\* the pod has no labels at all (a nil map in Go).
LabelKinds == {"number", "absent", "malformed", "nilmap"}

ASSUME NoPodAssumption == NoPod \notin Pods
ASSUME PodsAssumption == IsFiniteSet(Pods)
ASSUME LabelAssumption ==
    /\ GroupOf \in [Pods -> Groups]
    /\ LabelKind \in [Pods -> LabelKinds]
    /\ SizeLabel \in [Pods -> Int]
    /\ DurationOf \in [Pods -> Nat]
ASSUME FaultAssumption == MaxFaults \in [FaultKinds -> Nat]

VARIABLES podState, activeQ, pc, inFlight, deletePod, podsProvisional,
          groupsProvisional, pendingQueue, batch, riverJobs, faults

envVars    == <<podState, activeQ>>
tableVars  == <<podsProvisional, groupsProvisional, pendingQueue>>
threadVars == <<pc, inFlight, deletePod, batch>>
vars == <<envVars, threadVars, tableVars, riverJobs, faults>>

-----------------------------------------------------------------------------
Steps == {"idle", "checkPending", "insertPod", "increment", "insertGroup",
          "getReadyGroups", "insertPending", "deleteGroups", "insertMany",
          "panicked"}

PodStates == {"none", "unbound", "assumed", "deleting", "gone"}

Row == [size : Int, current : Nat, duration : Nat]

\* A row is created with a current_size of 1, so 0 stands for no row.
NoRow == [size |-> 0, current |-> 0, duration |-> 0]

JobArg == [group : Groups, names : SUBSET Pods, size : Int, duration : Nat,
           podspec : Pods \cup {NoPod}, reservation : BOOLEAN]

\* GetPodGroupSize, for a label it can parse
GroupSize(p) == IF LabelKind[p] = "number" THEN SizeLabel[p] ELSE 1

Members(g) == {p \in Pods : GroupOf[p] = g}

HasRow(g) == groupsProvisional[g].current > 0

\* select name, podspec from pods_provisional where group_name = ...
PodRows(g) == podsProvisional \cap Members(g)

\* The pods an informer lists as unbound, and those skipPodSchedule skips.
Listed == {p \in Pods : podState[p] \in {"unbound", "assumed", "deleting"}}
Skipped == {p \in Pods : podState[p] \in {"assumed", "deleting"}}

-----------------------------------------------------------------------------
Init ==
    /\ podState = [p \in Pods |-> "none"]
    /\ activeQ = {}
    /\ pc = "idle"
    /\ inFlight = NoPod
    /\ deletePod = FALSE
    /\ podsProvisional = {}
    /\ groupsProvisional = [g \in Groups |-> NoRow]
    /\ pendingQueue = {}
    /\ batch = {}
    /\ riverJobs = [g \in Groups |-> <<>>]
    /\ faults = [k \in FaultKinds |-> 0]

Fault(k) ==
    /\ faults[k] < MaxFaults[k]
    /\ faults' = [faults EXCEPT ![k] = @ + 1]

(***************************************************************************)
(* One SQL statement: it succeeds, or it returns an error.  The error can  *)
(* be that of a statement that never ran, or that of a connection lost     *)
(* after the statement was committed.                                      *)
(***************************************************************************)
Exec(effect, noEffect) ==
    \/ /\ effect
       /\ UNCHANGED faults
    \/ /\ Fault("dberror")
       /\ effect \/ noEffect

\* A statement that only reads.
Query == UNCHANGED faults \/ Fault("dberror")

Failed == faults' # faults

-----------------------------------------------------------------------------
(* The cluster: pods are created, change state, and return to the queue.   *)

PodCreated(p) ==
    /\ podState[p] = "none"
    /\ podState' = [podState EXCEPT ![p] = "unbound"]
    /\ activeQ' = activeQ \cup {p}
    /\ UNCHANGED <<threadVars, tableVars, riverJobs, faults>>

\* Unbound pods are assumed or forgotten, are being deleted, or are bound or
\* removed; the event handlers take a gone pod out of the queue.
PodsChanged(ps, state) ==
    /\ ps # {}
    /\ ps \subseteq Listed
    /\ podState' = [p \in Pods |-> IF p \in ps THEN state ELSE podState[p]]
    /\ activeQ' = IF state = "gone" THEN activeQ \ ps ELSE activeQ
    /\ UNCHANGED <<threadVars, tableVars, riverJobs, faults>>

\* An update event, or the failure handler, puts an unbound pod in again.
PodRequeued(p) ==
    /\ p \in Listed \ activeQ
    /\ podState[p] # "assumed"
    /\ Fault("requeue")
    /\ activeQ' = activeQ \cup {p}
    /\ UNCHANGED <<podState, threadVars, tableVars, riverJobs>>

\* The event loop takes the pod that represents a cancelled job out of the
\* scheduling queue, and deletes it when it has no owner.
PodDropped(p) ==
    /\ p \in activeQ
    /\ p \in podsProvisional
    /\ activeQ' = activeQ \ {p}
    /\ \E state \in {podState[p], "deleting"} :
          podState' = [podState EXCEPT ![p] = state]
    /\ UNCHANGED <<threadVars, tableVars, riverJobs, faults>>

-----------------------------------------------------------------------------
(* ScheduleOne: Queue.Enqueue, then Queue.Schedule, then Done.             *)

Goto(step) == pc' = step

\* Queue.Enqueue reads the labels first.  A label that is not a number is an
\* error, after which ScheduleOne still calls Schedule; writing the default
\* size into a nil map of labels panics, and the process dies.
AfterLabels(p) ==
    CASE LabelKind[p] = "nilmap"    -> "panicked"
      [] LabelKind[p] = "malformed" -> "getReadyGroups"
      [] OTHER                      -> "checkPending"

\* NextPod, and skipPodSchedule for a pod that is being deleted or assumed.
NextPod(p) ==
    /\ pc = "idle"
    /\ p \in activeQ
    /\ activeQ' = activeQ \ {p}
    /\ IF p \in Skipped
       THEN UNCHANGED threadVars
       ELSE /\ Goto(AfterLabels(p))
            /\ inFlight' = p
            /\ UNCHANGED <<deletePod, batch>>
    /\ UNCHANGED <<podState, tableVars, riverJobs, faults>>

\* The command tag PostgreSQL returns for IsPendingQuery, which is a select.
CommandTag(g) == <<"SELECT", IF g \in pendingQueue THEN 1 ELSE 0>>

\* A pod whose group is pending is rejected when the tag says INSERT 1.
CheckPending ==
    /\ pc = "checkPending"
    /\ Query
    /\ LET inserted == CommandTag(GroupOf[inFlight]) = <<"INSERT", 1>> IN
          /\ deletePod' = (~Failed /\ inserted)
          /\ Goto(IF Failed \/ inserted THEN "getReadyGroups" ELSE "insertPod")
    /\ UNCHANGED <<envVars, inFlight, batch, tableVars, riverJobs>>

InsertPodMutant ==
    /\ pc = "insertPod"
    /\ Exec(podsProvisional' = podsProvisional \cup {inFlight},
            UNCHANGED podsProvisional)
    /\ Goto("increment")
    /\ UNCHANGED <<envVars, inFlight, deletePod, batch, groupsProvisional,
                   pendingQueue, riverJobs>>

\* InsertIntoProvisionalQuery: inserts the row unless it exists.
InsertPod ==
    /\ pc = "insertPod"
    /\ Exec(podsProvisional' = podsProvisional \cup {inFlight},
            UNCHANGED podsProvisional)
    /\ Goto(IF Failed THEN "getReadyGroups" ELSE "increment")
    /\ UNCHANGED <<envVars, inFlight, deletePod, batch, groupsProvisional,
                   pendingQueue, riverJobs>>

Incremented(g) ==
    IF HasRow(g) THEN [groupsProvisional EXCEPT ![g].current = @ + 1]
                 ELSE groupsProvisional

\* IncrementGroupProvisional: runs for every pod, recorded before or not.
IncrementGroup ==
    /\ pc = "increment"
    /\ Exec(groupsProvisional' = Incremented(GroupOf[inFlight]),
            UNCHANGED groupsProvisional)
    /\ Goto(IF Failed THEN "getReadyGroups" ELSE "insertGroup")
    /\ UNCHANGED <<envVars, inFlight, deletePod, batch, podsProvisional,
                   pendingQueue, riverJobs>>

GroupInserted(p) ==
    IF HasRow(GroupOf[p]) THEN groupsProvisional
    ELSE [groupsProvisional EXCEPT ![GroupOf[p]] =
            [size |-> GroupSize(p), current |-> 1, duration |-> DurationOf[p]]]

\* InsertIntoGroupProvisional: the first pod of the group fixes its size.
InsertGroup ==
    /\ pc = "insertGroup"
    /\ Exec(groupsProvisional' = GroupInserted(inFlight),
            UNCHANGED groupsProvisional)
    /\ Goto("getReadyGroups")
    /\ UNCHANGED <<envVars, inFlight, deletePod, batch, podsProvisional,
                   pendingQueue, riverJobs>>

-----------------------------------------------------------------------------
\* The end of ScheduleOne, whatever Schedule returned.
Done ==
    /\ Goto("idle")
    /\ inFlight' = NoPod
    /\ deletePod' = FALSE
    /\ batch' = {}
    /\ activeQ' = IF deletePod THEN activeQ \ {inFlight} ELSE activeQ
    /\ UNCHANGED podState

ReadyGroupsEarlyMutant ==
    {g \in Groups : HasRow(g)
                 /\ groupsProvisional[g].current + 1 >= groupsProvisional[g].size}

\* SelectGroupsAtSizeQuery
ReadyGroups ==
    {g \in Groups : HasRow(g)
                 /\ groupsProvisional[g].current >= groupsProvisional[g].size}

\* The lookup map keeps one ready group per key.
Whittled(lookup) ==
    \A g \in ReadyGroups :
        Cardinality({h \in lookup : LookupKey[h] = LookupKey[g]}) = 1

\* The podspec of the last row read represents the group.
Representatives(g) == IF PodRows(g) = {} THEN {NoPod} ELSE PodRows(g)

ReadyJob(g, representative) ==
    [group |-> g,
     names |-> PodRows(g),
     size |-> groupsProvisional[g].size,
     duration |-> groupsProvisional[g].duration,
     podspec |-> representative,
     reservation |-> FALSE]

GetReadyGroups ==
    /\ pc = "getReadyGroups"
    /\ Query
    /\ \/ /\ ~Failed
          /\ ReadyGroups # {}
          /\ \E lookup \in SUBSET ReadyGroups :
             \E representative \in [lookup -> Pods \cup {NoPod}] :
                /\ Whittled(lookup)
                /\ \A g \in lookup : representative[g] \in Representatives(g)
                /\ batch' = {ReadyJob(g, representative[g]) : g \in lookup}
          /\ Goto("insertPending")
          /\ UNCHANGED <<envVars, inFlight, deletePod>>
       \/ /\ Failed \/ ReadyGroups = {}
          /\ Done
    /\ UNCHANGED <<tableVars, riverJobs>>

BatchGroups == {job.group : job \in batch}

InsertPendingMutant ==
    /\ pc = "insertPending"
    /\ Exec(pendingQueue' = pendingQueue \cup BatchGroups,
            UNCHANGED pendingQueue)
    /\ Goto("deleteGroups")
    /\ UNCHANGED <<envVars, inFlight, deletePod, batch, podsProvisional,
                   groupsProvisional, riverJobs>>

\* insertPending: one batch, hence one implicit transaction.
InsertPending ==
    /\ pc = "insertPending"
    /\ Exec(pendingQueue' = pendingQueue \cup BatchGroups,
            UNCHANGED pendingQueue)
    /\ IF Failed THEN Done
       ELSE /\ Goto("deleteGroups")
            /\ UNCHANGED <<envVars, inFlight, deletePod, batch>>
    /\ UNCHANGED <<podsProvisional, groupsProvisional, riverJobs>>

GroupsKeptMutant(gs) == groupsProvisional
GroupsReducedMutant(gs) ==
    [g \in Groups |-> IF g \in gs
                      THEN [groupsProvisional[g] EXCEPT !.current = @ - 2]
                      ELSE groupsProvisional[g]]

\* The rows left by DeleteProvisionalGroupsQuery.
GroupsDeleted(gs) ==
    [g \in Groups |-> IF g \in gs THEN NoRow ELSE groupsProvisional[g]]

DeleteGroupsMutant ==
    /\ pc = "deleteGroups"
    /\ groupsProvisional' = GroupsDeleted(BatchGroups)
    /\ podsProvisional' = {p \in podsProvisional : GroupOf[p] \notin BatchGroups}
    /\ Goto("insertMany")
    /\ UNCHANGED <<envVars, inFlight, deletePod, batch, pendingQueue, riverJobs,
                   faults>>

\* deleteGroups: on an error Schedule drops the batch and returns.
DeleteGroups ==
    /\ pc = "deleteGroups"
    /\ Exec(groupsProvisional' = GroupsDeleted(BatchGroups),
            UNCHANGED groupsProvisional)
    /\ IF Failed THEN Done
       ELSE /\ Goto("insertMany")
            /\ UNCHANGED <<envVars, inFlight, deletePod, batch>>
    /\ UNCHANGED <<podsProvisional, pendingQueue, riverJobs>>

\* EasyBackfill.Schedule sets Reservation on the loop variable after it has
\* copied it into the insert parameters: what is inserted is the argument.
Submitted(g) ==
    IF g \in BatchGroups
    THEN Append(riverJobs[g], CHOOSE job \in batch : job.group = g)
    ELSE riverJobs[g]

\* InsertMany, then PostSubmit, which finds no reservation to cancel.
InsertMany ==
    /\ pc = "insertMany"
    /\ Exec(riverJobs' = [g \in Groups |-> Submitted(g)], UNCHANGED riverJobs)
    /\ Done
    /\ UNCHANGED tableVars

\* The process dies and starts again: its cache is empty, so that no pod is
\* assumed, and the informer lists every unbound pod.
Restart ==
    /\ Fault("restart")
    /\ \E ps \in SUBSET {p \in Pods : podState[p] = "assumed"} :
          podState' = [p \in Pods |-> IF podState[p] # "assumed" THEN podState[p]
                                     ELSE IF p \in ps THEN "deleting"
                                     ELSE "unbound"]
    /\ activeQ' = Listed
    /\ pc' = "idle"
    /\ inFlight' = NoPod
    /\ deletePod' = FALSE
    /\ batch' = {}
    /\ UNCHANGED <<tableVars, riverJobs>>

-----------------------------------------------------------------------------
ScheduleOne ==
    \/ \E p \in Pods : NextPod(p)
    \/ CheckPending \/ InsertPod \/ IncrementGroup \/ InsertGroup
    \/ GetReadyGroups \/ InsertPending \/ DeleteGroups \/ InsertMany

Cluster ==
    \/ \E p \in Pods : PodCreated(p) \/ PodRequeued(p) \/ PodDropped(p)
    \/ \E ps \in SUBSET Pods, s \in PodStates \ {"none"} : PodsChanged(ps, s)

Next == ScheduleOne \/ Cluster \/ Restart

Spec == Init /\ [][Next]_vars

-----------------------------------------------------------------------------
TypeOK ==
    /\ podState \in [Pods -> PodStates]
    /\ activeQ \subseteq Pods
    /\ pc \in Steps
    /\ inFlight \in Pods \cup {NoPod}
    /\ deletePod \in BOOLEAN
    /\ podsProvisional \subseteq Pods
    /\ groupsProvisional \in [Groups -> Row]
    /\ pendingQueue \subseteq Groups
    /\ batch \subseteq JobArg
    /\ riverJobs \in [Groups -> Seq(JobArg)]
    /\ faults \in [FaultKinds -> Nat]

Submissions ==
    UNION {{riverJobs[g][i] : i \in DOMAIN riverJobs[g]} : g \in Groups}

Runnable(job) ==
    /\ job.names # {}
    /\ job.names \subseteq PodRows(job.group)
    /\ job.podspec \in job.names

\* A group row stands for pods that are recorded: Enqueue inserts the pod
\* before it counts it, whatever error or restart falls in between, so that
\* the job built from the row has a podspec.
RowHasPods == \A g \in Groups : HasRow(g) => PodRows(g) # {}

\* Every job in the work queue has a row in pending_queue: the worker stores
\* the flux id with an update of that row, which would silently do nothing.
JobsArePending == \A job \in Submissions : job.group \in pendingQueue

\* The event loop gets the podspec of every name of a completed job, and the
\* worker that of its representative, from rows that must still be there.
JobsAreRunnable == \A job \in Submissions : Runnable(job)

\* ReadyJobs submits a group once its pod count has reached its size, so a
\* job asks for no more tasks than it has pods to bind.
QuorumSound ==
    \A job \in Submissions : Cardinality(job.names) >= job.size

\* A group whose pods are as many as its size is submitted once: its pods
\* are not allocated a second time.
OneJobPerGroup == \A g \in Groups : Len(riverJobs[g]) <= 1

\* ReadyJobs deletes a group from the provisional table only when the group
\* is known to be pending.
PendingBeforeDelete ==
    [][\A g \in Groups : HasRow(g) /\ ~HasRow(g)' => g \in pendingQueue]_vars
=============================================================================
