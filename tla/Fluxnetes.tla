----------------------------- MODULE Fluxnetes -----------------------------
(***************************************************************************)
(* The whole scheduler around the queue of ProvisionalQueue: the River     *)
(* workers that ask Fluxion for an allocation, the event loop that binds   *)
(* the pods of a completed job, the goroutines that bind, the informer's   *)
(* delete handler and the deadline cleanup jobs that release allocations.  *)
(* All of them run concurrently and meet in the database, in Fluxion and   *)
(* in the API server.                                                      *)
(*                                                                         *)
(*   phase, host    the pods in the API server; host is the flux id of the *)
(*                  allocation whose node the pod was bound to             *)
(*   doomed         pods with a deletion timestamp                         *)
(*   condemned      pods whose Job was deleted in the background           *)
(*   work           per River job (per group, in order of insertion): its  *)
(*                  state, the flux id its last attempt was given, and the *)
(*                  flux id of the allocation whose nodes are in its args  *)
(*   fluxID         the flux_id column of pending_queue (NULL is -1)       *)
(*   allocs, nextID Fluxion's live allocations and its job counter         *)
(*   events         jobs whose event waits in the subscription channel     *)
(*   loop           waitForJob: listening, returned, about to panic, or    *)
(*                  panicked                                               *)
(*   plans          per pod, the allocations binding goroutines carry      *)
(*   deleteEvents   pods whose delete event the informer has yet to handle *)
(*   informer       the pod DeletePodEvent works on, and its finished flag *)
(*   cleanups       deadline cleanup jobs and the step each is at          *)
(*   disruptions    how many disruptions of each kind have happened        *)
(***************************************************************************)
EXTENDS Integers, Sequences, FiniteSets, FiniteSetsExt

CONSTANTS
    Pods, Groups, NoPod, GroupOf, LabelKind, SizeLabel, DurationOf,
    LookupKey, MaxFaults,   \* as in ProvisionalQueue
    OwnerKind,              \* what owns a pod: nothing, a Job, or another kind
    JobOf,                  \* which Job that is, for pods that one owns
    Capacity,               \* tasks the cluster can run at once
    MaxDisruptions          \* bound on the disruptions of each kind

DisruptionKinds ==
    {"rpc", "sql", "nodes", "api", "podspec", "bind", "nofit", "userDelete",
     "tombstone"}

VARIABLES activeQ, pc, inFlight, deletePod, podsProvisional,
          groupsProvisional, pendingQueue, batch, riverJobs, faults,
          phase, host, doomed, condemned, work, fluxID, allocs, nextID,
          events, loop, plans, deleteEvents, informer, cleanups, disruptions

\* What the queue can tell of a pod.
PodState ==
    [p \in Pods |->
        CASE phase[p] = "none"    -> "none"
          [] phase[p] = "pending" -> IF p \in doomed THEN "deleting" ELSE "unbound"
          [] phase[p] = "assumed" -> "assumed"
          [] OTHER                -> "gone"]

Queue == INSTANCE ProvisionalQueue WITH podState <- PodState

\* What ProvisionalQueue assumes of its constants.
ASSUME QueueAssumption ==
    /\ NoPod \notin Pods
    /\ IsFiniteSet(Pods)
    /\ GroupOf \in [Pods -> Groups]
    /\ LabelKind \in [Pods -> Queue!LabelKinds]
    /\ SizeLabel \in [Pods -> Int]
    /\ DurationOf \in [Pods -> Nat]
    /\ MaxFaults \in [Queue!FaultKinds -> Nat]

ASSUME CapacityAssumption == Capacity \in Nat

queueVars   == <<activeQ, pc, inFlight, deletePod, podsProvisional,
                 groupsProvisional, pendingQueue, batch, riverJobs, faults>>
clusterVars == <<phase, host, doomed, condemned>>
workVars    == <<work, fluxID, events>>
fluxionVars == <<allocs, nextID>>
loopVars    == <<loop, plans>>
cleanVars   == <<deleteEvents, informer, cleanups>>
vars == <<queueVars, clusterVars, workVars, fluxionVars, loopVars, cleanVars,
          disruptions>>

-----------------------------------------------------------------------------
NoID == -1
Idle == [pod |-> NoPod, finished |-> FALSE]
WorkItem == [state : {"available", "matched", "placed", "recorded",
                      "completed", "cancelled"},
             fluxID : Nat \cup {NoID}, nodes : Nat \cup {NoID}]
NewWork == [state |-> "available", fluxID |-> NoID, nodes |-> NoID]

Members(g) == {p \in Pods : GroupOf[p] = g}

\* A panic in any goroutine ends the process.
Alive == pc # "panicked" /\ loop # "panicked"

Disruption(k) ==
    /\ disruptions[k] < MaxDisruptions[k]
    /\ disruptions' = [disruptions EXCEPT ![k] = @ + 1]

\* A statement of a worker: it succeeds, or fails before or after it commits.
Exec(effect, noEffect) ==
    \/ effect /\ UNCHANGED disruptions
    \/ Disruption("sql") /\ (effect \/ noEffect)

Failed == disruptions' # disruptions

Init ==
    /\ phase = [p \in Pods |-> "none"]
    /\ host = [p \in Pods |-> NoID]
    /\ doomed = {}
    /\ condemned = {}
    /\ Queue!Init
    /\ work = [g \in Groups |-> <<>>]
    /\ fluxID = [g \in Groups |-> NoID]
    /\ allocs = {}
    /\ nextID = 0
    /\ events = {}
    /\ loop = "listening"
    /\ plans = [p \in Pods |-> {}]
    /\ deleteEvents = {}
    /\ informer = Idle
    /\ cleanups = {}
    /\ disruptions = [k \in DisruptionKinds |-> 0]

\* SchedulingQueue.Delete, and how the event handlers use it.
DequeuedMutant(p) == activeQ
Dequeued(p) == activeQ \ {p}

-----------------------------------------------------------------------------
(* The cluster: users, controllers, kubelets and the garbage collector.    *)

PodCreated(p) ==
    /\ phase[p] = "none"
    /\ p \notin condemned
    /\ phase' = [phase EXCEPT ![p] = "pending"]
    /\ UNCHANGED <<host, doomed, condemned>>
    /\ Queue!PodCreated(p)
    /\ UNCHANGED <<workVars, fluxionVars, loopVars, cleanVars, disruptions>>

PodRequeued(p) ==
    /\ Alive
    /\ UNCHANGED clusterVars
    /\ Queue!PodRequeued(p)
    /\ UNCHANGED <<workVars, fluxionVars, loopVars, cleanVars, disruptions>>

\* The scheduler's informer only selects pods that are not terminal, so that
\* a pod that terminates is deleted from its point of view.
PodFinishes(p) ==
    /\ phase[p] = "running"
    /\ phase' = [phase EXCEPT ![p] = "done"]
    /\ deleteEvents' = deleteEvents \cup {p}
    /\ UNCHANGED <<queueVars, host, doomed, condemned, workVars, fluxionVars,
                   loopVars, informer, cleanups, disruptions>>

Exists(p) == phase[p] \in {"pending", "assumed", "running", "done"}

UserDeletes(p) ==
    /\ Exists(p)
    /\ p \notin doomed
    /\ Disruption("userDelete")
    /\ doomed' = doomed \cup {p}
    /\ UNCHANGED <<queueVars, phase, host, condemned, workVars, fluxionVars,
                   loopVars, cleanVars>>

\* The pods of a deleted Job are collected one by one.
GarbageCollected(p) ==
    /\ Exists(p)
    /\ p \in condemned \ doomed
    /\ doomed' = doomed \cup {p}
    /\ UNCHANGED <<queueVars, phase, host, condemned, workVars, fluxionVars,
                   loopVars, cleanVars, disruptions>>

\* A doomed pod disappears, its grace period over.
PodRemoved(p) ==
    /\ Exists(p)
    /\ p \in doomed
    /\ phase' = [phase EXCEPT ![p] = "deleted"]
    /\ activeQ' = Dequeued(p)
    /\ deleteEvents' =
          IF phase[p] = "done" THEN deleteEvents ELSE deleteEvents \cup {p}
    /\ UNCHANGED <<pc, inFlight, deletePod, podsProvisional, groupsProvisional,
                   pendingQueue, batch, riverJobs, faults, host, doomed,
                   condemned, workVars, fluxionVars, loopVars, informer,
                   cleanups, disruptions>>

-----------------------------------------------------------------------------
(* ScheduleOne, as in ProvisionalQueue; InsertMany makes jobs available.   *)

ScheduleOneStep ==
    /\ Alive
    /\ UNCHANGED clusterVars
    /\ \/ \E p \in Pods : Queue!NextPod(p)
       \/ Queue!CheckPending \/ Queue!InsertPod \/ Queue!IncrementGroup
       \/ Queue!InsertGroup \/ Queue!GetReadyGroups \/ Queue!InsertPending
       \/ Queue!DeleteGroups
    /\ UNCHANGED <<workVars, fluxionVars, loopVars, cleanVars, disruptions>>

EnlistedMutant(g) ==
    IF riverJobs'[g] = riverJobs[g] THEN work[g] ELSE <<NewWork>>

\* The jobs of a group in the work queue, after the insert.
Enlisted(g) ==
    IF riverJobs'[g] = riverJobs[g] THEN work[g] ELSE Append(work[g], NewWork)

InsertMany ==
    /\ Alive
    /\ UNCHANGED clusterVars
    /\ Queue!InsertMany
    /\ work' = [g \in Groups |-> Enlisted(g)]
    /\ UNCHANGED <<fluxID, events, fluxionVars, loopVars, cleanVars, disruptions>>

-----------------------------------------------------------------------------
(* Fluxion: a greedy matcher over Capacity tasks (external library).       *)

Free == Capacity - MapThenSumSet(LAMBDA a : a.tasks, allocs)

Allocated(g, n) ==
    /\ allocs' = allocs \cup {[id |-> nextID, group |-> g, tasks |-> n]}
    /\ nextID' = nextID + 1

\* Cancel with NoExistOK: no error when there is no such allocation.
Without(id) == {a \in allocs : a.id # id}

-----------------------------------------------------------------------------
(* JobWorker.Work for job i of group g.                                    *)

Jobs == UNION {{<<g, i>> : i \in DOMAIN work[g]} : g \in Groups}

Args(j) == riverJobs[j[1]][j[2]]
StateOf(j) == work[j[1]][j[2]].state
IdOf(j) == work[j[1]][j[2]].fluxID
NodesOf(j) == work[j[1]][j[2]].nodes

Becomes(j, state, id, nodes) ==
    work' = [work EXCEPT ![j[1]][j[2]] =
                [state |-> state, fluxID |-> id, nodes |-> nodes]]

\* The Match request.  Without a reservation a group that does not fit now is
\* neither allocated nor reserved, and the job is cancelled.  When the reply
\* is lost or late the worker returns the error and River tries again.
Match(j) ==
    /\ Alive
    /\ StateOf(j) = "available"
    /\ \/ /\ Args(j).size <= Free
          /\ Allocated(j[1], Args(j).size)
          /\ \/ Becomes(j, "matched", nextID, NodesOf(j)) /\ UNCHANGED disruptions
             \/ Disruption("rpc") /\ UNCHANGED work
          /\ UNCHANGED events
       \/ /\ Args(j).size > Free
          /\ ~Args(j).reservation
          /\ Becomes(j, "cancelled", NoID, NodesOf(j))
          /\ events' = events \cup {j}
          /\ UNCHANGED <<fluxionVars, disruptions>>
    /\ UNCHANGED <<queueVars, clusterVars, fluxID, loopVars, cleanVars>>

\* The job completes, or an error makes River try it again from the start.
Completes(j) ==
    Becomes(j, "completed", IdOf(j), NodesOf(j)) /\ events' = events \cup {j}
Retries(j) == Becomes(j, "available", IdOf(j), NodesOf(j)) /\ UNCHANGED events

\* The nodes of the allocation.  A group without tasks gets an empty list.
NodesGranted(j) == IF Args(j).size > 0 THEN IdOf(j) ELSE NoID

\* UpdateNodesQuery, of which only the error of sending it is returned.  When
\* the statement fails in the database the rows would tell, but are not read:
\* the worker goes on with the nodes of an earlier attempt in the args, or none.
UpdateNodes(j) ==
    /\ Alive
    /\ StateOf(j) = "matched"
    /\ \/ /\ Becomes(j, "placed", IdOf(j), NodesGranted(j))
          /\ UNCHANGED disruptions
       \/ /\ Becomes(j, "placed", IdOf(j), NodesOf(j))
          /\ Disruption("nodes")
       \/ Retries(j) /\ Disruption("sql")
    /\ UNCHANGED <<queueVars, clusterVars, fluxID, events, fluxionVars,
                   loopVars, cleanVars>>

\* UpdatingPendingWithFluxID: an update of the row, when there is one.
RecordedMutant(j) == fluxID
Recorded(j) == IF j[1] \in pendingQueue THEN [fluxID EXCEPT ![j[1]] = IdOf(j)]
               ELSE fluxID

\* UpdatingPendingWithFluxID, tried again with all that precedes it.
RecordFluxID(j) ==
    /\ Alive
    /\ StateOf(j) = "placed"
    /\ Exec(fluxID' = Recorded(j), UNCHANGED fluxID)
    /\ IF Failed THEN Retries(j)
       ELSE IF Args(j).duration > 0
            THEN Becomes(j, "recorded", IdOf(j), NodesOf(j)) /\ UNCHANGED events
            ELSE Completes(j)
    /\ UNCHANGED <<queueVars, clusterVars, fluxionVars, loopVars, cleanVars>>

AfterSubmitMutant(j) == Completes(j)
AfterSubmit(j) == IF Failed THEN Retries(j) ELSE Completes(j)

\* SubmitCleanup, in one transaction.  The deadline is that of the pod that
\* represents the group: a nil pointer when that pod has none, and River turns
\* the panic into a failed attempt.
SubmitCleanup(j) ==
    /\ Alive
    /\ StateOf(j) = "recorded"
    /\ LET cleanup == [id |-> IdOf(j), podspec |-> Args(j).podspec,
                       step |-> "scheduled"] IN
       IF DurationOf[Args(j).podspec] = 0
       THEN Retries(j) /\ UNCHANGED <<cleanups, disruptions>>
       ELSE /\ Exec(cleanups' = cleanups \cup {cleanup}, UNCHANGED cleanups)
            /\ AfterSubmit(j)
    /\ UNCHANGED <<queueVars, clusterVars, fluxID, fluxionVars, loopVars,
                   deleteEvents, informer>>

-----------------------------------------------------------------------------
(* The event loop of Scheduler.Run.                                        *)

ObjectsDeletedMutant(p) ==
    /\ doomed' = IF OwnerKind[p] = "none" /\ Exists(p) THEN doomed \cup {p} ELSE doomed
    /\ UNCHANGED condemned

\* The pods of the Job that owns a pod, whatever their groups.
PodsOfJob(p) == {q \in Pods : OwnerKind[q] = "Job" /\ JobOf[q] = JobOf[p]}

\* deleteObjects: a pod without owner, or the Job that owns it, in background.
ObjectsDeleted(p) ==
    /\ doomed' = IF OwnerKind[p] = "none" /\ Exists(p) THEN doomed \cup {p} ELSE doomed
    /\ condemned' = IF OwnerKind[p] = "Job" THEN condemned \cup PodsOfJob(p)
                    ELSE condemned

\* A cancelled job: its representative pod leaves the scheduling queue, the
\* objects are deleted (or not, when the API server refuses), Cleanup fails on
\* the unformatted delete statement, and waitForJob returns.
HandleCancelled(j) ==
    /\ Alive
    /\ loop = "listening"
    /\ j \in events
    /\ StateOf(j) = "cancelled"
    /\ activeQ' = Dequeued(Args(j).podspec)
    /\ \/ ObjectsDeleted(Args(j).podspec) /\ UNCHANGED disruptions
       \/ Disruption("api") /\ UNCHANGED <<doomed, condemned>>
    /\ loop' = "returned"
    /\ events' = events \ {j}
    /\ UNCHANGED <<pc, inFlight, deletePod, podsProvisional, groupsProvisional,
                   pendingQueue, batch, riverJobs, faults, phase, host, work,
                   fluxID, fluxionVars, plans, cleanVars>>

\* GetNodes splits an empty string into one node without a name.
NodeCount(j) == IF NodesOf(j) = NoID THEN 1 ELSE Args(j).size

\* The sets of names that may get a node, in whatever order they are listed.
ForNodesMutant(j) == {Args(j).names}
ForNodesOfRowsMutant(j) == {podsProvisional \cap Members(j[1])}
ForNodes(j) ==
    {ps \in SUBSET Args(j).names :
        \/ Cardinality(ps) = NodeCount(j)
        \/ ps = Args(j).names /\ Cardinality(ps) < NodeCount(j)}

\* The loop goes on, or is about to index past the last name.
LoopAfterMutant(j) == "returned"
LoopAfter(j) == IF NodeCount(j) > Cardinality(Args(j).names)
                THEN "crashing" ELSE "listening"

\* GetPodSpec finds the row of every name.
HasPodSpecs(ps) == ps \subseteq podsProvisional

\* assume: pods the cache has already, or that are gone, stay as they are.
Assume(ps) ==
    phase' = [p \in Pods |-> IF p \in ps THEN "assumed" ELSE phase[p]]

\* A pod that fits no node is not assumed.
SchedulingCycle(ps) ==
    \/ Assume(ps) /\ UNCHANGED disruptions
    \/ Disruption("nofit") /\ \E fit \in SUBSET ps : fit # ps /\ Assume(fit)

\* A completed job: node i is for name i.  Each pair starts a goroutine.  A pod
\* that is already bound or gone makes its goroutine fail without effect.  The
\* result of schedulingCycle is dropped, so that a pod that was not assumed is
\* bound all the same.  So is the error of GetPodSpec: the loop goes on with a
\* nil pod, after it has started the goroutines of the pairs before.
HandleCompleted(j) ==
    /\ Alive
    /\ loop = "listening"
    /\ j \in events
    /\ StateOf(j) = "completed"
    /\ \E chosen \in ForNodes(j) : \E started \in SUBSET chosen :
          LET unbound == {p \in started : phase[p] \in {"pending", "assumed"}} IN
             /\ HasPodSpecs(started)
             /\ \/ /\ started = chosen
                   /\ SchedulingCycle(unbound)
                   /\ loop' = LoopAfter(j)
                \/ /\ started # chosen
                   /\ IF HasPodSpecs(chosen) THEN Disruption("podspec")
                                             ELSE UNCHANGED disruptions
                   /\ Assume(unbound)
                   /\ loop' = "crashing"
             /\ plans' = [p \in Pods |-> IF p \in unbound
                                         THEN plans[p] \cup {NodesOf(j)} ELSE plans[p]]
    /\ events' = events \ {j}
    /\ UNCHANGED <<queueVars, host, doomed, condemned, work, fluxID,
                   fluxionVars, cleanVars>>

\* The index is out of range, or the pod nil.  The goroutines started before
\* may or may not have run by then.
LoopPanics ==
    /\ Alive
    /\ loop = "crashing"
    /\ loop' = "panicked"
    /\ UNCHANGED <<queueVars, clusterVars, workVars, fluxionVars, plans,
                   cleanVars, disruptions>>

\* bind: the API server binds the pod, and the event handlers see it bound,
\* unless it is bound or gone.
Bound(p, id) ==
    IF phase[p] \in {"pending", "assumed"}
    THEN /\ phase' = [phase EXCEPT ![p] = "running"]
         /\ host' = [host EXCEPT ![p] = id]
         /\ activeQ' = Dequeued(p)
    ELSE UNCHANGED <<phase, host, activeQ>>

\* bindingCycle, in its goroutine.
Bind(p, id) ==
    /\ Alive
    /\ id \in plans[p]
    /\ p \in doomed \/ id = NoID => phase[p] \notin {"pending", "assumed"}
    /\ plans' = [plans EXCEPT ![p] = @ \ {id}]
    /\ Bound(p, id)
    /\ UNCHANGED <<pc, inFlight, deletePod, podsProvisional, groupsProvisional,
                   pendingQueue, batch, riverJobs, faults, doomed, condemned,
                   workVars, fluxionVars, loop, cleanVars, disruptions>>

\* handleBindingCycleError: the cache forgets the pod.  The failure handler's
\* way back into the queue is PodRequeued.  The API server refuses to bind a
\* pod that is being deleted, and to bind to a node without a name.
BindFails(p, id) ==
    /\ Alive
    /\ id \in plans[p]
    /\ phase[p] \in {"pending", "assumed"}
    /\ \/ (p \in doomed \/ id = NoID) /\ UNCHANGED disruptions
       \/ p \notin doomed /\ id # NoID /\ Disruption("bind")
    /\ plans' = [plans EXCEPT ![p] = @ \ {id}]
    /\ phase' = [phase EXCEPT ![p] = "pending"]
    /\ UNCHANGED <<queueVars, host, doomed, condemned, workVars, fluxionVars,
                   loop, cleanVars>>

-----------------------------------------------------------------------------
(* DeletePodEvent, in the informer's goroutine.                            *)

TerminalMutant(p) == phase[p] = "deleted"

\* IsPodPhaseTerminal of what GetGroupPods returns: a pod that is not found
\* is an empty pod, whose phase is not terminal.
Terminal(p) == phase[p] = "done"

\* GetPodsQuery
GroupRowsMutant(p) == {p}
GroupRows(p) == podsProvisional \cap Members(GroupOf[p])

\* GetGroupPods and the finished flag.  A pod the API server does not return
\* because of another error is left out, and so are all when the query fails.
ReadGroupPods(p) ==
    /\ Alive
    /\ informer = Idle
    /\ p \in deleteEvents
    /\ deleteEvents' = deleteEvents \ {p}
    /\ \E seen \in SUBSET GroupRows(p) :
          /\ informer' = [pod |-> p, finished |-> \A q \in seen : Terminal(q)]
          /\ \/ seen = GroupRows(p) /\ UNCHANGED disruptions
             \/ seen # GroupRows(p) /\ Disruption("api")
    /\ UNCHANGED <<queueVars, clusterVars, workVars, fluxionVars, loopVars, cleanups>>

\* After a lost watch the informer delivers a tombstone for a deleted pod, and
\* the type assertion at the head of the handler panics.
Tombstone(p) ==
    /\ Alive
    /\ informer = Idle
    /\ p \in deleteEvents
    /\ Disruption("tombstone")
    /\ deleteEvents' = deleteEvents \ {p}
    /\ loop' = "panicked"
    /\ UNCHANGED <<queueVars, clusterVars, workVars, fluxionVars, plans,
                   informer, cleanups>>

\* GetFluxID and Cleanup: cancel when finished, else fail on the unformatted
\* delete statement.  An error of either is not tried again.
CancelFinished ==
    /\ Alive
    /\ informer # Idle
    /\ LET id == IF informer.finished THEN fluxID[GroupOf[informer.pod]] ELSE NoID IN
       \/ allocs' = (IF id > NoID THEN Without(id) ELSE allocs) /\ UNCHANGED disruptions
       \/ id > NoID /\ Disruption("rpc") /\ UNCHANGED allocs
    /\ informer' = Idle
    /\ UNCHANGED <<queueVars, clusterVars, workVars, nextID, loopVars,
                   deleteEvents, cleanups>>

-----------------------------------------------------------------------------
(* CleanupWorker.Work for a deadline cleanup job.                          *)

\* deleteObjects: an error other than not found makes River try again later.
DeleteObjects(c) ==
    /\ Alive
    /\ c \in cleanups
    /\ c.step = "scheduled"
    /\ \/ /\ ObjectsDeleted(c.podspec)
          /\ cleanups' = (cleanups \ {c}) \cup {[c EXCEPT !.step = "cancel"]}
          /\ UNCHANGED disruptions
       \/ Disruption("api") /\ UNCHANGED <<doomed, condemned, cleanups>>
    /\ UNCHANGED <<queueVars, phase, host, workVars, fluxionVars, loopVars,
                   deleteEvents, informer>>

RetriedMutant(c) == cleanups \ {c}
Retried(c) == (cleanups \ {c}) \cup {[c EXCEPT !.step = "scheduled"]}

\* deleteFluxion, whose error makes River run the whole cleanup again.
CancelDeadline(c) ==
    /\ Alive
    /\ c \in cleanups
    /\ c.step = "cancel"
    /\ \/ /\ allocs' = Without(c.id)
          /\ cleanups' = cleanups \ {c}
          /\ UNCHANGED disruptions
       \/ /\ Disruption("rpc")
          /\ cleanups' = Retried(c)
          /\ UNCHANGED allocs
    /\ UNCHANGED <<queueVars, clusterVars, workVars, nextID, loopVars,
                   deleteEvents, informer>>

-----------------------------------------------------------------------------
\* The scheduler process starts again.  What it held in memory is gone: the
\* cache, the channel, the binding goroutines, the events of pods deleted in
\* the meantime.  River makes the jobs that were running available again.
Restart ==
    /\ phase' = [p \in Pods |-> IF phase[p] = "assumed" THEN "pending" ELSE phase[p]]
    /\ UNCHANGED <<host, doomed, condemned>>
    /\ Queue!Restart
    /\ work' = [g \in Groups |-> [i \in DOMAIN work[g] |->
                  IF work[g][i].state \in {"matched", "placed", "recorded"}
                  THEN [work[g][i] EXCEPT !.state = "available"] ELSE work[g][i]]]
    /\ events' = {}
    /\ loop' = "listening"
    /\ plans' = [p \in Pods |-> {}]
    /\ deleteEvents' = {}
    /\ informer' = Idle
    /\ cleanups' = {[c EXCEPT !.step = "scheduled"] : c \in cleanups}
    /\ UNCHANGED <<fluxID, fluxionVars, disruptions>>

-----------------------------------------------------------------------------
Worker(j) == Match(j) \/ UpdateNodes(j) \/ RecordFluxID(j) \/ SubmitCleanup(j)
EventLoop == \/ \E j \in Jobs : HandleCancelled(j) \/ HandleCompleted(j)
             \/ LoopPanics
Binder(p) == \E id \in plans[p] : Bind(p, id) \/ BindFails(p, id)
Informer == (\E p \in Pods : ReadGroupPods(p)) \/ CancelFinished
Deadline(c) == DeleteObjects(c) \/ CancelDeadline(c)
Cluster(p) == \/ PodCreated(p) \/ PodRequeued(p) \/ PodFinishes(p)
              \/ UserDeletes(p) \/ GarbageCollected(p) \/ PodRemoved(p)

Next ==
    \/ ScheduleOneStep \/ InsertMany
    \/ \E j \in Jobs : Worker(j)
    \/ EventLoop
    \/ Informer
    \/ \E c \in cleanups : Deadline(c)
    \/ \E p \in Pods : Binder(p) \/ Cluster(p) \/ Tombstone(p)
    \/ Restart

Spec == Init /\ [][Next]_vars

\* Every goroutine of the scheduler and every River worker keeps running, and
\* Kubernetes removes what it was told to remove.  Nothing is assumed of the
\* users, of how long a pod runs, or of faults.
Fairness ==
    /\ WF_vars(ScheduleOneStep \/ InsertMany)
    /\ WF_vars(\E j \in Jobs : Worker(j))
    /\ WF_vars(EventLoop)
    /\ WF_vars(\E p \in Pods : Binder(p))
    /\ WF_vars(Informer)
    /\ WF_vars(\E c \in cleanups : Deadline(c))
    /\ WF_vars(\E p \in Pods : GarbageCollected(p) \/ PodRemoved(p))

FairSpec == Spec /\ Fairness

-----------------------------------------------------------------------------
TypeOK ==
    /\ Queue!TypeOK
    /\ phase \in [Pods -> {"none", "pending", "assumed", "running", "done", "deleted"}]
    /\ host \in [Pods -> Nat \cup {NoID}]
    /\ doomed \subseteq Pods /\ condemned \subseteq Pods
    /\ work \in [Groups -> Seq(WorkItem)]
    /\ \A g \in Groups : Len(work[g]) = Len(riverJobs[g])
    /\ fluxID \in [Groups -> Nat \cup {NoID}]
    /\ allocs \subseteq [id : Nat, group : Groups, tasks : Int]
    /\ nextID \in Nat
    /\ events \subseteq Jobs
    /\ loop \in {"listening", "returned", "crashing", "panicked"}
    /\ plans \in [Pods -> SUBSET (Nat \cup {NoID})]
    /\ deleteEvents \subseteq Pods
    /\ informer \in [pod : Pods \cup {NoPod}, finished : BOOLEAN]
    /\ cleanups \subseteq [id : Nat, podspec : Pods, step : {"scheduled", "cancel"}]
    /\ disruptions \in [DisruptionKinds -> Nat]

OnNodesOf(id) == {p \in Pods : phase[p] = "running" /\ host[p] = id}

Released(g) == \A a \in allocs : a.group # g

Over(p) == phase[p] \in {"done", "deleted"}

\* The event loop binds to an allocation no more pods than it has tasks,
\* whatever jobs, retries and restarts the pods went through.
AllocationsHoldTheirPods ==
    \A a \in allocs : Cardinality(OnNodesOf(a.id)) <= a.tasks

\* A pod runs where a completed job that names it put it, on nodes that were
\* granted to that job and to no other: stale or repeated events, retries and
\* second jobs of its group never bind a pod to nodes granted for something
\* else.  The nodes are those of the id that is recorded and cancelled later,
\* unless an update of the nodes failed unseen: then they may be those of an
\* earlier attempt of the same job.
HostWasGranted ==
    \A p \in Pods : phase[p] = "running" =>
        \E j \in Jobs :
            /\ StateOf(j) = "completed"
            /\ NodesOf(j) = host[p]
            /\ p \in Args(j).names
            /\ \A k \in Jobs \ {j} : host[p] \notin {IdOf(k), NodesOf(k)}
            /\ disruptions["nodes"] = 0 => IdOf(j) = host[p]

\* DeletePodEvent cancels in Fluxion only if ALL pods in the group are done: a
\* pod that runs, and that nobody asked to delete, still owns its resources.
RunningIsAllocated ==
    \A p \in Pods : phase[p] = "running" /\ p \notin doomed \cup condemned =>
        \E a \in allocs : a.id = host[p]

\* Every live allocation can still be released: its id is known to a worker
\* that is about to record it, or is the one in the pending row.
NoOrphanedAllocation ==
    \A a \in allocs :
        \/ fluxID[a.group] = a.id
        \/ \E j \in Jobs : StateOf(j) \in {"matched", "placed"} /\ IdOf(j) = a.id

\* Seen from the tables, the composed system behaves as ProvisionalQueue: the
\* workers, the event loop and the informer do to the pods and to the
\* scheduling queue only what the queue's own model allows for.
QueueSpec == Queue!Spec

\* What GangScheduler sees of the pods and of Fluxion.
Status ==
    [p \in Pods |->
        CASE phase[p] = "none"                   -> "absent"
          [] phase[p] \in {"pending", "assumed"} -> "waiting"
          [] phase[p] = "running"                -> "running"
          [] OTHER                               -> "over"]

Held ==
    [g \in Groups |->
        MapThenSumSet(LAMBDA a : a.tasks, {a \in allocs : a.group = g})]

\* The groups whose job was cancelled.
Refused == {j[1] : j \in {k \in Jobs : StateOf(k) = "cancelled"}}

Gang == INSTANCE GangScheduler WITH status <- Status, held <- Held, refused <- Refused

\* Without faults the tables, workers, event loop and handlers together are a
\* gang scheduler: a group is allocated as a whole, once, when all its pods
\* are there, its pods are bound only while it is, and Fluxion gets the
\* resources back only when all of them are over; pods are deleted only when
\* their group found the cluster full.
GangSpec == Gang!Spec

\* When all the pods of a group have finished, DeletePodEvent of the last one
\* releases the group's resources.
ReleasedWhenDone ==
    \A g \in Groups : (\A p \in Members(g) : phase[p] = "done") ~> Released(g)

\* A group whose pods all exist is queued, allocated and bound, all of it.
GroupIsBound ==
    \A g \in Groups :
        (\A p \in Members(g) : phase[p] # "none")
           ~> (\A p \in Members(g) : phase[p] = "running" \/ Over(p))

\* A pod with a deadline does not run forever: the cleanup job SubmitCleanup
\* has scheduled deletes it, though River runs the worker again after errors.
DeadlineEnforced ==
    \A p \in Pods : (phase[p] = "running" /\ DurationOf[p] > 0) ~> Over(p)

\* The resources of a completed job with a duration always have an end: while
\* they are allocated a cleanup job for them waits, however often statements
\* failed and the worker asked Fluxion again.
DeadlineArmed ==
    \A j \in Jobs, a \in allocs :
        StateOf(j) = "completed" /\ Args(j).duration > 0 /\ IdOf(j) = a.id
           => \E c \in cleanups : c.id = a.id

\* Bound on the flux ids followed by DeadlineReleases.
TrackedIDs == 0 .. 3

\* The allocation a scheduled cleanup job names is released in the end, though
\* the cancel request may fail and be retried.
DeadlineReleases ==
    \A id \in TrackedIDs : (\E c \in cleanups : c.id = id) ~> Without(id) = allocs

-----------------------------------------------------------------------------
(* What comments and docs say, and the code does not do.                   *)

\* Design: the nodes and pod names of a completed job are taken and bound.
CompletedIsBound ==
    \A p \in Pods :
        (\E j \in Jobs : StateOf(j) = "completed" /\ p \in Args(j).names)
           ~> (phase[p] = "running" \/ Over(p))

\* GetGroupPods: a pod the API server does not find is ignored, so that the
\* resources of a group are released when its pods, bound before, are deleted.
ReleasedWhenDeleted ==
    \A g \in Groups :
        (\A p \in Members(g) : phase[p] = "deleted" /\ host[p] # NoID) ~> Released(g)
=============================================================================
