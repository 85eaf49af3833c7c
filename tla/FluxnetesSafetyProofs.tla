----------------------- MODULE FluxnetesSafetyProofs -----------------------
(***************************************************************************)
(* Proofs of the safety invariants of Fluxnetes:                           *)
(*                                                                         *)
(*   DeadlinesAreArmed              under every fault;                     *)
(*   HostsAreGranted                under every fault, the failing update  *)
(*                                  of the nodes included;                 *)
(*   AllocationsAreNotOverbooked    where no size label is negative;       *)
(*   NoAllocationIsOrphaned         where pods are enqueued once, no reply *)
(*                                  is lost and deadlines agree;           *)
(*   RunningPodsKeepTheirResources  where pods are enqueued once, nobody   *)
(*                                  deletes them behind the scheduler's    *)
(*                                  back, and Jobs and groups agree.       *)
(*                                                                         *)
(* Each rests on an inductive invariant of its own, built on IdInv: what   *)
(* is known of the flux ids that Fluxion has handed out so far.            *)
(***************************************************************************)
EXTENDS FluxnetesProofs

-----------------------------------------------------------------------------
(* What a step does to the allocations.                                    *)

\* The ids of jobs and allocations.
LEMMA IdTypes ==
  ASSUME TypeInv
  PROVE  /\ nextID \in Nat
         /\ \A j \in Jobs : /\ IdOf(j) \in Nat \cup {NoID}
                            /\ NodesOf(j) \in Nat \cup {NoID}
                            /\ NodesGranted(j) \in {IdOf(j), NoID}
         /\ \A a \in allocs : a.id \in Nat
  <1>1. ASSUME NEW j \in Jobs
        PROVE  IdOf(j) \in Nat \cup {NoID} /\ NodesOf(j) \in Nat \cup {NoID}
    <2>1. work[j[1]][j[2]] \in WorkItem
      BY JobsDef DEF TypeInv, TypeOK
    <2> QED BY <2>1 DEF IdOf, NodesOf, WorkItem
  <1> QED BY <1>1 DEF TypeInv, TypeOK, NodesGranted

\* Fluxion allocates for job j, and the worker gets the answer or does not.
AllocatesFor(j) ==
    /\ Allocated(j[1], Args(j).size)
    /\ StateOf(j) = "available"
    /\ Jobs' = Jobs
    /\ \/ StateOf(j)' = "matched" /\ IdOf(j)' = nextID
       \/ StateOf(j)' = "available" /\ IdOf(j)' = IdOf(j) /\ Failed
    /\ \A k \in Jobs \ {j} : StateOf(k)' = StateOf(k) /\ IdOf(k)' = IdOf(k)
    /\ \A k \in Jobs : NodesOf(k)' = NodesOf(k)

\* Allocations are released, or one is made, under a new id.
AllocsMove ==
    \/ allocs' \subseteq allocs /\ nextID' = nextID
    \/ \E j \in Jobs : Match(j) /\ AllocatesFor(j)

\* Match for job j.
LEMMA MatchAllocates ==
  ASSUME TypeInv, NEW j \in Jobs, Match(j)
  PROVE  \/ allocs' = allocs /\ nextID' = nextID
         \/ AllocatesFor(j)
<1>1. CASE UNCHANGED fluxionVars
  BY <1>1 DEF fluxionVars
<1>2. CASE /\ Allocated(j[1], Args(j).size)
           /\ Becomes(j, "matched", nextID, NodesOf(j))
  <2>1. riverJobs' = riverJobs /\ StateOf(j) = "available"
    BY DEF Match, queueVars
  <2>2. [state |-> "matched", fluxID |-> nextID, nodes |-> NodesOf(j)] \in WorkItem
    BY IdTypes DEF WorkItem
  <2>3. /\ Jobs' = Jobs
        /\ \A k \in Jobs :
              /\ StateOf(k)' = IF k = j THEN "matched" ELSE StateOf(k)
              /\ IdOf(k)' = IF k = j THEN nextID ELSE IdOf(k)
              /\ NodesOf(k)' = NodesOf(k)
    BY <1>2, <2>1, <2>2, OneJobMoves
  <2> QED BY <1>2, <2>1, <2>3 DEF AllocatesFor
<1>3. CASE Allocated(j[1], Args(j).size) /\ Disruption("rpc") /\ UNCHANGED work
  <2>1. Failed
    BY <1>3, DisruptionCounted DEF Failed, DisruptionKinds
  <2> QED BY <1>3, <2>1 DEF Match, AllocatesFor, Jobs, StateOf, IdOf, NodesOf
<1> QED BY <1>1, <1>2, <1>3 DEF Match

\* Only Match allocates.
LEMMA AllocsStep ==
  ASSUME TypeInv, [Next]_vars
  PROVE  AllocsMove
<1>a. CASE UNCHANGED fluxionVars
  BY <1>a DEF AllocsMove, fluxionVars
<1>1. CASE ScheduleOneStep \/ InsertMany
  BY <1>a, <1>1 DEF ScheduleOneStep, InsertMany
<1>2. ASSUME NEW j \in Jobs, Worker(j) PROVE AllocsMove
  BY <1>a, <1>2, MatchAllocates DEF Worker, UpdateNodes, RecordFluxID,
                                    SubmitCleanup, AllocsMove
<1>3. CASE EventLoop
  BY <1>a, <1>3 DEF EventLoop, HandleCancelled, HandleCompleted, LoopPanics
<1>4. CASE Informer
  BY <1>a, <1>4 DEF Informer, ReadGroupPods, CancelFinished, Without, AllocsMove
<1>5. ASSUME NEW c \in cleanups, Deadline(c) PROVE AllocsMove
  BY <1>a, <1>5 DEF Deadline, DeleteObjects, CancelDeadline, Without, AllocsMove
<1>6. ASSUME NEW p \in Pods, Binder(p) \/ Tombstone(p) PROVE AllocsMove
  BY <1>a, <1>6 DEF Binder, Bind, BindFails, Tombstone
<1>7. ASSUME NEW p \in Pods, Cluster(p) PROVE AllocsMove
  BY <1>a, <1>7 DEF Cluster, PodCreated, PodRequeued, PodFinishes, UserDeletes,
                    GarbageCollected, PodRemoved
<1>8. CASE Restart
  BY <1>a, <1>8 DEF Restart
<1>9. CASE UNCHANGED vars
  BY <1>a, <1>9 DEF vars
<1> QED BY <1>1, <1>2, <1>3, <1>4, <1>5, <1>6, <1>7, <1>8, <1>9 DEF Next

-----------------------------------------------------------------------------
(* Flux ids name one grant each.                                           *)

\* Job j was granted id, and still has it: as the id of its last attempt, or
\* as the allocation whose nodes are in its args.
Has(j, id) == id # NoID /\ id \in {IdOf(j), NodesOf(j)}

\* Ids are given out in order.
IdsBelow ==
    /\ \A j \in Jobs : IdOf(j) < nextID /\ NodesOf(j) < nextID
    /\ \A a \in allocs : a.id < nextID

\* No two jobs have the same id.
IdsDistinct == \A j, k \in Jobs : \A id : Has(j, id) /\ Has(k, id) => j = k

\* An allocation is as large as the job that has its id asked for.
AllocsAgree ==
    \A a \in allocs, j \in Jobs :
        Has(j, a.id) => a.tasks = Args(j).size /\ a.group = j[1]

IdInv == TypeInv /\ IdsBelow /\ IdsDistinct /\ AllocsAgree

\* The ids a job has after a step it had before, unless Fluxion just gave it one.
HasMoves ==
    \A j \in Jobs' : \A id :
        Has(j, id)' => /\ j \in Jobs
                       /\ \/ Has(j, id)
                          \/ id = nextID /\ AllocatesFor(j)

\* All moves of jobs keep to it.
LEMMA HasStep ==
  ASSUME TypeInv, [Next]_vars
  PROVE  HasMoves
<1> SUFFICES ASSUME NEW j \in Jobs', NEW id, Has(j, id)'
             PROVE  j \in Jobs /\ (Has(j, id) \/ (id = nextID /\ AllocatesFor(j)))
  BY DEF HasMoves
<1>1. JobsMove /\ AllocsMove
  BY JobsStep, AllocsStep
<1>2. id # NoID /\ id \in {IdOf(j)', NodesOf(j)'}
  BY DEF Has
<1>3. j \in Jobs /\ JobMoves(j)
  BY <1>1, <1>2 DEF JobsMove
<1>4. NodesGranted(j) \in {IdOf(j), NoID} /\ nextID \in Nat
  BY <1>3, IdTypes
<1>5. CASE IdOf(j)' \in {IdOf(j), NoID} /\ NodesOf(j)' \in {IdOf(j), NodesOf(j), NoID}
  BY <1>2, <1>3, <1>5 DEF Has
<1>6. CASE IdOf(j)' = nextID /\ nextID' = nextID + 1 /\ NodesOf(j)' = NodesOf(j)
  <2>1. PICK k \in Jobs : AllocatesFor(k)
    BY <1>1, <1>4, <1>6 DEF AllocsMove
  <2>2. CASE j = k
    BY <1>2, <1>3, <1>6, <2>1, <2>2 DEF Has
  <2>3. CASE j # k
    <3>1. IdOf(j)' = IdOf(j)
      BY <1>3, <2>1, <2>3 DEF AllocatesFor
    <3> QED BY <1>2, <1>3, <1>6, <3>1 DEF Has
  <2> QED BY <2>2, <2>3
<1> QED BY <1>3, <1>4, <1>5, <1>6 DEF JobMoves

\* IdInv is inductive.
LEMMA IdStep == IdInv /\ [Next]_vars => IdInv'
<1> SUFFICES ASSUME IdInv, [Next]_vars PROVE IdInv'
  OBVIOUS
<1>1. TypeInv /\ TypeInv'
  BY TypeStep DEF IdInv
<1>2. JobsMove /\ AllocsMove /\ HasMoves
  BY <1>1, JobsStep, AllocsStep, HasStep
<1>3. /\ nextID \in Nat
      /\ \A j \in Jobs : IdOf(j) \in Nat \cup {NoID} /\ NodesOf(j) \in Nat \cup {NoID}
      /\ \A a \in allocs : a.id \in Nat /\ a.id # NoID
  BY <1>1, IdTypes DEF NoID
<1>4. IdsBelow /\ IdsDistinct /\ AllocsAgree
  BY DEF IdInv
<1>5. /\ \A j \in Jobs' : Args(j)' = Args(j) \/ j \notin Jobs
      /\ \A j \in Jobs' : IdOf(j)' \in Nat \cup {NoID} /\ NodesOf(j)' \in Nat \cup {NoID}
  <2>1. \A j \in Jobs' : IdOf(j)' \in Nat \cup {NoID} /\ NodesOf(j)' \in Nat \cup {NoID}
    <3>1. \A j \in Jobs : NodesGranted(j) \in {IdOf(j), NoID}
      BY <1>1, IdTypes
    <3> QED BY <1>2, <1>3, <3>1 DEF JobsMove, JobMoves
  <2> QED BY <1>2, <2>1 DEF JobsMove
<1>6. \A j \in Jobs : \A id : Has(j, id) => id \in Nat /\ id < nextID
  BY <1>3, <1>4 DEF Has, IdsBelow
<1>7. nextID' \in Nat /\ nextID <= nextID' /\ (nextID' = nextID \/ nextID' = nextID + 1)
  BY <1>2, <1>3 DEF AllocsMove, AllocatesFor, Allocated
<1>8. IdsBelow'
  <2>1. ASSUME NEW j \in Jobs', NEW id \in {IdOf(j)', NodesOf(j)'} PROVE id < nextID'
    <3>1. CASE id = NoID
      BY <1>7, <3>1 DEF NoID
    <3>2. CASE id = nextID /\ AllocatesFor(j)
      BY <1>3, <3>2 DEF AllocatesFor, Allocated
    <3>3. id = NoID \/ Has(j, id)'
      BY <2>1 DEF Has
    <3>4. id = NoID \/ (j \in Jobs /\ (Has(j, id) \/ (id = nextID /\ AllocatesFor(j))))
      BY <1>2, <3>3 DEF HasMoves
    <3>5. CASE j \in Jobs /\ Has(j, id)
      <4>1. id \in Nat /\ id < nextID
        BY <1>6, <3>5
      <4> QED BY <1>3, <1>7, <4>1
    <3> QED BY <3>1, <3>2, <3>4, <3>5
  <2>2. ASSUME NEW a \in allocs' PROVE a.id < nextID'
    <3>1. CASE a \in allocs
      BY <1>3, <1>4, <1>7, <3>1 DEF IdsBelow
    <3>2. CASE a \notin allocs
      <4>1. a.id = nextID /\ nextID' = nextID + 1
        BY <1>2, <3>2 DEF AllocsMove, AllocatesFor, Allocated
      <4> QED BY <1>3, <4>1
    <3> QED BY <3>1, <3>2
  <2> QED BY <2>1, <2>2 DEF IdsBelow
<1>9. IdsDistinct'
  <2> SUFFICES ASSUME NEW j \in Jobs', NEW k \in Jobs', NEW id, Has(j, id)', Has(k, id)'
               PROVE  j = k
    BY DEF IdsDistinct
  <2>1. /\ j \in Jobs /\ (Has(j, id) \/ (id = nextID /\ AllocatesFor(j)))
        /\ k \in Jobs /\ (Has(k, id) \/ (id = nextID /\ AllocatesFor(k)))
    BY <1>2 DEF HasMoves
  <2>2. CASE Has(j, id) /\ Has(k, id)
    BY <1>4, <2>1, <2>2 DEF IdsDistinct
  <2>3. CASE id = nextID
    <3>1. ~Has(j, id) /\ ~Has(k, id)
      <4>1. ~(nextID < nextID)
        BY <1>3
      <4> QED BY <1>6, <2>1, <2>3, <4>1
    <3>2. AllocatesFor(j) /\ AllocatesFor(k)
      BY <2>1, <3>1
    <3>3. ASSUME j # k PROVE FALSE
      <4>1. IdOf(k)' = IdOf(k) /\ NodesOf(k)' = NodesOf(k)
        BY <2>1, <3>2, <3>3 DEF AllocatesFor
      <4> QED BY <3>1, <4>1 DEF Has
    <3> QED BY <3>3
  <2> QED BY <2>1, <2>2, <2>3
<1>10. AllocsAgree'
  <2> SUFFICES ASSUME NEW a \in allocs', NEW j \in Jobs', Has(j, a.id)'
               PROVE  a.tasks = Args(j)'.size /\ a.group = j[1]
    BY DEF AllocsAgree
  <2>1. j \in Jobs /\ Args(j)' = Args(j)
    BY <1>2, <1>5 DEF HasMoves
  <2>2. CASE a \in allocs
    <3>1. a.id # nextID
      BY <1>3, <1>4, <2>2 DEF IdsBelow
    <3>2. Has(j, a.id)
      BY <1>2, <3>1 DEF HasMoves
    <3> QED BY <1>4, <2>1, <2>2, <3>2 DEF AllocsAgree
  <2>3. CASE a \notin allocs
    <3>1. PICK k \in Jobs : AllocatesFor(k)
      BY <1>2, <2>3 DEF AllocsMove
    <3>2. /\ a.id = nextID /\ a.tasks = Args(k).size /\ a.group = k[1]
      BY <2>3, <3>1 DEF AllocatesFor, Allocated
    <3>3. ~Has(j, a.id)
      <4>1. ~(nextID < nextID)
        BY <1>3
      <4> QED BY <1>6, <2>1, <3>2, <4>1
    <3>4. j = k
      BY <2>1, <3>1, <3>3 DEF AllocatesFor, Has
    <3> QED BY <2>1, <3>2, <3>4
  <2> QED BY <2>2, <2>3
<1> QED BY <1>1, <1>8, <1>9, <1>10 DEF IdInv

\* No job and no allocation at the start.
LEMMA IdInit == Init => IdInv
<1>1. ASSUME Init PROVE Jobs = {} /\ allocs = {}
  BY <1>1 DEF Init, Jobs
<1> QED BY <1>1, TypeInit DEF IdInv, IdsBelow, IdsDistinct, AllocsAgree

-----------------------------------------------------------------------------
(* Deadlines.                                                              *)

\* A cleanup job stays until the allocation it names is released.
CleanupsStay ==
    \A c \in cleanups : \/ \E d \in cleanups' : d.id = c.id
                        \/ \A a \in allocs' : a.id # c.id

\* Retries and restarts keep a cleanup job; a cancel ends it.
LEMMA CleanupsStep ==
  ASSUME TypeInv, [Next]_vars
  PROVE  CleanupsStay
<1> DEFINE Cleanup == [id : Nat, podspec : Pods, step : {"scheduled", "cancel"}]
<1>1. cleanups \subseteq Cleanup
  BY DEF TypeInv, TypeOK
<1>a. CASE cleanups \subseteq cleanups'
  BY <1>a DEF CleanupsStay
<1>2. CASE ScheduleOneStep \/ InsertMany
  BY <1>a, <1>2 DEF ScheduleOneStep, InsertMany, cleanVars
<1>3. ASSUME NEW j \in Jobs, Worker(j) PROVE CleanupsStay
  BY <1>a, <1>3 DEF Worker, Match, UpdateNodes, RecordFluxID, SubmitCleanup, Exec,
                    cleanVars
<1>4. CASE EventLoop
  BY <1>a, <1>4 DEF EventLoop, HandleCancelled, HandleCompleted, LoopPanics, cleanVars
<1>5. CASE Informer
  BY <1>a, <1>5 DEF Informer, ReadGroupPods, CancelFinished
<1>6. ASSUME NEW c \in cleanups, DeleteObjects(c) PROVE CleanupsStay
  <2>1. [c EXCEPT !.step = "cancel"].id = c.id
    BY <1>1
  <2> QED BY <1>6, <2>1 DEF DeleteObjects, CleanupsStay
<1>7. ASSUME NEW c \in cleanups, CancelDeadline(c) PROVE CleanupsStay
  <2>1. [c EXCEPT !.step = "scheduled"].id = c.id
    BY <1>1
  <2> QED BY <1>7, <2>1 DEF CancelDeadline, Retried, Without, CleanupsStay
<1>8. ASSUME NEW p \in Pods, Binder(p) \/ Tombstone(p) PROVE CleanupsStay
  BY <1>a, <1>8 DEF Binder, Bind, BindFails, Tombstone, cleanVars
<1>9. ASSUME NEW p \in Pods, Cluster(p) PROVE CleanupsStay
  BY <1>a, <1>9 DEF Cluster, PodCreated, PodRequeued, PodFinishes, UserDeletes,
                    GarbageCollected, PodRemoved, cleanVars
<1>10. CASE Restart
  <2>1. \A c \in cleanups : [c EXCEPT !.step = "scheduled"].id = c.id
    BY <1>1
  <2>2. cleanups' = {[c EXCEPT !.step = "scheduled"] : c \in cleanups}
    BY <1>10 DEF Restart
  <2> QED BY <2>1, <2>2 DEF CleanupsStay
<1>11. CASE UNCHANGED vars
  BY <1>a, <1>11 DEF vars, cleanVars
<1> QED
  BY <1>2, <1>3, <1>4, <1>5, <1>6, <1>7, <1>8, <1>9, <1>10, <1>11
     DEF Next, Deadline

\* A job that completes in this step, and what it leaves behind.
CompletesNow(j) == StateOf(j) # "completed" /\ StateOf(j)' = "completed"

\* A worker that is not told of an error did what it was asked to.
LEMMA ExecSucceeds ==
  ASSUME TypeInv, Disruption("sql")
  PROVE  Failed
  BY DisruptionCounted DEF Failed, DisruptionKinds

\* A job completes at the end of an attempt only, its cleanup submitted.
LEMMA CompletionArmed ==
  ASSUME TypeInv, [Next]_vars, NEW j \in Jobs, CompletesNow(j),
         Args(j).duration > 0
  PROVE  \E c \in cleanups' : c.id = IdOf(j)
<1>1. PICK k \in Jobs : Worker(k)
  BY OnlyWorkersAdvance DEF CompletesNow
<1>2. /\ work[k[1]][k[2]] \in WorkItem /\ IdOf(k) \in Nat \cup {NoID}
      /\ NodesOf(k) \in Nat \cup {NoID} /\ NodesGranted(k) \in Nat \cup {NoID}
      /\ riverJobs' = riverJobs
  BY <1>1, JobsDef, IdTypes, WorkerAttempts DEF TypeInv, TypeOK, queueVars
<1>3. ASSUME NEW state \in {"available", "matched", "placed", "recorded",
                            "completed", "cancelled"},
             NEW id \in Nat \cup {NoID}, NEW nodes \in Nat \cup {NoID},
             Becomes(k, state, id, nodes)
      PROVE  j = k /\ state = "completed"
  <2>1. [state |-> state, fluxID |-> id, nodes |-> nodes] \in WorkItem
    BY DEF WorkItem
  <2>2. StateOf(j)' = IF j = k THEN state ELSE StateOf(j)
    BY <1>2, <1>3, <2>1, OneJobMoves
  <2> QED BY <2>2 DEF CompletesNow
<1>4. ~ UNCHANGED work
  BY DEF CompletesNow, StateOf
<1>5. CASE Match(k)
  <2>1. nextID \in Nat
    BY IdTypes
  <2> QED BY <1>2, <1>3, <1>4, <1>5, <2>1 DEF Match
<1>6. CASE UpdateNodes(k)
  BY <1>2, <1>3, <1>6 DEF UpdateNodes, Retries
<1>7. CASE RecordFluxID(k)
  BY <1>2, <1>3, <1>7 DEF RecordFluxID, Retries, Completes
<1>8. CASE SubmitCleanup(k)
  <2>1. ~Retries(k)
    BY <1>2, <1>3 DEF Retries
  <2>2. j = k
    BY <1>2, <1>3, <1>8, <2>1 DEF SubmitCleanup, AfterSubmit, Completes
  <2>3. ~Failed
    BY <1>8, <2>1 DEF SubmitCleanup, AfterSubmit, Failed
  <2> DEFINE new == [id |-> IdOf(j), podspec |-> Args(j).podspec,
                     step |-> "scheduled"]
  <2>4. cleanups' = cleanups \cup {new}
    BY <1>8, <2>1, <2>2, <2>3, ExecSucceeds DEF SubmitCleanup, Exec
  <2>5. new.id = IdOf(j)
    OBVIOUS
  <2> HIDE DEF new
  <2> QED BY <2>4, <2>5
<1> QED BY <1>1, <1>5, <1>6, <1>7, <1>8 DEF Worker

\* DeadlineArmed is inductive once ids are known to name one grant each.
LEMMA ArmedStep ==
  ASSUME IdInv, DeadlineArmed, [Next]_vars
  PROVE  DeadlineArmed'
<1> SUFFICES ASSUME NEW j \in Jobs', NEW a \in allocs',
                    StateOf(j)' = "completed", Args(j)'.duration > 0,
                    IdOf(j)' = a.id
             PROVE  \E c \in cleanups' : c.id = a.id
  BY DEF DeadlineArmed
<1>1. TypeInv /\ JobsMove /\ AllocsMove /\ CleanupsStay
  BY JobsStep, AllocsStep, CleanupsStep DEF IdInv
<1>2. j \in Jobs /\ Args(j)' = Args(j) /\ JobMoves(j)
  BY <1>1 DEF JobsMove
<1>3. IdOf(j)' = IdOf(j)
  BY <1>2 DEF JobMoves
<1>4. CASE CompletesNow(j)
  BY <1>1, <1>2, <1>3, <1>4, CompletionArmed
<1>5. CASE StateOf(j) = "completed"
  <2>1. a \in allocs
    <3>1. ASSUME NEW k \in Jobs, AllocatesFor(k), a \notin allocs PROVE FALSE
      <4>1. a.id = nextID
        BY <3>1 DEF AllocatesFor, Allocated
      <4>2. IdOf(j) # nextID
        BY <1>1, <1>2, IdTypes DEF IdInv, IdsBelow, NoID
      <4> QED BY <1>3, <4>1, <4>2
    <3> QED BY <1>1, <3>1 DEF AllocsMove
  <2>2. PICK c \in cleanups : c.id = a.id
    BY <1>2, <1>3, <1>5, <2>1 DEF DeadlineArmed
  <2> QED BY <1>1, <2>2 DEF CleanupsStay
<1> QED BY <1>4, <1>5 DEF CompletesNow

\* The resources of a completed job with a duration have an end: while they
\* are allocated a cleanup job for them waits, whatever statement or reply was
\* lost, however often the worker ran, and across restarts.
THEOREM DeadlinesAreArmed == Spec => []DeadlineArmed
<1>1. Init => DeadlineArmed
  BY DEF Init, DeadlineArmed
<1> QED BY <1>1, IdInit, IdStep, ArmedStep, PTL DEF Spec

-----------------------------------------------------------------------------
(* What a step does to bindings and to the events of completed jobs.       *)

\* A pod gets its host from a goroutine that binds it.
HostsMove ==
    \A p \in Pods :
        \/ /\ host'[p] = host[p]
           /\ phase'[p] = "running" => phase[p] = "running"
        \/ host'[p] \in plans[p] /\ host'[p] # NoID

\* The event loop hands the nodes of job j to some of the pods it names.
Hands(j, chosen) ==
    /\ j \in events /\ StateOf(j) = "completed"
    /\ events' = events \ {j} /\ host' = host
    /\ \A p \in Pods :
          plans'[p] \subseteq plans[p] \cup (IF p \in chosen THEN {NodesOf(j)} ELSE {})

\* Goroutines end, or the event loop starts some for a completed job.
PlansMove ==
    \/ \A p \in Pods : plans'[p] \subseteq plans[p]
    \/ \E j \in Jobs : \E chosen \in ForNodes(j) : Hands(j, chosen)

\* An event is sent when a job ends, not again.
EventsMove == \A j \in events' : j \in events \/ StateOf(j) # "completed"

BindingsMove == HostsMove /\ PlansMove /\ EventsMove

\* All steps, one by one.
LEMMA BindingsStep ==
  ASSUME TypeInv, [Next]_vars
  PROVE  BindingsMove
<1> DEFINE Phase == {"none", "pending", "assumed", "running", "done", "deleted"}
<1>1. /\ phase \in [Pods -> Phase] /\ host \in [Pods -> Nat \cup {NoID}]
      /\ plans \in [Pods -> SUBSET (Nat \cup {NoID})]
  BY DEF TypeInv, TypeOK
<1>a. ASSUME UNCHANGED <<host, plans>>, events' \subseteq events,
             \A p \in Pods : phase'[p] = "running" => phase[p] = "running"
      PROVE  BindingsMove
  BY <1>a DEF BindingsMove, HostsMove, PlansMove, EventsMove
<1>2. CASE ScheduleOneStep \/ InsertMany
  BY <1>a, <1>2 DEF ScheduleOneStep, InsertMany, clusterVars, workVars, loopVars
<1>3. ASSUME NEW j \in Jobs, Worker(j) PROVE BindingsMove
  <2>1. UNCHANGED <<phase, host, plans>>
    BY <1>3 DEF Worker, Match, UpdateNodes, RecordFluxID, SubmitCleanup,
                clusterVars, loopVars
  <2>2. events' \in {events, events \cup {j}} /\ StateOf(j) # "completed"
    BY <1>3 DEF Worker, Match, UpdateNodes, RecordFluxID, SubmitCleanup,
                AfterSubmit, Retries, Completes
  <2> QED BY <2>1, <2>2 DEF BindingsMove, HostsMove, PlansMove, EventsMove
<1>4. ASSUME NEW j \in Jobs, HandleCancelled(j) PROVE BindingsMove
  BY <1>a, <1>4 DEF HandleCancelled
<1>5. ASSUME NEW j \in Jobs, HandleCompleted(j) PROVE BindingsMove
  <2>1. /\ j \in events /\ StateOf(j) = "completed"
        /\ events' = events \ {j} /\ host' = host
    BY <1>5 DEF HandleCompleted
  <2>2. PICK chosen \in ForNodes(j) : \E started \in SUBSET chosen :
          LET unbound == {p \in started : phase[p] \in {"pending", "assumed"}} IN
             /\ SchedulingCycle(unbound) \/ Assume(unbound)
             /\ plans' = [p \in Pods |-> IF p \in unbound
                                         THEN plans[p] \cup {NodesOf(j)} ELSE plans[p]]
    BY <1>5 DEF HandleCompleted
  <2>3. Hands(j, chosen)
    BY <2>1, <2>2 DEF Hands
  <2>4. \A p \in Pods : phase'[p] = "running" => phase[p] = "running"
    BY <2>2 DEF SchedulingCycle, Assume
  <2> QED BY <2>1, <2>3, <2>4 DEF BindingsMove, HostsMove, PlansMove, EventsMove
<1>6. CASE LoopPanics
  BY <1>a, <1>6 DEF LoopPanics, clusterVars, workVars
<1>7. CASE Informer
  BY <1>a, <1>7 DEF Informer, ReadGroupPods, CancelFinished, clusterVars,
                    workVars, loopVars
<1>8. ASSUME NEW c \in cleanups, Deadline(c) PROVE BindingsMove
  BY <1>a, <1>8 DEF Deadline, DeleteObjects, CancelDeadline, clusterVars,
                    workVars, loopVars
<1>9. ASSUME NEW p \in Pods, NEW id \in plans[p], Bind(p, id) PROVE BindingsMove
  <2>1. /\ events' = events /\ plans' = [plans EXCEPT ![p] = @ \ {id}]
        /\ \/ /\ phase' = [phase EXCEPT ![p] = "running"]
              /\ host' = [host EXCEPT ![p] = id] /\ id # NoID
           \/ UNCHANGED <<phase, host>>
    BY <1>9 DEF Bind, Bound, workVars
  <2> QED BY <1>1, <2>1 DEF BindingsMove, HostsMove, PlansMove, EventsMove
<1>10. ASSUME NEW p \in Pods, NEW id \in plans[p], BindFails(p, id)
       PROVE  BindingsMove
  <2>1. /\ events' = events /\ plans' = [plans EXCEPT ![p] = @ \ {id}]
        /\ phase' = [phase EXCEPT ![p] = "pending"] /\ host' = host
    BY <1>10 DEF BindFails, workVars
  <2> QED BY <1>1, <2>1 DEF BindingsMove, HostsMove, PlansMove, EventsMove
<1>11. ASSUME NEW p \in Pods, Tombstone(p) PROVE BindingsMove
  BY <1>a, <1>11 DEF Tombstone, clusterVars, workVars
<1>12. ASSUME NEW p \in Pods, Cluster(p) PROVE BindingsMove
  <2>1. UNCHANGED <<host, plans, events>>
    BY <1>12 DEF Cluster, PodCreated, PodRequeued, PodFinishes, UserDeletes,
       GarbageCollected, PodRemoved, clusterVars, workVars, loopVars
  <2>2. \/ UNCHANGED phase
        \/ \E s \in {"pending", "done", "deleted"} : phase' = [phase EXCEPT ![p] = s]
    BY <1>12 DEF Cluster, PodCreated, PodRequeued, PodFinishes, UserDeletes,
       GarbageCollected, PodRemoved, clusterVars
  <2> QED BY <1>1, <1>a, <2>1, <2>2
<1>13. CASE Restart
  BY <1>1, <1>13 DEF Restart, BindingsMove, HostsMove, PlansMove, EventsMove
<1>14. CASE UNCHANGED vars
  BY <1>a, <1>14 DEF vars, clusterVars, workVars, loopVars
<1> QED
  BY <1>2, <1>3, <1>4, <1>5, <1>6, <1>7, <1>8, <1>9, <1>10, <1>11, <1>12,
     <1>13, <1>14 DEF Next, EventLoop, Binder

-----------------------------------------------------------------------------
(* Pods run where a completed job put them.                                *)

Granted(p, id) ==
    \E j \in Jobs : /\ StateOf(j) = "completed"
                    /\ NodesOf(j) = id
                    /\ p \in Args(j).names

\* What a goroutine carries, and where a pod is bound, was granted to the pod.
Grants ==
    \A p \in Pods :
        /\ \A id \in plans[p] : Granted(p, id)
        /\ host[p] # NoID => Granted(p, host[p])
        /\ phase[p] = "running" => host[p] # NoID

\* A completed job stays as it is.
LEMMA CompletedStays ==
  ASSUME JobsMove, NEW j \in Jobs, StateOf(j) = "completed"
  PROVE  /\ j \in Jobs' /\ StateOf(j)' = "completed"
         /\ IdOf(j)' = IdOf(j) /\ NodesOf(j)' = NodesOf(j) /\ Args(j)' = Args(j)
  BY DEF JobsMove, JobMoves

\* What the event loop chooses for the nodes of a job are pods it names.
LEMMA ChosenNames ==
  ASSUME NEW j, NEW chosen \in ForNodes(j)
  PROVE  chosen \subseteq Args(j).names
  BY DEF ForNodes

\* Grants is inductive.
LEMMA GrantsStep ==
  ASSUME TypeInv, Grants, [Next]_vars
  PROVE  Grants'
<1>1. JobsMove /\ BindingsMove
  BY JobsStep, BindingsStep
<1>2. \A p, id : Granted(p, id) => Granted(p, id)'
  BY <1>1, CompletedStays DEF Granted
<1> SUFFICES ASSUME NEW p \in Pods
             PROVE  /\ \A id \in plans'[p] : Granted(p, id)'
                    /\ (host[p] # NoID => Granted(p, host[p]))'
                    /\ phase'[p] = "running" => host'[p] # NoID
  BY DEF Grants
<1>4. \A id \in plans[p] : Granted(p, id)
  BY DEF Grants
<1>5. ASSUME NEW id \in plans'[p] PROVE Granted(p, id)'
  <2>1. CASE id \in plans[p]
    BY <1>2, <1>4, <2>1
  <2>2. CASE id \notin plans[p]
    <3>1. PICK j \in Jobs : \E chosen \in ForNodes(j) :
             Hands(j, chosen) /\ p \in chosen /\ id = NodesOf(j)
      BY <1>1, <2>2 DEF BindingsMove, PlansMove, Hands
    <3>2. Granted(p, id)
      BY <3>1, ChosenNames DEF Granted, Hands
    <3> QED BY <1>2, <3>2
  <2> QED BY <2>1, <2>2
<1>6. ASSUME NEW id, id = host'[p], id # NoID PROVE Granted(p, id)'
  BY <1>1, <1>2, <1>4, <1>6 DEF Grants, BindingsMove, HostsMove
<1>7. phase'[p] = "running" => host'[p] # NoID
  BY <1>1, <1>4 DEF Grants, BindingsMove, HostsMove
<1>8. (host[p] # NoID => Granted(p, host[p]))'
  BY <1>6 DEF Granted
<1> QED BY <1>5, <1>7, <1>8

\* No pod is bound at the start.
LEMMA GrantsInit == Init => Grants
  BY DEF Init, Grants

\* No update of the nodes fails unseen: the job has those of its last attempt.
NodesFresh ==
    disruptions["nodes"] = 0 =>
        \A j \in Jobs : StateOf(j) \in {"placed", "recorded", "completed"} =>
                            NodesOf(j) = NodesGranted(j)

\* Disruptions are counted and not forgotten.
LEMMA DisruptionsStep ==
  ASSUME [Next]_vars
  PROVE  disruptions' = disruptions \/ \E k \in DisruptionKinds : Disruption(k)
<1> USE DEF DisruptionKinds
<1>1. CASE ScheduleOneStep \/ InsertMany
  BY <1>1 DEF ScheduleOneStep, InsertMany
<1>2. CASE \E j \in Jobs : Worker(j)
  BY <1>2 DEF Worker, Match, UpdateNodes, RecordFluxID, SubmitCleanup, Exec
<1>3. CASE EventLoop
  BY <1>3 DEF EventLoop, HandleCancelled, HandleCompleted, SchedulingCycle, LoopPanics
<1>4. CASE Informer
  BY <1>4 DEF Informer, ReadGroupPods, CancelFinished
<1>5. CASE \E c \in cleanups : Deadline(c)
  BY <1>5 DEF Deadline, DeleteObjects, CancelDeadline
<1>6. CASE \E p \in Pods : Binder(p) \/ Tombstone(p)
  BY <1>6 DEF Binder, Bind, BindFails, Tombstone
<1>7. CASE \E p \in Pods : Cluster(p)
  BY <1>7 DEF Cluster, PodCreated, PodRequeued, PodFinishes, UserDeletes,
              GarbageCollected, PodRemoved
<1>8. CASE Restart \/ UNCHANGED vars
  BY <1>8 DEF Restart, vars
<1> QED BY <1>1, <1>2, <1>3, <1>4, <1>5, <1>6, <1>7, <1>8 DEF Next

\* Counting takes a counter up.
LEMMA DisruptionsGrow ==
  ASSUME TypeInv, NEW k \in DisruptionKinds, Disruption(k)
  PROVE  /\ \A l \in DisruptionKinds : disruptions'[l] >= disruptions[l]
         /\ disruptions'[k] > 0
<1>1. disruptions \in [DisruptionKinds -> Nat]
  BY DEF TypeInv, TypeOK
<1>2. disruptions' = [disruptions EXCEPT ![k] = disruptions[k] + 1]
  BY DEF Disruption
<1>3. ASSUME NEW l \in DisruptionKinds
      PROVE  disruptions'[l] = IF l = k THEN disruptions[l] + 1 ELSE disruptions[l]
  BY <1>1, <1>2
<1>4. \A l \in DisruptionKinds : disruptions[l] \in Nat
  BY <1>1
<1> QED BY <1>3, <1>4

\* Only an update that fails unseen leaves a job with other nodes.
LEMMA FreshStep ==
  ASSUME TypeInv, NodesFresh, [Next]_vars
  PROVE  NodesFresh'
<1> SUFFICES ASSUME disruptions'["nodes"] = 0, NEW j \in Jobs',
                    StateOf(j)' \in {"placed", "recorded", "completed"}
             PROVE  NodesOf(j)' = NodesGranted(j)'
  BY DEF NodesFresh
<1>1. "nodes" \in DisruptionKinds /\ disruptions["nodes"] \in Nat
  BY DEF TypeInv, TypeOK, DisruptionKinds
<1>2. disruptions["nodes"] = 0
  BY <1>1, DisruptionsStep, DisruptionsGrow
<1>3. ~Disruption("nodes")
  <2>1. ~(0 > 0)
    OBVIOUS
  <2> QED BY <1>1, <2>1, DisruptionsGrow
<1>4. j \in Jobs /\ Args(j)' = Args(j) /\ JobMoves(j)
  BY JobsStep DEF JobsMove
<1>5. IdOf(j)' = IdOf(j) => NodesGranted(j)' = NodesGranted(j)
  BY <1>4 DEF NodesGranted
<1> QED BY <1>2, <1>3, <1>4, <1>5 DEF JobMoves, NodesFresh

\* What is known of bindings and of ids together.
HostInv == IdInv /\ Grants /\ NodesFresh

\* A pod runs where a completed job that names it put it, on nodes that were
\* granted to that job and to no other, whatever jobs, retries, lost events
\* and restarts it went through.  When no update of the nodes fails unseen the
\* nodes are those of the id that is recorded and cancelled later.
THEOREM HostsAreGranted == Spec => []HostWasGranted
<1>1. HostInv => HostWasGranted
  <2> SUFFICES ASSUME HostInv, NEW p \in Pods, phase[p] = "running"
               PROVE  \E j \in Jobs :
                         /\ StateOf(j) = "completed"
                         /\ NodesOf(j) = host[p]
                         /\ p \in Args(j).names
                         /\ \A k \in Jobs \ {j} : host[p] \notin {IdOf(k), NodesOf(k)}
                         /\ disruptions["nodes"] = 0 => IdOf(j) = host[p]
    BY DEF HostWasGranted
  <2>1. host[p] # NoID
    BY DEF HostInv, Grants
  <2>2. PICK j \in Jobs : /\ StateOf(j) = "completed" /\ NodesOf(j) = host[p]
                          /\ p \in Args(j).names
    BY <2>1 DEF HostInv, Grants, Granted
  <2>3. \A k \in Jobs \ {j} : host[p] \notin {IdOf(k), NodesOf(k)}
    BY <2>1, <2>2 DEF HostInv, IdInv, IdsDistinct, Has
  <2>4. disruptions["nodes"] = 0 => IdOf(j) = host[p]
    <3>1. NodesGranted(j) \in {IdOf(j), NoID}
      BY IdTypes DEF HostInv, IdInv
    <3> QED BY <2>1, <2>2, <3>1 DEF HostInv, NodesFresh
  <2> QED BY <2>2, <2>3, <2>4
<1>2. HostInv /\ [Next]_vars => HostInv'
  BY IdStep, GrantsStep, FreshStep DEF HostInv, IdInv
<1>3. Init => HostInv
  BY IdInit, GrantsInit DEF Init, HostInv, NodesFresh, Jobs
<1> QED BY <1>1, <1>2, <1>3, PTL DEF Spec

-----------------------------------------------------------------------------
(* Allocations hold their pods.                                            *)

\* The queue's invariant about labels is one of the composed system.
LEMMA LabelsStep ==
  ASSUME TypeInv, QueueProofs!LabelInv, [Next]_vars
  PROVE  QueueProofs!LabelInv'
  BY QueueStep, SameQueue, QueueAssumptions, QueueProofs!LabelStep

\* It holds at the start.
LEMMA LabelsInit == Init => QueueProofs!LabelInv
  BY SameQueue, QueueAssumptions, QueueProofs!LabelInit DEF Init

\* A job has its group's name, and the size and duration one of its pods has.
LEMMA LabelsOfJob ==
  ASSUME TypeInv, QueueProofs!LabelInv, NEW j \in Jobs
  PROVE  /\ Args(j).group = j[1]
         /\ \E p \in Pods : /\ GroupOf[p] = j[1]
                            /\ Args(j).size = Queue!GroupSize(p)
                            /\ Args(j).duration = DurationOf[p]
<1>1. j[1] \in Groups /\ j[2] \in DOMAIN riverJobs[j[1]]
  BY JobsDef DEF TypeInv, TypeOK, Queue!TypeOK
<1>2. Args(j).group = j[1] /\ QueueProofs!FromLabel(Args(j), j[1])
  BY <1>1 DEF Args, QueueProofs!LabelInv, QueueProofs!JobsFromLabels
<1> QED BY <1>2 DEF QueueProofs!FromLabel, Queue!GroupSize, QueueProofs!GroupSize

\* A job names recorded pods of its group.
LEMMA NamesOfJob ==
  ASSUME TypeInv, QueueProofs!LabelInv, NEW j \in Jobs
  PROVE  /\ Args(j).names \subseteq podsProvisional \cap Members(j[1])
         /\ Args(j).podspec \in Args(j).names
<1>1. Args(j) \in QueueProofs!Submissions
  BY JobsDef DEF Args, QueueProofs!Submissions, TypeInv, TypeOK, Queue!TypeOK
<1>2. QueueProofs!Runnable(Args(j)) /\ Args(j).group = j[1]
  BY <1>1, LabelsOfJob
     DEF TypeInv, QueueProofs!SafeInv, QueueProofs!JobsAreRunnable
<1> QED BY <1>2 DEF QueueProofs!Runnable, QueueProofs!PodRows,
                    QueueProofs!Members, Members

\* No label gives a group a negative size.
SizesNotNegative == \A p \in Pods : Queue!GroupSize(p) >= 0

\* The pods that run, or may come to run, on the nodes of an allocation.
Users(id) == {p \in Pods : id \in plans[p] \/ host[p] = id}

\* The nodes of a completed job have no more of them than it asked for, and
\* none before the event loop has taken its event.
UsersWithin ==
    \A j \in Jobs : StateOf(j) = "completed" /\ NodesOf(j) # NoID =>
        /\ Cardinality(Users(NodesOf(j))) <= Args(j).size
        /\ j \in events => Users(NodesOf(j)) = {}

\* No allocation is smaller than nothing.
TasksNotNegative == \A a \in allocs : a.tasks >= 0

HoldInv ==
    /\ IdInv /\ QueueProofs!LabelInv /\ Grants
    /\ UsersWithin /\ TasksNotNegative

\* Users and chosen pods are finitely many.
LEMMA PodSetsFinite ==
  ASSUME NEW ps, ps \subseteq Pods
  PROVE  IsFiniteSet(ps) /\ Cardinality(ps) \in Nat
  BY QueueAssumption, FS_Subset, FS_CardinalityType

\* The event loop chooses no more pods than the job has tasks.
LEMMA ChosenWithin ==
  ASSUME TypeInv, NEW j \in Jobs, NEW chosen \in ForNodes(j), NodesOf(j) # NoID
  PROVE  chosen \subseteq Pods /\ Cardinality(chosen) <= Args(j).size
<1>1. chosen \subseteq Pods
  BY ChosenNames, ArgsOfJob
<1>2. Cardinality(chosen) \in Nat /\ Args(j).size \in Int
  BY <1>1, PodSetsFinite, ArgsOfJob DEF Queue!JobArg
<1> QED BY <1>1, <1>2 DEF ForNodes, NodeCount

\* HoldInv is inductive.
LEMMA HoldStep ==
  ASSUME SizesNotNegative, HoldInv, [Next]_vars
  PROVE  HoldInv'
<1>1. TypeInv /\ IdInv /\ IdInv' /\ Grants'
  BY IdStep, GrantsStep DEF HoldInv, IdInv
<1>2. QueueProofs!LabelInv /\ QueueProofs!LabelInv'
  BY <1>1, LabelsStep DEF HoldInv
<1>3. JobsMove /\ BindingsMove /\ AllocsMove
  BY <1>1, JobsStep, BindingsStep, AllocsStep
<1>4. \A j \in Jobs : Args(j).size \in Int /\ Args(j).size >= 0
  BY <1>1, <1>2, LabelsOfJob, ArgsOfJob DEF SizesNotNegative, Queue!JobArg
<1>5. TasksNotNegative'
  <2>1. CASE allocs' \subseteq allocs
    BY <2>1 DEF HoldInv, TasksNotNegative
  <2>2. ASSUME NEW j \in Jobs, AllocatesFor(j) PROVE TasksNotNegative'
    BY <1>4, <2>2 DEF AllocatesFor, Allocated, HoldInv, TasksNotNegative
  <2> QED BY <1>3, <2>1, <2>2 DEF AllocsMove
<1>6. UsersWithin'
  <2> SUFFICES ASSUME NEW j \in Jobs', StateOf(j)' = "completed", NodesOf(j)' # NoID
               PROVE  /\ (Cardinality(Users(NodesOf(j))) <= Args(j).size)'
                      /\ (j \in events => Users(NodesOf(j)) = {})'
    BY DEF UsersWithin
  <2>1. j \in Jobs /\ Args(j)' = Args(j) /\ JobMoves(j)
    BY <1>3 DEF JobsMove
  <2> DEFINE id == NodesOf(j)
  <2>2. NodesOf(j)' = id
    BY <2>1 DEF JobMoves
  <2>3. id \in Nat /\ id # NoID
    BY <1>1, <2>1, <2>2, IdTypes
  <2> DEFINE after == {p \in Pods : id \in plans'[p] \/ host'[p] = id}
  <2>4. Users(NodesOf(j))' = after
    BY <2>2 DEF Users
  <2>5. Args(j).size \in Int /\ Args(j).size >= 0
    BY <1>4, <2>1
  <2>6. \A p \in Pods : host'[p] = id => host[p] = id \/ id \in plans[p]
    BY <1>3 DEF BindingsMove, HostsMove
  <2> HIDE DEF id
  <2>7. \/ after \subseteq Users(id)
        \/ /\ StateOf(j) = "completed" /\ j \in events /\ j \notin events'
           /\ \E chosen \in ForNodes(j) : after \subseteq Users(id) \cup chosen
    <3>1. CASE \A p \in Pods : plans'[p] \subseteq plans[p]
      BY <2>6, <3>1 DEF Users
    <3>2. ASSUME NEW k \in Jobs, NEW chosen \in ForNodes(k), Hands(k, chosen)
          PROVE  \/ after \subseteq Users(id)
                 \/ /\ StateOf(j) = "completed" /\ j \in events /\ j \notin events'
                    /\ \E ps \in ForNodes(j) : after \subseteq Users(id) \cup ps
      <4>1. after \subseteq Users(id) \cup (IF NodesOf(k) = id THEN chosen ELSE {})
        BY <2>6, <3>2 DEF Users, Hands
      <4>2. NodesOf(k) = id => k = j
        BY <1>1, <2>1, <2>3 DEF IdInv, IdsDistinct, Has, id
      <4> QED BY <3>2, <4>1, <4>2 DEF Hands
    <3> QED BY <1>3, <3>1, <3>2 DEF BindingsMove, PlansMove
  <2>8. Users(id) \subseteq Pods /\ after \subseteq Pods
    BY DEF Users
  <2> HIDE DEF after
  <2>9. CASE StateOf(j) = "completed"
    <3>1. /\ Cardinality(Users(id)) <= Args(j).size
          /\ j \in events => Users(id) = {}
      BY <2>1, <2>3, <2>9 DEF HoldInv, UsersWithin, id
    <3>2. CASE after \subseteq Users(id)
      <4>1. Cardinality(after) <= Cardinality(Users(id))
        BY <2>8, <3>2, PodSetsFinite, FS_Subset
      <4>2. Cardinality(after) <= Args(j).size
        BY <2>5, <2>8, <3>1, <4>1, PodSetsFinite
      <4>3. j \in events' => after = {}
        BY <1>3, <2>9, <3>1, <3>2 DEF BindingsMove, EventsMove
      <4> QED BY <2>1, <2>4, <4>2, <4>3
    <3>3. ASSUME NEW chosen \in ForNodes(j), after \subseteq Users(id) \cup chosen,
                 j \in events, j \notin events'
          PROVE  Cardinality(after) <= Args(j).size /\ j \notin events'
      <4>1. after \subseteq chosen
        BY <3>1, <3>3
      <4>2. chosen \subseteq Pods /\ Cardinality(chosen) <= Args(j).size
        BY <1>1, <2>1, <2>3, ChosenWithin DEF id
      <4>3. Cardinality(after) <= Cardinality(chosen)
        BY <4>1, <4>2, PodSetsFinite, FS_Subset
      <4> QED BY <2>5, <2>8, <3>3, <4>2, <4>3, PodSetsFinite
    <3> QED BY <2>1, <2>4, <2>7, <3>2, <3>3
  <2>10. CASE StateOf(j) # "completed"
    <3>1. Users(id) = {}
      <4> SUFFICES ASSUME NEW p \in Users(id) PROVE FALSE
        OBVIOUS
      <4>1. Granted(p, id)
        BY <2>3 DEF Users, HoldInv, Grants
      <4>2. PICK k \in Jobs : StateOf(k) = "completed" /\ NodesOf(k) = id
        BY <4>1 DEF Granted
      <4> QED BY <1>1, <2>1, <2>3, <2>10, <4>2 DEF IdInv, IdsDistinct, Has, id
    <3>2. after = {}
      BY <2>7, <2>10, <3>1
    <3> QED BY <2>1, <2>4, <2>5, <3>2, FS_EmptySet
  <2> QED BY <2>9, <2>10
<1> QED BY <1>1, <1>2, <1>5, <1>6 DEF HoldInv

\* Nothing is bound or allocated at the start.
LEMMA HoldInit == Init => HoldInv
<1> SUFFICES ASSUME Init PROVE HoldInv
  OBVIOUS
<1>1. Jobs = {} /\ allocs = {}
  BY DEF Init, Jobs
<1> QED BY <1>1, IdInit, LabelsInit, GrantsInit
        DEF HoldInv, UsersWithin, TasksNotNegative

\* No more pods run on the nodes of an allocation than it has tasks, whatever
\* jobs, retries, repeated events and restarts the pods went through, as long
\* as no label says a negative size.
THEOREM AllocationsAreNotOverbooked ==
  SizesNotNegative => (Spec => []AllocationsHoldTheirPods)
<1> SUFFICES ASSUME SizesNotNegative PROVE Spec => []AllocationsHoldTheirPods
  OBVIOUS
<1>1. HoldInv => AllocationsHoldTheirPods
  <2> SUFFICES ASSUME HoldInv, NEW a \in allocs
               PROVE  Cardinality(OnNodesOf(a.id)) <= a.tasks
    BY DEF AllocationsHoldTheirPods
  <2>1. TypeInv /\ a.id \in Nat /\ a.id # NoID /\ a.tasks \in Int
    BY DEF HoldInv, IdInv, TypeInv, TypeOK, NoID
  <2>2. CASE OnNodesOf(a.id) = {}
    BY <2>1, <2>2, FS_EmptySet DEF HoldInv, TasksNotNegative
  <2>3. CASE OnNodesOf(a.id) # {}
    <3>1. PICK p \in Pods : host[p] = a.id
      BY <2>3 DEF OnNodesOf
    <3>2. PICK j \in Jobs : StateOf(j) = "completed" /\ NodesOf(j) = a.id
      BY <2>1, <3>1 DEF HoldInv, Grants, Granted
    <3>3. Cardinality(Users(a.id)) <= a.tasks
      BY <2>1, <3>2 DEF HoldInv, UsersWithin, IdInv, AllocsAgree, Has
    <3>4. OnNodesOf(a.id) \subseteq Users(a.id) /\ Users(a.id) \subseteq Pods
      BY DEF OnNodesOf, Users
    <3>5. Cardinality(OnNodesOf(a.id)) <= Cardinality(Users(a.id))
      BY <3>4, PodSetsFinite, FS_Subset
    <3>6. Cardinality(OnNodesOf(a.id)) \in Nat /\ Cardinality(Users(a.id)) \in Nat
      BY <3>4, PodSetsFinite
    <3> QED BY <2>1, <3>3, <3>5, <3>6
  <2> QED BY <2>2, <2>3
<1>2. HoldInv /\ [Next]_vars => HoldInv'
  BY HoldStep
<1> QED BY <1>1, <1>2, HoldInit, PTL DEF Spec

-----------------------------------------------------------------------------
(* Allocations can be released.                                            *)

\* No reply of Fluxion and no statement of a worker is lost.
RepliesArrive == MaxDisruptions["rpc"] = 0 /\ MaxDisruptions["sql"] = 0

\* All pods of a group have a deadline, or none has.
DurationsAgree ==
    \A p, q \in Pods : GroupOf[p] = GroupOf[q] =>
        (DurationOf[p] > 0 <=> DurationOf[q] > 0)

\* A group has one job.
OneJob == \A j, k \in Jobs : j[1] = k[1] => j = k

\* A job that is available has not been given an allocation yet.
AvailableHasNone == \A j \in Jobs : StateOf(j) = "available" => IdOf(j) = NoID

\* Once the flux id is recorded it stays in the row of the group.
IdIsRecorded ==
    \A j \in Jobs : StateOf(j) \in {"recorded", "completed"} =>
        fluxID[j[1]] = IdOf(j)

\* A job that submits a cleanup has a duration.
RecordedTimed == \A j \in Jobs : StateOf(j) = "recorded" => Args(j).duration > 0

\* Every allocation belongs to a job that has it.
AllocsAreHeld == \A a \in allocs : \E j \in Jobs : Live(j) /\ IdOf(j) = a.id

\* The system with one job per group.
GangInv == IdInv /\ QueueProofs!LabelInv /\ QueueProofs!OnceInv

OrphanInv ==
    /\ GangInv /\ AvailableHasNone /\ IdIsRecorded /\ RecordedTimed
    /\ AllocsAreHeld

\* One job per group is an invariant of the composed system as well.
LEMMA GangStep ==
  ASSUME QueueProofs!EnqueuedOnce, QueueProofs!SizesCoverGroups,
         GangInv, [Next]_vars
  PROVE  GangInv'
<1>1. TypeInv /\ QueueProofs!OnceInv
  BY DEF GangInv, IdInv
<1>2. QueueProofs!OnceInv'
  BY <1>1, QueueStep, SameQueue, QueueAssumptions, QueueProofs!OnceStep
<1> QED BY <1>1, <1>2, IdStep, LabelsStep DEF GangInv

\* It holds at the start.
LEMMA GangInit == Init => GangInv
  BY IdInit, LabelsInit, SameQueue, QueueAssumptions, QueueProofs!OnceInit
     DEF Init, GangInv

\* What it says of jobs.
LEMMA GangOneJob ==
  ASSUME GangInv
  PROVE  OneJob
<1> SUFFICES ASSUME NEW j \in Jobs, NEW k \in Jobs, j[1] = k[1] PROVE j = k
  BY DEF OneJob
<1>1. /\ j = <<j[1], j[2]>> /\ k = <<k[1], k[2]>> /\ j[1] \in Groups
      /\ j[2] \in DOMAIN work[j[1]] /\ k[2] \in DOMAIN work[j[1]]
  BY JobsDef
<1>2. work[j[1]] \in Seq(WorkItem) /\ riverJobs[j[1]] \in Seq(Queue!JobArg)
  BY <1>1 DEF GangInv, IdInv, TypeInv, TypeOK, Queue!TypeOK
<1>3. Len(work[j[1]]) = Len(riverJobs[j[1]])
  BY <1>1 DEF GangInv, IdInv, TypeInv, TypeOK
<1>4. DOMAIN work[j[1]] = 1 .. Len(work[j[1]])
  BY <1>2
<1>5. j[2] \in 1 .. Len(riverJobs[j[1]]) /\ k[2] \in 1 .. Len(riverJobs[j[1]])
  BY <1>1, <1>3, <1>4
<1>6. riverJobs[j[1]] # <<>>
  BY <1>2, <1>5
<1>7. Len(riverJobs[j[1]]) = 1
  BY <1>1, <1>6 DEF GangInv, QueueProofs!OnceInv, QueueProofs!Settled
<1>8. j[2] = k[2]
  BY <1>5, <1>7
<1> QED BY <1>1, <1>8

\* The scheduler does not restart when there are no restarts.
LEMMA NoRestart ==
  ASSUME QueueProofs!EnqueuedOnce, TypeInv
  PROVE  ~Restart
<1>1. faults["restart"] \in Nat
  BY DEF TypeInv, TypeOK, Queue!TypeOK, Queue!FaultKinds
<1> QED BY <1>1 DEF QueueProofs!EnqueuedOnce, Restart, Queue!Restart, Queue!Fault

\* A disruption that is not allowed does not happen.
LEMMA NoDisruption ==
  ASSUME TypeInv, NEW k \in DisruptionKinds, MaxDisruptions[k] = 0
  PROVE  ~Disruption(k)
<1>1. disruptions[k] \in Nat
  BY DEF TypeInv, TypeOK
<1> QED BY <1>1 DEF Disruption

\* The pods of a job with a duration have deadlines.
LEMMA TimedTogether ==
  ASSUME DurationsAgree, TypeInv, QueueProofs!LabelInv, NEW j \in Jobs,
         Args(j).duration > 0
  PROVE  DurationOf[Args(j).podspec] > 0
<1>1. PICK p \in Pods : GroupOf[p] = j[1] /\ Args(j).duration = DurationOf[p]
  BY LabelsOfJob
<1>2. Args(j).podspec \in Pods /\ GroupOf[Args(j).podspec] = j[1]
  BY NamesOfJob DEF Members
<1> QED BY <1>1, <1>2 DEF DurationsAgree

\* Only RecordFluxID writes the flux id of a group.
LEMMA FluxIDStep ==
  ASSUME [Next]_vars
  PROVE  fluxID' = fluxID \/ \E j \in Jobs : RecordFluxID(j)
<1>1. CASE ScheduleOneStep \/ InsertMany
  BY <1>1 DEF ScheduleOneStep, InsertMany, workVars
<1>2. CASE \E j \in Jobs : Worker(j)
  BY <1>2 DEF Worker, Match, UpdateNodes, SubmitCleanup
<1>3. CASE EventLoop
  BY <1>3 DEF EventLoop, HandleCancelled, HandleCompleted, LoopPanics, workVars
<1>4. CASE Informer
  BY <1>4 DEF Informer, ReadGroupPods, CancelFinished, workVars
<1>5. CASE \E c \in cleanups : Deadline(c)
  BY <1>5 DEF Deadline, DeleteObjects, CancelDeadline, workVars
<1>6. CASE \E p \in Pods : Binder(p) \/ Tombstone(p)
  BY <1>6 DEF Binder, Bind, BindFails, Tombstone, workVars
<1>7. CASE \E p \in Pods : Cluster(p)
  BY <1>7 DEF Cluster, PodCreated, PodRequeued, PodFinishes, UserDeletes,
              GarbageCollected, PodRemoved, workVars
<1>8. CASE Restart \/ UNCHANGED vars
  BY <1>8 DEF Restart, vars, workVars
<1> QED BY <1>1, <1>2, <1>3, <1>4, <1>5, <1>6, <1>7, <1>8 DEF Next

\* What the worker of job j does when every reply arrives.
Progresses(j) ==
    \/ /\ StateOf(j) = "available" /\ Allocated(j[1], Args(j).size)
       /\ Becomes(j, "matched", nextID, NodesOf(j)) /\ fluxID' = fluxID
    \/ /\ StateOf(j) = "available" /\ allocs' = allocs
       /\ Becomes(j, "cancelled", NoID, NodesOf(j)) /\ fluxID' = fluxID
    \/ /\ StateOf(j) = "matched" /\ allocs' = allocs /\ fluxID' = fluxID
       /\ \E nodes \in {NodesOf(j), NodesGranted(j)} :
             Becomes(j, "placed", IdOf(j), nodes)
    \/ /\ StateOf(j) = "placed" /\ allocs' = allocs
       /\ fluxID' = Recorded(j)
       /\ \/ Becomes(j, "recorded", IdOf(j), NodesOf(j)) /\ Args(j).duration > 0
          \/ Becomes(j, "completed", IdOf(j), NodesOf(j))
    \/ /\ StateOf(j) = "recorded" /\ allocs' = allocs /\ fluxID' = fluxID
       /\ Becomes(j, "completed", IdOf(j), NodesOf(j))

\* Without lost replies a worker never runs a job again.
LEMMA WorkerProgresses ==
  ASSUME RepliesArrive, DurationsAgree, OrphanInv, NEW j \in Jobs, Worker(j)
  PROVE  Progresses(j)
<1>1. TypeInv /\ QueueProofs!LabelInv
  BY DEF OrphanInv, GangInv, IdInv
<1>2. ~Disruption("rpc") /\ ~Disruption("sql")
  BY <1>1, NoDisruption DEF RepliesArrive, DisruptionKinds
<1>3. CASE Match(j)
  BY <1>2, <1>3 DEF Match, Progresses, fluxionVars
<1>4. CASE UpdateNodes(j)
  BY <1>2, <1>4 DEF UpdateNodes, Progresses, fluxionVars
<1>5. CASE RecordFluxID(j)
  BY <1>2, <1>5 DEF RecordFluxID, Exec, Failed, Completes, Progresses, fluxionVars
<1>6. CASE SubmitCleanup(j)
  <2>1. StateOf(j) = "recorded"
    BY <1>6 DEF SubmitCleanup
  <2>2. DurationOf[Args(j).podspec] # 0
    <3>1. DurationOf[Args(j).podspec] > 0
      BY <1>1, <2>1, TimedTogether DEF OrphanInv, RecordedTimed
    <3> QED BY <3>1
  <2> QED BY <1>2, <1>6, <2>1, <2>2
          DEF SubmitCleanup, Exec, AfterSubmit, Failed, Completes, Progresses,
              fluxionVars
<1> QED BY <1>3, <1>4, <1>5, <1>6 DEF Worker

\* OrphanInv is inductive when every reply arrives.
LEMMA OrphanStep ==
  ASSUME QueueProofs!EnqueuedOnce, QueueProofs!SizesCoverGroups, RepliesArrive,
         DurationsAgree, OrphanInv, [Next]_vars
  PROVE  OrphanInv'
<1>1. GangInv /\ GangInv' /\ TypeInv /\ QueueProofs!LabelInv /\ OneJob
  BY GangStep, GangOneJob DEF OrphanInv, GangInv, IdInv
<1>2. JobsMove /\ AllocsMove /\ ~Restart
  BY <1>1, JobsStep, AllocsStep, NoRestart
<1>3. /\ \A j \in Jobs' \ Jobs : StateOf(j)' = "available" /\ IdOf(j)' = NoID
      /\ \A j \in Jobs : j \in Jobs' /\ Args(j)' = Args(j)
  BY <1>2 DEF JobsMove
<1>4. AvailableHasNone /\ IdIsRecorded /\ RecordedTimed /\ AllocsAreHeld
  BY DEF OrphanInv
<1>5. ASSUME NEW j \in Jobs, Worker(j) PROVE OrphanInv'
  <2>1. Progresses(j) /\ riverJobs' = riverJobs
    BY <1>5, WorkerProgresses, WorkerAttempts DEF queueVars
  <2>2. /\ IdOf(j) \in Nat \cup {NoID} /\ nextID \in Nat
        /\ NodesOf(j) \in Nat \cup {NoID} /\ NodesGranted(j) \in Nat \cup {NoID}
    BY <1>1, IdTypes
  <2>3. ASSUME NEW state \in {"available", "matched", "placed", "recorded",
                              "completed", "cancelled"},
               NEW id \in Nat \cup {NoID}, NEW nodes \in Nat \cup {NoID},
               Becomes(j, state, id, nodes)
        PROVE  /\ Jobs' = Jobs
               /\ \A k \in Jobs : /\ StateOf(k)' = IF k = j THEN state ELSE StateOf(k)
                                  /\ IdOf(k)' = IF k = j THEN id ELSE IdOf(k)
    <3>1. [state |-> state, fluxID |-> id, nodes |-> nodes] \in WorkItem
      BY DEF WorkItem
    <3> QED BY <1>1, <2>1, <2>3, <3>1, OneJobMoves
  <2>4. CASE StateOf(j) = "available" /\ fluxID' = fluxID
    <3>1. /\ Jobs' = Jobs
          /\ \A k \in Jobs \ {j} : StateOf(k)' = StateOf(k) /\ IdOf(k)' = IdOf(k)
          /\ StateOf(j)' \in {"matched", "cancelled"}
          /\ \A a \in allocs' \ allocs : IdOf(j)' = a.id /\ StateOf(j)' = "matched"
      <4>1. CASE Becomes(j, "matched", nextID, NodesOf(j))
        <5>1. \A a \in allocs' \ allocs : a.id = nextID
          BY <1>2 DEF AllocsMove, AllocatesFor, Allocated
        <5> QED BY <2>2, <2>3, <4>1, <5>1
      <4>2. CASE Becomes(j, "cancelled", NoID, NodesOf(j)) /\ allocs' = allocs
        BY <2>2, <2>3, <4>2
      <4> QED BY <2>1, <2>4, <4>1, <4>2 DEF Progresses
    <3>2. AllocsAreHeld'
      <4> SUFFICES ASSUME NEW a \in allocs'
                   PROVE  \E k \in Jobs' : Live(k)' /\ IdOf(k)' = a.id
        BY DEF AllocsAreHeld
      <4>1. CASE a \in allocs
        <5>1. PICK k \in Jobs : Live(k) /\ IdOf(k) = a.id
          BY <1>4, <4>1 DEF AllocsAreHeld
        <5>2. k # j
          BY <2>4, <5>1 DEF Live
        <5> QED BY <3>1, <5>1, <5>2 DEF Live
      <4>2. CASE a \notin allocs
        BY <3>1, <4>2 DEF Live
      <4> QED BY <4>1, <4>2
    <3>3. AvailableHasNone' /\ IdIsRecorded' /\ RecordedTimed'
      BY <1>3, <1>4, <2>4, <3>1 DEF AvailableHasNone, IdIsRecorded, RecordedTimed
    <3> QED BY <1>1, <3>2, <3>3 DEF OrphanInv
  <2>5. CASE StateOf(j) = "matched" /\ allocs' = allocs /\ fluxID' = fluxID
    <3>1. /\ Jobs' = Jobs
          /\ \A k \in Jobs : IdOf(k)' = IdOf(k)
          /\ \A k \in Jobs \ {j} : StateOf(k)' = StateOf(k)
          /\ StateOf(j)' = "placed"
      BY <2>1, <2>2, <2>3, <2>5 DEF Progresses
    <3>2. AllocsAreHeld'
      BY <1>4, <2>5, <3>1 DEF AllocsAreHeld, Live
    <3>3. AvailableHasNone' /\ IdIsRecorded' /\ RecordedTimed'
      BY <1>3, <1>4, <2>5, <3>1 DEF AvailableHasNone, IdIsRecorded, RecordedTimed
    <3> QED BY <1>1, <3>2, <3>3 DEF OrphanInv
  <2>6. CASE StateOf(j) \in {"placed", "recorded"} /\ allocs' = allocs
    <3>1. /\ Jobs' = Jobs
          /\ \A k \in Jobs : IdOf(k)' = IdOf(k)
          /\ \A k \in Jobs \ {j} : StateOf(k)' = StateOf(k)
          /\ \/ StateOf(j)' = "recorded" /\ Args(j).duration > 0
             \/ StateOf(j)' = "completed"
      BY <2>1, <2>2, <2>3, <2>6 DEF Progresses
    <3>2. /\ fluxID'[j[1]] = IdOf(j)
          /\ \A k \in Jobs \ {j} : fluxID'[k[1]] = fluxID[k[1]]
      <4>1. j[1] \in pendingQueue /\ j[1] \in Groups
        BY <1>1, JobsDef, ArgsOfJob, LabelsOfJob
      <4>2. fluxID \in [Groups -> Nat \cup {NoID}]
        BY <1>1 DEF TypeInv, TypeOK
      <4>3. CASE fluxID' = Recorded(j)
        BY <1>1, <4>1, <4>2, <4>3 DEF Recorded, OneJob
      <4>4. CASE StateOf(j) = "recorded" /\ fluxID' = fluxID
        BY <1>4, <4>4 DEF IdIsRecorded
      <4> QED BY <2>1, <2>6, <4>3, <4>4 DEF Progresses
    <3>3. AllocsAreHeld'
      BY <1>4, <2>6, <3>1 DEF AllocsAreHeld, Live
    <3>4. AvailableHasNone' /\ IdIsRecorded' /\ RecordedTimed'
      BY <1>3, <1>4, <3>1, <3>2 DEF AvailableHasNone, IdIsRecorded, RecordedTimed
    <3> QED BY <1>1, <3>3, <3>4 DEF OrphanInv
  <2> QED BY <2>1, <2>4, <2>5, <2>6 DEF Progresses
<1>6. CASE ~ \E j \in Jobs : Worker(j)
  <2>1. \A j \in Jobs : StateOf(j)' = StateOf(j) /\ IdOf(j)' = IdOf(j)
    BY <1>1, <1>2, <1>6, OnlyWorkersAdvance
  <2>2. allocs' \subseteq allocs /\ fluxID' = fluxID
    BY <1>2, <1>6, FluxIDStep DEF AllocsMove, Worker
  <2>3. AllocsAreHeld'
    BY <1>3, <1>4, <2>1, <2>2 DEF AllocsAreHeld, Live
  <2>4. AvailableHasNone' /\ IdIsRecorded' /\ RecordedTimed'
    BY <1>3, <1>4, <2>1, <2>2 DEF AvailableHasNone, IdIsRecorded, RecordedTimed
  <2> QED BY <1>1, <2>3, <2>4 DEF OrphanInv
<1> QED BY <1>5, <1>6

\* When every reply arrives no allocation is orphaned: its id is with the
\* worker that is about to record it, or in the row of the group, where
\* DeletePodEvent finds it.  Failing statements of the queue, failing
\* bindings, refused requests and deletions by users do not matter.
THEOREM NoAllocationIsOrphaned ==
  /\ QueueProofs!EnqueuedOnce /\ QueueProofs!SizesCoverGroups
  /\ RepliesArrive /\ DurationsAgree
  => (Spec => []NoOrphanedAllocation)
<1> SUFFICES ASSUME QueueProofs!EnqueuedOnce, QueueProofs!SizesCoverGroups,
                    RepliesArrive, DurationsAgree
             PROVE  Spec => []NoOrphanedAllocation
  OBVIOUS
<1>1. Init => OrphanInv
  <2>1. ASSUME Init PROVE Jobs = {} /\ allocs = {}
    BY <2>1 DEF Init, Jobs
  <2> QED BY <2>1, GangInit DEF OrphanInv, AvailableHasNone, IdIsRecorded,
                                RecordedTimed, AllocsAreHeld
<1>2. OrphanInv /\ [Next]_vars => OrphanInv'
  BY OrphanStep
<1>3. OrphanInv => NoOrphanedAllocation
  <2> SUFFICES ASSUME OrphanInv, NEW a \in allocs
               PROVE  \/ fluxID[a.group] = a.id
                      \/ \E j \in Jobs : /\ StateOf(j) \in {"matched", "placed"}
                                        /\ IdOf(j) = a.id
    BY DEF NoOrphanedAllocation
  <2>1. PICK j \in Jobs : Live(j) /\ IdOf(j) = a.id
    BY DEF OrphanInv, AllocsAreHeld
  <2>2. a.id # NoID
    BY IdTypes DEF OrphanInv, GangInv, IdInv, NoID
  <2>3. a.group = j[1]
    BY <2>1, <2>2 DEF OrphanInv, GangInv, IdInv, AllocsAgree, Has
  <2> QED BY <2>1, <2>3 DEF OrphanInv, IdIsRecorded, Live
<1> QED BY <1>1, <1>2, <1>3, PTL DEF Spec

-----------------------------------------------------------------------------
(* Running pods keep their resources.                                      *)

\* No user deletes a pod and the API server answers.
PodsAreLeftAlone ==
    MaxDisruptions["userDelete"] = 0 /\ MaxDisruptions["api"] = 0

\* A pod with a deadline, and all the pods of its group, are owned by one Job.
TimedAreOwned ==
    \A p \in Pods : DurationOf[p] > 0 => Members(GroupOf[p]) \subseteq PodsOfJob(p)

\* The pods of a Job are of one group.
JobsWithinGroups ==
    \A p \in Pods : OwnerKind[p] = "Job" => PodsOfJob(p) \subseteq Members(GroupOf[p])

HasJob(g) == \E j \in Jobs : j[1] = g

\* The pods that were bound or are to be deleted, and those the informer and
\* the cleanup jobs work on.
Departed ==
    {p \in Pods : \/ phase[p] \in {"running", "done", "deleted"}
                  \/ p \in doomed \cup condemned \cup deleteEvents
                  \/ p = informer.pod
                  \/ \E c \in cleanups : c.podspec = p}

DepartedHaveJobs == \A p \in Departed : HasJob(GroupOf[p])

\* The finished flag of DeletePodEvent is still true when it is used.
FinishedIsOver ==
    /\ informer = Idle \/ informer.pod \in Pods
    /\ informer.pod \in Pods /\ informer.finished =>
          \A q \in QueueProofs!Countables(GroupOf[informer.pod]) : Over(q)

\* The flux id in the row of a group was given to a job of the group.
RowIds ==
    \A g \in Groups :
        /\ fluxID[g] < nextID
        /\ \A j \in Jobs : Has(j, fluxID[g]) => j[1] = g

\* A cleanup job is for a group with a deadline, and is about to cancel only
\* when the Job that owns the pods was deleted.
CleanupsAgree ==
    \A c \in cleanups :
        /\ c.id < nextID /\ DurationOf[c.podspec] > 0
        /\ \A j \in Jobs : Has(j, c.id) => j[1] = GroupOf[c.podspec]
        /\ c.step = "cancel" => Members(GroupOf[c.podspec]) \subseteq condemned

\* A job keeps what it was granted until its pods are over or to be deleted.
HeldAllocated ==
    \A j \in Jobs : \A id : Has(j, id) =>
        \/ \E a \in allocs : a.id = id
        \/ \A p \in Args(j).names : Over(p) \/ p \in condemned

KeepInv ==
    /\ GangInv /\ Grants /\ DepartedHaveJobs /\ FinishedIsOver /\ RowIds
    /\ CleanupsAgree /\ HeldAllocated

\* Pods that are over stay over, and nothing is reprieved.
LEMMA PodsAge ==
  ASSUME TypeInv, [Next]_vars
  PROVE  /\ \A p \in Pods : Over(p) => Over(p)'
         /\ condemned \subseteq condemned'
<1>1. phase \in [Pods -> {"none", "pending", "assumed", "running", "done", "deleted"}]
  BY DEF TypeInv, TypeOK
<1> USE DEF Over
<1>2. CASE ScheduleOneStep \/ InsertMany
  BY <1>2 DEF ScheduleOneStep, InsertMany, clusterVars
<1>3. CASE \E j \in Jobs : Worker(j)
  BY <1>3 DEF Worker, Match, UpdateNodes, RecordFluxID, SubmitCleanup, clusterVars
<1>4. CASE \E j \in Jobs : HandleCancelled(j)
  BY <1>4 DEF HandleCancelled, ObjectsDeleted
<1>5. ASSUME NEW j \in Jobs, HandleCompleted(j)
      PROVE  (\A p \in Pods : Over(p) => Over(p)') /\ condemned' = condemned
  <2>1. PICK ps : Assume(ps) /\ \A p \in ps : ~Over(p)
    BY <1>5 DEF HandleCompleted, SchedulingCycle
  <2> QED BY <1>5, <2>1 DEF HandleCompleted, Assume
<1>6. CASE LoopPanics \/ Informer
  BY <1>6 DEF LoopPanics, Informer, ReadGroupPods, CancelFinished, clusterVars
<1>7. CASE \E c \in cleanups : Deadline(c)
  BY <1>7 DEF Deadline, DeleteObjects, CancelDeadline, ObjectsDeleted, clusterVars
<1>8. CASE \E p \in Pods : Binder(p) \/ Tombstone(p)
  BY <1>1, <1>8 DEF Binder, Bind, Bound, BindFails, Tombstone, clusterVars
<1>9. CASE \E p \in Pods : Cluster(p)
  BY <1>1, <1>9 DEF Cluster, PodCreated, PodRequeued, PodFinishes, UserDeletes,
     GarbageCollected, PodRemoved, Exists, clusterVars
<1>10. CASE Restart
  BY <1>1, <1>10 DEF Restart
<1>11. CASE UNCHANGED vars
  BY <1>11 DEF vars, clusterVars
<1> QED
  BY <1>2, <1>3, <1>4, <1>5, <1>6, <1>7, <1>8, <1>9, <1>10, <1>11
     DEF Next, EventLoop

\* A cleanup job after a step.
CleanupOf(j) == [id |-> IdOf(j), podspec |-> Args(j).podspec, step |-> "scheduled"]

CleanupsMove ==
    \A d \in cleanups' :
        \/ \E c \in cleanups :
              /\ d.id = c.id /\ d.podspec = c.podspec
              /\ d.step = "cancel" =>
                    c.step = "cancel" \/ ObjectsDeleted(c.podspec)
        \/ \E j \in Jobs : /\ d = CleanupOf(j) /\ Live(j)
                           /\ DurationOf[Args(j).podspec] # 0

\* Cleanup jobs are submitted by workers; they delete before they cancel.
LEMMA CleanupsMoves ==
  ASSUME TypeInv, [Next]_vars
  PROVE  CleanupsMove
<1> DEFINE Cleanup == [id : Nat, podspec : Pods, step : {"scheduled", "cancel"}]
<1>1. cleanups \subseteq Cleanup
  BY DEF TypeInv, TypeOK
<1>2. ASSUME NEW c \in cleanups, NEW s
      PROVE  /\ [c EXCEPT !.step = s].id = c.id
             /\ [c EXCEPT !.step = s].podspec = c.podspec
             /\ [c EXCEPT !.step = s].step = s
  BY <1>1
<1>a. CASE cleanups' \subseteq cleanups
  BY <1>a DEF CleanupsMove
<1>3. CASE ScheduleOneStep \/ InsertMany
  BY <1>a, <1>3 DEF ScheduleOneStep, InsertMany, cleanVars
<1>4. ASSUME NEW j \in Jobs, Worker(j) PROVE CleanupsMove
  <2>1. CASE Match(j) \/ UpdateNodes(j) \/ RecordFluxID(j)
    BY <1>a, <2>1 DEF Match, UpdateNodes, RecordFluxID, cleanVars
  <2>2. CASE SubmitCleanup(j)
    BY <2>2 DEF SubmitCleanup, Exec, CleanupOf, Live, CleanupsMove
  <2> QED BY <1>4, <2>1, <2>2 DEF Worker
<1>5. CASE EventLoop
  BY <1>a, <1>5 DEF EventLoop, HandleCancelled, HandleCompleted, LoopPanics, cleanVars
<1>6. CASE Informer
  BY <1>a, <1>6 DEF Informer, ReadGroupPods, CancelFinished
<1>7. ASSUME NEW c \in cleanups, DeleteObjects(c) PROVE CleanupsMove
  <2> DEFINE d == [c EXCEPT !.step = "cancel"]
  <2>1. d.id = c.id /\ d.podspec = c.podspec
    BY <1>2
  <2>2. \/ cleanups' = (cleanups \ {c}) \cup {d} /\ ObjectsDeleted(c.podspec)
        \/ cleanups' = cleanups
    BY <1>7 DEF DeleteObjects
  <2> HIDE DEF d
  <2> QED BY <2>1, <2>2 DEF CleanupsMove
<1>8. ASSUME NEW c \in cleanups, CancelDeadline(c) PROVE CleanupsMove
  <2> DEFINE d == [c EXCEPT !.step = "scheduled"]
  <2>1. d.id = c.id /\ d.podspec = c.podspec /\ d.step = "scheduled"
    BY <1>2
  <2>2. cleanups' \subseteq cleanups \cup {d}
    BY <1>8 DEF CancelDeadline, Retried
  <2> HIDE DEF d
  <2> QED BY <2>1, <2>2 DEF CleanupsMove
<1>9. CASE \E p \in Pods : Binder(p) \/ Tombstone(p)
  BY <1>a, <1>9 DEF Binder, Bind, BindFails, Tombstone, cleanVars
<1>10. CASE \E p \in Pods : Cluster(p)
  BY <1>a, <1>10 DEF Cluster, PodCreated, PodRequeued, PodFinishes, UserDeletes,
                     GarbageCollected, PodRemoved, cleanVars
<1>11. CASE Restart
  <2> DEFINE again(c) == [c EXCEPT !.step = "scheduled"]
  <2>1. cleanups' = {again(c) : c \in cleanups}
    BY <1>11 DEF Restart
  <2>2. \A c \in cleanups : /\ again(c).id = c.id /\ again(c).podspec = c.podspec
                            /\ again(c).step = "scheduled"
    BY <1>2
  <2> HIDE DEF again
  <2> QED BY <2>1, <2>2 DEF CleanupsMove
<1>12. CASE UNCHANGED vars
  BY <1>a, <1>12 DEF vars, cleanVars
<1> QED
  BY <1>3, <1>4, <1>5, <1>6, <1>7, <1>8, <1>9, <1>10, <1>11, <1>12
     DEF Next, Deadline

\* Pods depart from groups with a job only.
LEMMA DepartedStep ==
  ASSUME PodsAreLeftAlone, JobsWithinGroups, KeepInv, ~Restart, [Next]_vars
  PROVE  DepartedHaveJobs'
<1>1. TypeInv /\ QueueProofs!LabelInv /\ Grants /\ DepartedHaveJobs
  BY DEF KeepInv, GangInv, IdInv
<1>2. \A g : HasJob(g) => HasJob(g)'
  BY <1>1, JobsStep DEF JobsMove, HasJob
<1>3. \A j \in Jobs : \A p \in Args(j).names : p \in Pods /\ HasJob(GroupOf[p])
  BY <1>1, NamesOfJob DEF HasJob, Members
<1>4. /\ phase \in [Pods -> {"none", "pending", "assumed", "running", "done", "deleted"}]
      /\ GroupOf \in [Pods -> Groups] /\ NoPod \notin Pods
  BY <1>1, QueueAssumption DEF TypeInv, TypeOK
<1> SUFFICES ASSUME NEW q \in Departed' PROVE HasJob(GroupOf[q])
  BY <1>2 DEF DepartedHaveJobs
<1>5. q \in Pods
  BY DEF Departed
<1>6. CASE q \in Departed
  BY <1>1, <1>6 DEF DepartedHaveJobs
<1>7. ASSUME NEW r \in Departed, GroupOf[q] = GroupOf[r] PROVE HasJob(GroupOf[q])
  BY <1>1, <1>7 DEF DepartedHaveJobs
<1>8. ASSUME NEW d \in cleanups', d.podspec = q PROVE HasJob(GroupOf[q])
  <2>1. CleanupsMove
    BY <1>1, CleanupsMoves
  <2>2. CASE \E c \in cleanups : c.podspec = q
    BY <1>5, <1>6, <2>2 DEF Departed
  <2>3. ASSUME NEW j \in Jobs, d = CleanupOf(j) PROVE HasJob(GroupOf[q])
    BY <1>1, <1>3, <1>8, <2>3, NamesOfJob DEF CleanupOf
  <2> QED BY <1>8, <2>1, <2>2, <2>3 DEF CleanupsMove
<1>a. CASE /\ \A p \in Pods : phase'[p] \in {"running", "done", "deleted"} =>
                                 phase[p] \in {"running", "done", "deleted"}
           /\ UNCHANGED <<doomed, condemned>> /\ deleteEvents' \subseteq deleteEvents
           /\ informer' = informer \/ informer'.pod \in deleteEvents \cup {NoPod}
  BY <1>4, <1>5, <1>6, <1>8, <1>a DEF Departed
<1>9. CASE ScheduleOneStep \/ InsertMany
  BY <1>a, <1>9 DEF ScheduleOneStep, InsertMany, clusterVars, cleanVars
<1>10. CASE \E j \in Jobs : Worker(j)
  BY <1>a, <1>10 DEF Worker, Match, UpdateNodes, RecordFluxID, SubmitCleanup,
                     clusterVars, cleanVars
<1>11. ASSUME NEW j \in Jobs, HandleCancelled(j) PROVE HasJob(GroupOf[q])
  <2>1. Args(j).podspec \in Pods /\ HasJob(GroupOf[Args(j).podspec])
    BY <1>1, <1>3, NamesOfJob
  <2>2. /\ doomed' \subseteq doomed \cup {Args(j).podspec}
        /\ condemned' \subseteq condemned \cup Members(GroupOf[Args(j).podspec])
        /\ UNCHANGED <<phase, deleteEvents, informer, cleanups>>
    BY <1>11, <2>1 DEF HandleCancelled, ObjectsDeleted, JobsWithinGroups, cleanVars
  <2> QED BY <1>5, <1>6, <2>1, <2>2 DEF Departed, Members
<1>12. ASSUME NEW j \in Jobs, HandleCompleted(j) PROVE HasJob(GroupOf[q])
  <2>1. PICK ps : Assume(ps)
    BY <1>12 DEF HandleCompleted, SchedulingCycle
  <2> QED BY <1>a, <1>12, <2>1 DEF HandleCompleted, Assume, cleanVars
<1>13. CASE LoopPanics
  BY <1>a, <1>13 DEF LoopPanics, clusterVars, cleanVars
<1>14. ASSUME NEW p \in Pods, ReadGroupPods(p) PROVE HasJob(GroupOf[q])
  BY <1>a, <1>14 DEF ReadGroupPods, clusterVars
<1>15. CASE CancelFinished
  BY <1>a, <1>15 DEF CancelFinished, Idle, clusterVars
<1>16. ASSUME NEW c \in cleanups, DeleteObjects(c) PROVE HasJob(GroupOf[q])
  <2>1. c.podspec \in Departed
    BY <1>1 DEF Departed, TypeInv, TypeOK
  <2>2. /\ doomed' \subseteq doomed \cup {c.podspec}
        /\ condemned' \subseteq condemned \cup Members(GroupOf[c.podspec])
        /\ UNCHANGED <<phase, deleteEvents, informer>>
    BY <1>16, <2>1 DEF DeleteObjects, ObjectsDeleted, JobsWithinGroups, Departed
  <2> QED BY <1>5, <1>6, <1>7, <1>8, <2>1, <2>2 DEF Departed, Members
<1>17. ASSUME NEW c \in cleanups, CancelDeadline(c) PROVE HasJob(GroupOf[q])
  BY <1>a, <1>17 DEF CancelDeadline, clusterVars
<1>18. ASSUME NEW p \in Pods, NEW id \in plans[p], Bind(p, id)
       PROVE  HasJob(GroupOf[q])
  <2>1. HasJob(GroupOf[p])
    BY <1>1, <1>3 DEF Grants, Granted
  <2>2. /\ \A r \in Pods \ {p} : phase'[r] = phase[r]
        /\ UNCHANGED <<doomed, condemned, cleanVars>>
    BY <1>4, <1>18 DEF Bind, Bound
  <2> QED BY <1>5, <1>6, <2>1, <2>2 DEF Departed, cleanVars
<1>19. ASSUME NEW p \in Pods, NEW id \in plans[p], BindFails(p, id)
       PROVE  HasJob(GroupOf[q])
  BY <1>4, <1>a, <1>19 DEF BindFails, cleanVars
<1>20. ASSUME NEW p \in Pods, Tombstone(p) PROVE HasJob(GroupOf[q])
  BY <1>a, <1>20 DEF Tombstone, clusterVars
<1>21. ASSUME NEW p \in Pods, PodCreated(p) \/ PodRequeued(p)
       PROVE  HasJob(GroupOf[q])
  BY <1>4, <1>a, <1>21 DEF PodCreated, PodRequeued, clusterVars, cleanVars
<1>22. ASSUME NEW p \in Pods, UserDeletes(p) PROVE HasJob(GroupOf[q])
  <2>1. ~Disruption("userDelete")
    BY <1>1, NoDisruption DEF PodsAreLeftAlone, DisruptionKinds
  <2> QED BY <1>22, <2>1 DEF UserDeletes
<1>23. ASSUME NEW p \in Pods,
              PodFinishes(p) \/ GarbageCollected(p) \/ PodRemoved(p)
       PROVE  HasJob(GroupOf[q])
  <2>1. p \in Departed
    BY <1>23 DEF PodFinishes, GarbageCollected, PodRemoved, Departed
  <2>2. /\ \A r \in Pods \ {p} : phase'[r] = phase[r]
        /\ doomed' \subseteq doomed \cup {p} /\ condemned' = condemned
        /\ deleteEvents' \subseteq deleteEvents \cup {p}
        /\ UNCHANGED <<informer, cleanups>>
    BY <1>4, <1>23 DEF PodFinishes, GarbageCollected, PodRemoved, cleanVars
  <2>3. q = p \/ q \in Departed
    BY <1>5, <2>2 DEF Departed
  <2> QED BY <1>6, <1>7, <2>1, <2>3
<1>24. CASE UNCHANGED vars
  BY <1>a, <1>24 DEF vars, clusterVars, cleanVars
<1> QED
  BY <1>9, <1>10, <1>11, <1>12, <1>13, <1>14, <1>15, <1>16, <1>17, <1>18,
     <1>19, <1>20, <1>21, <1>22, <1>23, <1>24
     DEF Next, EventLoop, Informer, Deadline, Binder, Cluster

\* An allocation goes when DeletePodEvent or a deadline cleanup cancels it.
AllocsGo ==
    \A a \in allocs \ allocs' :
        \/ /\ informer.pod \in Pods /\ informer.finished
           /\ a.id = fluxID[GroupOf[informer.pod]]
        \/ \E c \in cleanups : c.step = "cancel" /\ c.id = a.id

\* All other steps keep the allocations.
LEMMA AllocsGoStep ==
  ASSUME FinishedIsOver, [Next]_vars
  PROVE  AllocsGo
<1>a. CASE allocs \subseteq allocs'
  BY <1>a DEF AllocsGo
<1>1. CASE ScheduleOneStep \/ InsertMany
  BY <1>a, <1>1 DEF ScheduleOneStep, InsertMany, fluxionVars
<1>2. CASE \E j \in Jobs : Worker(j)
  BY <1>a, <1>2 DEF Worker, Match, Allocated, UpdateNodes, RecordFluxID,
                    SubmitCleanup, fluxionVars
<1>3. CASE EventLoop
  BY <1>a, <1>3 DEF EventLoop, HandleCancelled, HandleCompleted, LoopPanics, fluxionVars
<1>4. CASE \E p \in Pods : ReadGroupPods(p)
  BY <1>a, <1>4 DEF ReadGroupPods, fluxionVars
<1>5. CASE CancelFinished
  <2> DEFINE id == fluxID[GroupOf[informer.pod]]
  <2>1. \/ allocs' = allocs
        \/ informer.finished /\ allocs' = Without(id)
    BY <1>5 DEF CancelFinished, NoID
  <2>2. informer.pod \in Pods
    BY <1>5 DEF CancelFinished, FinishedIsOver
  <2> QED BY <2>1, <2>2 DEF AllocsGo, Without
<1>6. ASSUME NEW c \in cleanups, Deadline(c) PROVE AllocsGo
  BY <1>a, <1>6 DEF Deadline, DeleteObjects, CancelDeadline, Without, AllocsGo,
                    fluxionVars
<1>7. CASE \E p \in Pods : Binder(p) \/ Tombstone(p)
  BY <1>a, <1>7 DEF Binder, Bind, BindFails, Tombstone, fluxionVars
<1>8. CASE \E p \in Pods : Cluster(p)
  BY <1>a, <1>8 DEF Cluster, PodCreated, PodRequeued, PodFinishes, UserDeletes,
                    GarbageCollected, PodRemoved, fluxionVars
<1>9. CASE Restart \/ UNCHANGED vars
  BY <1>a, <1>9 DEF Restart, vars, fluxionVars
<1> QED BY <1>1, <1>2, <1>3, <1>4, <1>5, <1>6, <1>7, <1>8, <1>9 DEF Next, Informer

\* DeletePodEvent starts, ends, or is left alone.
LEMMA InformerStep ==
  ASSUME [Next]_vars
  PROVE  \/ informer' \in {informer, Idle}
         \/ \E p \in Pods : ReadGroupPods(p)
<1>1. CASE ScheduleOneStep \/ InsertMany
  BY <1>1 DEF ScheduleOneStep, InsertMany, cleanVars
<1>2. CASE \E j \in Jobs : Worker(j)
  BY <1>2 DEF Worker, Match, UpdateNodes, RecordFluxID, SubmitCleanup, cleanVars
<1>3. CASE EventLoop
  BY <1>3 DEF EventLoop, HandleCancelled, HandleCompleted, LoopPanics, cleanVars
<1>4. CASE CancelFinished
  BY <1>4 DEF CancelFinished
<1>5. CASE \E c \in cleanups : Deadline(c)
  BY <1>5 DEF Deadline, DeleteObjects, CancelDeadline
<1>6. CASE \E p \in Pods : Binder(p) \/ Tombstone(p)
  BY <1>6 DEF Binder, Bind, BindFails, Tombstone, cleanVars
<1>7. CASE \E p \in Pods : Cluster(p)
  BY <1>7 DEF Cluster, PodCreated, PodRequeued, PodFinishes, UserDeletes,
              GarbageCollected, PodRemoved, cleanVars
<1>8. CASE Restart \/ UNCHANGED vars
  BY <1>8 DEF Restart, vars, cleanVars
<1> QED BY <1>1, <1>2, <1>3, <1>4, <1>5, <1>6, <1>7, <1>8 DEF Next, Informer

\* The group of a job has all its pods recorded.
LEMMA GangComplete ==
  ASSUME GangInv, NEW g, HasJob(g)
  PROVE  podsProvisional \cap Members(g) = QueueProofs!Countables(g)
<1>1. PICK j \in Jobs : j[1] = g
  BY DEF HasJob
<1>2. g \in Groups /\ j[2] \in DOMAIN work[g] /\ work[g] \in Seq(WorkItem)
  BY <1>1, JobsDef DEF GangInv, IdInv, TypeInv, TypeOK
<1>3. Len(work[g]) = Len(riverJobs[g]) /\ riverJobs[g] \in Seq(Queue!JobArg)
  BY <1>2 DEF GangInv, IdInv, TypeInv, TypeOK, Queue!TypeOK
<1>4. riverJobs[g] # <<>>
  BY <1>2, <1>3
<1> QED BY <1>2, <1>4 DEF GangInv, QueueProofs!OnceInv, QueueProofs!Settled,
           QueueProofs!Complete, QueueProofs!PodRows, QueueProofs!Members, Members

\* The flag is right when it is computed and stays right.
LEMMA FinishedStep ==
  ASSUME PodsAreLeftAlone, KeepInv, [Next]_vars
  PROVE  FinishedIsOver'
<1>1. TypeInv /\ GangInv /\ FinishedIsOver
  BY DEF KeepInv, GangInv, IdInv
<1>2. \A q \in Pods : Over(q) => Over(q)'
  BY <1>1, PodsAge
<1>3. \A g : QueueProofs!Countables(g) \subseteq Pods
  BY DEF QueueProofs!Countables, QueueProofs!Countable
<1>4. NoPod \notin Pods
  BY QueueAssumption
<1>5. CASE informer' = informer
  BY <1>1, <1>2, <1>3, <1>5 DEF FinishedIsOver
<1>6. CASE informer' = Idle
  BY <1>4, <1>6 DEF FinishedIsOver, Idle
<1>7. ASSUME NEW p \in Pods, ReadGroupPods(p) PROVE FinishedIsOver'
  <2>1. ~Disruption("api")
    BY <1>1, NoDisruption DEF PodsAreLeftAlone, DisruptionKinds
  <2>2. informer' = [pod |-> p, finished |-> \A q \in GroupRows(p) : Terminal(q)]
    BY <1>7, <2>1 DEF ReadGroupPods
  <2>3. HasJob(GroupOf[p])
    BY <1>7 DEF ReadGroupPods, KeepInv, DepartedHaveJobs, Departed
  <2>4. GroupRows(p) = QueueProofs!Countables(GroupOf[p])
    BY <1>1, <2>3, GangComplete DEF GroupRows
  <2>5. informer'.pod = p /\ (informer'.finished <=> \A q \in GroupRows(p) : Terminal(q))
    BY <2>2
  <2> QED BY <1>2, <1>3, <2>4, <2>5 DEF FinishedIsOver, Terminal, Over
<1> QED BY <1>5, <1>6, <1>7, InformerStep

\* Ids after a step.
LEMMA IdsAfter ==
  ASSUME TypeInv, [Next]_vars
  PROVE  /\ nextID \in Nat /\ nextID' \in Nat /\ nextID <= nextID'
         /\ \A j \in Jobs' : \A id :
               Has(j, id)' => j \in Jobs /\ (Has(j, id) \/ id = nextID)
<1>1. HasMoves /\ AllocsMove /\ nextID \in Nat
  BY HasStep, AllocsStep, IdTypes
<1>2. nextID' \in {nextID, nextID + 1}
  BY <1>1 DEF AllocsMove, AllocatesFor, Allocated
<1> QED BY <1>1, <1>2 DEF HasMoves

\* RowIds is preserved.
LEMMA RowIdsStep ==
  ASSUME KeepInv, [Next]_vars
  PROVE  RowIds'
<1>1. TypeInv /\ IdInv /\ RowIds
  BY DEF KeepInv, GangInv, IdInv
<1>2. /\ nextID \in Nat /\ nextID' \in Nat /\ nextID <= nextID'
      /\ \A j \in Jobs' : \A id :
            Has(j, id)' => j \in Jobs /\ (Has(j, id) \/ id = nextID)
  BY <1>1, IdsAfter
<1>3. fluxID \in [Groups -> Nat \cup {NoID}]
  BY <1>1 DEF TypeInv, TypeOK
<1>4. CASE fluxID' = fluxID
  <2>1. \A g \in Groups : fluxID[g] \in Nat \cup {NoID} /\ fluxID[g] < nextID
    BY <1>1, <1>3 DEF RowIds
  <2>2. \A g \in Groups : fluxID[g] < nextID' /\ fluxID[g] # nextID
    BY <1>2, <2>1 DEF NoID
  <2> QED BY <1>1, <1>2, <1>4, <2>2 DEF RowIds
<1>5. ASSUME NEW j \in Jobs, RecordFluxID(j) PROVE RowIds'
  <2>1. fluxID' = fluxID \/ fluxID' = [fluxID EXCEPT ![j[1]] = IdOf(j)]
    BY <1>5 DEF RecordFluxID, Exec, Recorded
  <2>2. CASE fluxID' = [fluxID EXCEPT ![j[1]] = IdOf(j)]
    <3>1. j[1] \in Groups /\ IdOf(j) < nextID /\ IdOf(j) \in Nat \cup {NoID}
      BY <1>1, JobsDef, IdTypes DEF IdInv, IdsBelow
    <3>2. \A g \in Groups : fluxID'[g] = IF g = j[1] THEN IdOf(j) ELSE fluxID[g]
      BY <1>3, <2>2, <3>1
    <3>3. \A g \in Groups : fluxID'[g] \in Nat \cup {NoID} /\ fluxID'[g] < nextID
      BY <1>1, <1>3, <3>1, <3>2 DEF RowIds
    <3>4. ASSUME NEW g \in Groups, NEW k \in Jobs', NEW id, id = fluxID'[g], Has(k, id)'
          PROVE  k[1] = g
      <4>1. id # nextID
        BY <1>2, <3>3, <3>4 DEF NoID
      <4>2. k \in Jobs /\ Has(k, id)
        BY <1>2, <3>4, <4>1
      <4>3. CASE g = j[1]
        <5>1. Has(j, id)
          BY <3>2, <3>4, <4>2, <4>3 DEF Has
        <5> QED BY <1>1, <4>2, <4>3, <5>1 DEF IdInv, IdsDistinct
      <4> QED BY <1>1, <3>2, <3>4, <4>2, <4>3 DEF RowIds
    <3>5. \A g \in Groups : fluxID'[g] < nextID'
      BY <1>2, <3>3 DEF NoID
    <3> QED BY <3>4, <3>5 DEF RowIds
  <2> QED BY <1>4, <2>1, <2>2
<1> QED BY <1>4, <1>5, FluxIDStep

\* CleanupsAgree is preserved.
LEMMA CleanupsAgreeStep ==
  ASSUME TimedAreOwned, KeepInv, [Next]_vars
  PROVE  CleanupsAgree'
<1>1. TypeInv /\ IdInv /\ CleanupsAgree /\ QueueProofs!LabelInv
  BY DEF KeepInv, GangInv, IdInv
<1>2. /\ nextID \in Nat /\ nextID' \in Nat /\ nextID <= nextID'
      /\ \A j \in Jobs' : \A id :
            Has(j, id)' => j \in Jobs /\ (Has(j, id) \/ id = nextID)
  BY <1>1, IdsAfter
<1>3. CleanupsMove /\ condemned \subseteq condemned'
  BY <1>1, CleanupsMoves, PodsAge
<1>4. TypeInv'
  BY <1>1, TypeStep
<1> SUFFICES ASSUME NEW d \in cleanups'
             PROVE  /\ d.id < nextID' /\ DurationOf[d.podspec] > 0
                    /\ \A j \in Jobs' : Has(j, d.id)' => j[1] = GroupOf[d.podspec]
                    /\ d.step = "cancel" => Members(GroupOf[d.podspec]) \subseteq condemned'
  BY DEF CleanupsAgree, Members
<1>5. d.id \in Nat /\ d.podspec \in Pods /\ d.id # NoID
  BY <1>4 DEF TypeInv, TypeOK, NoID
<1>6. ASSUME d.id < nextID, \A j \in Jobs : Has(j, d.id) => j[1] = GroupOf[d.podspec]
      PROVE  /\ d.id < nextID'
             /\ \A j \in Jobs' : Has(j, d.id)' => j[1] = GroupOf[d.podspec]
  BY <1>2, <1>5, <1>6
<1>7. ASSUME NEW c \in cleanups, d.id = c.id, d.podspec = c.podspec,
             d.step = "cancel" => c.step = "cancel" \/ ObjectsDeleted(c.podspec)
      PROVE  /\ d.id < nextID' /\ DurationOf[d.podspec] > 0
             /\ \A j \in Jobs' : Has(j, d.id)' => j[1] = GroupOf[d.podspec]
             /\ d.step = "cancel" => Members(GroupOf[d.podspec]) \subseteq condemned'
  <2>1. /\ c.id < nextID /\ DurationOf[c.podspec] > 0
        /\ \A j \in Jobs : Has(j, c.id) => j[1] = GroupOf[c.podspec]
        /\ c.step = "cancel" => Members(GroupOf[c.podspec]) \subseteq condemned
    BY <1>1 DEF CleanupsAgree
  <2>2. ObjectsDeleted(c.podspec) => Members(GroupOf[c.podspec]) \subseteq condemned'
    <3>1. c.podspec \in Pods /\ c.podspec \in Members(GroupOf[c.podspec])
      BY <1>5, <1>7 DEF Members
    <3>2. Members(GroupOf[c.podspec]) \subseteq PodsOfJob(c.podspec)
      BY <2>1, <3>1 DEF TimedAreOwned
    <3>3. OwnerKind[c.podspec] = "Job"
      BY <3>1, <3>2 DEF PodsOfJob
    <3> QED BY <3>2, <3>3 DEF ObjectsDeleted
  <2> QED BY <1>3, <1>6, <1>7, <2>1, <2>2
<1>8. ASSUME NEW j \in Jobs, d = CleanupOf(j), Live(j), DurationOf[Args(j).podspec] # 0
      PROVE  /\ d.id < nextID' /\ DurationOf[d.podspec] > 0
             /\ \A k \in Jobs' : Has(k, d.id)' => k[1] = GroupOf[d.podspec]
             /\ d.step = "cancel" => Members(GroupOf[d.podspec]) \subseteq condemned'
  <2>1. d.id = IdOf(j) /\ d.podspec = Args(j).podspec /\ d.step = "scheduled"
    BY <1>8 DEF CleanupOf
  <2>2. GroupOf[d.podspec] = j[1]
    BY <1>1, <2>1, NamesOfJob DEF Members
  <2>3. IdOf(j) < nextID /\ \A k \in Jobs : Has(k, IdOf(j)) => k = j
    BY <1>1, <1>5, <2>1 DEF IdInv, IdsBelow, IdsDistinct, Has
  <2>4. DurationOf[d.podspec] > 0
    BY <1>5, <1>8, <2>1, QueueAssumption
  <2> QED BY <1>6, <2>1, <2>2, <2>3, <2>4
<1> QED BY <1>3, <1>7, <1>8 DEF CleanupsMove

\* HeldAllocated is preserved.
LEMMA HeldAllocatedStep ==
  ASSUME KeepInv, [Next]_vars
  PROVE  HeldAllocated'
<1>1. /\ TypeInv /\ GangInv /\ IdInv /\ HeldAllocated /\ QueueProofs!LabelInv
      /\ FinishedIsOver /\ RowIds /\ CleanupsAgree
  BY DEF KeepInv, GangInv, IdInv
<1>2. JobsMove /\ HasMoves /\ AllocsGo
  BY <1>1, JobsStep, HasStep, AllocsGoStep
<1>3. (\A p \in Pods : Over(p) => Over(p)') /\ condemned \subseteq condemned'
  BY <1>1, PodsAge
<1> SUFFICES ASSUME NEW j \in Jobs', NEW id, Has(j, id)'
             PROVE  \/ \E a \in allocs' : a.id = id
                    \/ \A p \in Args(j)'.names : Over(p)' \/ p \in condemned'
  BY DEF HeldAllocated
<1>4. j \in Jobs /\ Args(j)' = Args(j) /\ (Has(j, id) \/ (id = nextID /\ AllocatesFor(j)))
  BY <1>2 DEF JobsMove, HasMoves
<1>5. Args(j).names \subseteq podsProvisional \cap Members(j[1])
  BY <1>1, <1>4, NamesOfJob
<1>6. CASE Has(j, id)
  <2>1. CASE \A p \in Args(j).names : Over(p) \/ p \in condemned
    BY <1>3, <1>4, <1>5, <2>1 DEF Members
  <2>2. ASSUME NEW a \in allocs, a.id = id
        PROVE  \/ \E b \in allocs' : b.id = id
               \/ \A p \in Args(j)'.names : Over(p)' \/ p \in condemned'
    <3>1. CASE a \in allocs'
      BY <2>2, <3>1
    <3>2. CASE /\ informer.pod \in Pods /\ informer.finished
               /\ a.id = fluxID[GroupOf[informer.pod]]
      <4>1. GroupOf[informer.pod] \in Groups
        BY <3>2, QueueAssumption
      <4>2. j[1] = GroupOf[informer.pod]
        BY <1>1, <1>4, <1>6, <2>2, <3>2, <4>1 DEF RowIds
      <4>3. podsProvisional \cap Members(j[1]) = QueueProofs!Countables(j[1])
        BY <1>1, <1>4, GangComplete DEF HasJob
      <4>4. \A p \in Args(j).names : Over(p) /\ p \in Pods
        BY <1>1, <1>5, <3>2, <4>2, <4>3 DEF FinishedIsOver, Members
      <4> QED BY <1>3, <1>4, <4>4
    <3>3. ASSUME NEW c \in cleanups, c.step = "cancel", c.id = a.id
          PROVE  \A p \in Args(j)'.names : p \in condemned'
      <4>1. Members(j[1]) \subseteq condemned
        BY <1>1, <1>4, <1>6, <2>2, <3>3 DEF CleanupsAgree
      <4> QED BY <1>3, <1>4, <1>5, <4>1
    <3> QED BY <1>2, <3>1, <3>2, <3>3 DEF AllocsGo
  <2> QED BY <1>1, <1>4, <1>6, <2>1, <2>2 DEF HeldAllocated
<1>7. CASE id = nextID /\ AllocatesFor(j)
  <2>1. [id |-> nextID, group |-> j[1], tasks |-> Args(j).size] \in allocs'
    BY <1>7 DEF AllocatesFor, Allocated
  <2> QED BY <1>7, <2>1
<1> QED BY <1>4, <1>6, <1>7

\* KeepInv is inductive.
LEMMA KeepStep ==
  ASSUME QueueProofs!EnqueuedOnce, QueueProofs!SizesCoverGroups,
         PodsAreLeftAlone, TimedAreOwned, JobsWithinGroups, KeepInv,
         [Next]_vars
  PROVE  KeepInv'
<1>1. GangInv /\ TypeInv /\ Grants
  BY DEF KeepInv, GangInv, IdInv
<1>2. GangInv' /\ Grants'
  BY <1>1, GangStep, GrantsStep
<1>3. DepartedHaveJobs'
  BY <1>1, NoRestart, DepartedStep
<1> QED BY <1>2, <1>3, FinishedStep, RowIdsStep, CleanupsAgreeStep,
           HeldAllocatedStep DEF KeepInv

\* Nothing has departed at the start.
LEMMA KeepInit == Init => KeepInv
<1> SUFFICES ASSUME Init PROVE KeepInv
  OBVIOUS
<1>1. Jobs = {} /\ cleanups = {} /\ informer = Idle /\ NoPod \notin Pods
  BY QueueAssumption DEF Init, Jobs
<1>2. Departed = {}
  BY <1>1 DEF Init, Departed, Idle
<1>3. RowIds
  BY <1>1 DEF Init, RowIds, NoID
<1> QED BY <1>1, <1>2, <1>3, GangInit, GrantsInit
        DEF KeepInv, DepartedHaveJobs, FinishedIsOver, CleanupsAgree,
            HeldAllocated, Idle

\* A pod that runs, and that is not to be deleted, owns its resources: a
\* cancel of DeletePodEvent or of a deadline never takes them away, though the
\* pods of the group were read earlier, replies are lost, updates of the nodes
\* fail unseen and the worker asks Fluxion again.  It takes that pods are
\* enqueued once, no user deletes them, the API server returns the pods of the
\* group, and Jobs and groups agree: a cleanup deletes one Job and releases
\* one group, so that the pods of a group with a deadline have to be of one
\* Job, and those of a Job of one group.
THEOREM RunningPodsKeepTheirResources ==
  /\ QueueProofs!EnqueuedOnce /\ QueueProofs!SizesCoverGroups
  /\ PodsAreLeftAlone /\ TimedAreOwned /\ JobsWithinGroups
  => (Spec => []RunningIsAllocated)
<1> SUFFICES ASSUME QueueProofs!EnqueuedOnce, QueueProofs!SizesCoverGroups,
                    PodsAreLeftAlone, TimedAreOwned, JobsWithinGroups
             PROVE  Spec => []RunningIsAllocated
  OBVIOUS
<1>1. KeepInv /\ [Next]_vars => KeepInv'
  BY KeepStep
<1>2. KeepInv => RunningIsAllocated
  <2> SUFFICES ASSUME KeepInv, NEW p \in Pods, phase[p] = "running",
                      p \notin condemned
               PROVE  \E a \in allocs : a.id = host[p]
    BY DEF RunningIsAllocated
  <2>1. PICK j \in Jobs : Has(j, host[p]) /\ p \in Args(j).names
    BY DEF KeepInv, Grants, Granted, Has
  <2>2. ~Over(p)
    BY DEF Over
  <2> QED BY <2>1, <2>2 DEF KeepInv, HeldAllocated
<1> QED BY <1>1, <1>2, KeepInit, PTL DEF Spec
=============================================================================
