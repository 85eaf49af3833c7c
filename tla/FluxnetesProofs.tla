-------------------------- MODULE FluxnetesProofs --------------------------
(***************************************************************************)
(* Proofs about Fluxnetes, for every set of pods and groups, every label,  *)
(* capacity and bound on the faults:                                       *)
(*                                                                         *)
(*   TypeCorrect      the type invariant;                                  *)
(*   ImplementsQueue  the composed system implements ProvisionalQueue: the *)
(*                    promises of the queue, proved there, hold here too.  *)
(*                                                                         *)
(* The two go together.  A step of the composed system is a step of the    *)
(* queue only where the pods a job names are well typed, and those types   *)
(* rest on the safety invariant of the queue.  So TypeInv is the types of  *)
(* this module together with SafeInv of ProvisionalQueueProofs.            *)
(***************************************************************************)
EXTENDS Fluxnetes, FiniteSetTheorems, TLAPS

QueueProofs == INSTANCE ProvisionalQueueProofs WITH podState <- PodState

\* The two instances of ProvisionalQueue are the same.
LEMMA SameQueue ==
  /\ Queue!Init <=> QueueProofs!Init
  /\ [Queue!Next]_(Queue!vars) <=> [QueueProofs!Next]_(QueueProofs!vars)
  /\ Queue!TypeOK <=> QueueProofs!TypeOK
  /\ Queue!TypeOK' <=> QueueProofs!TypeOK'
<1>1. UNCHANGED Queue!vars <=> UNCHANGED QueueProofs!vars
  BY DEF Queue!vars, Queue!envVars, Queue!threadVars, Queue!tableVars,
     QueueProofs!vars, QueueProofs!envVars, QueueProofs!threadVars, QueueProofs!tableVars
<1>2. Queue!Init <=> QueueProofs!Init
  BY DEF Queue!Init, QueueProofs!Init, Queue!NoRow, QueueProofs!NoRow,
     Queue!FaultKinds, QueueProofs!FaultKinds
<1>3. /\ Queue!TypeOK <=> QueueProofs!TypeOK
      /\ Queue!TypeOK' <=> QueueProofs!TypeOK'
  BY DEF Queue!TypeOK, QueueProofs!TypeOK, Queue!Row, QueueProofs!Row,
     Queue!JobArg, QueueProofs!JobArg, Queue!PodStates, QueueProofs!PodStates,
     Queue!Steps, QueueProofs!Steps, Queue!FaultKinds, QueueProofs!FaultKinds
<1>4. Queue!Next <=> QueueProofs!Next
  BY DEF Queue!Next, QueueProofs!Next,
     Queue!ScheduleOne, QueueProofs!ScheduleOne,
     Queue!Cluster, QueueProofs!Cluster,
     Queue!NextPod, QueueProofs!NextPod,
     Queue!CheckPending, QueueProofs!CheckPending,
     Queue!InsertPod, QueueProofs!InsertPod,
     Queue!IncrementGroup, QueueProofs!IncrementGroup,
     Queue!InsertGroup, QueueProofs!InsertGroup,
     Queue!GetReadyGroups, QueueProofs!GetReadyGroups,
     Queue!InsertPending, QueueProofs!InsertPending,
     Queue!DeleteGroups, QueueProofs!DeleteGroups,
     Queue!InsertMany, QueueProofs!InsertMany,
     Queue!PodCreated, QueueProofs!PodCreated,
     Queue!PodRequeued, QueueProofs!PodRequeued,
     Queue!PodDropped, QueueProofs!PodDropped,
     Queue!PodsChanged, QueueProofs!PodsChanged,
     Queue!Restart, QueueProofs!Restart,
     Queue!PodStates, QueueProofs!PodStates,
     Queue!FaultKinds, QueueProofs!FaultKinds,
     Queue!Goto, QueueProofs!Goto,
     Queue!AfterLabels, QueueProofs!AfterLabels,
     Queue!Skipped, QueueProofs!Skipped,
     Queue!Listed, QueueProofs!Listed,
     Queue!threadVars, QueueProofs!threadVars,
     Queue!tableVars, QueueProofs!tableVars,
     Queue!envVars, QueueProofs!envVars,
     Queue!Query, QueueProofs!Query,
     Queue!Fault, QueueProofs!Fault,
     Queue!Failed, QueueProofs!Failed,
     Queue!CommandTag, QueueProofs!CommandTag,
     Queue!Exec, QueueProofs!Exec,
     Queue!Incremented, QueueProofs!Incremented,
     Queue!HasRow, QueueProofs!HasRow,
     Queue!GroupInserted, QueueProofs!GroupInserted,
     Queue!GroupSize, QueueProofs!GroupSize,
     Queue!Done, QueueProofs!Done,
     Queue!ReadyGroups, QueueProofs!ReadyGroups,
     Queue!Whittled, QueueProofs!Whittled,
     Queue!Representatives, QueueProofs!Representatives,
     Queue!ReadyJob, QueueProofs!ReadyJob,
     Queue!PodRows, QueueProofs!PodRows,
     Queue!Members, QueueProofs!Members,
     Queue!BatchGroups, QueueProofs!BatchGroups,
     Queue!GroupsDeleted, QueueProofs!GroupsDeleted,
     Queue!Submitted, QueueProofs!Submitted,
     Queue!NoRow, QueueProofs!NoRow,
     Queue!Cardinality, QueueProofs!Cardinality
<1> QED BY <1>1, <1>2, <1>3, <1>4

\* The assumption of Fluxnetes gives the queue its own.
LEMMA QueueAssumptions ==
  /\ NoPod \notin Pods
  /\ QueueProofs!IsFiniteSet(Pods)
  /\ GroupOf \in [Pods -> Groups]
  /\ SizeLabel \in [Pods -> Int]
  /\ DurationOf \in [Pods -> Nat]
  /\ LabelKind \in [Pods -> QueueProofs!LabelKinds]
  /\ MaxFaults \in [QueueProofs!FaultKinds -> Nat]
  BY QueueAssumption
     DEF IsFiniteSet, QueueProofs!IsFiniteSet, Queue!LabelKinds, Queue!FaultKinds,
         QueueProofs!LabelKinds, QueueProofs!FaultKinds

\* Every step of the queue keeps its safety invariant.
LEMMA QueueSafeStep ==
  QueueProofs!SafeInv /\ [Queue!Next]_(Queue!vars) => QueueProofs!SafeInv'
  BY SameQueue, QueueAssumptions, QueueProofs!SafeStep

-----------------------------------------------------------------------------
(* The queue, seen from the composed system.                               *)

\* Only pods that are not bound wait in the scheduling queue.
ActiveUnbound == \A p \in activeQ : phase[p] \in {"pending", "assumed"}

\* A job that has got an answer from Fluxion has a flux id.
Live(j) == StateOf(j) \in {"matched", "placed", "recorded", "completed"}
LiveIds == \A j \in Jobs : Live(j) => IdOf(j) \in Nat

TypeInv == TypeOK /\ QueueProofs!SafeInv /\ ActiveUnbound /\ LiveIds

\* The tables, the work queue and the thread of ScheduleOne.
tableVars == <<pc, inFlight, deletePod, podsProvisional, groupsProvisional,
               pendingQueue, batch, riverJobs, faults>>

\* What the queue sees when unbound pods change.
LEMMA PodsChange ==
  ASSUME TypeInv, NEW ps \in SUBSET Pods, ps # {},
         \A p \in ps : phase[p] \in {"pending", "assumed"},
         NEW state \in {"unbound", "assumed", "deleting", "gone"},
         PodState' = [p \in Pods |-> IF p \in ps THEN state ELSE PodState[p]],
         activeQ' = IF state = "gone" THEN activeQ \ ps ELSE activeQ,
         UNCHANGED tableVars
  PROVE  Queue!Next
<1>1. ps \subseteq Queue!Listed
  BY DEF Queue!Listed, PodState
<1>2. UNCHANGED <<Queue!threadVars, Queue!tableVars, riverJobs, faults>>
  BY DEF tableVars, Queue!threadVars, Queue!tableVars
<1>3. Queue!PodsChanged(ps, state)
  BY <1>1, <1>2 DEF Queue!PodsChanged
<1>4. state \in Queue!PodStates \ {"none"}
  BY DEF Queue!PodStates
<1> QED BY <1>3, <1>4 DEF Queue!Next, Queue!Cluster

\* A step that touches neither the tables nor what the queue sees of pods.
LEMMA QueueStutters ==
  ASSUME UNCHANGED queueVars, PodState' = PodState
  PROVE  UNCHANGED Queue!vars
  BY DEF queueVars, Queue!vars, Queue!envVars, Queue!threadVars, Queue!tableVars

\* A deletion timestamp on one pod.
LEMMA PodDoomed ==
  ASSUME TypeInv, NEW p \in Pods, doomed' \in {doomed, doomed \cup {p}},
         UNCHANGED <<queueVars, phase>>
  PROVE  [Queue!Next]_(Queue!vars)
<1>1. CASE phase[p] = "pending" /\ p \in doomed'
  <2>1. PodState' = [q \in Pods |-> IF q \in {p} THEN "deleting" ELSE PodState[q]]
    BY <1>1 DEF PodState
  <2> QED BY <1>1, <2>1, PodsChange DEF queueVars, tableVars
<1>2. CASE ~(phase[p] = "pending" /\ p \in doomed')
  <2>1. PodState' = PodState
    BY <1>2 DEF PodState
  <2> QED BY <2>1, QueueStutters
<1> QED BY <1>1, <1>2

\* A job is a group and a position in its list.
LEMMA JobsDef ==
  ASSUME NEW j \in Jobs
  PROVE  /\ j[1] \in Groups /\ j[2] \in DOMAIN work[j[1]]
         /\ j = <<j[1], j[2]>>
  BY DEF Jobs

\* The arguments of a job, and the pods it names.
LEMMA ArgsOfJob ==
  ASSUME TypeInv, NEW j \in Jobs
  PROVE  /\ Args(j) \in Queue!JobArg
         /\ Args(j).names \subseteq podsProvisional \cap Pods
         /\ Args(j).podspec \in Args(j).names
         /\ j[1] \in pendingQueue \/ j[1] # Args(j).group
<1>1. j[1] \in Groups /\ j[2] \in DOMAIN riverJobs[j[1]]
  BY JobsDef DEF TypeInv, TypeOK, Queue!TypeOK
<1>2. Args(j) \in Queue!JobArg
  BY <1>1 DEF Args, TypeInv, TypeOK, Queue!TypeOK
<1>3. Args(j) \in QueueProofs!Submissions
  BY <1>1 DEF Args, QueueProofs!Submissions
<1>4. QueueProofs!Runnable(Args(j)) /\ Args(j).group \in pendingQueue
  BY <1>3 DEF TypeInv, QueueProofs!SafeInv, QueueProofs!JobsAreRunnable,
              QueueProofs!JobsArePending
<1> QED BY <1>2, <1>4 DEF QueueProofs!Runnable, QueueProofs!PodRows,
                          QueueProofs!Members

\* Every step of the composed system is one of the queue, or none.
LEMMA QueueStep == TypeInv /\ [Next]_vars => [Queue!Next]_(Queue!vars)
<1> SUFFICES ASSUME TypeInv, [Next]_vars PROVE [Queue!Next]_(Queue!vars)
  OBVIOUS
<1>a. ASSUME UNCHANGED queueVars, UNCHANGED <<phase, doomed>>
      PROVE  [Queue!Next]_(Queue!vars)
  <2>1. PodState' = PodState
    BY <1>a DEF PodState
  <2> QED BY <1>a, <2>1, QueueStutters
<1>1. CASE ScheduleOneStep \/ InsertMany
  BY <1>1 DEF ScheduleOneStep, InsertMany, Queue!Next, Queue!ScheduleOne
<1>2. ASSUME NEW j \in Jobs, Worker(j) PROVE [Queue!Next]_(Queue!vars)
  BY <1>2, <1>a DEF Worker, Match, UpdateNodes, RecordFluxID, SubmitCleanup,
                    clusterVars
<1>3. ASSUME NEW j \in Jobs, HandleCancelled(j) PROVE [Queue!Next]_(Queue!vars)
  <2> DEFINE p == Args(j).podspec
  <2>1. p \in Pods /\ p \in podsProvisional
    BY ArgsOfJob
  <2>2. /\ activeQ' = activeQ \ {p} /\ UNCHANGED <<tableVars, phase>>
        /\ doomed' \in {doomed, doomed \cup {p}}
    BY <1>3 DEF HandleCancelled, Dequeued, ObjectsDeleted, tableVars
  <2> HIDE DEF p
  <2>3. CASE p \in activeQ
    <3>1. \E state \in {PodState[p], "deleting"} :
             PodState' = [PodState EXCEPT ![p] = state]
      <4>1. phase[p] \in {"pending", "assumed"}
        BY <2>3 DEF TypeInv, ActiveUnbound
      <4>2. CASE phase[p] = "pending" /\ p \in doomed'
        <5>1. PodState' = [PodState EXCEPT ![p] = "deleting"]
          BY <2>1, <2>2, <4>2 DEF PodState
        <5> QED BY <5>1
      <4>3. CASE ~(phase[p] = "pending" /\ p \in doomed')
        <5>1. PodState' = PodState
          BY <2>1, <2>2, <4>3 DEF PodState
        <5>2. PodState = [PodState EXCEPT ![p] = PodState[p]]
          BY DEF PodState
        <5> QED BY <5>1, <5>2
      <4> QED BY <4>2, <4>3
    <3>2. Queue!PodDropped(p)
      BY <2>1, <2>2, <2>3, <3>1
         DEF Queue!PodDropped, tableVars, Queue!threadVars, Queue!tableVars
    <3> QED BY <2>1, <3>2 DEF Queue!Next, Queue!Cluster
  <2>4. CASE p \notin activeQ
    <3>1. UNCHANGED <<queueVars, phase>>
      BY <2>2, <2>4 DEF queueVars, tableVars
    <3> QED BY <2>1, <2>2, <3>1, PodDoomed
  <2> QED BY <2>3, <2>4
<1>4. ASSUME NEW j \in Jobs, HandleCompleted(j) PROVE [Queue!Next]_(Queue!vars)
  <2>1. PICK ps \in SUBSET Pods :
           /\ \A p \in ps : phase[p] \in {"pending", "assumed"}
           /\ Assume(ps)
    <3>1. PICK chosen \in ForNodes(j) : \E started \in SUBSET chosen :
             LET unbound == {p \in started : phase[p] \in {"pending", "assumed"}}
             IN  SchedulingCycle(unbound) \/ Assume(unbound)
      BY <1>4 DEF HandleCompleted
    <3>2. chosen \subseteq Pods
      BY ArgsOfJob DEF ForNodes
    <3> QED BY <3>1, <3>2 DEF SchedulingCycle
  <2>2. UNCHANGED <<queueVars, doomed>>
    BY <1>4 DEF HandleCompleted
  <2>3. PodState' = [p \in Pods |-> IF p \in ps THEN "assumed" ELSE PodState[p]]
    BY <2>1, <2>2 DEF Assume, PodState
  <2>4. CASE ps = {}
    <3>1. PodState' = PodState
      BY <2>3, <2>4 DEF PodState
    <3> QED BY <2>2, <3>1, QueueStutters
  <2>5. CASE ps # {}
    BY <2>1, <2>2, <2>3, <2>5, PodsChange DEF queueVars, tableVars
  <2> QED BY <2>4, <2>5
<1>5. CASE LoopPanics
  BY <1>5, <1>a DEF LoopPanics, clusterVars
<1>6. CASE Informer
  BY <1>6, <1>a DEF Informer, ReadGroupPods, CancelFinished, clusterVars
<1>7. ASSUME NEW c \in cleanups, DeleteObjects(c)
      PROVE  [Queue!Next]_(Queue!vars)
  <2>1. c.podspec \in Pods
    BY DEF TypeInv, TypeOK
  <2>2. doomed' \in {doomed, doomed \cup {c.podspec}} /\ UNCHANGED <<queueVars, phase>>
    BY <1>7 DEF DeleteObjects, ObjectsDeleted
  <2> QED BY <2>1, <2>2, PodDoomed
<1>8. ASSUME NEW c \in cleanups, CancelDeadline(c)
      PROVE  [Queue!Next]_(Queue!vars)
  BY <1>8, <1>a DEF CancelDeadline, clusterVars
<1>9. ASSUME NEW p \in Pods, NEW id \in plans[p], Bind(p, id)
      PROVE  [Queue!Next]_(Queue!vars)
  <2>1. UNCHANGED <<tableVars, doomed>>
    BY <1>9 DEF Bind, tableVars
  <2>2. CASE phase[p] \in {"pending", "assumed"}
    <3>1. /\ phase' = [phase EXCEPT ![p] = "running"]
          /\ activeQ' = activeQ \ {p}
      BY <1>9, <2>2 DEF Bind, Bound, Dequeued
    <3>2. PodState' = [q \in Pods |-> IF q \in {p} THEN "gone" ELSE PodState[q]]
      BY <2>1, <3>1 DEF PodState, TypeInv, TypeOK
    <3> QED BY <2>1, <2>2, <3>1, <3>2, PodsChange
  <2>3. CASE phase[p] \notin {"pending", "assumed"}
    <3>1. UNCHANGED <<phase, activeQ>>
      BY <1>9, <2>3 DEF Bind, Bound
    <3> QED BY <2>1, <3>1, <1>a DEF queueVars, tableVars
  <2> QED BY <2>2, <2>3
<1>10. ASSUME NEW p \in Pods, NEW id \in plans[p], BindFails(p, id)
       PROVE  [Queue!Next]_(Queue!vars)
  <2> DEFINE state == IF p \in doomed THEN "deleting" ELSE "unbound"
  <2>1. /\ UNCHANGED <<queueVars, doomed>> /\ phase[p] \in {"pending", "assumed"}
        /\ phase' = [phase EXCEPT ![p] = "pending"]
    BY <1>10 DEF BindFails
  <2>2. PodState' = [q \in Pods |-> IF q \in {p} THEN state ELSE PodState[q]]
    BY <2>1 DEF PodState, TypeInv, TypeOK
  <2>3. activeQ' = IF state = "gone" THEN activeQ \ {p} ELSE activeQ
    BY <2>1 DEF queueVars
  <2>4. state \in {"unbound", "assumed", "deleting", "gone"}
    OBVIOUS
  <2> HIDE DEF state
  <2> QED BY <2>1, <2>2, <2>3, <2>4, PodsChange DEF queueVars, tableVars
<1>11. ASSUME NEW p \in Pods, PodCreated(p) \/ PodRequeued(p)
       PROVE  [Queue!Next]_(Queue!vars)
  BY <1>11 DEF PodCreated, PodRequeued, Queue!Next, Queue!Cluster
<1>12. ASSUME NEW p \in Pods, PodFinishes(p) PROVE [Queue!Next]_(Queue!vars)
  <2>1. PodState' = PodState
    BY <1>12 DEF PodFinishes, PodState, TypeInv, TypeOK
  <2> QED BY <1>12, <2>1, QueueStutters DEF PodFinishes
<1>13. ASSUME NEW p \in Pods, UserDeletes(p) \/ GarbageCollected(p)
       PROVE  [Queue!Next]_(Queue!vars)
  BY <1>13, PodDoomed DEF UserDeletes, GarbageCollected
<1>14. ASSUME NEW p \in Pods, PodRemoved(p) PROVE [Queue!Next]_(Queue!vars)
  <2>1. /\ UNCHANGED <<tableVars, doomed>> /\ activeQ' = activeQ \ {p}
        /\ phase' = [phase EXCEPT ![p] = "deleted"]
        /\ phase[p] \in {"pending", "assumed", "running", "done"}
    BY <1>14 DEF PodRemoved, Exists, Dequeued, tableVars
  <2>2. CASE phase[p] \in {"pending", "assumed"}
    <3>1. PodState' = [q \in Pods |-> IF q \in {p} THEN "gone" ELSE PodState[q]]
      BY <2>1 DEF PodState, TypeInv, TypeOK
    <3> QED BY <2>1, <2>2, <3>1, PodsChange
  <2>3. CASE phase[p] \in {"running", "done"}
    <3>1. PodState' = PodState
      BY <2>1, <2>3 DEF PodState, TypeInv, TypeOK
    <3>2. activeQ' = activeQ
      BY <2>1, <2>3 DEF TypeInv, ActiveUnbound
    <3> QED BY <2>1, <3>1, <3>2, QueueStutters DEF queueVars, tableVars
  <2> QED BY <2>1, <2>2, <2>3
<1>15. ASSUME NEW p \in Pods, Tombstone(p) PROVE [Queue!Next]_(Queue!vars)
  BY <1>15, <1>a DEF Tombstone, clusterVars
<1>16. CASE Restart
  BY <1>16 DEF Restart, Queue!Next
<1>17. CASE UNCHANGED vars
  BY <1>17, <1>a DEF vars, clusterVars
<1> QED
  BY <1>1, <1>2, <1>3, <1>4, <1>5, <1>6, <1>7, <1>8, <1>9, <1>10, <1>11,
     <1>12, <1>13, <1>14, <1>15, <1>16, <1>17
     DEF Next, EventLoop, Deadline, Binder, Cluster

-----------------------------------------------------------------------------
(* What a step does to the jobs.                                           *)

\* A job keeps its state, id and nodes; or Fluxion answers, with the next id or
\* with a refusal; or the nodes are updated; or the attempt goes on, ends, or
\* starts again.
JobMoves(j) ==
    \/ StateOf(j)' = StateOf(j) /\ IdOf(j)' = IdOf(j) /\ NodesOf(j)' = NodesOf(j)
    \/ /\ StateOf(j) = "available" /\ StateOf(j)' = "matched"
       /\ IdOf(j)' = nextID /\ nextID' = nextID + 1 /\ NodesOf(j)' = NodesOf(j)
    \/ /\ StateOf(j) = "available" /\ StateOf(j)' = "cancelled"
       /\ IdOf(j)' = NoID /\ nextID' = nextID /\ NodesOf(j)' = NodesOf(j)
    \/ /\ StateOf(j) = "matched" /\ StateOf(j)' = "placed"
       /\ NodesOf(j)' = NodesGranted(j)
       /\ IdOf(j)' = IdOf(j) /\ nextID' = nextID
    \/ /\ StateOf(j) \in {"matched", "placed", "recorded"}
       /\ StateOf(j)' \in {"available", "placed", "recorded", "completed"}
       /\ StateOf(j) = "matched" =>
             StateOf(j)' = "available" \/ Disruption("nodes")
       /\ IdOf(j)' = IdOf(j) /\ nextID' = nextID /\ NodesOf(j)' = NodesOf(j)

\* Jobs are never removed and keep their arguments, new ones are available,
\* and at most one job gets another id.
JobsMove ==
    /\ Jobs \subseteq Jobs'
    /\ \A j \in Jobs : Args(j)' = Args(j) /\ JobMoves(j)
    /\ \A j \in Jobs' \ Jobs :
          StateOf(j)' = "available" /\ IdOf(j)' = NoID /\ NodesOf(j)' = NoID
    /\ \A j, k \in Jobs :
          IdOf(j)' # IdOf(j) /\ IdOf(k)' # IdOf(k) => j = k

WorkOK == /\ work \in [Groups -> Seq(WorkItem)]
          /\ \A g \in Groups : Len(work[g]) = Len(riverJobs[g])

\* Replacing an element of a sequence.
LEMMA ExceptSeq ==
  ASSUME NEW S, NEW s \in Seq(S), NEW i \in DOMAIN s, NEW x \in S
  PROVE  /\ [s EXCEPT ![i] = x] \in Seq(S)
         /\ Len([s EXCEPT ![i] = x]) = Len(s)
         /\ DOMAIN [s EXCEPT ![i] = x] = DOMAIN s
         /\ \A k \in DOMAIN s : [s EXCEPT ![i] = x][k] = IF k = i THEN x ELSE s[k]
  OBVIOUS

\* Appending to a sequence.
LEMMA AppendSeq ==
  ASSUME NEW S, NEW s \in Seq(S), NEW x \in S
  PROVE  /\ Append(s, x) \in Seq(S)
         /\ Len(Append(s, x)) = Len(s) + 1
         /\ DOMAIN Append(s, x) = DOMAIN s \cup {Len(s) + 1}
         /\ \A k \in DOMAIN s : Append(s, x)[k] = s[k]
         /\ Append(s, x)[Len(s) + 1] = x
  OBVIOUS

\* One job changes.
LEMMA OneJobMoves ==
  ASSUME TypeInv, NEW j \in Jobs, NEW state, NEW id, NEW nodes,
         [state |-> state, fluxID |-> id, nodes |-> nodes] \in WorkItem,
         Becomes(j, state, id, nodes), riverJobs' = riverJobs
  PROVE  /\ WorkOK' /\ Jobs' = Jobs
         /\ \A k \in Jobs : /\ Args(k)' = Args(k)
                            /\ StateOf(k)' = IF k = j THEN state ELSE StateOf(k)
                            /\ IdOf(k)' = IF k = j THEN id ELSE IdOf(k)
                            /\ NodesOf(k)' = IF k = j THEN nodes ELSE NodesOf(k)
<1> DEFINE g == j[1]
           i == j[2]
           new == [state |-> state, fluxID |-> id, nodes |-> nodes]
           list == [work[g] EXCEPT ![i] = new]
<1>1. g \in Groups /\ i \in DOMAIN work[g] /\ work \in [Groups -> Seq(WorkItem)]
  BY JobsDef DEF TypeInv, TypeOK
<1>2. work[g] \in Seq(WorkItem)
  BY <1>1
<1>3. work' = [work EXCEPT ![g] = list]
  BY DEF Becomes
<1>4. /\ list \in Seq(WorkItem) /\ Len(list) = Len(work[g])
      /\ DOMAIN list = DOMAIN work[g]
      /\ \A k \in DOMAIN work[g] : list[k] = IF k = i THEN new ELSE work[g][k]
  BY <1>1, <1>2, ExceptSeq
<1> HIDE DEF list
<1>5. \A h \in Groups : work'[h] = IF h = g THEN list ELSE work[h]
  BY <1>1, <1>3
<1>6. work' \in [Groups -> Seq(WorkItem)]
  BY <1>1, <1>3, <1>4
<1>7. \A h \in Groups : Len(work'[h]) = Len(work[h]) /\ DOMAIN work'[h] = DOMAIN work[h]
  BY <1>1, <1>2, <1>4, <1>5
<1>8. WorkOK'
  BY <1>6, <1>7 DEF WorkOK, TypeInv, TypeOK
<1>9. Jobs' = Jobs
  BY <1>7 DEF Jobs
<1>10. ASSUME NEW k \in Jobs
       PROVE  /\ StateOf(k)' = IF k = j THEN state ELSE StateOf(k)
              /\ IdOf(k)' = IF k = j THEN id ELSE IdOf(k)
              /\ NodesOf(k)' = IF k = j THEN nodes ELSE NodesOf(k)
  <2>1. k[1] \in Groups /\ k[2] \in DOMAIN work[k[1]] /\ k = <<k[1], k[2]>>
    BY JobsDef
  <2>2. j = <<g, i>>
    BY JobsDef
  <2>3. work'[k[1]][k[2]] = IF k = j THEN new ELSE work[k[1]][k[2]]
    <3>1. CASE k[1] = g
      BY <1>4, <1>5, <2>1, <2>2, <3>1
    <3>2. CASE k[1] # g
      BY <1>5, <2>1, <2>2, <3>2
    <3> QED BY <3>1, <3>2
  <2> QED BY <2>3 DEF StateOf, IdOf, NodesOf
<1> QED BY <1>8, <1>9, <1>10 DEF Args

\* InsertMany appends to lists of jobs.
LEMMA JobsAppended ==
  ASSUME TypeInv, InsertMany
  PROVE  /\ WorkOK' /\ JobsMove
         /\ \A j \in Jobs : /\ StateOf(j)' = StateOf(j) /\ IdOf(j)' = IdOf(j)
                            /\ NodesOf(j)' = NodesOf(j)
         /\ \A g \in Groups :
               \/ work'[g] = work[g] /\ riverJobs'[g] = riverJobs[g]
               \/ \E a \in Queue!JobArg : /\ work'[g] = Append(work[g], NewWork)
                                          /\ riverJobs'[g] = Append(riverJobs[g], a)
<1>1. work' = [g \in Groups |-> Enlisted(g)]
  BY DEF InsertMany
<1>2. WorkOK /\ riverJobs \in [Groups -> Seq(Queue!JobArg)]
  BY DEF TypeInv, TypeOK, WorkOK, Queue!TypeOK
<1>3. NewWork \in WorkItem
  BY DEF NewWork, WorkItem, NoID
<1>4. ASSUME NEW g \in Groups
      PROVE  \/ work'[g] = work[g] /\ riverJobs'[g] = riverJobs[g]
             \/ \E a \in Queue!JobArg : /\ work'[g] = Append(work[g], NewWork)
                                        /\ riverJobs'[g] = Append(riverJobs[g], a)
  <2>1. QueueProofs!TypeOK /\ batch \subseteq Queue!JobArg
    BY SameQueue DEF TypeInv, TypeOK, Queue!TypeOK
  <2>2. \/ riverJobs'[g] = riverJobs[g]
        \/ \E a \in batch : riverJobs'[g] = Append(riverJobs[g], a)
    <3>1. riverJobs' = riverJobs \/ riverJobs'[g] = Queue!Submitted(g)
      BY DEF InsertMany, Queue!InsertMany, Queue!Exec
    <3>2. Queue!Submitted(g) = QueueProofs!Submitted(g)
      BY DEF Queue!Submitted, QueueProofs!Submitted, Queue!BatchGroups,
             QueueProofs!BatchGroups
    <3>3. \/ QueueProofs!Submitted(g) = riverJobs[g]
          \/ \E a \in batch : /\ a.group = g
                              /\ QueueProofs!Submitted(g) = Append(riverJobs[g], a)
      BY <2>1, QueueAssumptions, QueueProofs!SubmittedType
    <3> QED BY <3>1, <3>2, <3>3
  <2> QED BY <1>1, <2>1, <2>2 DEF Enlisted
<1>5. WorkOK'
  <2>1. ASSUME NEW g \in Groups
        PROVE  work'[g] \in Seq(WorkItem) /\ Len(work'[g]) = Len(riverJobs'[g])
    <3>1. /\ work[g] \in Seq(WorkItem) /\ riverJobs[g] \in Seq(Queue!JobArg)
          /\ Len(work[g]) = Len(riverJobs[g])
      BY <1>2 DEF WorkOK
    <3>2. CASE work'[g] = work[g] /\ riverJobs'[g] = riverJobs[g]
      BY <3>1, <3>2
    <3>3. CASE \E a \in Queue!JobArg : /\ work'[g] = Append(work[g], NewWork)
                                       /\ riverJobs'[g] = Append(riverJobs[g], a)
      BY <1>3, <3>1, <3>3, AppendSeq
    <3> QED BY <1>4, <3>2, <3>3
  <2> QED BY <1>1, <2>1 DEF WorkOK
<1>6. ASSUME NEW g \in Groups
      PROVE  /\ DOMAIN work[g] \subseteq DOMAIN work'[g]
             /\ \A i \in DOMAIN work[g] : /\ work'[g][i] = work[g][i]
                                          /\ riverJobs'[g][i] = riverJobs[g][i]
             /\ \A i \in DOMAIN work'[g] \ DOMAIN work[g] : work'[g][i] = NewWork
  <2>1. /\ work[g] \in Seq(WorkItem) /\ riverJobs[g] \in Seq(Queue!JobArg)
        /\ DOMAIN work[g] = DOMAIN riverJobs[g]
    BY <1>2 DEF WorkOK
  <2>2. CASE work'[g] = work[g] /\ riverJobs'[g] = riverJobs[g]
    BY <2>2
  <2>3. CASE \E a \in Queue!JobArg : /\ work'[g] = Append(work[g], NewWork)
                                     /\ riverJobs'[g] = Append(riverJobs[g], a)
    <3> PICK a \in Queue!JobArg : /\ work'[g] = Append(work[g], NewWork)
                                  /\ riverJobs'[g] = Append(riverJobs[g], a)
      BY <2>3
    <3>1. /\ DOMAIN work'[g] = DOMAIN work[g] \cup {Len(work[g]) + 1}
          /\ \A i \in DOMAIN work[g] : work'[g][i] = work[g][i]
          /\ work'[g][Len(work[g]) + 1] = NewWork
      BY <1>3, <2>1, AppendSeq
    <3>2. \A i \in DOMAIN riverJobs[g] : riverJobs'[g][i] = riverJobs[g][i]
      BY <2>1, AppendSeq
    <3> QED BY <2>1, <3>1, <3>2
  <2> QED BY <1>4, <2>2, <2>3
<1>7. ASSUME NEW j \in Jobs
      PROVE  /\ j \in Jobs' /\ Args(j)' = Args(j)
             /\ StateOf(j)' = StateOf(j) /\ IdOf(j)' = IdOf(j)
             /\ NodesOf(j)' = NodesOf(j)
  BY <1>6, JobsDef DEF Jobs, Args, StateOf, IdOf, NodesOf
<1>8. ASSUME NEW j \in Jobs' \ Jobs
      PROVE  StateOf(j)' = "available" /\ IdOf(j)' = NoID /\ NodesOf(j)' = NoID
  <2>1. PICK g \in Groups : \E i \in DOMAIN work'[g] : j = <<g, i>>
    BY DEF Jobs
  <2>2. PICK i \in DOMAIN work'[g] : j = <<g, i>>
    BY <2>1
  <2>3. i \notin DOMAIN work[g]
    BY <2>2 DEF Jobs
  <2> QED BY <1>6, <2>2, <2>3 DEF StateOf, IdOf, NodesOf, NewWork
<1> QED BY <1>4, <1>5, <1>7, <1>8 DEF JobsMove, JobMoves

\* River makes the jobs available that were running when the process died.
LEMMA JobsRestarted ==
  ASSUME TypeInv, Restart
  PROVE  /\ WorkOK' /\ JobsMove /\ Jobs' = Jobs
         /\ \A j \in Jobs : /\ StateOf(j)' \in {StateOf(j), "available"}
                            /\ IdOf(j)' = IdOf(j) /\ NodesOf(j)' = NodesOf(j)
<1>1. WorkOK /\ nextID' = nextID
  BY DEF TypeInv, TypeOK, WorkOK, Restart, fluxionVars
<1>2. riverJobs' = riverJobs
  BY DEF Restart, Queue!Restart
<1> DEFINE again(w) == IF w.state \in {"matched", "placed", "recorded"}
                       THEN [w EXCEPT !.state = "available"] ELSE w
<1>3. work' = [g \in Groups |-> [i \in DOMAIN work[g] |-> again(work[g][i])]]
  BY DEF Restart
<1>4. \A w \in WorkItem : /\ again(w) \in WorkItem
                          /\ again(w).fluxID = w.fluxID
                          /\ again(w).nodes = w.nodes
                          /\ \/ again(w).state = w.state
                             \/ /\ w.state \in {"matched", "placed", "recorded"}
                                /\ again(w).state = "available"
  BY DEF WorkItem
<1> HIDE DEF again
<1>5. ASSUME NEW g \in Groups
      PROVE  /\ work'[g] \in Seq(WorkItem) /\ Len(work'[g]) = Len(work[g])
             /\ DOMAIN work'[g] = DOMAIN work[g]
             /\ \A i \in DOMAIN work[g] : /\ work'[g][i] = again(work[g][i])
                                          /\ work[g][i] \in WorkItem
  <2>1. work[g] \in Seq(WorkItem)
    BY <1>1 DEF WorkOK
  <2>2. work'[g] = [i \in 1 .. Len(work[g]) |-> again(work[g][i])]
    BY <1>3, <2>1
  <2>3. \A i \in 1 .. Len(work[g]) : again(work[g][i]) \in WorkItem
    BY <1>4, <2>1
  <2> QED BY <2>1, <2>2, <2>3
<1>6. WorkOK'
  BY <1>1, <1>2, <1>3, <1>5 DEF WorkOK
<1>7. Jobs' = Jobs
  BY <1>5 DEF Jobs
<1>8. ASSUME NEW j \in Jobs
      PROVE  /\ Args(j)' = Args(j) /\ JobMoves(j) /\ IdOf(j)' = IdOf(j)
             /\ StateOf(j)' \in {StateOf(j), "available"}
             /\ NodesOf(j)' = NodesOf(j)
  <2>1. j[1] \in Groups /\ j[2] \in DOMAIN work[j[1]]
    BY JobsDef
  <2>2. /\ work'[j[1]][j[2]] = again(work[j[1]][j[2]])
        /\ work[j[1]][j[2]] \in WorkItem
    BY <1>5, <2>1
  <2> QED BY <1>1, <1>2, <1>4, <2>2 DEF Args, JobMoves, StateOf, IdOf, NodesOf
<1> QED BY <1>6, <1>7, <1>8 DEF JobsMove

\* What a worker does to its job.
MovesTo(j, state, id, nodes) ==
    /\ Becomes(j, state, id, nodes)
    /\ \/ /\ state = "matched" /\ id = nextID /\ nodes = NodesOf(j)
          /\ StateOf(j) = "available" /\ nextID' = nextID + 1
       \/ /\ state = "cancelled" /\ id = NoID /\ nodes = NodesOf(j)
          /\ StateOf(j) = "available" /\ nextID' = nextID
       \/ /\ state = "placed" /\ id = IdOf(j) /\ nodes = NodesGranted(j)
          /\ StateOf(j) = "matched" /\ nextID' = nextID
       \/ /\ state \in {"available", "placed", "recorded", "completed"}
          /\ id = IdOf(j) /\ nodes = NodesOf(j)
          /\ StateOf(j) \in {"matched", "placed", "recorded"} /\ nextID' = nextID
          /\ StateOf(j) = "matched" => state = "available" \/ Disruption("nodes")

Attempt(j) == UNCHANGED work \/ \E state, id, nodes : MovesTo(j, state, id, nodes)

\* Every step of a worker is of this kind.
LEMMA WorkerAttempts ==
  ASSUME NEW j \in Jobs, Worker(j)
  PROVE  Attempt(j) /\ UNCHANGED queueVars
<1>1. CASE Match(j)
  BY <1>1 DEF Match, Attempt, MovesTo, Allocated, fluxionVars
<1>2. CASE RecordFluxID(j)
  <2>1. nextID' = nextID
    BY <1>2 DEF RecordFluxID, fluxionVars
  <2> QED BY <1>2, <2>1 DEF RecordFluxID, Attempt, MovesTo, Retries, Completes
<1>3. CASE SubmitCleanup(j)
  <2>1. nextID' = nextID
    BY <1>3 DEF SubmitCleanup, fluxionVars
  <2> QED BY <1>3, <2>1
          DEF SubmitCleanup, AfterSubmit, Attempt, MovesTo, Retries, Completes
<1>4. CASE UpdateNodes(j)
  <2>1. nextID' = nextID
    BY <1>4 DEF UpdateNodes, fluxionVars
  <2> QED BY <1>4, <2>1 DEF UpdateNodes, Attempt, MovesTo, Retries
<1> QED BY <1>1, <1>2, <1>3, <1>4 DEF Worker

\* A worker moves its own job only.
LEMMA WorkerMoves ==
  ASSUME TypeInv, NEW j \in Jobs, Worker(j)
  PROVE  WorkOK' /\ JobsMove /\ Jobs' = Jobs
<1>1. Attempt(j) /\ riverJobs' = riverJobs
  BY WorkerAttempts DEF queueVars
<1>2. work[j[1]][j[2]] \in WorkItem /\ nextID \in Nat
  BY JobsDef DEF TypeInv, TypeOK
<1>3. IdOf(j) \in Nat \cup {NoID} /\ NodesOf(j) \in Nat \cup {NoID}
  BY <1>2 DEF IdOf, NodesOf, WorkItem
<1>4. CASE UNCHANGED work
  BY <1>1, <1>4 DEF TypeInv, TypeOK, WorkOK, JobsMove, JobMoves, Jobs, Args,
                    StateOf, IdOf, NodesOf
<1>5. ASSUME NEW state, NEW id, NEW nodes, MovesTo(j, state, id, nodes)
      PROVE  WorkOK' /\ JobsMove /\ Jobs' = Jobs
  <2>1. /\ [state |-> state, fluxID |-> id, nodes |-> nodes] \in WorkItem
        /\ Becomes(j, state, id, nodes)
    <3>1. NodesGranted(j) \in Nat \cup {NoID}
      BY <1>3 DEF NodesGranted
    <3> QED BY <1>2, <1>3, <1>5, <3>1 DEF MovesTo, WorkItem
  <2>2. /\ WorkOK' /\ Jobs' = Jobs
        /\ \A k \in Jobs : /\ Args(k)' = Args(k)
                           /\ StateOf(k)' = IF k = j THEN state ELSE StateOf(k)
                           /\ IdOf(k)' = IF k = j THEN id ELSE IdOf(k)
                           /\ NodesOf(k)' = IF k = j THEN nodes ELSE NodesOf(k)
    BY <1>1, <2>1, OneJobMoves
  <2> QED BY <1>5, <2>2 DEF JobsMove, JobMoves, MovesTo
<1> QED BY <1>1, <1>4, <1>5 DEF Attempt

\* All steps but those of the workers, InsertMany and Restart leave jobs alone.
LEMMA WhoMovesJobs ==
  ASSUME [Next]_vars
  PROVE  \/ InsertMany \/ Restart
         \/ \E j \in Jobs : Worker(j)
         \/ UNCHANGED <<work, riverJobs>>
<1>1. CASE ScheduleOneStep
  BY <1>1 DEF ScheduleOneStep, workVars, Queue!NextPod, Queue!CheckPending,
     Queue!InsertPod, Queue!IncrementGroup, Queue!InsertGroup,
     Queue!GetReadyGroups, Queue!InsertPending, Queue!DeleteGroups
<1>2. CASE EventLoop
  BY <1>2 DEF EventLoop, HandleCancelled, HandleCompleted, LoopPanics,
              queueVars, workVars
<1>3. CASE Informer
  BY <1>3 DEF Informer, ReadGroupPods, CancelFinished, queueVars, workVars
<1>4. CASE \E c \in cleanups : Deadline(c)
  BY <1>4 DEF Deadline, DeleteObjects, CancelDeadline, queueVars, workVars
<1>5. CASE \E p \in Pods : Binder(p) \/ Tombstone(p)
  BY <1>5 DEF Binder, Bind, BindFails, Tombstone, queueVars, workVars
<1>6. CASE \E p \in Pods : Cluster(p)
  BY <1>6 DEF Cluster, PodCreated, PodRequeued, PodFinishes, UserDeletes,
     GarbageCollected, PodRemoved, queueVars, workVars, Queue!PodCreated,
     Queue!PodRequeued
<1>7. CASE UNCHANGED vars
  BY <1>7 DEF vars, queueVars, workVars
<1> QED BY <1>1, <1>2, <1>3, <1>4, <1>5, <1>6, <1>7 DEF Next

\* What any step does to the jobs.
LEMMA JobsStep == TypeInv /\ [Next]_vars => WorkOK' /\ JobsMove
<1> SUFFICES ASSUME TypeInv, [Next]_vars PROVE WorkOK' /\ JobsMove
  OBVIOUS
<1>1. CASE UNCHANGED <<work, riverJobs>>
  BY <1>1 DEF TypeInv, TypeOK, WorkOK, JobsMove, JobMoves, Jobs, Args, StateOf,
              IdOf, NodesOf
<1> QED BY <1>1, WhoMovesJobs, JobsAppended, JobsRestarted, WorkerMoves

\* Only a worker takes a job further.
LEMMA OnlyWorkersAdvance ==
  ASSUME TypeInv, [Next]_vars, ~ \E k \in Jobs : Worker(k)
  PROVE  \A j \in Jobs : /\ StateOf(j)' \in {StateOf(j), "available"}
                         /\ IdOf(j)' = IdOf(j) /\ NodesOf(j)' = NodesOf(j)
                         /\ ~Restart => StateOf(j)' = StateOf(j)
<1>1. CASE UNCHANGED <<work, riverJobs>>
  BY <1>1 DEF StateOf, IdOf, NodesOf
<1> QED BY <1>1, WhoMovesJobs, JobsAppended, JobsRestarted

-----------------------------------------------------------------------------
(* Type correctness and the refinement of the queue.                       *)

\* The part of TypeOK about the cluster, Fluxion and the handlers.
RestOK ==
    /\ phase \in [Pods -> {"none", "pending", "assumed", "running", "done", "deleted"}]
    /\ host \in [Pods -> Nat \cup {NoID}]
    /\ doomed \subseteq Pods /\ condemned \subseteq Pods
    /\ fluxID \in [Groups -> Nat \cup {NoID}]
    /\ allocs \subseteq [id : Nat, group : Groups, tasks : Int]
    /\ nextID \in Nat
    /\ events \subseteq Jobs
    /\ loop \in {"listening", "returned", "crashing", "panicked"}
    /\ plans \in [Pods -> SUBSET (Nat \cup {NoID})]
    /\ deleteEvents \subseteq Pods
    /\ informer \in [pod : Pods \cup {NoPod}, finished : BOOLEAN]
    /\ cleanups \subseteq [id : Nat, podspec : Pods, step : {"scheduled", "cancel"}]
    /\ disruptions \in [DisruptionKinds -> Nat]

\* A disruption is counted.
LEMMA DisruptionCounted ==
  ASSUME TypeInv, NEW k \in DisruptionKinds, Disruption(k)
  PROVE  disruptions' \in [DisruptionKinds -> Nat] /\ disruptions' # disruptions
<1>1. disruptions \in [DisruptionKinds -> Nat]
  BY DEF TypeInv, TypeOK
<1> DEFINE n == disruptions[k]
<1>2. n \in Nat
  BY <1>1
<1>3. disruptions' = [disruptions EXCEPT ![k] = n + 1]
  BY DEF Disruption
<1> HIDE DEF n
<1>4. disruptions'[k] # disruptions[k]
  BY <1>1, <1>2, <1>3 DEF n
<1> QED BY <1>1, <1>2, <1>3, <1>4

\* Counting a disruption keeps the type of the counters.
LEMMA DisruptionsType ==
  ASSUME TypeInv,
         \/ UNCHANGED disruptions
         \/ \E k \in {"rpc", "sql", "nodes", "api", "podspec", "bind", "nofit",
                      "userDelete", "tombstone"} : Disruption(k)
  PROVE  disruptions' \in [DisruptionKinds -> Nat]
  BY DisruptionCounted DEF TypeInv, TypeOK, DisruptionKinds

\* A step of a job worker keeps the types of the rest of the state.
LEMMA WorkerTypes ==
  ASSUME TypeInv, NEW j \in Jobs, Worker(j)
  PROVE  RestOK'
<1>1. Jobs' = Jobs
  BY WorkerMoves
<1>2. RestOK /\ j[1] \in Groups
  BY JobsDef DEF TypeInv, TypeOK, RestOK
<1>3. disruptions' \in [DisruptionKinds -> Nat]
  <2>1. \/ UNCHANGED disruptions
        \/ \E k \in {"rpc", "sql", "nodes"} : Disruption(k)
    BY DEF Worker, Match, UpdateNodes, RecordFluxID, SubmitCleanup, Exec
  <2> QED BY <2>1, DisruptionsType
<1>4. CASE Match(j)
  <2>1. /\ Args(j).size \in Int /\ nextID \in Nat
        /\ allocs \subseteq [id : Nat, group : Groups, tasks : Int]
    BY <1>2, ArgsOfJob DEF RestOK, Queue!JobArg
  <2>2. /\ allocs' \subseteq [id : Nat, group : Groups, tasks : Int]
        /\ nextID' \in Nat /\ events' \subseteq Jobs
    <3>1. CASE Allocated(j[1], Args(j).size) /\ UNCHANGED events
      BY <1>2, <2>1, <3>1 DEF Allocated, RestOK
    <3>2. CASE UNCHANGED fluxionVars /\ events' = events \cup {j}
      BY <1>2, <2>1, <3>2 DEF fluxionVars, RestOK
    <3> QED BY <1>4, <3>1, <3>2 DEF Match
  <2>3. UNCHANGED <<clusterVars, fluxID, loopVars, cleanVars>>
    BY <1>4 DEF Match
  <2> QED BY <1>1, <1>2, <1>3, <2>2, <2>3
          DEF RestOK, clusterVars, loopVars, cleanVars
<1>5. ASSUME events' \in {events, events \cup {j}}
      PROVE  events' \subseteq Jobs'
  BY <1>1, <1>2, <1>5 DEF RestOK
<1>6. CASE RecordFluxID(j)
  <2>1. IdOf(j) \in Nat
    BY <1>6 DEF RecordFluxID, TypeInv, LiveIds, Live
  <2>2. fluxID' \in [Groups -> Nat \cup {NoID}]
    BY <1>2, <1>6, <2>1 DEF RecordFluxID, Exec, Recorded, RestOK
  <2>3. events' \in {events, events \cup {j}}
    BY <1>6 DEF RecordFluxID, Retries, Completes
  <2>4. UNCHANGED <<clusterVars, fluxionVars, loopVars, cleanVars>>
    BY <1>6 DEF RecordFluxID
  <2> QED BY <1>2, <1>3, <1>5, <2>2, <2>3, <2>4
          DEF RestOK, clusterVars, fluxionVars, loopVars, cleanVars
<1>7. CASE SubmitCleanup(j)
  <2>1. IdOf(j) \in Nat /\ Args(j).podspec \in Pods
    BY <1>7, ArgsOfJob DEF SubmitCleanup, TypeInv, LiveIds, Live
  <2>2. cleanups' \subseteq [id : Nat, podspec : Pods, step : {"scheduled", "cancel"}]
    <3>1. \/ cleanups' = cleanups
          \/ cleanups' = cleanups \cup {[id |-> IdOf(j), podspec |-> Args(j).podspec,
                                         step |-> "scheduled"]}
      BY <1>7 DEF SubmitCleanup, Exec
    <3> QED BY <1>2, <2>1, <3>1 DEF RestOK
  <2>3. events' \in {events, events \cup {j}}
    BY <1>7 DEF SubmitCleanup, AfterSubmit, Retries, Completes
  <2>4. UNCHANGED <<clusterVars, fluxID, fluxionVars, loopVars, deleteEvents, informer>>
    BY <1>7 DEF SubmitCleanup
  <2> QED BY <1>2, <1>3, <1>5, <2>2, <2>3, <2>4
          DEF RestOK, clusterVars, fluxionVars, loopVars
<1>8. CASE UpdateNodes(j)
  BY <1>1, <1>2, <1>3, <1>8
     DEF UpdateNodes, Retries, RestOK, clusterVars, fluxionVars, loopVars, cleanVars
<1> QED BY <1>4, <1>6, <1>7, <1>8 DEF Worker

\* So does a step of the event loop, waitForJob.
LEMMA LoopTypes ==
  ASSUME TypeInv, EventLoop, Jobs \subseteq Jobs'
  PROVE  RestOK'
<1>1. RestOK
  BY DEF TypeInv, TypeOK, RestOK
<1>2. ASSUME NEW j \in Jobs, HandleCancelled(j) PROVE RestOK'
  <2>1. Args(j).podspec \in Pods
    BY ArgsOfJob
  <2>2. disruptions' \in [DisruptionKinds -> Nat]
    BY <1>2, DisruptionsType DEF HandleCancelled
  <2>3. doomed' \subseteq Pods /\ condemned' \subseteq Pods
    BY <1>1, <1>2, <2>1 DEF HandleCancelled, ObjectsDeleted, PodsOfJob, RestOK
  <2> QED BY <1>1, <1>2, <2>2, <2>3
          DEF HandleCancelled, RestOK, fluxionVars, cleanVars
<1>3. ASSUME NEW j \in Jobs, HandleCompleted(j) PROVE RestOK'
  <2>1. PICK chosen \in ForNodes(j) : \E started \in SUBSET chosen :
          LET unbound == {p \in started : phase[p] \in {"pending", "assumed"}} IN
             /\ \/ /\ SchedulingCycle(unbound)
                   /\ loop' = LoopAfter(j)
                \/ /\ Disruption("podspec") \/ UNCHANGED disruptions
                   /\ Assume(unbound)
                   /\ loop' = "crashing"
             /\ plans' = [p \in Pods |-> IF p \in unbound
                                         THEN plans[p] \cup {NodesOf(j)} ELSE plans[p]]
    BY <1>3 DEF HandleCompleted
  <2>2. NodesOf(j) \in Nat \cup {NoID}
    <3>1. work[j[1]][j[2]] \in WorkItem
      BY JobsDef DEF TypeInv, TypeOK
    <3> QED BY <3>1 DEF NodesOf, WorkItem
  <2>3. plans' \in [Pods -> SUBSET (Nat \cup {NoID})]
    BY <1>1, <2>1, <2>2 DEF RestOK
  <2>4. /\ loop' \in {"listening", "crashing"}
        /\ phase' \in [Pods -> {"none", "pending", "assumed", "running", "done", "deleted"}]
    BY <1>1, <2>1 DEF RestOK, SchedulingCycle, Assume, LoopAfter
  <2>5. disruptions' \in [DisruptionKinds -> Nat]
    <3>1. \/ UNCHANGED disruptions
          \/ \E k \in {"podspec", "nofit"} : Disruption(k)
      BY <2>1 DEF SchedulingCycle
    <3> QED BY <3>1, DisruptionsType
  <2> QED BY <1>1, <1>3, <2>3, <2>4, <2>5
          DEF HandleCompleted, RestOK, fluxionVars, cleanVars
<1>4. CASE LoopPanics
  BY <1>1, <1>4 DEF LoopPanics, RestOK, clusterVars, workVars, fluxionVars,
                    cleanVars
<1> QED BY <1>2, <1>3, <1>4 DEF EventLoop

\* The rest of the steps, one by one.
LEMMA RestStep ==
  ASSUME TypeInv, [Next]_vars
  PROVE  RestOK'
<1>1. RestOK
  BY DEF TypeInv, TypeOK, RestOK
<1>2. Jobs \subseteq Jobs'
  BY JobsStep DEF JobsMove
<1>3. CASE ScheduleOneStep \/ InsertMany
  BY <1>1, <1>2, <1>3 DEF ScheduleOneStep, InsertMany, RestOK, clusterVars,
     workVars, fluxionVars, loopVars, cleanVars
<1>4. ASSUME NEW j \in Jobs, Worker(j) PROVE RestOK'
  BY <1>4, WorkerTypes
<1>5. CASE EventLoop
  BY <1>2, <1>5, LoopTypes
<1>6. ASSUME NEW p \in Pods, ReadGroupPods(p) PROVE RestOK'
  <2>1. disruptions' \in [DisruptionKinds -> Nat]
    BY <1>6, DisruptionsType DEF ReadGroupPods
  <2>2. /\ informer' \in [pod : Pods \cup {NoPod}, finished : BOOLEAN]
        /\ deleteEvents' \subseteq Pods
    BY <1>1, <1>6 DEF ReadGroupPods, RestOK
  <2> QED BY <1>1, <1>2, <1>6, <2>1, <2>2
          DEF ReadGroupPods, RestOK, clusterVars, workVars, fluxionVars, loopVars
<1>7. CASE CancelFinished
  <2>1. disruptions' \in [DisruptionKinds -> Nat]
    BY <1>7, DisruptionsType DEF CancelFinished
  <2>2. allocs' \subseteq allocs
    BY <1>7 DEF CancelFinished, Without
  <2>3. informer' \in [pod : Pods \cup {NoPod}, finished : BOOLEAN]
    BY <1>7 DEF CancelFinished, Idle
  <2> QED BY <1>1, <1>2, <1>7, <2>1, <2>2, <2>3
          DEF CancelFinished, RestOK, clusterVars, workVars, loopVars
<1>8. ASSUME NEW c \in cleanups, DeleteObjects(c) PROVE RestOK'
  <2>1. disruptions' \in [DisruptionKinds -> Nat]
    BY <1>8, DisruptionsType DEF DeleteObjects
  <2>2. c \in [id : Nat, podspec : Pods, step : {"scheduled", "cancel"}]
    BY <1>1 DEF RestOK
  <2>3. /\ cleanups' \subseteq [id : Nat, podspec : Pods, step : {"scheduled", "cancel"}]
        /\ doomed' \subseteq Pods /\ condemned' \subseteq Pods
    BY <1>1, <1>8, <2>2 DEF DeleteObjects, ObjectsDeleted, PodsOfJob, RestOK
  <2> QED BY <1>1, <1>2, <1>8, <2>1, <2>3
          DEF DeleteObjects, RestOK, workVars, fluxionVars, loopVars
<1>9. ASSUME NEW c \in cleanups, CancelDeadline(c) PROVE RestOK'
  <2>1. disruptions' \in [DisruptionKinds -> Nat]
    BY <1>9, DisruptionsType DEF CancelDeadline
  <2>2. c \in [id : Nat, podspec : Pods, step : {"scheduled", "cancel"}]
    BY <1>1 DEF RestOK
  <2>3. /\ cleanups' \subseteq [id : Nat, podspec : Pods, step : {"scheduled", "cancel"}]
        /\ allocs' \subseteq allocs
    BY <1>1, <1>9, <2>2 DEF CancelDeadline, Retried, Without, RestOK
  <2> QED BY <1>1, <1>2, <1>9, <2>1, <2>3
          DEF CancelDeadline, RestOK, clusterVars, workVars, loopVars
<1>10. ASSUME NEW p \in Pods, NEW id \in plans[p], Bind(p, id) PROVE RestOK'
  <2>1. id \in Nat \cup {NoID}
    BY <1>1 DEF RestOK
  <2>2. plans' \in [Pods -> SUBSET (Nat \cup {NoID})]
    BY <1>1, <1>10 DEF Bind, RestOK
  <2>3. /\ phase' \in [Pods -> {"none", "pending", "assumed", "running", "done", "deleted"}]
        /\ host' \in [Pods -> Nat \cup {NoID}]
    BY <1>1, <1>10, <2>1 DEF Bind, Bound, RestOK
  <2> QED BY <1>1, <1>2, <1>10, <2>2, <2>3
          DEF Bind, RestOK, workVars, fluxionVars, cleanVars
<1>11. ASSUME NEW p \in Pods, NEW id \in plans[p], BindFails(p, id) PROVE RestOK'
  <2>1. plans' \in [Pods -> SUBSET (Nat \cup {NoID})]
    BY <1>1, <1>11 DEF BindFails, RestOK
  <2>2. disruptions' \in [DisruptionKinds -> Nat]
    BY <1>11, DisruptionsType DEF BindFails
  <2> QED BY <1>1, <1>2, <1>11, <2>1, <2>2
          DEF BindFails, RestOK, workVars, fluxionVars, cleanVars
<1>12. ASSUME NEW p \in Pods, Cluster(p) PROVE RestOK'
  <2>1. disruptions' \in [DisruptionKinds -> Nat]
    <3>1. UNCHANGED disruptions \/ Disruption("userDelete")
      BY <1>12 DEF Cluster, PodCreated, PodRequeued, PodFinishes, UserDeletes,
                   GarbageCollected, PodRemoved
    <3> QED BY <3>1, DisruptionsType
  <2> QED BY <1>1, <1>2, <1>12, <2>1
          DEF Cluster, PodCreated, PodRequeued, PodFinishes, UserDeletes,
              GarbageCollected, PodRemoved, RestOK, clusterVars, workVars,
              fluxionVars, loopVars, cleanVars
<1>13. ASSUME NEW p \in Pods, Tombstone(p) PROVE RestOK'
  <2>1. disruptions' \in [DisruptionKinds -> Nat]
    BY <1>13, DisruptionsType DEF Tombstone
  <2> QED BY <1>1, <1>2, <1>13, <2>1
          DEF Tombstone, RestOK, clusterVars, workVars, fluxionVars
<1>14. CASE Restart
  <2>1. cleanups' \subseteq [id : Nat, podspec : Pods, step : {"scheduled", "cancel"}]
    BY <1>1, <1>14 DEF Restart, RestOK
  <2>2. phase' \in [Pods -> {"none", "pending", "assumed", "running", "done", "deleted"}]
    BY <1>1, <1>14 DEF Restart, RestOK
  <2> QED BY <1>1, <1>14, <2>1, <2>2 DEF Restart, RestOK, Idle, fluxionVars
<1>15. CASE UNCHANGED vars
  BY <1>1, <1>2, <1>15 DEF vars, RestOK, clusterVars, workVars, fluxionVars,
                           loopVars, cleanVars
<1> QED
  BY <1>3, <1>4, <1>5, <1>6, <1>7, <1>8, <1>9, <1>10, <1>11, <1>12, <1>13,
     <1>14, <1>15 DEF Next, Informer, Deadline, Binder

\* Pods leave the scheduling queue when they are bound or removed.
LEMMA ActiveStep ==
  ASSUME TypeInv, [Next]_vars
  PROVE  ActiveUnbound'
<1> DEFINE Waits(p) == phase[p] \in {"pending", "assumed"}
<1>1. /\ \A p \in activeQ : p \in Pods /\ Waits(p)
      /\ phase \in [Pods -> {"none", "pending", "assumed", "running", "done", "deleted"}]
  BY DEF TypeInv, TypeOK, Queue!TypeOK, ActiveUnbound
<1>a. ASSUME activeQ' \subseteq activeQ, phase' = phase PROVE ActiveUnbound'
  BY <1>1, <1>a DEF ActiveUnbound
<1>2. CASE ScheduleOneStep \/ InsertMany
  <2>1. activeQ' \subseteq activeQ
    BY <1>2 DEF ScheduleOneStep, InsertMany, Queue!NextPod, Queue!CheckPending,
       Queue!InsertPod, Queue!IncrementGroup, Queue!InsertGroup, Queue!Done,
       Queue!GetReadyGroups, Queue!InsertPending, Queue!DeleteGroups,
       Queue!InsertMany, Queue!envVars
  <2> QED BY <1>2, <1>a, <2>1 DEF ScheduleOneStep, InsertMany, clusterVars
<1>3. ASSUME NEW j \in Jobs, Worker(j) PROVE ActiveUnbound'
  BY <1>3, <1>a DEF Worker, Match, UpdateNodes, RecordFluxID, SubmitCleanup,
                    clusterVars, queueVars
<1>4. CASE EventLoop
  <2>1. ASSUME NEW j \in Jobs, HandleCompleted(j) PROVE ActiveUnbound'
    <3>1. PICK ps : Assume(ps)
      BY <2>1 DEF HandleCompleted, SchedulingCycle
    <3> QED BY <1>1, <2>1, <3>1 DEF HandleCompleted, Assume, ActiveUnbound, queueVars
  <2>2. ASSUME NEW j \in Jobs, HandleCancelled(j) PROVE ActiveUnbound'
    BY <1>a, <2>2 DEF HandleCancelled, Dequeued
  <2>3. CASE LoopPanics
    BY <1>a, <2>3 DEF LoopPanics, clusterVars, queueVars
  <2> QED BY <1>4, <2>1, <2>2, <2>3 DEF EventLoop
<1>5. CASE Informer
  BY <1>5, <1>a DEF Informer, ReadGroupPods, CancelFinished, clusterVars, queueVars
<1>6. ASSUME NEW c \in cleanups, Deadline(c) PROVE ActiveUnbound'
  BY <1>6, <1>a DEF Deadline, DeleteObjects, CancelDeadline, clusterVars, queueVars
<1>7. ASSUME NEW p \in Pods, Binder(p) \/ Tombstone(p) PROVE ActiveUnbound'
  BY <1>1, <1>7 DEF Binder, Bind, Bound, BindFails, Tombstone, Dequeued,
                    ActiveUnbound, clusterVars, queueVars
<1>8. ASSUME NEW p \in Pods, Cluster(p) PROVE ActiveUnbound'
  <2>1. CASE PodCreated(p)
    BY <1>1, <2>1 DEF PodCreated, Queue!PodCreated, ActiveUnbound
  <2>2. CASE PodRequeued(p)
    <3>1. Waits(p)
      BY <1>1, <2>2 DEF PodRequeued, Queue!PodRequeued, Queue!Listed, PodState
    <3> QED BY <1>1, <2>2, <3>1 DEF PodRequeued, Queue!PodRequeued, ActiveUnbound,
                                    clusterVars
  <2>3. CASE PodFinishes(p) \/ UserDeletes(p) \/ GarbageCollected(p) \/ PodRemoved(p)
    BY <1>1, <2>3 DEF PodFinishes, UserDeletes, GarbageCollected, PodRemoved,
                      Dequeued, ActiveUnbound, queueVars
  <2> QED BY <1>8, <2>1, <2>2, <2>3 DEF Cluster
<1>9. CASE Restart
  <2>1. \A p \in activeQ' : p \in Pods /\ Waits(p)
    BY <1>1, <1>9 DEF Restart, Queue!Restart, Queue!Listed, PodState
  <2> QED BY <1>1, <1>9, <2>1 DEF Restart, ActiveUnbound
<1>10. CASE UNCHANGED vars
  BY <1>10, <1>a DEF vars, clusterVars, queueVars
<1> QED
  BY <1>2, <1>3, <1>4, <1>5, <1>6, <1>7, <1>8, <1>9, <1>10 DEF Next

\* TypeInv is inductive.
LEMMA TypeStep == TypeInv /\ [Next]_vars => TypeInv'
<1> SUFFICES ASSUME TypeInv, [Next]_vars PROVE TypeInv'
  OBVIOUS
<1>1. QueueProofs!SafeInv'
  BY QueueStep, QueueSafeStep DEF TypeInv
<1>2. Queue!TypeOK'
  BY <1>1, SameQueue DEF QueueProofs!SafeInv, QueueProofs!TypeInv
<1>3. WorkOK' /\ JobsMove
  BY JobsStep
<1>4. RestOK'
  BY RestStep
<1>5. TypeOK'
  BY <1>2, <1>3, <1>4 DEF TypeOK, RestOK, WorkOK
<1>6. LiveIds'
  <2> SUFFICES ASSUME NEW j \in Jobs', Live(j)' PROVE IdOf(j)' \in Nat
    BY DEF LiveIds
  <2>1. j \in Jobs /\ JobMoves(j)
    BY <1>3 DEF JobsMove, Live
  <2>2. nextID \in Nat
    BY DEF TypeInv, TypeOK
  <2> QED BY <2>1, <2>2 DEF JobMoves, Live, TypeInv, LiveIds
<1> QED BY <1>1, <1>5, <1>6, ActiveStep DEF TypeInv

\* Nothing is queued, allocated or planned when the scheduler starts.
LEMMA TypeInit == Init => TypeInv
<1> SUFFICES ASSUME Init PROVE TypeInv
  OBVIOUS
<1>1. Queue!Init
  BY DEF Init
<1>2. QueueProofs!SafeInv /\ Queue!TypeOK
  <2>1. QueueProofs!SafeInv
    BY <1>1, SameQueue, QueueAssumptions, QueueProofs!SafeInit
  <2> QED BY <2>1, SameQueue DEF QueueProofs!SafeInv, QueueProofs!TypeInv
<1>3. Jobs = {}
  BY DEF Init, Jobs
<1>4. activeQ = {} /\ riverJobs = [g \in Groups |-> <<>>]
  BY <1>1 DEF Queue!Init
<1>5. disruptions \in [DisruptionKinds -> Nat]
  BY DEF Init
<1> QED BY <1>2, <1>3, <1>4, <1>5
        DEF Init, TypeInv, TypeOK, LiveIds, ActiveUnbound, Idle

\* Every variable of the composed system keeps its type, whatever fails and
\* whenever the scheduler restarts: a flux id is there when a job needs it,
\* and a cleanup job names a pod.
THEOREM TypeCorrect == Spec => []TypeOK
  BY TypeInit, TypeStep, PTL DEF Spec, TypeInv

\* The composed system implements ProvisionalQueue.
THEOREM ImplementsQueue == Spec => QueueSpec
<1>1. Init => Queue!Init
  BY DEF Init
<1> QED BY <1>1, TypeInit, TypeStep, QueueStep, PTL DEF Spec, QueueSpec, Queue!Spec
=============================================================================
