----------------------- MODULE ProvisionalQueueProofs -----------------------
(***************************************************************************)
(* Theorems about ProvisionalQueue, for any pods, groups, labels, lookup   *)
(* keys and numbers of faults.                                             *)
(***************************************************************************)
EXTENDS ProvisionalQueue, FiniteSetTheorems, TLAPS

USE NoPodAssumption, LabelAssumption, FaultAssumption

-----------------------------------------------------------------------------
(* What the helpers return.                                                *)

\* The default of GetPodGroupSize is a size as well.
LEMMA GroupSizeType == \A p \in Pods : GroupSize(p) \in Int
  BY DEF GroupSize

\* A job of a ready group is a value of type JobArg.
LEMMA ReadyJobType ==
  ASSUME TypeOK, NEW g \in Groups, NEW r \in Pods \cup {NoPod}
  PROVE  ReadyJob(g, r) \in JobArg
  BY DEF TypeOK, ReadyJob, JobArg, PodRows, Members, Row

\* Inserting, counting and deleting groups leaves a table of rows.
LEMMA TableTypes ==
  ASSUME TypeOK
  PROVE  /\ \A g \in Groups : Incremented(g) \in [Groups -> Row]
         /\ \A p \in Pods : GroupInserted(p) \in [Groups -> Row]
         /\ \A gs : GroupsDeleted(gs) \in [Groups -> Row]
<1>1. ASSUME NEW g \in Groups PROVE Incremented(g) \in [Groups -> Row]
  <2> DEFINE row == groupsProvisional[g]
  <2>1. row \in Row
    BY DEF TypeOK
  <2>2. [row EXCEPT !.current = @ + 1] \in Row
    BY <2>1 DEF Row
  <2>3. [groupsProvisional EXCEPT ![g] = [row EXCEPT !.current = @ + 1]]
          \in [Groups -> Row]
    BY <2>2 DEF TypeOK
  <2> QED BY <2>3 DEF Incremented, TypeOK
<1>2. \A p \in Pods : GroupInserted(p) \in [Groups -> Row]
  BY GroupSizeType DEF TypeOK, GroupInserted, HasRow, Row
<1>3. \A gs : GroupsDeleted(gs) \in [Groups -> Row]
  BY DEF TypeOK, GroupsDeleted, NoRow, Row
<1> QED BY <1>1, <1>2, <1>3

\* InsertMany appends a job of the batch, or nothing.
LEMMA SubmittedType ==
  ASSUME TypeOK, NEW g \in Groups
  PROVE  /\ Submitted(g) \in Seq(JobArg)
         /\ \/ Submitted(g) = riverJobs[g]
            \/ \E job \in batch : /\ job.group = g
                                  /\ Submitted(g) = Append(riverJobs[g], job)
<1>1. CASE g \notin BatchGroups
  BY <1>1 DEF Submitted, TypeOK
<1>2. CASE g \in BatchGroups
  <2> DEFINE j == CHOOSE job \in batch : job.group = g
  <2>1. \E job \in batch : job.group = g
    BY <1>2 DEF BatchGroups
  <2>2. j \in batch /\ j.group = g
    BY <2>1
  <2>3. Submitted(g) = Append(riverJobs[g], j)
    BY <1>2 DEF Submitted
  <2> HIDE DEF j
  <2> QED BY <2>2, <2>3 DEF TypeOK
<1> QED BY <1>1, <1>2

\* The jobs in the queue after InsertMany were there before, or are in batch.
LEMMA SubmissionsAfterInsert ==
  ASSUME TypeOK, riverJobs' = [g \in Groups |-> Submitted(g)]
  PROVE  Submissions' \subseteq Submissions \cup batch
<1> SUFFICES ASSUME NEW g \in Groups, NEW i \in DOMAIN riverJobs'[g]
             PROVE  riverJobs'[g][i] \in Submissions \cup batch
  BY DEF Submissions
<1>1. riverJobs'[g] = Submitted(g)
  OBVIOUS
<1>2. riverJobs[g] \in Seq(JobArg)
  BY DEF TypeOK
<1>3. CASE Submitted(g) = riverJobs[g]
  BY <1>1, <1>3 DEF Submissions
<1>4. CASE \E job \in batch : Submitted(g) = Append(riverJobs[g], job)
  <2> PICK job \in batch : Submitted(g) = Append(riverJobs[g], job)
    BY <1>4
  <2>1. i \in 1 .. Len(riverJobs[g]) + 1
    BY <1>1, <1>2
  <2>2. CASE i \in 1 .. Len(riverJobs[g])
    <3>1. riverJobs'[g][i] = riverJobs[g][i] /\ i \in DOMAIN riverJobs[g]
      BY <1>1, <1>2, <2>2
    <3> QED BY <3>1 DEF Submissions
  <2>3. CASE i = Len(riverJobs[g]) + 1
    BY <1>1, <1>2, <2>3
  <2> QED BY <2>1, <2>2, <2>3, <1>2
<1> QED BY <1>3, <1>4, SubmittedType

-----------------------------------------------------------------------------
(* Type correctness.                                                       *)

\* ScheduleOne has a pod in hand unless it waits for the next one.
InFlightOK == pc # "idle" => inFlight \in Pods

TypeInv == TypeOK /\ InFlightOK

\* Counting a fault keeps the type of the counters.
LEMMA FaultType ==
  ASSUME TypeOK, NEW k \in FaultKinds, Fault(k)
  PROVE  faults' \in [FaultKinds -> Nat]
<1> DEFINE n == faults[k]
<1>1. n \in Nat /\ n + 1 \in Nat
  BY DEF TypeOK
<1>2. faults' = [faults EXCEPT ![k] = n + 1]
  BY DEF Fault
<1> HIDE DEF n
<1> QED BY <1>1, <1>2 DEF TypeOK

\* A statement that did not run returned an error.
LEMMA FaultFails == ASSUME TypeOK, Fault("dberror") PROVE Failed
<1> DEFINE n == faults["dberror"]
<1>1. n \in Nat
  BY DEF TypeOK, FaultKinds
<1>2. faults'["dberror"] = n + 1
  BY DEF Fault, TypeOK, FaultKinds
<1> QED BY <1>1, <1>2 DEF Failed

\* Ending a run of ScheduleOne.
LEMMA DoneType ==
  ASSUME TypeOK, Done
  PROVE  /\ podState' \in [Pods -> PodStates]
         /\ activeQ' \subseteq Pods
         /\ pc' = "idle" /\ inFlight' = NoPod
         /\ deletePod' = FALSE /\ batch' = {}
  BY DEF TypeOK, Done, Goto

\* Every step of the scheduler and of the cluster preserves the types.
LEMMA TypeStep == TypeInv /\ [Next]_vars => TypeInv'
<1> SUFFICES ASSUME TypeInv, [Next]_vars PROVE TypeInv'
  OBVIOUS
<1> USE DEF TypeInv, InFlightOK
<1>a. TypeOK
  OBVIOUS
<1>b. ASSUME NEW k \in {"requeue", "dberror", "restart"}, Fault(k)
      PROVE  faults' \in [FaultKinds -> Nat]
  BY <1>a, <1>b, FaultType DEF FaultKinds
<1>c. ASSUME Query PROVE faults' \in [FaultKinds -> Nat]
  BY <1>b, <1>c DEF Query, TypeOK
<1>1. ASSUME NEW p \in Pods, NextPod(p) PROVE TypeInv'
  BY <1>1 DEF NextPod, Goto, AfterLabels, Steps, TypeOK, tableVars, threadVars
<1>2. CASE CheckPending
  BY <1>2, <1>c DEF CheckPending, Goto, Steps, TypeOK, envVars, tableVars
<1>3. CASE InsertPod
  <2>1. inFlight \in Pods
    BY <1>3 DEF InsertPod
  <2>2. podsProvisional' \subseteq Pods /\ faults' \in [FaultKinds -> Nat]
    BY <1>3, <1>b, <2>1 DEF InsertPod, Exec, TypeOK
  <2> QED BY <1>3, <2>1, <2>2 DEF InsertPod, Goto, Steps, TypeOK, envVars
<1>4. CASE IncrementGroup
  <2>1. inFlight \in Pods /\ GroupOf[inFlight] \in Groups
    BY <1>4 DEF IncrementGroup
  <2>2. /\ groupsProvisional' \in [Groups -> Row]
        /\ faults' \in [FaultKinds -> Nat]
    BY <1>4, <1>a, <1>b, <2>1, TableTypes DEF IncrementGroup, Exec, TypeOK
  <2> QED BY <1>4, <2>1, <2>2 DEF IncrementGroup, Goto, Steps, TypeOK, envVars
<1>5. CASE InsertGroup
  <2>1. inFlight \in Pods
    BY <1>5 DEF InsertGroup
  <2>2. /\ groupsProvisional' \in [Groups -> Row]
        /\ faults' \in [FaultKinds -> Nat]
    BY <1>5, <1>a, <1>b, <2>1, TableTypes DEF InsertGroup, Exec, TypeOK
  <2> QED BY <1>5, <2>1, <2>2 DEF InsertGroup, Goto, Steps, TypeOK, envVars
<1>6. CASE GetReadyGroups
  <2>1. /\ faults' \in [FaultKinds -> Nat]
        /\ UNCHANGED <<tableVars, riverJobs>>
    BY <1>6, <1>c DEF GetReadyGroups
  <2>2. CASE Done
    BY <2>1, <2>2, <1>a, DoneType DEF TypeOK, tableVars, Steps
  <2>3. CASE ~Done
    <3>1. PICK lookup \in SUBSET ReadyGroups :
            \E representative \in [lookup -> Pods \cup {NoPod}] :
               batch' = {ReadyJob(g, representative[g]) : g \in lookup}
      BY <1>6, <2>3 DEF GetReadyGroups
    <3>2. batch' \subseteq JobArg
      BY <3>1, <1>a, ReadyJobType DEF ReadyGroups
    <3>3. /\ pc = "getReadyGroups" /\ pc' = "insertPending"
          /\ UNCHANGED <<envVars, inFlight, deletePod>>
      BY <1>6, <2>3 DEF GetReadyGroups, Goto
    <3> QED BY <2>1, <3>2, <3>3 DEF TypeOK, tableVars, envVars, Steps
  <2> QED BY <2>2, <2>3
<1>7. CASE InsertPending
  <2>1. BatchGroups \subseteq Groups
    BY DEF BatchGroups, TypeOK, JobArg
  <2>2. pendingQueue' \subseteq Groups /\ faults' \in [FaultKinds -> Nat]
    BY <1>7, <1>b, <2>1 DEF InsertPending, Exec, TypeOK
  <2>3. CASE Done
    BY <1>7, <1>a, <2>2, <2>3, DoneType DEF InsertPending, TypeOK, Steps
  <2>4. CASE ~Done
    BY <1>7, <2>2, <2>4 DEF InsertPending, TypeOK, envVars, Goto, Steps
  <2> QED BY <2>3, <2>4
<1>8. CASE DeleteGroups
  <2>1. /\ groupsProvisional' \in [Groups -> Row]
        /\ faults' \in [FaultKinds -> Nat]
    BY <1>8, <1>a, <1>b, TableTypes DEF DeleteGroups, Exec, TypeOK
  <2>2. CASE Done
    BY <1>8, <1>a, <2>1, <2>2, DoneType DEF DeleteGroups, TypeOK, Steps
  <2>3. CASE ~Done
    BY <1>8, <2>1, <2>3 DEF DeleteGroups, TypeOK, envVars, Goto, Steps
  <2> QED BY <2>2, <2>3
<1>9. CASE InsertMany
  <2>1. /\ riverJobs' \in [Groups -> Seq(JobArg)]
        /\ faults' \in [FaultKinds -> Nat]
    BY <1>9, <1>a, <1>b, SubmittedType DEF InsertMany, Exec, TypeOK
  <2> QED BY <1>9, <1>a, <2>1, DoneType
          DEF InsertMany, TypeOK, tableVars, Steps
<1>10. ASSUME NEW p \in Pods, PodCreated(p) PROVE TypeInv'
  BY <1>10 DEF PodCreated, TypeOK, tableVars, threadVars, PodStates
<1>11. ASSUME NEW ps \in SUBSET Pods, NEW s \in PodStates \ {"none"},
              PodsChanged(ps, s)
       PROVE  TypeInv'
  BY <1>11 DEF PodsChanged, TypeOK, tableVars, threadVars, PodStates
<1>12. ASSUME NEW p \in Pods, PodRequeued(p) PROVE TypeInv'
  BY <1>12, <1>b DEF PodRequeued, TypeOK, tableVars, threadVars
<1>13. CASE Restart
  <2>1. podState' \in [Pods -> PodStates]
    BY <1>13 DEF Restart, TypeOK, PodStates
  <2> QED BY <1>13, <1>b, <2>1 DEF Restart, TypeOK, tableVars, Listed, Steps
<1>14. ASSUME NEW p \in Pods, PodDropped(p) PROVE TypeInv'
  <2>1. podState' \in [Pods -> PodStates]
    BY <1>14 DEF PodDropped, TypeOK, PodStates
  <2> QED BY <1>14, <2>1 DEF PodDropped, TypeOK, tableVars, threadVars
<1>15. CASE UNCHANGED vars
  BY <1>15 DEF vars, TypeOK, envVars, tableVars, threadVars
<1> QED
  BY <1>1, <1>2, <1>3, <1>4, <1>5, <1>6, <1>7, <1>8, <1>9, <1>10, <1>11,
     <1>12, <1>13, <1>14, <1>15 DEF Next, ScheduleOne, Cluster

\* The scheduler starts with an empty queue and empty tables, well typed.
LEMMA TypeInit == Init => TypeInv
<1> SUFFICES ASSUME Init PROVE TypeInv
  OBVIOUS
<1>1. NoRow \in Row
  BY DEF NoRow, Row
<1>2. groupsProvisional \in [Groups -> Row] /\ riverJobs \in [Groups -> Seq(JobArg)]
  BY <1>1 DEF Init
<1>3. faults \in [FaultKinds -> Nat]
  BY DEF Init
<1> QED BY <1>2, <1>3 DEF Init, TypeInv, TypeOK, InFlightOK, PodStates, Steps

\* Every variable keeps its type: the rows, jobs and counters of the path
\* from ScheduleOne to InsertMany are well formed whatever fails.
THEOREM TypeCorrect == Spec => []TypeOK
  BY TypeInit, TypeStep, PTL DEF Spec, TypeInv

-----------------------------------------------------------------------------
(* What a step may do to each table, whatever fails.                       *)

\* Only Enqueue adds rows to pods_provisional, and only its own pod.
PodsFootprint ==
    \/ podsProvisional' = podsProvisional
    \/ pc = "insertPod" /\ podsProvisional' = podsProvisional \cup {inFlight}

\* groups_provisional changes by the three statements that name it.
GroupsFootprint ==
    \/ groupsProvisional' = groupsProvisional
    \/ pc = "increment" /\ groupsProvisional' = Incremented(GroupOf[inFlight])
    \/ pc = "insertGroup" /\ groupsProvisional' = GroupInserted(inFlight)
    \/ pc = "deleteGroups" /\ groupsProvisional' = GroupsDeleted(BatchGroups)

PendingFootprint ==
    \/ pendingQueue' = pendingQueue
    \/ pc = "insertPending" /\ pendingQueue' = pendingQueue \cup BatchGroups

FreshBatch ==
    \E lookup \in SUBSET ReadyGroups :
    \E representative \in [lookup -> Pods \cup {NoPod}] :
        /\ \A g \in lookup : representative[g] \in Representatives(g)
        /\ batch' = {ReadyJob(g, representative[g]) : g \in lookup}

BatchFootprint ==
    \/ batch' = {}
    \/ batch' = batch
    \/ pc = "getReadyGroups" /\ FreshBatch

JobsFootprint ==
    \/ riverJobs' = riverJobs
    \/ /\ pc = "insertMany" /\ riverJobs' = [g \in Groups |-> Submitted(g)]
       /\ pc' = "idle" /\ batch' = {}

\* Where control can come from, for the steps the invariant is about.
ControlFootprint ==
    /\ pc' = "increment" =>
          /\ inFlight' = inFlight
          /\ groupsProvisional' = groupsProvisional
          /\ \/ pc = "increment"
             \/ pc = "insertPod"
                /\ podsProvisional' = podsProvisional \cup {inFlight}
    /\ pc' = "insertGroup" =>
          inFlight' = inFlight /\ pc \in {"increment", "insertGroup"}
    /\ pc' = "deleteGroups" =>
          /\ batch' = batch
          /\ \/ pc = "deleteGroups"
             \/ pc = "insertPending"
                /\ pendingQueue' = pendingQueue \cup BatchGroups
    /\ pc' = "insertMany" =>
          /\ batch' = batch
          /\ \/ pc = "insertMany" /\ groupsProvisional' = groupsProvisional
             \/ pc = "deleteGroups"
                /\ groupsProvisional' = GroupsDeleted(BatchGroups)

Footprint ==
    /\ PodsFootprint /\ GroupsFootprint /\ PendingFootprint
    /\ BatchFootprint /\ JobsFootprint /\ ControlFootprint

\* Each action stays within the footprint.
LEMMA StepFootprint == TypeInv /\ [Next]_vars => Footprint
<1> SUFFICES ASSUME TypeInv, [Next]_vars PROVE Footprint
  OBVIOUS
<1> USE DEF PodsFootprint, GroupsFootprint, PendingFootprint,
            BatchFootprint, JobsFootprint, ControlFootprint, Footprint
<1>1. ASSUME NEW p \in Pods, NextPod(p) PROVE Footprint
  BY <1>1 DEF NextPod, Goto, AfterLabels, tableVars, threadVars
<1>2. CASE CheckPending
  BY <1>2 DEF CheckPending, Goto, envVars, tableVars
<1>3. CASE InsertPod
  <2>1. \/ podsProvisional' = podsProvisional \cup {inFlight}
        \/ podsProvisional' = podsProvisional /\ Failed
    BY <1>3, FaultFails DEF InsertPod, Exec, TypeInv
  <2> QED BY <1>3, <2>1 DEF InsertPod, Goto, envVars
<1>4. CASE IncrementGroup
  BY <1>4 DEF IncrementGroup, Exec, Goto, envVars
<1>5. CASE InsertGroup
  BY <1>5 DEF InsertGroup, Exec, Goto, envVars
<1>6. CASE GetReadyGroups
  <2>1. pc = "getReadyGroups" /\ UNCHANGED <<tableVars, riverJobs>>
    BY <1>6 DEF GetReadyGroups
  <2>2. CASE Done
    BY <2>1, <2>2 DEF Done, Goto, tableVars
  <2>3. CASE ~Done
    <3>1. pc' = "insertPending" /\ FreshBatch
      BY <1>6, <2>3 DEF GetReadyGroups, Goto, FreshBatch
    <3> QED BY <2>1, <3>1 DEF tableVars
  <2> QED BY <2>2, <2>3
<1>7. CASE InsertPending
  <2>1. \/ pendingQueue' = pendingQueue \cup BatchGroups
        \/ pendingQueue' = pendingQueue /\ Failed
    BY <1>7, FaultFails DEF InsertPending, Exec, TypeInv
  <2>2. CASE Failed
    BY <1>7, <2>1, <2>2 DEF InsertPending, Done, Goto
  <2>3. CASE ~Failed
    BY <1>7, <2>1, <2>3 DEF InsertPending, Goto, envVars
  <2> QED BY <2>2, <2>3
<1>8. CASE DeleteGroups
  <2>1. \/ groupsProvisional' = GroupsDeleted(BatchGroups)
        \/ groupsProvisional' = groupsProvisional /\ Failed
    BY <1>8, FaultFails DEF DeleteGroups, Exec, TypeInv
  <2> QED BY <1>8, <2>1 DEF DeleteGroups, Done, Goto, envVars
<1>9. CASE InsertMany
  BY <1>9 DEF InsertMany, Exec, Done, Goto, tableVars
<1>10. ASSUME NEW p \in Pods, PodCreated(p) PROVE Footprint
  BY <1>10 DEF PodCreated, tableVars, threadVars
<1>11. ASSUME NEW ps \in SUBSET Pods, NEW s \in PodStates \ {"none"},
              PodsChanged(ps, s)
       PROVE  Footprint
  BY <1>11 DEF PodsChanged, tableVars, threadVars
<1>12. ASSUME NEW p \in Pods, PodRequeued(p) PROVE Footprint
  BY <1>12 DEF PodRequeued, tableVars, threadVars
<1>13. CASE Restart
  BY <1>13 DEF Restart, tableVars
<1>14. ASSUME NEW p \in Pods, PodDropped(p) PROVE Footprint
  BY <1>14 DEF PodDropped, tableVars, threadVars
<1>15. CASE UNCHANGED vars
  BY <1>15 DEF vars, envVars, tableVars, threadVars
<1> QED
  BY <1>1, <1>2, <1>3, <1>4, <1>5, <1>6, <1>7, <1>8, <1>9, <1>10, <1>11,
     <1>12, <1>13, <1>14, <1>15 DEF Next, ScheduleOne, Cluster

-----------------------------------------------------------------------------
(* The invariant that survives every fault.  The three properties of the   *)
(* runs are not inductive: they need to know that the pod being counted is *)
(* already recorded, that the jobs still held in memory are as good as the *)
(* ones in the queue, and that their groups are pending from deleteGroups  *)
(* on.                                                                     *)

Recorded == pc \in {"increment", "insertGroup"} => inFlight \in podsProvisional

BatchRunnable == \A job \in batch : Runnable(job)

BatchPending ==
    pc \in {"deleteGroups", "insertMany"} => BatchGroups \subseteq pendingQueue

SafeInv ==
    /\ TypeInv
    /\ Recorded /\ RowHasPods
    /\ BatchRunnable /\ JobsAreRunnable
    /\ BatchPending /\ JobsArePending

\* No step forgets a recorded pod or a pending group.
LEMMA TablesGrow ==
  ASSUME Footprint
  PROVE  /\ podsProvisional \subseteq podsProvisional'
         /\ pendingQueue \subseteq pendingQueue'
         /\ \A job : Runnable(job) => Runnable(job)'
<1>1. /\ podsProvisional \subseteq podsProvisional'
      /\ pendingQueue \subseteq pendingQueue'
  BY DEF Footprint, PodsFootprint, PendingFootprint
<1> QED BY <1>1 DEF Runnable, PodRows, Members

\* The queue only grows by jobs of the batch, in InsertMany.
LEMMA SubmissionsGrow ==
  ASSUME TypeOK, Footprint
  PROVE  \/ Submissions' = Submissions
         \/ pc = "insertMany" /\ Submissions' \subseteq Submissions \cup batch
<1>1. CASE riverJobs' = riverJobs
  BY <1>1 DEF Submissions
<1>2. CASE pc = "insertMany" /\ riverJobs' = [g \in Groups |-> Submitted(g)]
  BY <1>2, SubmissionsAfterInsert
<1> QED BY <1>1, <1>2 DEF Footprint, JobsFootprint

\* A row that appears is that of the pod in hand.
LEMMA RowsAppear ==
  ASSUME TypeInv, Footprint, NEW g \in Groups, HasRow(g)'
  PROVE  HasRow(g) \/ (pc = "insertGroup" /\ g = GroupOf[inFlight])
<1> USE DEF HasRow
<1>1. CASE pc = "increment" /\ groupsProvisional' = Incremented(GroupOf[inFlight])
  BY <1>1 DEF Incremented, TypeInv, InFlightOK, TypeOK, Row
<1>2. CASE pc = "insertGroup" /\ groupsProvisional' = GroupInserted(inFlight)
  BY <1>2 DEF GroupInserted, TypeInv, TypeOK
<1>3. CASE groupsProvisional' = GroupsDeleted(BatchGroups)
  BY <1>3 DEF GroupsDeleted, NoRow
<1> QED BY <1>1, <1>2, <1>3 DEF Footprint, GroupsFootprint

\* SafeInv is inductive.
LEMMA SafeStep == SafeInv /\ [Next]_vars => SafeInv'
<1> SUFFICES ASSUME SafeInv, [Next]_vars PROVE SafeInv'
  OBVIOUS
<1>a. TypeInv /\ TypeInv' /\ Footprint /\ TypeOK
  BY TypeStep, StepFootprint DEF SafeInv, TypeInv
<1>b. /\ podsProvisional \subseteq podsProvisional'
      /\ pendingQueue \subseteq pendingQueue'
      /\ \A job : Runnable(job) => Runnable(job)'
  BY <1>a, TablesGrow
<1>1. Recorded'
  BY <1>a, <1>b DEF SafeInv, Recorded, Footprint, ControlFootprint
<1>2. RowHasPods'
  <2> SUFFICES ASSUME NEW g \in Groups, HasRow(g)' PROVE PodRows(g)' # {}
    BY DEF RowHasPods
  <2>1. CASE HasRow(g)
    BY <1>b, <2>1 DEF SafeInv, RowHasPods, PodRows, Members
  <2>2. CASE pc = "insertGroup" /\ g = GroupOf[inFlight]
    <3>1. inFlight \in podsProvisional' /\ inFlight \in Pods
      BY <1>a, <1>b, <2>2 DEF SafeInv, Recorded, TypeInv, InFlightOK
    <3> QED BY <2>2, <3>1 DEF PodRows, Members
  <2> QED BY <1>a, <2>1, <2>2, RowsAppear
<1>3. BatchRunnable'
  <2>1. CASE batch' = {} \/ batch' = batch
    BY <1>b, <2>1 DEF SafeInv, BatchRunnable
  <2>2. CASE FreshBatch
    <3> SUFFICES ASSUME NEW job \in batch' PROVE Runnable(job)
      BY <1>b DEF BatchRunnable
    <3>1. PICK g \in ReadyGroups :
             \E r \in Representatives(g) : job = ReadyJob(g, r)
      BY <2>2 DEF FreshBatch
    <3>2. PICK r \in Representatives(g) : job = ReadyJob(g, r)
      BY <3>1
    <3>3. PodRows(g) # {} /\ r \in PodRows(g)
      BY <3>1, <3>2 DEF SafeInv, RowHasPods, ReadyGroups, Representatives
    <3> QED BY <3>2, <3>3 DEF Runnable, ReadyJob
  <2> QED BY <1>a, <2>1, <2>2 DEF Footprint, BatchFootprint
<1>4. JobsAreRunnable'
  BY <1>a, <1>b, SubmissionsGrow DEF SafeInv, JobsAreRunnable, BatchRunnable
<1>5. BatchPending'
  <2> SUFFICES ASSUME pc' \in {"deleteGroups", "insertMany"}
               PROVE  BatchGroups' \subseteq pendingQueue'
    BY DEF BatchPending
  <2>1. BatchGroups' = BatchGroups
    BY <1>a DEF Footprint, ControlFootprint, BatchGroups
  <2> QED BY <1>a, <1>b, <2>1
          DEF SafeInv, BatchPending, Footprint, ControlFootprint
<1>6. JobsArePending'
  <2>1. CASE Submissions' = Submissions
    BY <1>b, <2>1 DEF SafeInv, JobsArePending
  <2>2. CASE pc = "insertMany" /\ Submissions' \subseteq Submissions \cup batch
    <3>1. \A job \in batch : job.group \in pendingQueue
      BY <2>2 DEF SafeInv, BatchPending, BatchGroups
    <3> QED BY <1>b, <2>2, <3>1 DEF SafeInv, JobsArePending
  <2> QED BY <1>a, <2>1, <2>2, SubmissionsGrow
<1> QED BY <1>a, <1>1, <1>2, <1>3, <1>4, <1>5, <1>6 DEF SafeInv

\* Empty tables satisfy it.
LEMMA SafeInit == Init => SafeInv
<1> SUFFICES ASSUME Init PROVE SafeInv
  OBVIOUS
<1>1. TypeInv
  BY TypeInit
<1>2. Submissions = {}
  BY DEF Init, Submissions
<1> QED BY <1>1, <1>2 DEF Init, SafeInv, Recorded, RowHasPods, HasRow, NoRow,
              BatchRunnable, JobsAreRunnable, BatchPending, JobsArePending

\* Whatever statements fail and whenever the scheduler restarts, a group row
\* stands for recorded pods.
THEOREM RowsHavePods == Spec => []RowHasPods
  BY SafeInit, SafeStep, PTL DEF Spec, SafeInv

\* Whatever fails, the group of a job in the work queue has the pending row
\* its flux id is going to be written to.
THEOREM QueuedJobsArePending == Spec => []JobsArePending
  BY SafeInit, SafeStep, PTL DEF Spec, SafeInv

\* Whatever fails, the podspecs of a queued job can be found again.
THEOREM QueuedJobsAreRunnable == Spec => []JobsAreRunnable
  BY SafeInit, SafeStep, PTL DEF Spec, SafeInv

\* Whatever fails, a group leaves the provisional table only when pending.
THEOREM DeletionFollowsPending == Spec => PendingBeforeDelete
<1>1. SafeInv /\ [Next]_vars =>
        [\A g \in Groups : HasRow(g) /\ ~HasRow(g)' => g \in pendingQueue]_vars
  <2> SUFFICES ASSUME SafeInv, [Next]_vars, NEW g \in Groups,
                      HasRow(g), ~HasRow(g)'
               PROVE  g \in pendingQueue
    OBVIOUS
  <2>1. TypeInv /\ Footprint
    BY StepFootprint DEF SafeInv
  <2>2. CASE pc = "deleteGroups" /\ groupsProvisional' = GroupsDeleted(BatchGroups)
    BY <2>2 DEF SafeInv, BatchPending, GroupsDeleted, HasRow
  <2>3. CASE pc = "increment" /\ groupsProvisional' = Incremented(GroupOf[inFlight])
    <3>1. groupsProvisional[g].current \in Nat
      BY <2>1 DEF TypeInv, TypeOK, Row
    <3>2. HasRow(g)'
      BY <2>1, <2>3, <3>1 DEF Incremented, HasRow, TypeInv, TypeOK, Row
    <3> QED BY <3>2
  <2>4. CASE pc = "insertGroup" /\ groupsProvisional' = GroupInserted(inFlight)
    BY <2>1, <2>4 DEF GroupInserted, HasRow, TypeInv, TypeOK
  <2>5. CASE groupsProvisional' = groupsProvisional
    BY <2>5 DEF HasRow
  <2> QED BY <2>1, <2>2, <2>3, <2>4, <2>5 DEF Footprint, GroupsFootprint
<1> QED BY <1>1, SafeInit, SafeStep, PTL DEF Spec, PendingBeforeDelete

-----------------------------------------------------------------------------
(* The count of a group.  It is sound as long as no pod is enqueued twice, *)
(* that is, without restarts of the scheduler and without updates of pods  *)
(* that already went through the queue; database errors do not matter.     *)

EnqueuedOnce == MaxFaults["requeue"] = 0 /\ MaxFaults["restart"] = 0

\* A pod that can still reach Enqueue has no row yet.
Fresh ==
    /\ activeQ \cap podsProvisional = {}
    /\ inFlight \notin activeQ
    /\ pc \in {"checkPending", "insertPod"} => inFlight \notin podsProvisional
    /\ \A p \in Pods : podState[p] = "none" =>
          p \notin podsProvisional /\ p \notin activeQ /\ p # inFlight

\* The pod in hand is recorded and not yet counted.
Uncounted(g) == IF pc = "increment" /\ GroupOf[inFlight] = g THEN 1 ELSE 0

\* current_size never exceeds the number of recorded pods.
Counted ==
    \A g \in Groups :
        groupsProvisional[g].current + Uncounted(g) <= Cardinality(PodRows(g))

BatchQuorum == \A job \in batch : Cardinality(job.names) >= job.size

QuorumInv == SafeInv /\ Fresh /\ Counted /\ BatchQuorum /\ QuorumSound

\* A fault of a kind that may not happen does not happen.
LEMMA NoSuchFault ==
  ASSUME TypeOK, NEW k \in FaultKinds, MaxFaults[k] = 0
  PROVE  ~Fault(k)
  BY DEF TypeOK, Fault

\* The rows of a group are finitely many.
LEMMA PodRowsFinite ==
  ASSUME TypeOK, NEW g
  PROVE  IsFiniteSet(PodRows(g)) /\ Cardinality(PodRows(g)) \in Nat
<1>1. PodRows(g) \subseteq Pods
  BY DEF PodRows, TypeOK
<1> QED BY <1>1, PodsAssumption, FS_Subset, FS_CardinalityType

\* Fresh is preserved when no pod comes back.
LEMMA FreshStep ==
  ASSUME EnqueuedOnce, TypeInv, Fresh, [Next]_vars
  PROVE  Fresh'
<1> USE DEF Fresh, TypeInv, InFlightOK
<1>a. ~Fault("requeue") /\ ~Fault("restart")
  BY NoSuchFault DEF EnqueuedOnce, FaultKinds
<1>b. ASSUME Done, podsProvisional' = podsProvisional PROVE Fresh'
  BY <1>b DEF Done, Goto, TypeOK
<1>c. ASSUME UNCHANGED <<envVars, inFlight>>,
             podsProvisional' = podsProvisional,
             pc' \notin {"checkPending", "insertPod"}
      PROVE  Fresh'
  BY <1>c DEF envVars
<1>1. ASSUME NEW p \in Pods, NextPod(p) PROVE Fresh'
  BY <1>1 DEF NextPod, Goto, AfterLabels, tableVars, threadVars, TypeOK
<1>2. CASE CheckPending
  BY <1>2 DEF CheckPending, envVars, tableVars
<1>3. CASE InsertPod
  <2>1. /\ podsProvisional' \subseteq podsProvisional \cup {inFlight}
        /\ podState[inFlight] # "none" /\ inFlight \in Pods
    BY <1>3 DEF InsertPod, Exec
  <2> QED BY <1>3, <2>1 DEF InsertPod, Goto, envVars
<1>4. CASE IncrementGroup
  BY <1>4, <1>c DEF IncrementGroup, Goto
<1>5. CASE InsertGroup
  BY <1>5, <1>c DEF InsertGroup, Goto
<1>6. CASE GetReadyGroups
  <2>1. podsProvisional' = podsProvisional
    BY <1>6 DEF GetReadyGroups, tableVars
  <2> QED BY <1>6, <1>b, <1>c, <2>1 DEF GetReadyGroups, Goto
<1>7. CASE InsertPending
  BY <1>7, <1>b, <1>c DEF InsertPending, Goto
<1>8. CASE DeleteGroups
  BY <1>8, <1>b, <1>c DEF DeleteGroups, Goto
<1>9. CASE InsertMany
  BY <1>9, <1>b DEF InsertMany, tableVars
<1>10. ASSUME NEW p \in Pods, PodCreated(p) PROVE Fresh'
  BY <1>10 DEF PodCreated, tableVars, threadVars, TypeOK
<1>11. ASSUME NEW ps \in SUBSET Pods, NEW s \in PodStates \ {"none"},
              PodsChanged(ps, s)
       PROVE  Fresh'
  BY <1>11 DEF PodsChanged, Listed, tableVars, threadVars, TypeOK
<1>12. ASSUME NEW p \in Pods, PodRequeued(p) PROVE Fresh'
  BY <1>12, <1>a DEF PodRequeued
<1>13. CASE Restart
  BY <1>13, <1>a DEF Restart
<1>14. ASSUME NEW p \in Pods, PodDropped(p) PROVE Fresh'
  BY <1>14 DEF PodDropped, tableVars, threadVars
<1>15. CASE UNCHANGED vars
  BY <1>15 DEF vars, envVars, tableVars, threadVars
<1> QED
  BY <1>1, <1>2, <1>3, <1>4, <1>5, <1>6, <1>7, <1>8, <1>9, <1>10, <1>11,
     <1>12, <1>13, <1>14, <1>15 DEF Next, ScheduleOne, Cluster

\* Counting follows recording, one for one.
LEMMA CountedStep ==
  ASSUME SafeInv, TypeInv', Fresh, Counted, Footprint
  PROVE  Counted'
<1> SUFFICES ASSUME NEW g \in Groups
             PROVE  groupsProvisional'[g].current + Uncounted(g)'
                      <= Cardinality(PodRows(g)')
  BY DEF Counted
<1> DEFINE n == groupsProvisional[g].current
           c == Cardinality(PodRows(g))
           c2 == Cardinality(PodRows(g)')
<1>1. TypeOK /\ TypeOK' /\ InFlightOK
  BY DEF SafeInv, TypeInv
<1>f. IsFiniteSet(PodRows(g)') /\ c2 \in Nat
  <2>1. PodRows(g)' \subseteq Pods
    BY <1>1 DEF PodRows, TypeOK
  <2> QED BY <2>1, PodsAssumption, FS_Subset, FS_CardinalityType
<1>2. /\ n \in Nat /\ groupsProvisional'[g].current \in Nat
      /\ c \in Nat /\ c2 \in Nat
      /\ n + Uncounted(g) <= c
  <2>1. n \in Nat /\ groupsProvisional'[g].current \in Nat
    BY <1>1 DEF TypeOK, Row
  <2>2. c \in Nat
    BY <1>1, PodRowsFinite
  <2>3. n + Uncounted(g) <= c
    BY DEF Counted
  <2> QED BY <1>f, <2>1, <2>2, <2>3
<1>3. c <= c2
  <2>1. PodRows(g) \subseteq PodRows(g)'
    BY TablesGrow DEF PodRows, Members
  <2> QED BY <1>f, <2>1, FS_Subset
<1>4. CASE Uncounted(g)' = 1
  <2>1. /\ pc' = "increment" /\ GroupOf[inFlight'] = g
        /\ inFlight' = inFlight /\ groupsProvisional' = groupsProvisional
    BY <1>4 DEF Uncounted, Footprint, ControlFootprint
  <2>2. CASE pc = "increment"
    BY <1>2, <1>3, <1>4, <2>1, <2>2 DEF Uncounted
  <2>3. CASE pc = "insertPod" /\ podsProvisional' = podsProvisional \cup {inFlight}
    <3>1. inFlight \in Pods /\ inFlight \notin podsProvisional
      BY <1>1, <2>3 DEF Fresh, InFlightOK
    <3>2. PodRows(g)' = PodRows(g) \cup {inFlight} /\ inFlight \notin PodRows(g)
      BY <2>1, <2>3, <3>1 DEF PodRows, Members
    <3>3. c2 = c + 1
      BY <1>1, <3>2, PodRowsFinite, FS_AddElement
    <3>4. n <= c
      BY <1>2 DEF Uncounted
    <3> QED BY <1>2, <1>4, <2>1, <3>3, <3>4
  <2> QED BY <2>1, <2>2, <2>3 DEF Footprint, ControlFootprint
<1>5. CASE Uncounted(g)' = 0
  <2>1. n <= c2
    BY <1>2, <1>3 DEF Uncounted
  <2>2. CASE groupsProvisional' = groupsProvisional
    BY <1>2, <1>5, <2>1, <2>2
  <2>3. CASE pc = "increment" /\ groupsProvisional' = Incremented(GroupOf[inFlight])
    <3>1. CASE g = GroupOf[inFlight]
      <4>1. n + 1 <= c
        BY <1>2, <2>3, <3>1 DEF Uncounted
      <4>2. groupsProvisional'[g].current \in {n, n + 1}
        BY <1>1, <2>3, <3>1 DEF Incremented, TypeOK, Row
      <4> QED BY <1>2, <1>3, <1>5, <4>1, <4>2
    <3>2. CASE g # GroupOf[inFlight]
      <4>1. groupsProvisional'[g] = groupsProvisional[g]
        BY <1>1, <2>3, <3>2 DEF Incremented, TypeOK
      <4> QED BY <1>2, <1>5, <2>1, <4>1
    <3> QED BY <3>1, <3>2
  <2>4. CASE pc = "insertGroup" /\ groupsProvisional' = GroupInserted(inFlight)
    <3>1. CASE g = GroupOf[inFlight] /\ ~HasRow(g)
      <4>1. inFlight \in PodRows(g)
        BY <1>1, <2>4, <3>1 DEF SafeInv, Recorded, InFlightOK, PodRows, Members
      <4>2. c # 0
        BY <1>1, <4>1, PodRowsFinite, FS_EmptySet
      <4>3. groupsProvisional'[g].current = 1
        BY <1>1, <2>4, <3>1 DEF GroupInserted, TypeOK
      <4> QED BY <1>2, <1>3, <1>5, <4>2, <4>3
    <3>2. CASE ~(g = GroupOf[inFlight] /\ ~HasRow(g))
      <4>1. groupsProvisional'[g] = groupsProvisional[g]
        BY <1>1, <2>4, <3>2 DEF GroupInserted, TypeOK
      <4> QED BY <1>2, <1>5, <2>1, <4>1
    <3> QED BY <3>1, <3>2
  <2>5. CASE groupsProvisional' = GroupsDeleted(BatchGroups)
    <3>1. groupsProvisional'[g].current \in {0, n}
      BY <2>5 DEF GroupsDeleted, NoRow
    <3> QED BY <1>2, <1>5, <2>1, <3>1
  <2> QED BY <2>2, <2>3, <2>4, <2>5 DEF Footprint, GroupsFootprint
<1> QED BY <1>4, <1>5 DEF Uncounted

\* QuorumInv is inductive when every pod is enqueued once.
LEMMA QuorumStep ==
  ASSUME EnqueuedOnce, QuorumInv, [Next]_vars
  PROVE  QuorumInv'
<1>1. SafeInv /\ SafeInv' /\ Footprint /\ TypeOK /\ TypeInv /\ TypeInv'
  BY SafeStep, StepFootprint DEF QuorumInv, SafeInv, TypeInv
<1>2. Fresh'
  BY <1>1, FreshStep DEF QuorumInv
<1>3. Counted'
  BY <1>1, CountedStep DEF QuorumInv
<1>4. BatchQuorum'
  <2>1. CASE batch' = {} \/ batch' = batch
    BY <2>1 DEF QuorumInv, BatchQuorum
  <2>2. CASE pc = "getReadyGroups" /\ FreshBatch
    <3> SUFFICES ASSUME NEW job \in batch'
                 PROVE  Cardinality(job.names) >= job.size
      BY DEF BatchQuorum
    <3>1. PICK g \in ReadyGroups :
             \E r \in Representatives(g) : job = ReadyJob(g, r)
      BY <2>2 DEF FreshBatch
    <3>2. job.names = PodRows(g) /\ job.size = groupsProvisional[g].size
      BY <3>1 DEF ReadyJob
    <3>4. /\ groupsProvisional[g].current \in Nat
          /\ groupsProvisional[g].size \in Int
          /\ Cardinality(PodRows(g)) \in Nat
      BY <1>1, <3>1, PodRowsFinite DEF ReadyGroups, TypeOK, Row
    <3>5. Uncounted(g) = 0 /\ g \in Groups
      BY <2>2, <3>1 DEF Uncounted, ReadyGroups
    <3>6. groupsProvisional[g].current + Uncounted(g) <= Cardinality(PodRows(g))
      BY <3>5 DEF QuorumInv, Counted
    <3>3. /\ groupsProvisional[g].current >= groupsProvisional[g].size
          /\ groupsProvisional[g].current <= Cardinality(PodRows(g))
      BY <3>1, <3>4, <3>5, <3>6 DEF ReadyGroups
    <3> QED BY <3>2, <3>3, <3>4
  <2> QED BY <1>1, <2>1, <2>2 DEF Footprint, BatchFootprint
<1>5. QuorumSound'
  BY <1>1, SubmissionsGrow DEF QuorumInv, QuorumSound, BatchQuorum
<1> QED BY <1>1, <1>2, <1>3, <1>4, <1>5 DEF QuorumInv

\* Empty tables satisfy it.
LEMMA QuorumInit == Init => QuorumInv
<1> SUFFICES ASSUME Init PROVE QuorumInv
  OBVIOUS
<1>1. SafeInv
  BY SafeInit
<1>2. Fresh
  BY DEF Init, Fresh
<1>3. Counted
  <2> SUFFICES ASSUME NEW g \in Groups
               PROVE  groupsProvisional[g].current + Uncounted(g)
                        <= Cardinality(PodRows(g))
    BY DEF Counted
  <2>1. PodRows(g) = {}
    BY DEF Init, PodRows
  <2> QED BY <2>1, FS_EmptySet DEF Init, NoRow, Uncounted
<1>4. Submissions = {} /\ batch = {}
  BY DEF Init, Submissions
<1> QED BY <1>1, <1>2, <1>3, <1>4 DEF QuorumInv, BatchQuorum, QuorumSound

\* As long as no pod is enqueued twice, a job never asks Fluxion for more
\* tasks than it has pods, whatever statements fail.
THEOREM QuorumIsSound == EnqueuedOnce => (Spec => []QuorumSound)
<1> SUFFICES ASSUME EnqueuedOnce PROVE Spec => []QuorumSound
  OBVIOUS
<1>1. Init => QuorumInv
  BY QuorumInit
<1>2. QuorumInv /\ [Next]_vars => QuorumInv'
  BY QuorumStep
<1> QED BY <1>1, <1>2, PTL DEF Spec, QuorumInv

-----------------------------------------------------------------------------
(* One job per group.  It takes what QuorumInv says of the counts, and     *)
(* labels that do not promise a group fewer pods than can be enqueued: a   *)
(* group is then ready only when all of them are recorded, and none is     *)
(* left to make it ready again.                                            *)

\* The pods that get past the labels in Enqueue, and those of a group.
Countable == {p \in Pods : LabelKind[p] \in {"number", "absent"}}
Countables(g) == Countable \cap Members(g)

SizesCoverGroups ==
    \A p \in Countable : GroupSize(p) >= Cardinality(Countables(GroupOf[p]))

Complete(g) == PodRows(g) = Countables(g)

OnlyCountable ==
    /\ podsProvisional \subseteq Countable
    /\ pc \in {"checkPending", "insertPod", "increment", "insertGroup"}
          => inFlight \in Countable

\* A row was created with a size no smaller than its group.
RowSizes ==
    \A g \in Groups :
        HasRow(g) => groupsProvisional[g].size >= Cardinality(Countables(g))

\* The job of a batch is the first of its complete group, whose row is gone
\* by the time the job is inserted.
BatchFirst ==
    \A job \in batch :
        /\ Complete(job.group) /\ riverJobs[job.group] = <<>>
        /\ pc = "insertMany" => ~HasRow(job.group)

\* The pod in hand is about to be counted for the group.
Counting(g) == pc \in {"increment", "insertGroup"} /\ GroupOf[inFlight] = g

\* A group with a job is complete and has no row, nor will it get one.
Settled ==
    \A g \in Groups : riverJobs[g] # <<>> =>
        Len(riverJobs[g]) = 1 /\ Complete(g) /\ ~HasRow(g) /\ ~Counting(g)

OnceInv == QuorumInv /\ OnlyCountable /\ RowSizes /\ BatchFirst /\ Settled

\* The pods of a group that can be enqueued are finitely many.
LEMMA CountablesFinite ==
  \A g : IsFiniteSet(Countables(g)) /\ Cardinality(Countables(g)) \in Nat
<1> TAKE g
<1>1. Countables(g) \subseteq Pods
  BY DEF Countables, Countable
<1> QED BY <1>1, PodsAssumption, FS_Subset, FS_CardinalityType

\* The recorded pods of a group are among those that can be enqueued.
LEMMA RowsCountable ==
  ASSUME OnlyCountable
  PROVE  \A g : PodRows(g) \subseteq Countables(g)
  BY DEF OnlyCountable, PodRows, Countables

\* The labels decide which pods reach the statements of Enqueue.
LEMMA OnlyCountableStep ==
  ASSUME TypeInv, OnlyCountable, [Next]_vars
  PROVE  OnlyCountable'
<1> USE DEF OnlyCountable
<1>1. ASSUME NEW p \in Pods, NextPod(p) PROVE OnlyCountable'
  <2>1. LabelKind[p] \in LabelKinds
    OBVIOUS
  <2> QED BY <1>1, <2>1 DEF NextPod, Goto, AfterLabels, tableVars, threadVars,
             Countable, LabelKinds
<1>2. CASE CheckPending
  BY <1>2 DEF CheckPending, Goto, envVars, tableVars
<1>3. CASE InsertPod
  BY <1>3 DEF InsertPod, Exec, Goto, envVars
<1>4. CASE IncrementGroup
  BY <1>4 DEF IncrementGroup, Goto, envVars
<1>5. CASE InsertGroup
  BY <1>5 DEF InsertGroup, Goto, envVars
<1>6. CASE GetReadyGroups
  BY <1>6 DEF GetReadyGroups, Done, Goto, tableVars
<1>7. CASE InsertPending
  BY <1>7 DEF InsertPending, Done, Goto
<1>8. CASE DeleteGroups
  BY <1>8 DEF DeleteGroups, Done, Goto
<1>9. CASE InsertMany
  BY <1>9 DEF InsertMany, Done, Goto, tableVars
<1>10. CASE Cluster
  BY <1>10 DEF Cluster, PodCreated, PodRequeued, PodDropped, PodsChanged,
               tableVars, threadVars
<1>11. CASE Restart
  BY <1>11 DEF Restart, tableVars
<1>12. CASE UNCHANGED vars
  BY <1>12 DEF vars, threadVars, tableVars
<1> QED
  BY <1>1, <1>2, <1>3, <1>4, <1>5, <1>6, <1>7, <1>8, <1>9, <1>10, <1>11,
     <1>12 DEF Next, ScheduleOne

\* A group that is ready has all its pods recorded, and no job yet.
LEMMA ReadyIsComplete ==
  ASSUME OnceInv, pc = "getReadyGroups", NEW g \in ReadyGroups
  PROVE  Complete(g) /\ riverJobs[g] = <<>>
<1>1. g \in Groups /\ HasRow(g)
  BY DEF ReadyGroups
<1>2. TypeOK
  BY DEF OnceInv, QuorumInv, SafeInv, TypeInv
<1> DEFINE n == groupsProvisional[g].current
           s == groupsProvisional[g].size
           c == Cardinality(PodRows(g))
           m == Cardinality(Countables(g))
<1>3. n \in Nat /\ s \in Int /\ c \in Nat /\ m \in Nat
  BY <1>1, <1>2, PodRowsFinite, CountablesFinite DEF TypeOK, Row
<1>4. s >= m
  BY <1>1 DEF OnceInv, RowSizes
<1>5. n >= s
  BY DEF ReadyGroups
<1>6. n <= c
  <2>1. n + Uncounted(g) <= c
    BY <1>1 DEF OnceInv, QuorumInv, Counted
  <2> QED BY <1>3, <2>1 DEF Uncounted
<1>7. PodRows(g) \subseteq Countables(g)
  BY RowsCountable DEF OnceInv
<1>8. c <= m /\ (m = c => Countables(g) = PodRows(g))
  BY <1>7, CountablesFinite, FS_Subset
<1>9. m = c
  BY <1>3, <1>4, <1>5, <1>6, <1>8
<1> QED BY <1>1, <1>8, <1>9 DEF Complete, OnceInv, Settled

\* OnceInv is inductive under both conditions.
LEMMA OnceStep ==
  ASSUME EnqueuedOnce, SizesCoverGroups, OnceInv, [Next]_vars
  PROVE  OnceInv'
<1>1. QuorumInv /\ QuorumInv'
  BY QuorumStep DEF OnceInv
<1>2. TypeInv /\ TypeOK /\ TypeInv' /\ TypeOK' /\ Footprint /\ Fresh
  BY <1>1, StepFootprint DEF QuorumInv, SafeInv, TypeInv
<1>3. OnlyCountable /\ OnlyCountable'
  BY <1>2, OnlyCountableStep DEF OnceInv
<1>4. \A g : Complete(g) => Complete(g)'
  <2> SUFFICES ASSUME NEW g, Complete(g) PROVE Complete(g)'
    OBVIOUS
  <2>1. PodRows(g) \subseteq PodRows(g)'
    BY <1>2, TablesGrow DEF PodRows, Members
  <2>2. PodRows(g)' \subseteq Countables(g)
    BY <1>3 DEF OnlyCountable, PodRows, Countables, Countable, Members
  <2>3. Countables(g)' = Countables(g)
    BY DEF Countables, Countable, Members
  <2> QED BY <2>1, <2>2, <2>3 DEF Complete
<1>5. RowSizes'
  <2> SUFFICES ASSUME NEW g \in Groups, HasRow(g)'
               PROVE  groupsProvisional'[g].size >= Cardinality(Countables(g))
    BY DEF RowSizes, Countables, Countable, Members
  <2>1. CASE pc = "increment" /\ groupsProvisional' = Incremented(GroupOf[inFlight])
    <3>1. HasRow(g)
      BY <1>2, <2>1, RowsAppear
    <3>2. groupsProvisional'[g].size = groupsProvisional[g].size
      BY <1>2, <2>1 DEF Incremented, TypeInv, InFlightOK, TypeOK, Row
    <3> QED BY <3>1, <3>2 DEF OnceInv, RowSizes
  <2>2. CASE pc = "insertGroup" /\ groupsProvisional' = GroupInserted(inFlight)
    <3>1. CASE HasRow(g)
      <4>1. groupsProvisional'[g] = groupsProvisional[g]
        BY <1>2, <2>2, <3>1 DEF GroupInserted, TypeInv, InFlightOK, TypeOK
      <4> QED BY <3>1, <4>1 DEF OnceInv, RowSizes
    <3>2. CASE ~HasRow(g)
      <4>1. g = GroupOf[inFlight] /\ inFlight \in Countable
        BY <1>2, <1>3, <2>2, <3>2, RowsAppear DEF OnlyCountable
      <4>2. groupsProvisional'[g].size = GroupSize(inFlight)
        BY <1>2, <2>2, <3>2, <4>1 DEF GroupInserted, TypeOK
      <4> QED BY <4>1, <4>2 DEF SizesCoverGroups
    <3> QED BY <3>1, <3>2
  <2>3. CASE groupsProvisional' = GroupsDeleted(BatchGroups)
    BY <2>3 DEF GroupsDeleted, NoRow, HasRow, OnceInv, RowSizes
  <2>4. CASE groupsProvisional' = groupsProvisional
    BY <2>4 DEF HasRow, OnceInv, RowSizes
  <2> QED BY <1>2, <2>1, <2>2, <2>3, <2>4 DEF Footprint, GroupsFootprint
<1>6. BatchFirst'
  <2> SUFFICES ASSUME NEW job \in batch'
               PROVE  /\ Complete(job.group)' /\ riverJobs'[job.group] = <<>>
                      /\ pc' = "insertMany" => ~HasRow(job.group)'
    BY DEF BatchFirst
  <2>1. riverJobs' = riverJobs
    BY <1>2 DEF Footprint, JobsFootprint
  <2>2. CASE batch' = batch
    <3>1. job.group \in Groups
      BY <1>2 DEF TypeOK, JobArg
    <3>2. ASSUME pc' = "insertMany" PROVE ~HasRow(job.group)'
      <4>1. CASE pc = "insertMany" /\ groupsProvisional' = groupsProvisional
        BY <2>2, <4>1 DEF OnceInv, BatchFirst, HasRow
      <4>2. CASE groupsProvisional' = GroupsDeleted(BatchGroups)
        BY <2>2, <3>1, <4>2 DEF GroupsDeleted, BatchGroups, NoRow, HasRow
      <4> QED BY <1>2, <3>2, <4>1, <4>2 DEF Footprint, ControlFootprint
    <3> QED BY <1>4, <2>1, <2>2, <3>2 DEF OnceInv, BatchFirst
  <2>3. CASE batch' # batch /\ pc = "getReadyGroups" /\ FreshBatch
    <3>1. PICK g \in ReadyGroups :
             \E r \in Representatives(g) : job = ReadyJob(g, r)
      BY <2>3 DEF FreshBatch
    <3>2. job.group = g
      BY <3>1 DEF ReadyJob
    <3>3. pc' # "insertMany"
      BY <1>2, <2>3 DEF Footprint, ControlFootprint
    <3> QED BY <1>4, <2>1, <2>3, <3>1, <3>2, <3>3, ReadyIsComplete
  <2> QED BY <1>2, <2>2, <2>3 DEF Footprint, BatchFootprint
<1>7. Settled'
  <2> SUFFICES ASSUME NEW g \in Groups, riverJobs'[g] # <<>>
               PROVE  /\ Len(riverJobs'[g]) = 1 /\ Complete(g)'
                      /\ ~HasRow(g)' /\ ~Counting(g)'
    BY DEF Settled
  <2>1. CASE riverJobs'[g] = riverJobs[g]
    <3>1. Len(riverJobs[g]) = 1 /\ Complete(g) /\ ~HasRow(g) /\ ~Counting(g)
      BY <2>1 DEF OnceInv, Settled
    <3>2. ~HasRow(g)'
      BY <1>2, <3>1, RowsAppear DEF Counting
    <3>3. ~Counting(g)'
      <4> SUFFICES ASSUME Counting(g)' PROVE FALSE
        OBVIOUS
      <4>1. pc = "insertPod" /\ inFlight' = inFlight /\ GroupOf[inFlight] = g
        BY <1>2, <3>1 DEF Counting, Footprint, ControlFootprint
      <4>2. inFlight \in Countable /\ inFlight \notin podsProvisional
        BY <1>2, <1>3, <4>1 DEF OnlyCountable, Fresh
      <4> QED BY <3>1, <4>1, <4>2
              DEF Complete, Countables, Countable, PodRows, Members
    <3> QED BY <1>4, <2>1, <3>1, <3>2, <3>3
  <2>2. CASE riverJobs'[g] # riverJobs[g]
    <3>1. pc = "insertMany" /\ pc' = "idle" /\ riverJobs'[g] = Submitted(g)
      BY <1>2, <2>2 DEF Footprint, JobsFootprint
    <3>2. PICK job \in batch : job.group = g
                             /\ Submitted(g) = Append(riverJobs[g], job)
      BY <1>2, <2>2, <3>1, SubmittedType
    <3>3. Complete(g) /\ riverJobs[g] = <<>> /\ ~HasRow(g)
      BY <3>1, <3>2 DEF OnceInv, BatchFirst
    <3>4. Len(riverJobs'[g]) = 1
      BY <3>1, <3>2, <3>3
    <3>5. ~HasRow(g)'
      BY <1>2, <3>1, <3>3, RowsAppear
    <3> QED BY <1>4, <3>1, <3>3, <3>4, <3>5 DEF Counting
  <2> QED BY <2>1, <2>2
<1> QED BY <1>1, <1>3, <1>5, <1>6, <1>7 DEF OnceInv

\* Empty tables and queues satisfy it.
LEMMA OnceInit == Init => OnceInv
<1> SUFFICES ASSUME Init PROVE OnceInv
  OBVIOUS
<1>1. QuorumInv
  BY QuorumInit
<1> QED BY <1>1 DEF Init, OnceInv, OnlyCountable, RowSizes, HasRow, NoRow,
              BatchFirst, Settled

\* A group is submitted once, whatever statements fail, as long as no pod is
\* enqueued twice and no label promises fewer pods than the group has.
THEOREM GroupsAreSubmittedOnce ==
  EnqueuedOnce /\ SizesCoverGroups => (Spec => []OneJobPerGroup)
<1> SUFFICES ASSUME EnqueuedOnce, SizesCoverGroups
             PROVE  Spec => []OneJobPerGroup
  OBVIOUS
<1>1. OnceInv => OneJobPerGroup
  <2> SUFFICES ASSUME OnceInv, NEW g \in Groups PROVE Len(riverJobs[g]) <= 1
    BY DEF OneJobPerGroup
  <2>1. CASE riverJobs[g] = <<>>
    BY <2>1
  <2>2. CASE riverJobs[g] # <<>>
    <3>1. Len(riverJobs[g]) = 1
      BY <2>2 DEF OnceInv, Settled
    <3> QED BY <3>1
  <2> QED BY <2>1, <2>2
<1>2. OnceInv /\ [Next]_vars => OnceInv'
  BY OnceStep
<1> QED BY <1>1, <1>2, OnceInit, PTL DEF Spec

-----------------------------------------------------------------------------
(* What rows and jobs say of their group.                                  *)

\* The size and the duration are those on the label of a pod of the group.
FromLabel(x, g) ==
    \E p \in Pods : /\ GroupOf[p] = g
                    /\ x.size = GroupSize(p)
                    /\ x.duration = DurationOf[p]

RowsFromLabels ==
    \A g \in Groups : HasRow(g) => FromLabel(groupsProvisional[g], g)

JobsFromLabels ==
    /\ \A job \in batch : FromLabel(job, job.group)
    /\ \A g \in Groups : \A i \in DOMAIN riverJobs[g] :
          riverJobs[g][i].group = g /\ FromLabel(riverJobs[g][i], g)

LabelInv == TypeInv /\ RowsFromLabels /\ JobsFromLabels

\* LabelInv is inductive: the first pod of a group fixes the row, a job copies
\* the row, and InsertMany files it under its group.
LEMMA LabelStep == LabelInv /\ [Next]_vars => LabelInv'
<1> SUFFICES ASSUME LabelInv, [Next]_vars PROVE LabelInv'
  OBVIOUS
<1>1. TypeInv /\ TypeOK /\ TypeInv' /\ Footprint
  BY TypeStep, StepFootprint DEF LabelInv, TypeInv
<1>2. RowsFromLabels'
  <2> SUFFICES ASSUME NEW g \in Groups, HasRow(g)'
               PROVE  FromLabel(groupsProvisional'[g], g)
    BY DEF RowsFromLabels, FromLabel, GroupSize
  <2>1. CASE HasRow(g)
    <3>1. FromLabel(groupsProvisional[g], g)
      BY <2>1 DEF LabelInv, RowsFromLabels
    <3>2. /\ groupsProvisional'[g].size = groupsProvisional[g].size
          /\ groupsProvisional'[g].duration = groupsProvisional[g].duration
      <4>1. CASE pc = "increment" /\ groupsProvisional' = Incremented(GroupOf[inFlight])
        BY <1>1, <4>1 DEF Incremented, TypeInv, InFlightOK, TypeOK, Row
      <4>2. CASE pc = "insertGroup" /\ groupsProvisional' = GroupInserted(inFlight)
        BY <1>1, <2>1, <4>2 DEF GroupInserted, TypeInv, InFlightOK, TypeOK
      <4>3. CASE groupsProvisional' = GroupsDeleted(BatchGroups)
        BY <4>3 DEF GroupsDeleted, NoRow, HasRow
      <4> QED BY <1>1, <4>1, <4>2, <4>3 DEF Footprint, GroupsFootprint
    <3> QED BY <3>1, <3>2 DEF FromLabel
  <2>2. CASE ~HasRow(g)
    <3>1. pc = "insertGroup" /\ g = GroupOf[inFlight] /\ inFlight \in Pods
      BY <1>1, <2>2, RowsAppear DEF TypeInv, InFlightOK
    <3>2. groupsProvisional' = GroupInserted(inFlight)
      BY <1>1, <2>2, <3>1 DEF Footprint, GroupsFootprint, HasRow, GroupsDeleted, NoRow
    <3>3. /\ groupsProvisional'[g].size = GroupSize(inFlight)
          /\ groupsProvisional'[g].duration = DurationOf[inFlight]
      BY <1>1, <2>2, <3>1, <3>2 DEF GroupInserted, TypeOK
    <3> QED BY <3>1, <3>3 DEF FromLabel
  <2> QED BY <2>1, <2>2
<1>3. \A job \in batch' : FromLabel(job, job.group)
  <2>1. CASE batch' = {} \/ batch' = batch
    BY <2>1 DEF LabelInv, JobsFromLabels
  <2>2. CASE FreshBatch
    <3> SUFFICES ASSUME NEW job \in batch' PROVE FromLabel(job, job.group)
      OBVIOUS
    <3>1. PICK g \in ReadyGroups :
             \E r \in Representatives(g) : job = ReadyJob(g, r)
      BY <2>2 DEF FreshBatch
    <3>2. /\ job.group = g /\ job.size = groupsProvisional[g].size
          /\ job.duration = groupsProvisional[g].duration
      BY <3>1 DEF ReadyJob
    <3>3. FromLabel(groupsProvisional[g], g)
      BY DEF LabelInv, RowsFromLabels, ReadyGroups
    <3> QED BY <3>2, <3>3 DEF FromLabel
  <2> QED BY <1>1, <2>1, <2>2 DEF Footprint, BatchFootprint
<1>4. ASSUME NEW g \in Groups, NEW i \in DOMAIN riverJobs'[g]
      PROVE  riverJobs'[g][i].group = g /\ FromLabel(riverJobs'[g][i], g)
  <2>1. CASE riverJobs'[g] = riverJobs[g]
    BY <2>1 DEF LabelInv, JobsFromLabels
  <2>2. CASE riverJobs'[g] # riverJobs[g]
    <3>1. PICK job \in batch : /\ job.group = g
                               /\ riverJobs'[g] = Append(riverJobs[g], job)
      BY <1>1, <2>2, SubmittedType DEF Footprint, JobsFootprint
    <3>2. riverJobs[g] \in Seq(JobArg)
      BY <1>1 DEF TypeOK
    <3>3. \/ i \in DOMAIN riverJobs[g] /\ riverJobs'[g][i] = riverJobs[g][i]
          \/ riverJobs'[g][i] = job
      BY <3>1, <3>2
    <3> QED BY <3>1, <3>3 DEF LabelInv, JobsFromLabels
  <2> QED BY <2>1, <2>2
<1> QED BY <1>1, <1>2, <1>3, <1>4 DEF LabelInv, JobsFromLabels, FromLabel, GroupSize

\* Nothing is recorded or submitted at the start.
LEMMA LabelInit == Init => LabelInv
  BY TypeInit DEF Init, LabelInv, RowsFromLabels, JobsFromLabels, HasRow, NoRow
=============================================================================
