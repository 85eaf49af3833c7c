------------------------ MODULE FluxnetesGangProofs ------------------------
(***************************************************************************)
(* Proof that Fluxnetes implements GangScheduler, for every set of pods    *)
(* and groups, every capacity and every bound on the errors that remain:   *)
(*                                                                         *)
(*   ImplementsGang  where pods are enqueued once, groups are as large as  *)
(*                   their labels say, the pods of a Job are of one group, *)
(*                   replies arrive, nobody deletes pods behind the        *)
(*                   scheduler's back, and no pod has a deadline.          *)
(*                                                                         *)
(* The refinement mapping adds up the tasks of allocations, once per group *)
(* and once over all: the sums come first.  Then the invariant, which says *)
(* what job an allocation has and why a pod is over; then the steps.       *)
(***************************************************************************)
EXTENDS FluxnetesSafetyProofs, SumProofs

-----------------------------------------------------------------------------
(* The tasks of sets of allocations.                                       *)

Sizes(S) == [a \in S |-> a.tasks]
TasksOf(S) == MapThenSumSet(LAMBDA a : a.tasks, S)
OfGroup(S, g) == {a \in S : a.group = g}
HeldIn(S) == [g \in Groups |-> TasksOf(OfGroup(S, g))]

\* The recursion behind TasksOf.
TasksSumUp(S, g) ==
    g = [s \in SUBSET S |->
            IF s = {} THEN 0 ELSE Chosen(s).tasks + g[s \ {Chosen(s)}]]

\* The sum of the tasks is one of those of SumProofs.
LEMMA TasksAreTotal ==
  ASSUME NEW S, IsFiniteSet(S)
  PROVE  TasksOf(S) = Total(Sizes(S), S)
<1> DEFINE f == Sizes(S)
           h == CHOOSE g : TasksSumUp(S, g)
<1>1. ASSUME NEW g PROVE TasksSumUp(S, g) <=> SumsUp(f, S, g)
  <2>1. \A s \in SUBSET S : s # {} => f[Chosen(s)] = Chosen(s).tasks
    BY ChosenIn DEF Sizes
  <2> HIDE DEF f
  <2>2. \A s \in SUBSET S :
          (IF s = {} THEN 0 ELSE f[Chosen(s)] + g[s \ {Chosen(s)}])
          = (IF s = {} THEN 0 ELSE Chosen(s).tasks + g[s \ {Chosen(s)}])
    BY <2>1
  <2> QED BY <2>2 DEF SumsUp, TasksSumUp
<1> HIDE DEF f
<1>2. PICK e : SumsUp(f, S, e) /\ Total(f, S) = e[S]
  BY TotalSumsUp
<1>3. TasksSumUp(S, h)
  BY <1>1, <1>2
<1>4. TasksOf(S) = h[S]
  BY DEF TasksOf, MapThenSumSet, MapThenFoldSet, TasksSumUp, Chosen
<1> HIDE DEF h
<1>5. SumsUp(f, S, h)
  BY <1>1, <1>3
<1>6. h[S] = e[S]
  BY <1>2, <1>5, SumsAgree
<1> QED BY <1>2, <1>4, <1>6 DEF f

\* No allocation has no tasks.
LEMMA TasksOfNone == TasksOf({}) = 0
  BY TasksAreTotal, TotalOfNone, FS_EmptySet

\* Sums of tasks are integers.
LEMMA TasksInt ==
  ASSUME NEW S, IsFiniteSet(S), \A a \in S : a.tasks \in Int
  PROVE  TasksOf(S) \in Int
<1>1. \A a \in S : Sizes(S)[a] \in Int
  BY DEF Sizes
<1> QED BY <1>1, TasksAreTotal, TotalInt

\* One allocation more.
LEMMA TasksWith ==
  ASSUME NEW S, IsFiniteSet(S), NEW x, x \notin S,
         \A a \in S \cup {x} : a.tasks \in Int
  PROVE  TasksOf(S \cup {x}) = x.tasks + TasksOf(S)
<1> DEFINE T == S \cup {x}
<1>1. IsFiniteSet(T)
  BY FS_AddElement
<1>2. TasksOf(T) = Total(Sizes(T), T) /\ TasksOf(S) = Total(Sizes(S), S)
  BY <1>1, TasksAreTotal
<1>3. \A a \in S : Sizes(T)[a] = Sizes(S)[a]
  BY DEF Sizes
<1>4. Total(Sizes(T), S) = Total(Sizes(S), S)
  BY <1>3, TotalsAgree
<1>5. /\ \A a \in S \cup {x} : Sizes(T)[a] \in Int
      /\ Sizes(T)[x] = x.tasks
  BY DEF Sizes
<1>6. Total(Sizes(T), S \cup {x}) = Sizes(T)[x] + Total(Sizes(T), S)
  BY <1>5, TotalWith
<1> QED BY <1>2, <1>4, <1>5, <1>6

\* A sum of zeros.
LEMMA TotalOfZeros ==
  ASSUME NEW f, NEW S, IsFiniteSet(S), \A x \in S : f[x] = 0
  PROVE  Total(f, S) = 0
<1> DEFINE Good == {T \in SUBSET S : Total(f, T) = 0}
<1>1. ASSUME NEW T \in SUBSET S, \A U \in SUBSET T : U # T => U \in Good
      PROVE  T \in Good
  <2>1. CASE T # {}
    <3>1. PICK x \in T : TRUE
      BY <2>1
    <3> DEFINE R == T \ {x}
    <3>2. R \in Good /\ x \notin R /\ T = R \cup {x} /\ f[x] = 0
      BY <1>1, <3>1
    <3>3. IsFiniteSet(R)
      BY FS_Subset
    <3>4. \A y \in R \cup {x} : f[y] \in Int
      OBVIOUS
    <3> HIDE DEF R
    <3>5. Total(f, T) = f[x] + Total(f, R)
      BY <3>2, <3>3, <3>4, TotalWith
    <3> QED BY <3>2, <3>5
  <2> QED BY <2>1, TotalOfNone
<1> HIDE DEF Good
<1>2. SUBSET S \subseteq Good
  BY <1>1, SmallerSubsets
<1> QED BY <1>2 DEF Good

\* What the groups hold adds up to what is allocated.
LEMMA GroupsAddUp ==
  ASSUME IsFiniteSet(Groups), NEW A, IsFiniteSet(A),
         \A a \in A : a.group \in Groups /\ a.tasks \in Int
  PROVE  Total(HeldIn(A), Groups) = TasksOf(A)
<1> DEFINE Good == {S \in SUBSET A : Total(HeldIn(S), Groups) = TasksOf(S)}
<1>1. ASSUME NEW T \in SUBSET A, \A U \in SUBSET T : U # T => U \in Good
      PROVE  T \in Good
  <2>1. CASE T = {}
    <3>1. \A g \in Groups : HeldIn(T)[g] = 0
      <4>1. \A g : OfGroup(T, g) = {}
        BY <2>1 DEF OfGroup
      <4> QED BY <4>1, TasksOfNone DEF HeldIn
    <3> QED BY <2>1, <3>1, TotalOfZeros, TasksOfNone
  <2>2. CASE T # {}
    <3>1. PICK x \in T : TRUE
      BY <2>2
    <3> DEFINE R == T \ {x}
               G == x.group
    <3>2. R \in Good /\ x \notin R /\ T = R \cup {x} /\ IsFiniteSet(R) /\ R \subseteq A
      BY <1>1, <3>1, FS_Subset
    <3>3. G \in Groups /\ x.tasks \in Int
      BY <3>1
    <3> HIDE DEF R, G
    <3>4. \A g : /\ OfGroup(T, g) = IF g = G THEN OfGroup(R, g) \cup {x} ELSE OfGroup(R, g)
                 /\ OfGroup(R, g) \subseteq R /\ x \notin OfGroup(R, g)
      BY <3>2 DEF OfGroup, G
    <3>5. \A g : /\ IsFiniteSet(OfGroup(R, g))
                 /\ \A a \in OfGroup(R, g) : a.tasks \in Int
      BY <3>2, <3>4, FS_Subset
    <3>6. \A g : TasksOf(OfGroup(R, g)) \in Int
      BY <3>5, TasksInt
    <3>7. TasksOf(OfGroup(T, G)) = x.tasks + TasksOf(OfGroup(R, G))
      <4> DEFINE Q == OfGroup(R, G)
      <4>1. /\ IsFiniteSet(Q) /\ x \notin Q /\ OfGroup(T, G) = Q \cup {x}
            /\ \A a \in Q \cup {x} : a.tasks \in Int
        BY <3>3, <3>4, <3>5
      <4> HIDE DEF Q
      <4>2. TasksOf(Q \cup {x}) = x.tasks + TasksOf(Q)
        BY <4>1, TasksWith
      <4> QED BY <4>1, <4>2 DEF Q
    <3> DEFINE f == HeldIn(R)
               e == HeldIn(T)
    <3>8. /\ \A g \in Groups \ {G} : f[g] = e[g]
          /\ e[G] = x.tasks + f[G]
      BY <3>3, <3>4, <3>7 DEF HeldIn
    <3>9. \A g \in Groups : f[g] \in Int /\ e[g] \in Int
      <4>1. \A g \in Groups : f[g] \in Int
        BY <3>6 DEF HeldIn
      <4> QED BY <3>3, <3>8, <4>1
    <3> HIDE DEF f, e
    <3>10. Total(e, Groups) = Total(f, Groups) - f[G] + e[G]
      BY <3>3, <3>8, <3>9, TotalChanged
    <3>11. Total(f, Groups) \in Int /\ f[G] \in Int /\ e[G] \in Int
      BY <3>3, <3>9, TotalInt
    <3>12. TasksOf(T) = x.tasks + TasksOf(R)
      BY <3>2, <3>3, TasksWith
    <3>13. Total(f, Groups) = TasksOf(R)
      BY <3>2 DEF f
    <3>14. Total(e, Groups) = TasksOf(T)
      BY <3>3, <3>8, <3>10, <3>11, <3>12, <3>13
    <3> QED BY <3>14 DEF e
  <2> QED BY <2>1, <2>2
<1> HIDE DEF Good
<1>2. SUBSET A \subseteq Good
  BY <1>1, SmallerSubsets
<1> QED BY <1>2 DEF Good
-----------------------------------------------------------------------------
(* What is assumed, and the invariant.                                     *)

\* A group has as many pods as their labels say, or one without a label.
WholeGroups ==
    \A p \in Pods : /\ LabelKind[p] \in {"number", "absent"}
                    /\ Queue!GroupSize(p) = Cardinality(Members(GroupOf[p]))

NoDeadlines == \A p \in Pods : DurationOf[p] = 0

\* Database statements of the queue, updates of nodes, bindings, scheduling
\* cycles and the informer may fail; the cluster may be full.  A pod may have
\* any owner, but a Job that a refused group has deleted takes no other group
\* with it.
Calm ==
    /\ QueueProofs!EnqueuedOnce /\ WholeGroups /\ IsFiniteSet(Groups)
    /\ RepliesArrive /\ PodsAreLeftAlone /\ NoDeadlines /\ JobsWithinGroups

\* The earlier hypotheses follow.
LEMMA CalmIsEnough ==
  ASSUME Calm
  PROVE  /\ QueueProofs!SizesCoverGroups /\ DurationsAgree
         /\ TimedAreOwned /\ JobsWithinGroups
         /\ \A g : QueueProofs!Countables(g) = Members(g)
<1>1. \A g : QueueProofs!Countables(g) = Members(g)
  BY DEF Calm, WholeGroups, QueueProofs!Countables, QueueProofs!Countable,
         QueueProofs!Members, Members
<1>2. \A p \in Pods : QueueProofs!GroupSize(p) = Queue!GroupSize(p)
  BY DEF QueueProofs!GroupSize, Queue!GroupSize
<1>3. \A p \in Pods : Cardinality(Members(GroupOf[p])) \in Nat
  BY PodSetsFinite DEF Members
<1>4. QueueProofs!SizesCoverGroups
  <2> SUFFICES ASSUME NEW p \in Pods
               PROVE  QueueProofs!GroupSize(p) >=
                        QueueProofs!Cardinality(QueueProofs!Countables(GroupOf[p]))
    BY DEF QueueProofs!SizesCoverGroups, QueueProofs!Countable
  <2>1. \A S : QueueProofs!Cardinality(S) = Cardinality(S)
    BY DEF QueueProofs!Cardinality, Cardinality
  <2> QED BY <1>1, <1>2, <1>3, <2>1 DEF Calm, WholeGroups
<1>5. DurationsAgree /\ TimedAreOwned /\ JobsWithinGroups
  BY DEF Calm, NoDeadlines, DurationsAgree, TimedAreOwned
<1> QED BY <1>1, <1>4, <1>5

\* A pod that is done ran, one that is deleted was to be deleted, and that
\* only because the job of its group was cancelled.
DoneWereBound == \A p \in Pods : phase[p] = "done" => host[p] # NoID
DeletedWereDoomed == \A p \in Pods : phase[p] = "deleted" => p \in doomed
DoomedWereRefused == \A p \in doomed \cup condemned : GroupOf[p] \in Refused

CalmInv ==
    /\ OrphanInv /\ KeepInv /\ IsFiniteSet(allocs)
    /\ DoneWereBound /\ DeletedWereDoomed /\ DoomedWereRefused

\* What the steps of the proof use of it most.
LEMMA CalmParts ==
  ASSUME CalmInv
  PROVE  /\ TypeInv /\ GangInv /\ IdInv /\ QueueProofs!LabelInv /\ OneJob
         /\ Grants
  BY GangOneJob DEF CalmInv, OrphanInv, KeepInv, GangInv, IdInv

\* There is no deadline cleanup, no restart and no fault of the kinds ruled out.
LEMMA CalmQuiet ==
  ASSUME Calm, CalmInv
  PROVE  /\ cleanups = {} /\ ~Restart
         /\ \A k \in {"rpc", "sql", "api", "userDelete"} : ~Disruption(k)
<1>1. TypeInv /\ CleanupsAgree
  BY CalmParts DEF CalmInv, KeepInv
<1>2. cleanups = {}
  <2>1. \A c \in cleanups : c.podspec \in Pods /\ DurationOf[c.podspec] > 0
    BY <1>1 DEF TypeInv, TypeOK, CleanupsAgree
  <2> QED BY <2>1 DEF Calm, NoDeadlines
<1>3. ~Restart
  BY <1>1, NoRestart DEF Calm
<1>4. \A k \in {"rpc", "sql", "api", "userDelete"} : ~Disruption(k)
  BY <1>1, NoDisruption DEF Calm, RepliesArrive, PodsAreLeftAlone, DisruptionKinds
<1> QED BY <1>2, <1>3, <1>4

\* A group is refused by its job.
LEMMA RefusedHasJob ==
  ASSUME NEW g
  PROVE  g \in Refused <=> \E j \in Jobs : j[1] = g /\ StateOf(j) = "cancelled"
  BY DEF Refused

\* A refused group stays refused.
LEMMA RefusedStay ==
  ASSUME TypeInv, [Next]_vars
  PROVE  Refused \subseteq Refused'
<1>1. \A j \in Jobs : j \in Jobs' /\ JobMoves(j)
  BY JobsStep DEF JobsMove
<1>2. \A j \in Jobs : StateOf(j) = "cancelled" => StateOf(j)' = "cancelled"
  BY <1>1 DEF JobMoves
<1> QED BY <1>1, <1>2 DEF Refused

-----------------------------------------------------------------------------
(* The invariant holds.                                                    *)

\* How pods come to their end, and who is to be deleted.
PodsEnd ==
    /\ doomed \subseteq doomed'
    /\ \A p \in doomed' \cup condemned' :
          p \in doomed \cup condemned \/ GroupOf[p] \in Refused
    /\ \A p \in Pods :
          \/ phase'[p] = phase[p]
          \/ phase[p] = "running" /\ phase'[p] = "done"
          \/ p \in doomed /\ phase'[p] = "deleted"
          \/ phase'[p] \notin {"done", "deleted"}

\* All steps, one by one.
LEMMA PodsEndStep ==
  ASSUME Calm, CalmInv, [Next]_vars
  PROVE  PodsEnd
<1>1. TypeInv /\ QueueProofs!LabelInv /\ DoomedWereRefused
  BY CalmParts DEF CalmInv
<1>2. /\ cleanups = {} /\ ~Restart
      /\ \A k \in {"rpc", "sql", "api", "userDelete"} : ~Disruption(k)
  BY CalmQuiet
<1>3. phase \in [Pods -> {"none", "pending", "assumed", "running", "done", "deleted"}]
  BY <1>1 DEF TypeInv, TypeOK
<1>a. CASE UNCHANGED clusterVars
  BY <1>a DEF PodsEnd, clusterVars
<1>b. ASSUME UNCHANGED <<doomed, condemned>>, NEW p \in Pods, NEW s,
             phase' = [phase EXCEPT ![p] = s],
             \/ s \notin {"done", "deleted"}
             \/ s = "done" /\ phase[p] = "running"
             \/ s = "deleted" /\ p \in doomed
      PROVE  PodsEnd
  BY <1>3, <1>b DEF PodsEnd
<1>4. CASE ScheduleOneStep \/ InsertMany
  BY <1>a, <1>4 DEF ScheduleOneStep, InsertMany
<1>5. CASE \E j \in Jobs : Worker(j)
  BY <1>a, <1>5 DEF Worker, Match, UpdateNodes, RecordFluxID, SubmitCleanup
<1>6. ASSUME NEW j \in Jobs, HandleCancelled(j) PROVE PodsEnd
  <2>1. j[1] \in Refused
    BY <1>6 DEF HandleCancelled, Refused
  <2>2. Args(j).podspec \in Pods /\ Args(j).podspec \in Members(j[1])
    BY <1>1, NamesOfJob DEF Members
  <2>3. /\ doomed' \in {doomed, doomed \cup {Args(j).podspec}} /\ phase' = phase
        /\ condemned' \subseteq condemned \cup Members(GroupOf[Args(j).podspec])
    BY <1>6, <2>2 DEF HandleCancelled, ObjectsDeleted, Calm, JobsWithinGroups
  <2> QED BY <2>1, <2>2, <2>3 DEF PodsEnd, Members
<1>7. ASSUME NEW j \in Jobs, HandleCompleted(j) PROVE PodsEnd
  <2>1. PICK ps : Assume(ps)
    BY <1>7 DEF HandleCompleted, SchedulingCycle
  <2> QED BY <1>7, <2>1 DEF HandleCompleted, Assume, PodsEnd
<1>8. CASE LoopPanics \/ Informer
  BY <1>a, <1>8 DEF LoopPanics, Informer, ReadGroupPods, CancelFinished
<1>9. ASSUME NEW p \in Pods, NEW id \in plans[p], Bind(p, id) PROVE PodsEnd
  <2>1. UNCHANGED <<doomed, condemned>>
    BY <1>9 DEF Bind
  <2>2. phase' = phase \/ phase' = [phase EXCEPT ![p] = "running"]
    BY <1>9 DEF Bind, Bound
  <2> QED BY <1>b, <2>1, <2>2 DEF PodsEnd
<1>10. ASSUME NEW p \in Pods, NEW id \in plans[p], BindFails(p, id) PROVE PodsEnd
  BY <1>b, <1>10 DEF BindFails
<1>11. ASSUME NEW p \in Pods, Tombstone(p) \/ PodRequeued(p) PROVE PodsEnd
  BY <1>a, <1>11 DEF Tombstone, PodRequeued
<1>12. ASSUME NEW p \in Pods, PodCreated(p) \/ PodFinishes(p) PROVE PodsEnd
  BY <1>b, <1>12 DEF PodCreated, PodFinishes
<1>13. ASSUME NEW p \in Pods, UserDeletes(p) \/ GarbageCollected(p) PROVE PodsEnd
  BY <1>2, <1>13 DEF UserDeletes, GarbageCollected, PodsEnd
<1>14. ASSUME NEW p \in Pods, PodRemoved(p) PROVE PodsEnd
  BY <1>b, <1>14 DEF PodRemoved
<1>15. CASE UNCHANGED vars
  BY <1>a, <1>15 DEF vars
<1> QED
  BY <1>2, <1>4, <1>5, <1>6, <1>7, <1>8, <1>9, <1>10, <1>11, <1>12, <1>13,
     <1>14, <1>15 DEF Next, EventLoop, Binder, Cluster

\* CalmInv is inductive.
LEMMA CalmStep ==
  ASSUME Calm, CalmInv, [Next]_vars
  PROVE  CalmInv'
<1>1. TypeInv /\ Grants
  BY CalmParts
<1>2. OrphanInv' /\ KeepInv'
  BY OrphanStep, KeepStep, CalmIsEnough DEF CalmInv, Calm
<1>3. IsFiniteSet(allocs')
  <2>1. AllocsMove /\ IsFiniteSet(allocs)
    BY <1>1, AllocsStep DEF CalmInv
  <2> QED BY <2>1, FS_Subset, FS_AddElement DEF AllocsMove, AllocatesFor, Allocated
<1>4. PodsEnd /\ Refused \subseteq Refused' /\ BindingsMove
  BY <1>1, PodsEndStep, RefusedStay, BindingsStep
<1>5. DoneWereBound'
  <2>1. \A p \in Pods : host[p] # NoID => host'[p] # NoID
    BY <1>1, <1>4 DEF BindingsMove, HostsMove, TypeInv, TypeOK, NoID
  <2> QED BY <1>1, <1>4, <2>1 DEF PodsEnd, DoneWereBound, CalmInv, Grants
<1>6. DeletedWereDoomed'
  BY <1>4 DEF PodsEnd, DeletedWereDoomed, CalmInv
<1>7. DoomedWereRefused'
  BY <1>4 DEF PodsEnd, DoomedWereRefused, CalmInv
<1> QED BY <1>2, <1>3, <1>5, <1>6, <1>7 DEF CalmInv

\* It holds at the start.
LEMMA CalmInit == Init => CalmInv
<1> SUFFICES ASSUME Init PROVE CalmInv
  OBVIOUS
<1>1. Jobs = {} /\ allocs = {}
  BY DEF Init, Jobs
<1>2. OrphanInv
  BY <1>1, GangInit DEF OrphanInv, AvailableHasNone, IdIsRecorded,
                        RecordedTimed, AllocsAreHeld
<1>3. DoneWereBound /\ DeletedWereDoomed /\ DoomedWereRefused
  BY DEF Init, DoneWereBound, DeletedWereDoomed, DoomedWereRefused
<1> QED BY <1>1, <1>2, <1>3, KeepInit, FS_EmptySet DEF CalmInv

-----------------------------------------------------------------------------
(* What a group holds.                                                     *)

\* Fluxion gave a job of the group what it asked for: one task per pod.
LEMMA AllocOfGroup ==
  ASSUME Calm, CalmInv, NEW a \in allocs
  PROVE  /\ a.group \in Groups
         /\ \E j \in Jobs : Live(j) /\ IdOf(j) = a.id /\ j[1] = a.group
         /\ a.tasks = Cardinality(Members(a.group))
         /\ a.tasks \in Nat \ {0}
<1>1. TypeInv /\ QueueProofs!LabelInv /\ AllocsAreHeld /\ AllocsAgree
  BY CalmParts DEF CalmInv, OrphanInv, IdInv
<1>2. PICK j \in Jobs : Live(j) /\ IdOf(j) = a.id
  BY <1>1 DEF AllocsAreHeld
<1>3. a.group = j[1] /\ a.tasks = Args(j).size /\ a.group \in Groups
  <2>1. a.id # NoID
    BY <1>1, IdTypes DEF NoID
  <2> QED BY <1>1, <1>2, <2>1, JobsDef DEF AllocsAgree, Has
<1>4. PICK p \in Pods : GroupOf[p] = j[1] /\ Args(j).size = Queue!GroupSize(p)
  BY <1>1, LabelsOfJob
<1>5. a.tasks = Cardinality(Members(a.group))
  BY <1>3, <1>4 DEF Calm, WholeGroups
<1>6. p \in Members(a.group) /\ Members(a.group) \subseteq Pods
  BY <1>3, <1>4 DEF Members
<1>7. Cardinality(Members(a.group)) \in Nat \ {0}
  <2>1. IsFiniteSet(Members(a.group)) /\ Cardinality(Members(a.group)) \in Nat
    BY <1>6, PodSetsFinite
  <2> QED BY <1>6, <2>1, FS_EmptySet
<1> QED BY <1>2, <1>3, <1>5, <1>7

\* A group has one allocation at most.
LEMMA OneAllocation ==
  ASSUME Calm, CalmInv, NEW a \in allocs, NEW b \in allocs, a.group = b.group
  PROVE  a = b
<1>1. OneJob /\ TypeInv
  BY CalmParts
<1>2. PICK j \in Jobs : IdOf(j) = a.id /\ j[1] = a.group
  BY AllocOfGroup
<1>3. PICK k \in Jobs : IdOf(k) = b.id /\ k[1] = b.group
  BY AllocOfGroup
<1>4. a.id = b.id
  BY <1>1, <1>2, <1>3 DEF OneJob
<1>5. a.tasks = b.tasks
  BY AllocOfGroup
<1>6. allocs \subseteq [id : Nat, group : Groups, tasks : Int]
  BY <1>1 DEF TypeInv, TypeOK
<1> QED BY <1>4, <1>5, <1>6

\* The tasks of an allocation are what its group holds, and others hold none.
LEMMA HeldOfGroup ==
  ASSUME Calm, CalmInv
  PROVE  /\ \A a \in allocs : Held[a.group] = Cardinality(Members(a.group))
         /\ \A g \in Groups : (\A a \in allocs : a.group # g) => Held[g] = 0
         /\ \A g \in Groups : Held[g] > 0 => \E a \in allocs : a.group = g
<1>1. Held = HeldIn(allocs)
  BY DEF Held, HeldIn, TasksOf, OfGroup
<1>2. ASSUME NEW a \in allocs
      PROVE  Held[a.group] = Cardinality(Members(a.group))
  <2>1. OfGroup(allocs, a.group) = {} \cup {a}
    BY OneAllocation DEF OfGroup
  <2>2. a.tasks \in Int /\ a.group \in Groups /\ a.tasks = Cardinality(Members(a.group))
    BY AllocOfGroup
  <2>3. TasksOf({} \cup {a}) = a.tasks + TasksOf({})
    BY <2>2, TasksWith, FS_EmptySet
  <2>4. TasksOf(OfGroup(allocs, a.group)) = a.tasks
    BY <2>1, <2>2, <2>3, TasksOfNone
  <2> QED BY <1>1, <2>2, <2>4 DEF HeldIn
<1>3. ASSUME NEW g \in Groups, \A a \in allocs : a.group # g PROVE Held[g] = 0
  <2>1. OfGroup(allocs, g) = {}
    BY <1>3 DEF OfGroup
  <2> QED BY <1>1, <2>1, TasksOfNone DEF HeldIn
<1> QED BY <1>2, <1>3

\* What Fluxion has free is what no group uses.
LEMMA FreeOfUse ==
  ASSUME Calm, CalmInv
  PROVE  Gang!InUse \in Int /\ Free = Capacity - Gang!InUse
<1>1. \A a \in allocs : a.group \in Groups /\ a.tasks \in Int
  BY AllocOfGroup
<1>2. Gang!InUse = Total(Held, Groups)
  BY DEF Gang!InUse, Gang!MapThenSumSet, Gang!MapThenFoldSet, Total,
         MapThenSumSet, MapThenFoldSet
<1>3. Held = HeldIn(allocs)
  BY DEF Held, HeldIn, TasksOf, OfGroup
<1>4. Total(HeldIn(allocs), Groups) = TasksOf(allocs) /\ TasksOf(allocs) \in Int
  BY <1>1, GroupsAddUp, TasksInt DEF Calm, CalmInv
<1> QED BY <1>2, <1>3, <1>4 DEF Free, TasksOf

\* The same allocations, the same holdings.
LEMMA HeldStays ==
  ASSUME allocs' = allocs
  PROVE  Held' = Held
<1>1. Held = HeldIn(allocs)
  BY DEF Held, HeldIn, TasksOf, OfGroup
<1>2. Held' = HeldIn(allocs)'
  BY DEF Held, HeldIn, TasksOf, OfGroup
<1>3. HeldIn(allocs)' = HeldIn(allocs)
  BY DEF HeldIn, OfGroup
<1> QED BY <1>1, <1>2, <1>3

-----------------------------------------------------------------------------
(* Why a pod is where it is.                                               *)

\* A pod that is bound, or has a goroutine to bind it, belongs to a group
\* whose job has completed: it was not refused.
LEMMA GrantedGroup ==
  ASSUME CalmInv, NEW p \in Pods, NEW id, Granted(p, id)
  PROVE  /\ GroupOf[p] \notin Refused
         /\ \E j \in Jobs : /\ StateOf(j) = "completed" /\ NodesOf(j) = id
                            /\ p \in Args(j).names /\ j[1] = GroupOf[p]
<1>1. OneJob /\ TypeInv /\ QueueProofs!LabelInv
  BY CalmParts
<1>2. PICK j \in Jobs : StateOf(j) = "completed" /\ NodesOf(j) = id /\ p \in Args(j).names
  BY DEF Granted
<1>3. j[1] = GroupOf[p]
  BY <1>1, <1>2, NamesOfJob DEF Members
<1>4. GroupOf[p] \notin Refused
  BY <1>1, <1>2, <1>3 DEF OneJob, Refused
<1> QED BY <1>2, <1>3, <1>4

\* The pods of a group wait until its job has been answered.
LEMMA UndecidedWait ==
  ASSUME Calm, CalmInv, NEW j \in Jobs, StateOf(j) = "available"
  PROVE  Gang!Ready(j[1])
<1>1. /\ OneJob /\ TypeInv /\ QueueProofs!LabelInv /\ GangInv /\ Grants
      /\ DoneWereBound /\ DeletedWereDoomed /\ DoomedWereRefused
  BY CalmParts DEF CalmInv
<1>2. j[1] \in Groups
  BY JobsDef
<1>3. Held[j[1]] = 0
  <2>1. ASSUME NEW a \in allocs, a.group = j[1] PROVE FALSE
    <3>1. PICK k \in Jobs : Live(k) /\ k[1] = j[1]
      BY <2>1, AllocOfGroup
    <3> QED BY <1>1, <3>1 DEF OneJob, Live
  <2> QED BY <1>2, <2>1, HeldOfGroup
<1>4. j[1] \notin Refused
  BY <1>1 DEF OneJob, Refused
<1>5. ASSUME NEW p \in Members(j[1]) PROVE Status[p] = "waiting"
  <2>1. p \in Pods /\ GroupOf[p] = j[1]
    BY DEF Members
  <2>2. ~ \E id : Granted(p, id)
    <3>1. ASSUME NEW id, Granted(p, id) PROVE FALSE
      <4>1. PICK k \in Jobs : StateOf(k) = "completed" /\ k[1] = j[1]
        BY <2>1, <3>1, GrantedGroup
      <4> QED BY <1>1, <4>1 DEF OneJob
    <3> QED BY <3>1
  <2>3. phase[p] \notin {"running", "done", "deleted"}
    BY <1>1, <1>4, <2>1, <2>2
       DEF Grants, DoneWereBound, DeletedWereDoomed, DoomedWereRefused
  <2>4. phase[p] # "none"
    <3>1. p \in podsProvisional
      BY <1>1, <2>1, CalmIsEnough, GangComplete DEF HasJob
    <3>2. QueueProofs!Fresh
      BY <1>1 DEF GangInv, QueueProofs!OnceInv, QueueProofs!QuorumInv
    <3>3. PodState[p] # "none"
      BY <2>1, <3>1, <3>2 DEF QueueProofs!Fresh
    <3> QED BY <2>1, <3>3 DEF PodState
  <2>5. phase[p] \in {"pending", "assumed"}
    BY <1>1, <2>1, <2>3, <2>4 DEF TypeInv, TypeOK
  <2> QED BY <2>1, <2>5 DEF Status
<1> QED BY <1>3, <1>4, <1>5 DEF Gang!Ready, Gang!Members, Members

-----------------------------------------------------------------------------
(* Every step is one of the gang scheduler, or none.                       *)

\* Refusals are the workers' doing.
LEMMA RefusedSame ==
  ASSUME Calm, CalmInv, [Next]_vars, ~ \E j \in Jobs : Worker(j)
  PROVE  Refused' = Refused
<1>1. TypeInv /\ ~Restart
  BY CalmParts, CalmQuiet
<1>2. JobsMove /\ \A j \in Jobs : StateOf(j)' = StateOf(j)
  BY <1>1, JobsStep, OnlyWorkersAdvance
<1>3. \A j \in Jobs' \ Jobs : StateOf(j)' = "available"
  BY <1>2 DEF JobsMove
<1> QED BY <1>2, <1>3 DEF JobsMove, Refused

\* A pod gets another phase, which may be another status.
LEMMA PhaseMoves ==
  ASSUME TypeInv, NEW p \in Pods, NEW s, phase' = [phase EXCEPT ![p] = s]
  PROVE  /\ s \in {"pending", "assumed"} => Status' = [Status EXCEPT ![p] = "waiting"]
         /\ s = "running" => Status' = [Status EXCEPT ![p] = "running"]
         /\ s \in {"done", "deleted"} => Status' = [Status EXCEPT ![p] = "over"]
  BY DEF Status, TypeInv, TypeOK

\* Pods, allocations and refusals as they were.
LEMMA GangStutters ==
  ASSUME Status' = Status, allocs' = allocs, Refused' = Refused
  PROVE  UNCHANGED Gang!vars
  BY HeldStays DEF Gang!vars

\* A worker grants, refuses, or brings the job further.
LEMMA WorkerStep ==
  ASSUME Calm, CalmInv, NEW j \in Jobs, Worker(j), [Next]_vars, CalmInv'
  PROVE  [Gang!Next]_(Gang!vars)
<1>1. TypeInv /\ TypeInv' /\ OneJob /\ QueueProofs!LabelInv /\ Grants
  BY CalmParts, TypeStep
<1>2. ~Disruption("rpc") /\ Progresses(j) /\ riverJobs' = riverJobs
  BY CalmQuiet, CalmIsEnough, WorkerProgresses, WorkerAttempts
     DEF Calm, CalmInv, queueVars
<1>3. Status' = Status
  BY DEF Worker, Match, UpdateNodes, RecordFluxID, SubmitCleanup, clusterVars, Status
<1> DEFINE g == j[1]
<1>4. g \in Groups /\ Args(j).size = Cardinality(Members(g)) /\ Args(j).size \in Int
  <2>1. PICK p \in Pods : GroupOf[p] = g /\ Args(j).size = Queue!GroupSize(p)
    BY <1>1, LabelsOfJob
  <2> QED BY <1>1, <2>1, JobsDef, ArgsOfJob DEF Calm, WholeGroups, Queue!JobArg
<1>5. Gang!InUse \in Int /\ Free = Capacity - Gang!InUse
  BY FreeOfUse
<1>6. /\ IdOf(j) \in Nat \cup {NoID} /\ nextID \in Nat
      /\ NodesOf(j) \in Nat \cup {NoID} /\ NodesGranted(j) \in Nat \cup {NoID}
  BY <1>1, IdTypes
<1>7. ASSUME NEW state \in {"available", "matched", "placed", "recorded",
                            "completed", "cancelled"},
             NEW id \in Nat \cup {NoID}, NEW nodes \in Nat \cup {NoID},
             Becomes(j, state, id, nodes)
      PROVE  /\ Jobs' = Jobs
             /\ \A k \in Jobs : StateOf(k)' = IF k = j THEN state ELSE StateOf(k)
  <2>1. [state |-> state, fluxID |-> id, nodes |-> nodes] \in WorkItem
    BY DEF WorkItem
  <2> QED BY <1>1, <1>2, <1>7, <2>1, OneJobMoves
<1>8. Gang!Members(g) = Members(g)
  BY DEF Gang!Members, Members
<1>9. ASSUME NEW state \in {"matched", "placed", "recorded", "completed"},
             NEW id \in Nat \cup {NoID}, NEW nodes \in Nat \cup {NoID},
             Becomes(j, state, id, nodes), StateOf(j) # "cancelled"
      PROVE  Refused' = Refused
  BY <1>7, <1>9 DEF Refused
<1>10. CASE /\ StateOf(j) = "available" /\ Args(j).size <= Free
            /\ Allocated(g, Args(j).size)
            /\ Becomes(j, "matched", nextID, NodesOf(j))
  <2> DEFINE new == [id |-> nextID, group |-> g, tasks |-> Args(j).size]
  <2>1. Gang!Ready(g)
    BY <1>10, UndecidedWait
  <2>2. allocs' = allocs \cup {new} /\ new.group = g
    BY <1>10 DEF Allocated
  <2> HIDE DEF new
  <2>3. Refused' = Refused
    BY <1>6, <1>9, <1>10
  <2>4. \A a \in allocs : a.group # g
    <3>1. ASSUME NEW a \in allocs, a.group = g PROVE FALSE
      <4>1. PICK k \in Jobs : Live(k) /\ k[1] = g
        BY <3>1, AllocOfGroup
      <4> QED BY <1>1, <1>10, <4>1 DEF OneJob, Live
    <3> QED BY <3>1
  <2>5. Held' = [Held EXCEPT ![g] = Cardinality(Members(g))]
    <3>1. Held = HeldIn(allocs)
      BY DEF Held, HeldIn, TasksOf, OfGroup
    <3>2. Held' = HeldIn(allocs')
      <4>1. Held' = HeldIn(allocs)'
        BY DEF Held, HeldIn, TasksOf, OfGroup
      <4> QED BY <4>1 DEF HeldIn, OfGroup
    <3>3. \A h \in Groups : h # g => OfGroup(allocs', h) = OfGroup(allocs, h)
      BY <2>2 DEF OfGroup
    <3>4. HeldIn(allocs')[g] = Cardinality(Members(g))
      <4>1. OfGroup(allocs', g) = {} \cup {new}
        BY <2>2, <2>4 DEF OfGroup
      <4>2. new.tasks = Cardinality(Members(g)) /\ new.tasks \in Int
        BY <1>4 DEF new
      <4>3. TasksOf({} \cup {new}) = new.tasks + TasksOf({})
        BY <4>2, TasksWith, FS_EmptySet
      <4>4. TasksOf(OfGroup(allocs', g)) = Cardinality(Members(g))
        BY <4>1, <4>2, <4>3, TasksOfNone
      <4> HIDE DEF g
      <4> QED BY <1>4, <4>4 DEF HeldIn
    <3> QED BY <1>4, <3>1, <3>2, <3>3, <3>4 DEF HeldIn
  <2>6. Gang!InUse + Cardinality(Members(g)) <= Capacity
    BY <1>4, <1>5, <1>10, CapacityAssumption
  <2>7. Gang!Grant(g)
    BY <1>3, <1>8, <2>1, <2>3, <2>5, <2>6 DEF Gang!Grant, Gang!Cardinality, Cardinality
  <2> QED BY <1>4, <2>7 DEF Gang!Next
<1>11. CASE /\ StateOf(j) = "available" /\ Args(j).size > Free
            /\ allocs' = allocs /\ Becomes(j, "cancelled", NoID, NodesOf(j))
  <2>1. Gang!Ready(g)
    BY <1>11, UndecidedWait
  <2>2. Refused' = Refused \cup {g}
    BY <1>6, <1>7, <1>11 DEF Refused
  <2>3. Gang!InUse + Cardinality(Members(g)) > Capacity
    BY <1>4, <1>5, <1>11, CapacityAssumption
  <2>4. Held' = Held
    BY <1>11, HeldStays
  <2>5. Gang!Refuse(g)
    BY <1>3, <1>8, <2>1, <2>2, <2>3, <2>4 DEF Gang!Refuse, Gang!Cardinality, Cardinality
  <2> QED BY <1>4, <2>5 DEF Gang!Next
<1>12. CASE /\ StateOf(j) \in {"matched", "placed", "recorded"} /\ allocs' = allocs
            /\ \E state \in {"placed", "recorded", "completed"} :
               \E nodes \in {NodesOf(j), NodesGranted(j)} :
                  Becomes(j, state, IdOf(j), nodes)
  <2>1. Refused' = Refused
    BY <1>6, <1>9, <1>12
  <2> QED BY <1>3, <1>12, <2>1, GangStutters
<1>13. CASE Match(j)
  BY <1>2, <1>10, <1>11, <1>13 DEF Match, fluxionVars
<1>14. CASE UpdateNodes(j) \/ RecordFluxID(j) \/ SubmitCleanup(j)
  <2>1. StateOf(j) \in {"matched", "placed", "recorded"}
    BY <1>14 DEF UpdateNodes, RecordFluxID, SubmitCleanup
  <2> QED BY <1>2, <1>12, <2>1 DEF Progresses
<1> QED BY <1>13, <1>14 DEF Worker

\* A binding that succeeds starts the pod, on resources its group holds.
LEMMA BindStep ==
  ASSUME Calm, CalmInv, NEW p \in Pods, NEW id \in plans[p], Bind(p, id),
         Refused' = Refused
  PROVE  [Gang!Next]_(Gang!vars)
<1>1. TypeInv /\ Grants /\ DoomedWereRefused /\ HeldAllocated /\ AllocsAgree
  BY CalmParts DEF CalmInv, KeepInv, IdInv
<1>2. allocs' = allocs /\ Held' = Held
  BY HeldStays DEF Bind, fluxionVars
<1>3. CASE phase[p] \notin {"pending", "assumed"}
  <2>1. Status' = Status
    BY <1>3 DEF Bind, Bound, Status
  <2> QED BY <1>2, <2>1, GangStutters
<1>4. CASE phase[p] \in {"pending", "assumed"}
  <2>1. phase' = [phase EXCEPT ![p] = "running"]
    BY <1>4 DEF Bind, Bound
  <2>2. Status' = [Status EXCEPT ![p] = "running"] /\ Status[p] = "waiting"
    BY <1>1, <1>4, <2>1, PhaseMoves DEF Status
  <2>3. Granted(p, id)
    BY <1>1 DEF Grants
  <2>4. PICK j \in Jobs : /\ Has(j, id) /\ p \in Args(j).names
                          /\ j[1] = GroupOf[p]
    <3>1. id # NoID
      BY <1>4 DEF Bind
    <3> QED BY <2>3, <3>1, GrantedGroup DEF Has
  <2>5. ~Over(p) /\ p \notin condemned
    BY <1>1, <1>4, <2>3, GrantedGroup DEF Over, DoomedWereRefused
  <2>6. PICK a \in allocs : a.id = id
    BY <1>1, <2>4, <2>5 DEF HeldAllocated
  <2>7. a.group = GroupOf[p]
    BY <1>1, <2>4, <2>6 DEF AllocsAgree
  <2>8. Held[GroupOf[p]] > 0
    BY <2>7, AllocOfGroup, HeldOfGroup
  <2>9. Gang!Start(p)
    BY <1>2, <2>2, <2>8 DEF Gang!Start
  <2> QED BY <2>9 DEF Gang!Next
<1> QED BY <1>3, <1>4

\* A pod that is removed was done, or is discarded with its refused group.
LEMMA RemovedStep ==
  ASSUME Calm, CalmInv, NEW p \in Pods, PodRemoved(p), Refused' = Refused
  PROVE  [Gang!Next]_(Gang!vars)
<1>1. TypeInv /\ Grants /\ DoomedWereRefused
  BY CalmParts DEF CalmInv
<1>2. allocs' = allocs /\ Held' = Held
  BY HeldStays DEF PodRemoved, fluxionVars
<1>3. phase' = [phase EXCEPT ![p] = "deleted"] /\ p \in doomed /\ Exists(p)
  BY DEF PodRemoved
<1>4. Status' = [Status EXCEPT ![p] = "over"]
  BY <1>1, <1>3, PhaseMoves
<1>5. GroupOf[p] \in Refused
  BY <1>1, <1>3 DEF DoomedWereRefused
<1>6. phase[p] # "running"
  BY <1>1, <1>5, GrantedGroup DEF Grants
<1>7. CASE phase[p] = "done"
  <2>1. Status' = Status
    BY <1>4, <1>7 DEF Status
  <2> QED BY <1>2, <2>1, GangStutters
<1>8. CASE phase[p] \in {"pending", "assumed"}
  <2>1. Gang!Discard(p)
    BY <1>2, <1>4, <1>5, <1>8 DEF Gang!Discard, Status
  <2> QED BY <2>1 DEF Gang!Next
<1> QED BY <1>3, <1>6, <1>7, <1>8 DEF Exists

\* DeletePodEvent releases what the group holds, all pods of it being over.
LEMMA CancelStep ==
  ASSUME Calm, CalmInv, CancelFinished, Refused' = Refused
  PROVE  [Gang!Next]_(Gang!vars)
<1>1. TypeInv /\ FinishedIsOver /\ RowIds /\ AllocsAgree
  BY CalmParts DEF CalmInv, KeepInv, IdInv
<1>2. Status' = Status
  BY DEF CancelFinished, clusterVars, Status
<1> DEFINE g == GroupOf[informer.pod]
<1>3. CASE allocs' = allocs
  BY <1>2, <1>3, GangStutters
<1>4. ASSUME informer.finished, allocs' = Without(fluxID[g]),
             NEW a \in allocs, a.id = fluxID[g]
      PROVE  [Gang!Next]_(Gang!vars)
  <2>1. informer.pod \in Pods /\ g \in Groups
    BY <1>1, QueueAssumption DEF CancelFinished, FinishedIsOver
  <2>2. \A p \in Members(g) : p \in Pods /\ Over(p)
    BY <1>1, <1>4, <2>1, CalmIsEnough DEF FinishedIsOver, Members
  <2>3. a.group = g
    <3>1. PICK j \in Jobs : Live(j) /\ IdOf(j) = a.id /\ j[1] = a.group
      BY AllocOfGroup
    <3>2. IdOf(j) # NoID
      BY <1>1, <3>1 DEF TypeInv, LiveIds, NoID
    <3> QED BY <1>1, <1>4, <2>1, <3>1, <3>2 DEF RowIds, Has
  <2>4. Held[g] > 0
    BY <2>3, AllocOfGroup, HeldOfGroup
  <2>5. /\ OfGroup(allocs', g) = {}
        /\ \A h : h # g => OfGroup(allocs', h) = OfGroup(allocs, h)
    <3>1. \A b \in allocs : b.id = a.id => b.group = g
      <4> SUFFICES ASSUME NEW b \in allocs, b.id = a.id PROVE b.group = g
        OBVIOUS
      <4>1. PICK j \in Jobs : Live(j) /\ IdOf(j) = b.id /\ j[1] = b.group
        BY AllocOfGroup
      <4>2. b.id # NoID
        BY <1>1, IdTypes DEF NoID
      <4>3. Has(j, a.id)
        BY <4>1, <4>2 DEF Has
      <4> QED BY <1>1, <2>3, <4>1, <4>3 DEF AllocsAgree
    <3>2. \A b \in allocs : b.group = g => b.id = a.id
      BY <2>3, OneAllocation
    <3> HIDE DEF g
    <3> QED BY <1>4, <3>1, <3>2 DEF Without, OfGroup
  <2>6. Held' = [Held EXCEPT ![g] = 0]
    <3>1. Held = HeldIn(allocs)
      BY DEF Held, HeldIn, TasksOf, OfGroup
    <3>2. Held' = HeldIn(allocs')
      <4>1. Held' = HeldIn(allocs)'
        BY DEF Held, HeldIn, TasksOf, OfGroup
      <4> QED BY <4>1 DEF HeldIn, OfGroup
    <3> HIDE DEF g
    <3> QED BY <2>1, <2>5, <3>1, <3>2, TasksOfNone DEF HeldIn
  <2>7. \A p \in Gang!Members(g) : Status[p] = "over"
    BY <2>2 DEF Gang!Members, Members, Over, Status
  <2>8. Gang!Release(g)
    BY <1>2, <2>4, <2>6, <2>7 DEF Gang!Release
  <2> QED BY <2>1, <2>8 DEF Gang!Next
<1>5. allocs' = allocs \/ (informer.finished /\ allocs' = Without(fluxID[g]))
  BY DEF CancelFinished, NoID
<1>6. CASE allocs' = Without(fluxID[g]) /\ \A a \in allocs : a.id # fluxID[g]
  <2> HIDE DEF g
  <2>1. allocs' = allocs
    BY <1>6 DEF Without
  <2> QED BY <1>2, <2>1, GangStutters
<1> QED BY <1>3, <1>4, <1>5, <1>6

\* All steps, one by one.
LEMMA GangSpecStep ==
  ASSUME Calm, CalmInv, [Next]_vars, CalmInv'
  PROVE  [Gang!Next]_(Gang!vars)
<1>1. TypeInv /\ cleanups = {} /\ ~Restart /\ ~Disruption("userDelete")
  BY CalmParts, CalmQuiet
<1>2. CASE \E j \in Jobs : Worker(j)
  BY <1>2, WorkerStep
<1> SUFFICES ASSUME ~ \E j \in Jobs : Worker(j)
             PROVE  [Gang!Next]_(Gang!vars)
  BY <1>2
<1>3. Refused' = Refused
  BY RefusedSame
<1>a. CASE UNCHANGED <<phase, allocs>>
  <2>1. Status' = Status
    BY <1>a DEF Status
  <2> QED BY <1>3, <1>a, <2>1, GangStutters
<1>4. CASE ScheduleOneStep \/ InsertMany
  BY <1>a, <1>4 DEF ScheduleOneStep, InsertMany, clusterVars, fluxionVars
<1>5. ASSUME NEW j \in Jobs, HandleCancelled(j) PROVE [Gang!Next]_(Gang!vars)
  BY <1>a, <1>5 DEF HandleCancelled, fluxionVars
<1>6. ASSUME NEW j \in Jobs, HandleCompleted(j) PROVE [Gang!Next]_(Gang!vars)
  <2>1. PICK ps : Assume(ps) /\ \A p \in ps : phase[p] \in {"pending", "assumed"}
    BY <1>6 DEF HandleCompleted, SchedulingCycle
  <2>2. Status' = Status
    BY <2>1 DEF Assume, Status
  <2>3. allocs' = allocs
    BY <1>6 DEF HandleCompleted, fluxionVars
  <2> QED BY <1>3, <2>2, <2>3, GangStutters
<1>7. CASE LoopPanics \/ \E p \in Pods : ReadGroupPods(p)
  BY <1>a, <1>7 DEF LoopPanics, ReadGroupPods, clusterVars, fluxionVars
<1>8. CASE CancelFinished
  BY <1>3, <1>8, CancelStep
<1>9. ASSUME NEW p \in Pods, NEW id \in plans[p], Bind(p, id)
      PROVE  [Gang!Next]_(Gang!vars)
  BY <1>3, <1>9, BindStep
<1>10. ASSUME NEW p \in Pods, NEW id \in plans[p], BindFails(p, id)
       PROVE  [Gang!Next]_(Gang!vars)
  <2>1. Status' = Status
    BY <1>10 DEF BindFails, Status
  <2>2. allocs' = allocs
    BY <1>10 DEF BindFails, fluxionVars
  <2> QED BY <1>3, <2>1, <2>2, GangStutters
<1>11. ASSUME NEW p \in Pods,
              Tombstone(p) \/ PodRequeued(p) \/ UserDeletes(p) \/ GarbageCollected(p)
       PROVE  [Gang!Next]_(Gang!vars)
  BY <1>a, <1>11 DEF Tombstone, PodRequeued, UserDeletes, GarbageCollected,
                     clusterVars, fluxionVars
<1>12. ASSUME NEW p \in Pods, PodCreated(p) PROVE [Gang!Next]_(Gang!vars)
  <2>1. Held' = Held
    BY <1>12, HeldStays DEF PodCreated, fluxionVars
  <2>2. Status' = [Status EXCEPT ![p] = "waiting"] /\ Status[p] = "absent"
    BY <1>1, <1>12, PhaseMoves DEF PodCreated, Status
  <2>3. Gang!Arrive(p)
    BY <1>3, <2>1, <2>2 DEF Gang!Arrive
  <2> QED BY <2>3 DEF Gang!Next
<1>13. ASSUME NEW p \in Pods, PodFinishes(p) PROVE [Gang!Next]_(Gang!vars)
  <2>1. Held' = Held
    BY <1>13, HeldStays DEF PodFinishes, fluxionVars
  <2>2. Status' = [Status EXCEPT ![p] = "over"] /\ Status[p] = "running"
    BY <1>1, <1>13, PhaseMoves DEF PodFinishes, Status
  <2>3. Gang!Finish(p)
    BY <1>3, <2>1, <2>2 DEF Gang!Finish
  <2> QED BY <2>3 DEF Gang!Next
<1>14. ASSUME NEW p \in Pods, PodRemoved(p) PROVE [Gang!Next]_(Gang!vars)
  BY <1>3, <1>14, RemovedStep
<1>15. CASE UNCHANGED vars
  BY <1>a, <1>15 DEF vars, clusterVars, fluxionVars
<1> QED
  BY <1>1, <1>4, <1>5, <1>6, <1>7, <1>8, <1>9, <1>10, <1>11, <1>12, <1>13,
     <1>14, <1>15 DEF Next, EventLoop, Informer, Binder, Cluster

\* Where groups are whole, the pods of a Job are of one group, pods are enqueued
\* once, replies arrive, nobody deletes pods behind the scheduler's back and no
\* pod has a deadline, the tables, workers, event loop and handlers together are
\* a gang scheduler: a group is allocated as a whole, once, when all its pods are
\* there; its pods are bound only while it is; Fluxion gets the resources back
\* only when all of them are over; and pods are deleted only when their group
\* found the cluster full.  Failing statements of the queue, updates of the nodes that
\* fail unseen, failing bindings, pods that fit no node and panics do not change
\* that.
THEOREM ImplementsGang ==
  Calm => (Spec => GangSpec)
<1> SUFFICES ASSUME Calm PROVE Spec => GangSpec
  OBVIOUS
<1>1. Init => Gang!Init
  <2> SUFFICES ASSUME Init PROVE Gang!Init
    OBVIOUS
  <2>1. Jobs = {} /\ allocs = {}
    BY DEF Init, Jobs
  <2>2. Held = [g \in Groups |-> 0]
    <3>1. Held = HeldIn({})
      BY <2>1 DEF Held, HeldIn, TasksOf, OfGroup
    <3>2. \A g : OfGroup({}, g) = {}
      BY DEF OfGroup
    <3> QED BY <3>1, <3>2, TasksOfNone DEF HeldIn
  <2>3. Status = [p \in Pods |-> "absent"]
    BY DEF Init, Status
  <2>4. Refused = {}
    BY <2>1 DEF Refused
  <2> QED BY <2>2, <2>3, <2>4 DEF Gang!Init
<1>2. CalmInv /\ [Next]_vars => CalmInv'
  BY CalmStep
<1>3. CalmInv /\ [Next]_vars /\ CalmInv' => [Gang!Next]_(Gang!vars)
  BY GangSpecStep
<1> QED BY <1>1, <1>2, <1>3, CalmInit, PTL DEF Spec, GangSpec, Gang!Spec
=============================================================================
