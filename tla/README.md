# A TLA+ verification of Fluxnetes

Fluxnetes is a Kubernetes scheduler that schedules *groups* of pods with the
graph-based resource matcher Fluxion. This directory models the part that is
fluxnetes' own: how a pod goes from the Kubernetes scheduling queue through
PostgreSQL tables and the River job queue to an allocation in Fluxion, to a
binding, and how the allocation is given back. Paths below are relative to the
repository; `pkg/` stands for `kubernetes/pkg/`.

## 1. Inventory

### Components

| component | code | state it keeps | operations |
|---|---|---|---|
| scheduling entry | `pkg/scheduler/schedule_one.go` (ScheduleOne, skipPodSchedule) | the pod in flight | pop a pod, `Enqueue`, `Schedule`, delete a rejected pod from the queue |
| queue manager | `pkg/fluxnetes/queue.go` | database pool, River client, event channels | `NewQueue`, `Enqueue`, `Schedule`, `GetGroupPods`, `GetFluxID`, `GetPodSpec`, `GetInformer` |
| provisional queue | `pkg/fluxnetes/strategy/provisional/provisional.go`, `queries/queries.go`, `src/build/postgres/create-tables.sql` | `pods_provisional`, `groups_provisional`, `pending_queue` | `Enqueue`, `getReadyGroups`, `insertPending`, `deleteGroups` |
| easy backfill strategy | `pkg/fluxnetes/strategy/easy.go` | `reservations` | `Schedule`, `PostSubmit` |
| job worker | `strategy/workers/job.go` | the River job, `pending_queue.flux_id` | `Work`: Match, record, submit the cleanup |
| cleanup worker | `strategy/workers/cleanup.go` | River cleanup jobs | `SubmitCleanup`, `deleteObjects`, `Cleanup`, `deleteFluxion` |
| event loop | `pkg/scheduler/scheduler.go` (Run, waitForJob) | channel of completed and cancelled jobs, binding goroutines | bind the pods of a completed job, delete those of a cancelled one |
| pod events | `pkg/fluxnetes/events.go` | informer queue | `DeletePodEvent` (`UpdatePodEvent` only logs) |
| binding cycle | `schedule_one.go` (schedulingCycle, bindingCycle) | scheduler cache (assumed pods) | assume, bind, forget |
| group discovery | `pkg/fluxnetes/group/group.go`, `labels`, `defaults` | none | name, size, duration of a pod's group |
| queue sort | `pkg/fluxnetes/fluxnetes.go` (Less) | none | order of the scheduling queue |
| Fluxion sidecar | `src/fluxnetes/pkg/fluxion/fluxion.go` | allocations, job counter | `Match`, `Cancel`, `InitFluxion` |
| node search | `schedule_one.go` (schedulePod and below) | `nextStartNodeIndex`; counter, slots and context of a search | filter, extend, score, select |
| graph and jobspec | `src/fluxnetes/pkg/{jgf,jobspec,utils}`, `pkg/fluxnetes/resources` | the resource graph | `CreateInClusterJGF`, `PreparePodJobSpec`, `CreateJobSpecYaml`, `ParseAllocResult` |
| external service, gRPC | `src/fluxnetes/pkg/{service,*-grpc}` | none | I/O, generated code |

### How they interact

One goroutine runs ScheduleOne over and over. Every pod it pops is recorded in
`pods_provisional`; the count in `groups_provisional` goes up; every group whose
count has reached its size is copied to `pending_queue`, deleted from
`groups_provisional` and inserted as a job in River. River workers, several at a
time, take the jobs: they ask Fluxion over gRPC for an allocation, write the flux
id into the pending row and, when the group has a duration, schedule a cleanup
job. The subscription channel carries completed and cancelled jobs to the event
loop of `Scheduler.Run`, which assumes each pod and starts a goroutine that binds
it. The informer calls `DeletePodEvent` in its own goroutine when a pod leaves the
set of non-terminal pods; when all pods of the group are terminal it cancels the
allocation. When a cleanup job's deadline has passed its worker deletes the pod or
the Job that owns it and cancels the allocation. They share the three tables, Fluxion,
the API server and the scheduler's cache; no lock or transaction spans two of
these.

### What is hard here

- Statements of `Enqueue` and `ReadyJobs` are not in a transaction: errors, and
  restarts, fall between any two.
- A worker that fails after `Match` is run again and allocates again. The reply to
  `Match` itself may be lost.
- The event channel, the cache and the binding goroutines are lost in a restart,
  the tables, River's jobs and Fluxion's allocations are not.
- `DeletePodEvent` reads the pods of the group, then the flux id, while workers
  and binders act on the same group.
- A group may be submitted more than once, because pods can join a pending group.
- Whether everything ends: a group that fits is bound; what is allocated is
  released; deadlines are enforced though requests fail.
- Boundaries: more nodes than names, a pod without labels, a cluster that is full.
- Filter goroutines count, write and uncount nodes without a lock, and one of them
  cancels the others.
- Cpu is rounded three times between a node and a task: the node down to cores,
  the containers up, the cores per node down to tasks.
- The graph is built once, from listings made one node after the other, and a
  restarted sidecar forgets what it allocated.

`PROJECT.json` lists each of these at its line (`hazards`), with the properties
that are about it.

### What makes each component correct

- provisional queue: rows stand for recorded pods; a group leaves the table only
  once it is pending; a job asks for no more tasks than it has pods; a group is
  submitted once; the rows a job needs later exist.
- workers and Fluxion: no allocation becomes unknown without a fault; a completed
  job with a duration always has a cleanup job while its allocation lives.
- event loop and binders: pods run only on nodes granted to a job that names them,
  no more of them than the allocation has tasks; every group that fits is bound.
- events and cleanup: no allocation is cancelled under a running pod that nobody
  wants to delete; finished groups and overdue groups are released.
- node search: what is returned has passed the filters; no node is lost or nil; a
  failure is explained; the search ends.
- resource graph: one tree that covers the schedulable nodes; no answer has more
  tasks than pods, or promises a node more cpu than it has.

## 2. Modules

| module | models | uses |
|---|---|---|
| `ProvisionalQueue` | ScheduleOne, Queue.Enqueue/Schedule, the three tables | |
| `ProvisionalQueueProofs` | theorems about it | extends `ProvisionalQueue`, TLAPS |
| `Fluxnetes` | workers, Fluxion, event loop, binders, informer, cleanup, cluster | instances of `ProvisionalQueue` and `GangScheduler` |
| `FluxnetesProofs` | types of the whole, and that it implements `ProvisionalQueue` | extends `Fluxnetes`, TLAPS; instance of `ProvisionalQueueProofs` |
| `FluxnetesSafetyProofs` | its safety invariants | extends `FluxnetesProofs` |
| `GangScheduler` | abstract: what the whole promises a user | |
| `FluxnetesGangProofs` | that `Fluxnetes` implements `GangScheduler` | extends `FluxnetesSafetyProofs`, `SumProofs` |
| `SumProofs` | lemmas on sums over finite sets | TLAPS |
| `NodeSearch` | schedulePod: parallel filtering, extenders, scores | |
| `NodeSearchProofs` | its invariants | extends `NodeSearch`, TLAPS |
| `NodeSearchStartProofs` | that no node is skipped | extends `NodeSearchProofs` |
| `ResourceGraph` | the sidecar: JGF construction, jobspec, Match, Cancel, restart | instance of `CpuLedger` |
| `CpuLedger` | abstract: what the sidecar promises its callers | |
| `ResourceGraphProofs` | its invariants, and that `ResourceGraph` implements `CpuLedger` | extends `ResourceGraph`, `SumProofs` |
| `MCProvisionalQueue`, `MCFluxnetes`, `MCNodeSearch`, `MCResourceGraph` | values of the constants for TLC | |

### ProvisionalQueue

`pc` is the statement that ScheduleOne executes next. There is one action per SQL statement:
`CheckPending`, `InsertPod`, `IncrementGroup`, `InsertGroup` (the body of
`ProvisionalQueue.Enqueue`), `GetReadyGroups`, `InsertPending`, `DeleteGroups`
(`ReadyJobs`) and `InsertMany` (`Queue.Schedule`). `NextPod` is NextPod together with
skipPodSchedule and the label parsing of `Queue.Enqueue`, which can also end in an
error or in a panic. `Exec` gives every statement three outcomes: success, an error without an
effect, and an error after the commit. `Restart` keeps the tables and River's jobs
and loses the rest; the informer then lists every unbound pod.

Data is abstracted as follows. A group is a model value standing for (name, namespace).
Podspecs, timestamps and created_at columns are left out, except that the podspec
of the *last row read* represents the group: rows come in no defined order, so any
recorded pod may (`Representatives`). `LookupKey` is the string
`name-namespace`, under which two different groups may collide. `CommandTag` is the
tag PostgreSQL returns for a select; the code compares it with `INSERT 1`.
`Reservation` is always false in what is submitted, since `EasyBackfill.Schedule`
sets it on a copy. So the table `reservations` stays empty and PostSubmit changes
nothing.

`PodsChanged` and `PodDropped` are the environment of this module: whatever the rest
of the system may do to a pod. That they allow for everything the rest really does
is the refinement `QueueSpec` below.

### Fluxnetes

`Fluxnetes` has all the variables of the queue except `podState`, which is the
refinement mapping `PodState` of the pods' phases, the deletion marks and the
scheduler's cache. Its other actions:

| actions | code |
|---|---|
| `Match`, `UpdateNodes`, `RecordFluxID`, `SubmitCleanup` | `JobWorker.Work`, split at each gRPC call, statement and transaction; an error returns the job to River. `UpdateNodes` may also fail unseen: its rows are not read, and the worker goes on with the nodes of an earlier attempt, or none |
| `HandleCancelled`, `HandleCompleted`, `LoopPanics` | one turn of waitForJob; the last is `podNames[i]` beyond the last name, or a nil pod where GetPodSpec failed |
| `Bind`, `BindFails` | the goroutine of bindingCycle and handleBindingCycleError |
| `ReadGroupPods`, `CancelFinished` | the two halves of DeletePodEvent |
| `Tombstone` | the type assertion of DeletePodEvent fails on what the informer delivers after a lost watch |
| `DeleteObjects`, `CancelDeadline` | `CleanupWorker.Work`: deleteObjects, deleteFluxion |
| `PodCreated`, `PodFinishes`, `UserDeletes`, `GarbageCollected`, `PodRemoved` | the cluster (external) |
| `Restart` | a new scheduler process |

Fluxion is a greedy matcher over `Capacity` tasks: a job of size n is allocated
when n tasks are free. Which nodes those are is abstracted to the flux id of the
allocation they were granted with. A River job has both, the id of its last
attempt (`IdOf`) and the nodes in its args (`NodesOf`), and `host` records for each pod
the nodes it was bound to.
Owners and groups are separate: `JobOf` says which Job owns a pod, and
`ObjectsDeleted` condemns the pods of the Job that owns the representative, in
whatever groups they are, or the representative alone if it has no owner.
Time is abstracted: a cleanup job may run at any moment after it is scheduled.

`GangScheduler` says what all this is for: pods arrive, a group is
granted its resources as a whole once all its pods wait and there is room, or is
refused for good when there is none, in which case its pods may be discarded; the pods
of a group that has resources start and finish, and the resources are released when all
are over. Under the mapping `Status` (of the pods' phases), `Held` (the tasks of a
group's allocations) and `Refused` (the groups whose job was cancelled) `Fluxnetes`
implements it (`GangSpec`): tables, workers and
handlers never allocate twice, early or in part, and never release early. With a
lost reply, a requeue, a restart, a user's deletion, a deadline or a Job of several
groups it does not, as the sections below say. In the run `fx_live` all groups fit; the
theorem `ImplementsGang` covers a full cluster too, and failing statements of the
queue, updates of the nodes that fail unseen, failing bindings and panics.

### NodeSearch

The event loop runs a scheduling cycle for every pod before it binds it
(`schedulingCycle`), and this is what that cycle computes. `pc` is the step of schedulePod;
`SchedulePod` begins a new cycle with a snapshot of another size, keeping only
`nextStartNodeIndex`. In the search itself the actions are those of the goroutines:

| actions | code |
|---|---|
| `PreFilter`, `PreFilterFails`, `evaluateNominatedNode`, `findNodesThatFitPod` | findNodesThatFitPod up to the search |
| `NextPiece` | ParallelizeUntil (external): the next node of the chunk, the next chunk, or the end when the context is cancelled |
| `CheckNode`, `KeepNode`, `UncountNode` | checkNode, split at its shared accesses: verdict and atomic increment; cancel or write of the slot; atomic decrement |
| `JoinSearch` | the cut of the list, the statuses, `nextStartNodeIndex` |
| `ExtenderFilters`, `ExtenderFails`, `ExtendersReturn` | one turn of findNodesThatPassExtenders |
| `PickNode`, `prioritizeNodes`, `ExtenderScores`, `selectHost` | the rest of schedulePod; extenders score in any order |

Nodes are their positions in the snapshot. What a plugin or an extender says of a node
is any verdict, the same within one cycle; an extender returns the nodes it keeps in
any order. Scores are small numbers; an extender
that prefers a node adds its weight. The heap and the reservoir sampling of
selectHost are any node of the highest score. The percentage of nodes to find is
computed as in the code, with the minimum of 100 nodes as a constant.

### ResourceGraph

The state of the sidecar from its start to its end: `BuildNode` is one turn of the
loop of CreateInClusterJGF (skip, list the pods, add the subnet, the node, gpus,
cores and memory), and other pods come and go between two turns. Vertices have
the names, indices, ids and paths the builder gives them, because Fluxion knows them
by those. A path is the sequence of the names between its slashes. `Match` makes the jobspec (`PreparePodJobSpec`, `CreateJobSpec`), lets
Fluxion choose any free cores (external, `MatchAllocate`) and reads the answer
(`ParseAllocResult`, `NodeList`). `pods` are the pods placed that way, planned until
they are bound. A cancel is asked for when the pods of a job are gone (`PodsFinish`), or
while they are there (`ReleasePods`: at the deadline, when their Job is deleted in the
background, or when DeletePodEvent could not read them). Cancel requests may arrive at
any time, also after `SidecarRestarts`. Quantities are in millicores and MiB. Memory and GPU requests
of a job only narrow Fluxion's choice and are left out.

`CpuLedger` says what the sidecar is for, without any of that: while it serves, each
node has room, fixed when it began; an order for count tasks of so much cpu is granted
tasks on nodes under the next number, never more than asked for, all on one node if they
are to be together, all of them if fewer will not do, and never beyond the room of a node; a
grant is given back as a whole; and only the end of the process forgets grants. Under
the mapping `Room` (of each node served, the cpu that was not requested when its pods
were listed), `Granted` (of an allocation, the order and the tasks that callers read in
the answer) and the job counter, `ResourceGraph` implements it (`LedgerSpec`): building the graph
is hidden, InitContext opens the ledger, Match grants, Cancel releases one grant or
none, and a restart closes it. Orders are complete where a task has one core or the job
is to be in one zone. Otherwise the ledger, like the code, may grant fewer tasks than are allocated.

## 3. Runs

All runs together take about ten minutes. Violation runs show a statement of a
comment or of the docs that the code does not keep; `findings` quotes it.

| run | instance | checks | shows |
|---|---|---|---|
| `pq_faults` | 2 pods that disagree on the size of their group; 2 database errors, 1 requeue, 2 restarts | TypeOK, RowHasPods, JobsArePending, JobsAreRunnable, PendingBeforeDelete | the tables and the work queue stay consistent, wherever the faults fall |
| `pq_quorum` | 4 pods in 2 groups with the same lookup key, one pod without labels; 2 database errors | QuorumSound, OneJobPerGroup | a job never asks for more tasks than it has pods, and no group is submitted twice |
| `fx_live` | two groups of two, no faults, fair | NoOrphanedAllocation, GangSpec, GroupIsBound, ReleasedWhenDone | the system is a gang scheduler: groups that fit are bound as a whole, and released when their pods are done |
| `fx_queue` | 2 pods, each of which fills the group; requeue, database error, podspec that is not read, refused binding, pod that fits no node; room for 2 tasks | TypeOK, AllocationsHoldTheirPods, QueueSpec | overlapping jobs of one group never overfill an allocation; the composition implements the queue |
| `fx_outages` | a pair; lost reply, failing statement, update of the nodes that fails unseen, requeue, restart, tombstone | HostWasGranted | through stale events, stale nodes, repeated allocations and restarts, a pod is bound only to nodes granted to a completed job that names it and to no other job |
| `fx_workers` | a pair, each pod owned by a Job of its own, one with a deadline; lost reply, failing statement, unseen failure of the nodes, API error, 2 deletions by users | DeadlineArmed, QueueSpec | retries never leave a completed, timed job without a cleanup; the queue is implemented here too |
| `fx_deadline` | a pair owned by a Job with deadlines; lost reply, failing statement, unseen failure of the nodes, fair | RunningIsAllocated, DeadlineEnforced, DeadlineReleases | no pod loses its allocation before its deadline; overdue pods are stopped and their allocation released |
| `ns_search` | 2 goroutines; 0, 3 or 4 nodes; a profile with filters and scores, one with filters, one with scores; 2 extenders; a nominated node that may be gone; fair | TypeOK, FeasibleSlotsFilled, StopsEarlyOnlyWhenFull, FitErrorIsExplained, SuggestedHostFits, SkipsOnlyExaminedNodes, SchedulePodReturns | the parallel search loses no node, explains its failures and ends |
| `rg_graph` | 4 nodes of which 2 are passed over, or 2 of which 1 is; fractional cpus; 3 jobs of up to 2 pods, 1 change by other schedulers or release before the end, 1 restart | TypeOK, GraphIsATree, PathsFollowTheTree, GraphCoversCluster, TasksWithinCount, TasksFit, NodesNotOvercommitted, LedgerSpec | the graph is sound, rounding never promises too much, and the sidecar keeps the ledger |
| `pq_v_quorum` | 1 restart | QuorumSound | violated: a pod counted twice fills a group of two |
| `fx_v_loop` | room for 2 tasks, fair | CompletedIsBound | violated: a cancelled job ends the event loop |
| `fx_v_deleted` | a user deletes the pods, fair | ReleasedWhenDeleted | violated: the allocation of deleted pods is never released |

Two results need to be read with their instance. `RunningIsAllocated` is checked,
and proved, where every pod is enqueued once, no group has more pods than its size,
and no API request fails. In a group with more pods
than its size, a pod recorded and bound between the two reads of DeletePodEvent
loses its allocation; and an API error other than not-found drops a pod from the
list that is tested. Pods that are enqueued twice break it too, in a long sequence
that the first attempt at the proof brought up: p1 of a pair is counted twice, so that
a job of p1 alone is submitted, and p1 is bound; after a restart p1 finishes, and its
DeletePodEvent reads the group's rows, {p1}, as finished; p2 is enqueued and requeued, a
second job is matched, recorded, and p2 bound; now the handler goes on, and cancels the
flux id that it finds in the row, which is the second one. `QuorumSound` holds only when no pod is enqueued twice,
which is why it appears in a passing run, in a theorem with that assumption, and in
a violation run.

`SkipsOnlyExaminedNodes` is stated for chunks of one node. From four nodes on a
goroutine takes two at a time, and when the search is cancelled between them, the
one left out is behind `nextStartNodeIndex` although nobody has looked at it; it is
only reached when the index has gone round. `NodesNotOvercommitted` is stated for a
sidecar that has not restarted: a new one does not know of pods that were matched
but not bound, and the cancel of an old flux id may free a new job's cores. And it counts
only pods whose release nobody has asked for: at a deadline, and after an error of the API
server, Fluxion gives away the cores of pods that still run, and the node is
overcommitted until they end.

`HostWasGranted` says that the nodes of a running pod were granted to its job and to no
other. It says that they are those of the job's flux id only as long as no update of the
nodes has failed unseen (`disruptions["nodes"] = 0`): after one the job completes with the
id of its last attempt and the nodes of an earlier one, whose allocation is then in no
row.

The fair runs of `Fluxnetes` that pass have no event that ends the process: a panic, or a cancelled job that
ends the event loop, stops progress until the scheduler is started again, and a
restart is a fault that nobody guarantees.

Deadlock checking is off in all runs but `ns_search`, where a next cycle can always
begin: the system may stop, because all pods are
over or because the process has panicked.

### Bounds

- Pods and groups: two pods of a group are enough for every interaction inside
  a group (the first and the last pod, a late pod, a stale row); a second group is
  there where groups compete for capacity or for a lookup key.
- `MaxFaults` bounds requeues, database errors and restarts of the scheduling
  path. Two errors and two restarts allow a fault during the recovery from one.
- `MaxDisruptions` bounds lost gRPC replies, failing statements of workers and of
  the event loop, updates of nodes that fail unseen, API errors, refused bindings, pods that fit no node, and user deletions. One of a kind
  is enough to start a second attempt; kinds are combined in a run where they
  interact.
- `Capacity` bounds the number of allocations, and with them the retries that
  cannot succeed (a group whose representative has no deadline is tried again for
  ever). A further Match is cancelled.
- `TrackedIDs` bounds the flux ids that `DeadlineReleases` follows; with
  one lost reply and one failing statement its one job is matched at most three
  times, so that no further id occurs.
- `NodeSearch`: with `MinFeasibleNodesToFind` = 1 a search of three or four nodes
  wants one or two of them, so that two goroutines go past the number wanted, and
  chunks have one node (three nodes) or two (four). `PreFilterSets` has the empty set
  and one with a node that exists only in the larger snapshot. Scores are 0 or 1.
- `ResourceGraph`: `MaxMatches` = 3 jobs with `MaxCount` = 2 fill the three cores,
  free some and fill them again; the loads include one that is more than a
  node has. `MaxChanges` and `MaxRestarts` are 1: one change during or after the
  listing or one job released before its end, and one new sidecar among pods of the old
  one.
- The label kinds of a pod, sizes and durations are constants; each run fixes a
  labelling.

### Fairness

`Fairness` has one weak fairness condition per goroutine or pool of goroutines: the ScheduleOne
loop (`wait.UntilWithContext`), River's workers, the event loop, the binders, the
informer, the cleanup workers, and Kubernetes' removal of pods it was told to
delete. Go's scheduler and River's polling run all of them as long as the
process lives. Nothing is assumed of the users who create pods, of pods finishing,
of restarts, or of faults. Weak fairness suffices: no one of these actors disables
another's step for ever and then enables it again.

`NodeSearch` has weak fairness of each filter goroutine and of the goroutine that
waits for them: plugins and extenders answer (extenders have a timeout), and Go runs
every goroutine. Nothing is assumed of new pods.

## 4. Proofs

Eight modules have theorems, for all values of the constants: any finite set of
pods, any groups, labels, durations, owners, capacity and bounds on the faults; any
number of nodes, goroutines and extenders; any node lists, loads and pods that are
matched, and any number of restarts of the sidecar. Every invariant, action
property and refinement that a passing run checks is stated by one; what is left to TLC is liveness.

| module | theorem | states | hypotheses |
|---|---|---|---|
| `ProvisionalQueueProofs` | `TypeCorrect` | `[]TypeOK` | |
| | `RowsHavePods` | `[]RowHasPods` | |
| | `QueuedJobsArePending` | `[]JobsArePending` | |
| | `QueuedJobsAreRunnable` | `[]JobsAreRunnable` | |
| | `DeletionFollowsPending` | `PendingBeforeDelete`, an action property | |
| | `QuorumIsSound` | `[]QuorumSound` | `EnqueuedOnce` |
| | `GroupsAreSubmittedOnce` | `[]OneJobPerGroup` | `EnqueuedOnce`, `SizesCoverGroups` |
| `FluxnetesProofs` | `TypeCorrect` | `[]TypeOK` | |
| | `ImplementsQueue` | `QueueSpec`, the refinement | |
| `FluxnetesSafetyProofs` | `DeadlinesAreArmed` | `[]DeadlineArmed` | |
| | `HostsAreGranted` | `[]HostWasGranted` | |
| | `AllocationsAreNotOverbooked` | `[]AllocationsHoldTheirPods` | `SizesNotNegative` |
| | `NoAllocationIsOrphaned` | `[]NoOrphanedAllocation` | `EnqueuedOnce`, `SizesCoverGroups`, `RepliesArrive`, `DurationsAgree` |
| | `RunningPodsKeepTheirResources` | `[]RunningIsAllocated` | `EnqueuedOnce`, `SizesCoverGroups`, `PodsAreLeftAlone`, `TimedAreOwned`, `JobsWithinGroups` |
| `FluxnetesGangProofs` | `ImplementsGang` | `GangSpec`, the refinement | `Calm` |
| `NodeSearchProofs` | `SearchTypeCorrect` | `[]TypeOK` | |
| | `SlotsAreFilled` | `[]FeasibleSlotsFilled` | |
| | `NothingIsLost` | `[]StopsEarlyOnlyWhenFull` | |
| | `FitErrorsAreExplained` | `[]FitErrorIsExplained` | |
| | `SuggestedHostsFit` | `[]SuggestedHostFits` | |
| `NodeSearchStartProofs` | `NoNodeIsSkipped` | `SkipsOnlyExaminedNodes`, an action property | |
| `ResourceGraphProofs` | `ResourceTypeCorrect` | `[]TypeOK` | |
| | `GraphAlwaysATree` | `[]GraphIsATree` | |
| | `PathsAlwaysFollow` | `[]PathsFollowTheTree` | `NamesReadable` |
| | `GraphAlwaysCovers` | `[]GraphCoversCluster` | |
| | `AnswersWithinCount` | `[]TasksWithinCount` | |
| | `TasksAlwaysFit` | `[]TasksFit` | |
| | `NeverOvercommitted` | `[]NodesNotOvercommitted` | |
| | `ImplementsLedger` | `LedgerSpec`, the refinement | |

`SumProofs` has lemmas only. The assumptions on constants are those of the
modelled modules (`NoPodAssumption`, `PodsAssumption`, `LabelAssumption`,
`FaultAssumption`; `QueueAssumption`, which says the same of the constants that
`Fluxnetes` hands to its queue; `CapacityAssumption`; `NodeSearchAssumption`;
`ResourceAssumption`, which is what the API server sees to: names of nodes are unique,
label keys are not empty, quantities are not negative). TLC evaluates all of them.

### Hypotheses

They are formulas about the labels, the names and which faults there may be, and each is there because the
statement fails without it.

| hypothesis | says | without it |
|---|---|---|
| `EnqueuedOnce` | no requeue, no restart | a pod counted twice fills its group (`pq_v_quorum`) |
| `SizesCoverGroups` | no group has more countable pods than a label of its pods says | a late pod completes the group a second time, and is bound between two reads of DeletePodEvent |
| `SizesNotNegative` | no label gives a negative size (`ParseInt` accepts one) | the job asks for less than nothing |
| `RepliesArrive` | no lost gRPC reply and no failing statement of a worker | the next attempt allocates again, and the first id is in no row |
| `DurationsAgree` | all pods of a group have a deadline or none has | a job with a deadline whose representative has none cannot submit its cleanup, and is tried and allocated again for ever |
| `PodsAreLeftAlone` | no user deletes pods, the API server answers | GetGroupPods drops the pod it cannot read, and the rest looks finished |
| `TimedAreOwned` | all pods of a group with a deadline belong to one Job | deleteObjects leaves the other pods running, deleteFluxion frees their nodes |
| `JobsWithinGroups` | the pods of a Job are of one group | a Job is deleted for one group, and a pod of it that waits in another vanishes; its delete event can find no rows and counts its group as finished, and the cancel it then sends can meet the pods that the rest of that group has started. Refused groups, too, discard pods of others |
| `WholeGroups` | every group has as many pods as each of its labels says | a group is granted before all its pods are there, or never |
| `NoDeadlines` | no pod has a duration | the allocation goes at the deadline, while the deleted pods may still run |
| `NamesReadable` | names and indices that are written without a separator can be told apart again: of the zones of a node list, and of the kinds `nvidiagpu`, `core` and `memory`; and zero is written `0` | zone `z1` with index 0 and zone `z` with index 10 have the same path (section 5) |

The part of `NamesReadable` about the kinds and zero holds of the strings themselves.
It is a hypothesis because strings are opaque to the provers: of `ToString` and of the
concatenation of strings they know nothing.

`Calm` is `EnqueuedOnce`, `WholeGroups`, finitely many groups, `RepliesArrive`,
`PodsAreLeftAlone`, `NoDeadlines` and `JobsWithinGroups`. It leaves the other faults unbounded:
errors of the queue's statements, updates of the nodes that fail unseen, bindings that fail, pods that fit no node, podspecs that are
not read, tombstones, panics, and a cluster that is full.

### The queue

1. `TypeInv` adds to `TypeOK` that a pod is in flight whenever the thread is not
   idle.
2. `StepFootprint` says once, for all actions, what a step can do to each table
   (`Footprint`): pods and pending rows are only added, group rows appear only for
   the recorded pod in flight, and so on. The safety proofs use the footprint
   and not the actions.
3. `SafeInv` is the inductive invariant for safety. `RowHasPods`, `JobsArePending`
   and `JobsAreRunnable` are not inductive alone: a row appears two statements
   after its pod, and a job is appended three statements after it was built. So
   `Recorded` says that the pod in flight has its row while its group is counted,
   `BatchRunnable` that what Schedule holds in memory is runnable, and
   `BatchPending` that its groups are pending from the moment they are deleted.
4. `QuorumInv` adds `Fresh` (a pod waiting or in flight has not been counted),
   `Counted` (the count of a row is at most the number of recorded pods) and
   `BatchQuorum`. A database error after the commit keeps `Counted`, since it can only
   leave a pod recorded and not counted.
5. `OnceInv` adds that only countable pods are recorded (`OnlyCountable`), that a row's
   size covers its group (`RowSizes`), that what is about to be submitted is there for
   the first time (`BatchFirst`), and that a group with a job is complete, has no row
   and has no pod on its way to one (`Settled`). A group with a job has all its
   pods recorded, by `QuorumSound` and the size; by `Fresh` no pod of it can come
   again.

### The whole scheduler

`QueueStep` proves the refinement `QueueSpec` action by action: what workers, event loop,
binders, informer and cleanup workers do is, under `PodState`, one of `PodsChanged` and
`PodDropped`, or leaves the queue alone. `TypeInv` carries the queue's own
`SafeInv`, because a step that reads a podspec or a pending row is well typed only if the row is there.
So all theorems about the queue, proved once, hold of the whole.

| invariant | what it adds | for |
|---|---|---|
| `IdInv` | flux ids are below the counter of the sidecar, differ between jobs, and an allocation agrees with the job that has its id, as its flux id or through its nodes (`IdsBelow`, `IdsDistinct`, `AllocsAgree`) | `DeadlineArmed` |
| `Grants`, `NodesFresh` | every event in the channel, every plan of a binder and every host is of a completed job that names the pod; past the update, and as long as none failed unseen, a job's nodes are those of its id | `HostWasGranted` |
| `HoldInv` | planned and bound pods of a job together are at most its size (`UsersWithin`), since the event loop takes each job's event once and plans at most one pod per task | `AllocationsHoldTheirPods` |
| `OrphanInv` | one job per group; a job that is available has no id yet; the id of a job past its record is the pending row's; every allocation is of a job that is live | `NoOrphanedAllocation` |
| `KeepInv` | pods that ran have a job; once the handler has read a group as finished, it stays so; rows have the id of their job; what a job was granted, by id or by nodes, is allocated or all its pods are over or to be deleted (`HeldAllocated`) | `RunningIsAllocated` |
| `CalmInv` | `OrphanInv` and `KeepInv`; pods that are done were bound, those deleted were to be, and only since their group was refused | `GangSpec` |

All but `Grants` and `NodesFresh` rest on the queue's `LabelInv` or `OnceInv`. `RunningIsAllocated` is
the one with the widest gap between the moment something is read and that at which it is used:
DeletePodEvent reads the group's pods, then the flux id. `FinishedIsOver` says that
nothing in between can change the answer, and it is there that pods enqueued twice break it
(section 3).

`ImplementsGang` has one lemma per action. For `Match` the room that Fluxion sees has to be the room that the abstract
scheduler sees: `Free`, the capacity less a sum over allocations, and `Gang!InUse`, a
sum over groups of sums over a group's allocations, agree (`FreeOfUse`). The sums are of
`MapThenSumSet`, which chooses an order; `SumProofs` shows that the order does not
matter. The library's induction over finite sets takes the statement as an operator, which
the provers cannot instantiate; `SmallerSubsets` takes it as a set instead and is
proved from the well-foundedness of the strict subset ordering.

### The node search

`NodeInv` has three parts besides types. `SearchOK` is about the goroutines: every piece
of the list belongs to one goroutine, has been passed or is not yet dealt (`PiecesOK`);
the counter is the number of slots written plus that of the goroutines that have counted
and not yet written or uncounted (`CounterOK`, `SlotsOK`); slots hold different nodes that
fit (`KeptOK`); the search is cancelled only when as many nodes as are wanted have been
counted (`CancelOK`); and a node passed by a search that was not cancelled has a slot or a status
(`ExaminedOK`). `FeasibleOK` and `ExplainedOK` take over after the search, through extenders and
scores.

The proof of `NoNodeIsSkipped` is about a point of the list: `Frontier(d)` says that all nodes
before it have been examined and that d counts what the search will
report of them. It is not enough to count: a nominated node is tried before the search and has a
status already, and it may be counted twice. What makes up for it is `Lost`: a search that was
cancelled has a goroutine that found a node and uncounted it again, so that at least one examined
node is counted nowhere.

### The resource graph

`RInv` is inductive. Its parts say that the nodes seen are those of the list up to
`next` that are not passed over (`SeenOK`); that the graph of a sidecar that builds or
serves is the graph of the nodes seen (`GraphOK`); and of each allocation and its answer
what makes the answer safe (`AllocsOK`).

- The graph. `IsTree(g, par)` gives each vertex but the first a parent before it, and says that
  the edges are those of `par` and no others; `NodeAt` says which vertices a node of the
  list has. `ChildGrows`, `UnderGrows` and `AddNodeGrows` follow one vertex, n vertices under
  one, and one turn of CreateInClusterJGF; `OtherNodes` says that a turn takes nothing from
  the nodes before it. `Built` is the loop invariant, and `GraphIsATree` and
  `GraphCoversCluster` are read off it at the end of the loop.
- The paths. `Named`, a part of `Built`, says of each vertex its name, the index in it
  and that its path is that of its parent and its name; that
  subnets are numbered in the order they were added and have one node each; and that
  the leaves of a node differ in kind or in number. So siblings have different names
  (`SiblingsDiffer`), where names can be read, and by induction over
  the vertices no two have the same path (`PathsDiffer`): paths of equal length with equal last
  names have parents with equal paths.
- The answer. `AllocatedIsLaidOut` says that Fluxion's list has the cores of a node right
  before it, and `Parsed` that ParseAllocResult then counts each node its own cores.
  `MatchedOK` adds the divisions: entries name different nodes, their tasks are at most
  the size of the job, and tasks times cores per task are at most the cores the allocation
  has on the node.
- The cpu. Allocations share no core, so that together they promise of a node at most a
  whole cpu per core (`DisjointShares`, `PromisedCpu`), and the node has as many cores as
  whole cpus were left (`WholeCores`).
- The ledger. `IdsDiffer` says that flux ids were given out and name one allocation each,
  so that an allocation is one grant, and a cancel takes back one. `TasksServed` says that the
  tasks the answer names are all on nodes that are served, each entry at another one, so that
  the sum over nodes is the sum over entries. `RInvLedgerFits` says that the cpu of the
  grants on a node is what the allocations promise there, which `TasksFit` bounds. There is one lemma
  per action; `MatchGrants` puts these together with what `MatchedOK` says of the answer,
  and `LedgerStep` combines them.
- The pods. `FirstRun` holds until the first restart: flux ids follow the jobs; every pod
  that was not released has a live allocation whose answer grants its cpu on its node, and
  whose cancel is not yet on its way; and a job has one pod entry per node. So the pods on a node that were not released are at most what is
  promised there. A restart breaks each of these, which is why `NodesNotOvercommitted` asks for
  none.

The model is written so that this can be proved: n vertices under one are a recursive
function (`Under`), and sums are `MapThenSumSet`, whose laws are in `SumProofs`. `Growth`
and `Flattens` are the recursive functions inside `Under` and `FlattenSeq`;
`NextNumber` and `OneMore`, induction on a set of numbers and on a set of finite sets, go
through them.

### Only model-checked

- Liveness (`GroupIsBound`, `ReleasedWhenDone`, `DeadlineEnforced`,
  `DeadlineReleases`, `SchedulePodReturns`), and with it everything about fairness and
  ENABLED, is outside TLAPS' reach here.

## 5. Not modelled

- Scheduler construction, options and the building of extenders: configuration
  code that runs once.
- `Less`, the order of the scheduling queue: it changes no state, and the model
  pops pods in any order.
- The reservation path (`PostSubmit`, the reserved branch of `Work`): unreachable
  with the arguments that are submitted, because `EasyBackfill.Schedule` sets
  `Reservation` on a copy (`easy.go:88-91`).
- `RegisterExisting` and `AddDeadline`, which have no caller; generated gRPC code;
  the external service, which returns empty answers or a file.
- Fluxion's matching (an external library): any choice of free cores.
- Reserve, permit, post-filter and pre-bind plugins; the cancellation of a search by
  the shutdown of the process; a profile with neither filters nor scores, for which
  a search over no nodes takes a remainder by zero (`schedule_one.go:594`).
- Init containers: `PreparePodJobSpec` does not count them, and the model's pods have
  none. Names that collide: a name is followed by an index without a separator, so that with
  eleven nodes or more, zone `z1` with index 0 and zone `z` with index 10 have the same
  path (`types.go:103`); the instances are smaller.

Also seen in the code, and present in the model's actions, but without a property:

- a pod without labels panics (`group.go:55`);
- a pending group takes further pods, although a comment says it is not allowed to: the
  check compares the tag of a select with `INSERT 1` (`provisional.go:67-74`);
- a job is cancelled when the cluster is busy, although a comment says this
  indicates "not possible" (`job.go:118`);
- no action removes a pending row, as both delete statements at the end of
  `Cleanup` are unreachable or unformatted (`cleanup.go:187`, `:207`);
- a job may have more names than nodes (`scheduler.go:554`, "This should not
  happen!"), among other reasons because cores of one task on two nodes are lost
  in a division (`fluxion.go:126`);
- the Job that owns a pod is deleted in the background, so its pods may outlive
  their allocation (`cleanup.go:144`);
- only the Job that owns the representative is deleted: a group made of pods of several
  Jobs keeps those of the others, while its allocation is cancelled, and a Job whose pods
  are of several groups takes pods of the other groups with it (`cleanup.go:124-146`);
- the update of a job's nodes is sent with `Query` and its rows are not read, so that its
  failure is not seen, and a job may complete with the nodes of an earlier attempt, or
  without (`job.go:162`);
- every node gets a subnet of its own, although the comment above `subnetLookup`
  wants one per zone: the lookup is never filled (`utils.go:110-112`);
- GPUs that running pods use are not subtracted (`utils.go:188`);
- the nominated node is tried though PreFilter plugins may have left it out
  (`schedule_one.go:478`);
- an error while the graph is built is dropped, and the sidecar serves without one
  (`fluxion.go:28`).

## 6. Plan

Done: `ProvisionalQueue`, `Fluxnetes`, `GangScheduler`, `NodeSearch`,
`ResourceGraph`, `CpuLedger`, their runs, and the proofs of section 4.

1. `Fluxnetes` over the ledger. Its `Match` takes all the tasks of a job, on no node in
   particular, or refuses it, and its sidecar does not restart; that is one of the behaviours the
   ledger allows. With grants of fewer tasks, pods of a completed job would get no node; with
   restarts of the sidecar, ids would come again.
2. The reservation path as a component, with the arguments a correct `Reservation`
   flag would submit, once the code can reach it.
