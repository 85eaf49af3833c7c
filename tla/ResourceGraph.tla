--------------------------- MODULE ResourceGraph ---------------------------
(***************************************************************************)
(* The Fluxion sidecar's view of the cluster: the resource graph it builds *)
(* from the Kubernetes API when it starts, the jobspec a pod becomes, and  *)
(* the nodes and tasks it answers with.  The graph is built node by node   *)
(* while pods come and go, and is never updated; Fluxion subtracts from it *)
(* what it allocates.  Restarting the sidecar forgets the allocations and  *)
(* builds a new graph around the pods that run.                            *)
(*                                                                         *)
(*   cluster        the node list of the API server                        *)
(*   others         per node, what pods of other schedulers request        *)
(*   pods           the pods placed for jobs, per job and node, planned or *)
(*                  bound, and released once their cancel is asked for     *)
(*   sidecar        starting, building the graph, serving, or serving with *)
(*                  no graph, which is what an error leaves                *)
(*   next           the item of the node list whose turn it is             *)
(*   graph          the Json Graph Format under construction, then loaded  *)
(*   seen           per node of the graph, the requests found on it        *)
(*   allocs, jobID  Fluxion's allocations and its job counter              *)
(*   cancels        flux ids whose cancel request is on its way            *)
(*   matches, changes, restarts     how often, for the bounds              *)
(***************************************************************************)
EXTENDS Integers, Sequences, FiniteSets, FiniteSetsExt, SequencesExt, TLC

CONSTANTS
    Clusters,       \* node lists: sequences of [name, zone, labels,
                    \*   unschedulable, cpu (milli), mem (MiB), gpu]
    SkipLabel,      \* the sidecar's -label flag, "" for none
    Loads,          \* what other pods may request: [cpu, mem]
    PodShapes,      \* pods: [cpus : milli per container, labels]
    MaxCount,       \* bound on the size of a job
    MaxMatches, MaxChanges, MaxRestarts     \* bounds on how often each happens

Resources == [cpu : Nat, mem : Nat]

Sum(f) == MapThenSumSet(LAMBDA x : f[x], DOMAIN f)

\* Names of nodes are unique, label keys are not empty, and quantities are not
\* negative, as the API server sees to.
ASSUME ResourceAssumption ==
    /\ \A c \in Clusters :
          /\ c \in Seq([name : STRING, zone : STRING, labels : SUBSET STRING,
                       unschedulable : BOOLEAN, cpu : Nat, mem : Nat, gpu : Nat])
          /\ \A j, k \in DOMAIN c : c[j].name = c[k].name => j = k
          /\ \A k \in DOMAIN c : "" \notin c[k].labels
    /\ SkipLabel \in STRING
    /\ Loads \subseteq Resources
    /\ \A shape \in PodShapes : shape.cpus \in Seq(Nat)
    /\ MaxCount \in Nat /\ MaxMatches \in Nat

VARIABLES cluster, others, pods, sidecar, next, graph, seen, allocs, jobID,
          cancels, matches, changes, restarts

apiVars     == <<cluster, others>>
buildVars   == <<next, graph, seen>>
fluxionVars == <<allocs, jobID>>
vars == <<apiVars, pods, sidecar, buildVars, fluxionVars, cancels, matches,
          changes, restarts>>

controlPlaneLabel  == "node-role.kubernetes.io/control-plane"
defaultClusterName == "k8scluster"

-----------------------------------------------------------------------------
(* The Json Graph Format.                                                  *)

NewFluxJGF ==
    [nodes |-> <<>>, edges |-> {}, counts |-> [t \in {"cluster"} |-> 1],
     elements |-> 0, root |-> ""]

NameWithIndex(r) == r.name \o ToString(r.index)

NextResourceIndex(g, name) ==
    IF name \in DOMAIN g.counts THEN g.counts[name] ELSE 0

\* The resource to add, and the counters after it.
getCounter(g, name, type) ==
    [name |-> name, type |-> type, index |-> NextResourceIndex(g, name),
     elementId |-> g.elements]
CountedMutant(g, name) ==
    [g EXCEPT !.counts = [n \in DOMAIN @ \cup {name} |->
        IF n = name THEN NextResourceIndex(g, name) + 1 ELSE @[n]]]
Counted(g, name) ==
    [g EXCEPT !.elements = @ + 1,
              !.counts = [n \in DOMAIN @ \cup {name} |->
                  IF n = name THEN NextResourceIndex(g, name) + 1 ELSE @[n]]]

\* A path is the sequence of the names that its slashes separate.  Names are not
\* empty and hold no slash: the two say the same, and Clean changes nothing.
getNodePathMutant(root, subpath) == IF subpath = <<>> THEN <<root>> ELSE subpath
getNodePath(root, subpath) == <<root>> \o subpath

makeNewNode(g, r, subpath) ==
    [Counted(g, r.name) EXCEPT
        !.nodes = Append(@, [id |-> r.elementId, type |-> r.type,
                             basename |-> r.name, name |-> NameWithIndex(r),
                             path |-> getNodePath(g.root, subpath)])]

Newest(g) == Last(g.nodes)

\* A vertex under the one with this subpath; its index is the caller's.
MakeChild(g, name, type, subpath, index) ==
    LET r    == [getCounter(g, name, type) EXCEPT !.index = index]
        here == NameWithIndex(r)
    IN  makeNewNode(g, r, Append(subpath, here))

MakeSubnet(g, name, index)          == MakeChild(g, name, "subnet", <<>>, index)
MakeNode(g, name, subpath, index)   == MakeChild(g, name, "node", subpath, index)
MakeCore(g, name, subpath, index)   == MakeChild(g, name, "core", subpath, index)
MakeMemory(g, name, subpath, index) == MakeChild(g, name, "memory", subpath, index)
MakeGPU(g, name, subpath, index)    == MakeChild(g, name, "gpu", subpath, index)

MakeEdge(g, source, target, relation) ==
    [g EXCEPT !.edges = @ \cup {<<source, target, relation>>}]
MakeBidirectionalEdgeMutant(g, parent, child) ==
    MakeEdge(MakeEdge(g, parent, child, "contains"), parent, child, "in")
MakeBidirectionalEdge(g, parent, child) ==
    MakeEdge(MakeEdge(g, parent, child, "contains"), child, parent, "in")

\* Only called on a new graph.
InitCluster(g, name) ==
    LET named == [g EXCEPT !.root = name \o "0"]
    IN  makeNewNode(named, getCounter(named, name, "cluster"), <<>>)

-----------------------------------------------------------------------------
(* CreateInClusterJGF, one node of the list at a time.                     *)

Skipped(node) ==
    \/ controlPlaneLabel \in node.labels
    \/ SkipLabel # "" /\ SkipLabel \in node.labels
    \/ node.unschedulable

Bound(k) == {p \in pods : p.node = cluster[k].name /\ p.bound}

\* The requests of the pods on the node that have not finished.
computeTotalRequests(k) ==
    [cpu |-> others[k].cpu + Sum([p \in Bound(k) |-> p.cpu]),
     mem |-> others[k].mem]

\* Go's division of integers.
Quotient(a, b) == IF a >= 0 THEN a \div b ELSE -((-a) \div b)

availCpuMutant(node, reqs) == Quotient(node.cpu - reqs.cpu + 999, 1000)
availCpu(node, reqs) == Quotient(node.cpu - reqs.cpu, 1000)
availMem(node, reqs) == (node.mem - reqs.mem) \div 1024

\* n vertices of a kind under the vertex parent.
Under(g, parent, n, Make(_, _)) ==
    LET grown[i \in 0 .. n] ==
            IF i = 0 THEN g
            ELSE LET h == Make(grown[i - 1], i - 1)
                 IN  MakeBidirectionalEdge(h, parent, Newest(h).id)
    IN  IF n > 0 THEN grown[n] ELSE g

\* The vertices of one node.  Each node gets a subnet of its own: the lookup of
\* subnets is never filled.
Subnets(g) == Cardinality({v \in ToSet(g.nodes) : v.type = "subnet"})

AddNode(g, node, index, reqs) ==
    LET g1      == MakeSubnet(g, node.zone, Subnets(g))
        subnet  == Newest(g1)
        g2      == MakeBidirectionalEdge(g1, 0, subnet.id)
        g3      == MakeNode(g2, node.name, <<subnet.name>>, index)
        compute == Newest(g3)
        subpath == <<subnet.name, compute.name>>
        g4 == MakeBidirectionalEdge(g3, subnet.id, compute.id)
        g5 == Under(g4, compute.id, node.gpu,
                    LAMBDA h, i : MakeGPU(h, "nvidiagpu", subpath, i))
        g6 == Under(g5, compute.id, availCpu(node, reqs),
                    LAMBDA h, i : MakeCore(h, "core", subpath, i))
    IN  Under(g6, compute.id, availMem(node, reqs),
              LAMBDA h, i : MakeMemory(h, "memory", subpath, i))

-----------------------------------------------------------------------------
(* What a job asks for, and how the answer is read.                        *)

\* The cpus of the containers, each rounded up, and at least one in all.
\* Memory and GPUs only narrow the choice Fluxion has, and are left out.
PreparePodJobSpecMutant(shape) ==
    LET cpus == Sum([i \in DOMAIN shape.cpus |-> shape.cpus[i] \div 1000])
    IN  [cpu |-> IF cpus = 0 THEN 1 ELSE cpus, labels |-> shape.labels]
PreparePodJobSpec(shape) ==
    LET cpus == Sum([i \in DOMAIN shape.cpus |-> (shape.cpus[i] + 999) \div 1000])
    IN  [cpu |-> IF cpus = 0 THEN 1 ELSE cpus, labels |-> shape.labels]

\* Slots of cores, all on one node of one subnet if a label is "zone".
CreateJobSpec(spec, count) ==
    [slots |-> count, core |-> spec.cpu, zone |-> "zone" \in spec.labels]

Compute == {v \in ToSet(graph.nodes) : v.type = "node"}
CoresOf(v) ==
    {c \in ToSet(graph.nodes) : c.type = "core" /\ <<v.id, c.id, "contains">> \in graph.edges}
Free(v) == CoresOf(v) \ UNION {a.cores : a \in allocs}

\* Fluxion may take the cores of a slot from different nodes.  Which free
\* cores of a node it takes makes no difference.
MatchAllocate(js) ==
    LET free   == [v \in Compute |-> Free(v)]
        wanted == js.slots * js.core
        take   == {t \in [Compute -> 0 .. wanted] :
                     /\ \A v \in Compute : t[v] <= Cardinality(free[v])
                     /\ Sum(t) = wanted
                     /\ js.zone => Cardinality({v \in Compute : t[v] > 0}) = 1}
    IN  {[v \in Compute |-> CHOOSE cores \in kSubset(t[v], free[v]) : TRUE] : t \in take}

\* The allocated part of the graph, in which the cores come before their node.
Allocated(chosen) ==
    LET used == SetToSeq({v \in Compute : chosen[v] # {}})
    IN  FlattenSeq([i \in 1 .. Len(used) |-> SetToSeq(chosen[used[i]]) \o <<used[i]>>])

\* Each node of the answer, at its place, with the cores that were counted
\* since the node before.
ParseAllocResultMutant(list) ==
    LET corecount(i) == Cardinality({j \in 1 .. i - 1 : list[j].type = "core"})
    IN  [i \in {i \in DOMAIN list : list[i].type = "node"} |->
            [node |-> list[i].basename, cores |-> corecount(i)]]
ParseAllocResult(list) ==
    LET since(j, i) == \A n \in j .. i - 1 : list[n].type = "core"
        corecount(i) == Cardinality({j \in 1 .. i - 1 : since(j, i)})
    IN  [i \in {i \in DOMAIN list : list[i].type = "node"} |->
            [node |-> list[i].basename, cores |-> corecount(i)]]

\* The reply: nodes with the number of pods to bind to each.
NodeListMutant(chosen, cpu) ==
    LET result == ParseAllocResult(Allocated(chosen))
    IN  [i \in DOMAIN result |-> [node  |-> result[i].node,
                                  tasks |-> (result[i].cores + cpu - 1) \div cpu]]
NodeList(chosen, cpu) ==
    LET result == ParseAllocResult(Allocated(chosen))
    IN  [i \in DOMAIN result |-> [node  |-> result[i].node,
                                  tasks |-> result[i].cores \div cpu]]

-----------------------------------------------------------------------------
Init ==
    /\ cluster \in Clusters
    /\ \E load \in Loads : others = [k \in DOMAIN cluster |-> load]
    /\ pods = {}
    /\ sidecar = "down"
    /\ next = 1
    /\ graph = NewFluxJGF
    /\ seen = <<>>
    /\ allocs = {}
    /\ jobID = 1
    /\ cancels = {}
    /\ matches = 0
    /\ changes = 0
    /\ restarts = 0

(* The sidecar starts.                                                     *)

\* The client is created and the nodes are listed, or that fails: InitFluxion
\* returns all the same, and the server serves without a graph.
InitFluxion ==
    /\ sidecar = "down"
    /\ \/ /\ sidecar' = "building"
          /\ graph' = InitCluster(NewFluxJGF, defaultClusterName)
       \/ /\ sidecar' = "uninitialised"
          /\ UNCHANGED graph
    /\ UNCHANGED <<apiVars, pods, next, seen, fluxionVars, cancels, matches,
                   changes, restarts>>

\* The next node of the list is passed over, or its pods are listed and it is
\* added; an error of the API server ends the loop.
BuildNode ==
    /\ sidecar = "building"
    /\ next <= Len(cluster)
    /\ \/ /\ Skipped(cluster[next])
          /\ next' = next + 1
          /\ UNCHANGED <<sidecar, graph, seen>>
       \/ /\ ~Skipped(cluster[next])
          /\ LET reqs == computeTotalRequests(next)
             IN  /\ graph' = AddNode(graph, cluster[next], next - 1, reqs)
                 /\ seen' = [k \in DOMAIN seen \cup {next} |->
                                IF k = next THEN reqs ELSE seen[k]]
          /\ next' = next + 1
          /\ UNCHANGED sidecar
       \/ /\ ~Skipped(cluster[next])
          /\ sidecar' = "uninitialised"
          /\ UNCHANGED buildVars
    /\ UNCHANGED <<apiVars, pods, fluxionVars, cancels, matches, changes, restarts>>

Complete == sidecar = "building" /\ next > Len(cluster)

\* The graph is written to the file, read back and loaded.
InitContext ==
    /\ Complete
    /\ sidecar' = "serving"
    /\ UNCHANGED <<apiVars, pods, buildVars, fluxionVars, cancels, matches,
                   changes, restarts>>

\* The process ends, by itself or because the file cannot be written, and is
\* started again.
SidecarRestarts ==
    /\ sidecar # "down"
    /\ restarts < MaxRestarts
    /\ restarts' = restarts + 1
    /\ sidecar' = "down"
    /\ next' = 1
    /\ graph' = NewFluxJGF
    /\ seen' = <<>>
    /\ allocs' = {}
    /\ jobID' = 1
    /\ UNCHANGED <<apiVars, pods, cancels, matches, changes>>

-----------------------------------------------------------------------------
(* The sidecar serves.                                                     *)

\* A job is matched: the worker keeps the nodes, each with its tasks, and the
\* pods are bound later.
Match(shape, count) ==
    LET spec == PreparePodJobSpec(shape)
    IN  /\ sidecar = "serving"
        /\ matches < MaxMatches
        /\ \E chosen \in MatchAllocate(CreateJobSpec(spec, count)) :
             LET list == NodeList(chosen, spec.cpu)
             IN  /\ allocs' = allocs \cup
                       {[id |-> jobID, cores |-> UNION Range(chosen), count |-> count,
                         cpu |-> spec.cpu, milli |-> Sum(shape.cpus), list |-> list,
                         zone |-> "zone" \in spec.labels]}
                 /\ pods' = pods \cup
                       {[job |-> matches, id |-> jobID, node |-> list[i].node,
                         cpu |-> list[i].tasks * Sum(shape.cpus), bound |-> FALSE,
                         released |-> FALSE] :
                          i \in {i \in DOMAIN list : list[i].tasks > 0}}
        /\ jobID' = jobID + 1
        /\ matches' = matches + 1
        /\ UNCHANGED <<apiVars, sidecar, buildVars, cancels, changes, restarts>>

\* Fluxion's allocations without that of a job.
WithoutMutant(id) == {a \in allocs : a.id < id}
Without(id) == {a \in allocs : a.id # id}

\* A cancel request, which finds an allocation or fails.
Cancel(id) ==
    /\ sidecar = "serving"
    /\ id \in cancels
    /\ cancels' = cancels \ {id}
    /\ allocs' = Without(id)
    /\ UNCHANGED <<apiVars, pods, sidecar, buildVars, jobID, matches, changes,
                   restarts>>

-----------------------------------------------------------------------------
(* The cluster.                                                            *)

PodsOf(job) == {p \in pods : p.job = job}

\* The scheduler binds the pods of a job.
BindPods(job) ==
    /\ \E p \in PodsOf(job) : ~p.bound
    /\ pods' = {[p EXCEPT !.bound = @ \/ p.job = job] : p \in pods}
    /\ UNCHANGED <<apiVars, sidecar, buildVars, fluxionVars, cancels, matches,
                   changes, restarts>>

\* The allocation of a job is to be cancelled while its pods are there.  At the
\* deadline their Job is deleted in the background and they run on until the
\* cluster gets to them; and a handler that cannot read them finds none left.
ReleasePods(job) ==
    /\ \E p \in PodsOf(job) : ~p.released
    /\ changes < MaxChanges
    /\ changes' = changes + 1
    /\ pods' = {[p EXCEPT !.released = @ \/ p.job = job] : p \in pods}
    /\ cancels' = cancels \cup {p.id : p \in PodsOf(job)}
    /\ UNCHANGED <<apiVars, sidecar, buildVars, fluxionVars, matches, restarts>>

\* The pods of a job finish, and its allocation is to be cancelled.
PodsFinish(job) ==
    /\ \E p \in PodsOf(job) : p.bound
    /\ pods' = pods \ PodsOf(job)
    /\ cancels' = cancels \cup {p.id : p \in PodsOf(job)}
    /\ UNCHANGED <<apiVars, sidecar, buildVars, fluxionVars, matches, changes,
                   restarts>>

\* Pods of other schedulers come and go.
OthersChange(k, load) ==
    /\ changes < MaxChanges
    /\ changes' = changes + 1
    /\ load # others[k]
    /\ others' = [others EXCEPT ![k] = load]
    /\ UNCHANGED <<cluster, pods, sidecar, buildVars, fluxionVars, cancels,
                   matches, restarts>>

Next ==
    \/ InitFluxion \/ BuildNode \/ InitContext \/ SidecarRestarts
    \/ \E shape \in PodShapes, count \in 1 .. MaxCount : Match(shape, count)
    \/ \E id \in cancels : Cancel(id)
    \/ \E p \in pods : BindPods(p.job) \/ ReleasePods(p.job) \/ PodsFinish(p.job)
    \/ \E k \in DOMAIN cluster, load \in Loads : OthersChange(k, load)

Spec == Init /\ [][Next]_vars

-----------------------------------------------------------------------------
TypeOK ==
    /\ cluster \in Clusters
    /\ others \in [DOMAIN cluster -> Loads]
    /\ \A p \in pods : p.cpu \in Nat /\ {p.bound, p.released} \subseteq BOOLEAN
    /\ sidecar \in {"down", "building", "serving", "uninitialised"}
    /\ next \in 1 .. Len(cluster) + 1
    /\ graph.elements = Len(graph.nodes)
    /\ DOMAIN seen \subseteq DOMAIN cluster
    /\ \A k \in DOMAIN seen : seen[k] \in Resources
    /\ \A a \in allocs : a.cores \subseteq ToSet(graph.nodes)
    /\ jobID \in 1 .. MaxMatches + 1

Parents(v) == {u \in ToSet(graph.nodes) : <<v.id, u.id, "in">> \in graph.edges}

\* The graph Fluxion loads is one tree: ids are positions, the cluster is in no
\* other vertex, and every further one is in exactly one, which was added before
\* it and contains it by an edge of its own.
GraphIsATree ==
    Complete =>
        /\ \A i \in DOMAIN graph.nodes : graph.nodes[i].id = i - 1
        /\ Parents(graph.nodes[1]) = {}
        /\ \A i \in 2 .. Len(graph.nodes) :
              LET v == graph.nodes[i]
              IN  \E u \in ToSet(graph.nodes) :
                     /\ Parents(v) = {u}
                     /\ u.id < v.id
                     /\ <<u.id, v.id, "contains">> \in graph.edges

\* The path of a vertex is the path of the one it is in and its own name, and no
\* two vertices have the same one, where no name runs into the index after it.
PathsFollowTheTree ==
    Complete =>
        /\ graph.nodes[1].path = <<graph.nodes[1].name>>
        /\ \A v \in ToSet(graph.nodes) : \A u \in Parents(v) :
              v.path = Append(u.path, v.name)
        /\ Cardinality({v.path : v \in ToSet(graph.nodes)}) = Len(graph.nodes)

Below(v, type) ==
    Cardinality({u \in ToSet(graph.nodes) : u.type = type /\ Parents(u) = {v}})

WholeUnits(total, used, unit) == Max({n \in 0 .. total : n * unit + used <= total} \cup {0})

\* It has each node the API server listed that pods may be scheduled to, once,
\* below its zone, with as many cores and GiB as are whole and not requested
\* and with all its GPUs.
GraphCoversCluster ==
    Complete =>
        /\ DOMAIN seen = {k \in DOMAIN cluster :
                            /\ {controlPlaneLabel, SkipLabel} \cap cluster[k].labels = {}
                            /\ ~cluster[k].unschedulable}
        /\ Cardinality(Compute) = Cardinality(DOMAIN seen)
        /\ \A k \in DOMAIN seen : \E v \in Compute, z \in ToSet(graph.nodes) :
              /\ v.basename = cluster[k].name
              /\ Parents(v) = {z} /\ z.type = "subnet" /\ z.basename = cluster[k].zone
              /\ Below(v, "core") = WholeUnits(cluster[k].cpu, seen[k].cpu, 1000)
              /\ Below(v, "memory") = WholeUnits(cluster[k].mem, seen[k].mem, 1024)
              /\ Below(v, "gpu") = cluster[k].gpu

TasksOn(a, name) ==
    Sum([i \in DOMAIN a.list |-> IF a.list[i].node = name THEN a.list[i].tasks ELSE 0])

\* The pods of the live allocations fit beside what was found on their nodes:
\* rounding the requests up per container, the node down to whole cores and the
\* cores per node down to tasks never promises more cpu than there is.
TasksFit ==
    \A k \in DOMAIN seen :
        LET name  == cluster[k].name
            tasks == Sum([a \in allocs |-> TasksOn(a, name) * a.milli])
        IN  tasks > 0 => seen[k].cpu + tasks <= cluster[k].cpu

\* As long as the sidecar runs on, the pods of jobs whose release nobody asked
\* for fit on their node beside what others request, unless other schedulers put
\* more on it after it was listed: in whatever order jobs are matched, bound,
\* released, finished and cancelled, the cancel of a job gives away no cores
\* under the pods of another.  Under its own it may, if it is asked for at the
\* deadline or after an error: those pods do not count here.
NodesNotOvercommitted ==
    \A k \in DOMAIN seen :
        LET kept == {p \in Bound(k) : ~p.released}
        IN  restarts = 0 /\ others[k].cpu <= seen[k].cpu /\ kept # {}
               => others[k].cpu + Sum([p \in kept |-> p.cpu]) <= cluster[k].cpu

Tasks(a) == Sum([i \in DOMAIN a.list |-> a.list[i].tasks])

\* An answer never has more tasks than the job has pods, so that the event loop
\* does not run past the names of the group; it has as many if the cores of no
\* pod are on two nodes.
TasksWithinCount ==
    \A a \in allocs :
        /\ Tasks(a) <= a.count
        /\ a.cpu = 1 \/ Cardinality(DOMAIN a.list) = 1 => Tasks(a) = a.count

\* What CpuLedger sees of what the sidecar serves and of its allocations.
Served == IF sidecar = "serving" THEN DOMAIN seen ELSE {}
Room == [k \in Served |-> Max({0, cluster[k].cpu - seen[k].cpu})]
Asked(count, cpu, milli, zone) ==
    [count |-> count, milli |-> milli, complete |-> cpu = 1 \/ zone, together |-> zone]
Granted(a) == [id |-> a.id, order |-> Asked(a.count, a.cpu, a.milli, a.zone),
               tasks |-> [k \in Served |-> TasksOn(a, cluster[k].name)]]

Ledger == INSTANCE CpuLedger WITH
    Nodes  <- UNION {DOMAIN c : c \in Clusters},
    Orders <- {LET spec == PreparePodJobSpec(shape)
               IN  Asked(count, spec.cpu, Sum(shape.cpus), CreateJobSpec(spec, count).zone) :
                  shape \in PodShapes, count \in 1 .. MaxCount},
    room   <- Room,
    grants <- {Granted(a) : a \in allocs},
    nextID <- jobID

\* The sidecar keeps the ledger: whatever cores Fluxion takes and however the
\* answer is rounded and read, each step of it gives, takes back or forgets what
\* the ledger says, and its flux ids are the ledger's numbers.
LedgerSpec == Ledger!Spec
=============================================================================
