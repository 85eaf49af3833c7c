----------------------------- MODULE NodeSearch -----------------------------
(***************************************************************************)
(* How a scheduling cycle finds a node for a pod: schedulePod and what it  *)
(* calls.  Goroutines filter the nodes in parallel.  They share a counter  *)
(* of feasible nodes, a list with one slot per node wanted, and a context  *)
(* that one of them cancels when enough nodes are found.  The search then  *)
(* goes on with the extenders and the scores, in one goroutine again but   *)
(* for the extenders' scores.                                              *)
(*                                                                         *)
(*   pc                  the step of schedulePod; "done" between cycles    *)
(*   nextStartNodeIndex  where the next search starts, kept across cycles  *)
(*   fwk, allNodes       the pod's profile and the size of the snapshot,   *)
(*                       whose nodes are 0 .. allNodes - 1                 *)
(*   preRes              the nodes the PreFilter plugins leave             *)
(*   nominee             pod.Status.NominatedNodeName while it is tried    *)
(*   nodes               the list findNodesThatPassFilters searches        *)
(*   verdict             what the filters said of the nodes they have seen *)
(*   feasibleNodes, feasibleNodesLen, result, cancelled, errored           *)
(*                       what the goroutines of one search share           *)
(*   nextChunk, worker   the goroutines of ParallelizeUntil                *)
(*   feasible, statuses  the nodes left, and those with a status           *)
(*   ext                 the extender whose turn it is                     *)
(*   scores, scoring     scores so far; extenders still scoring            *)
(*   outcome             what schedulePod returned                         *)
(***************************************************************************)
EXTENDS Integers, Sequences, FiniteSets, FiniteSetsExt, Functions

CONSTANTS
    Workers,                    \* the goroutines of the Parallelizer
    MaxNodes,                   \* bound on the nodes of a snapshot
    SnapshotSizes,              \* how many nodes there may be in a cycle
    PreFilterSets,              \* sets of nodes PreFilter plugins may leave
    Nominees,                   \* nodes a pod may be nominated for
    MaxScore,                   \* bound on a score
    Profiles,                   \* [filter, score : BOOLEAN, percentage : Int]
    Extenders,                  \* a sequence of [interested, ignorable, filter,
                                \*   prioritizer : BOOLEAN, weight : Nat]
    MinFeasibleNodesToFind,     \* 100 in the code
    MinFeasibleNodesPercentageToFind    \* 5 in the code

\* A profile's percentage is its own or, where it has none, the scheduler's.
\* Profiles with neither filters nor scores are left out: such a search
\* takes a remainder by zero when PreFilter plugins leave no node.
ASSUME NodeSearchAssumption ==
    /\ IsFiniteSet(Workers) /\ Workers # {}
    /\ MaxNodes \in Nat \ {0}
    /\ SnapshotSizes \subseteq 0 .. MaxNodes
    /\ Nominees \subseteq 0 .. MaxNodes - 1
    /\ \A S \in PreFilterSets : S \subseteq 0 .. MaxNodes - 1
    /\ MaxScore \in Nat
    /\ Extenders \in Seq([interested : BOOLEAN, ignorable : BOOLEAN,
                         filter : BOOLEAN, prioritizer : BOOLEAN, weight : Nat])
    /\ MinFeasibleNodesToFind \in Nat \ {0}
    /\ MinFeasibleNodesPercentageToFind \in 0 .. 100
    /\ \A p \in Profiles :
          /\ p.filter \in BOOLEAN /\ p.score \in BOOLEAN
          /\ p.filter \/ p.score
          /\ p.percentage \in 0 .. 100

VARIABLES pc, nextStartNodeIndex, fwk, allNodes, preRes, nominee, nodes,
          verdict, feasibleNodes, feasibleNodesLen, result, cancelled, errored,
          nextChunk, worker, feasible, statuses, ext, scores, scoring, outcome

podVars    == <<fwk, allNodes, preRes>>
sharedVars == <<feasibleNodes, feasibleNodesLen, result, cancelled, errored,
                nextChunk, worker>>
searchVars == <<nodes, verdict, sharedVars>>
scoreVars  == <<scores, scoring>>
vars == <<pc, nextStartNodeIndex, podVars, nominee, searchVars, feasible,
          statuses, ext, scoreVars, outcome>>

Nodes == 0 .. MaxNodes - 1
None  == -1
NoRes == [all |-> TRUE, names |-> {}]
Idle  == [pc |-> "done", piece |-> 0, end |-> 0, length |-> 0]
Returned(k) == [kind |-> k, host |-> None]

Searching == pc = "search"
Joined    == Searching /\ \A w \in Workers : worker[w].pc = "done"

-----------------------------------------------------------------------------
(* How many nodes are wanted, and how they are dealt out.                  *)

hasScoring ==
    fwk.score \/ \E e \in Range(Extenders) : e.prioritizer

hasExtenderFilters == \E e \in Range(Extenders) : e.filter

numFeasibleNodesToFind(percentage, numAllNodes) ==
    LET share == IF percentage # 0
                 THEN percentage
                 ELSE Max({50 - (numAllNodes \div 125),
                           MinFeasibleNodesPercentageToFind})
    IN  IF numAllNodes < MinFeasibleNodesToFind
        THEN numAllNodes
        ELSE Max({(numAllNodes * share) \div 100, MinFeasibleNodesToFind})

NodesToFind(n) ==
    IF ~hasExtenderFilters /\ ~hasScoring
    THEN 1
    ELSE numFeasibleNodesToFind(fwk.percentage, n)

numNodesToFind == NodesToFind(Len(nodes))

\* The library's chunkSizeFor: at most the root of n, at least 1, and no more
\* than gives every goroutine a chunk.
chunkSizeFor(n) ==
    LET root == Max({s \in 0 .. n : s * s <= n})
        even == (n \div Cardinality(Workers)) + 1
    IN  Max({1, Min({root, even})})

ChunkSize == chunkSizeFor(Len(nodes))

\* The node that is the i-th to be checked, counting from 0.
NodeAtMutant(list, i) == list[i + 1]
NodeAt(list, i) == list[((nextStartNodeIndex + i) % Len(list)) + 1]

-----------------------------------------------------------------------------
Init ==
    /\ pc = "done"
    /\ nextStartNodeIndex = 0
    /\ fwk \in Profiles
    /\ allNodes = 0
    /\ preRes = NoRes
    /\ nominee = None
    /\ nodes = <<>>
    /\ verdict = <<>>
    /\ feasibleNodes = <<>>
    /\ feasibleNodesLen = 0
    /\ result = {}
    /\ cancelled = FALSE
    /\ errored = FALSE
    /\ nextChunk = 0
    /\ worker = [w \in Workers |-> Idle]
    /\ feasible = <<>>
    /\ statuses = {}
    /\ ext = 1
    /\ scores = <<>>
    /\ scoring = {}
    /\ outcome = Returned("none")

Return(k, h) ==
    /\ pc' = "done"
    /\ outcome' = [kind |-> k, host |-> h]

-----------------------------------------------------------------------------
(* schedulePod up to the search.                                           *)

\* A new cycle.  Everything but nextStartNodeIndex is local to the cycle.
SchedulePod(p, n) ==
    /\ pc = "done"
    /\ fwk' = p
    /\ allNodes' = n
    /\ preRes' = NoRes
    /\ nominee' = None
    /\ nodes' = <<>>
    /\ verdict' = <<>>
    /\ feasibleNodes' = <<>>
    /\ feasibleNodesLen' = 0
    /\ result' = {}
    /\ cancelled' = FALSE
    /\ errored' = FALSE
    /\ nextChunk' = 0
    /\ worker' = [w \in Workers |-> Idle]
    /\ feasible' = <<>>
    /\ statuses' = {}
    /\ ext' = 1
    /\ scores' = <<>>
    /\ scoring' = {}
    /\ \/ n > 0 /\ pc' = "prefilter" /\ outcome' = Returned("none")
       \/ n = 0 /\ Return("error", None)
    /\ UNCHANGED nextStartNodeIndex

\* The PreFilter plugins reject the pod for all nodes, or fail.
PreFilterFails ==
    /\ pc = "prefilter"
    /\ \/ /\ pc' = "pick"
          /\ statuses' = 0 .. allNodes - 1
          /\ UNCHANGED outcome
       \/ /\ Return("error", None)
          /\ UNCHANGED statuses
    /\ UNCHANGED <<nextStartNodeIndex, podVars, nominee, searchVars, feasible,
                   ext, scoreVars>>

\* They leave all nodes or those of a set, in which a node may not exist.
PreFilter(res, nnn) ==
    /\ pc = "prefilter"
    /\ preRes' = res
    /\ nominee' = nnn
    /\ pc' = IF nnn = None THEN "find" ELSE "nominated"
    /\ UNCHANGED <<nextStartNodeIndex, fwk, allNodes, searchVars, feasible,
                   statuses, ext, scoreVars, outcome>>

-----------------------------------------------------------------------------
(* findNodesThatPassFilters.                                               *)

NextStartMutant(list, sts) ==
    nextStartNodeIndex + Len(list) + Cardinality(sts)
NextStart(list, sts) ==
    (nextStartNodeIndex + Len(list) + Cardinality(sts)) % allNodes

\* What its callers do with the nodes and statuses it leaves.  Only the search
\* of all nodes moves nextStartNodeIndex.
FiltersReturn(trying, list, sts) ==
    /\ feasible' = list
    /\ statuses' = sts
    /\ nextStartNodeIndex' =
          IF trying # None THEN nextStartNodeIndex ELSE NextStart(list, sts)

findNodesThatPassFilters(trying, list) ==
    LET wanted == NodesToFind(Len(list))
    IN  /\ nodes' = list
        /\ nominee' = trying
        /\ ext' = 1
        /\ result' = {}
        /\ cancelled' = FALSE
        /\ errored' = FALSE
        /\ nextChunk' = 0
        /\ IF fwk.filter
           THEN /\ feasibleNodes' = [k \in 1 .. wanted |-> None]
                /\ feasibleNodesLen' = 0
                /\ worker' = [w \in Workers |-> [Idle EXCEPT !.pc = "ready"]]
                /\ pc' = "search"
                /\ feasible' = <<>>
                /\ UNCHANGED <<nextStartNodeIndex, statuses, outcome>>
           ELSE /\ feasibleNodes' = [k \in 1 .. wanted |-> NodeAt(list, k - 1)]
                /\ feasibleNodesLen' = wanted
                /\ FiltersReturn(trying, feasibleNodes', statuses)
                /\ pc' = "extend"
                /\ UNCHANGED <<worker, outcome>>
        /\ UNCHANGED <<podVars, verdict, scoreVars>>

\* The nominated node alone is tried first, unless it is gone.
evaluateNominatedNode ==
    /\ pc = "nominated"
    /\ \/ /\ nominee < allNodes
          /\ findNodesThatPassFilters(nominee, <<nominee>>)
       \/ /\ nominee >= allNodes
          /\ pc' = "find"
          /\ UNCHANGED <<nextStartNodeIndex, podVars, nominee, searchVars,
                         feasible, statuses, ext, scoreVars, outcome>>

\* All nodes, in the order of the snapshot, or the existing ones of a set, in
\* the order in which Go walks through a map.
Orders(S) == {s \in [1 .. Cardinality(S) -> S] : Range(s) = S}

findNodesThatFitPod ==
    /\ pc = "find"
    /\ \E list \in IF preRes.all
                   THEN {[k \in 1 .. allNodes |-> k - 1]}
                   ELSE Orders({n \in preRes.names : n < allNodes}) :
          findNodesThatPassFilters(None, list)

-----------------------------------------------------------------------------
(* The goroutines of ParallelizeUntil running checkNode.                   *)

Moves(w, to) == worker' = [worker EXCEPT ![w] = to]

\* On to the next piece of the chunk or to the next chunk, unless there is
\* none or the context was cancelled.
NextPiece(w) ==
    LET me    == worker[w]
        start == nextChunk * ChunkSize
        go(p, e) == IF cancelled
                    THEN [me EXCEPT !.pc = "done"]
                    ELSE [me EXCEPT !.pc = "check", !.piece = p, !.end = e]
    IN  /\ Searching
        /\ me.pc = "ready"
        /\ \/ /\ me.piece < me.end
              /\ Moves(w, go(me.piece, me.end))
              /\ UNCHANGED nextChunk
           \/ /\ me.piece >= me.end
              /\ start < Len(nodes)
              /\ nextChunk' = nextChunk + 1
              /\ Moves(w, go(start, Min({start + ChunkSize, Len(nodes)})))
           \/ /\ me.piece >= me.end
              /\ start >= Len(nodes)
              /\ Moves(w, [me EXCEPT !.pc = "done"])
              /\ UNCHANGED nextChunk
        /\ UNCHANGED <<pc, nextStartNodeIndex, podVars, nominee, nodes, verdict,
                       feasibleNodes, feasibleNodesLen, result, cancelled,
                       errored, feasible, statuses, ext, scoreVars, outcome>>

Opinions(n) ==
    IF n \in DOMAIN verdict THEN {verdict[n]} ELSE {"fit", "unfit", "error"}

\* The filters give their verdict on a node, the same whenever they are asked
\* in one cycle.  A node that fits is counted in the same step.
CheckNode(w) ==
    LET me == worker[w]
        n  == NodeAt(nodes, me.piece)
    IN  /\ me.pc = "check"
        /\ \E v \in Opinions(n) :
             /\ verdict' = [m \in DOMAIN verdict \cup {n} |->
                              IF m = n THEN v ELSE verdict[m]]
             /\ errored' = (errored \/ v = "error")
             /\ cancelled' = (cancelled \/ v = "error")
             /\ result' = IF v = "unfit" THEN result \cup {n} ELSE result
             /\ feasibleNodesLen' = feasibleNodesLen + (IF v = "fit" THEN 1 ELSE 0)
             /\ Moves(w, [me EXCEPT !.pc = IF v = "fit" THEN "counted" ELSE "ready",
                                    !.piece = IF v = "fit" THEN @ ELSE @ + 1,
                                    !.length = feasibleNodesLen'])
        /\ UNCHANGED <<pc, nextStartNodeIndex, podVars, nominee, nodes,
                       feasibleNodes, nextChunk, feasible, statuses, ext,
                       scoreVars, outcome>>

KeepNodeMutant(w) ==
    LET me == worker[w]
    IN  /\ me.pc = "counted"
        /\ \/ /\ me.length >= numNodesToFind
              /\ cancelled' = TRUE
              /\ Moves(w, [me EXCEPT !.pc = "over"])
              /\ UNCHANGED feasibleNodes
           \/ /\ me.length < numNodesToFind
              /\ feasibleNodes' =
                    [feasibleNodes EXCEPT ![me.length] = NodeAt(nodes, me.piece)]
              /\ Moves(w, [me EXCEPT !.pc = "ready", !.piece = @ + 1])
              /\ UNCHANGED cancelled
        /\ UNCHANGED <<pc, nextStartNodeIndex, podVars, nominee, nodes, verdict,
                       feasibleNodesLen, result, errored, nextChunk, feasible,
                       statuses, ext, scoreVars, outcome>>

\* The node gets the slot of its number, or there are enough of them.
KeepNode(w) ==
    LET me == worker[w]
    IN  /\ me.pc = "counted"
        /\ \/ /\ me.length > numNodesToFind
              /\ cancelled' = TRUE
              /\ Moves(w, [me EXCEPT !.pc = "over"])
              /\ UNCHANGED feasibleNodes
           \/ /\ me.length <= numNodesToFind
              /\ feasibleNodes' =
                    [feasibleNodes EXCEPT ![me.length] = NodeAt(nodes, me.piece)]
              /\ Moves(w, [me EXCEPT !.pc = "ready", !.piece = @ + 1])
              /\ UNCHANGED cancelled
        /\ UNCHANGED <<pc, nextStartNodeIndex, podVars, nominee, nodes, verdict,
                       feasibleNodesLen, result, errored, nextChunk, feasible,
                       statuses, ext, scoreVars, outcome>>

UncountNodeMutant(w) ==
    LET me == worker[w]
    IN  /\ me.pc = "over"
        /\ Moves(w, [me EXCEPT !.pc = "ready", !.piece = @ + 1])
        /\ UNCHANGED <<pc, nextStartNodeIndex, podVars, nominee, nodes, verdict,
                       feasibleNodes, feasibleNodesLen, result, cancelled,
                       errored, nextChunk, feasible, statuses, ext, scoreVars,
                       outcome>>

\* One too many: the counter goes back.
UncountNode(w) ==
    LET me == worker[w]
    IN  /\ me.pc = "over"
        /\ feasibleNodesLen' = feasibleNodesLen - 1
        /\ Moves(w, [me EXCEPT !.pc = "ready", !.piece = @ + 1])
        /\ UNCHANGED <<pc, nextStartNodeIndex, podVars, nominee, nodes, verdict,
                       feasibleNodes, result, cancelled, errored, nextChunk,
                       feasible, statuses, ext, scoreVars, outcome>>

\* All goroutines have returned.  An error ends the cycle, unless only the
\* nominated node was tried.
JoinSearch ==
    /\ Joined
    /\ FiltersReturn(nominee, SubSeq(feasibleNodes, 1, feasibleNodesLen),
                     statuses \cup result)
    /\ \/ ~errored /\ pc' = "extend" /\ UNCHANGED outcome
       \/ errored /\ nominee # None /\ pc' = "find" /\ UNCHANGED outcome
       \/ errored /\ nominee = None /\ Return("error", None)
    /\ UNCHANGED <<podVars, nominee, searchVars, ext, scoreVars>>

-----------------------------------------------------------------------------
(* findNodesThatPassExtenders.                                             *)

ExtendersEnd == feasible = <<>> \/ ext > Len(Extenders)

ExtendersReturnMutant ==
    /\ pc = "extend"
    /\ ExtendersEnd
    /\ pc' = IF nominee # None /\ feasible = <<>> THEN "nominated" ELSE "pick"
    /\ UNCHANGED <<nextStartNodeIndex, podVars, nominee, searchVars, feasible,
                   statuses, ext, scoreVars, outcome>>

\* Back in the caller.
ExtendersReturn ==
    /\ pc = "extend"
    /\ ExtendersEnd
    /\ pc' = IF nominee # None /\ feasible = <<>> THEN "find" ELSE "pick"
    /\ UNCHANGED <<nextStartNodeIndex, podVars, nominee, searchVars, feasible,
                   statuses, ext, scoreVars, outcome>>

\* The nodes it turned down, with their statuses.
RefusedMutant(kept) == {}
Refused(kept) == Range(feasible) \ kept

\* An extender keeps some of the nodes, in an order of its own, and gives the
\* others a status.
ExtenderFilters(kept) ==
    /\ pc = "extend"
    /\ ~ExtendersEnd
    /\ kept \subseteq Range(feasible)
    /\ IF Extenders[ext].interested /\ Extenders[ext].filter
       THEN feasible' \in Orders(kept)
       ELSE kept = Range(feasible) /\ UNCHANGED feasible
    /\ statuses' = statuses \cup Refused(kept)
    /\ ext' = ext + 1
    /\ UNCHANGED <<pc, nextStartNodeIndex, podVars, nominee, searchVars,
                   scoreVars, outcome>>

\* The call fails: an ignorable extender is passed over.
ExtenderFails ==
    /\ pc = "extend"
    /\ ~ExtendersEnd
    /\ LET e == Extenders[ext]
       IN  /\ e.interested /\ e.filter
           /\ \/ /\ e.ignorable
                 /\ ext' = ext + 1
                 /\ UNCHANGED <<pc, outcome>>
              \/ /\ ~e.ignorable
                 /\ IF nominee # None
                    THEN pc' = "find" /\ UNCHANGED outcome
                    ELSE Return("error", None)
                 /\ UNCHANGED ext
    /\ UNCHANGED <<nextStartNodeIndex, podVars, nominee, searchVars, feasible,
                   statuses, scoreVars>>

-----------------------------------------------------------------------------
(* The rest of schedulePod: prioritizeNodes and selectHost.                *)

\* None left, one, or several that need scores.
PickNode ==
    /\ pc = "pick"
    /\ \/ /\ Len(feasible) = 0
          /\ Return("fiterror", None)
       \/ /\ Len(feasible) = 1
          /\ Return("host", feasible[1])
       \/ /\ Len(feasible) > 1
          /\ pc' = "score"
          /\ UNCHANGED outcome
    /\ UNCHANGED <<nextStartNodeIndex, podVars, nominee, searchVars, feasible,
                   statuses, ext, scoreVars>>

PluginScores ==
    IF fwk.score
    THEN [Range(feasible) -> 0 .. MaxScore]
    ELSE {[n \in Range(feasible) |-> IF Extenders = <<>> THEN 1 ELSE 0]}

\* The PreScore and Score plugins give every node a score, or fail.
prioritizeNodes ==
    /\ pc = "score"
    /\ \/ /\ scores' \in PluginScores
          /\ scoring' = {i \in DOMAIN Extenders : Extenders[i].interested}
          /\ pc' = "prioritize"
          /\ UNCHANGED outcome
       \/ /\ fwk.score \/ Extenders # <<>>
          /\ Return("error", None)
          /\ UNCHANGED scoreVars
    /\ UNCHANGED <<nextStartNodeIndex, podVars, nominee, searchVars, feasible,
                   statuses, ext>>

\* The goroutine of extender i adds its scores, under a mutex; an error, or a
\* node it does not list, adds nothing.
ExtenderScores(i, given) ==
    /\ pc = "prioritize"
    /\ i \in scoring
    /\ ~Extenders[i].prioritizer => given = {}
    /\ given \subseteq DOMAIN scores
    /\ scoring' = scoring \ {i}
    /\ scores' = [n \in DOMAIN scores |->
                    scores[n] + (IF n \in given THEN Extenders[i].weight ELSE 0)]
    /\ UNCHANGED <<pc, nextStartNodeIndex, podVars, nominee, searchVars,
                   feasible, statuses, ext, outcome>>

\* Any of the nodes with the highest score.
BestMutant ==
    {n \in DOMAIN scores : \A m \in DOMAIN scores : scores[n] <= scores[m]}
Best == {n \in DOMAIN scores : \A m \in DOMAIN scores : scores[m] <= scores[n]}

selectHost ==
    /\ pc = "prioritize"
    /\ scoring = {}
    /\ \E h \in Best : Return("host", h)
    /\ UNCHANGED <<nextStartNodeIndex, podVars, nominee, searchVars, feasible,
                   statuses, ext, scoreVars>>

-----------------------------------------------------------------------------
WorkerStep(w) == NextPiece(w) \/ CheckNode(w) \/ KeepNode(w) \/ UncountNode(w)

SearchStep ==
    \/ PreFilterFails
    \/ \E nnn \in Nominees \cup {None} :
          \/ PreFilter(NoRes, nnn)
          \/ \E names \in PreFilterSets :
                PreFilter([all |-> FALSE, names |-> names], nnn)
    \/ evaluateNominatedNode
    \/ findNodesThatFitPod
    \/ JoinSearch
    \/ ExtendersReturn
    \/ \E kept \in SUBSET Nodes : ExtenderFilters(kept)
    \/ ExtenderFails
    \/ PickNode
    \/ prioritizeNodes
    \/ \E i \in DOMAIN Extenders, given \in SUBSET Nodes : ExtenderScores(i, given)
    \/ selectHost

Next ==
    \/ \E p \in Profiles, n \in SnapshotSizes : SchedulePod(p, n)
    \/ SearchStep
    \/ \E w \in Workers : WorkerStep(w)

Spec == Init /\ [][Next]_vars

\* Filters, extenders and plugins answer, and every goroutine gets to run.
FairSpec ==
    /\ Spec
    /\ WF_vars(SearchStep)
    /\ \A w \in Workers : WF_vars(WorkerStep(w))

-----------------------------------------------------------------------------
TypeOK ==
    /\ pc \in {"done", "prefilter", "nominated", "find", "search", "extend",
               "pick", "score", "prioritize"}
    /\ nextStartNodeIndex \in Nodes
    /\ fwk \in Profiles
    /\ allNodes \in 0 .. MaxNodes
    /\ preRes \in [all : BOOLEAN, names : SUBSET Nodes]
    /\ nominee \in Nodes \cup {None}
    /\ nodes \in Seq(Nodes)
    /\ DOMAIN verdict \subseteq Nodes
    /\ \A n \in DOMAIN verdict : verdict[n] \in {"fit", "unfit", "error"}
    /\ feasibleNodes \in Seq(Nodes \cup {None})
    /\ feasibleNodesLen \in Nat
    /\ result \subseteq Nodes
    /\ cancelled \in BOOLEAN
    /\ errored \in BOOLEAN
    /\ nextChunk \in 0 .. MaxNodes
    /\ worker \in [Workers -> [pc : {"ready", "check", "counted", "over", "done"},
                               piece : 0 .. MaxNodes, end : 0 .. MaxNodes,
                               length : Nat]]
    /\ feasible \in Seq(Nodes)
    /\ statuses \subseteq Nodes
    /\ ext \in 1 .. Len(Extenders) + 1
    /\ DOMAIN scores \subseteq Nodes
    /\ \A n \in DOMAIN scores : scores[n] \in Nat
    /\ scoring \subseteq DOMAIN Extenders
    /\ outcome \in [kind : {"none", "host", "fiterror", "error"},
                    host : Nodes \cup {None}]

-----------------------------------------------------------------------------
(* What the search promises.                                               *)

Found == SubSeq(feasibleNodes, 1, feasibleNodesLen)

\* findNodesThatPassFilters cuts feasibleNodes at feasibleNodesLen once the
\* goroutines have returned.  Whatever the order in which they counted, wrote
\* and uncounted, the slots before the cut hold different nodes that passed the
\* filters: none is left nil, none is lost behind the cut.
FeasibleSlotsFilled ==
    Joined =>
        /\ feasibleNodesLen \in 0 .. numNodesToFind
        /\ IsInjective(Found)
        /\ \A k \in DOMAIN Found :
              Found[k] \in DOMAIN verdict /\ verdict[Found[k]] = "fit"

\* The search stops early, through the cancelled context, only on an error or
\* with as many nodes as were wanted; otherwise it has looked at every node and
\* returns all that fit.
StopsEarlyOnlyWhenFull ==
    Joined /\ ~errored =>
        \/ feasibleNodesLen = numNodesToFind
        \/ /\ Range(nodes) \subseteq DOMAIN verdict
           /\ {n \in Range(nodes) : verdict[n] = "fit"} = Range(Found)

\* schedulePod returns a FitError only if each node it was to search has a
\* status in the diagnosis, which preemption and requeueing work from, or if
\* the extenders turned down as many nodes as a search looks for.
FitErrorIsExplained ==
    pc = "done" /\ outcome.kind = "fiterror" =>
        \/ Range(nodes) \subseteq statuses
        \/ hasExtenderFilters /\ feasibleNodesLen = numNodesToFind

\* The host schedulePod suggests is a node of this cycle's snapshot that passed
\* the filters, and no node that was still in the race had a higher score.
SuggestedHostFits ==
    pc = "done" /\ outcome.kind = "host" =>
        /\ outcome.host < allNodes
        /\ fwk.filter => verdict[outcome.host] = "fit"
        /\ outcome.host \in Range(feasible)
        /\ \A n \in DOMAIN scores : scores[n] <= scores[outcome.host]

\* The search of the next pod starts behind nodes that this search looked at:
\* nextStartNodeIndex never steps over a node that was not examined.  The
\* goroutines must take one node at a time for that: with larger chunks a
\* goroutine is stopped in the middle of a chunk while a later one is searched.
SkipsOnlyExaminedNodes ==
    [][ nextStartNodeIndex' # nextStartNodeIndex /\ preRes.all /\ fwk.filter
          /\ ChunkSize = 1
        => \A k \in 0 .. ((nextStartNodeIndex' - nextStartNodeIndex) % allNodes) - 1 :
              (nextStartNodeIndex + k) % allNodes \in DOMAIN verdict ]_vars

\* Every scheduling cycle comes to a result: no goroutine of the search is
\* left waiting, and none keeps the others from returning.
SchedulePodReturns == pc # "done" ~> pc = "done"
=============================================================================
