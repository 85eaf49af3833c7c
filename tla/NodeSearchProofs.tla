-------------------------- MODULE NodeSearchProofs --------------------------
(***************************************************************************)
(* What the search for a node promises, for every number of nodes and of   *)
(* goroutines and every interleaving of them.                              *)
(*                                                                         *)
(* The inductive invariant is NodeInv.  Its core is SearchOK, which says   *)
(* how the goroutines share a search:                                      *)
(*                                                                         *)
(*   PiecesOK    each piece of the list is with one goroutine at most, and *)
(*               none has pieces that were not dealt out                   *)
(*   CounterOK   the counter is above the nodes wanted by exactly as many  *)
(*               as there are goroutines that counted one too many         *)
(*   SlotsOK     the slots up to the counter are filled or claimed by one  *)
(*               goroutine that has counted and not yet written            *)
(*   KeptOK      a filled slot has a node that fits, of a piece that no    *)
(*               goroutine comes back to, so no node is kept twice         *)
(*   CancelOK    the context is cancelled on an error or when full, and a  *)
(*               goroutine returns only when it is, or out of pieces       *)
(*   ExaminedOK  until then each passed piece's node is kept or has a      *)
(*               status                                                    *)
(*                                                                         *)
(* A goroutine that is one too many holds the counter up until it has      *)
(* uncounted, which is why CounterOK counts those goroutines.  The rest    *)
(* follows the nodes from the join through the extenders to the scores:    *)
(* Explained says where each node of the list is.                          *)
(***************************************************************************)
EXTENDS NodeSearch, FiniteSetTheorems, TLAPS

-----------------------------------------------------------------------------
(* Arithmetic.                                                             *)

\* The greater and the smaller of two numbers.
LEMMA MaxMinOfTwo ==
  ASSUME NEW a \in Int, NEW b \in Int
  PROVE  /\ Max({a, b}) = IF a >= b THEN a ELSE b
         /\ Min({a, b}) = IF a <= b THEN a ELSE b
<1>1. \A x \in {a, b} : (\A y \in {a, b} : x >= y) <=> x = (IF a >= b THEN a ELSE b)
  OBVIOUS
<1>2. \A x \in {a, b} : (\A y \in {a, b} : x =< y) <=> x = (IF a <= b THEN a ELSE b)
  OBVIOUS
<1> QED BY <1>1, <1>2 DEF Max, Min

\* A set of naturals that are at most n has a greatest member.
LEMMA GreatestExists ==
  ASSUME NEW n \in Nat, NEW S \in SUBSET (0 .. n), S # {}
  PROVE  Max(S) \in S
<1> DEFINE T == {k \in Nat : n - k \in S}
<1>1. PICK s \in S : TRUE
  OBVIOUS
<1>2. n - s \in T
  BY <1>1
<1>3. PICK m \in T : \A k \in T : ~(k < m)
  <2>1. PICK m \in T : \A k \in T : <<k, m>> \notin OpToRel(<, Nat)
    BY <1>2, NatLessThanWellFounded, WFMin, Zenon
  <2> QED BY <2>1, Zenon DEF OpToRel
<1>4. n - m \in S /\ \A t \in S : n - m >= t
  <2>1. \A t \in S : n - t \in T
    OBVIOUS
  <2> QED BY <1>3, <2>1
<1> QED BY <1>4 DEF Max

\* ParallelizeUntil deals out at least one piece at a time.
LEMMA ChunkSizeType ==
  ASSUME NEW n \in Nat
  PROVE  chunkSizeFor(n) \in Nat \ {0}
<1> DEFINE S == {s \in 0 .. n : s * s <= n}
           root == Max(S)
           even == (n \div Cardinality(Workers)) + 1
<1>1. root \in Nat
  <2>1. 0 \in S
    OBVIOUS
  <2> HIDE DEF S
  <2>2. S \in SUBSET (0 .. n)
    BY DEF S
  <2>3. Max(S) \in S
    BY <2>1, <2>2, GreatestExists
  <2>4. \A x \in S : x \in Nat
    BY DEF S
  <2> QED BY <2>3, <2>4
<1>2. Cardinality(Workers) \in Nat \ {0}
  BY NodeSearchAssumption, FS_CardinalityType, FS_EmptySet
<1>3. even \in Int
  BY <1>2
<1> HIDE DEF root, even
<1>4. Min({root, even}) \in Int
  BY <1>1, <1>3, MaxMinOfTwo
<1>5. Max({1, Min({root, even})}) \in Nat \ {0}
  BY <1>4, MaxMinOfTwo
<1> QED BY <1>5 DEF chunkSizeFor, root, even, S

\* How many nodes a search of n nodes looks for.
LEMMA NodesToFindType ==
  ASSUME NEW n \in Nat, fwk \in Profiles
  PROVE  /\ NodesToFind(n) \in Nat
         /\ n > 0 => NodesToFind(n) > 0
         /\ ~fwk.filter => NodesToFind(n) <= n
<1>1. /\ fwk.percentage \in 0 .. 100
      /\ fwk.filter \/ fwk.score
      /\ MinFeasibleNodesToFind \in Nat \ {0}
      /\ MinFeasibleNodesPercentageToFind \in 0 .. 100
  BY NodeSearchAssumption
<1> DEFINE found == numFeasibleNodesToFind(fwk.percentage, n)
           dflt  == Max({50 - (n \div 125), MinFeasibleNodesPercentageToFind})
           share == IF fwk.percentage # 0 THEN fwk.percentage ELSE dflt
           part  == (n * share) \div 100
<1>2. dflt \in 0 .. 100
  <2> DEFINE a == 50 - (n \div 125)
             b == MinFeasibleNodesPercentageToFind
  <2>1. a \in Int /\ a <= 50 /\ b \in 0 .. 100
    BY <1>1
  <2> HIDE DEF a, b
  <2>2. b \in Int
    BY <2>1
  <2>3. Max({a, b}) = IF a >= b THEN a ELSE b
    BY <2>1, <2>2, MaxMinOfTwo
  <2>4. Max({a, b}) \in 0 .. 100
    BY <2>1, <2>3
  <2> QED BY <2>4 DEF a, b
<1>3. share \in 0 .. 100
  BY <1>1, <1>2
<1>4. part \in 0 .. n
  <2> HIDE DEF share
  <2>1. n * share <= n * 100 /\ n * share >= 0 /\ n * share \in Int
    BY <1>3
  <2> HIDE DEF part
  <2> DEFINE p == n * share
  <2> HIDE DEF p
  <2>2. p \in 0 .. n * 100
    BY <2>1 DEF p
  <2>3. p \div 100 \in 0 .. n
    BY <2>2
  <2> QED BY <2>3 DEF part, p
<1> HIDE DEF dflt, share, part
<1>5. found = IF n < MinFeasibleNodesToFind THEN n
              ELSE Max({part, MinFeasibleNodesToFind})
  BY DEF numFeasibleNodesToFind, part, share, dflt
<1>6. found \in 0 .. n /\ (n > 0 => found > 0)
  BY <1>1, <1>4, <1>5, MaxMinOfTwo
<1> QED BY <1>1, <1>6 DEF NodesToFind, hasScoring

\* Numbers less than L apart that have the same remainder are equal.
LEMMA RemaindersDiffer ==
  ASSUME NEW L \in Nat \ {0}, NEW s \in Nat,
         NEW i \in 0 .. L - 1, NEW j \in 0 .. L - 1,
         (s + i) % L = (s + j) % L
  PROVE  i = j
<1> DEFINE q == (s + i) \div L
           r == (s + j) \div L
           m == (s + i) % L
<1>1. q \in Int /\ r \in Int /\ m \in Int
  OBVIOUS
<1>2. s + i = L * q + m
  OBVIOUS
<1>3. s + j = L * r + m
  OBVIOUS
<1> HIDE DEF q, r, m
<1> DEFINE d == q - r
<1>4. d \in Int /\ i - j = L * d
  BY <1>1, <1>2, <1>3
<1> HIDE DEF d
<1>5. d = 0
  <2>1. d >= 1 => L * d >= L
    BY <1>4
  <2>2. d <= -1 => L * d <= -L
    BY <1>4
  <2> QED BY <1>4, <2>1, <2>2
<1> QED BY <1>4, <1>5

\* Every remainder is met on the way round.
LEMMA RemaindersAreMet ==
  ASSUME NEW L \in Nat \ {0}, NEW s \in Nat, NEW k \in 0 .. L - 1
  PROVE  \E i \in 0 .. L - 1 : (s + i) % L = k
<1> DEFINE q == s \div L
           r == s % L
<1>1. q \in Int /\ r \in 0 .. L - 1
  OBVIOUS
<1>2. s = L * q + r
  OBVIOUS
<1> HIDE DEF q, r
<1>3. CASE k >= r
  <2> DEFINE i == k - r
  <2>1. s + i = L * q + k
    BY <1>2, <1>1, <1>3
  <2>2. (L * q + k) % L = k
    BY <1>1
  <2>3. i \in 0 .. L - 1
    BY <1>1, <1>3
  <2> HIDE DEF i
  <2> QED BY <2>1, <2>2, <2>3
<1>4. CASE k < r
  <2> DEFINE i == k - r + L
  <2>1. s + i = L * (q + 1) + k
    BY <1>2, <1>1, <1>4
  <2>2. (L * (q + 1) + k) % L = k
    <3> DEFINE u == q + 1
    <3>1. u \in Int
      BY <1>1
    <3> HIDE DEF u
    <3>2. (L * u + k) % L = k
      BY <3>1
    <3> QED BY <3>2 DEF u
  <2>3. i \in 0 .. L - 1
    BY <1>1, <1>4
  <2> HIDE DEF i
  <2> QED BY <2>1, <2>2, <2>3
<1> QED BY <1>1, <1>3, <1>4

\* A search that starts anywhere in the list comes to every node of it once.
LEMMA NodeAtOnce ==
  ASSUME NEW S, NEW list \in Seq(S), nextStartNodeIndex \in Nat
  PROVE  /\ \A i \in 0 .. Len(list) - 1 :
               NodeAt(list, i) \in Range(list) /\ NodeAt(list, i) \in S
         /\ IsInjective(list) => \A i, j \in 0 .. Len(list) - 1 :
               NodeAt(list, i) = NodeAt(list, j) => i = j
         /\ \A n \in Range(list) : \E i \in 0 .. Len(list) - 1 : NodeAt(list, i) = n
<1> DEFINE L == Len(list)
           At(i) == (nextStartNodeIndex + i) % L
<1>1. L \in Nat /\ DOMAIN list = 1 .. L
  OBVIOUS
<1>2. \A i : NodeAt(list, i) = list[At(i) + 1]
  BY DEF NodeAt
<1>3. ASSUME NEW i \in 0 .. L - 1 PROVE At(i) \in 0 .. L - 1
  <2>1. L \in Nat \ {0} /\ nextStartNodeIndex + i \in Nat
    BY <1>1
  <2> HIDE DEF L
  <2> QED BY <2>1
<1>4. \A i \in 0 .. L - 1 : NodeAt(list, i) \in Range(list) /\ NodeAt(list, i) \in S
  <2> HIDE DEF At
  <2> QED BY <1>1, <1>2, <1>3 DEF Range
<1>5. ASSUME IsInjective(list), NEW i \in 0 .. L - 1, NEW j \in 0 .. L - 1,
             NodeAt(list, i) = NodeAt(list, j)
      PROVE  i = j
  <2>1. At(i) = At(j)
    <3>1. At(i) \in 0 .. L - 1 /\ At(j) \in 0 .. L - 1
      BY <1>3
    <3>2. list[At(i) + 1] = list[At(j) + 1]
      BY <1>2, <1>5
    <3> HIDE DEF At
    <3>3. At(i) + 1 = At(j) + 1
      BY <1>1, <1>5, <3>1, <3>2 DEF IsInjective
    <3> QED BY <3>1, <3>3
  <2>2. L \in Nat \ {0}
    BY <1>1
  <2> HIDE DEF L
  <2> QED BY <2>1, <2>2, RemaindersDiffer
<1>6. ASSUME NEW n \in Range(list) PROVE \E i \in 0 .. L - 1 : NodeAt(list, i) = n
  <2>1. PICK k \in 1 .. L : n = list[k]
    BY <1>1 DEF Range
  <2>2. L \in Nat \ {0} /\ k - 1 \in 0 .. L - 1
    BY <1>1
  <2> HIDE DEF L
  <2>3. PICK i \in 0 .. L - 1 : At(i) = k - 1
    BY <2>2, RemaindersAreMet
  <2>4. At(i) + 1 = k
    BY <2>3
  <2> HIDE DEF At
  <2> QED BY <1>2, <2>1, <2>4
<1> QED BY <1>4, <1>5, <1>6

-----------------------------------------------------------------------------
(* The shape of a cycle.                                                   *)

\* The list of a search: different nodes of the snapshot.
ListOK ==
    /\ IsInjective(nodes)
    /\ Len(nodes) <= MaxNodes
    /\ \A k \in DOMAIN nodes : nodes[k] < allNodes

\* Who runs when.
PhaseOK ==
    /\ pc # "done" => allNodes > 0
    /\ pc # "search" => \A w \in Workers : worker[w].pc = "done"
    /\ pc = "search" => Len(feasibleNodes) = numNodesToFind /\ fwk.filter
    /\ pc = "nominated" => nominee # None
    /\ pc \in {"prefilter", "nominated", "find", "search", "extend", "pick", "score"}
          => scores = <<>>
    /\ pc \in {"score", "prioritize"} => Len(feasible) > 1
    /\ pc = "prioritize" => DOMAIN scores = Range(feasible)

\* What a goroutine knows.
Goroutine ==
    [pc : {"ready", "check", "counted", "over", "done"},
     piece : 0 .. MaxNodes, end : 0 .. MaxNodes, length : Nat]

-----------------------------------------------------------------------------
(* The pieces of a search.                                                 *)

\* The pieces that were dealt out, and those goroutine w still has.
Dealt == nextChunk * ChunkSize
Has(w, i) == worker[w].piece <= i /\ i < worker[w].end
Passed(i) == i < Dealt /\ \A w \in Workers : ~Has(w, i)

PiecesOK ==
    /\ \A w \in Workers :
          /\ worker[w].piece <= worker[w].end
          /\ worker[w].end <= Dealt
          /\ worker[w].end <= Len(nodes)
          /\ worker[w].pc \in {"check", "counted", "over"} => Has(w, worker[w].piece)
    /\ \A w, v \in Workers : w # v => \A i \in Nat : ~(Has(w, i) /\ Has(v, i))

Current(w) == NodeAt(nodes, worker[w].piece)
Fits(n) == n \in DOMAIN verdict /\ verdict[n] = "fit"

\* The goroutine that was given slot k, and those that found too many nodes.
Claims(w, k) == worker[w].pc = "counted" /\ worker[w].length = k
Overs ==
    {w \in Workers : \/ worker[w].pc = "over"
                     \/ worker[w].pc = "counted" /\ worker[w].length > numNodesToFind}

CounterOK ==
    Cardinality(Overs) = IF feasibleNodesLen > numNodesToFind
                         THEN feasibleNodesLen - numNodesToFind ELSE 0

SlotsOK ==
    /\ \A k \in 1 .. numNodesToFind :
          /\ k <= feasibleNodesLen <=>
                \/ feasibleNodes[k] # None
                \/ \E w \in Workers : Claims(w, k)
          /\ \A w \in Workers : Claims(w, k) => feasibleNodes[k] = None
          /\ \A w, v \in Workers : Claims(w, k) /\ Claims(v, k) => w = v
    /\ \A w \in Workers : worker[w].pc = "counted" => worker[w].length >= 1

\* A filled slot has a node that fits and that no goroutine will look at again.
KeptOK ==
    /\ \A w \in Workers : worker[w].pc = "counted" => Fits(Current(w))
    /\ \A k \in 1 .. numNodesToFind : feasibleNodes[k] # None =>
          /\ Fits(feasibleNodes[k])
          /\ \E i \in 0 .. Len(nodes) - 1 :
                Passed(i) /\ feasibleNodes[k] = NodeAt(nodes, i)
    /\ \A k, l \in 1 .. numNodesToFind :
          feasibleNodes[k] # None /\ feasibleNodes[k] = feasibleNodes[l] => k = l

\* The context is cancelled for a reason.
CancelOK ==
    /\ errored => cancelled
    /\ cancelled => errored \/ feasibleNodesLen >= numNodesToFind
    /\ \A w \in Workers :
          /\ worker[w].pc = "over" => cancelled
          /\ worker[w].pc = "done" =>
                \/ cancelled
                \/ worker[w].piece = worker[w].end /\ Dealt >= Len(nodes)

\* Until then nothing is lost.
Accounted(n) ==
    /\ n \in DOMAIN verdict
    /\ verdict[n] = "fit" => \E k \in 1 .. numNodesToFind : feasibleNodes[k] = n
    /\ verdict[n] # "fit" => n \in result

ExaminedOK ==
    ~cancelled => \A i \in 0 .. Len(nodes) - 1 : Passed(i) => Accounted(NodeAt(nodes, i))

SearchOK == PiecesOK /\ CounterOK /\ SlotsOK /\ KeptOK /\ CancelOK /\ ExaminedOK
SearchInv == Searching => SearchOK

-----------------------------------------------------------------------------
(* After the search.                                                       *)

FeasibleOK ==
    \A k \in DOMAIN feasible :
        /\ feasible[k] < allNodes
        /\ fwk.filter => Fits(feasible[k])

Explained ==
    \/ Range(nodes) \subseteq statuses \cup Range(feasible)
    \/ feasibleNodesLen = numNodesToFind /\ (feasible # <<>> \/ hasExtenderFilters)

ExplainedOK == pc \in {"extend", "pick"} => Explained

ShapeInv == TypeOK /\ ListOK /\ PhaseOK

-----------------------------------------------------------------------------
(* What a goroutine's step does.                                           *)

\* The counters of a search.
LEMMA SearchTypes ==
  ASSUME ShapeInv
  PROVE  /\ Len(nodes) \in Nat /\ ChunkSize \in Nat \ {0}
         /\ numNodesToFind \in Nat /\ nextChunk \in Nat /\ Dealt \in Nat
         /\ feasibleNodesLen \in Nat /\ nextStartNodeIndex \in Nat
         /\ MaxNodes \in Nat
         /\ \A w \in Workers :
               /\ worker[w].piece \in Nat /\ worker[w].end \in Nat
               /\ worker[w].length \in Nat
<1>1. Len(nodes) \in Nat /\ fwk \in Profiles
  BY DEF ShapeInv, TypeOK, Goroutine
<1>2. ChunkSize \in Nat \ {0}
  BY <1>1, ChunkSizeType DEF ChunkSize
<1>3. numNodesToFind \in Nat
  BY <1>1, NodesToFindType DEF numNodesToFind
<1>4. nextChunk \in Nat /\ MaxNodes \in Nat
  BY NodeSearchAssumption DEF ShapeInv, TypeOK
<1>5. Dealt \in Nat
  BY <1>2, <1>4 DEF Dealt
<1>6. nextStartNodeIndex \in Nat
  BY <1>4 DEF ShapeInv, TypeOK, Nodes
<1>7. \A w \in Workers : /\ worker[w].piece \in Nat /\ worker[w].end \in Nat
                         /\ worker[w].length \in Nat
  BY <1>4 DEF ShapeInv, TypeOK
<1> QED BY <1>1, <1>2, <1>3, <1>4, <1>5, <1>6, <1>7 DEF ShapeInv, TypeOK

\* The goroutines' steps leave the search they are part of as it is.
LEMMA SearchGoesOn ==
  ASSUME ShapeInv, NEW w \in Workers, WorkerStep(w)
  PROVE  /\ pc = "search" /\ pc' = "search"
         /\ UNCHANGED <<nextStartNodeIndex, fwk, allNodes, preRes, nominee, nodes,
                        feasible, statuses, ext, scores, scoring, outcome>>
         /\ numNodesToFind' = numNodesToFind
         /\ ChunkSize' = ChunkSize
         /\ \A i : NodeAt(nodes, i)' = NodeAt(nodes, i)
         /\ \A v \in Workers \ {w} : worker'[v] = worker[v]
<1>1. pc = "search"
  BY DEF ShapeInv, PhaseOK, WorkerStep, NextPiece, CheckNode, KeepNode, UncountNode,
         Searching
<1>2. /\ pc' = pc
      /\ UNCHANGED <<nextStartNodeIndex, fwk, allNodes, preRes, nominee, nodes,
                     feasible, statuses, ext, scores, scoring, outcome>>
  BY DEF WorkerStep, NextPiece, CheckNode, KeepNode, UncountNode, podVars, scoreVars
<1>3. \A v \in Workers \ {w} : worker'[v] = worker[v]
  BY DEF WorkerStep, NextPiece, CheckNode, KeepNode, UncountNode, Moves, ShapeInv, TypeOK
<1>4. numNodesToFind' = numNodesToFind
  BY <1>2 DEF numNodesToFind, NodesToFind, hasScoring, hasExtenderFilters
<1>5. ChunkSize' = ChunkSize
  BY <1>2 DEF ChunkSize
<1>6. \A i : NodeAt(nodes, i)' = NodeAt(nodes, i)
  BY <1>2 DEF NodeAt
<1> QED BY <1>1, <1>2, <1>3, <1>4, <1>5, <1>6

\* Goroutine w is in state s and has the pieces from p up to e.
Turned(w, s, p, e) ==
    /\ worker'[w].pc = s
    /\ worker'[w].piece = p
    /\ worker'[w].end = e

\* NextPiece goes on with the chunk, stops, or takes the next chunk.
LEMMA NextPieceMoves ==
  ASSUME ShapeInv, NEW w \in Workers, NextPiece(w)
  PROVE  /\ worker[w].pc = "ready"
         /\ \/ /\ ~cancelled /\ worker[w].piece < worker[w].end
               /\ Turned(w, "check", worker[w].piece, worker[w].end)
               /\ nextChunk' = nextChunk
            \/ /\ ~cancelled /\ worker[w].piece >= worker[w].end
               /\ Dealt < Len(nodes)
               /\ \E e \in Nat :
                     /\ Turned(w, "check", Dealt, e)
                     /\ e <= Len(nodes) /\ e <= Dealt + ChunkSize
                     /\ e = Len(nodes) \/ e = Dealt + ChunkSize
               /\ nextChunk' = nextChunk + 1
            \/ /\ cancelled
               /\ Turned(w, "done", worker[w].piece, worker[w].end)
               /\ \/ nextChunk' = nextChunk
                  \/ Dealt < Len(nodes) /\ nextChunk' = nextChunk + 1
            \/ /\ worker[w].piece >= worker[w].end /\ Dealt >= Len(nodes)
               /\ Turned(w, "done", worker[w].piece, worker[w].end)
               /\ nextChunk' = nextChunk
         /\ worker'[w].length = worker[w].length
         /\ UNCHANGED <<verdict, feasibleNodes, feasibleNodesLen, result, cancelled,
                        errored>>
<1> DEFINE me == worker[w]
           e == Min({Dealt + ChunkSize, Len(nodes)})
           go(p, q) == IF cancelled
                       THEN [me EXCEPT !.pc = "done"]
                       ELSE [me EXCEPT !.pc = "check", !.piece = p, !.end = q]
<1>1. UNCHANGED <<verdict, feasibleNodes, feasibleNodesLen, result, cancelled, errored>>
  BY DEF NextPiece
<1>2. /\ me \in Goroutine
      /\ worker \in [Workers -> Goroutine]
  BY DEF ShapeInv, TypeOK, Goroutine
<1>3. \A to : Moves(w, to) => worker'[w] = to
  BY <1>2 DEF Moves
<1>4. me.pc = "ready"
  BY DEF NextPiece
<1>5. CASE me.piece < me.end /\ Moves(w, go(me.piece, me.end)) /\ nextChunk' = nextChunk
  <2>1. worker'[w] = go(me.piece, me.end)
    BY <1>3, <1>5
  <2>2. CASE cancelled
    <3>1. worker'[w] = [me EXCEPT !.pc = "done"]
      BY <2>1, <2>2
    <3>2. Turned(w, "done", me.piece, me.end) /\ worker'[w].length = me.length
      BY <1>2, <3>1 DEF Turned, Goroutine
    <3> QED BY <1>1, <1>4, <1>5, <2>2, <3>2
  <2>3. CASE ~cancelled
    BY <1>1, <1>2, <1>4, <1>5, <2>1, <2>3 DEF Turned, Goroutine
  <2> QED BY <2>2, <2>3
<1>6. CASE /\ me.piece >= me.end /\ Dealt < Len(nodes)
           /\ Moves(w, go(Dealt, e)) /\ nextChunk' = nextChunk + 1
  <2>1. e = IF Dealt + ChunkSize <= Len(nodes) THEN Dealt + ChunkSize ELSE Len(nodes)
    <3> DEFINE a == Dealt + ChunkSize
               b == Len(nodes)
    <3>1. a \in Int /\ b \in Int
      BY SearchTypes
    <3> HIDE DEF a, b
    <3>2. Min({a, b}) = IF a <= b THEN a ELSE b
      BY <3>1, MaxMinOfTwo
    <3> QED BY <3>2 DEF a, b
  <2> HIDE DEF e
  <2>2. /\ e \in Nat /\ e <= Len(nodes) /\ e <= Dealt + ChunkSize
        /\ e = Len(nodes) \/ e = Dealt + ChunkSize
    BY <2>1, SearchTypes
  <2>3. worker'[w] = go(Dealt, e)
    BY <1>3, <1>6
  <2>4. CASE cancelled
    BY <1>1, <1>2, <1>4, <1>6, <2>3, <2>4 DEF Turned, Goroutine
  <2>5. CASE ~cancelled
    BY <1>1, <1>2, <1>4, <1>6, <2>2, <2>3, <2>5 DEF Turned, Goroutine
  <2> QED BY <2>4, <2>5
<1>7. CASE /\ me.piece >= me.end /\ Dealt >= Len(nodes)
           /\ Moves(w, [me EXCEPT !.pc = "done"]) /\ nextChunk' = nextChunk
  BY <1>1, <1>2, <1>3, <1>4, <1>7 DEF Turned, Goroutine
<1> QED BY <1>5, <1>6, <1>7 DEF NextPiece, Dealt

\* CheckNode asks the filters, and counts the node if it fits.
LEMMA CheckNodeMoves ==
  ASSUME ShapeInv, NEW w \in Workers, CheckNode(w)
  PROVE  /\ worker[w].pc = "check"
         /\ UNCHANGED <<feasibleNodes, nextChunk>>
         /\ \E v \in {"fit", "unfit", "error"} :
               /\ Current(w) \in DOMAIN verdict => verdict[Current(w)] = v
               /\ DOMAIN verdict' = DOMAIN verdict \cup {Current(w)}
               /\ verdict'[Current(w)] = v
               /\ \A n \in DOMAIN verdict : verdict'[n] = verdict[n]
               /\ errored' = (errored \/ v = "error")
               /\ cancelled' = (cancelled \/ v = "error")
               /\ result' = IF v = "unfit" THEN result \cup {Current(w)} ELSE result
               /\ \/ /\ v = "fit"
                     /\ feasibleNodesLen' = feasibleNodesLen + 1
                     /\ Turned(w, "counted", worker[w].piece, worker[w].end)
                     /\ worker'[w].length = feasibleNodesLen + 1
                  \/ /\ v # "fit"
                     /\ feasibleNodesLen' = feasibleNodesLen
                     /\ Turned(w, "ready", worker[w].piece + 1, worker[w].end)
                     /\ worker'[w].length = feasibleNodesLen
<1> DEFINE me == worker[w]
           n == Current(w)
<1>1. /\ me \in Goroutine
      /\ worker \in [Workers -> Goroutine]
      /\ feasibleNodesLen \in Nat
      /\ \A m \in DOMAIN verdict : verdict[m] \in {"fit", "unfit", "error"}
  BY DEF ShapeInv, TypeOK, Goroutine
<1>2. \A to : Moves(w, to) => worker'[w] = to
  BY <1>1 DEF Moves
<1>3. PICK v \in Opinions(n) :
        /\ verdict' = [m \in DOMAIN verdict \cup {n} |-> IF m = n THEN v ELSE verdict[m]]
        /\ errored' = (errored \/ v = "error")
        /\ cancelled' = (cancelled \/ v = "error")
        /\ result' = IF v = "unfit" THEN result \cup {n} ELSE result
        /\ feasibleNodesLen' = feasibleNodesLen + (IF v = "fit" THEN 1 ELSE 0)
        /\ Moves(w, [me EXCEPT !.pc = IF v = "fit" THEN "counted" ELSE "ready",
                               !.piece = IF v = "fit" THEN @ ELSE @ + 1,
                               !.length = feasibleNodesLen'])
  BY DEF CheckNode, Current
<1>4. /\ v \in {"fit", "unfit", "error"}
      /\ n \in DOMAIN verdict => verdict[n] = v
  BY <1>1 DEF Opinions
<1>5. /\ DOMAIN verdict' = DOMAIN verdict \cup {n}
      /\ verdict'[n] = v
      /\ \A m \in DOMAIN verdict : verdict'[m] = verdict[m]
  BY <1>3, <1>4
<1>6. worker'[w] = [me EXCEPT !.pc = IF v = "fit" THEN "counted" ELSE "ready",
                              !.piece = IF v = "fit" THEN @ ELSE @ + 1,
                              !.length = feasibleNodesLen']
  BY <1>2, <1>3
<1>7. \/ /\ v = "fit"
         /\ feasibleNodesLen' = feasibleNodesLen + 1
         /\ Turned(w, "counted", me.piece, me.end)
         /\ worker'[w].length = feasibleNodesLen + 1
      \/ /\ v # "fit"
         /\ feasibleNodesLen' = feasibleNodesLen
         /\ Turned(w, "ready", me.piece + 1, me.end)
         /\ worker'[w].length = feasibleNodesLen
  <2>1. CASE v = "fit"
    BY <1>1, <1>3, <1>6, <2>1 DEF Turned, Goroutine
  <2>2. CASE v # "fit"
    BY <1>1, <1>3, <1>6, <2>2 DEF Turned, Goroutine
  <2> QED BY <2>1, <2>2
<1>8. me.pc = "check" /\ UNCHANGED <<feasibleNodes, nextChunk>>
  BY DEF CheckNode
<1> HIDE DEF n
<1>9. /\ n \in DOMAIN verdict => verdict[n] = v
      /\ DOMAIN verdict' = DOMAIN verdict \cup {n}
      /\ verdict'[n] = v
      /\ \A m \in DOMAIN verdict : verdict'[m] = verdict[m]
      /\ errored' = (errored \/ v = "error")
      /\ cancelled' = (cancelled \/ v = "error")
      /\ result' = IF v = "unfit" THEN result \cup {n} ELSE result
  BY <1>3, <1>4, <1>5
<1> QED BY <1>4, <1>7, <1>8, <1>9, Zenon DEF n

\* KeepNode fills the slot of the node's number or finds that it is too high.
LEMMA KeepNodeMoves ==
  ASSUME ShapeInv, NEW w \in Workers, KeepNode(w)
  PROVE  /\ worker[w].pc = "counted"
         /\ UNCHANGED <<verdict, feasibleNodesLen, result, errored, nextChunk>>
         /\ worker'[w].length = worker[w].length
         /\ \/ /\ worker[w].length > numNodesToFind
               /\ cancelled' = TRUE
               /\ Turned(w, "over", worker[w].piece, worker[w].end)
               /\ feasibleNodes' = feasibleNodes
            \/ /\ worker[w].length <= numNodesToFind
               /\ cancelled' = cancelled
               /\ Turned(w, "ready", worker[w].piece + 1, worker[w].end)
               /\ feasibleNodes' =
                     [feasibleNodes EXCEPT ![worker[w].length] = Current(w)]
<1> DEFINE me == worker[w]
<1>1. /\ me \in Goroutine
      /\ worker \in [Workers -> Goroutine]
  BY DEF ShapeInv, TypeOK, Goroutine
<1>2. \A to : Moves(w, to) => worker'[w] = to
  BY <1>1 DEF Moves
<1>3. /\ me.pc = "counted"
      /\ UNCHANGED <<verdict, feasibleNodesLen, result, errored, nextChunk>>
  BY DEF KeepNode
<1>4. CASE /\ me.length > numNodesToFind
           /\ cancelled' = TRUE
           /\ Moves(w, [me EXCEPT !.pc = "over"])
           /\ UNCHANGED feasibleNodes
  <2>1. worker'[w] = [me EXCEPT !.pc = "over"]
    BY <1>2, <1>4
  <2>2. Turned(w, "over", me.piece, me.end) /\ worker'[w].length = me.length
    BY <1>1, <2>1 DEF Turned, Goroutine
  <2> QED BY <1>3, <1>4, <2>2
<1>5. CASE /\ me.length <= numNodesToFind
           /\ feasibleNodes' = [feasibleNodes EXCEPT ![me.length] = Current(w)]
           /\ Moves(w, [me EXCEPT !.pc = "ready", !.piece = @ + 1])
           /\ UNCHANGED cancelled
  <2>1. worker'[w] = [me EXCEPT !.pc = "ready", !.piece = @ + 1]
    BY <1>2, <1>5
  <2>2. Turned(w, "ready", me.piece + 1, me.end) /\ worker'[w].length = me.length
    BY <1>1, <2>1 DEF Turned, Goroutine
  <2> QED BY <1>3, <1>5, <2>2
<1> QED BY <1>4, <1>5 DEF KeepNode, Current

\* UncountNode takes the node back.
LEMMA UncountNodeMoves ==
  ASSUME ShapeInv, NEW w \in Workers, UncountNode(w)
  PROVE  /\ worker[w].pc = "over"
         /\ feasibleNodesLen' = feasibleNodesLen - 1
         /\ Turned(w, "ready", worker[w].piece + 1, worker[w].end)
         /\ worker'[w].length = worker[w].length
         /\ UNCHANGED <<verdict, feasibleNodes, result, cancelled, errored, nextChunk>>
<1> DEFINE me == worker[w]
<1>1. /\ me \in Goroutine
      /\ worker \in [Workers -> Goroutine]
  BY DEF ShapeInv, TypeOK, Goroutine
<1>2. worker'[w] = [me EXCEPT !.pc = "ready", !.piece = @ + 1]
  BY <1>1 DEF UncountNode, Moves, Goroutine
<1>3. Turned(w, "ready", me.piece + 1, me.end) /\ worker'[w].length = me.length
  BY <1>1, <1>2 DEF Turned, Goroutine
<1> QED BY <1>3 DEF UncountNode

-----------------------------------------------------------------------------
(* The pieces that are dealt out.                                          *)

\* Goroutine w keeps its pieces.
LEMMA PiecesStay ==
  ASSUME ShapeInv, PiecesOK, NEW w \in Workers, WorkerStep(w),
         worker'[w].piece = worker[w].piece, worker'[w].end = worker[w].end,
         worker'[w].pc \in {"check", "counted", "over"} => Has(w, worker[w].piece),
         nextChunk' = nextChunk
  PROVE  PiecesOK' /\ \A i : Passed(i)' <=> Passed(i)
<1>1. /\ nodes' = nodes /\ ChunkSize' = ChunkSize
      /\ \A v \in Workers \ {w} : worker'[v] = worker[v]
  BY SearchGoesOn
<1>2. Dealt' = Dealt
  BY <1>1 DEF Dealt
<1>3. \A v \in Workers : /\ worker'[v].piece = worker[v].piece
                         /\ worker'[v].end = worker[v].end
  BY <1>1
<1>4. \A v \in Workers : \A i : Has(v, i)' <=> Has(v, i)
  BY <1>3 DEF Has
<1>5. \A i : Passed(i)' <=> Passed(i)
  BY <1>2, <1>4 DEF Passed
<1>6. ASSUME NEW v \in Workers
      PROVE  /\ worker'[v].piece <= worker'[v].end
             /\ worker'[v].end <= Dealt'
             /\ worker'[v].end <= Len(nodes')
             /\ worker'[v].pc \in {"check", "counted", "over"}
                   => Has(v, worker[v].piece)'
  BY <1>1, <1>2, <1>3, <1>4 DEF PiecesOK
<1>7. ASSUME NEW v \in Workers, NEW u \in Workers, v # u, NEW i \in Nat
      PROVE  ~(Has(v, i)' /\ Has(u, i)')
  BY <1>4, <1>7 DEF PiecesOK
<1> QED BY <1>5, <1>6, <1>7 DEF PiecesOK

\* Goroutine w is done with a piece.
LEMMA PiecesAdvance ==
  ASSUME ShapeInv, PiecesOK, NEW w \in Workers, WorkerStep(w),
         Has(w, worker[w].piece),
         Turned(w, "ready", worker[w].piece + 1, worker[w].end),
         nextChunk' = nextChunk
  PROVE  /\ PiecesOK'
         /\ \A i \in Nat : Passed(i)' <=> Passed(i) \/ i = worker[w].piece
<1>1. /\ nodes' = nodes /\ ChunkSize' = ChunkSize
      /\ \A v \in Workers \ {w} : worker'[v] = worker[v]
  BY SearchGoesOn
<1>2. Dealt' = Dealt
  BY <1>1 DEF Dealt
<1>3. \A v \in Workers \ {w} : \A i : Has(v, i)' <=> Has(v, i)
  BY <1>1 DEF Has
<1>4. \A i \in Nat : Has(w, i)' <=> Has(w, i) /\ i # worker[w].piece
  BY SearchTypes DEF Has, Turned
<1>5. worker[w].piece \in Nat /\ worker[w].piece < Dealt
  BY SearchTypes DEF PiecesOK, Has
<1>6. \A v \in Workers \ {w} : ~Has(v, worker[w].piece)
  BY <1>5 DEF PiecesOK
<1>7. \A i \in Nat : Passed(i)' <=> Passed(i) \/ i = worker[w].piece
  BY <1>2, <1>3, <1>4, <1>5, <1>6 DEF Passed
<1>8. ASSUME NEW v \in Workers
      PROVE  /\ worker'[v].piece <= worker'[v].end
             /\ worker'[v].end <= Dealt'
             /\ worker'[v].end <= Len(nodes')
             /\ worker'[v].pc \in {"check", "counted", "over"}
                   => Has(v, worker[v].piece)'
  <2>1. CASE v = w
    BY <1>1, <1>2, <2>1, SearchTypes DEF PiecesOK, Has, Turned
  <2>2. CASE v # w
    BY <1>1, <1>2, <2>2 DEF PiecesOK, Has
  <2> QED BY <2>1, <2>2
<1>9. ASSUME NEW v \in Workers, NEW u \in Workers, v # u, NEW i \in Nat
      PROVE  ~(Has(v, i)' /\ Has(u, i)')
  BY <1>3, <1>4, <1>9 DEF PiecesOK
<1> QED BY <1>7, <1>8, <1>9 DEF PiecesOK

\* Goroutine w takes the next chunk.
LEMMA PiecesDealt ==
  ASSUME ShapeInv, PiecesOK, NEW w \in Workers, WorkerStep(w),
         worker[w].piece >= worker[w].end, Dealt < Len(nodes),
         NEW e \in Nat, Turned(w, "check", Dealt, e),
         e <= Len(nodes), e <= Dealt + ChunkSize,
         e = Len(nodes) \/ e = Dealt + ChunkSize,
         nextChunk' = nextChunk + 1
  PROVE  /\ PiecesOK'
         /\ \A i \in 0 .. Len(nodes) - 1 : Passed(i)' <=> Passed(i)
<1>1. /\ nodes' = nodes /\ ChunkSize' = ChunkSize
      /\ \A v \in Workers \ {w} : worker'[v] = worker[v]
  BY SearchGoesOn
<1>2. Dealt' = Dealt + ChunkSize
  <2>1. Dealt' = (nextChunk + 1) * ChunkSize
    BY <1>1 DEF Dealt
  <2> QED BY <2>1, SearchTypes DEF Dealt
<1>3. \A v \in Workers \ {w} : \A i : Has(v, i)' <=> Has(v, i)
  BY <1>1 DEF Has
<1>4. /\ Dealt \in Nat /\ ChunkSize \in Nat \ {0} /\ Len(nodes) \in Nat
      /\ \A v \in Workers : /\ worker[v].piece \in Nat /\ worker[v].end \in Nat
                            /\ worker[v].end <= Dealt
  BY SearchTypes DEF PiecesOK
<1>5. \A i \in Nat : Has(w, i)' <=> Dealt <= i /\ i < e
  BY DEF Has, Turned
<1>6. ASSUME NEW v \in Workers, NEW i \in Nat, Has(v, i)
      PROVE  i < Dealt /\ v # w
  BY <1>4, <1>6 DEF Has
<1>7. \A i \in 0 .. Len(nodes) - 1 : Passed(i)' <=> Passed(i)
  <2> SUFFICES ASSUME NEW i \in 0 .. Len(nodes) - 1
               PROVE  Passed(i)' <=> Passed(i)
    OBVIOUS
  <2>1. i \in Nat /\ i < Len(nodes)
    BY <1>4
  <2>2. CASE i < Dealt
    <3>1. ~Has(w, i)' /\ ~Has(w, i)
      BY <1>4, <1>5, <1>6, <2>1, <2>2
    <3>2. i < Dealt'
      BY <1>2, <1>4, <2>1, <2>2
    <3> QED BY <1>3, <2>2, <3>1, <3>2 DEF Passed
  <2>3. CASE ~(i < Dealt)
    <3>1. i < Dealt' => Has(w, i)'
      BY <1>2, <1>4, <1>5, <2>1, <2>3
    <3> QED BY <2>3, <3>1 DEF Passed
  <2> QED BY <2>2, <2>3
<1>8. ASSUME NEW v \in Workers
      PROVE  /\ worker'[v].piece <= worker'[v].end
             /\ worker'[v].end <= Dealt'
             /\ worker'[v].end <= Len(nodes')
             /\ worker'[v].pc \in {"check", "counted", "over"}
                   => Has(v, worker[v].piece)'
  <2>1. CASE v = w
    <3>1. Dealt < e
      BY <1>4
    <3> QED BY <1>1, <1>2, <1>4, <2>1, <3>1 DEF Has, Turned
  <2>2. CASE v # w
    BY <1>1, <1>2, <1>4, <2>2 DEF PiecesOK, Has
  <2> QED BY <2>1, <2>2
<1>9. ASSUME NEW v \in Workers, NEW u \in Workers, v # u, NEW i \in Nat
      PROVE  ~(Has(v, i)' /\ Has(u, i)')
  <2>1. CASE v # w /\ u # w
    BY <1>3, <1>9, <2>1 DEF PiecesOK
  <2>2. Has(w, i)' => ~(i < Dealt)
    BY <1>4, <1>5
  <2>3. \A x \in Workers \ {w} : Has(x, i)' => i < Dealt
    BY <1>3, <1>6
  <2> QED BY <1>9, <2>1, <2>2, <2>3
<1> QED BY <1>7, <1>8, <1>9 DEF PiecesOK

\* A chunk is taken and dropped.
LEMMA PiecesDropped ==
  ASSUME ShapeInv, PiecesOK, NEW w \in Workers, WorkerStep(w),
         Turned(w, "done", worker[w].piece, worker[w].end),
         nextChunk' = nextChunk + 1
  PROVE  PiecesOK' /\ \A i \in Nat : Passed(i) => Passed(i)'
<1>1. /\ nodes' = nodes /\ ChunkSize' = ChunkSize
      /\ \A v \in Workers \ {w} : worker'[v] = worker[v]
  BY SearchGoesOn
<1>2. Dealt' = Dealt + ChunkSize
  <2>1. Dealt' = (nextChunk + 1) * ChunkSize
    BY <1>1 DEF Dealt
  <2> QED BY <2>1, SearchTypes DEF Dealt
<1>3. \A v \in Workers : /\ worker'[v].piece = worker[v].piece
                         /\ worker'[v].end = worker[v].end
  BY <1>1 DEF Turned
<1>4. \A v \in Workers : \A i : Has(v, i)' <=> Has(v, i)
  BY <1>3 DEF Has
<1>5. \A i \in Nat : Passed(i) => Passed(i)'
  BY <1>2, <1>4, SearchTypes DEF Passed
<1>6. ASSUME NEW v \in Workers
      PROVE  /\ worker'[v].piece <= worker'[v].end
             /\ worker'[v].end <= Dealt'
             /\ worker'[v].end <= Len(nodes')
             /\ worker'[v].pc \in {"check", "counted", "over"}
                   => Has(v, worker[v].piece)'
  <2>1. worker[v].end \in Nat /\ Dealt \in Nat /\ ChunkSize \in Nat
    BY SearchTypes
  <2>2. worker'[v].end <= Dealt'
    BY <1>2, <1>3, <2>1 DEF PiecesOK
  <2>3. worker'[v].pc \in {"check", "counted", "over"} => Has(v, worker[v].piece)'
    BY <1>1, <1>3 DEF PiecesOK, Has, Turned
  <2> QED BY <1>1, <1>3, <2>2, <2>3 DEF PiecesOK
<1>7. ASSUME NEW v \in Workers, NEW u \in Workers, v # u, NEW i \in Nat
      PROVE  ~(Has(v, i)' /\ Has(u, i)')
  BY <1>4, <1>7 DEF PiecesOK
<1> QED BY <1>5, <1>6, <1>7 DEF PiecesOK

-----------------------------------------------------------------------------
(* A goroutine's step keeps SearchOK.                                      *)

\* What is known of the goroutine's own node.
LEMMA CurrentNode ==
  ASSUME ShapeInv, PiecesOK, NEW w \in Workers,
         worker[w].pc \in {"check", "counted", "over"}
  PROVE  /\ Has(w, worker[w].piece)
         /\ worker[w].piece \in 0 .. Len(nodes) - 1
         /\ Current(w) \in Nodes /\ Current(w) # None
<1>1. Has(w, worker[w].piece) /\ worker[w].end <= Len(nodes)
  BY DEF PiecesOK
<1>2. worker[w].piece \in 0 .. Len(nodes) - 1
  BY <1>1, SearchTypes DEF Has
<1>3. nodes \in Seq(Nodes) /\ nextStartNodeIndex \in Nat
  BY SearchTypes DEF ShapeInv, TypeOK
<1>4. Current(w) \in Nodes
  BY <1>2, <1>3, NodeAtOnce DEF Current
<1>5. Current(w) # None
  BY <1>4 DEF Nodes, None
<1> QED BY <1>1, <1>2, <1>4, <1>5

\* The goroutines that found too many are finitely many.
LEMMA OversFinite == IsFiniteSet(Overs) /\ Cardinality(Overs) \in Nat
<1>1. Overs \in SUBSET Workers
  BY DEF Overs
<1> QED BY <1>1, NodeSearchAssumption, FS_Subset, FS_CardinalityType

\* The current nodes of the other goroutines.
LEMMA OthersStay ==
  ASSUME ShapeInv, NEW w \in Workers, WorkerStep(w), NEW v \in Workers \ {w}
  PROVE  /\ Current(v)' = Current(v)
         /\ \A k : Claims(v, k)' <=> Claims(v, k)
         /\ v \in Overs' <=> v \in Overs
BY SearchGoesOn DEF Current, Claims, Overs

\* NextPiece.
LEMMA NextPieceKeeps ==
  ASSUME ShapeInv, SearchOK, NEW w \in Workers, NextPiece(w)
  PROVE  SearchOK'
<1> DEFINE K == numNodesToFind
<1>1. WorkerStep(w)
  BY DEF WorkerStep
<1>2. /\ numNodesToFind' = K /\ nodes' = nodes /\ ChunkSize' = ChunkSize
      /\ \A i : NodeAt(nodes, i)' = NodeAt(nodes, i)
      /\ \A v \in Workers \ {w} : worker'[v] = worker[v]
  BY <1>1, SearchGoesOn
<1>3. /\ worker[w].pc = "ready" /\ worker'[w].pc \in {"check", "done"}
      /\ UNCHANGED <<verdict, feasibleNodes, feasibleNodesLen, result, cancelled,
                     errored>>
  BY NextPieceMoves DEF Turned
<1>4. PiecesOK
  BY DEF SearchOK
<1>5. /\ PiecesOK'
      /\ \A i \in 0 .. Len(nodes) - 1 : Passed(i) => Passed(i)'
      /\ ~cancelled => \A i \in 0 .. Len(nodes) - 1 : Passed(i)' => Passed(i)
      /\ Dealt' \in Nat /\ Dealt' >= Dealt
      /\ worker'[w].pc = "done" => \/ cancelled
                                   \/ /\ worker'[w].piece = worker'[w].end
                                      /\ Dealt' >= Len(nodes)
  <2>1. Dealt \in Nat /\ ChunkSize \in Nat /\ nextChunk \in Nat /\ Len(nodes) \in Nat
    BY SearchTypes
  <2>2. /\ nextChunk' = nextChunk => Dealt' = Dealt
        /\ nextChunk' = nextChunk + 1 => Dealt' \in Nat /\ Dealt' >= Dealt
    <3>1. nextChunk' = nextChunk => Dealt' = Dealt
      BY <1>2 DEF Dealt
    <3>2. nextChunk' = nextChunk + 1 => Dealt' = Dealt + ChunkSize
      <4>1. nextChunk' = nextChunk + 1 => Dealt' = (nextChunk + 1) * ChunkSize
        BY <1>2 DEF Dealt
      <4> QED BY <2>1, <4>1 DEF Dealt
    <3> QED BY <2>1, <3>1, <3>2
  <2>3. CASE /\ ~cancelled /\ worker[w].piece < worker[w].end
             /\ Turned(w, "check", worker[w].piece, worker[w].end)
             /\ nextChunk' = nextChunk
    <3>1. Has(w, worker[w].piece)
      BY <2>3, SearchTypes DEF Has
    <3>2. PiecesOK' /\ \A i : Passed(i)' <=> Passed(i)
      BY <1>1, <1>4, <2>3, <3>1, PiecesStay DEF Turned
    <3> QED BY <2>1, <2>2, <2>3, <3>2 DEF Turned
  <2>4. CASE /\ ~cancelled /\ worker[w].piece >= worker[w].end
             /\ Dealt < Len(nodes)
             /\ \E e \in Nat :
                   /\ Turned(w, "check", Dealt, e)
                   /\ e <= Len(nodes) /\ e <= Dealt + ChunkSize
                   /\ e = Len(nodes) \/ e = Dealt + ChunkSize
             /\ nextChunk' = nextChunk + 1
    <3>1. PICK e \in Nat : /\ Turned(w, "check", Dealt, e)
                           /\ e <= Len(nodes) /\ e <= Dealt + ChunkSize
                           /\ e = Len(nodes) \/ e = Dealt + ChunkSize
      BY <2>4
    <3>2. PiecesOK' /\ \A i \in 0 .. Len(nodes) - 1 : Passed(i)' <=> Passed(i)
      BY <1>1, <1>4, <2>4, <3>1, PiecesDealt
    <3> QED BY <2>1, <2>2, <2>4, <3>1, <3>2 DEF Turned
  <2>5. CASE /\ cancelled
             /\ Turned(w, "done", worker[w].piece, worker[w].end)
             /\ nextChunk' = nextChunk
    <3>1. PiecesOK' /\ \A i : Passed(i)' <=> Passed(i)
      BY <1>1, <1>4, <2>5, PiecesStay DEF Turned
    <3> QED BY <2>1, <2>2, <2>5, <3>1
  <2>6. CASE /\ cancelled
             /\ Turned(w, "done", worker[w].piece, worker[w].end)
             /\ nextChunk' = nextChunk + 1
    <3>1. PiecesOK' /\ \A i \in Nat : Passed(i) => Passed(i)'
      BY <1>1, <1>4, <2>6, PiecesDropped
    <3> QED BY <2>1, <2>2, <2>6, <3>1
  <2>7. CASE /\ worker[w].piece >= worker[w].end /\ Dealt >= Len(nodes)
             /\ Turned(w, "done", worker[w].piece, worker[w].end)
             /\ nextChunk' = nextChunk
    <3>1. PiecesOK' /\ \A i : Passed(i)' <=> Passed(i)
      BY <1>1, <1>4, <2>7, PiecesStay DEF Turned
    <3>2. worker[w].piece = worker[w].end
      BY <1>4, <2>7, SearchTypes DEF PiecesOK
    <3> QED BY <2>1, <2>2, <2>7, <3>1, <3>2 DEF Turned
  <2> QED BY <2>3, <2>4, <2>5, <2>6, <2>7, NextPieceMoves
<1>6. CounterOK'
  <2>1. Overs' = Overs
    BY <1>1, <1>3, OthersStay DEF Overs
  <2> QED BY <1>2, <1>3, <2>1 DEF CounterOK, SearchOK
<1>7. SlotsOK'
  <2>1. \A v \in Workers : \A k : Claims(v, k)' <=> Claims(v, k)
    BY <1>1, <1>3, OthersStay DEF Claims
  <2>2. \A v \in Workers : worker'[v].pc = "counted" => worker'[v].length >= 1
    BY <1>2, <1>3 DEF SearchOK, SlotsOK
  <2> QED BY <1>2, <1>3, <2>1, <2>2 DEF SearchOK, SlotsOK
<1>8. KeptOK'
  <2>1. \A v \in Workers : worker'[v].pc = "counted" => (Fits(Current(v)))'
    BY <1>1, <1>2, <1>3, OthersStay DEF SearchOK, KeptOK, Fits
  <2>2. ASSUME NEW k \in 1 .. K, feasibleNodes[k] # None
        PROVE  /\ Fits(feasibleNodes[k])'
               /\ \E i \in 0 .. Len(nodes) - 1 :
                     Passed(i)' /\ feasibleNodes[k] = NodeAt(nodes, i)
    BY <1>3, <1>5, <2>2 DEF SearchOK, KeptOK, Fits
  <2> QED BY <1>2, <1>3, <2>1, <2>2 DEF SearchOK, KeptOK
<1>9. CancelOK'
  <2>1. \A v \in Workers \ {w} : worker'[v].pc = "done" /\ ~cancelled =>
           worker'[v].piece = worker'[v].end /\ Dealt' >= Len(nodes)
    <3>1. Dealt \in Nat /\ Len(nodes) \in Nat
      BY SearchTypes
    <3> QED BY <1>2, <1>5, <3>1 DEF SearchOK, CancelOK
  <2> QED BY <1>2, <1>3, <1>5, <2>1 DEF SearchOK, CancelOK
<1>10. ExaminedOK'
  BY <1>2, <1>3, <1>5 DEF SearchOK, ExaminedOK, Accounted
<1> QED BY <1>5, <1>6, <1>7, <1>8, <1>9, <1>10 DEF SearchOK

\* CheckNode.
LEMMA CheckNodeKeeps ==
  ASSUME ShapeInv, SearchOK, NEW w \in Workers, CheckNode(w)
  PROVE  SearchOK'
<1> DEFINE K == numNodesToFind
           c == feasibleNodesLen
           n == Current(w)
<1>1. WorkerStep(w)
  BY DEF WorkerStep
<1>2. /\ K' = K /\ nodes' = nodes /\ ChunkSize' = ChunkSize
      /\ \A i : NodeAt(nodes, i)' = NodeAt(nodes, i)
      /\ \A v \in Workers \ {w} : worker'[v] = worker[v]
  BY <1>1, SearchGoesOn
<1>3. /\ worker[w].pc = "check"
      /\ UNCHANGED <<feasibleNodes, nextChunk>>
  BY CheckNodeMoves
<1>4. PICK v \in {"fit", "unfit", "error"} :
         /\ n \in DOMAIN verdict => verdict[n] = v
         /\ DOMAIN verdict' = DOMAIN verdict \cup {n}
         /\ verdict'[n] = v
         /\ \A m \in DOMAIN verdict : verdict'[m] = verdict[m]
         /\ errored' = (errored \/ v = "error")
         /\ cancelled' = (cancelled \/ v = "error")
         /\ result' = IF v = "unfit" THEN result \cup {n} ELSE result
         /\ \/ /\ v = "fit"
               /\ c' = c + 1
               /\ Turned(w, "counted", worker[w].piece, worker[w].end)
               /\ worker'[w].length = c + 1
            \/ /\ v # "fit"
               /\ c' = c
               /\ Turned(w, "ready", worker[w].piece + 1, worker[w].end)
               /\ worker'[w].length = c
  BY CheckNodeMoves
<1>5. /\ PiecesOK /\ CounterOK /\ SlotsOK /\ KeptOK /\ CancelOK /\ ExaminedOK
      /\ K \in Nat /\ c \in Nat /\ Len(nodes) \in Nat
  BY SearchTypes DEF SearchOK
<1>6. /\ Has(w, worker[w].piece)
      /\ worker[w].piece \in 0 .. Len(nodes) - 1
      /\ n = NodeAt(nodes, worker[w].piece)
  BY <1>3, <1>5, CurrentNode DEF Current
<1>7. \A m : Fits(m) => Fits(m)'
  BY <1>4 DEF Fits
<1>8. \A m : m \in result => m \in result'
  BY <1>4
<1>9. Dealt' = Dealt
  BY <1>2, <1>3 DEF Dealt
<1>10. w \notin Overs /\ \A k : ~Claims(w, k)
  BY <1>3 DEF Overs, Claims
<1>11. CASE v = "fit"
  <2>1. /\ c' = c + 1 /\ errored' = errored /\ cancelled' = cancelled
        /\ result' = result
        /\ Turned(w, "counted", worker[w].piece, worker[w].end)
        /\ worker'[w].length = c + 1
    <3>1. errored \in BOOLEAN /\ cancelled \in BOOLEAN
      BY DEF ShapeInv, TypeOK
    <3> QED BY <1>4, <1>11, <3>1
  <2>2. PiecesOK' /\ \A i : Passed(i)' <=> Passed(i)
    BY <1>1, <1>3, <1>5, <1>6, <2>1, PiecesStay DEF Turned
  <2>3. CounterOK'
    <3>1. w \in Overs' <=> c + 1 > K
      BY <1>2, <2>1 DEF Overs, Turned
    <3>2. Overs' = IF c + 1 > K THEN Overs \cup {w} ELSE Overs
      <4>1. \A x \in Workers \ {w} : x \in Overs' <=> x \in Overs
        BY <1>1, OthersStay
      <4>2. \A x \in Overs \cup Overs' : x \in Workers
        BY DEF Overs
      <4> QED BY <1>10, <3>1, <4>1, <4>2
    <3>3. Cardinality(Overs \cup {w}) = Cardinality(Overs) + 1
      BY <1>10, OversFinite, FS_AddElement
    <3>4. Cardinality(Overs) = IF c > K THEN c - K ELSE 0
      BY <1>5 DEF CounterOK
    <3>5. /\ feasibleNodesLen' = c + 1 /\ numNodesToFind' = numNodesToFind
          /\ feasibleNodesLen \in Nat /\ numNodesToFind \in Nat
      BY <1>2, <1>5, <2>1
    <3>6. CASE c + 1 > K
      <4>1. Cardinality(Overs)' = c + 1 - K
        BY <1>5, <3>2, <3>3, <3>4, <3>6
      <4> QED BY <3>5, <3>6, <4>1 DEF CounterOK
    <3>7. CASE ~(c + 1 > K)
      <4>1. Cardinality(Overs)' = 0
        BY <1>5, <3>2, <3>4, <3>7
      <4> QED BY <3>5, <3>7, <4>1 DEF CounterOK
    <3> QED BY <3>6, <3>7
  <2>4. SlotsOK'
    <3>1. \A x \in Workers : \A k : Claims(x, k)' <=> Claims(x, k) \/ (x = w /\ k = c + 1)
      BY <1>1, <1>10, <2>1, OthersStay DEF Claims, Turned
    <3>2. ASSUME NEW k \in 1 .. K
          PROVE  /\ k <= c' <=>
                       \/ feasibleNodes'[k] # None
                       \/ \E x \in Workers : Claims(x, k)'
                 /\ \A x \in Workers : Claims(x, k)' => feasibleNodes'[k] = None
                 /\ \A x, y \in Workers : Claims(x, k)' /\ Claims(y, k)' => x = y
      <4>1. /\ k <= c <=> feasibleNodes[k] # None \/ \E x \in Workers : Claims(x, k)
            /\ \A x \in Workers : Claims(x, k) => feasibleNodes[k] = None
            /\ \A x, y \in Workers : Claims(x, k) /\ Claims(y, k) => x = y
        BY <1>5 DEF SlotsOK
      <4>2. CASE k = c + 1
        <5>1. ~(k <= c) /\ k <= c'
          BY <1>5, <2>1, <4>2
        <5> QED BY <1>3, <3>1, <4>1, <4>2, <5>1
      <4>3. CASE k # c + 1
        <5>1. k <= c' <=> k <= c
          BY <1>5, <2>1, <4>3
        <5>2. \A x \in Workers : Claims(x, k)' <=> Claims(x, k)
          BY <3>1, <4>3
        <5> QED BY <1>3, <4>1, <5>1, <5>2
      <4> QED BY <4>2, <4>3
    <3>3. \A x \in Workers : worker'[x].pc = "counted" => worker'[x].length >= 1
      BY <1>2, <1>5, <2>1 DEF SlotsOK
    <3> QED BY <1>2, <1>3, <3>2, <3>3 DEF SlotsOK
  <2>5. KeptOK'
    <3>1. \A x \in Workers : worker'[x].pc = "counted" => Fits(Current(x))'
      <4>1. Fits(Current(w))'
        <5>1. Current(w)' = n
          BY <1>2, <1>6, <2>1 DEF Current, Turned
        <5> QED BY <1>4, <1>11, <5>1 DEF Fits
      <4>2. ASSUME NEW x \in Workers \ {w}, worker'[x].pc = "counted"
            PROVE  Fits(Current(x))'
        <5>1. Current(x)' = Current(x) /\ Fits(Current(x))
          BY <1>1, <1>2, <1>5, <4>2, OthersStay DEF KeptOK
        <5> QED BY <1>4, <5>1 DEF Fits
      <4> QED BY <4>1, <4>2
    <3>2. ASSUME NEW k \in 1 .. K, feasibleNodes[k] # None
          PROVE  /\ Fits(feasibleNodes[k])'
                 /\ \E i \in 0 .. Len(nodes) - 1 :
                       Passed(i)' /\ feasibleNodes[k] = NodeAt(nodes, i)
      BY <1>3, <1>4, <1>5, <2>2, <3>2 DEF KeptOK, Fits
    <3> QED BY <1>2, <1>3, <1>5, <3>1, <3>2 DEF KeptOK
  <2>6. CancelOK'
    <3>1. \A x \in Workers :
            /\ worker'[x].pc = "over" => cancelled
            /\ worker'[x].pc = "done" =>
                  \/ cancelled
                  \/ worker'[x].piece = worker'[x].end /\ Dealt >= Len(nodes)
      BY <1>2, <1>5, <2>1 DEF CancelOK, Turned
    <3>2. c >= K => c + 1 >= K
      BY <1>5
    <3> QED BY <1>2, <1>5, <1>9, <2>1, <3>1, <3>2 DEF CancelOK
  <2>7. ExaminedOK'
    <3>1. \A m : Accounted(m) => Accounted(m)'
      BY <1>2, <1>3, <1>4, <2>1 DEF Accounted
    <3> QED BY <1>2, <1>5, <2>1, <2>2, <3>1 DEF ExaminedOK
  <2> QED BY <2>2, <2>3, <2>4, <2>5, <2>6, <2>7 DEF SearchOK
<1>12. CASE v # "fit"
  <2>1. /\ c' = c
        /\ Turned(w, "ready", worker[w].piece + 1, worker[w].end)
    BY <1>4, <1>12
  <2>2. PiecesOK' /\ \A i \in Nat : Passed(i)' <=> Passed(i) \/ i = worker[w].piece
    BY <1>1, <1>3, <1>5, <1>6, <2>1, PiecesAdvance
  <2>3. CounterOK'
    <3>1. Overs' = Overs
      <4>1. w \notin Overs'
        BY <2>1 DEF Overs, Turned
      <4>2. \A x \in Workers \ {w} : x \in Overs' <=> x \in Overs
        BY <1>1, OthersStay
      <4>3. \A x \in Overs \cup Overs' : x \in Workers
        BY DEF Overs
      <4> QED BY <1>10, <4>1, <4>2, <4>3
    <3> QED BY <1>2, <1>5, <2>1, <3>1 DEF CounterOK
  <2>4. SlotsOK'
    <3>1. \A x \in Workers : \A k : Claims(x, k)' <=> Claims(x, k)
      BY <1>1, <1>10, <2>1, OthersStay DEF Claims, Turned
    <3>2. \A x \in Workers : worker'[x].pc = "counted" => worker'[x].length >= 1
      BY <1>2, <1>5, <2>1 DEF SlotsOK, Turned
    <3> QED BY <1>2, <1>3, <1>5, <2>1, <3>1, <3>2 DEF SlotsOK
  <2>5. KeptOK'
    <3>1. ASSUME NEW x \in Workers, worker'[x].pc = "counted"
          PROVE  Fits(Current(x))'
      <4>1. x # w
        BY <2>1, <3>1 DEF Turned
      <4>2. Current(x)' = Current(x) /\ Fits(Current(x))
        BY <1>1, <1>2, <1>5, <3>1, <4>1, OthersStay DEF KeptOK
      <4> QED BY <1>4, <4>2 DEF Fits
    <3>2. ASSUME NEW k \in 1 .. K, feasibleNodes[k] # None
          PROVE  /\ Fits(feasibleNodes[k])'
                 /\ \E i \in 0 .. Len(nodes) - 1 :
                       Passed(i)' /\ feasibleNodes[k] = NodeAt(nodes, i)
      BY <1>3, <1>4, <1>5, <2>2, <3>2 DEF KeptOK, Fits
    <3> QED BY <1>2, <1>3, <1>5, <3>1, <3>2 DEF KeptOK
  <2>6. CancelOK'
    <3>1. \A x \in Workers :
            /\ worker'[x].pc = "over" => cancelled
            /\ worker'[x].pc = "done" =>
                  \/ cancelled
                  \/ worker'[x].piece = worker'[x].end /\ Dealt >= Len(nodes)
      BY <1>2, <1>5, <2>1 DEF CancelOK, Turned
    <3> QED BY <1>2, <1>4, <1>5, <1>9, <2>1, <3>1 DEF CancelOK
  <2>7. ExaminedOK'
    <3> SUFFICES ASSUME ~cancelled', NEW i \in 0 .. Len(nodes) - 1, Passed(i)'
                 PROVE  Accounted(NodeAt(nodes, i))'
      BY <1>2 DEF ExaminedOK
    <3>1. ~cancelled /\ v = "unfit"
      BY <1>4, <1>12
    <3>2. CASE Passed(i)
      <4>1. Accounted(NodeAt(nodes, i))
        BY <1>5, <3>1, <3>2 DEF ExaminedOK
      <4> QED BY <1>2, <1>3, <1>4, <1>8, <4>1 DEF Accounted
    <3>3. CASE i = worker[w].piece
      <4>1. NodeAt(nodes, i)' = n
        BY <1>2, <1>6, <3>3
      <4> QED BY <1>4, <3>1, <4>1 DEF Accounted
    <3> QED BY <1>5, <2>2, <3>2, <3>3
  <2> QED BY <2>2, <2>3, <2>4, <2>5, <2>6, <2>7 DEF SearchOK
<1> QED BY <1>11, <1>12

\* KeepNode, when there are too many.
LEMMA KeepNodeOverKeeps ==
  ASSUME ShapeInv, SearchOK, NEW w \in Workers, KeepNode(w),
         worker[w].length > numNodesToFind
  PROVE  SearchOK'
<1> DEFINE K == numNodesToFind
           c == feasibleNodesLen
<1>1. WorkerStep(w)
  BY DEF WorkerStep
<1>2. /\ K' = K /\ nodes' = nodes /\ ChunkSize' = ChunkSize
      /\ \A i : NodeAt(nodes, i)' = NodeAt(nodes, i)
      /\ \A v \in Workers \ {w} : worker'[v] = worker[v]
  BY <1>1, SearchGoesOn
<1>3. /\ PiecesOK /\ CounterOK /\ SlotsOK /\ KeptOK /\ CancelOK /\ ExaminedOK
      /\ K \in Nat /\ c \in Nat /\ Len(nodes) \in Nat /\ worker[w].length \in Nat
  BY SearchTypes DEF SearchOK
<1>4. /\ worker[w].pc = "counted"
      /\ UNCHANGED <<verdict, feasibleNodesLen, result, errored, nextChunk,
                     feasibleNodes>>
      /\ cancelled' = TRUE
      /\ Turned(w, "over", worker[w].piece, worker[w].end)
  <2>1. ~(worker[w].length <= K)
    BY <1>3
  <2> QED BY <2>1, KeepNodeMoves, Zenon
<1>5. PiecesOK' /\ \A i : Passed(i)' <=> Passed(i)
  BY <1>1, <1>3, <1>4, CurrentNode, PiecesStay DEF Turned
<1>6. w \in Overs
  BY <1>4 DEF Overs
<1>7. CounterOK'
  <2>1. Overs' = Overs
    <3>1. w \in Overs'
      BY <1>4 DEF Overs, Turned
    <3>2. \A x \in Workers \ {w} : x \in Overs' <=> x \in Overs
      BY <1>1, OthersStay
    <3>3. \A x \in Overs \cup Overs' : x \in Workers
      BY DEF Overs
    <3> QED BY <1>6, <3>1, <3>2, <3>3
  <2> QED BY <1>2, <1>3, <1>4, <2>1 DEF CounterOK
<1>8. SlotsOK'
  <2>1. \A x \in Workers, k \in 1 .. K : Claims(x, k)' <=> Claims(x, k)
    <3>1. \A k \in 1 .. K : ~Claims(w, k) /\ ~Claims(w, k)'
      BY <1>3, <1>4 DEF Claims, Turned
    <3>2. \A x \in Workers \ {w} : \A k : Claims(x, k)' <=> Claims(x, k)
      BY <1>1, OthersStay
    <3> QED BY <3>1, <3>2
  <2>2. \A x \in Workers : worker'[x].pc = "counted" => worker'[x].length >= 1
    BY <1>2, <1>3, <1>4 DEF SlotsOK, Turned
  <2> QED BY <1>2, <1>3, <1>4, <2>1, <2>2 DEF SlotsOK
<1>9. KeptOK'
  <2>1. ASSUME NEW x \in Workers, worker'[x].pc = "counted"
        PROVE  Fits(Current(x))'
    <3>1. x # w
      BY <1>4, <2>1 DEF Turned
    <3> QED BY <1>1, <1>2, <1>3, <1>4, <2>1, <3>1, OthersStay DEF KeptOK, Fits
  <2> QED BY <1>2, <1>3, <1>4, <1>5, <2>1 DEF KeptOK, Fits
<1>10. c >= K
  <2>1. Cardinality(Overs) # 0
    BY <1>6, OversFinite, FS_EmptySet
  <2> QED BY <1>3, <2>1 DEF CounterOK
<1>11. CancelOK'
  BY <1>2, <1>3, <1>4, <1>10 DEF CancelOK, Turned
<1>12. ExaminedOK'
  BY <1>4 DEF ExaminedOK
<1> QED BY <1>5, <1>7, <1>8, <1>9, <1>11, <1>12 DEF SearchOK

\* KeepNode, when the node gets its slot.
LEMMA KeepNodeSlotKeeps ==
  ASSUME ShapeInv, SearchOK, NEW w \in Workers, KeepNode(w),
         worker[w].length <= numNodesToFind
  PROVE  SearchOK' /\ feasibleNodes' \in Seq(Nodes \cup {None})
         /\ Len(feasibleNodes') = Len(feasibleNodes)
<1> DEFINE K == numNodesToFind
           c == feasibleNodesLen
           n == Current(w)
           l == worker[w].length
<1>1. WorkerStep(w)
  BY DEF WorkerStep
<1>2. /\ K' = K /\ nodes' = nodes /\ ChunkSize' = ChunkSize
      /\ \A i : NodeAt(nodes, i)' = NodeAt(nodes, i)
      /\ \A v \in Workers \ {w} : worker'[v] = worker[v]
      /\ Searching
  BY <1>1, SearchGoesOn DEF Searching
<1>3. /\ PiecesOK /\ CounterOK /\ SlotsOK /\ KeptOK /\ CancelOK /\ ExaminedOK
      /\ K \in Nat /\ c \in Nat /\ Len(nodes) \in Nat /\ l \in Nat
  BY SearchTypes DEF SearchOK
<1>4. /\ worker[w].pc = "counted"
      /\ UNCHANGED <<verdict, feasibleNodesLen, result, errored, nextChunk, cancelled>>
      /\ Turned(w, "ready", worker[w].piece + 1, worker[w].end)
      /\ feasibleNodes' = [feasibleNodes EXCEPT ![l] = n]
  <2>1. ~(l > K)
    BY <1>3
  <2> QED BY <2>1, KeepNodeMoves, Zenon
<1>5. l \in 1 .. K /\ Claims(w, l)
  BY <1>3, <1>4 DEF SlotsOK, Claims
<1>6. /\ feasibleNodes \in Seq(Nodes \cup {None})
      /\ DOMAIN feasibleNodes = 1 .. K
      /\ Len(feasibleNodes) = K
  BY <1>2 DEF ShapeInv, TypeOK, PhaseOK, Searching
<1>7. /\ Has(w, worker[w].piece)
      /\ worker[w].piece \in 0 .. Len(nodes) - 1
      /\ n \in Nodes /\ n # None
      /\ n = NodeAt(nodes, worker[w].piece)
  BY <1>3, <1>4, CurrentNode DEF Current
<1>8. /\ feasibleNodes'[l] = n
      /\ \A k \in 1 .. K : k # l => feasibleNodes'[k] = feasibleNodes[k]
      /\ feasibleNodes[l] = None
  <2> HIDE DEF n
  <2>1. feasibleNodes[l] = None
    BY <1>3, <1>5 DEF SlotsOK
  <2> QED BY <1>4, <1>5, <1>6, <2>1
<1>9. feasibleNodes' \in Seq(Nodes \cup {None}) /\ Len(feasibleNodes') = K
  <2> HIDE DEF n
  <2> QED BY <1>4, <1>5, <1>6, <1>7
<1>10. PiecesOK' /\ \A i \in Nat : Passed(i)' <=> Passed(i) \/ i = worker[w].piece
  BY <1>1, <1>3, <1>4, <1>7, PiecesAdvance
<1>11. CounterOK'
  <2>1. Overs' = Overs
    <3>1. w \notin Overs /\ w \notin Overs'
      BY <1>3, <1>4 DEF Overs, Turned
    <3>2. \A x \in Workers \ {w} : x \in Overs' <=> x \in Overs
      BY <1>1, OthersStay
    <3>3. \A x \in Overs \cup Overs' : x \in Workers
      BY DEF Overs
    <3> QED BY <3>1, <3>2, <3>3
  <2> QED BY <1>2, <1>3, <1>4, <2>1 DEF CounterOK
<1>12. SlotsOK'
  <2>1. \A x \in Workers : \A k : Claims(x, k)' <=> Claims(x, k) /\ x # w
    BY <1>1, <1>4, OthersStay DEF Claims, Turned
  <2>2. \A k : Claims(w, k) => k = l
    BY DEF Claims
  <2>3. ASSUME NEW k \in 1 .. K
        PROVE  /\ k <= c' <=>
                     \/ feasibleNodes'[k] # None
                     \/ \E x \in Workers : Claims(x, k)'
               /\ \A x \in Workers : Claims(x, k)' => feasibleNodes'[k] = None
               /\ \A x, y \in Workers : Claims(x, k)' /\ Claims(y, k)' => x = y
    <3>1. /\ k <= c <=> feasibleNodes[k] # None \/ \E x \in Workers : Claims(x, k)
          /\ \A x \in Workers : Claims(x, k) => feasibleNodes[k] = None
          /\ \A x, y \in Workers : Claims(x, k) /\ Claims(y, k) => x = y
      BY <1>3 DEF SlotsOK
    <3>2. CASE k = l
      <4>1. \A x \in Workers : ~Claims(x, k)'
        BY <1>5, <2>1, <3>1, <3>2
      <4> QED BY <1>4, <1>5, <1>7, <1>8, <3>1, <3>2, <4>1
    <3>3. CASE k # l
      <4>1. \A x \in Workers : Claims(x, k)' <=> Claims(x, k)
        BY <2>1, <2>2, <3>3
      <4> QED BY <1>4, <1>8, <3>1, <3>3, <4>1
    <3> QED BY <3>2, <3>3
  <2>4. \A x \in Workers : worker'[x].pc = "counted" => worker'[x].length >= 1
    BY <1>2, <1>3, <1>4 DEF SlotsOK, Turned
  <2> QED BY <1>2, <2>3, <2>4 DEF SlotsOK
<1>13. KeptOK'
  <2>1. ASSUME NEW x \in Workers, worker'[x].pc = "counted"
        PROVE  Fits(Current(x))'
    <3>1. x # w
      BY <1>4, <2>1 DEF Turned
    <3> QED BY <1>1, <1>2, <1>3, <1>4, <2>1, <3>1, OthersStay DEF KeptOK, Fits
  <2>2. Fits(n)
    BY <1>3, <1>4 DEF KeptOK
  <2> HIDE DEF n
  <2>3. ASSUME NEW k \in 1 .. K, feasibleNodes'[k] # None
        PROVE  /\ Fits(feasibleNodes'[k])
               /\ \E i \in 0 .. Len(nodes) - 1 :
                     Passed(i)' /\ feasibleNodes'[k] = NodeAt(nodes, i)
    <3>1. CASE k = l
      BY <1>7, <1>8, <1>10, <2>2, <3>1
    <3>2. CASE k # l
      <4>1. feasibleNodes'[k] = feasibleNodes[k] /\ feasibleNodes[k] # None
        BY <1>8, <2>3, <3>2
      <4> QED BY <1>3, <1>10, <4>1 DEF KeptOK
    <3> QED BY <3>1, <3>2
  <2>4. ASSUME NEW k \in 1 .. K, k # l, feasibleNodes[k] # None
        PROVE  feasibleNodes[k] # n
    <3>1. PICK i \in 0 .. Len(nodes) - 1 :
             Passed(i) /\ feasibleNodes[k] = NodeAt(nodes, i)
      BY <1>3, <2>4 DEF KeptOK
    <3>2. i # worker[w].piece
      BY <1>7, <3>1 DEF Passed
    <3>3. nodes \in Seq(Nodes) /\ IsInjective(nodes) /\ nextStartNodeIndex \in Nat
      BY SearchTypes DEF ShapeInv, TypeOK, ListOK
    <3> QED BY <1>7, <3>1, <3>2, <3>3, NodeAtOnce
  <2>5. ASSUME NEW k \in 1 .. K, NEW m \in 1 .. K, feasibleNodes'[k] # None,
               feasibleNodes'[k] = feasibleNodes'[m]
        PROVE  k = m
    BY <1>3, <1>7, <1>8, <2>4, <2>5 DEF KeptOK
  <2>6. \A m : Fits(m)' <=> Fits(m)
    BY <1>4 DEF Fits
  <2> QED BY <1>2, <2>1, <2>3, <2>5, <2>6 DEF KeptOK
<1>14. CancelOK'
  <2>1. Dealt' = Dealt
    BY <1>2, <1>4 DEF Dealt
  <2> QED BY <1>2, <1>3, <1>4, <2>1 DEF CancelOK, Turned
<1>15. ExaminedOK'
  <2>1. Fits(n)
    BY <1>3, <1>4 DEF KeptOK
  <2> HIDE DEF n
  <2> SUFFICES ASSUME ~cancelled, NEW i \in 0 .. Len(nodes) - 1, Passed(i)'
               PROVE  Accounted(NodeAt(nodes, i))'
    BY <1>2, <1>4 DEF ExaminedOK
  <2>2. CASE Passed(i)
    <3> DEFINE m == NodeAt(nodes, i)
    <3>1. Accounted(m) /\ m # None
      <4>1. nodes \in Seq(Nodes) /\ nextStartNodeIndex \in Nat
        BY SearchTypes DEF ShapeInv, TypeOK
      <4>2. m \in Nodes
        BY <4>1, NodeAtOnce
      <4> QED BY <1>3, <2>2, <4>2 DEF ExaminedOK, Nodes, None
    <3> HIDE DEF m
    <3>2. ASSUME NEW k \in 1 .. K, feasibleNodes[k] = m
          PROVE  feasibleNodes'[k] = m
      BY <1>8, <3>1, <3>2
    <3>3. m' = m
      BY <1>2 DEF m
    <3>4. /\ m \in DOMAIN verdict'
          /\ verdict'[m] = "fit" => \E k \in 1 .. numNodesToFind' : feasibleNodes'[k] = m
          /\ verdict'[m] # "fit" => m \in result'
      BY <1>2, <1>4, <3>1, <3>2 DEF Accounted
    <3> QED BY <3>3, <3>4 DEF Accounted, m
  <2>3. CASE i = worker[w].piece
    <3>1. NodeAt(nodes, i)' = n
      BY <1>2, <1>7, <2>3
    <3> QED BY <1>2, <1>4, <1>5, <1>8, <2>1, <3>1 DEF Accounted, Fits
  <2> QED BY <1>3, <1>10, <2>2, <2>3
<1> QED BY <1>6, <1>9, <1>10, <1>11, <1>12, <1>13, <1>14, <1>15 DEF SearchOK

\* UncountNode.
LEMMA UncountNodeKeeps ==
  ASSUME ShapeInv, SearchOK, NEW w \in Workers, UncountNode(w)
  PROVE  SearchOK' /\ feasibleNodesLen' \in Nat
<1> DEFINE K == numNodesToFind
           c == feasibleNodesLen
<1>1. WorkerStep(w)
  BY DEF WorkerStep
<1>2. /\ K' = K /\ nodes' = nodes /\ ChunkSize' = ChunkSize
      /\ \A i : NodeAt(nodes, i)' = NodeAt(nodes, i)
      /\ \A v \in Workers \ {w} : worker'[v] = worker[v]
  BY <1>1, SearchGoesOn
<1>3. /\ PiecesOK /\ CounterOK /\ SlotsOK /\ KeptOK /\ CancelOK /\ ExaminedOK
      /\ K \in Nat /\ c \in Nat /\ Len(nodes) \in Nat
  BY SearchTypes DEF SearchOK
<1>4. /\ worker[w].pc = "over"
      /\ c' = c - 1
      /\ Turned(w, "ready", worker[w].piece + 1, worker[w].end)
      /\ UNCHANGED <<verdict, feasibleNodes, result, cancelled, errored, nextChunk>>
  BY UncountNodeMoves
<1>5. PiecesOK' /\ \A i \in Nat : Passed(i)' <=> Passed(i) \/ i = worker[w].piece
  BY <1>1, <1>3, <1>4, CurrentNode, PiecesAdvance
<1>6. w \in Overs /\ cancelled
  BY <1>3, <1>4 DEF Overs, CancelOK
<1>7. c > K /\ Cardinality(Overs) = c - K
  <2>1. Cardinality(Overs) # 0
    BY <1>6, OversFinite, FS_EmptySet
  <2> QED BY <1>3, <2>1 DEF CounterOK
<1>8. CounterOK'
  <2>1. Overs' = Overs \ {w}
    <3>1. w \notin Overs'
      BY <1>4 DEF Overs, Turned
    <3>2. \A x \in Workers \ {w} : x \in Overs' <=> x \in Overs
      BY <1>1, OthersStay
    <3>3. \A x \in Overs \cup Overs' : x \in Workers
      BY DEF Overs
    <3> QED BY <3>1, <3>2, <3>3
  <2>2. Cardinality(Overs)' = c - K - 1
    BY <1>6, <1>7, <2>1, OversFinite, FS_RemoveElement
  <2>3. CASE c - 1 > K
    BY <1>2, <1>3, <1>4, <2>2, <2>3 DEF CounterOK
  <2>4. CASE ~(c - 1 > K)
    <3>1. Cardinality(Overs)' = 0
      BY <1>3, <1>7, <2>2, <2>4
    <3> QED BY <1>2, <1>3, <1>4, <2>4, <3>1 DEF CounterOK
  <2> QED BY <2>3, <2>4
<1>9. SlotsOK'
  <2>1. \A x \in Workers : \A k : Claims(x, k)' <=> Claims(x, k)
    <3>1. \A k : ~Claims(w, k) /\ ~Claims(w, k)'
      BY <1>4 DEF Claims, Turned
    <3> QED BY <1>1, <3>1, OthersStay
  <2>2. \A x \in Workers : worker'[x].pc = "counted" => worker'[x].length >= 1
    BY <1>2, <1>3, <1>4 DEF SlotsOK, Turned
  <2>3. \A k \in 1 .. K : k <= c' <=> k <= c
    BY <1>3, <1>4, <1>7
  <2> QED BY <1>2, <1>3, <1>4, <2>1, <2>2, <2>3 DEF SlotsOK
<1>10. KeptOK'
  <2>1. ASSUME NEW x \in Workers, worker'[x].pc = "counted"
        PROVE  Fits(Current(x))'
    <3>1. x # w
      BY <1>4, <2>1 DEF Turned
    <3> QED BY <1>1, <1>2, <1>3, <1>4, <2>1, <3>1, OthersStay DEF KeptOK, Fits
  <2> QED BY <1>2, <1>3, <1>4, <1>5, <2>1 DEF KeptOK, Fits
<1>11. CancelOK'
  <2>1. Dealt' = Dealt
    BY <1>2, <1>4 DEF Dealt
  <2>2. c - 1 >= K
    BY <1>3, <1>7
  <2> QED BY <1>2, <1>3, <1>4, <1>6, <2>1, <2>2 DEF CancelOK, Turned
<1>12. ExaminedOK'
  BY <1>4, <1>6 DEF ExaminedOK
<1> QED BY <1>3, <1>4, <1>5, <1>7, <1>8, <1>9, <1>10, <1>11, <1>12 DEF SearchOK

\* The goroutines keep their types.
LEMMA WorkerKeepsTypes ==
  ASSUME ShapeInv, SearchOK, NEW w \in Workers, WorkerStep(w)
  PROVE  worker' \in [Workers -> Goroutine] /\ nextChunk' \in 0 .. MaxNodes
<1> DEFINE me == worker[w]
<1>1. /\ worker \in [Workers -> Goroutine] /\ me \in Goroutine
      /\ nextChunk \in 0 .. MaxNodes /\ feasibleNodesLen \in Nat
      /\ Len(nodes) <= MaxNodes
      /\ Len(nodes) \in Nat /\ Dealt \in Nat /\ ChunkSize \in Nat \ {0}
      /\ MaxNodes \in Nat
  BY SearchTypes DEF ShapeInv, TypeOK, ListOK, Goroutine
<1>2. \A to \in Goroutine : Moves(w, to) => worker' \in [Workers -> Goroutine]
  BY <1>1 DEF Moves
<1>3. me.pc \in {"check", "counted", "over"} =>
         me.piece \in 0 .. MaxNodes /\ me.piece + 1 \in 0 .. MaxNodes
  BY <1>1, CurrentNode DEF SearchOK
<1>4. CASE NextPiece(w)
  <2> DEFINE e == Min({Dealt + ChunkSize, Len(nodes)})
  <2>1. [me EXCEPT !.pc = "done"] \in Goroutine
    BY <1>1 DEF Goroutine
  <2>2. [me EXCEPT !.pc = "check", !.piece = me.piece, !.end = me.end] \in Goroutine
    BY <1>1 DEF Goroutine
  <2>3. Dealt < Len(nodes) =>
           /\ [me EXCEPT !.pc = "check", !.piece = Dealt, !.end = e] \in Goroutine
           /\ nextChunk + 1 \in 0 .. MaxNodes
    <3> SUFFICES ASSUME Dealt < Len(nodes)
                 PROVE  /\ [me EXCEPT !.pc = "check", !.piece = Dealt, !.end = e]
                              \in Goroutine
                        /\ nextChunk + 1 \in 0 .. MaxNodes
      OBVIOUS
    <3>1. e \in 0 .. MaxNodes
      <4> DEFINE a == Dealt + ChunkSize
                 b == Len(nodes)
      <4>1. a \in Int /\ b \in Int /\ a >= 0 /\ b >= 0 /\ b <= MaxNodes
        BY <1>1
      <4> HIDE DEF a, b
      <4>2. Min({a, b}) = IF a <= b THEN a ELSE b
        BY <4>1, MaxMinOfTwo
      <4>3. Min({a, b}) \in 0 .. MaxNodes
        BY <1>1, <4>1, <4>2
      <4> QED BY <4>3 DEF a, b
    <3> HIDE DEF e
    <3>2. Dealt \in 0 .. MaxNodes
      BY <1>1
    <3>3. [me EXCEPT !.pc = "check", !.piece = Dealt, !.end = e] \in Goroutine
      BY <1>1, <3>1, <3>2 DEF Goroutine
    <3>4. nextChunk <= nextChunk * ChunkSize
      BY <1>1
    <3>5. nextChunk + 1 \in 0 .. MaxNodes
      BY <1>1, <3>4 DEF Dealt
    <3> QED BY <3>3, <3>5
  <2>4. CASE me.piece < me.end /\ nextChunk' = nextChunk
             /\ \/ Moves(w, [me EXCEPT !.pc = "done"])
                \/ Moves(w, [me EXCEPT !.pc = "check", !.piece = me.piece,
                                       !.end = me.end])
    BY <1>1, <1>2, <2>1, <2>2, <2>4
  <2>5. CASE Dealt < Len(nodes) /\ nextChunk' = nextChunk + 1
             /\ \/ Moves(w, [me EXCEPT !.pc = "done"])
                \/ Moves(w, [me EXCEPT !.pc = "check", !.piece = Dealt, !.end = e])
    BY <1>1, <1>2, <2>1, <2>3, <2>5
  <2>6. CASE nextChunk' = nextChunk /\ Moves(w, [me EXCEPT !.pc = "done"])
    BY <1>1, <1>2, <2>1, <2>6
  <2>7. CASE cancelled
    BY <1>4, <2>4, <2>5, <2>6, <2>7 DEF NextPiece, Dealt
  <2>8. CASE ~cancelled
    BY <1>4, <2>4, <2>5, <2>6, <2>8 DEF NextPiece, Dealt
  <2> QED BY <2>7, <2>8
<1>5. CASE CheckNode(w)
  <2>1. me.pc = "check" /\ nextChunk' = nextChunk
    BY <1>5 DEF CheckNode
  <2>2. PICK v \in Opinions(Current(w)) :
           /\ feasibleNodesLen' = feasibleNodesLen + (IF v = "fit" THEN 1 ELSE 0)
           /\ Moves(w, [me EXCEPT !.pc = IF v = "fit" THEN "counted" ELSE "ready",
                                  !.piece = IF v = "fit" THEN @ ELSE @ + 1,
                                  !.length = feasibleNodesLen'])
    BY <1>5 DEF CheckNode, Current
  <2>3. feasibleNodesLen' \in Nat
    BY <1>1, <2>2
  <2>4. [me EXCEPT !.pc = IF v = "fit" THEN "counted" ELSE "ready",
                   !.piece = IF v = "fit" THEN @ ELSE @ + 1,
                   !.length = feasibleNodesLen'] \in Goroutine
    BY <1>1, <1>3, <2>1, <2>3 DEF Goroutine
  <2> QED BY <1>1, <1>2, <2>1, <2>2, <2>4
<1>6. CASE KeepNode(w)
  <2>1. me.pc = "counted" /\ nextChunk' = nextChunk
    BY <1>6 DEF KeepNode
  <2>2. /\ [me EXCEPT !.pc = "over"] \in Goroutine
        /\ [me EXCEPT !.pc = "ready", !.piece = @ + 1] \in Goroutine
    BY <1>1, <1>3, <2>1 DEF Goroutine
  <2> QED BY <1>1, <1>2, <1>6, <2>1, <2>2 DEF KeepNode
<1>7. CASE UncountNode(w)
  <2>1. me.pc = "over" /\ nextChunk' = nextChunk
    BY <1>7 DEF UncountNode
  <2>2. [me EXCEPT !.pc = "ready", !.piece = @ + 1] \in Goroutine
    BY <1>1, <1>3, <2>1 DEF Goroutine
  <2> QED BY <1>1, <1>2, <1>7, <2>1, <2>2 DEF UncountNode
<1> QED BY <1>4, <1>5, <1>6, <1>7 DEF WorkerStep

\* A goroutine's step.
LEMMA WorkerKeeps ==
  ASSUME ShapeInv, SearchOK, NEW w \in Workers, WorkerStep(w)
  PROVE  ShapeInv' /\ SearchOK'
<1>1. /\ pc = "search" /\ pc' = "search"
      /\ UNCHANGED <<nextStartNodeIndex, fwk, allNodes, preRes, nominee, nodes,
                     feasible, statuses, ext, scores, scoring, outcome>>
      /\ numNodesToFind' = numNodesToFind
  BY SearchGoesOn
<1>2. worker' \in [Workers -> Goroutine] /\ nextChunk' \in 0 .. MaxNodes
  BY WorkerKeepsTypes
<1>3. /\ DOMAIN verdict' \subseteq Nodes
      /\ \A n \in DOMAIN verdict' : verdict'[n] \in {"fit", "unfit", "error"}
      /\ feasibleNodes' \in Seq(Nodes \cup {None})
      /\ Len(feasibleNodes') = Len(feasibleNodes)
      /\ feasibleNodesLen' \in Nat
      /\ result' \subseteq Nodes
      /\ cancelled' \in BOOLEAN
      /\ errored' \in BOOLEAN
      /\ SearchOK'
  <2>1. /\ DOMAIN verdict \subseteq Nodes
        /\ \A n \in DOMAIN verdict : verdict[n] \in {"fit", "unfit", "error"}
        /\ feasibleNodes \in Seq(Nodes \cup {None})
        /\ feasibleNodesLen \in Nat
        /\ result \subseteq Nodes
        /\ cancelled \in BOOLEAN
        /\ errored \in BOOLEAN
    BY DEF ShapeInv, TypeOK
  <2>2. CASE NextPiece(w)
    BY <2>1, <2>2, NextPieceMoves, NextPieceKeeps
  <2>3. CASE CheckNode(w)
    <3>1. Current(w) \in Nodes
      BY <2>3, CheckNodeMoves, CurrentNode DEF SearchOK
    <3>2. SearchOK' /\ feasibleNodes' = feasibleNodes
      BY <2>3, CheckNodeMoves, CheckNodeKeeps
    <3>3. PICK v \in {"fit", "unfit", "error"} :
               /\ DOMAIN verdict' = DOMAIN verdict \cup {Current(w)}
               /\ verdict'[Current(w)] = v
               /\ \A n \in DOMAIN verdict : verdict'[n] = verdict[n]
               /\ errored' = (errored \/ v = "error")
               /\ cancelled' = (cancelled \/ v = "error")
               /\ result' = IF v = "unfit" THEN result \cup {Current(w)} ELSE result
               /\ \/ feasibleNodesLen' = feasibleNodesLen + 1
                  \/ feasibleNodesLen' = feasibleNodesLen
      BY <2>3, CheckNodeMoves
    <3>4. /\ DOMAIN verdict' \subseteq Nodes
          /\ \A n \in DOMAIN verdict' : verdict'[n] \in {"fit", "unfit", "error"}
          /\ feasibleNodesLen' \in Nat
          /\ result' \subseteq Nodes
      BY <2>1, <3>1, <3>3
    <3>5. cancelled' \in BOOLEAN /\ errored' \in BOOLEAN
      BY <3>3
    <3> QED BY <2>1, <3>2, <3>4, <3>5
  <2>4. CASE KeepNode(w)
    <3>1. worker[w].length \in Nat /\ numNodesToFind \in Nat
      BY SearchTypes
    <3>2. /\ UNCHANGED <<verdict, feasibleNodesLen, result, errored>>
          /\ cancelled' \in BOOLEAN
      BY <2>1, <2>4, KeepNodeMoves
    <3>3. CASE worker[w].length > numNodesToFind
      <4>1. feasibleNodes' = feasibleNodes
        <5>1. ~(worker[w].length <= numNodesToFind)
          BY <3>1, <3>3
        <5> QED BY <2>4, <5>1, KeepNodeMoves, Zenon
      <4> QED BY <2>1, <2>4, <3>2, <3>3, <4>1, KeepNodeOverKeeps
    <3>4. CASE worker[w].length <= numNodesToFind
      BY <2>1, <2>4, <3>2, <3>4, KeepNodeSlotKeeps
    <3> QED BY <3>1, <3>3, <3>4
  <2>5. CASE UncountNode(w)
    BY <2>1, <2>5, UncountNodeMoves, UncountNodeKeeps
  <2> QED BY <2>2, <2>3, <2>4, <2>5 DEF WorkerStep
<1>4. TypeOK'
  BY <1>1, <1>2, <1>3 DEF ShapeInv, TypeOK, Goroutine
<1>5. ListOK'
  BY <1>1 DEF ShapeInv, ListOK
<1>6. PhaseOK'
  BY <1>1, <1>3 DEF ShapeInv, PhaseOK
<1> QED BY <1>3, <1>4, <1>5, <1>6 DEF ShapeInv

-----------------------------------------------------------------------------
(* The end of a search.                                                    *)

\* When the goroutines have returned, the slots before the cut are filled, and
\* without a reason to stop nothing was left out.
LEMMA SearchJoined ==
  ASSUME ShapeInv, SearchInv, Joined
  PROVE  /\ feasibleNodesLen \in 0 .. numNodesToFind
         /\ Found \in Seq(Nodes)
         /\ Len(Found) = feasibleNodesLen
         /\ \A k \in 1 .. feasibleNodesLen :
               /\ Found[k] \in Range(nodes) /\ Fits(Found[k])
         /\ IsInjective(Found)
         /\ ~errored => \/ feasibleNodesLen = numNodesToFind
                        \/ \A n \in Range(nodes) :
                              /\ n \in DOMAIN verdict
                              /\ verdict[n] = "fit" => n \in Range(Found)
                              /\ verdict[n] # "fit" => n \in result
<1> DEFINE K == numNodesToFind
           c == feasibleNodesLen
<1>1. /\ PiecesOK /\ CounterOK /\ SlotsOK /\ KeptOK /\ CancelOK /\ ExaminedOK
      /\ K \in Nat /\ c \in Nat /\ Len(nodes) \in Nat /\ Searching
      /\ \A w \in Workers : worker[w].pc = "done"
  BY SearchTypes DEF SearchOK, SearchInv, Joined
<1>2. c <= K
  <2>1. Overs = {}
    BY <1>1 DEF Overs
  <2>2. Cardinality(Overs) = 0
    BY <2>1, FS_EmptySet
  <2> QED BY <1>1, <2>2 DEF CounterOK
<1>3. /\ feasibleNodes \in Seq(Nodes \cup {None})
      /\ Len(feasibleNodes) = K
      /\ nodes \in Seq(Nodes) /\ nextStartNodeIndex \in Nat
  BY <1>1, SearchTypes DEF ShapeInv, TypeOK, PhaseOK, Searching
<1>4. \A k \in 1 .. K : k <= c <=> feasibleNodes[k] # None
  BY <1>1 DEF SlotsOK, Claims
<1>5. \A k \in 1 .. c : k \in 1 .. K /\ feasibleNodes[k] \in Nodes
  BY <1>1, <1>2, <1>3, <1>4
<1>6. Found \in Seq(Nodes) /\ Len(Found) = c /\ \A k \in 1 .. c : Found[k] = feasibleNodes[k]
  <2> DEFINE f == [k \in 1 .. c |-> feasibleNodes[k]]
  <2>1. Found = f
    BY <1>1, <1>2, <1>3 DEF Found
  <2>2. f \in Seq(Nodes) /\ Len(f) = c /\ \A k \in 1 .. c : f[k] = feasibleNodes[k]
    BY <1>1, <1>5
  <2> QED BY <2>1, <2>2
<1>7. ASSUME NEW k \in 1 .. c
      PROVE  Found[k] \in Range(nodes) /\ Fits(Found[k])
  <2>1. k \in 1 .. K /\ feasibleNodes[k] # None /\ Found[k] = feasibleNodes[k]
    BY <1>4, <1>5, <1>6
  <2>2. PICK i \in 0 .. Len(nodes) - 1 : feasibleNodes[k] = NodeAt(nodes, i)
    BY <1>1, <2>1 DEF KeptOK
  <2>3. NodeAt(nodes, i) \in Range(nodes)
    BY <1>3, NodeAtOnce
  <2> QED BY <1>1, <2>1, <2>2, <2>3 DEF KeptOK
<1>8. IsInjective(Found)
  <2> SUFFICES ASSUME NEW k \in 1 .. c, NEW l \in 1 .. c, Found[k] = Found[l]
               PROVE  k = l
    BY <1>1, <1>6 DEF IsInjective
  <2>1. /\ k \in 1 .. K /\ l \in 1 .. K
        /\ feasibleNodes[k] = feasibleNodes[l] /\ feasibleNodes[k] # None
    BY <1>4, <1>5, <1>6
  <2> QED BY <1>1, <2>1 DEF KeptOK
<1>9. ASSUME ~errored, c # K, NEW n \in Range(nodes)
      PROVE  /\ n \in DOMAIN verdict
             /\ verdict[n] = "fit" => n \in Range(Found)
             /\ verdict[n] # "fit" => n \in result
  <2>1. ~cancelled
    BY <1>1, <1>2, <1>9 DEF CancelOK
  <2>2. \A w \in Workers : worker[w].piece = worker[w].end /\ Dealt >= Len(nodes)
    BY <1>1, <2>1 DEF CancelOK
  <2>3. PICK w \in Workers : TRUE
    BY NodeSearchAssumption
  <2>4. PICK i \in 0 .. Len(nodes) - 1 : NodeAt(nodes, i) = n
    BY <1>3, <1>9, NodeAtOnce
  <2>5. Passed(i)
    <3>1. /\ Dealt \in Nat /\ i \in Nat /\ i < Len(nodes)
          /\ \A v \in Workers : worker[v].piece \in Nat /\ worker[v].end \in Nat
      BY <1>1, SearchTypes
    <3> QED BY <1>1, <2>2, <2>3, <3>1 DEF Passed, Has
  <2>6. Accounted(n)
    BY <1>1, <2>1, <2>4, <2>5 DEF ExaminedOK
  <2>7. ASSUME NEW k \in 1 .. K, feasibleNodes[k] = n PROVE n \in Range(Found)
    <3>1. n # None
      <4>1. n \in Nodes
        BY <1>3, <2>4, NodeAtOnce
      <4> QED BY <4>1 DEF Nodes, None
    <3>2. k \in 1 .. c
      BY <1>1, <1>4, <2>7, <3>1
    <3> QED BY <1>6, <2>7, <3>2 DEF Range
  <2> QED BY <2>6, <2>7 DEF Accounted
<1> QED BY <1>1, <1>2, <1>6, <1>7, <1>8, <1>9

\* The orders of a set of nodes are lists without repetitions.
LEMMA OrdersAreLists ==
  ASSUME NEW S \in SUBSET Nodes, NEW list \in Orders(S)
  PROVE  /\ list \in Seq(Nodes) /\ Range(list) = S
         /\ Len(list) <= MaxNodes /\ IsInjective(list)
<1>1. MaxNodes \in Nat
  BY NodeSearchAssumption
<1>2. IsFiniteSet(Nodes) /\ Cardinality(Nodes) = MaxNodes
  BY <1>1, FS_Interval DEF Nodes
<1>3. IsFiniteSet(S) /\ Cardinality(S) \in Nat /\ Cardinality(S) <= MaxNodes
  BY <1>2, FS_Subset, FS_CardinalityType
<1> DEFINE n == Cardinality(S)
<1>4. list \in [1 .. n -> S] /\ Range(list) = S
  BY DEF Orders
<1>5. list \in Seq(Nodes) /\ Len(list) = n
  BY <1>3, <1>4
<1>6. IsInjective(list)
  <2>1. list \in Surjection(1 .. n, S)
    BY <1>4 DEF Surjection, Range
  <2>2. IsFiniteSet(1 .. n) /\ Cardinality(1 .. n) = n
    BY <1>3, FS_Interval
  <2>3. list \in Injection(1 .. n, S)
    BY <1>3, <2>1, <2>2, FS_SurjSameCardinalityImpliesInj
  <2> QED BY <1>4, <2>3 DEF Injection, IsInjective
<1> QED BY <1>3, <1>4, <1>5, <1>6

-----------------------------------------------------------------------------
(* The other steps.                                                        *)

\* What a search and a cycle start from, and what a cycle ends with.
NodeInv ==
    /\ ShapeInv /\ SearchInv /\ FeasibleOK /\ ExplainedOK
    /\ FitErrorIsExplained /\ SuggestedHostFits

\* A search that starts has dealt out nothing.
LEMMA SearchStarts ==
  ASSUME NodeInv, pc \in {"nominated", "find"},
         NEW list \in Seq(Nodes), IsInjective(list), Len(list) <= MaxNodes,
         \A k \in DOMAIN list : list[k] < allNodes,
         NEW trying \in Nodes \cup {None},
         findNodesThatPassFilters(trying, list)
  PROVE  NodeInv'
<1> DEFINE K == NodesToFind(Len(list))
<1>1. TypeOK /\ ListOK /\ PhaseOK
  BY DEF NodeInv, ShapeInv
<1>2. /\ nodes' = list /\ nominee' = trying /\ ext' = 1
      /\ result' = {} /\ cancelled' = FALSE /\ errored' = FALSE /\ nextChunk' = 0
      /\ UNCHANGED <<fwk, allNodes, preRes, verdict, scores, scoring, outcome>>
  BY DEF findNodesThatPassFilters, podVars, scoreVars
<1>3. /\ Len(list) \in Nat /\ fwk \in Profiles /\ MaxNodes \in Nat
      /\ nextStartNodeIndex \in Nat
      /\ allNodes \in Nat \ {0} /\ allNodes <= MaxNodes /\ scores = <<>>
      /\ \A w \in Workers : worker[w].pc = "done"
      /\ DOMAIN list = 1 .. Len(list)
  BY <1>1, NodeSearchAssumption DEF TypeOK, PhaseOK, Nodes
<1>4. /\ K \in Nat /\ (Len(list) > 0 => K > 0) /\ (~fwk.filter => K <= Len(list))
  BY <1>3, NodesToFindType
<1>5. numNodesToFind' = K
  BY <1>2 DEF numNodesToFind, NodesToFind, hasScoring, hasExtenderFilters
<1>6. ListOK'
  BY <1>2, <1>3 DEF ListOK
<1>7. 1 \in 1 .. Len(Extenders) + 1
  BY NodeSearchAssumption
<1>10. cancelled' \in BOOLEAN /\ errored' \in BOOLEAN
  BY <1>2
<1>11. worker' \in [Workers -> Goroutine]
  <2>1. worker \in [Workers -> Goroutine]
    BY <1>1 DEF TypeOK, Goroutine
  <2>2. [Idle EXCEPT !.pc = "ready"] \in Goroutine
    BY <1>3 DEF Idle, Goroutine
  <2>3. \/ worker' = worker
        \/ worker' = [w \in Workers |-> [Idle EXCEPT !.pc = "ready"]]
    BY DEF findNodesThatPassFilters
  <2> QED BY <2>1, <2>2, <2>3
<1> HIDE DEF K
<1>8. CASE fwk.filter
  <2>1. /\ feasibleNodes' = [k \in 1 .. K |-> None]
        /\ feasibleNodesLen' = 0
        /\ worker' = [w \in Workers |-> [Idle EXCEPT !.pc = "ready"]]
        /\ pc' = "search"
        /\ feasible' = <<>>
        /\ UNCHANGED <<nextStartNodeIndex, statuses>>
    BY <1>8 DEF findNodesThatPassFilters, K
  <2>2. \A w \in Workers : /\ worker'[w].pc = "ready" /\ worker'[w].piece = 0
                           /\ worker'[w].end = 0
    BY <2>1 DEF Idle
  <2>3. /\ feasibleNodes' \in Seq(Nodes \cup {None}) /\ Len(feasibleNodes') = K
        /\ \A k \in 1 .. K : feasibleNodes'[k] = None
    BY <1>4, <2>1
  <2>4. TypeOK'
    <3>1. nextChunk' \in 0 .. MaxNodes /\ feasibleNodesLen' \in Nat
      BY <1>2, <1>3, <2>1
    <3>2. result' \subseteq Nodes /\ feasible' \in Seq(Nodes)
      BY <1>2, <2>1
    <3>3. nextStartNodeIndex' \in Nodes /\ statuses' \subseteq Nodes
      BY <1>1, <2>1 DEF TypeOK
    <3> QED BY <1>1, <1>2, <1>7, <1>10, <1>11, <2>1, <2>3, <3>1, <3>2, <3>3 DEF TypeOK, Goroutine
  <2>5. PhaseOK'
    <3>1. pc' = "search" /\ scores' = <<>> /\ allNodes' > 0
      BY <1>2, <1>3, <2>1
    <3>2. Len(feasibleNodes)' = numNodesToFind' /\ fwk'.filter
      BY <1>2, <1>5, <1>8, <2>3
    <3> QED BY <3>1, <3>2 DEF PhaseOK
  <2>6. Dealt' = 0
    <3>1. ChunkSize' \in Nat
      BY <1>2, <1>3, ChunkSizeType DEF ChunkSize
    <3>2. Dealt' = nextChunk' * ChunkSize'
      BY DEF Dealt
    <3>3. \A c \in Nat : 0 * c = 0
      OBVIOUS
    <3>4. 0 * ChunkSize' = 0
      BY <3>1, <3>3, Zenon
    <3>5. nextChunk' = 0
      BY <1>2
    <3> QED BY <3>2, <3>4, <3>5, Zenon
  <2>7. PiecesOK'
    <3>1. \A w \in Workers : \A i : ~Has(w, i)' \/ (0 <= i /\ i < 0)
      BY <2>2 DEF Has
    <3>2. \A w \in Workers, i \in Nat : ~Has(w, i)'
      BY <3>1
    <3> QED BY <1>2, <1>3, <2>2, <2>6, <3>2 DEF PiecesOK
  <2>8. CounterOK'
    <3>1. Overs' = {}
      BY <2>2 DEF Overs
    <3>2. Cardinality(Overs)' = 0
      BY <3>1, FS_EmptySet
    <3> QED BY <1>4, <1>5, <2>1, <3>2 DEF CounterOK
  <2>9. SlotsOK'
    <3>1. \A w \in Workers : \A k : ~Claims(w, k)'
      BY <2>2 DEF Claims
    <3>2. ASSUME NEW k \in 1 .. K PROVE ~(k <= feasibleNodesLen') /\ feasibleNodes'[k] = None
      BY <1>4, <2>1, <2>3
    <3> QED BY <1>5, <2>2, <3>1, <3>2 DEF SlotsOK
  <2>10. KeptOK'
    BY <1>5, <2>2, <2>3 DEF KeptOK
  <2>11. CancelOK'
    BY <1>2, <2>2 DEF CancelOK
  <2>12. ExaminedOK'
    BY <1>2, <1>3, <2>6 DEF ExaminedOK, Passed
  <2>13. SearchInv'
    BY <2>7, <2>8, <2>9, <2>10, <2>11, <2>12 DEF SearchInv, SearchOK
  <2>14. FeasibleOK' /\ ExplainedOK' /\ FitErrorIsExplained' /\ SuggestedHostFits'
    BY <2>1 DEF FeasibleOK, ExplainedOK, FitErrorIsExplained, SuggestedHostFits
  <2> QED BY <1>6, <2>4, <2>5, <2>13, <2>14 DEF NodeInv, ShapeInv
<1>9. CASE ~fwk.filter
  <2>1. /\ feasibleNodes' = [k \in 1 .. K |-> NodeAt(list, k - 1)]
        /\ feasibleNodesLen' = K
        /\ feasible' = feasibleNodes'
        /\ statuses' = statuses
        /\ nextStartNodeIndex' = IF trying # None THEN nextStartNodeIndex
                                 ELSE NextStart(feasible', statuses)
        /\ pc' = "extend"
        /\ UNCHANGED worker
    BY <1>9 DEF findNodesThatPassFilters, FiltersReturn, K
  <2>2. ASSUME NEW k \in 1 .. K
        PROVE  NodeAt(list, k - 1) \in Nodes /\ NodeAt(list, k - 1) < allNodes
    <3>1. k - 1 \in 0 .. Len(list) - 1
      BY <1>3, <1>4, <1>9
    <3>2. NodeAt(list, k - 1) \in Range(list) /\ NodeAt(list, k - 1) \in Nodes
      BY <1>3, <3>1, NodeAtOnce
    <3> QED BY <3>2 DEF Range
  <2>3. /\ feasible' \in Seq(Nodes) /\ DOMAIN feasible' = 1 .. K /\ Len(feasible') = K
        /\ feasible' \in Seq(Nodes \cup {None})
        /\ \A k \in 1 .. K : feasible'[k] < allNodes
    BY <1>4, <2>1, <2>2
  <2>4. nextStartNodeIndex' \in Nodes
    <3>1. IsFiniteSet(statuses)
      <4>1. IsFiniteSet(Nodes)
        BY <1>3, FS_Interval DEF Nodes
      <4>2. statuses \in SUBSET Nodes
        BY <1>1 DEF TypeOK
      <4> QED BY <4>1, <4>2, FS_Subset
    <3>2. Cardinality(statuses) \in Nat /\ Len(feasible') \in Nat
      BY <1>4, <2>3, <3>1, FS_CardinalityType
    <3>3. (nextStartNodeIndex + Len(feasible') + Cardinality(statuses)) % allNodes
             \in 0 .. MaxNodes - 1
      BY <1>3, <3>2
    <3> QED BY <1>1, <2>1, <3>3 DEF NextStart, Nodes, TypeOK
  <2>5. TypeOK'
    <3>1. feasibleNodesLen' \in Nat /\ feasibleNodes' \in Seq(Nodes \cup {None})
      BY <1>4, <2>1, <2>3
    <3>2. nextChunk' \in 0 .. MaxNodes
      BY <1>2, <1>3
    <3>3. result' \subseteq Nodes /\ statuses' \subseteq Nodes
      BY <1>1, <1>2, <2>1 DEF TypeOK
    <3> QED BY <1>1, <1>2, <1>7, <1>10, <1>11, <2>1, <2>3, <2>4, <3>1, <3>2, <3>3 DEF TypeOK
  <2>6. PhaseOK'
    BY <1>2, <1>3, <2>1 DEF PhaseOK
  <2>7. SearchInv'
    BY <2>1 DEF SearchInv, Searching
  <2>8. FeasibleOK'
    BY <1>2, <1>9, <2>3 DEF FeasibleOK
  <2>9. ExplainedOK'
    <3>1. CASE K = 0
      <4>1. Len(list) = 0
        BY <1>3, <1>4, <3>1
      <4>2. Range(nodes)' = {}
        BY <1>2, <1>3, <4>1 DEF Range
      <4> QED BY <4>2 DEF ExplainedOK, Explained
    <3>2. CASE K # 0
      <4>1. feasible' # <<>>
        BY <1>4, <2>3, <3>2
      <4> QED BY <1>5, <2>1, <4>1 DEF ExplainedOK, Explained
    <3> QED BY <3>1, <3>2
  <2>10. FitErrorIsExplained' /\ SuggestedHostFits'
    BY <2>1 DEF FitErrorIsExplained, SuggestedHostFits
  <2> QED BY <1>6, <2>5, <2>6, <2>7, <2>8, <2>9, <2>10 DEF NodeInv, ShapeInv
<1> QED BY <1>8, <1>9


\* A cycle starts with nothing of the one before but the start of its searches.
LEMMA CycleStarts ==
  ASSUME NodeInv, NEW p \in Profiles, NEW n \in SnapshotSizes, SchedulePod(p, n)
  PROVE  NodeInv'
<1>1. TypeOK
  BY DEF NodeInv, ShapeInv
<1>2. n \in 0 .. MaxNodes /\ MaxNodes \in Nat /\ 1 \in 1 .. Len(Extenders) + 1
  BY NodeSearchAssumption
<1>3. /\ fwk' = p /\ allNodes' = n /\ preRes' = NoRes /\ nominee' = None
      /\ nodes' = <<>> /\ verdict' = <<>> /\ feasibleNodes' = <<>>
      /\ feasibleNodesLen' = 0 /\ result' = {} /\ cancelled' = FALSE
      /\ errored' = FALSE /\ nextChunk' = 0
      /\ worker' = [w \in Workers |-> Idle]
      /\ feasible' = <<>> /\ statuses' = {} /\ ext' = 1 /\ scores' = <<>>
      /\ scoring' = {} /\ nextStartNodeIndex' = nextStartNodeIndex
  BY DEF SchedulePod
<1>4. \/ n > 0 /\ pc' = "prefilter" /\ outcome' = [kind |-> "none", host |-> None]
      \/ n = 0 /\ pc' = "done" /\ outcome' = [kind |-> "error", host |-> None]
  BY DEF SchedulePod, Return, Returned
<1>5. TypeOK'
  <2>1. cancelled' \in BOOLEAN /\ errored' \in BOOLEAN
    BY <1>3
  <2>2. worker' \in [Workers -> Goroutine]
    BY <1>2, <1>3 DEF Idle, Goroutine
  <2>3. preRes' \in [all : BOOLEAN, names : SUBSET Nodes]
    BY <1>3 DEF NoRes
  <2>4. /\ pc' \in {"prefilter", "done"}
        /\ outcome' \in [kind : {"none", "host", "fiterror", "error"},
                         host : Nodes \cup {None}]
    BY <1>4
  <2>5. /\ nodes' \in Seq(Nodes) /\ feasibleNodes' \in Seq(Nodes \cup {None})
        /\ feasible' \in Seq(Nodes)
        /\ DOMAIN verdict' = {} /\ DOMAIN scores' = {}
    BY <1>3
  <2>6. feasibleNodesLen' \in Nat /\ nextChunk' \in 0 .. MaxNodes
    BY <1>2, <1>3
  <2>7. nextStartNodeIndex' \in Nodes
    BY <1>1, <1>3 DEF TypeOK
  <2> QED BY <1>2, <1>3, <2>1, <2>2, <2>3, <2>4, <2>5, <2>6, <2>7 DEF TypeOK, Goroutine
<1>6. ListOK'
  BY <1>2, <1>3 DEF ListOK, IsInjective
<1>7. PhaseOK'
  <2>1. \A w \in Workers : worker'[w].pc = "done"
    BY <1>3 DEF Idle
  <2>2. pc' \in {"prefilter", "done"} /\ (pc' # "done" => allNodes' > 0) /\ scores' = <<>>
    BY <1>3, <1>4
  <2> QED BY <2>1, <2>2 DEF PhaseOK
<1>8. SearchInv'
  BY <1>4 DEF SearchInv, Searching
<1>9. FeasibleOK' /\ ExplainedOK' /\ FitErrorIsExplained' /\ SuggestedHostFits'
  BY <1>3, <1>4 DEF FeasibleOK, ExplainedOK, FitErrorIsExplained, SuggestedHostFits
<1> QED BY <1>5, <1>6, <1>7, <1>8, <1>9 DEF NodeInv, ShapeInv

\* The PreFilter plugins choose the nodes that findNodesThatFitPod may search.
LEMMA PreFilterChooses ==
  ASSUME NodeInv, NEW res \in [all : BOOLEAN, names : SUBSET Nodes],
         NEW nnn \in Nodes \cup {None}, PreFilter(res, nnn)
  PROVE  NodeInv'
<1>1. /\ TypeOK /\ ListOK /\ PhaseOK /\ FeasibleOK
      /\ pc = "prefilter" /\ pc' = (IF nnn = None THEN "find" ELSE "nominated")
      /\ preRes' = res /\ nominee' = nnn
      /\ UNCHANGED <<nextStartNodeIndex, fwk, allNodes, searchVars, feasible,
                     statuses, ext, scoreVars, outcome>>
  BY DEF NodeInv, ShapeInv, PreFilter
<1> USE DEF searchVars, sharedVars, scoreVars
<1>2. TypeOK'
  BY <1>1 DEF TypeOK
<1>3. ListOK' /\ FeasibleOK'
  BY <1>1 DEF ListOK, FeasibleOK, Fits
<1>4. PhaseOK'
  BY <1>1 DEF PhaseOK
<1>5. SearchInv' /\ ExplainedOK' /\ FitErrorIsExplained' /\ SuggestedHostFits'
  BY <1>1 DEF SearchInv, Searching, ExplainedOK, FitErrorIsExplained, SuggestedHostFits
<1> QED BY <1>2, <1>3, <1>4, <1>5 DEF NodeInv, ShapeInv

\* When they turn the pod down, every node of the snapshot has a status.
LEMMA PreFilterRejects ==
  ASSUME NodeInv, PreFilterFails
  PROVE  NodeInv'
<1>1. /\ TypeOK /\ ListOK /\ PhaseOK /\ FeasibleOK
      /\ pc = "prefilter"
      /\ UNCHANGED <<nextStartNodeIndex, fwk, allNodes, preRes, nominee, searchVars,
                     feasible, ext, scoreVars>>
  BY DEF NodeInv, ShapeInv, PreFilterFails, podVars
<1>2. \/ pc' = "pick" /\ statuses' = 0 .. allNodes - 1 /\ outcome' = outcome
      \/ /\ pc' = "done" /\ outcome' = [kind |-> "error", host |-> None]
         /\ statuses' = statuses
  BY DEF PreFilterFails, Return
<1> USE DEF searchVars, sharedVars, scoreVars
<1>3. statuses' \subseteq Nodes
  <2>1. allNodes \in 0 .. MaxNodes /\ MaxNodes \in Nat /\ statuses \subseteq Nodes
    BY <1>1, NodeSearchAssumption DEF TypeOK
  <2>2. 0 .. allNodes - 1 \subseteq 0 .. MaxNodes - 1
    BY <2>1
  <2> QED BY <1>2, <2>1, <2>2 DEF Nodes
<1>4. outcome' \in [kind : {"none", "host", "fiterror", "error"}, host : Nodes \cup {None}]
  BY <1>1, <1>2 DEF TypeOK
<1>5. TypeOK'
  BY <1>1, <1>2, <1>3, <1>4 DEF TypeOK
<1>6. ListOK' /\ FeasibleOK'
  BY <1>1 DEF ListOK, FeasibleOK, Fits
<1>7. PhaseOK'
  BY <1>1, <1>2 DEF PhaseOK
<1>8. ExplainedOK'
  <2> SUFFICES ASSUME pc' = "pick" PROVE Explained'
    BY <1>2 DEF ExplainedOK
  <2>1. statuses' = 0 .. allNodes - 1
    BY <1>2
  <2>2. Range(nodes) \subseteq 0 .. allNodes - 1
    <3>1. nodes \in Seq(Nodes) /\ allNodes \in Nat /\ MaxNodes \in Nat
      BY <1>1, NodeSearchAssumption DEF TypeOK
    <3>2. \A k \in DOMAIN nodes : nodes[k] \in 0 .. MaxNodes - 1 /\ nodes[k] < allNodes
      BY <1>1, <3>1 DEF ListOK, Nodes
    <3> QED BY <3>1, <3>2 DEF Range
  <2> QED BY <1>1, <2>1, <2>2 DEF Explained
<1>9. SearchInv' /\ FitErrorIsExplained' /\ SuggestedHostFits'
  BY <1>2 DEF SearchInv, Searching, FitErrorIsExplained, SuggestedHostFits
<1> QED BY <1>5, <1>6, <1>7, <1>8, <1>9 DEF NodeInv, ShapeInv

\* The search of the nominated node, if it still exists.
LEMMA NominatedNodeTried ==
  ASSUME NodeInv, evaluateNominatedNode
  PROVE  NodeInv'
<1>1. /\ TypeOK /\ ListOK /\ PhaseOK /\ FeasibleOK /\ pc = "nominated"
      /\ nominee \in Nodes /\ MaxNodes \in Nat \ {0}
  BY NodeSearchAssumption DEF NodeInv, ShapeInv, TypeOK, PhaseOK, evaluateNominatedNode
<1>2. CASE nominee < allNodes /\ findNodesThatPassFilters(nominee, <<nominee>>)
  <2>1. /\ <<nominee>> \in Seq(Nodes) /\ Len(<<nominee>>) <= MaxNodes
        /\ IsInjective(<<nominee>>)
        /\ \A k \in DOMAIN <<nominee>> : <<nominee>>[k] < allNodes
    BY <1>1, <1>2 DEF IsInjective
  <2> QED BY <1>1, <1>2, <2>1, SearchStarts
<1>3. CASE /\ nominee >= allNodes /\ pc' = "find"
           /\ UNCHANGED <<nextStartNodeIndex, podVars, nominee, searchVars, feasible,
                          statuses, ext, scoreVars, outcome>>
  <2> USE DEF podVars, searchVars, sharedVars, scoreVars
  <2>1. TypeOK'
    BY <1>1, <1>3 DEF TypeOK
  <2>2. ListOK' /\ FeasibleOK'
    BY <1>1, <1>3 DEF ListOK, FeasibleOK, Fits
  <2>3. PhaseOK'
    BY <1>1, <1>3 DEF PhaseOK
  <2>4. SearchInv' /\ ExplainedOK' /\ FitErrorIsExplained' /\ SuggestedHostFits'
    BY <1>3 DEF SearchInv, Searching, ExplainedOK, FitErrorIsExplained, SuggestedHostFits
  <2> QED BY <2>1, <2>2, <2>3, <2>4 DEF NodeInv, ShapeInv
<1> QED BY <1>2, <1>3 DEF evaluateNominatedNode

\* The search of all nodes, or of the existing ones that PreFilter left.
LEMMA AllNodesSearched ==
  ASSUME NodeInv, findNodesThatFitPod
  PROVE  NodeInv'
<1>1. /\ TypeOK /\ pc = "find" /\ MaxNodes \in Nat
      /\ allNodes \in 0 .. MaxNodes /\ None \in Nodes \cup {None}
  BY NodeSearchAssumption DEF NodeInv, ShapeInv, TypeOK, findNodesThatFitPod
<1>2. PICK list \in IF preRes.all
                    THEN {[k \in 1 .. allNodes |-> k - 1]}
                    ELSE Orders({n \in preRes.names : n < allNodes}) :
           findNodesThatPassFilters(None, list)
  BY DEF findNodesThatFitPod
<1>3. CASE preRes.all
  <2>1. list = [k \in 1 .. allNodes |-> k - 1]
    BY <1>2, <1>3
  <2>2. \A k \in 1 .. allNodes : k - 1 \in Nodes /\ k - 1 < allNodes
    BY <1>1 DEF Nodes
  <2>3. /\ list \in Seq(Nodes) /\ Len(list) = allNodes /\ DOMAIN list = 1 .. allNodes
        /\ \A k \in 1 .. allNodes : list[k] = k - 1
    BY <1>1, <2>1, <2>2
  <2>4. IsInjective(list)
    BY <1>1, <2>3 DEF IsInjective
  <2> QED BY <1>1, <1>2, <2>2, <2>3, <2>4, SearchStarts
<1>4. CASE ~preRes.all
  <2> DEFINE S == {n \in preRes.names : n < allNodes}
  <2>1. S \in SUBSET Nodes
    BY <1>1 DEF TypeOK
  <2>2. list \in Orders(S)
    BY <1>2, <1>4
  <2>3. /\ list \in Seq(Nodes) /\ Range(list) = S
        /\ Len(list) <= MaxNodes /\ IsInjective(list)
    BY <2>1, <2>2, OrdersAreLists
  <2>4. \A k \in DOMAIN list : list[k] < allNodes
    BY <2>3 DEF Range
  <2> QED BY <1>1, <1>2, <2>3, <2>4, SearchStarts
<1> QED BY <1>3, <1>4

\* What the goroutines found goes to findNodesThatPassExtenders.
LEMMA SearchEnds ==
  ASSUME NodeInv, JoinSearch
  PROVE  NodeInv'
<1>1. /\ ShapeInv /\ SearchInv /\ Joined /\ TypeOK /\ ListOK /\ PhaseOK
      /\ pc = "search"
      /\ feasible' = Found /\ statuses' = statuses \cup result
      /\ nextStartNodeIndex' = IF nominee # None THEN nextStartNodeIndex
                               ELSE NextStart(Found, statuses \cup result)
      /\ UNCHANGED <<fwk, allNodes, preRes, nominee, searchVars, ext, scoreVars>>
  BY DEF NodeInv, ShapeInv, JoinSearch, FiltersReturn, Found, podVars, Joined, Searching
<1>2. \/ ~errored /\ pc' = "extend" /\ outcome' = outcome
      \/ pc' = "find" /\ outcome' = outcome
      \/ pc' = "done" /\ outcome' = [kind |-> "error", host |-> None]
  BY DEF JoinSearch, Return
<1>3. /\ feasibleNodesLen \in 0 .. numNodesToFind
      /\ Found \in Seq(Nodes)
      /\ Len(Found) = feasibleNodesLen
      /\ \A k \in 1 .. feasibleNodesLen : Found[k] \in Range(nodes) /\ Fits(Found[k])
      /\ ~errored => \/ feasibleNodesLen = numNodesToFind
                     \/ \A n \in Range(nodes) :
                           /\ n \in DOMAIN verdict
                           /\ verdict[n] = "fit" => n \in Range(Found)
                           /\ verdict[n] # "fit" => n \in result
  BY <1>1, SearchJoined
<1>4. /\ feasibleNodesLen \in Nat /\ numNodesToFind \in Nat
      /\ DOMAIN Found = 1 .. feasibleNodesLen
  BY <1>1, <1>3, SearchTypes
<1> USE DEF searchVars, sharedVars, scoreVars
<1>5. statuses' \subseteq Nodes
  BY <1>1 DEF TypeOK
<1>6. nextStartNodeIndex' \in Nodes
  <2>1. /\ MaxNodes \in Nat /\ allNodes \in Nat \ {0} /\ allNodes <= MaxNodes
        /\ nextStartNodeIndex \in Nat /\ nextStartNodeIndex \in Nodes
    BY <1>1, NodeSearchAssumption DEF TypeOK, PhaseOK, Nodes
  <2>2. Cardinality(statuses \cup result) \in Nat
    <3>1. IsFiniteSet(Nodes)
      BY <2>1, FS_Interval DEF Nodes
    <3>2. IsFiniteSet(statuses \cup result)
      BY <1>1, <1>5, <3>1, FS_Subset
    <3> QED BY <3>2, FS_CardinalityType
  <2>3. (nextStartNodeIndex + Len(Found) + Cardinality(statuses \cup result)) % allNodes
           \in 0 .. MaxNodes - 1
    BY <1>3, <1>4, <2>1, <2>2
  <2> QED BY <1>1, <2>1, <2>3 DEF NextStart, Nodes
<1>7. outcome' \in [kind : {"none", "host", "fiterror", "error"}, host : Nodes \cup {None}]
  BY <1>1, <1>2 DEF TypeOK
<1>8. TypeOK'
  BY <1>1, <1>2, <1>3, <1>5, <1>6, <1>7 DEF TypeOK
<1>9. ListOK'
  BY <1>1 DEF ListOK
<1>10. PhaseOK'
  BY <1>1, <1>2 DEF PhaseOK, Joined
<1>11. FeasibleOK'
  <2> SUFFICES ASSUME NEW k \in 1 .. feasibleNodesLen
               PROVE  Found[k] < allNodes /\ Fits(Found[k])
    BY <1>1, <1>4 DEF FeasibleOK, Fits
  <2>1. Found[k] \in Range(nodes) /\ Fits(Found[k])
    BY <1>3
  <2> QED BY <1>1, <2>1 DEF ListOK, Range
<1>12. ExplainedOK'
  <2> SUFFICES ASSUME ~errored, feasible' = Found PROVE Explained'
    BY <1>1, <1>2 DEF ExplainedOK
  <2>1. UNCHANGED <<nodes, feasibleNodesLen, numNodesToFind, hasExtenderFilters>>
    BY <1>1 DEF numNodesToFind, NodesToFind, hasScoring, hasExtenderFilters
  <2>2. CASE feasibleNodesLen = numNodesToFind /\ numNodesToFind # 0
    <3>1. Found # <<>>
      BY <1>3, <1>4, <2>2
    <3> QED BY <2>1, <2>2, <3>1 DEF Explained
  <2>3. CASE numNodesToFind = 0
    <3>1. Len(nodes) = 0
      BY <1>1, <2>3, NodesToFindType DEF numNodesToFind, TypeOK
    <3>2. Range(nodes) = {}
      BY <1>1, <3>1 DEF Range, TypeOK
    <3> QED BY <2>1, <3>2 DEF Explained
  <2>4. CASE feasibleNodesLen # numNodesToFind
    <3>1. \A n \in Range(nodes) : n \in Range(Found) \/ n \in result
      BY <1>3, <2>4
    <3>2. Range(nodes) \subseteq statuses' \cup Range(feasible')
      BY <1>1, <3>1
    <3> QED BY <2>1, <3>2 DEF Explained
  <2> QED BY <2>2, <2>3, <2>4
<1>13. SearchInv' /\ FitErrorIsExplained' /\ SuggestedHostFits'
  BY <1>2 DEF SearchInv, Searching, FitErrorIsExplained, SuggestedHostFits
<1> QED BY <1>8, <1>9, <1>10, <1>11, <1>12, <1>13 DEF NodeInv, ShapeInv

\* Back from the extenders, with the nodes they left.
LEMMA ExtendersGoOn ==
  ASSUME NodeInv, ExtendersReturn
  PROVE  NodeInv'
<1>1. /\ TypeOK /\ ListOK /\ PhaseOK /\ FeasibleOK /\ ExplainedOK /\ pc = "extend"
      /\ pc' \in {"find", "pick"}
      /\ UNCHANGED <<nextStartNodeIndex, fwk, allNodes, preRes, nominee, searchVars,
                     feasible, statuses, ext, scoreVars, outcome>>
  BY DEF NodeInv, ShapeInv, ExtendersReturn, podVars
<1> USE DEF searchVars, sharedVars, scoreVars
<1>2. TypeOK'
  BY <1>1 DEF TypeOK
<1>3. ListOK' /\ FeasibleOK'
  BY <1>1 DEF ListOK, FeasibleOK, Fits
<1>4. PhaseOK'
  BY <1>1 DEF PhaseOK
<1>5. ExplainedOK'
  BY <1>1 DEF ExplainedOK, Explained, numNodesToFind, NodesToFind, hasScoring,
              hasExtenderFilters
<1>6. SearchInv' /\ FitErrorIsExplained' /\ SuggestedHostFits'
  BY <1>1 DEF SearchInv, Searching, FitErrorIsExplained, SuggestedHostFits
<1> QED BY <1>2, <1>3, <1>4, <1>5, <1>6 DEF NodeInv, ShapeInv

\* The nodes an extender turns down have a status.
LEMMA ExtenderTurnsDown ==
  ASSUME NodeInv, NEW kept \in SUBSET Nodes, ExtenderFilters(kept)
  PROVE  NodeInv'
<1>1. /\ TypeOK /\ ListOK /\ PhaseOK /\ FeasibleOK /\ ExplainedOK /\ pc = "extend"
      /\ kept \subseteq Range(feasible) /\ ext <= Len(Extenders)
      /\ statuses' = statuses \cup (Range(feasible) \ kept)
      /\ ext' = ext + 1
      /\ UNCHANGED <<pc, nextStartNodeIndex, fwk, allNodes, preRes, nominee,
                     searchVars, scoreVars, outcome>>
  <2>1. ext \in Nat /\ Len(Extenders) \in Nat
    BY NodeSearchAssumption DEF NodeInv, ShapeInv, TypeOK
  <2> QED BY <2>1 DEF NodeInv, ShapeInv, ExtenderFilters, ExtendersEnd, Refused, podVars
<1>2. /\ feasible' \in Seq(Nodes) /\ Range(feasible') = kept
      /\ feasible' = feasible \/ hasExtenderFilters
  <2>1. CASE Extenders[ext].interested /\ Extenders[ext].filter
    <3>1. ext \in 1 .. Len(Extenders) /\ Extenders[ext] \in Range(Extenders)
      BY <1>1, NodeSearchAssumption DEF TypeOK, Range
    <3>2. hasExtenderFilters
      BY <2>1, <3>1 DEF hasExtenderFilters
    <3>3. feasible' \in Orders(kept)
      BY <2>1 DEF ExtenderFilters
    <3> QED BY <3>2, <3>3, OrdersAreLists
  <2>2. CASE ~(Extenders[ext].interested /\ Extenders[ext].filter)
    BY <1>1, <2>2 DEF ExtenderFilters, TypeOK
  <2> QED BY <2>1, <2>2
<1> USE DEF searchVars, sharedVars, scoreVars
<1>3. ext' \in 1 .. Len(Extenders) + 1 /\ statuses' \subseteq Nodes
  <2>1. Range(feasible) \subseteq Nodes
    BY <1>1 DEF TypeOK, Range
  <2> QED BY <1>1, <2>1, NodeSearchAssumption DEF TypeOK
<1>4. TypeOK'
  BY <1>1, <1>2, <1>3 DEF TypeOK
<1>5. ListOK'
  BY <1>1 DEF ListOK
<1>6. PhaseOK'
  BY <1>1 DEF PhaseOK
<1>7. FeasibleOK'
  <2> SUFFICES ASSUME NEW k \in DOMAIN feasible'
               PROVE  feasible'[k] < allNodes /\ (fwk.filter => Fits(feasible'[k]))
    BY <1>1 DEF FeasibleOK, Fits
  <2>1. feasible'[k] \in Range(feasible)
    BY <1>1, <1>2 DEF Range
  <2> QED BY <1>1, <2>1 DEF FeasibleOK, Range
<1>8. ExplainedOK'
  <2>1. Explained
    BY <1>1 DEF ExplainedOK
  <2>2. UNCHANGED <<nodes, feasibleNodesLen, numNodesToFind, hasExtenderFilters>>
    BY <1>1 DEF numNodesToFind, NodesToFind, hasScoring, hasExtenderFilters
  <2>3. statuses \cup Range(feasible) = statuses' \cup Range(feasible')
    BY <1>1, <1>2
  <2>4. Explained'
    BY <1>2, <2>1, <2>2, <2>3 DEF Explained
  <2> QED BY <2>4 DEF ExplainedOK
<1>9. SearchInv' /\ FitErrorIsExplained' /\ SuggestedHostFits'
  BY <1>1 DEF SearchInv, Searching, FitErrorIsExplained, SuggestedHostFits
<1> QED BY <1>4, <1>5, <1>6, <1>7, <1>8, <1>9 DEF NodeInv, ShapeInv

\* A call to an extender that fails leaves the nodes as they are.
LEMMA ExtenderMayFail ==
  ASSUME NodeInv, ExtenderFails
  PROVE  NodeInv'
<1>1. /\ TypeOK /\ ListOK /\ PhaseOK /\ FeasibleOK /\ ExplainedOK /\ pc = "extend"
      /\ ext \in 1 .. Len(Extenders) + 1 /\ Len(Extenders) \in Nat
      /\ UNCHANGED <<nextStartNodeIndex, fwk, allNodes, preRes, nominee, searchVars,
                     feasible, statuses, scoreVars>>
  <2>1. /\ TypeOK /\ ListOK /\ PhaseOK /\ FeasibleOK /\ ExplainedOK
    BY DEF NodeInv, ShapeInv
  <2>2. ext \in 1 .. Len(Extenders) + 1 /\ Len(Extenders) \in Nat
    BY <2>1, NodeSearchAssumption DEF TypeOK
  <2>3. /\ pc = "extend"
        /\ UNCHANGED <<nextStartNodeIndex, podVars, nominee, searchVars, feasible,
                       statuses, scoreVars>>
    BY DEF ExtenderFails
  <2> QED BY <2>1, <2>2, <2>3 DEF podVars
<1>2. \/ ext' = ext + 1 /\ ext <= Len(Extenders) /\ pc' = pc /\ outcome' = outcome
      \/ ext' = ext /\ pc' = "find" /\ outcome' = outcome
      \/ ext' = ext /\ pc' = "done" /\ outcome' = [kind |-> "error", host |-> None]
  BY <1>1 DEF ExtenderFails, ExtendersEnd, Return
<1> USE DEF searchVars, sharedVars, scoreVars
<1>3. ext' \in 1 .. Len(Extenders) + 1
  BY <1>1, <1>2
<1>4. outcome' \in [kind : {"none", "host", "fiterror", "error"}, host : Nodes \cup {None}]
  BY <1>1, <1>2 DEF TypeOK
<1>5. TypeOK'
  BY <1>1, <1>2, <1>3, <1>4 DEF TypeOK
<1>6. ListOK' /\ FeasibleOK'
  BY <1>1 DEF ListOK, FeasibleOK, Fits
<1>7. PhaseOK'
  BY <1>1, <1>2 DEF PhaseOK
<1>8. ExplainedOK'
  BY <1>1, <1>2 DEF ExplainedOK, Explained, numNodesToFind, NodesToFind, hasScoring,
                    hasExtenderFilters
<1>9. SearchInv' /\ FitErrorIsExplained' /\ SuggestedHostFits'
  BY <1>1, <1>2 DEF SearchInv, Searching, FitErrorIsExplained, SuggestedHostFits
<1> QED BY <1>5, <1>6, <1>7, <1>8, <1>9 DEF NodeInv, ShapeInv

\* No node is left, or one, or several that need scores.
LEMMA NodePicked ==
  ASSUME NodeInv, PickNode
  PROVE  NodeInv'
<1>1. /\ TypeOK /\ ListOK /\ PhaseOK /\ FeasibleOK /\ Explained /\ pc = "pick"
      /\ scores = <<>> /\ feasible \in Seq(Nodes) /\ Len(feasible) \in Nat
      /\ UNCHANGED <<nextStartNodeIndex, fwk, allNodes, preRes, nominee, searchVars,
                     feasible, statuses, ext, scoreVars>>
  BY DEF NodeInv, ShapeInv, TypeOK, PhaseOK, ExplainedOK, PickNode, podVars
<1>2. \/ /\ Len(feasible) = 0 /\ pc' = "done"
         /\ outcome' = [kind |-> "fiterror", host |-> None]
      \/ /\ Len(feasible) = 1 /\ pc' = "done"
         /\ outcome' = [kind |-> "host", host |-> feasible[1]]
      \/ Len(feasible) > 1 /\ pc' = "score" /\ outcome' = outcome
  BY DEF PickNode, Return
<1> USE DEF searchVars, sharedVars, scoreVars
<1>3. outcome' \in [kind : {"none", "host", "fiterror", "error"}, host : Nodes \cup {None}]
  <2>1. Len(feasible) = 1 => feasible[1] \in Nodes
    BY <1>1
  <2> QED BY <1>1, <1>2, <2>1 DEF TypeOK
<1>4. TypeOK'
  BY <1>1, <1>2, <1>3 DEF TypeOK
<1>5. ListOK' /\ FeasibleOK'
  BY <1>1 DEF ListOK, FeasibleOK, Fits
<1>6. PhaseOK'
  BY <1>1, <1>2 DEF PhaseOK
<1>7. SearchInv' /\ ExplainedOK'
  BY <1>2 DEF SearchInv, Searching, ExplainedOK
<1>8. FitErrorIsExplained'
  <2> SUFFICES ASSUME Len(feasible) = 0
               PROVE  \/ Range(nodes)' \subseteq statuses'
                      \/ hasExtenderFilters' /\ feasibleNodesLen' = numNodesToFind'
    BY <1>2 DEF FitErrorIsExplained
  <2>1. feasible = <<>> /\ Range(feasible) = {}
    BY <1>1 DEF Range
  <2>2. UNCHANGED <<nodes, statuses, feasibleNodesLen, numNodesToFind, hasExtenderFilters>>
    BY <1>1 DEF numNodesToFind, NodesToFind, hasScoring, hasExtenderFilters
  <2> QED BY <1>1, <2>1, <2>2 DEF Explained
<1>9. SuggestedHostFits'
  <2> SUFFICES ASSUME Len(feasible) = 1, outcome' = [kind |-> "host", host |-> feasible[1]]
               PROVE  SuggestedHostFits'
    BY <1>2 DEF SuggestedHostFits
  <2>1. 1 \in DOMAIN feasible /\ outcome'.host = feasible[1]
    BY <1>1
  <2>2. feasible[1] < allNodes /\ (fwk.filter => Fits(feasible[1]))
        /\ feasible[1] \in Range(feasible)
    BY <1>1, <2>1 DEF FeasibleOK, Range
  <2>3. DOMAIN scores' = {}
    BY <1>1
  <2> QED BY <1>1, <2>1, <2>2, <2>3 DEF SuggestedHostFits, Fits
<1> QED BY <1>4, <1>5, <1>6, <1>7, <1>8, <1>9 DEF NodeInv, ShapeInv

\* The plugins give every node that is left a score.
LEMMA NodesScored ==
  ASSUME NodeInv, prioritizeNodes
  PROVE  NodeInv'
<1>1. /\ TypeOK /\ ListOK /\ PhaseOK /\ FeasibleOK /\ pc = "score"
      /\ UNCHANGED <<nextStartNodeIndex, fwk, allNodes, preRes, nominee, searchVars,
                     feasible, statuses, ext>>
  BY DEF NodeInv, ShapeInv, prioritizeNodes, podVars
<1>2. Range(feasible) \subseteq Nodes
  BY <1>1 DEF TypeOK, Range
<1>3. \/ /\ scores' \in PluginScores
         /\ scoring' = {i \in DOMAIN Extenders : Extenders[i].interested}
         /\ pc' = "prioritize" /\ outcome' = outcome
      \/ /\ pc' = "done" /\ outcome' = [kind |-> "error", host |-> None]
         /\ scores' = scores /\ scoring' = scoring
  BY DEF prioritizeNodes, Return, scoreVars
<1>4. \A s \in PluginScores :
        DOMAIN s = Range(feasible) /\ \A n \in DOMAIN s : s[n] \in Nat
  <2>1. CASE fwk.score
    BY <2>1, NodeSearchAssumption DEF PluginScores
  <2>2. CASE ~fwk.score
    BY <2>2 DEF PluginScores
  <2> QED BY <2>1, <2>2
<1> USE DEF searchVars, sharedVars
<1>5. /\ DOMAIN scores' \subseteq Nodes /\ \A n \in DOMAIN scores' : scores'[n] \in Nat
      /\ scoring' \subseteq DOMAIN Extenders
      /\ outcome' \in [kind : {"none", "host", "fiterror", "error"},
                       host : Nodes \cup {None}]
  BY <1>1, <1>2, <1>3, <1>4 DEF TypeOK
<1>6. TypeOK'
  BY <1>1, <1>3, <1>5 DEF TypeOK
<1>7. ListOK' /\ FeasibleOK'
  BY <1>1 DEF ListOK, FeasibleOK, Fits
<1>8. PhaseOK'
  BY <1>1, <1>3, <1>4 DEF PhaseOK
<1>9. SearchInv' /\ ExplainedOK' /\ FitErrorIsExplained' /\ SuggestedHostFits'
  BY <1>3 DEF SearchInv, Searching, ExplainedOK, FitErrorIsExplained, SuggestedHostFits
<1> QED BY <1>6, <1>7, <1>8, <1>9 DEF NodeInv, ShapeInv

\* An extender's scores are added to those of the same nodes.
LEMMA ExtenderAdds ==
  ASSUME NodeInv, NEW i \in DOMAIN Extenders, NEW given \in SUBSET Nodes,
         ExtenderScores(i, given)
  PROVE  NodeInv'
<1>1. /\ TypeOK /\ ListOK /\ PhaseOK /\ FeasibleOK /\ pc = "prioritize"
      /\ scoring' = scoring \ {i}
      /\ scores' = [n \in DOMAIN scores |->
                       scores[n] + (IF n \in given THEN Extenders[i].weight ELSE 0)]
      /\ UNCHANGED <<pc, nextStartNodeIndex, fwk, allNodes, preRes, nominee,
                     searchVars, feasible, statuses, ext, outcome>>
  BY DEF NodeInv, ShapeInv, ExtenderScores, podVars
<1>2. Extenders[i].weight \in Nat
  <2> DEFINE E == [interested : BOOLEAN, ignorable : BOOLEAN,
                   filter : BOOLEAN, prioritizer : BOOLEAN, weight : Nat]
  <2>1. Extenders \in Seq(E)
    BY NodeSearchAssumption
  <2>2. \A e \in E : e.weight \in Nat
    OBVIOUS
  <2> HIDE DEF E
  <2>3. Extenders[i] \in E
    BY <2>1
  <2> QED BY <2>2, <2>3
<1>3. DOMAIN scores' = DOMAIN scores /\ \A n \in DOMAIN scores' : scores'[n] \in Nat
  BY <1>1, <1>2 DEF TypeOK
<1> USE DEF searchVars, sharedVars
<1>4. scoring' \subseteq DOMAIN Extenders
  BY <1>1 DEF TypeOK
<1>5. TypeOK'
  BY <1>1, <1>3, <1>4 DEF TypeOK
<1>6. ListOK' /\ FeasibleOK'
  BY <1>1 DEF ListOK, FeasibleOK, Fits
<1>7. PhaseOK'
  BY <1>1, <1>3 DEF PhaseOK
<1>8. SearchInv' /\ ExplainedOK' /\ FitErrorIsExplained' /\ SuggestedHostFits'
  BY <1>1 DEF SearchInv, Searching, ExplainedOK, FitErrorIsExplained, SuggestedHostFits
<1> QED BY <1>5, <1>6, <1>7, <1>8 DEF NodeInv, ShapeInv

\* The node with the best score is one that is left.
LEMMA HostSelected ==
  ASSUME NodeInv, selectHost
  PROVE  NodeInv'
<1>1. /\ TypeOK /\ ListOK /\ PhaseOK /\ FeasibleOK /\ pc = "prioritize"
      /\ DOMAIN scores = Range(feasible)
      /\ UNCHANGED <<nextStartNodeIndex, fwk, allNodes, preRes, nominee, searchVars,
                     feasible, statuses, ext, scoreVars>>
  BY DEF NodeInv, ShapeInv, PhaseOK, selectHost, podVars
<1>2. PICK h \in Best : pc' = "done" /\ outcome' = [kind |-> "host", host |-> h]
  BY DEF selectHost, Return
<1>3. /\ h \in Range(feasible) /\ h \in Nodes
      /\ \A m \in DOMAIN scores : scores[m] <= scores[h]
  BY <1>1, <1>2 DEF Best, TypeOK
<1> USE DEF searchVars, sharedVars, scoreVars
<1>4. TypeOK'
  <2>1. outcome' \in [kind : {"none", "host", "fiterror", "error"},
                      host : Nodes \cup {None}]
    BY <1>2, <1>3
  <2> QED BY <1>1, <1>2, <2>1 DEF TypeOK
<1>5. ListOK' /\ FeasibleOK'
  BY <1>1 DEF ListOK, FeasibleOK, Fits
<1>6. PhaseOK'
  BY <1>1, <1>2 DEF PhaseOK
<1>7. SearchInv' /\ ExplainedOK' /\ FitErrorIsExplained'
  BY <1>2 DEF SearchInv, Searching, ExplainedOK, FitErrorIsExplained
<1>8. SuggestedHostFits'
  <2>1. h < allNodes /\ (fwk.filter => Fits(h))
    BY <1>1, <1>3 DEF FeasibleOK, Range
  <2>2. outcome'.host = h
    BY <1>2
  <2> QED BY <1>1, <1>3, <2>1, <2>2 DEF SuggestedHostFits, Fits
<1> QED BY <1>4, <1>5, <1>6, <1>7, <1>8 DEF NodeInv, ShapeInv

\* A goroutine's step leaves what is outside the search alone, and a verdict
\* once given is not changed.
LEMMA GoroutineSteps ==
  ASSUME NodeInv, NEW w \in Workers, WorkerStep(w)
  PROVE  NodeInv'
<1>1. /\ ShapeInv /\ SearchInv /\ FeasibleOK /\ Searching /\ pc = "search" /\ pc' = "search"
      /\ UNCHANGED <<fwk, allNodes, feasible>>
  BY SearchGoesOn DEF NodeInv, Searching
<1>2. ShapeInv' /\ SearchOK'
  BY <1>1, WorkerKeeps DEF SearchInv
<1>3. \A n : Fits(n) => Fits(n)'
  <2>1. CASE CheckNode(w)
    <3>1. /\ DOMAIN verdict \subseteq DOMAIN verdict'
          /\ \A n \in DOMAIN verdict : verdict'[n] = verdict[n]
      BY <1>1, <2>1, CheckNodeMoves
    <3> QED BY <3>1 DEF Fits
  <2>2. CASE ~CheckNode(w)
    <3>1. verdict' = verdict
      BY <1>1, <2>2, NextPieceMoves, KeepNodeMoves, UncountNodeMoves DEF WorkerStep
    <3> QED BY <3>1 DEF Fits
  <2> QED BY <2>1, <2>2
<1>4. FeasibleOK'
  BY <1>1, <1>3 DEF FeasibleOK
<1>5. ExplainedOK' /\ FitErrorIsExplained' /\ SuggestedHostFits'
  BY <1>1 DEF ExplainedOK, FitErrorIsExplained, SuggestedHostFits
<1> QED BY <1>2, <1>4, <1>5 DEF NodeInv, SearchInv

-----------------------------------------------------------------------------
(* The theorems.                                                           *)

\* A step that leaves the search alone.
LEMMA SearchUntouched ==
  ASSUME SearchInv,
         UNCHANGED <<pc, nodes, verdict, feasibleNodes, feasibleNodesLen, result,
                     cancelled, errored, nextChunk, worker, numNodesToFind, ChunkSize>>,
         \A i : NodeAt(nodes, i)' = NodeAt(nodes, i)
  PROVE  SearchInv'
<1> SUFFICES ASSUME SearchOK, Searching PROVE SearchOK'
  BY DEF SearchInv, Searching
<1>1. Dealt' = Dealt /\ \A w, i : Has(w, i)' = Has(w, i)
  BY DEF Dealt, Has
<1>2. /\ \A i : Passed(i)' = Passed(i)
      /\ \A n : Fits(n)' = Fits(n) /\ Accounted(n)' = Accounted(n)
      /\ \A w : Current(w)' = Current(w)
      /\ \A w, k : Claims(w, k)' = Claims(w, k)
      /\ Overs' = Overs
  BY <1>1 DEF Passed, Fits, Accounted, Current, Claims, Overs
<1>3. PiecesOK'
  BY <1>1 DEF SearchOK, PiecesOK
<1>4. CounterOK' /\ SlotsOK'
  BY <1>2 DEF SearchOK, CounterOK, SlotsOK
<1>5. KeptOK' /\ CancelOK' /\ ExaminedOK'
  BY <1>1, <1>2 DEF SearchOK, KeptOK, CancelOK, ExaminedOK
<1> QED BY <1>3, <1>4, <1>5 DEF SearchOK

\* No search has begun.
LEMMA NodeInit == Init => NodeInv
<1> SUFFICES ASSUME Init PROVE NodeInv
  OBVIOUS
<1>1. /\ pc = "done" /\ nextStartNodeIndex = 0 /\ fwk \in Profiles /\ allNodes = 0
      /\ preRes = NoRes /\ nominee = None /\ nodes = <<>> /\ verdict = <<>>
      /\ feasibleNodes = <<>> /\ feasibleNodesLen = 0 /\ result = {}
      /\ cancelled = FALSE /\ errored = FALSE /\ nextChunk = 0
      /\ worker = [w \in Workers |-> Idle] /\ feasible = <<>> /\ statuses = {}
      /\ ext = 1 /\ scores = <<>> /\ scoring = {}
      /\ outcome = [kind |-> "none", host |-> None]
  BY DEF Init, Returned
<1>2. MaxNodes \in Nat \ {0} /\ 1 \in 1 .. Len(Extenders) + 1
  BY NodeSearchAssumption
<1>3. TypeOK
  <2>1. cancelled \in BOOLEAN /\ errored \in BOOLEAN
    BY <1>1
  <2>2. worker \in [Workers -> Goroutine]
    BY <1>1, <1>2 DEF Idle, Goroutine
  <2>3. preRes \in [all : BOOLEAN, names : SUBSET Nodes]
    BY <1>1 DEF NoRes
  <2>4. outcome \in [kind : {"none", "host", "fiterror", "error"}, host : Nodes \cup {None}]
    BY <1>1
  <2>5. /\ nodes \in Seq(Nodes) /\ feasibleNodes \in Seq(Nodes \cup {None})
        /\ feasible \in Seq(Nodes) /\ DOMAIN verdict = {} /\ DOMAIN scores = {}
    BY <1>1
  <2>6. 0 \in Nodes /\ allNodes \in 0 .. MaxNodes /\ nextChunk \in 0 .. MaxNodes
    BY <1>1, <1>2 DEF Nodes
  <2> QED BY <1>1, <1>2, <2>1, <2>2, <2>3, <2>4, <2>5, <2>6 DEF TypeOK, Goroutine
<1>4. ListOK
  BY <1>1, <1>2 DEF ListOK, IsInjective
<1>5. PhaseOK
  BY <1>1 DEF PhaseOK, Idle
<1>6. SearchInv /\ FeasibleOK /\ ExplainedOK /\ FitErrorIsExplained /\ SuggestedHostFits
  BY <1>1 DEF SearchInv, Searching, FeasibleOK, ExplainedOK, FitErrorIsExplained,
              SuggestedHostFits
<1> QED BY <1>3, <1>4, <1>5, <1>6 DEF NodeInv, ShapeInv

\* One case for each action.
LEMMA NodeStep == NodeInv /\ [Next]_vars => NodeInv'
<1> SUFFICES ASSUME NodeInv, [Next]_vars PROVE NodeInv'
  OBVIOUS
<1>1. CASE \E p \in Profiles, n \in SnapshotSizes : SchedulePod(p, n)
  BY <1>1, CycleStarts
<1>2. CASE SearchStep
  <2>1. CASE \E nnn \in Nominees \cup {None} :
                \/ PreFilter(NoRes, nnn)
                \/ \E names \in PreFilterSets :
                      PreFilter([all |-> FALSE, names |-> names], nnn)
    <3>1. PICK nnn \in Nominees \cup {None} :
              \/ PreFilter(NoRes, nnn)
              \/ \E names \in PreFilterSets :
                    PreFilter([all |-> FALSE, names |-> names], nnn)
      BY <2>1
    <3>2. nnn \in Nodes \cup {None}
      BY NodeSearchAssumption DEF Nodes
    <3>3. CASE PreFilter(NoRes, nnn)
      <4>1. NoRes \in [all : BOOLEAN, names : SUBSET Nodes]
        BY DEF NoRes
      <4> QED BY <3>2, <3>3, <4>1, PreFilterChooses
    <3>4. ASSUME NEW names \in PreFilterSets,
                 PreFilter([all |-> FALSE, names |-> names], nnn)
          PROVE  NodeInv'
      <4>1. [all |-> FALSE, names |-> names] \in [all : BOOLEAN, names : SUBSET Nodes]
        BY NodeSearchAssumption DEF Nodes
      <4> QED BY <3>2, <3>4, <4>1, PreFilterChooses
    <3> QED BY <3>1, <3>3, <3>4
  <2>2. CASE \E kept \in SUBSET Nodes : ExtenderFilters(kept)
    BY <2>2, ExtenderTurnsDown
  <2>3. CASE \E i \in DOMAIN Extenders, given \in SUBSET Nodes : ExtenderScores(i, given)
    BY <2>3, ExtenderAdds
  <2> QED BY <1>2, <2>1, <2>2, <2>3, PreFilterRejects, NominatedNodeTried,
             AllNodesSearched, SearchEnds, ExtendersGoOn, ExtenderMayFail, NodePicked,
             NodesScored, HostSelected
          DEF SearchStep
<1>3. CASE \E w \in Workers : WorkerStep(w)
  BY <1>3, GoroutineSteps
<1>4. CASE UNCHANGED vars
  <2>1. UNCHANGED <<pc, nextStartNodeIndex, fwk, allNodes, preRes, nominee, nodes, verdict,
                    feasibleNodes, feasibleNodesLen, result, cancelled, errored, nextChunk,
                    worker, feasible, statuses, ext, scores, scoring, outcome>>
    BY <1>4 DEF vars, podVars, searchVars, sharedVars, scoreVars
  <2>2. UNCHANGED <<numNodesToFind, hasExtenderFilters, ChunkSize>>
    BY <2>1 DEF numNodesToFind, NodesToFind, hasScoring, hasExtenderFilters, ChunkSize
  <2>3. \A i : NodeAt(nodes, i)' = NodeAt(nodes, i)
    BY <2>1 DEF NodeAt
  <2>4. TypeOK' /\ ListOK'
    BY <2>1 DEF NodeInv, ShapeInv, TypeOK, ListOK
  <2>5. PhaseOK'
    BY <2>1, <2>2 DEF NodeInv, ShapeInv, PhaseOK
  <2>6. FeasibleOK' /\ ExplainedOK' /\ FitErrorIsExplained' /\ SuggestedHostFits'
    BY <2>1, <2>2 DEF NodeInv, FeasibleOK, Fits, ExplainedOK, Explained,
                      FitErrorIsExplained, SuggestedHostFits
  <2>7. SearchInv'
    BY <2>1, <2>2, <2>3, SearchUntouched DEF NodeInv
  <2> QED BY <2>4, <2>5, <2>6, <2>7 DEF NodeInv, ShapeInv
<1> QED BY <1>1, <1>2, <1>3, <1>4 DEF Next

\* The inductive invariant.
LEMMA NodeInvariant == Spec => []NodeInv
<1>1. Init => NodeInv
  BY NodeInit
<1>2. NodeInv /\ [Next]_vars => NodeInv'
  BY NodeStep
<1> QED BY <1>1, <1>2, PTL DEF Spec

\* The variables keep their types: every index that the search takes is in
\* bounds of the list, of the slots and of the snapshot.
THEOREM SearchTypeCorrect == Spec => []TypeOK
<1>1. NodeInv => TypeOK
  BY DEF NodeInv, ShapeInv
<1> QED BY <1>1, NodeInvariant, PTL

\* However the goroutines interleave, the slots that findNodesThatPassFilters
\* keeps hold different nodes that passed the filters.
THEOREM SlotsAreFilled == Spec => []FeasibleSlotsFilled
<1>1. NodeInv => FeasibleSlotsFilled
  <2> SUFFICES ASSUME NodeInv, Joined
               PROVE  /\ feasibleNodesLen \in 0 .. numNodesToFind
                      /\ IsInjective(Found)
                      /\ \A k \in DOMAIN Found :
                            Found[k] \in DOMAIN verdict /\ verdict[Found[k]] = "fit"
    BY DEF FeasibleSlotsFilled
  <2>1. /\ feasibleNodesLen \in 0 .. numNodesToFind
        /\ Found \in Seq(Nodes)
        /\ Len(Found) = feasibleNodesLen
        /\ \A k \in 1 .. feasibleNodesLen : Fits(Found[k])
        /\ IsInjective(Found)
    BY SearchJoined DEF NodeInv
  <2> QED BY <2>1 DEF Fits
<1> QED BY <1>1, NodeInvariant, PTL

\* A search that ends without an error has as many nodes as were wanted, or
\* all nodes that fit.
THEOREM NothingIsLost == Spec => []StopsEarlyOnlyWhenFull
<1>1. NodeInv => StopsEarlyOnlyWhenFull
  <2> SUFFICES ASSUME NodeInv, Joined, ~errored, feasibleNodesLen # numNodesToFind
               PROVE  /\ Range(nodes) \subseteq DOMAIN verdict
                      /\ {n \in Range(nodes) : verdict[n] = "fit"} = Range(Found)
    BY DEF StopsEarlyOnlyWhenFull
  <2>1. /\ Found \in Seq(Nodes)
        /\ Len(Found) = feasibleNodesLen
        /\ \A k \in 1 .. feasibleNodesLen : Found[k] \in Range(nodes) /\ Fits(Found[k])
        /\ \A n \in Range(nodes) :
              n \in DOMAIN verdict /\ (verdict[n] = "fit" => n \in Range(Found))
    BY SearchJoined DEF NodeInv
  <2>2. \A n \in Range(Found) : n \in Range(nodes) /\ verdict[n] = "fit"
    BY <2>1 DEF Range, Fits
  <2> QED BY <2>1, <2>2
<1> QED BY <1>1, NodeInvariant, PTL

\* A FitError leaves no node of the search without a status, unless as many
\* nodes as were wanted went to the extenders.
THEOREM FitErrorsAreExplained == Spec => []FitErrorIsExplained
<1>1. NodeInv => FitErrorIsExplained
  BY DEF NodeInv
<1> QED BY <1>1, NodeInvariant, PTL

\* The suggested host exists, passed the filters and has the best score.
THEOREM SuggestedHostsFit == Spec => []SuggestedHostFits
<1>1. NodeInv => SuggestedHostFits
  BY DEF NodeInv
<1> QED BY <1>1, NodeInvariant, PTL
=============================================================================
