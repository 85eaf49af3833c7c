----------------------- MODULE NodeSearchStartProofs -----------------------
(***************************************************************************)
(* Where the next search starts: the proof of SkipsOnlyExaminedNodes, for  *)
(* every number of nodes and goroutines.                                   *)
(*                                                                         *)
(* In chunks of one node the goroutines take the nodes in the order of the *)
(* list, so that what they have examined is an initial segment of it:      *)
(* Frontier(d) says that it has d nodes.  nextStartNodeIndex moves by the  *)
(* nodes kept and those with a status.  These can be more than the nodes   *)
(* examined only because the nominated node may have a status from an      *)
(* earlier search.  But a search that stops early has examined a node that *)
(* it neither keeps nor refuses, Lost: the one over which it was           *)
(* cancelled.  The two make up for each other.                             *)
(***************************************************************************)
EXTENDS NodeSearchProofs

-----------------------------------------------------------------------------
(* What a search has examined.                                             *)

\* The i-th node of the list has a verdict.
Looked(i) == NodeAt(nodes, i) \in DOMAIN verdict

\* It is examined, but neither kept nor refused, and no goroutine is about to.
Lost(i) ==
    /\ Looked(i)
    /\ NodeAt(nodes, i) \notin result
    /\ \A k \in 1 .. numNodesToFind : feasibleNodes[k] # NodeAt(nodes, i)
    /\ \A w \in Workers : worker[w].piece = i =>
          /\ worker[w].pc # "check"
          /\ worker[w].pc = "counted" => worker[w].length > numNodesToFind

\* In chunks of one node, a goroutine that is between two nodes has none.
SinglesOK ==
    \A w \in Workers :
        IF worker[w].pc \in {"check", "counted", "over"}
        THEN worker[w].end = worker[w].piece + 1
        ELSE worker[w].end = worker[w].piece

\* The search has come to its first d nodes and to no other.
Frontier(d) ==
    /\ d <= Len(nodes) /\ d <= Dealt
    /\ ~cancelled => d = Dealt
    /\ \A w \in Workers :
          worker[w].pc \in {"check", "counted", "over"} => worker[w].piece < d
    /\ \A i \in Nat : i < d =>
          Looked(i) \/ \E w \in Workers : worker[w].pc = "check" /\ worker[w].piece = i
    /\ \A i \in 0 .. Len(nodes) - 1 :
          \/ NodeAt(nodes, i) \in result
          \/ \E k \in 1 .. numNodesToFind : feasibleNodes[k] = NodeAt(nodes, i)
          => i < d
    /\ cancelled => \E i \in Nat : i < d /\ Lost(i)

\* The refused nodes are of this search, and the filters refused them.
RefusedOK ==
    \A n \in result :
        n \in Range(nodes) /\ n \in DOMAIN verdict /\ verdict[n] = "unfit"

ExaminesInOrder ==
    Searching => /\ RefusedOK
                 /\ ChunkSize = 1 => SinglesOK /\ \E d \in Nat : Frontier(d)

\* Before the search of all nodes at most the nominated one has a status.
StatusesOK ==
    /\ pc \in {"prefilter", "nominated"} => statuses = {}
    /\ pc \in {"search", "extend"} /\ nominee # None =>
          /\ statuses \subseteq {nominee}
          /\ Range(nodes) \subseteq {nominee}
          /\ pc = "extend" => Range(feasible) \subseteq {nominee}
    /\ pc = "find" \/ (Searching /\ nominee = None) =>
          \E x \in Nodes : statuses \subseteq {x}

\* Without a choice of the PreFilter plugins the list is the snapshot.
WholeList ==
    Searching /\ preRes.all /\ nominee = None
        => nodes = [k \in 1 .. allNodes |-> k - 1]

StartInv == NodeInv /\ ExaminesInOrder /\ StatusesOK /\ WholeList

-----------------------------------------------------------------------------
(* The goroutines' steps.                                                  *)

\* Different places of the list have different nodes.
LEMMA OtherNodes ==
  ASSUME ShapeInv, NEW i \in 0 .. Len(nodes) - 1, NEW j \in 0 .. Len(nodes) - 1
  PROVE  /\ NodeAt(nodes, i) = NodeAt(nodes, j) => i = j
         /\ NodeAt(nodes, i) \in Range(nodes)
<1>1. nodes \in Seq(Nodes) /\ IsInjective(nodes) /\ nextStartNodeIndex \in Nat
  BY SearchTypes DEF ShapeInv, ListOK, TypeOK
<1> QED BY <1>1, NodeAtOnce

\* Two goroutines do not look at the same node.
LEMMA OnePlaceEach ==
  ASSUME ShapeInv, PiecesOK, NEW w \in Workers, NEW v \in Workers, w # v,
         worker[w].pc \in {"check", "counted", "over"},
         worker[v].pc \in {"check", "counted", "over"}
  PROVE  worker[w].piece # worker[v].piece
<1>1. Has(w, worker[w].piece) /\ Has(v, worker[v].piece) /\ worker[w].piece \in Nat
  BY CurrentNode, SearchTypes
<1> QED BY <1>1 DEF PiecesOK

\* What the filters refused stays refused.
LEMMA RefusedStay ==
  ASSUME ShapeInv, SearchOK, RefusedOK, NEW w \in Workers, WorkerStep(w)
  PROVE  RefusedOK'
<1>1. nodes' = nodes
  BY SearchGoesOn
<1>2. CASE CheckNode(w)
  <2>1. PICK v \in {"fit", "unfit", "error"} :
           /\ DOMAIN verdict' = DOMAIN verdict \cup {Current(w)}
           /\ verdict'[Current(w)] = v
           /\ \A n \in DOMAIN verdict : verdict'[n] = verdict[n]
           /\ result' = IF v = "unfit" THEN result \cup {Current(w)} ELSE result
    BY <1>2, CheckNodeMoves
  <2>2. Current(w) \in Range(nodes)
    BY <1>2, CheckNodeMoves, CurrentNode, OtherNodes DEF SearchOK, Current
  <2> QED BY <1>1, <2>1, <2>2 DEF RefusedOK
<1>3. CASE ~CheckNode(w)
  <2>1. UNCHANGED <<verdict, result>>
    BY <1>3, NextPieceMoves, KeepNodeMoves, UncountNodeMoves DEF WorkerStep
  <2> QED BY <1>1, <2>1 DEF RefusedOK
<1> QED BY <1>2, <1>3

\* A node is lost for good once no more pieces are dealt out.
LEMMA LostStays ==
  ASSUME ShapeInv, SearchOK, NEW w \in Workers, WorkerStep(w),
         cancelled \/ ~NextPiece(w),
         NEW i \in 0 .. Len(nodes) - 1, Lost(i)
  PROVE  Lost(i)'
<1> DEFINE K == numNodesToFind
           n == NodeAt(nodes, i)
<1>1. /\ numNodesToFind' = K /\ NodeAt(nodes, i)' = n
      /\ \A v \in Workers \ {w} : worker'[v] = worker[v]
      /\ K \in Nat /\ i \in Nat
  BY SearchGoesOn, SearchTypes
<1>2. ASSUME worker[w].pc \in {"check", "counted", "over"}, worker[w].piece # i
      PROVE  Current(w) # n
  BY <1>2, CurrentNode, OtherNodes DEF SearchOK, Current
<1>3. SUFFICES /\ n \in DOMAIN verdict' /\ n \notin result'
               /\ \A k \in 1 .. K : feasibleNodes'[k] # n
               /\ worker'[w].piece = i =>
                     /\ worker'[w].pc # "check"
                     /\ worker'[w].pc = "counted" => worker'[w].length > K
  BY <1>1 DEF Lost, Looked
<1>4. /\ n \in DOMAIN verdict /\ n \notin result
      /\ \A k \in 1 .. K : feasibleNodes[k] # n
      /\ worker[w].piece = i =>
            worker[w].pc # "check" /\ (worker[w].pc = "counted" => worker[w].length > K)
  BY DEF Lost, Looked
<1>5. CASE NextPiece(w)
  <2>1. /\ UNCHANGED <<verdict, feasibleNodes, result>>
        /\ worker'[w].pc = "done"
    BY <1>5, NextPieceMoves DEF Turned
  <2> QED BY <1>4, <2>1
<1>6. CASE CheckNode(w)
  <2>1. Current(w) # n /\ worker[w].piece # i
    BY <1>2, <1>4, <1>6, CheckNodeMoves
  <2>2. /\ feasibleNodes' = feasibleNodes
        /\ DOMAIN verdict \subseteq DOMAIN verdict'
        /\ result' \subseteq result \cup {Current(w)}
        /\ \/ worker'[w].piece = worker[w].piece
           \/ worker'[w].pc = "ready"
    BY <1>6, CheckNodeMoves DEF Turned
  <2> QED BY <1>4, <2>1, <2>2
<1>7. CASE KeepNode(w)
  <2>1. UNCHANGED <<verdict, result>> /\ worker[w].pc = "counted"
    BY <1>7, KeepNodeMoves
  <2>2. CASE worker'[w].pc = "over" /\ feasibleNodes' = feasibleNodes
    BY <1>4, <2>1, <2>2
  <2>3. CASE /\ worker'[w].pc = "ready" /\ worker[w].length <= K
             /\ feasibleNodes' = [feasibleNodes EXCEPT ![worker[w].length] = Current(w)]
    <3>1. worker[w].piece # i
      BY <1>1, <1>4, <2>1, <2>3, SearchTypes
    <3>2. Current(w) # n
      BY <1>2, <2>1, <3>1
    <3>3. feasibleNodes \in Seq(Nodes \cup {None}) /\ Len(feasibleNodes) = K
      BY SearchGoesOn DEF ShapeInv, TypeOK, PhaseOK
    <3>4. \A k \in 1 .. K : feasibleNodes'[k] \in {feasibleNodes[k], Current(w)}
      BY <1>1, <2>3, <3>3
    <3> QED BY <1>4, <2>1, <2>3, <3>2, <3>4
  <2> QED BY <1>7, <2>2, <2>3, KeepNodeMoves DEF Turned
<1>8. CASE UncountNode(w)
  <2>1. UNCHANGED <<verdict, feasibleNodes, result>> /\ worker'[w].pc = "ready"
    BY <1>8, UncountNodeMoves DEF Turned
  <2> QED BY <1>4, <2>1
<1> QED BY <1>5, <1>6, <1>7, <1>8 DEF WorkerStep

\* In chunks of one node the goroutines keep taking single nodes.
LEMMA SinglesStay ==
  ASSUME ShapeInv, SearchOK, ChunkSize = 1, SinglesOK, NEW w \in Workers, WorkerStep(w)
  PROVE  SinglesOK'
<1>1. \A v \in Workers \ {w} : worker'[v] = worker[v]
  BY SearchGoesOn
<1>2. /\ worker[w].piece \in Nat /\ worker[w].end \in Nat
      /\ Dealt \in Nat /\ Len(nodes) \in Nat
      /\ worker[w].pc \in {"ready", "check", "counted", "over", "done"}
  BY SearchTypes DEF ShapeInv, TypeOK
<1>3. IF worker'[w].pc \in {"check", "counted", "over"}
      THEN worker'[w].end = worker'[w].piece + 1
      ELSE worker'[w].end = worker'[w].piece
  <2>1. CASE NextPiece(w)
    <3>1. worker[w].pc = "ready" /\ worker[w].end = worker[w].piece
      BY <2>1, NextPieceMoves DEF SinglesOK
    <3>2. \/ /\ Dealt < Len(nodes)
             /\ \E e \in Nat :
                   /\ Turned(w, "check", Dealt, e)
                   /\ e = Len(nodes) \/ e = Dealt + 1
                   /\ e <= Dealt + 1
          \/ Turned(w, "done", worker[w].piece, worker[w].end)
      BY <1>2, <2>1, <3>1, NextPieceMoves
    <3> QED BY <1>2, <3>1, <3>2 DEF Turned
  <2>2. CASE CheckNode(w)
    <3>1. \/ Turned(w, "counted", worker[w].piece, worker[w].end)
          \/ Turned(w, "ready", worker[w].piece + 1, worker[w].end)
      BY <2>2, CheckNodeMoves
    <3> QED BY <1>2, <2>2, <3>1, CheckNodeMoves DEF Turned, SinglesOK
  <2>3. CASE KeepNode(w)
    <3>1. \/ Turned(w, "over", worker[w].piece, worker[w].end)
          \/ Turned(w, "ready", worker[w].piece + 1, worker[w].end)
      BY <2>3, KeepNodeMoves
    <3> QED BY <1>2, <2>3, <3>1, KeepNodeMoves DEF Turned, SinglesOK
  <2>4. CASE UncountNode(w)
    BY <1>2, <2>4, UncountNodeMoves DEF Turned, SinglesOK
  <2> QED BY <2>1, <2>2, <2>3, <2>4 DEF WorkerStep
<1> QED BY <1>1, <1>3 DEF SinglesOK

\* The frontier stays where it is while a goroutine deals with its node.
LEMMA FrontierKept ==
  ASSUME ShapeInv, SearchOK, NEW d \in Nat, Frontier(d),
         NEW w \in Workers, WorkerStep(w),
         worker[w].pc \in {"check", "counted", "over"},
         \/ worker'[w].pc \in {"counted", "over"} /\ worker'[w].piece = worker[w].piece
         \/ worker'[w].pc = "ready",
         DOMAIN verdict \subseteq DOMAIN verdict',
         worker[w].pc = "check" => Current(w) \in DOMAIN verdict',
         result' \subseteq result \cup {Current(w)},
         \A k \in 1 .. numNodesToFind : feasibleNodes'[k] \in {feasibleNodes[k], Current(w)},
         nextChunk' = nextChunk,
         cancelled => cancelled',
         cancelled' => \E i \in Nat : i < d /\ Lost(i)'
  PROVE  Frontier(d)'
<1> DEFINE j == worker[w].piece
<1>1. /\ numNodesToFind' = numNodesToFind /\ nodes' = nodes
      /\ Dealt' = Dealt
      /\ \A i : NodeAt(nodes, i)' = NodeAt(nodes, i)
      /\ \A v \in Workers \ {w} : worker'[v] = worker[v]
  BY SearchGoesOn DEF Dealt
<1>2. j < d /\ j \in 0 .. Len(nodes) - 1
  BY CurrentNode DEF Frontier, SearchOK
<1>3. \A v \in Workers :
        worker'[v].pc \in {"check", "counted", "over"} => worker'[v].piece < d
  BY <1>1, <1>2 DEF Frontier
<1>4. ASSUME NEW i \in Nat, i < d
      PROVE  \/ NodeAt(nodes, i) \in DOMAIN verdict'
             \/ \E v \in Workers : worker'[v].pc = "check" /\ worker'[v].piece = i
  <2>1. CASE NodeAt(nodes, i) \in DOMAIN verdict
    BY <2>1
  <2>2. ASSUME NEW v \in Workers, worker[v].pc = "check", worker[v].piece = i
        PROVE  \/ NodeAt(nodes, i) \in DOMAIN verdict'
               \/ worker'[v].pc = "check" /\ worker'[v].piece = i
    <3>1. CASE v = w
      BY <2>2, <3>1 DEF Current
    <3>2. CASE v # w
      BY <1>1, <2>2, <3>2
    <3> QED BY <3>1, <3>2
  <2> QED BY <1>4, <2>1, <2>2 DEF Frontier, Looked
<1>5. ASSUME NEW i \in 0 .. Len(nodes) - 1,
             \/ NodeAt(nodes, i) \in result'
             \/ \E k \in 1 .. numNodesToFind : feasibleNodes'[k] = NodeAt(nodes, i)
      PROVE  i < d
  <2>1. CASE NodeAt(nodes, i) = Current(w)
    <3>1. i = j
      BY <1>2, <2>1, OtherNodes DEF Current
    <3> QED BY <1>2, <3>1
  <2>2. CASE NodeAt(nodes, i) # Current(w)
    BY <1>5, <2>2 DEF Frontier
  <2> QED BY <2>1, <2>2
<1>6. /\ d <= Len(nodes) /\ d <= Dealt
      /\ ~cancelled' => d = Dealt
  BY DEF Frontier
<1> QED BY <1>1, <1>3, <1>4, <1>5, <1>6 DEF Frontier, Looked

\* It moves by one node when one is dealt out.
LEMMA FrontierMoves ==
  ASSUME ShapeInv, SearchOK, RefusedOK, ChunkSize = 1, SinglesOK,
         NEW d \in Nat, Frontier(d), NEW w \in Workers, WorkerStep(w)
  PROVE  \E e \in Nat : Frontier(e)'
<1> DEFINE K == numNodesToFind
<1>0. PICK j \in Nat : worker[w].piece = j
  BY SearchTypes
<1>1. /\ numNodesToFind' = K /\ nodes' = nodes /\ ChunkSize' = 1
      /\ \A i : NodeAt(nodes, i)' = NodeAt(nodes, i)
      /\ \A v \in Workers \ {w} : worker'[v] = worker[v]
  BY SearchGoesOn
<1>2. /\ K \in Nat /\ Len(nodes) \in Nat /\ nextChunk \in Nat
      /\ worker[w].end \in Nat /\ worker[w].length \in Nat
      /\ worker[w].pc \in {"ready", "check", "counted", "over", "done"}
      /\ feasibleNodes \in Seq(Nodes \cup {None}) /\ Len(feasibleNodes) = K
      /\ \A i \in Nat : i < d => i \in 0 .. Len(nodes) - 1
  <2>1. /\ K \in Nat /\ Len(nodes) \in Nat /\ nextChunk \in Nat
        /\ worker[w].end \in Nat /\ worker[w].length \in Nat
    BY SearchTypes
  <2>2. /\ worker[w].pc \in {"ready", "check", "counted", "over", "done"}
        /\ feasibleNodes \in Seq(Nodes \cup {None})
    BY DEF ShapeInv, TypeOK
  <2>3. Len(feasibleNodes) = K
    BY SearchGoesOn DEF ShapeInv, PhaseOK
  <2>4. d <= Len(nodes)
    BY DEF Frontier
  <2> QED BY <2>1, <2>2, <2>3, <2>4
<1>3. Dealt = nextChunk /\ Dealt' = nextChunk'
  <2>1. Dealt' = nextChunk' * ChunkSize'
    BY DEF Dealt
  <2>2. \/ nextChunk' = nextChunk
        \/ nextChunk' = nextChunk + 1
    BY NextPieceMoves, CheckNodeMoves, KeepNodeMoves, UncountNodeMoves DEF WorkerStep
  <2>3. \A x \in Nat : x * 1 = x
    OBVIOUS
  <2>4. nextChunk' \in Nat
    BY <1>2, <2>2
  <2>5. Dealt' = nextChunk'
    BY <1>1, <2>1, <2>3, <2>4, Zenon
  <2>6. Dealt = nextChunk
    BY <1>2, <2>3, Zenon DEF Dealt
  <2> QED BY <2>5, <2>6
<1>4. ASSUME cancelled, ~NextPiece(w) \/ cancelled
      PROVE  \E i \in Nat : i < d /\ Lost(i)'
  BY <1>2, <1>4, LostStays DEF Frontier
<1>5. CASE NextPiece(w)
  <2>1. /\ worker[w].pc = "ready" /\ worker[w].end = j
        /\ UNCHANGED <<verdict, feasibleNodes, result, cancelled>>
    BY <1>0, <1>5, NextPieceMoves DEF SinglesOK
  <2>2. CASE /\ ~cancelled /\ Dealt < Len(nodes) /\ nextChunk' = nextChunk + 1
             /\ worker'[w].pc = "check" /\ worker'[w].piece = Dealt
    <3>1. d = Dealt /\ Dealt' = d + 1
      BY <1>3, <2>2 DEF Frontier
    <3>2. \A v \in Workers : worker'[v].pc \in {"check", "counted", "over"}
                                => worker'[v].piece < d + 1
      <4>1. ASSUME NEW v \in Workers \ {w}, worker'[v].pc \in {"check", "counted", "over"}
            PROVE  worker'[v].piece < d + 1
        <5>1. worker[v].piece < d /\ worker[v].piece \in Nat /\ worker'[v] = worker[v]
          BY <1>1, <4>1, SearchTypes DEF Frontier
        <5> QED BY <5>1
      <4>2. worker'[w].piece < d + 1
        BY <2>2, <3>1
      <4> QED BY <4>1, <4>2
    <3>3. ASSUME NEW i \in Nat, i < d + 1
          PROVE  Looked(i)' \/ \E v \in Workers : worker'[v].pc = "check" /\ worker'[v].piece = i
      <4>1. CASE i = d
        BY <2>2, <3>1, <4>1
      <4>2. CASE i # d
        <5>1. i < d
          BY <3>3, <4>2
        <5>2. CASE Looked(i)
          BY <1>1, <2>1, <5>2 DEF Looked
        <5>3. ASSUME NEW v \in Workers, worker[v].pc = "check", worker[v].piece = i
              PROVE  worker'[v].pc = "check" /\ worker'[v].piece = i
          BY <1>1, <2>1, <5>3
        <5> QED BY <5>1, <5>2, <5>3 DEF Frontier
      <4> QED BY <4>1, <4>2
    <3>4. d + 1 <= Len(nodes) /\ d + 1 <= Dealt' /\ ~cancelled'
      BY <1>2, <2>1, <2>2, <3>1
    <3>5. ASSUME NEW i \in 0 .. Len(nodes) - 1,
                 \/ NodeAt(nodes, i) \in result
                 \/ \E k \in 1 .. K : feasibleNodes[k] = NodeAt(nodes, i)
          PROVE  i < d + 1
      <4>1. i < d
        BY <3>5 DEF Frontier
      <4> QED BY <4>1
    <3>6. Frontier(d + 1)'
      BY <1>1, <2>1, <3>1, <3>2, <3>3, <3>4, <3>5 DEF Frontier
    <3>7. d + 1 \in Nat
      OBVIOUS
    <3> QED BY <3>6, <3>7
  <2>3. CASE /\ worker'[w].pc = "done"
             /\ nextChunk' \in {nextChunk, nextChunk + 1}
             /\ ~cancelled => nextChunk' = nextChunk
    <3>1. d <= Len(nodes) /\ d <= Dealt' /\ (~cancelled => d = Dealt')
      BY <1>2, <1>3, <2>3 DEF Frontier
    <3>2. \A v \in Workers : worker'[v].pc \in {"check", "counted", "over"}
             => worker[v].pc = worker'[v].pc /\ worker[v].piece = worker'[v].piece
      BY <1>1, <2>3
    <3>3. \A v \in Workers : worker[v].pc = "check" => worker'[v] = worker[v]
      BY <1>1, <2>1
    <3>4. \A i : Looked(i)' = Looked(i)
      BY <1>1, <2>1 DEF Looked
    <3>5. cancelled => \E i \in Nat : i < d /\ Lost(i)'
      BY <1>4
    <3>6. \A i \in Nat : i < d =>
             Looked(i)' \/ \E v \in Workers : worker'[v].pc = "check" /\ worker'[v].piece = i
      BY <3>3, <3>4 DEF Frontier
    <3>7. \A v \in Workers :
             worker'[v].pc \in {"check", "counted", "over"} => worker'[v].piece < d
      BY <3>2 DEF Frontier
    <3>8. \A i \in 0 .. Len(nodes) - 1 :
             \/ NodeAt(nodes, i) \in result
             \/ \E k \in 1 .. K : feasibleNodes[k] = NodeAt(nodes, i)
             => i < d
      BY DEF Frontier
    <3>9. Frontier(d)'
      BY <1>1, <2>1, <3>1, <3>5, <3>6, <3>7, <3>8 DEF Frontier
    <3> QED BY <3>9
  <2> QED BY <1>0, <1>2, <1>5, <2>1, <2>2, <2>3, NextPieceMoves DEF Turned
<1>6. ASSUME worker[w].pc \in {"check", "counted", "over"}
      PROVE  /\ j < d /\ j \in 0 .. Len(nodes) - 1
             /\ NodeAt(nodes, j) = Current(w)
             /\ \A v \in Workers \ {w} :
                   worker[v].pc \in {"check", "counted", "over"} => worker[v].piece # j
  BY <1>0, <1>6, CurrentNode, OnePlaceEach DEF Frontier, SearchOK, Current
<1>7. CASE CheckNode(w)
  <2>1. PICK v \in {"fit", "unfit", "error"} :
           /\ Current(w) \in DOMAIN verdict => verdict[Current(w)] = v
           /\ DOMAIN verdict' = DOMAIN verdict \cup {Current(w)}
           /\ cancelled' = (cancelled \/ v = "error")
           /\ result' = IF v = "unfit" THEN result \cup {Current(w)} ELSE result
           /\ \/ v = "fit" /\ Turned(w, "counted", j, worker[w].end)
              \/ v # "fit" /\ Turned(w, "ready", j + 1, worker[w].end)
    BY <1>0, <1>7, CheckNodeMoves
  <2>2. worker[w].pc = "check" /\ feasibleNodes' = feasibleNodes /\ nextChunk' = nextChunk
    BY <1>0, <1>7, CheckNodeMoves
  <2>3. ASSUME v = "error" PROVE j < d /\ Lost(j)'
    <3>1. j < d /\ NodeAt(nodes, j) = Current(w)
      BY <1>6, <2>2
    <3>2. Current(w) \notin result
      BY <2>1, <2>3 DEF RefusedOK
    <3>3. \A k \in 1 .. K : feasibleNodes[k] # Current(w)
      <4>1. Current(w) # None /\ ~Fits(Current(w))
        BY <1>0, <2>1, <2>2, <2>3, CurrentNode DEF Fits, SearchOK
      <4> QED BY <4>1 DEF SearchOK, KeptOK
    <3>4. \A u \in Workers : worker'[u].piece = j => worker'[u].pc \notin {"check", "counted"}
      BY <1>1, <1>6, <2>1, <2>2, <2>3 DEF Turned
    <3> QED BY <1>1, <2>1, <2>2, <2>3, <3>1, <3>2, <3>3, <3>4 DEF Lost, Looked
  <2>4. cancelled' => \E i \in Nat : i < d /\ Lost(i)'
    <3>1. CASE v = "error"
      BY <1>2, <2>3, <3>1
    <3>2. CASE v # "error"
      <4>1. ~NextPiece(w)
        BY <2>2 DEF NextPiece
      <4> QED BY <1>4, <2>1, <3>2, <4>1
    <3> QED BY <3>1, <3>2
  <2>5. Frontier(d)'
    BY <1>0, <2>1, <2>2, <2>4, FrontierKept DEF Turned
  <2> QED BY <2>5
<1>8. CASE KeepNode(w)
  <2>1. /\ worker[w].pc = "counted" /\ UNCHANGED <<verdict, result, nextChunk>>
        /\ worker'[w].length = worker[w].length
    BY <1>8, KeepNodeMoves
  <2>2. ~NextPiece(w)
    BY <2>1 DEF NextPiece
  <2>3. CASE /\ worker[w].length > K /\ cancelled' = TRUE
             /\ Turned(w, "over", j, worker[w].end) /\ feasibleNodes' = feasibleNodes
    <3>1. j < d /\ NodeAt(nodes, j) = Current(w) /\ j \in 0 .. Len(nodes) - 1
      BY <1>6, <2>1
    <3>2. Current(w) \in DOMAIN verdict /\ Current(w) \notin result
      BY <2>1 DEF SearchOK, KeptOK, Fits, RefusedOK
    <3>3. ASSUME NEW k \in 1 .. K, feasibleNodes[k] = Current(w) PROVE FALSE
      <4>1. Current(w) # None /\ Has(w, j)
        BY <1>0, <2>1, CurrentNode DEF SearchOK
      <4>2. PICK i \in 0 .. Len(nodes) - 1 : Passed(i) /\ feasibleNodes[k] = NodeAt(nodes, i)
        BY <3>3, <4>1 DEF SearchOK, KeptOK
      <4>3. i = j
        BY <3>1, <3>3, <4>2, OtherNodes
      <4> QED BY <4>1, <4>2, <4>3 DEF Passed
    <3>4. \A u \in Workers : worker'[u].piece = j => worker'[u].pc \notin {"check", "counted"}
      BY <1>1, <1>6, <2>1, <2>3 DEF Turned
    <3>5. Lost(j)'
      BY <1>1, <2>1, <2>3, <3>1, <3>2, <3>3, <3>4 DEF Lost, Looked
    <3> QED BY <1>0, <1>2, <2>1, <2>3, <3>1, <3>5, FrontierKept DEF Turned
  <2>4. CASE /\ worker[w].length <= K /\ cancelled' = cancelled
             /\ Turned(w, "ready", j + 1, worker[w].end)
             /\ feasibleNodes' = [feasibleNodes EXCEPT ![worker[w].length] = Current(w)]
    <3>1. \A k \in 1 .. K : feasibleNodes'[k] \in {feasibleNodes[k], Current(w)}
      BY <1>2, <2>4
    <3>2. cancelled' => \E i \in Nat : i < d /\ Lost(i)'
      BY <1>4, <2>2, <2>4
    <3> QED BY <1>0, <2>1, <2>4, <3>1, <3>2, FrontierKept DEF Turned
  <2> QED BY <1>0, <1>8, <2>3, <2>4, KeepNodeMoves
<1>9. CASE UncountNode(w)
  <2>1. /\ worker[w].pc = "over" /\ worker'[w].pc = "ready"
        /\ UNCHANGED <<verdict, feasibleNodes, result, cancelled, nextChunk>>
    BY <1>9, UncountNodeMoves DEF Turned
  <2>2. ~NextPiece(w)
    BY <2>1 DEF NextPiece
  <2>3. cancelled' => \E i \in Nat : i < d /\ Lost(i)'
    BY <1>4, <2>1, <2>2
  <2> QED BY <2>1, <2>3, FrontierKept
<1> QED BY <1>5, <1>7, <1>8, <1>9 DEF WorkerStep

-----------------------------------------------------------------------------
(* The invariant.                                                          *)

\* A goroutine's step.
LEMMA GoroutinesKeepStart ==
  ASSUME StartInv, NEW w \in Workers, WorkerStep(w)
  PROVE  StartInv'
<1>1. /\ ShapeInv /\ SearchOK /\ Searching /\ RefusedOK
      /\ ChunkSize = 1 => SinglesOK /\ \E d \in Nat : Frontier(d)
  BY SearchGoesOn DEF StartInv, NodeInv, SearchInv, ExaminesInOrder, Searching
<1>2. /\ pc = "search" /\ pc' = "search" /\ ChunkSize' = ChunkSize
      /\ UNCHANGED <<preRes, nominee, allNodes, nodes, statuses, feasible>>
  BY <1>1, SearchGoesOn
<1>3. NodeInv'
  BY GoroutineSteps DEF StartInv
<1>4. RefusedOK'
  BY <1>1, RefusedStay
<1>5. ChunkSize' = 1 => SinglesOK' /\ \E d \in Nat : Frontier(d)'
  BY <1>1, <1>2, SinglesStay, FrontierMoves
<1>6. ExaminesInOrder'
  BY <1>4, <1>5 DEF ExaminesInOrder
<1>7. StatusesOK' /\ WholeList'
  BY <1>2 DEF StartInv, StatusesOK, WholeList, Searching
<1> QED BY <1>3, <1>6, <1>7 DEF StartInv

\* A search that starts has examined nothing.
LEMMA SearchBegins ==
  ASSUME NodeInv, pc \in {"nominated", "find"},
         NEW list \in Seq(Nodes), Len(list) <= MaxNodes,
         NEW trying \in Nodes \cup {None},
         findNodesThatPassFilters(trying, list)
  PROVE  ExaminesInOrder'
<1> SUFFICES ASSUME Searching'
             PROVE  RefusedOK' /\ SinglesOK' /\ Frontier(0)'
  BY DEF ExaminesInOrder
<1>1. fwk.filter
  BY DEF findNodesThatPassFilters, Searching
<1>2. /\ nodes' = list /\ result' = {} /\ cancelled' = FALSE /\ nextChunk' = 0
      /\ feasibleNodes' = [k \in 1 .. NodesToFind(Len(list)) |-> None]
      /\ worker' = [w \in Workers |-> [Idle EXCEPT !.pc = "ready"]]
      /\ UNCHANGED <<fwk, nextStartNodeIndex>>
  BY <1>1 DEF findNodesThatPassFilters, podVars
<1>3. numNodesToFind' = NodesToFind(Len(list))
  BY <1>2 DEF numNodesToFind, NodesToFind, hasScoring, hasExtenderFilters
<1>4. nextStartNodeIndex \in Nat /\ Len(list) \in Nat
  BY SearchTypes DEF NodeInv
<1>5. Dealt' = 0
  <2>1. ChunkSize' \in Nat
    BY <1>2, <1>4, ChunkSizeType DEF ChunkSize
  <2>2. Dealt' = nextChunk' * ChunkSize'
    BY DEF Dealt
  <2>3. \A c \in Nat : 0 * c = 0
    OBVIOUS
  <2>4. 0 * ChunkSize' = 0
    BY <2>1, <2>3, Zenon
  <2>5. nextChunk' = 0
    BY <1>2
  <2> QED BY <2>2, <2>4, <2>5, Zenon
<1>6. \A w \in Workers : /\ worker'[w].pc = "ready"
                         /\ worker'[w].piece = 0 /\ worker'[w].end = 0
  BY <1>2 DEF Idle
<1>7. ASSUME NEW i \in 0 .. Len(list) - 1 PROVE NodeAt(nodes, i)' # None
  <2>1. NodeAt(list, i) \in Nodes
    BY <1>4, NodeAtOnce
  <2>2. NodeAt(nodes, i)' = NodeAt(list, i)
    BY <1>2 DEF NodeAt
  <2> QED BY <2>1, <2>2 DEF Nodes, None
<1>8. RefusedOK' /\ SinglesOK'
  BY <1>2, <1>6 DEF RefusedOK, SinglesOK
<1>9. Frontier(0)'
  <2>1. \A k \in 1 .. NodesToFind(Len(list)) : feasibleNodes'[k] = None
    BY <1>2
  <2>2. 0 <= Len(list) /\ 0 <= Dealt' /\ 0 = Dealt' /\ ~cancelled'
    BY <1>2, <1>4, <1>5
  <2>3. \A i \in Nat : ~(i < 0)
    OBVIOUS
  <2> QED BY <1>2, <1>3, <1>6, <1>7, <2>1, <2>2, <2>3 DEF Frontier
<1> QED BY <1>8, <1>9

\* The steps before and after a search.
LEMMA CycleKeepsStart ==
  ASSUME StartInv, SearchStep
  PROVE  StartInv'
<1>1. /\ NodeInv /\ TypeOK /\ PhaseOK /\ ExaminesInOrder /\ StatusesOK /\ WholeList
      /\ 0 \in Nodes
  BY NodeSearchAssumption DEF StartInv, NodeInv, ShapeInv, Nodes
<1>2. NodeInv'
  BY <1>1, NodeStep DEF Next
<1>3. SUFFICES ExaminesInOrder' /\ StatusesOK' /\ WholeList'
  BY <1>2 DEF StartInv
<1>4. CASE /\ pc \in {"extend", "pick", "score", "prioritize"}
           /\ pc' \in {"pick", "score", "prioritize", "done"}
  BY <1>4 DEF ExaminesInOrder, StatusesOK, WholeList, Searching
<1>5. CASE PreFilterFails
  BY <1>5 DEF PreFilterFails, Return, ExaminesInOrder, StatusesOK, WholeList, Searching
<1>6. ASSUME NEW res, NEW nnn, PreFilter(res, nnn)
      PROVE  ExaminesInOrder' /\ StatusesOK' /\ WholeList'
  <2>1. statuses = {} /\ statuses' = {} /\ pc' \in {"find", "nominated"}
    BY <1>1, <1>6 DEF PreFilter, StatusesOK
  <2> QED BY <1>1, <2>1 DEF ExaminesInOrder, StatusesOK, WholeList, Searching
<1>7. CASE evaluateNominatedNode
  <2>1. statuses = {} /\ nominee \in Nodes /\ nominee # None /\ pc = "nominated"
    BY <1>1, <1>7 DEF evaluateNominatedNode, StatusesOK, PhaseOK, TypeOK
  <2>2. CASE findNodesThatPassFilters(nominee, <<nominee>>)
    <3>1. <<nominee>> \in Seq(Nodes) /\ Len(<<nominee>>) <= MaxNodes
      BY <2>1, NodeSearchAssumption
    <3>2. ExaminesInOrder'
      BY <1>1, <2>1, <2>2, <3>1, SearchBegins
    <3>3. /\ nodes' = <<nominee>> /\ nominee' = nominee /\ statuses' = {}
          /\ pc' \in {"search", "extend"}
      BY <2>1, <2>2 DEF findNodesThatPassFilters, FiltersReturn
    <3>4. Range(nodes)' = {nominee}
      BY <3>3 DEF Range
    <3>5. pc' = "extend" => Range(feasible)' \subseteq {nominee}
      <4> SUFFICES ASSUME pc' = "extend" PROVE Range(feasible)' \subseteq {nominee}
        OBVIOUS
      <4> DEFINE K == NodesToFind(1)
      <4>1. /\ ~fwk.filter
            /\ feasible' = [k \in 1 .. K |-> NodeAt(<<nominee>>, k - 1)]
        BY <2>2 DEF findNodesThatPassFilters, FiltersReturn
      <4>2. K \in Nat /\ K <= 1
        BY <1>1, <4>1, NodesToFindType DEF TypeOK
      <4>3. nextStartNodeIndex \in Nat
        BY <1>1, SearchTypes DEF NodeInv
      <4>4. \A k \in 1 .. K : NodeAt(<<nominee>>, k - 1) \in {nominee}
        <5>1. <<nominee>> \in Seq({nominee}) /\ Len(<<nominee>>) = 1
          OBVIOUS
        <5>2. \A k \in 1 .. K : k - 1 \in 0 .. 1 - 1
          BY <4>2
        <5> QED BY <4>3, <5>1, <5>2, NodeAtOnce
      <4> HIDE DEF K
      <4> QED BY <4>1, <4>4 DEF Range
    <3>6. StatusesOK' /\ WholeList'
      BY <2>1, <3>3, <3>4, <3>5 DEF StatusesOK, WholeList, Searching
    <3> QED BY <3>2, <3>6
  <2>3. CASE pc' = "find" /\ statuses' = statuses
    BY <1>1, <2>1, <2>3 DEF ExaminesInOrder, StatusesOK, WholeList, Searching
  <2> QED BY <1>7, <2>2, <2>3 DEF evaluateNominatedNode
<1>8. CASE findNodesThatFitPod
  <2>1. PICK list \in IF preRes.all
                      THEN {[k \in 1 .. allNodes |-> k - 1]}
                      ELSE Orders({n \in preRes.names : n < allNodes}) :
             findNodesThatPassFilters(None, list)
    BY <1>8 DEF findNodesThatFitPod
  <2>2. list \in Seq(Nodes) /\ Len(list) <= MaxNodes
    <3>1. allNodes \in 0 .. MaxNodes /\ MaxNodes \in Nat
      BY <1>1, NodeSearchAssumption DEF TypeOK
    <3>2. CASE preRes.all
      BY <2>1, <3>1, <3>2 DEF Nodes
    <3>3. CASE ~preRes.all
      <4>1. {n \in preRes.names : n < allNodes} \in SUBSET Nodes
        BY <1>1 DEF TypeOK
      <4> QED BY <2>1, <3>3, <4>1, OrdersAreLists
    <3> QED BY <3>2, <3>3
  <2>3. pc = "find" /\ None \in Nodes \cup {None}
    BY <1>8 DEF findNodesThatFitPod
  <2>4. ExaminesInOrder'
    BY <1>1, <2>1, <2>2, <2>3, SearchBegins
  <2>5. /\ nodes' = list /\ nominee' = None /\ UNCHANGED <<preRes, allNodes, statuses>>
        /\ pc' \in {"search", "extend"}
    BY <2>1 DEF findNodesThatPassFilters, FiltersReturn, podVars
  <2>6. StatusesOK'
    BY <1>1, <2>3, <2>5 DEF StatusesOK, Searching
  <2>7. WholeList'
    BY <2>1, <2>5 DEF WholeList
  <2> QED BY <2>4, <2>6, <2>7
<1>9. CASE JoinSearch
  <2>1. /\ pc = "search" /\ pc' \in {"extend", "find", "done"}
        /\ feasible' = Found /\ statuses' = statuses \cup result
        /\ UNCHANGED <<nominee, nodes>>
        /\ pc' = "find" => nominee # None
    BY <1>9 DEF JoinSearch, Joined, Searching, FiltersReturn, Found, Return, searchVars
  <2>2. ExaminesInOrder' /\ WholeList'
    BY <2>1 DEF ExaminesInOrder, WholeList, Searching
  <2>3. StatusesOK'
    <3>1. CASE nominee # None
      <4>1. /\ statuses \subseteq {nominee} /\ Range(nodes) \subseteq {nominee}
            /\ result \subseteq Range(nodes) /\ nominee \in Nodes
        BY <1>1, <2>1, <3>1 DEF StatusesOK, ExaminesInOrder, Searching, RefusedOK, TypeOK
      <4>2. Range(Found) \subseteq Range(nodes)
        <5>1. ShapeInv /\ SearchInv /\ Joined
          BY <1>1, <1>9 DEF NodeInv, JoinSearch
        <5>2. /\ Found \in Seq(Nodes) /\ Len(Found) = feasibleNodesLen
              /\ \A k \in 1 .. feasibleNodesLen : Found[k] \in Range(nodes)
          BY <5>1, SearchJoined
        <5> QED BY <5>2 DEF Range
      <4>3. /\ statuses' \subseteq {nominee} /\ Range(nodes)' \subseteq {nominee}
            /\ Range(feasible)' \subseteq {nominee}
        BY <2>1, <4>1, <4>2
      <4> QED BY <2>1, <3>1, <4>1, <4>3 DEF StatusesOK, Searching
    <3>2. CASE nominee = None
      BY <2>1, <3>2 DEF StatusesOK, Searching
    <3> QED BY <3>1, <3>2
  <2> QED BY <2>2, <2>3
<1>10. CASE ExtendersReturn
  <2>1. /\ pc = "extend" /\ pc' \in {"find", "pick"} /\ UNCHANGED <<nominee, statuses>>
        /\ pc' = "find" => nominee # None
    BY <1>10 DEF ExtendersReturn
  <2> QED BY <1>1, <2>1 DEF ExaminesInOrder, StatusesOK, WholeList, Searching, TypeOK
<1>11. ASSUME NEW kept \in SUBSET Nodes, ExtenderFilters(kept)
       PROVE  ExaminesInOrder' /\ StatusesOK' /\ WholeList'
  <2>1. /\ pc = "extend" /\ pc' = pc /\ UNCHANGED <<nominee, nodes>>
        /\ kept \subseteq Range(feasible)
        /\ statuses' = statuses \cup (Range(feasible) \ kept)
        /\ feasible' \in Orders(kept) \/ feasible' = feasible
    BY <1>11 DEF ExtenderFilters, Refused, searchVars
  <2>2. Range(feasible)' \subseteq Range(feasible)
    BY <2>1, OrdersAreLists
  <2>3. StatusesOK'
    <3> SUFFICES ASSUME nominee # None
                 PROVE  /\ statuses' \subseteq {nominee}
                        /\ Range(nodes)' \subseteq {nominee}
                        /\ Range(feasible)' \subseteq {nominee}
      BY <2>1 DEF StatusesOK, Searching
    <3> QED BY <1>1, <2>1, <2>2 DEF StatusesOK
  <2> QED BY <2>1, <2>3 DEF ExaminesInOrder, WholeList, Searching
<1>12. CASE ExtenderFails
  <2>1. /\ pc = "extend" /\ pc' \in {"extend", "find", "done"}
        /\ UNCHANGED <<nominee, nodes, feasible, statuses>>
        /\ pc' = "find" => nominee # None
    BY <1>12 DEF ExtenderFails, Return, searchVars
  <2>2. StatusesOK'
    <3>1. CASE nominee # None
      BY <1>1, <2>1, <3>1 DEF StatusesOK, Searching, TypeOK
    <3>2. CASE nominee = None
      BY <2>1, <3>2 DEF StatusesOK, Searching
    <3> QED BY <3>1, <3>2
  <2> QED BY <2>1, <2>2 DEF ExaminesInOrder, WholeList, Searching
<1>13. CASE PickNode \/ prioritizeNodes \/ selectHost
  BY <1>4, <1>13 DEF PickNode, prioritizeNodes, selectHost, Return
<1>14. CASE \E i \in DOMAIN Extenders, given \in SUBSET Nodes : ExtenderScores(i, given)
  BY <1>4, <1>14 DEF ExtenderScores
<1> QED BY <1>5, <1>6, <1>7, <1>8, <1>9, <1>10, <1>11, <1>12, <1>13, <1>14 DEF SearchStep

\* The invariant holds at first, and every step keeps it.
LEMMA StartHolds == Spec => []StartInv
<1>1. Init => StartInv
  <2> SUFFICES ASSUME Init PROVE StartInv
    OBVIOUS
  <2>1. NodeInv
    BY NodeInit
  <2>2. pc = "done"
    BY DEF Init
  <2> QED BY <2>1, <2>2 DEF StartInv, ExaminesInOrder, StatusesOK, WholeList, Searching
<1>2. StartInv /\ [Next]_vars => StartInv'
  <2> SUFFICES ASSUME StartInv, [Next]_vars PROVE StartInv'
    OBVIOUS
  <2>1. CASE \E p \in Profiles, n \in SnapshotSizes : SchedulePod(p, n)
    <3>1. NodeInv'
      BY <2>1, CycleStarts DEF StartInv
    <3>2. pc' \in {"done", "prefilter"} /\ statuses' = {}
      BY <2>1 DEF SchedulePod, Return
    <3> QED BY <3>1, <3>2 DEF StartInv, ExaminesInOrder, StatusesOK, WholeList, Searching
  <2>2. CASE SearchStep
    BY <2>2, CycleKeepsStart
  <2>3. CASE \E w \in Workers : WorkerStep(w)
    BY <2>3, GoroutinesKeepStart
  <2>4. CASE UNCHANGED vars
    <3>1. NodeInv'
      BY <2>4, NodeStep DEF StartInv
    <3>2. UNCHANGED <<pc, nextStartNodeIndex, fwk, allNodes, preRes, nominee, nodes, verdict,
                      feasibleNodes, result, cancelled, nextChunk, worker, feasible,
                      statuses>>
      BY <2>4 DEF vars, podVars, searchVars, sharedVars, scoreVars
    <3>3. UNCHANGED <<numNodesToFind, ChunkSize, Dealt>>
      BY <3>2 DEF numNodesToFind, NodesToFind, hasScoring, hasExtenderFilters, ChunkSize,
                  Dealt
    <3>4. \A i : NodeAt(nodes, i)' = NodeAt(nodes, i)
      BY <3>2 DEF NodeAt
    <3>5. \A i : Lost(i)' = Lost(i) /\ Looked(i)' = Looked(i)
      BY <3>2, <3>3, <3>4 DEF Lost, Looked
    <3>6. \A d : Frontier(d)' = Frontier(d)
      BY <3>2, <3>3, <3>4, <3>5 DEF Frontier
    <3>7. ExaminesInOrder'
      BY <3>2, <3>3, <3>6 DEF StartInv, ExaminesInOrder, Searching, RefusedOK, SinglesOK
    <3>8. StatusesOK' /\ WholeList'
      BY <3>2 DEF StartInv, StatusesOK, WholeList, Searching
    <3> QED BY <3>1, <3>7, <3>8 DEF StartInv
  <2> QED BY <2>1, <2>2, <2>3, <2>4 DEF Next
<1> QED BY <1>1, <1>2, PTL DEF Spec

-----------------------------------------------------------------------------
(* The start of the next search.                                           *)

\* How far apart two places of a circle are.
LEMMA Distance ==
  ASSUME NEW L \in Nat \ {0}, NEW s \in Nat, NEW t \in Nat
  PROVE  /\ (((s + t) % L) - s) % L = t % L
         /\ t % L <= t /\ t % L \in 0 .. L - 1
<1> DEFINE x == ((s + t) % L) - s
           a == x \div L
           b == (s + t) \div L
           c == t \div L
           r == x % L
           u == t % L
<1>1. x \in Int /\ b \in Int /\ s + t = L * b + (x + s)
  OBVIOUS
<1>2. c \in Nat /\ u \in 0 .. L - 1 /\ t = L * c + u
  OBVIOUS
<1> HIDE DEF x
<1>3. a \in Int /\ r \in 0 .. L - 1 /\ x = L * a + r
  BY <1>1
<1> HIDE DEF a, b, c, r, u
<1> DEFINE d == a + b - c
<1>4. d \in Int /\ u - r = L * d
  BY <1>1, <1>2, <1>3
<1> HIDE DEF d
<1>5. d = 0
  <2>1. d >= 1 => L * d >= L
    BY <1>4
  <2>2. d <= -1 => L * d <= -L
    BY <1>4
  <2> QED BY <1>2, <1>3, <1>4, <2>1, <2>2
<1>6. r = u
  BY <1>2, <1>3, <1>4, <1>5
<1>7. u <= t
  <2>1. L * c >= 0
    BY <1>2
  <2> QED BY <1>2, <2>1
<1> QED BY <1>2, <1>6, <1>7 DEF r, u, x

\* A search that was cancelled keeps and refuses fewer nodes than it examined.
LEMMA CancelledCount ==
  ASSUME StartInv, Joined, ChunkSize = 1, nominee = None, cancelled,
         NEW d \in Nat, Frontier(d)
  PROVE  /\ Cardinality(statuses \cup result) \in Nat
         /\ feasibleNodesLen + Cardinality(statuses \cup result) <= d
<1> DEFINE P == {NodeAt(nodes, i) : i \in 0 .. d - 1}
           F == Range(Found)
           c == feasibleNodesLen
<1>1. /\ ShapeInv /\ SearchInv /\ RefusedOK /\ Searching
      /\ d <= Len(nodes) /\ Len(nodes) \in Nat
      /\ \A w \in Workers : worker[w].pc = "done"
      /\ numNodesToFind \in Nat /\ nextStartNodeIndex \in Nat
      /\ nodes \in Seq(Nodes)
  BY SearchTypes
     DEF StartInv, NodeInv, ShapeInv, TypeOK, ExaminesInOrder, Joined, Frontier
<1>2. /\ c \in 0 .. numNodesToFind /\ Found \in Seq(Nodes) /\ Len(Found) = c
      /\ \A k \in 1 .. c : Found[k] \in Range(nodes) /\ Fits(Found[k])
      /\ IsInjective(Found)
  BY <1>1, SearchJoined
<1>3. IsFiniteSet(P) /\ Cardinality(P) \in Nat /\ Cardinality(P) <= d
  <2> DEFINE f == [i \in 0 .. d - 1 |-> NodeAt(nodes, i)]
  <2>1. f \in Surjection(0 .. d - 1, P)
    BY DEF Surjection
  <2>2. IsFiniteSet(0 .. d - 1) /\ Cardinality(0 .. d - 1) = d
    BY FS_Interval
  <2>3. IsFiniteSet(P) /\ Cardinality(P) <= d
    BY <2>1, <2>2, FS_Surjection
  <2> QED BY <2>3, FS_CardinalityType
<1>4. IsFiniteSet(F) /\ Cardinality(F) = c
  <2>1. Found \in Bijection(1 .. c, F)
    BY <1>2 DEF Bijection, Injection, Surjection, IsInjective, Range
  <2>2. IsFiniteSet(1 .. c) /\ Cardinality(1 .. c) = c
    BY <1>2, FS_Interval
  <2> QED BY <2>1, <2>2, FS_Bijection DEF ExistsBijection
<1>5. PICK l \in Nat : l < d /\ Lost(l)
  BY DEF Frontier
<1> DEFINE n == NodeAt(nodes, l)
<1>6. n \in P
  BY <1>5
<1>7. \A m \in Range(nodes) : \E i \in 0 .. Len(nodes) - 1 : NodeAt(nodes, i) = m
  BY <1>1, NodeAtOnce
<1>8. result \subseteq P \ {n}
  <2> SUFFICES ASSUME NEW m \in result PROVE m \in P /\ m # n
    OBVIOUS
  <2>1. PICK i \in 0 .. Len(nodes) - 1 : NodeAt(nodes, i) = m
    BY <1>1, <1>7 DEF RefusedOK
  <2>2. i < d
    BY <2>1 DEF Frontier
  <2>3. i \in 0 .. d - 1
    BY <1>1, <2>2
  <2> QED BY <1>5, <2>1, <2>3 DEF Lost
<1>9. F \subseteq P \ {n}
  <2> SUFFICES ASSUME NEW k \in 1 .. c PROVE Found[k] \in P /\ Found[k] # n
    BY <1>2 DEF Range
  <2>1. k \in 1 .. numNodesToFind /\ Found[k] = feasibleNodes[k]
    BY <1>1, <1>2 DEF Found, ShapeInv, TypeOK, PhaseOK, Searching
  <2>2. PICK i \in 0 .. Len(nodes) - 1 : NodeAt(nodes, i) = Found[k]
    BY <1>2, <1>7
  <2>3. i < d
    BY <2>1, <2>2 DEF Frontier
  <2>4. i \in 0 .. d - 1
    BY <1>1, <2>3
  <2> QED BY <1>5, <2>1, <2>2, <2>4 DEF Lost
<1>10. F \cap result = {}
  BY <1>1, <1>2 DEF RefusedOK, Fits, Range
<1>11. /\ IsFiniteSet(P \ {n}) /\ Cardinality(P \ {n}) = Cardinality(P) - 1
  BY <1>3, <1>6, FS_RemoveElement
<1>12. IsFiniteSet(result) /\ Cardinality(result) \in Nat
  BY <1>8, <1>11, FS_Subset, FS_CardinalityType
<1>13. Cardinality(F \cup result) = c + Cardinality(result)
  <2>1. Cardinality(F \cap result) = 0
    BY <1>10, FS_EmptySet
  <2>2. Cardinality(F \cup result) =
           Cardinality(F) + Cardinality(result) - Cardinality(F \cap result)
    BY <1>4, <1>12, FS_Union
  <2> QED BY <1>2, <1>4, <1>12, <2>1, <2>2
<1>14. Cardinality(F \cup result) <= Cardinality(P) - 1
  <2>1. F \cup result \in SUBSET (P \ {n})
    BY <1>8, <1>9
  <2> QED BY <1>11, <2>1, FS_Subset
<1>15. PICK x \in Nodes : statuses \subseteq {x}
  BY <1>1 DEF StartInv, StatusesOK
<1>16. /\ IsFiniteSet(result \cup {x})
       /\ Cardinality(result \cup {x}) <= Cardinality(result) + 1
  BY <1>12, FS_AddElement
<1>17. statuses \cup result \in SUBSET (result \cup {x})
  BY <1>15
<1>18. /\ Cardinality(statuses \cup result) \in Nat
       /\ Cardinality(statuses \cup result) <= Cardinality(result \cup {x})
       /\ Cardinality(result \cup {x}) \in Nat
  BY <1>16, <1>17, FS_Subset, FS_CardinalityType
<1> QED BY <1>2, <1>3, <1>12, <1>13, <1>14, <1>16, <1>18

\* So the index steps over nodes that the search examined.
LEMMA NoneSkipped ==
  ASSUME StartInv, Joined, ChunkSize = 1, preRes.all, nominee = None,
         NEW s \in Nat, s = NextStart(Found, statuses \cup result)
  PROVE  \A k \in 0 .. ((s - nextStartNodeIndex) % allNodes) - 1 :
            (nextStartNodeIndex + k) % allNodes \in DOMAIN verdict
<1> DEFINE L == allNodes
           t == feasibleNodesLen + Cardinality(statuses \cup result)
<1>1. /\ ShapeInv /\ SearchInv /\ SearchOK /\ Searching
      /\ SinglesOK /\ \E d \in Nat : Frontier(d)
      /\ nodes = [k \in 1 .. L |-> k - 1]
      /\ L \in Nat \ {0} /\ nextStartNodeIndex \in Nat /\ Dealt \in Nat
      /\ \A w \in Workers : worker[w].pc = "done"
  <2>1. ShapeInv /\ SearchInv /\ Searching /\ SearchOK /\ (\A w \in Workers : worker[w].pc = "done")
    BY DEF StartInv, NodeInv, Joined, SearchInv
  <2>2. SinglesOK /\ \E d \in Nat : Frontier(d)
    BY <2>1 DEF StartInv, ExaminesInOrder
  <2>3. nodes = [k \in 1 .. L |-> k - 1]
    BY <2>1 DEF StartInv, WholeList
  <2>4. L \in Nat \ {0}
    BY <2>1, NodeSearchAssumption DEF ShapeInv, TypeOK, PhaseOK, Searching
  <2> QED BY <2>1, <2>2, <2>3, <2>4, SearchTypes
<1>2. PICK d \in Nat : Frontier(d)
  BY <1>1
<1>3. Len(nodes) = L
  BY <1>1
<1>4. /\ feasibleNodesLen \in Nat /\ Len(Found) = feasibleNodesLen
      /\ Cardinality(statuses \cup result) \in Nat
  <2>1. IsFiniteSet(Nodes)
    BY NodeSearchAssumption, FS_Interval DEF Nodes
  <2>2. statuses \cup result \in SUBSET Nodes
    BY <1>1 DEF ShapeInv, TypeOK
  <2>3. Cardinality(statuses \cup result) \in Nat
    BY <2>1, <2>2, FS_Subset, FS_CardinalityType
  <2> QED BY <1>1, <2>3, SearchJoined, SearchTypes
<1>5. t \in Nat /\ s = (nextStartNodeIndex + t) % L
  BY <1>1, <1>4 DEF NextStart
<1>6. (s - nextStartNodeIndex) % L = t % L /\ t % L <= t /\ t % L \in 0 .. L - 1
  <2> HIDE DEF t, L
  <2>1. /\ (((nextStartNodeIndex + t) % L) - nextStartNodeIndex) % L = t % L
        /\ t % L <= t /\ t % L \in 0 .. L - 1
    BY <1>1, <1>5, Distance, Zenon
  <2> QED BY <1>5, <2>1
<1>7. t % L <= d
  <2>1. CASE cancelled
    <3>1. t <= d
      BY <1>2, <2>1, CancelledCount
    <3> HIDE DEF t
    <3> QED BY <1>5, <1>6, <3>1
  <2>2. CASE ~cancelled
    <3>1. PICK w \in Workers : TRUE
      BY NodeSearchAssumption
    <3>2. Dealt >= Len(nodes)
      BY <1>1, <2>2, <3>1 DEF SearchOK, CancelOK
    <3>3. d = L
      BY <1>1, <1>2, <1>3, <2>2, <3>2 DEF Frontier
    <3> HIDE DEF t
    <3> QED BY <1>6, <3>3
  <2> QED BY <2>1, <2>2
<1>8. ASSUME NEW k \in 0 .. (t % L) - 1
      PROVE  (nextStartNodeIndex + k) % L \in DOMAIN verdict
  <2>1. k \in Nat /\ k < d
    <3> HIDE DEF t, L
    <3> QED BY <1>6, <1>7
  <2>2. NodeAt(nodes, k) \in DOMAIN verdict
    BY <1>1, <1>2, <2>1 DEF Frontier, Looked
  <2>3. NodeAt(nodes, k) = (nextStartNodeIndex + k) % L
    <3> DEFINE m == (nextStartNodeIndex + k) % L
    <3>1. m \in 0 .. L - 1
      BY <1>1, <2>1
    <3>2. NodeAt(nodes, k) = nodes[m + 1]
      BY <1>3 DEF NodeAt
    <3> HIDE DEF m
    <3>3. nodes[m + 1] = m
      BY <1>1, <3>1
    <3> QED BY <3>2, <3>3 DEF m
  <2> QED BY <2>2, <2>3
<1> QED BY <1>6, <1>8

\* nextStartNodeIndex never steps over a node that the search did not examine.
THEOREM NoNodeIsSkipped == Spec => SkipsOnlyExaminedNodes
<1>1. StartInv /\ [Next]_vars =>
        [ nextStartNodeIndex' # nextStartNodeIndex /\ preRes.all /\ fwk.filter
            /\ ChunkSize = 1
          => \A k \in 0 .. ((nextStartNodeIndex' - nextStartNodeIndex) % allNodes) - 1 :
                (nextStartNodeIndex + k) % allNodes \in DOMAIN verdict ]_vars
  <2> SUFFICES ASSUME StartInv, Next, nextStartNodeIndex' # nextStartNodeIndex,
                      preRes.all, fwk.filter, ChunkSize = 1
               PROVE  \A k \in 0 .. ((nextStartNodeIndex' - nextStartNodeIndex)
                                        % allNodes) - 1 :
                         (nextStartNodeIndex + k) % allNodes \in DOMAIN verdict
    BY DEF vars
  <2>1. ~ \E w \in Workers : WorkerStep(w)
    BY SearchGoesOn DEF StartInv, NodeInv
  <2>2. \A trying, list : ~findNodesThatPassFilters(trying, list)
    BY DEF findNodesThatPassFilters
  <2>3. JoinSearch
    BY <2>1, <2>2 DEF Next, SchedulePod, SearchStep, PreFilter, PreFilterFails,
       evaluateNominatedNode, findNodesThatFitPod, ExtendersReturn, ExtenderFilters,
       ExtenderFails, PickNode, prioritizeNodes, ExtenderScores, selectHost
  <2>4. /\ Joined /\ nominee = None
        /\ nextStartNodeIndex' = NextStart(Found, statuses \cup result)
    BY <2>3 DEF JoinSearch, FiltersReturn, Found
  <2>5. nextStartNodeIndex' \in Nat
    BY <2>3, SearchEnds, NodeSearchAssumption DEF StartInv, NodeInv, ShapeInv, TypeOK, Nodes
  <2> QED BY <2>4, <2>5, NoneSkipped
<1> QED BY <1>1, StartHolds, PTL DEF Spec, SkipsOnlyExaminedNodes
=============================================================================
