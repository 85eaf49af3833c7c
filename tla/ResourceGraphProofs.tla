------------------------ MODULE ResourceGraphProofs ------------------------
(***************************************************************************)
(* Theorems about ResourceGraph, for every cluster and every sequence of   *)
(* jobs.                                                                   *)
(***************************************************************************)
EXTENDS ResourceGraph, SumProofs, SequenceTheorems

-----------------------------------------------------------------------------
(* A graph as a tree: vertex i is at position i + 1, and every vertex but  *)
(* the first has a parent that was there before it.                        *)

IsJGF(g) ==
    /\ DOMAIN g = {"nodes", "edges", "counts", "elements", "root"}
    /\ g.nodes \in Seq(ToSet(g.nodes))
    /\ g.elements = Len(g.nodes)

Vertex(g, i) == g.nodes[i + 1]

EdgesOf(par) ==
    {<<par[i], i, "contains">> : i \in DOMAIN par}
      \cup {<<i, par[i], "in">> : i \in DOMAIN par}

IsTree(g, par) ==
    /\ IsJGF(g)
    /\ Len(g.nodes) >= 1
    /\ \A i \in 0 .. Len(g.nodes) - 1 : Vertex(g, i).id = i
    /\ par \in [1 .. Len(g.nodes) - 1 -> Nat]
    /\ \A i \in DOMAIN par : par[i] < i
    /\ g.edges = EdgesOf(par)

\* The parents after n vertices were added under one.
Longer(par, len, n, parent) ==
    [i \in 1 .. len + n - 1 |-> IF i < len THEN par[i] ELSE parent]

\* h is g with n vertices more.
Grows(g, h, n, name, type) ==
    /\ Len(h.nodes) = Len(g.nodes) + n
    /\ \A i \in 0 .. Len(g.nodes) - 1 : Vertex(h, i) = Vertex(g, i)
    /\ \A i \in Len(g.nodes) .. Len(g.nodes) + n - 1 :
          Vertex(h, i).type = type /\ Vertex(h, i).basename = name

Indexed(name, index) == name \o ToString(index)

\* The name of a vertex and its path below the root.
Labelled(v, root, name, index, subpath) ==
    /\ v.name = Indexed(name, index)
    /\ v.path = getNodePath(root, Append(subpath, v.name))

\* The n vertices that h has more are numbered under one path.
Numbered(g, h, n, name, subpath) ==
    /\ h.root = g.root
    /\ \A j \in 0 .. n - 1 :
          Labelled(Vertex(h, Len(g.nodes) + j), g.root, name, j, subpath)

\* An element at the end of a sequence.
LEMMA AppendOne ==
  ASSUME NEW s, s \in Seq(ToSet(s)), NEW e
  PROVE  LET t == Append(s, e)
         IN  /\ t \in Seq(ToSet(t))
             /\ Len(s) \in Nat /\ Len(t) = Len(s) + 1
             /\ \A i \in 1 .. Len(s) : t[i] = s[i]
             /\ t[Len(s) + 1] = e
<1> DEFINE t == Append(s, e)
           S == ToSet(s) \cup {e}
<1>1. s \in Seq(S) /\ e \in S
  OBVIOUS
<1> HIDE DEF S
<1>2. /\ t \in Seq(S) /\ Len(s) \in Nat /\ Len(t) = Len(s) + 1
      /\ \A i \in 1 .. Len(s) : t[i] = s[i]
      /\ t[Len(s) + 1] = e
  BY <1>1
<1> HIDE DEF t
<1>3. t \in Seq(ToSet(t))
  <2>1. DOMAIN t = 1 .. Len(t) /\ Len(t) \in Nat
    BY <1>2
  <2>2. t = [i \in 1 .. Len(t) |-> t[i]]
    BY <1>2
  <2>3. \A i \in 1 .. Len(t) : t[i] \in ToSet(t)
    BY <2>1 DEF ToSet
  <2> QED BY <2>1, <2>2, <2>3
<1> QED BY <1>2, <1>3 DEF t

\* A vertex under a parent, with its edges.
Child(g, name, type, subpath, index, parent) ==
    LET h == MakeChild(g, name, type, subpath, index)
    IN  MakeBidirectionalEdge(h, parent, Newest(h).id)

\* A vertex made under a parent is the next one of the tree.
LEMMA ChildGrows ==
  ASSUME NEW g, NEW par, IsTree(g, par), NEW name, NEW type, NEW subpath,
         NEW index, NEW parent \in 0 .. Len(g.nodes) - 1
  PROVE  LET h == Child(g, name, type, subpath, index, parent)
         IN  /\ IsTree(h, Longer(par, Len(g.nodes), 1, parent))
             /\ Grows(g, h, 1, name, type)
             /\ Newest(h) = Vertex(h, Len(g.nodes))
             /\ h.root = g.root
             /\ Labelled(Vertex(h, Len(g.nodes)), g.root, name, index, subpath)
<1> DEFINE L == Len(g.nodes)
           m == MakeChild(g, name, type, subpath, index)
           h == Child(g, name, type, subpath, index, parent)
           q == Longer(par, L, 1, parent)
           v == Newest(m)
           vname == Indexed(name, index)
           path == getNodePath(g.root, Append(subpath, vname))
<1>2. /\ m.nodes = Append(g.nodes, [id |-> g.elements, type |-> type,
                                basename |-> name, name |-> vname, path |-> path])
      /\ m.edges = g.edges /\ m.elements = g.elements + 1 /\ m.root = g.root
      /\ DOMAIN m = DOMAIN g
  <2> DEFINE rr == [getCounter(g, name, type) EXCEPT !.index = index]
             cc == Counted(g, rr.name)
  <2>1. /\ rr.elementId = g.elements /\ rr.type = type /\ rr.name = name
        /\ NameWithIndex(rr) = vname
    BY DEF getCounter, NameWithIndex, Indexed
  <2>2. /\ cc.nodes = g.nodes /\ cc.edges = g.edges /\ cc.elements = g.elements + 1
        /\ cc.root = g.root /\ DOMAIN cc = DOMAIN g
        /\ {"nodes", "edges", "elements", "root"} \subseteq DOMAIN cc
    BY DEF Counted, IsTree, IsJGF
  <2>3. m = makeNewNode(g, rr, Append(subpath, NameWithIndex(rr)))
    BY DEF MakeChild
  <2>4. m = [cc EXCEPT !.nodes =
               Append(@, [id |-> rr.elementId, type |-> rr.type,
                          basename |-> rr.name, name |-> NameWithIndex(rr),
                          path |-> getNodePath(g.root, Append(subpath, NameWithIndex(rr)))])]
    BY <2>3 DEF makeNewNode
  <2> HIDE DEF m, rr, cc, vname
  <2> QED BY <2>1, <2>2, <2>4
<1> HIDE DEF vname, path
<1> DEFINE e == [id |-> g.elements, type |-> type, basename |-> name,
                 name |-> vname, path |-> path]
<1>3. /\ m.nodes \in Seq(ToSet(m.nodes))
      /\ L \in Nat /\ L >= 1 /\ Len(m.nodes) = L + 1
      /\ \A i \in 1 .. L : m.nodes[i] = g.nodes[i]
      /\ m.nodes[L + 1] = e
  <2> HIDE DEF e, m, h, q
  <2>1. m.nodes = Append(g.nodes, e)
    BY <1>2 DEF e
  <2>2. g.nodes \in Seq(ToSet(g.nodes)) /\ L >= 1
    BY DEF IsTree, IsJGF
  <2> HIDE DEF L
  <2> QED BY <2>1, <2>2, AppendOne DEF L
<1>4. v = e /\ v.id = L
  BY <1>3 DEF Newest, Last, IsTree, IsJGF
<1>5. /\ h.nodes = m.nodes /\ h.elements = L + 1 /\ DOMAIN h = DOMAIN g
      /\ h.root = g.root
      /\ h.edges = g.edges \cup {<<parent, L, "contains">>, <<L, parent, "in">>}
  <2> HIDE DEF m
  <2>1. h = MakeBidirectionalEdge(m, parent, v.id)
    BY DEF Child, m
  <2>2. m.elements = L + 1 /\ {"edges", "nodes", "elements", "root"} \subseteq DOMAIN m
    BY <1>2 DEF IsTree, IsJGF
  <2> HIDE DEF h, v
  <2> QED BY <1>2, <1>4, <2>1, <2>2 DEF MakeBidirectionalEdge, MakeEdge
<1> HIDE DEF m, h, v
<1>6. IsJGF(h)
  BY <1>3, <1>5 DEF IsTree, IsJGF
<1>7. \A i \in 0 .. L - 1 : Vertex(h, i) = Vertex(g, i)
  <2>1. ASSUME NEW i \in 0 .. L - 1 PROVE h.nodes[i + 1] = g.nodes[i + 1]
    <3>1. i + 1 \in 1 .. L
      BY <1>3
    <3> QED BY <1>3, <1>5, <3>1
  <2> QED BY <2>1 DEF Vertex
<1>8. Vertex(h, L) = e
  BY <1>3, <1>5 DEF Vertex
<1>9. Grows(g, h, 1, name, type)
  BY <1>3, <1>5, <1>7, <1>8 DEF Grows
<1>10. Newest(h) = Vertex(h, L)
  BY <1>3, <1>5 DEF Newest, Last, Vertex
<1>11. \A i \in 0 .. Len(h.nodes) - 1 : Vertex(h, i).id = i
  <2>1. \A i \in 0 .. L - 1 : Vertex(g, i).id = i
    BY DEF IsTree
  <2>2. Vertex(h, L).id = L
    BY <1>4, <1>8
  <2> QED BY <1>3, <1>5, <1>7, <2>1, <2>2
<1>12. par \in [1 .. L - 1 -> Nat] /\ \A i \in 1 .. L - 1 : par[i] < i
  BY DEF IsTree
<1>13. q \in [1 .. L -> Nat] /\ \A i \in 1 .. L : q[i] < i
  BY <1>3, <1>12 DEF Longer
<1>14. h.edges = EdgesOf(q)
  <2>1. g.edges = EdgesOf(par)
    BY DEF IsTree
  <2>2. /\ DOMAIN par = 1 .. L - 1 /\ DOMAIN q = 1 .. L
        /\ \A i \in 1 .. L - 1 : q[i] = par[i]
        /\ q[L] = parent
    BY <1>3, <1>12 DEF Longer
  <2>3. 1 .. L = (1 .. L - 1) \cup {L}
    BY <1>3
  <2> HIDE DEF q, L
  <2> QED BY <1>5, <2>1, <2>2, <2>3 DEF EdgesOf
<1>15. IsTree(h, q)
  BY <1>3, <1>5, <1>6, <1>11, <1>13, <1>14 DEF IsTree
<1>16. Labelled(Vertex(h, L), g.root, name, index, subpath)
  <2>1. e.name = vname /\ e.path = path
    OBVIOUS
  <2> HIDE DEF e
  <2> QED BY <1>8, <2>1 DEF Labelled, vname, path
<1> QED BY <1>5, <1>9, <1>10, <1>15, <1>16 DEF h

\* Several of them, one after the other.
Growth(g, parent, n, name, type, subpath, r) ==
    r = [i \in 0 .. n |-> IF i = 0 THEN g
                          ELSE Child(r[i - 1], name, type, subpath, i - 1, parent)]

\* The recursive function of n vertices under one is defined.
LEMMA GrowthExists ==
  ASSUME NEW g, NEW parent, NEW n \in Nat, NEW name, NEW type, NEW subpath
  PROVE  \E r : Growth(g, parent, n, name, type, subpath, r)
<1> DEFINE Good == {k \in 0 .. n : \E r : Growth(g, parent, k, name, type, subpath, r)}
           Next1(h, k) == Child(h, name, type, subpath, k, parent)
<1>1. 0 \in Good
  <2> DEFINE r == [i \in 0 .. 0 |-> g]
  <2>1. r = [i \in 0 .. 0 |-> IF i = 0 THEN g ELSE Next1(r[i - 1], i - 1)]
    <3> HIDE DEF Next1
    <3> QED OBVIOUS
  <2> HIDE DEF r
  <2>2. Growth(g, parent, 0, name, type, subpath, r)
    BY <2>1 DEF Growth
  <2> QED BY <2>2
<1>2. ASSUME NEW k \in 0 .. n - 1, k \in Good PROVE k + 1 \in Good
  <2>1. PICK r : Growth(g, parent, k, name, type, subpath, r)
    BY <1>2
  <2> DEFINE q == [i \in 0 .. k + 1 |-> IF i = k + 1 THEN Next1(r[k], k) ELSE r[i]]
  <2>2. r = [i \in 0 .. k |-> IF i = 0 THEN g ELSE Next1(r[i - 1], i - 1)]
    BY <2>1 DEF Growth
  <2> HIDE DEF Next1
  <2>3. q = [i \in 0 .. k + 1 |-> IF i = 0 THEN g ELSE Next1(q[i - 1], i - 1)]
    <3>1. ASSUME NEW i \in 0 .. k + 1
          PROVE  q[i] = IF i = 0 THEN g ELSE Next1(q[i - 1], i - 1)
      <4>1. CASE i = 0
        BY <2>2, <4>1
      <4>2. CASE i = k + 1
        <5>1. i - 1 = k /\ i # 0 /\ k \in 0 .. k + 1 /\ k # k + 1
          BY <4>2
        <5> QED BY <4>2, <5>1
      <4>3. CASE i # 0 /\ i # k + 1
        <5>1. i - 1 \in 0 .. k + 1 /\ i - 1 # k + 1 /\ i \in 0 .. k
          BY <4>3
        <5>2. q[i - 1] = r[i - 1] /\ q[i] = r[i]
          BY <4>3, <5>1
        <5> QED BY <2>2, <4>3, <5>1, <5>2
      <4> QED BY <4>1, <4>2, <4>3
    <3>2. q = [i \in 0 .. k + 1 |-> q[i]]
      OBVIOUS
    <3> HIDE DEF q
    <3> QED BY <3>1, <3>2
  <2> HIDE DEF q
  <2>4. Growth(g, parent, k + 1, name, type, subpath, q)
    BY <2>3 DEF Growth, Next1
  <2> QED BY <2>4
<1> HIDE DEF Good
<1>3. 0 .. n \subseteq Good
  BY <1>1, <1>2, NextNumber
<1>4. n \in Good
  BY <1>3
<1> QED BY <1>4 DEF Good

\* What was added after k of them.
LEMMA GrowthGrows ==
  ASSUME NEW g, NEW par, IsTree(g, par), NEW parent \in 0 .. Len(g.nodes) - 1,
         NEW n \in Nat, NEW name, NEW type, NEW subpath, NEW r,
         Growth(g, parent, n, name, type, subpath, r)
  PROVE  /\ IsTree(r[n], Longer(par, Len(g.nodes), n, parent))
         /\ Grows(g, r[n], n, name, type)
         /\ Numbered(g, r[n], n, name, subpath)
<1> DEFINE L == Len(g.nodes)
           OK(k) == /\ IsTree(r[k], Longer(par, L, k, parent))
                    /\ Grows(g, r[k], k, name, type)
                    /\ Numbered(g, r[k], k, name, subpath)
           Good == {k \in 0 .. n : OK(k)}
<1>0. L \in Nat /\ L >= 1 /\ par \in [1 .. L - 1 -> Nat]
  BY DEF IsTree, IsJGF
<1>1. 0 \in Good
  <2>1. r[0] = g
    BY DEF Growth
  <2>2. Longer(par, L, 0, parent) = par
    BY <1>0 DEF Longer
  <2>3. Grows(g, g, 0, name, type)
    BY <1>0 DEF Grows
  <2>4. Numbered(g, g, 0, name, subpath)
    BY DEF Numbered
  <2> QED BY <2>1, <2>2, <2>3, <2>4
<1>2. ASSUME NEW k \in 0 .. n - 1, k \in Good PROVE k + 1 \in Good
  <2> DEFINE h == r[k]
             q == Longer(par, L, k, parent)
  <2>1. r[k + 1] = Child(h, name, type, subpath, k, parent)
    <3>1. k + 1 \in 0 .. n /\ k + 1 # 0 /\ (k + 1) - 1 = k
      OBVIOUS
    <3>2. r[k + 1] = Child(r[(k + 1) - 1], name, type, subpath, (k + 1) - 1, parent)
      BY <3>1 DEF Growth
    <3> QED BY <3>1, <3>2
  <2>2. /\ IsTree(h, q) /\ Grows(g, h, k, name, type)
        /\ Numbered(g, h, k, name, subpath)
    BY <1>2
  <2>3. Len(h.nodes) = L + k
    BY <2>2 DEF Grows
  <2>4. parent \in 0 .. Len(h.nodes) - 1
    BY <1>0, <2>3
  <2> HIDE DEF h, q
  <2>5. /\ IsTree(r[k + 1], Longer(q, L + k, 1, parent))
        /\ Grows(h, r[k + 1], 1, name, type)
        /\ r[k + 1].root = h.root
        /\ Labelled(Vertex(r[k + 1], L + k), h.root, name, k, subpath)
    BY <2>1, <2>2, <2>3, <2>4, ChildGrows
  <2>6. Longer(q, L + k, 1, parent) = Longer(par, L, k + 1, parent)
    BY <1>0 DEF Longer, q
  <2>7. Grows(g, r[k + 1], k + 1, name, type)
    <3> DEFINE t == r[k + 1]
    <3>1. /\ Len(t.nodes) = L + (k + 1)
          /\ \A i \in 0 .. L + k - 1 : Vertex(t, i) = Vertex(h, i)
          /\ Vertex(t, L + k).type = type /\ Vertex(t, L + k).basename = name
      <4>1. /\ Len(t.nodes) = L + k + 1
            /\ \A i \in 0 .. L + k - 1 : Vertex(t, i) = Vertex(h, i)
            /\ \A i \in L + k .. L + k + 1 - 1 :
                  Vertex(t, i).type = type /\ Vertex(t, i).basename = name
        BY <2>3, <2>5 DEF Grows
      <4>2. L + k \in L + k .. L + k + 1 - 1 /\ L + k + 1 = L + (k + 1)
        <5>1. L \in Nat /\ k \in Int
          BY <1>0
        <5> HIDE DEF L
        <5> QED BY <5>1
      <4> HIDE DEF t, L
      <4> QED BY <4>1, <4>2
    <3>2. /\ \A i \in 0 .. L - 1 : Vertex(h, i) = Vertex(g, i)
          /\ \A i \in L .. L + k - 1 : Vertex(h, i).type = type /\ Vertex(h, i).basename = name
      BY <2>2 DEF Grows
    <3> HIDE DEF t
    <3>3. \A i \in 0 .. L - 1 : Vertex(t, i) = Vertex(g, i)
      BY <1>0, <3>1, <3>2
    <3>4. ASSUME NEW i \in L .. L + (k + 1) - 1
          PROVE  Vertex(t, i).type = type /\ Vertex(t, i).basename = name
      <4>1. CASE i = L + k
        BY <3>1, <4>1
      <4>2. CASE i # L + k
        <5>1. i \in L .. L + k - 1 /\ i \in 0 .. L + k - 1
          BY <1>0, <4>2
        <5> QED BY <3>1, <3>2, <5>1
      <4> QED BY <4>1, <4>2
    <3>5. Grows(g, t, k + 1, name, type)
      BY <3>1, <3>3, <3>4 DEF Grows
    <3> QED BY <3>5 DEF t
  <2>8. Numbered(g, r[k + 1], k + 1, name, subpath)
    <3> DEFINE t == r[k + 1]
    <3>1. /\ h.root = g.root /\ t.root = h.root
          /\ \A j \in 0 .. k - 1 : Labelled(Vertex(h, L + j), g.root, name, j, subpath)
          /\ Labelled(Vertex(t, L + k), h.root, name, k, subpath)
      BY <2>2, <2>5 DEF Numbered
    <3>2. \A i \in 0 .. Len(h.nodes) - 1 : Vertex(t, i) = Vertex(h, i)
      BY <2>5 DEF Grows
    <3> HIDE DEF t
    <3>3. ASSUME NEW j \in 0 .. k
          PROVE  Labelled(Vertex(t, L + j), g.root, name, j, subpath)
      <4>1. CASE j = k
        BY <3>1, <4>1
      <4>2. CASE j # k
        <5>1. j \in 0 .. k - 1 /\ L + j \in 0 .. Len(h.nodes) - 1
          BY <1>0, <2>3, <4>2
        <5> QED BY <3>1, <3>2, <5>1
      <4> QED BY <4>1, <4>2
    <3>4. 0 .. (k + 1) - 1 = 0 .. k
      OBVIOUS
    <3>5. Numbered(g, t, k + 1, name, subpath)
      BY <3>1, <3>3, <3>4 DEF Numbered
    <3> QED BY <3>5 DEF t
  <2>9. OK(k + 1)
    BY <2>5, <2>6, <2>7, <2>8
  <2> QED BY <2>9
<1> HIDE DEF Good
<1>3. 0 .. n \subseteq Good
  BY <1>1, <1>2, NextNumber
<1>4. n \in Good
  BY <1>3
<1> QED BY <1>4 DEF Good

\* What Under adds, when the vertices differ only in their index.
Natural(n) == IF n > 0 THEN n ELSE 0

Added(g, parent, n, name, type, subpath) ==
    Under(g, parent, n, LAMBDA h, i : MakeChild(h, name, type, subpath, i))

\* The loops of CreateInClusterJGF over gpus, cores and memory add n vertices
\* under the node; none, if the number is negative.
LEMMA UnderGrows ==
  ASSUME NEW g, NEW par, IsTree(g, par), NEW parent \in 0 .. Len(g.nodes) - 1,
         NEW n \in Int, NEW name, NEW type, NEW subpath
  PROVE  LET h == Added(g, parent, n, name, type, subpath)
         IN  /\ IsTree(h, Longer(par, Len(g.nodes), Natural(n), parent))
             /\ Grows(g, h, Natural(n), name, type)
             /\ Numbered(g, h, Natural(n), name, subpath)
<1> DEFINE r == CHOOSE x : Growth(g, parent, n, name, type, subpath, x)
<1>1. CASE n > 0
  <2>1. Growth(g, parent, n, name, type, subpath, r)
    <3>1. n \in Nat
      BY <1>1
    <3>2. \E x : Growth(g, parent, n, name, type, subpath, x)
      BY <3>1, GrowthExists
    <3> QED BY <3>2
  <2>2. Added(g, parent, n, name, type, subpath) = r[n]
    BY <1>1 DEF Added, Under, Growth, Child
  <2>3. n \in Nat /\ Natural(n) = n
    BY <1>1 DEF Natural
  <2> HIDE DEF r
  <2> QED BY <2>1, <2>2, <2>3, GrowthGrows
<1>2. CASE ~(n > 0)
  <2>1. Added(g, parent, n, name, type, subpath) = g
    BY <1>2 DEF Added, Under
  <2>2. Natural(n) = 0
    BY <1>2 DEF Natural
  <2>3. Len(g.nodes) \in Nat /\ Len(g.nodes) >= 1 /\ par \in [1 .. Len(g.nodes) - 1 -> Nat]
    BY DEF IsTree, IsJGF
  <2>4. Longer(par, Len(g.nodes), 0, parent) = par
    BY <2>3 DEF Longer
  <2>5. Grows(g, g, 0, name, type)
    BY <2>3 DEF Grows
  <2>6. Numbered(g, g, 0, name, subpath)
    BY DEF Numbered
  <2> QED BY <2>1, <2>2, <2>4, <2>5, <2>6
<1> QED BY <1>1, <1>2

\* AddNode is two of the first kind and three of the second.
SubnetName(g, node) == Indexed(node.zone, Subnets(g))

NodeSubpath(g, node, index) == <<SubnetName(g, node), Indexed(node.name, index)>>

AddedNode(g, node, index, reqs) ==
    LET L  == Len(g.nodes)
        subpath == NodeSubpath(g, node, index)
        g2 == Child(g, node.zone, "subnet", <<>>, Subnets(g), 0)
        g4 == Child(g2, node.name, "node", <<SubnetName(g, node)>>, index, L)
        g5 == Added(g4, L + 1, node.gpu, "nvidiagpu", "gpu", subpath)
        g6 == Added(g5, L + 1, availCpu(node, reqs), "core", "core", subpath)
    IN  Added(g6, L + 1, availMem(node, reqs), "memory", "memory", subpath)

\* What a Make function returns is the vertex it made.
LEMMA MadeChild ==
  ASSUME NEW g, NEW par, IsTree(g, par), NEW name, NEW type, NEW subpath, NEW index
  PROVE  LET v == Newest(MakeChild(g, name, type, subpath, index))
         IN  v.id = Len(g.nodes) /\ v.name = Indexed(name, index)
<1> DEFINE L == Len(g.nodes)
           m == MakeChild(g, name, type, subpath, index)
           h == Child(g, name, type, subpath, index, 0)
           q == Longer(par, L, 1, 0)
<1>1. L \in Nat /\ 0 \in 0 .. L - 1
  BY DEF IsTree, IsJGF
<1>2. /\ IsTree(h, q) /\ Newest(h) = Vertex(h, L) /\ Len(h.nodes) = L + 1
      /\ Vertex(h, L).name = Indexed(name, index)
  BY <1>1, ChildGrows DEF Grows, Labelled
<1>3. DOMAIN m = {"nodes", "edges", "counts", "elements", "root"}
  BY DEF MakeChild, makeNewNode, Counted, IsTree, IsJGF
<1> HIDE DEF m
<1>4. h.nodes = m.nodes
  BY <1>3 DEF Child, m, MakeBidirectionalEdge, MakeEdge
<1>5. Newest(m) = Newest(h)
  BY <1>4 DEF Newest
<1>6. Vertex(h, L).id = L
  <2>1. L \in 0 .. Len(h.nodes) - 1
    BY <1>1, <1>2
  <2> QED BY <1>2, <2>1 DEF IsTree
<1> QED BY <1>2, <1>5, <1>6 DEF m

\* One turn of the loop in terms of vertices under one another.
LEMMA AddNodeSteps ==
  ASSUME NEW g, NEW par, IsTree(g, par), NEW node, NEW index, NEW reqs
  PROVE  AddNode(g, node, index, reqs) = AddedNode(g, node, index, reqs)
<1> DEFINE L  == Len(g.nodes)
           g1 == MakeSubnet(g, node.zone, Subnets(g))
           v1 == Newest(g1)
           g2 == MakeBidirectionalEdge(g1, 0, v1.id)
           g3 == MakeNode(g2, node.name, <<v1.name>>, index)
           v3 == Newest(g3)
           g4 == MakeBidirectionalEdge(g3, v1.id, v3.id)
           subpath == <<v1.name, v3.name>>
<1>0. L \in Nat /\ L >= 1
  BY DEF IsTree, IsJGF
<1>1. g2 = Child(g, node.zone, "subnet", <<>>, Subnets(g), 0)
  BY DEF Child, MakeSubnet
<1>2. 0 \in 0 .. L - 1
  BY <1>0
<1>3. v1.id = L /\ v1.name = SubnetName(g, node)
  BY MadeChild DEF MakeSubnet, SubnetName
<1>4. /\ IsTree(g2, Longer(par, L, 1, 0)) /\ Len(g2.nodes) = L + 1
  <2> DEFINE c == Child(g, node.zone, "subnet", <<>>, Subnets(g), 0)
  <2>1. IsTree(c, Longer(par, L, 1, 0)) /\ Grows(g, c, 1, node.zone, "subnet")
    BY <1>2, ChildGrows
  <2>2. Len(c.nodes) = L + 1
    BY <2>1 DEF Grows
  <2>3. g2 = c
    BY <1>1
  <2> HIDE DEF g2, c, L
  <2> QED BY <2>1, <2>2, <2>3
<1> HIDE DEF g1, g2, v1
<1>5. v3.id = L + 1 /\ v3.name = Indexed(node.name, index)
  <2> DEFINE v == Newest(MakeChild(g2, node.name, "node", <<v1.name>>, index))
  <2>1. v.id = Len(g2.nodes) /\ v.name = Indexed(node.name, index)
    BY <1>4, MadeChild
  <2>2. v3 = v
    BY DEF MakeNode
  <2> HIDE DEF v, v3
  <2> QED BY <1>4, <2>1, <2>2
<1>6. g4 = Child(g2, node.name, "node", <<SubnetName(g, node)>>, index, L)
  BY <1>3 DEF Child, MakeNode
<1>7. subpath = NodeSubpath(g, node, index)
  BY <1>3, <1>5 DEF NodeSubpath
<1> DEFINE g5 == Added(g4, L + 1, node.gpu, "nvidiagpu", "gpu", subpath)
           g6 == Added(g5, L + 1, availCpu(node, reqs), "core", "core", subpath)
           g7 == Added(g6, L + 1, availMem(node, reqs), "memory", "memory", subpath)
<1>8. AddNode(g, node, index, reqs) = g7
  <2> DEFINE a5 == Under(g4, v3.id, node.gpu,
                         LAMBDA h, i : MakeGPU(h, "nvidiagpu", subpath, i))
             a6 == Under(a5, v3.id, availCpu(node, reqs),
                         LAMBDA h, i : MakeCore(h, "core", subpath, i))
             a7 == Under(a6, v3.id, availMem(node, reqs),
                         LAMBDA h, i : MakeMemory(h, "memory", subpath, i))
  <2>1. AddNode(g, node, index, reqs) = a7
    BY DEF AddNode, g1, g2, v1
  <2> HIDE DEF g3, v3, g4, subpath
  <2>2. a5 = g5
    BY <1>5 DEF Added, MakeGPU
  <2> HIDE DEF a5, g5
  <2>3. a6 = g6
    BY <1>5, <2>2 DEF Added, MakeCore
  <2> HIDE DEF a6, g6
  <2>4. a7 = g7
    BY <1>5, <2>3 DEF Added, MakeMemory
  <2> HIDE DEF a7, g7
  <2> QED BY <2>1, <2>4
<1> HIDE DEF g3, v3, g4, subpath, g5, g6
<1>9. AddedNode(g, node, index, reqs) = g7
  BY <1>1, <1>6, <1>7 DEF AddedNode, g5, g6
<1> QED BY <1>8, <1>9

\* The last vertices of a tree are those of a node: its subnet, itself, and
\* under it gpus, cores and memory.
Block(h, q, len, node, gpus, cores, gibs) ==
    /\ Len(h.nodes) = len + 2 + gpus + cores + gibs
    /\ q[len] = 0
    /\ Vertex(h, len).type = "subnet" /\ Vertex(h, len).basename = node.zone
    /\ q[len + 1] = len
    /\ Vertex(h, len + 1).type = "node" /\ Vertex(h, len + 1).basename = node.name
    /\ \A i \in len + 2 .. Len(h.nodes) - 1 :
          /\ q[i] = len + 1
          /\ Vertex(h, i).type = IF i < len + 2 + gpus THEN "gpu"
                                 ELSE IF i < len + 2 + gpus + cores THEN "core"
                                 ELSE "memory"

\* How they are named: those under the node are numbered by their kind.
BlockNamed(g, h, node, index, gpus, cores, gibs) ==
    LET len     == Len(g.nodes)
        root    == g.root
        subpath == NodeSubpath(g, node, index)
    IN  /\ h.root = root
        /\ Labelled(Vertex(h, len), root, node.zone, Subnets(g), <<>>)
        /\ Labelled(Vertex(h, len + 1), root, node.name, index, <<SubnetName(g, node)>>)
        /\ \A j \in 0 .. gpus - 1 :
              Labelled(Vertex(h, len + 2 + j), root, "nvidiagpu", j, subpath)
        /\ \A j \in 0 .. cores - 1 :
              Labelled(Vertex(h, len + 2 + gpus + j), root, "core", j, subpath)
        /\ \A j \in 0 .. gibs - 1 :
              Labelled(Vertex(h, len + 2 + gpus + cores + j), root, "memory", j, subpath)

\* A tree with more vertices: those it had are where they were.
Extends(g, par, h, q) ==
    /\ Len(g.nodes) <= Len(h.nodes)
    /\ \A i \in 0 .. Len(g.nodes) - 1 : Vertex(h, i) = Vertex(g, i)
    /\ \A i \in 1 .. Len(g.nodes) - 1 : q[i] = par[i]

\* One turn of the loop adds a subnet, a node and what is due to the node.
LEMMA AddNodeGrows ==
  ASSUME NEW g, NEW par, IsTree(g, par), NEW node, node.gpu \in Nat, NEW index,
         NEW reqs, availCpu(node, reqs) \in Int, availMem(node, reqs) \in Int
  PROVE  LET h == AddNode(g, node, index, reqs)
         IN  \E q : /\ IsTree(h, q)
                    /\ Extends(g, par, h, q)
                    /\ Block(h, q, Len(g.nodes), node, node.gpu,
                             Natural(availCpu(node, reqs)),
                             Natural(availMem(node, reqs)))
                    /\ BlockNamed(g, h, node, index, node.gpu,
                                  Natural(availCpu(node, reqs)),
                                  Natural(availMem(node, reqs)))
<1> DEFINE L == Len(g.nodes)
           a == node.gpu
           b == Natural(availCpu(node, reqs))
           c == Natural(availMem(node, reqs))
           h == AddNode(g, node, index, reqs)
           zone == SubnetName(g, node)
           subpath == NodeSubpath(g, node, index)
           root == g.root
<1>1. h = AddedNode(g, node, index, reqs)
  BY AddNodeSteps
<1> HIDE DEF subpath, zone
<1> DEFINE g2 == Child(g, node.zone, "subnet", <<>>, Subnets(g), 0)
           g4 == Child(g2, node.name, "node", <<zone>>, index, L)
           g5 == Added(g4, L + 1, node.gpu, "nvidiagpu", "gpu", subpath)
           g6 == Added(g5, L + 1, availCpu(node, reqs), "core", "core", subpath)
           g7 == Added(g6, L + 1, availMem(node, reqs), "memory", "memory", subpath)
           q2 == Longer(par, L, 1, 0)
           q4 == Longer(q2, L + 1, 1, L)
           q5 == Longer(q4, L + 2, a, L + 1)
           q6 == Longer(q5, L + 2 + a, b, L + 1)
           q7 == Longer(q6, L + 2 + a + b, c, L + 1)
<1>2. h = g7
  BY <1>1 DEF AddedNode, subpath, zone
<1>3. L \in Nat /\ L >= 1 /\ a \in Nat /\ b \in Nat /\ c \in Nat
  <2>1. L \in Nat /\ L >= 1
    BY DEF IsTree, IsJGF
  <2> QED BY <2>1 DEF Natural
<1>4. a = Natural(node.gpu)
  BY DEF Natural
<1> HIDE DEF h, L
<1>5. /\ IsTree(g2, q2) /\ Grows(g, g2, 1, node.zone, "subnet") /\ Len(g2.nodes) = L + 1
      /\ g2.root = root /\ Labelled(Vertex(g2, L), root, node.zone, Subnets(g), <<>>)
  <2>1. 0 \in 0 .. L - 1
    BY <1>3
  <2>2. /\ IsTree(g2, q2) /\ Grows(g, g2, 1, node.zone, "subnet")
        /\ g2.root = root /\ Labelled(Vertex(g2, L), root, node.zone, Subnets(g), <<>>)
    BY <2>1, ChildGrows DEF L
  <2> QED BY <2>2 DEF Grows, L
<1> HIDE DEF g2, q2
<1>6. /\ IsTree(g4, q4) /\ Grows(g2, g4, 1, node.name, "node") /\ Len(g4.nodes) = L + 2
      /\ g4.root = root /\ Labelled(Vertex(g4, L + 1), root, node.name, index, <<zone>>)
  <2>1. L \in 0 .. Len(g2.nodes) - 1
    BY <1>3, <1>5
  <2>2. /\ IsTree(g4, q4) /\ Grows(g2, g4, 1, node.name, "node")
        /\ g4.root = root /\ Labelled(Vertex(g4, L + 1), root, node.name, index, <<zone>>)
    BY <1>5, <2>1, ChildGrows
  <2>3. Len(g4.nodes) = L + 1 + 1
    BY <1>5, <2>2 DEF Grows
  <2> QED BY <1>3, <2>2, <2>3
<1> HIDE DEF g4, q4
<1>7. /\ IsTree(g5, q5) /\ Grows(g4, g5, a, "nvidiagpu", "gpu") /\ Len(g5.nodes) = L + 2 + a
      /\ Numbered(g4, g5, a, "nvidiagpu", subpath)
  <2>1. L + 1 \in 0 .. Len(g4.nodes) - 1 /\ node.gpu \in Int
    BY <1>3, <1>6
  <2>2. /\ IsTree(g5, q5) /\ Grows(g4, g5, a, "nvidiagpu", "gpu")
        /\ Numbered(g4, g5, a, "nvidiagpu", subpath)
    BY <1>4, <1>6, <2>1, UnderGrows
  <2> QED BY <1>6, <2>2 DEF Grows
<1> HIDE DEF g5, q5
<1>8. /\ IsTree(g6, q6) /\ Grows(g5, g6, b, "core", "core") /\ Len(g6.nodes) = L + 2 + a + b
      /\ Numbered(g5, g6, b, "core", subpath)
  <2>1. L + 1 \in 0 .. Len(g5.nodes) - 1
    <3>1. Len(g5.nodes) = L + 2 + a
      BY <1>7
    <3> HIDE DEF a, b
    <3> QED BY <1>3, <3>1
  <2>2. /\ IsTree(g6, q6) /\ Grows(g5, g6, b, "core", "core")
        /\ Numbered(g5, g6, b, "core", subpath)
    BY <1>7, <2>1, UnderGrows
  <2> QED BY <1>7, <2>2 DEF Grows
<1> HIDE DEF g6, q6
<1>9. /\ IsTree(g7, q7) /\ Grows(g6, g7, c, "memory", "memory") /\ Len(g7.nodes) = L + 2 + a + b + c
      /\ Numbered(g6, g7, c, "memory", subpath)
  <2>1. L + 1 \in 0 .. Len(g6.nodes) - 1
    <3>1. Len(g6.nodes) = L + 2 + a + b
      BY <1>8
    <3> HIDE DEF a, b
    <3> QED BY <1>3, <3>1
  <2>2. /\ IsTree(g7, q7) /\ Grows(g6, g7, c, "memory", "memory")
        /\ Numbered(g6, g7, c, "memory", subpath)
    BY <1>8, <2>1, UnderGrows
  <2> QED BY <1>8, <2>2 DEF Grows
<1> HIDE DEF g7, a, b, c
\* What each step left alone and added.
<1>10. /\ \A i \in 0 .. L - 1 : Vertex(g2, i) = Vertex(g, i)
       /\ \A i \in 0 .. L : Vertex(g4, i) = Vertex(g2, i)
       /\ \A i \in 0 .. L + 1 : Vertex(g5, i) = Vertex(g4, i)
       /\ \A i \in 0 .. L + 1 + a : Vertex(g6, i) = Vertex(g5, i)
       /\ \A i \in 0 .. L + 1 + a + b : Vertex(g7, i) = Vertex(g6, i)
  <2>1. /\ \A i \in 0 .. L - 1 : Vertex(g2, i) = Vertex(g, i)
        /\ \A i \in 0 .. (L + 1) - 1 : Vertex(g4, i) = Vertex(g2, i)
        /\ \A i \in 0 .. (L + 2) - 1 : Vertex(g5, i) = Vertex(g4, i)
        /\ \A i \in 0 .. (L + 2 + a) - 1 : Vertex(g6, i) = Vertex(g5, i)
        /\ \A i \in 0 .. (L + 2 + a + b) - 1 : Vertex(g7, i) = Vertex(g6, i)
    BY <1>5, <1>6, <1>7, <1>8, <1>9 DEF Grows, L
  <2> QED BY <1>3, <2>1
<1>11. /\ Vertex(g2, L).type = "subnet" /\ Vertex(g2, L).basename = node.zone
       /\ Vertex(g4, L + 1).type = "node" /\ Vertex(g4, L + 1).basename = node.name
       /\ \A i \in L + 2 .. L + 1 + a : Vertex(g5, i).type = "gpu"
       /\ \A i \in L + 2 + a .. L + 1 + a + b : Vertex(g6, i).type = "core"
       /\ \A i \in L + 2 + a + b .. L + 1 + a + b + c : Vertex(g7, i).type = "memory"
  <2>1. /\ \A i \in L .. L + 1 - 1 :
              Vertex(g2, i).type = "subnet" /\ Vertex(g2, i).basename = node.zone
        /\ \A i \in L + 1 .. L + 1 + 1 - 1 :
              Vertex(g4, i).type = "node" /\ Vertex(g4, i).basename = node.name
        /\ \A i \in L + 2 .. L + 2 + a - 1 : Vertex(g5, i).type = "gpu"
        /\ \A i \in L + 2 + a .. L + 2 + a + b - 1 : Vertex(g6, i).type = "core"
        /\ \A i \in L + 2 + a + b .. L + 2 + a + b + c - 1 : Vertex(g7, i).type = "memory"
    BY <1>5, <1>6, <1>7, <1>8, <1>9 DEF Grows, L
  <2> QED BY <1>3, <2>1
<1>12. \A i \in 0 .. L - 1 : Vertex(g7, i) = Vertex(g, i)
  BY <1>3, <1>10
<1>13. Vertex(g7, L) = Vertex(g2, L) /\ Vertex(g7, L + 1) = Vertex(g4, L + 1)
  BY <1>3, <1>10
<1>14. ASSUME NEW i \in L + 2 .. L + 2 + a + b + c - 1
       PROVE  Vertex(g7, i).type = IF i < L + 2 + a THEN "gpu"
                                   ELSE IF i < L + 2 + a + b THEN "core" ELSE "memory"
  <2>1. CASE i < L + 2 + a
    <3>1. /\ i \in L + 2 .. L + 1 + a /\ i \in 0 .. L + 1 + a
          /\ i \in 0 .. L + 1 + a + b
      BY <1>3, <2>1
    <3> QED BY <1>10, <1>11, <2>1, <3>1
  <2>2. CASE ~(i < L + 2 + a) /\ i < L + 2 + a + b
    <3>1. i \in L + 2 + a .. L + 1 + a + b /\ i \in 0 .. L + 1 + a + b
      BY <1>3, <2>2
    <3> QED BY <1>10, <1>11, <2>2, <3>1
  <2>3. CASE ~(i < L + 2 + a) /\ ~(i < L + 2 + a + b)
    <3>1. i \in L + 2 + a + b .. L + 1 + a + b + c
      BY <1>3, <2>3
    <3> QED BY <1>11, <2>3, <3>1
  <2> QED BY <2>1, <2>2, <2>3
<1>15. /\ \A i \in 1 .. L - 1 : q7[i] = par[i]
       /\ q7[L] = 0 /\ q7[L + 1] = L
       /\ \A i \in L + 2 .. L + 2 + a + b + c - 1 : q7[i] = L + 1
  <2>1. /\ \A i \in 1 .. L - 1 : q2[i] = par[i]
        /\ q2[L] = 0
    BY <1>3 DEF q2, Longer
  <2>2. /\ \A i \in 1 .. L : q4[i] = q2[i]
        /\ q4[L + 1] = L
    BY <1>3 DEF q4, Longer
  <2>3. /\ \A i \in 1 .. L + 1 : q5[i] = q4[i]
        /\ \A i \in L + 2 .. L + 1 + a : q5[i] = L + 1
    BY <1>3 DEF q5, Longer
  <2>4. /\ \A i \in 1 .. L + 1 + a : q6[i] = q5[i]
        /\ \A i \in L + 2 + a .. L + 1 + a + b : q6[i] = L + 1
    BY <1>3 DEF q6, Longer
  <2>5. /\ \A i \in 1 .. L + 1 + a + b : q7[i] = q6[i]
        /\ \A i \in L + 2 + a + b .. L + 1 + a + b + c : q7[i] = L + 1
    BY <1>3 DEF q7, Longer
  <2> HIDE DEF q7
  <2>6. \A i \in 1 .. L + 1 : q7[i] = q4[i]
    BY <1>3, <2>3, <2>4, <2>5
  <2>7. ASSUME NEW i \in L + 2 .. L + 2 + a + b + c - 1 PROVE q7[i] = L + 1
    <3>1. \/ i \in L + 2 .. L + 1 + a
          \/ i \in L + 2 + a .. L + 1 + a + b
          \/ i \in L + 2 + a + b .. L + 1 + a + b + c
      BY <1>3
    <3>2. i \in 1 .. L + 1 + a \/ i \notin L + 2 .. L + 1 + a
      BY <1>3
    <3>3. i \in 1 .. L + 1 + a + b \/ i \in L + 2 + a + b .. L + 1 + a + b + c
      BY <1>3
    <3> QED BY <2>3, <2>4, <2>5, <3>1, <3>2, <3>3
  <2>8. /\ \A i \in 1 .. L - 1 : q4[i] = par[i]
        /\ q4[L] = 0
    BY <1>3, <2>1, <2>2
  <2>9. L \in 1 .. L + 1 /\ L + 1 \in 1 .. L + 1 /\ 1 .. L - 1 \subseteq 1 .. L + 1
    BY <1>3
  <2> QED BY <2>2, <2>6, <2>7, <2>8, <2>9
<1> HIDE DEF q7
<1>16. Extends(g, par, g7, q7)
  BY <1>3, <1>9, <1>12, <1>15 DEF Extends, L
<1>17. Block(g7, q7, L, node, a, b, c)
  <2>1. Len(g7.nodes) = L + 2 + a + b + c
    BY <1>9
  <2>2. /\ Vertex(g7, L).type = "subnet" /\ Vertex(g7, L).basename = node.zone
        /\ Vertex(g7, L + 1).type = "node" /\ Vertex(g7, L + 1).basename = node.name
    BY <1>11, <1>13
  <2>3. \A i \in L + 2 .. Len(g7.nodes) - 1 :
          /\ q7[i] = L + 1
          /\ Vertex(g7, i).type = IF i < L + 2 + a THEN "gpu"
                                  ELSE IF i < L + 2 + a + b THEN "core" ELSE "memory"
    <3>1. L + 2 .. Len(g7.nodes) - 1 = L + 2 .. L + 2 + a + b + c - 1
      BY <1>3, <2>1
    <3> QED BY <1>14, <1>15, <3>1
  <2> QED BY <1>15, <2>1, <2>2, <2>3 DEF Block
<1>18. BlockNamed(g, g7, node, index, a, b, c)
  <2>1. /\ Labelled(Vertex(g7, L), root, node.zone, Subnets(g), <<>>)
        /\ Labelled(Vertex(g7, L + 1), root, node.name, index, <<zone>>)
    BY <1>5, <1>6, <1>13
  <2>2. /\ g7.root = root
        /\ \A j \in 0 .. a - 1 :
              Labelled(Vertex(g5, L + 2 + j), root, "nvidiagpu", j, subpath)
        /\ \A j \in 0 .. b - 1 :
              Labelled(Vertex(g6, L + 2 + a + j), root, "core", j, subpath)
        /\ \A j \in 0 .. c - 1 :
              Labelled(Vertex(g7, L + 2 + a + b + j), root, "memory", j, subpath)
    BY <1>6, <1>7, <1>8, <1>9 DEF Numbered
  <2>3. ASSUME NEW j \in 0 .. a - 1
        PROVE  Labelled(Vertex(g7, L + 2 + j), root, "nvidiagpu", j, subpath)
    <3>1. L + 2 + j \in 0 .. L + 1 + a /\ L + 2 + j \in 0 .. L + 1 + a + b
      BY <1>3
    <3>2. Vertex(g7, L + 2 + j) = Vertex(g5, L + 2 + j)
      BY <1>10, <3>1
    <3> QED BY <2>2, <3>2
  <2>4. ASSUME NEW j \in 0 .. b - 1
        PROVE  Labelled(Vertex(g7, L + 2 + a + j), root, "core", j, subpath)
    <3>1. L + 2 + a + j \in 0 .. L + 1 + a + b
      BY <1>3
    <3>2. Vertex(g7, L + 2 + a + j) = Vertex(g6, L + 2 + a + j)
      BY <1>10, <3>1
    <3> QED BY <2>2, <3>2
  <2> QED BY <2>1, <2>2, <2>3, <2>4 DEF BlockNamed, L, subpath, zone
<1> QED BY <1>2, <1>9, <1>16, <1>17, <1>18 DEF L, a, b, c, h

-----------------------------------------------------------------------------
(* The names and the paths of a tree.                                      *)

\* The sizes of a tree.
LEMMA TreeLength ==
  ASSUME NEW g, NEW par, IsTree(g, par)
  PROVE  /\ Len(g.nodes) \in Nat /\ Len(g.nodes) >= 1
         /\ DOMAIN par = 1 .. Len(g.nodes) - 1
         /\ \A i \in DOMAIN par : par[i] \in Nat /\ par[i] < i
         /\ DOMAIN g.nodes = 1 .. Len(g.nodes)
  BY DEF IsTree, IsJGF

\* An injection keeps the number of elements.
LEMMA SameNumber ==
  ASSUME NEW S, IsFiniteSet(S), NEW h, S \subseteq DOMAIN h,
         \A x, y \in S : h[x] = h[y] => x = y
  PROVE  /\ IsFiniteSet({h[x] : x \in S})
         /\ Cardinality({h[x] : x \in S}) = Cardinality(S)
<1> DEFINE T == {h[x] : x \in S}
           e == [x \in S |-> h[x]]
<1>1. e \in Surjection(S, T)
  BY DEF Surjection
<1>2. e \in Injection(S, T)
  BY <1>1 DEF Surjection, Injection, IsInjective
<1> QED BY <1>1, <1>2, FS_Surjection

\* The vertices, by their ids.
LEMMA TreeVertices ==
  ASSUME NEW g, NEW par, IsTree(g, par)
  PROVE  /\ ToSet(g.nodes) = {Vertex(g, i) : i \in 0 .. Len(g.nodes) - 1}
         /\ IsFiniteSet(ToSet(g.nodes))
         /\ \A i \in 0 .. Len(g.nodes) - 1 : Vertex(g, i).id = i
         /\ \A i, j \in 0 .. Len(g.nodes) - 1 : Vertex(g, i) = Vertex(g, j) => i = j
         /\ Cardinality(ToSet(g.nodes)) = Len(g.nodes)
<1> DEFINE L == Len(g.nodes)
           I == 0 .. L - 1
           h == [i \in I |-> Vertex(g, i)]
<1>1. L \in Nat /\ DOMAIN g.nodes = 1 .. L
  BY TreeLength
<1>2. \A i \in I : Vertex(g, i).id = i
  BY DEF IsTree
<1>3. ToSet(g.nodes) = {Vertex(g, i) : i \in I}
  <2>1. \A i \in I : i + 1 \in DOMAIN g.nodes
    BY <1>1
  <2>2. \A j \in DOMAIN g.nodes : j - 1 \in I /\ (j - 1) + 1 = j
    BY <1>1
  <2> HIDE DEF I
  <2>3. \A j \in DOMAIN g.nodes : g.nodes[j] = Vertex(g, j - 1)
    BY <2>2 DEF Vertex
  <2>4. \A i \in I : Vertex(g, i) = g.nodes[i + 1]
    BY DEF Vertex
  <2> QED BY <2>1, <2>2, <2>3, <2>4 DEF ToSet
<1>4. IsFiniteSet(I) /\ Cardinality(I) = L
  <2>1. L \in Nat /\ 0 \in Int /\ L - 1 \in Int
    BY <1>1
  <2> HIDE DEF L
  <2>2. IsFiniteSet(I) /\ Cardinality(I) = IF 0 > L - 1 THEN 0 ELSE (L - 1) - 0 + 1
    BY <2>1, FS_Interval
  <2> QED BY <2>1, <2>2
<1>5. \A i, j \in I : Vertex(g, i) = Vertex(g, j) => i = j
  BY <1>2
<1> HIDE DEF I, L
<1>6. \A i, j \in I : h[i] = h[j] => i = j
  BY <1>5
<1>7. {h[i] : i \in I} = ToSet(g.nodes) /\ I \subseteq DOMAIN h
  BY <1>3
<1> HIDE DEF h
<1>8. IsFiniteSet(ToSet(g.nodes)) /\ Cardinality(ToSet(g.nodes)) = L
  BY <1>4, <1>6, <1>7, SameNumber
<1> QED BY <1>2, <1>3, <1>5, <1>8 DEF I, L

\* The path of a vertex is that of the one it is in, and its own name.
PathsOK(g, par) ==
    /\ Vertex(g, 0).path = <<g.root>>
    /\ \A i \in 0 .. Len(g.nodes) - 1 :
          Vertex(g, i).path \in Seq(ToSet(Vertex(g, i).path))
    /\ \A i \in DOMAIN par :
          Vertex(g, i).path = Append(Vertex(g, par[i]).path, Vertex(g, i).name)

\* A name is followed by an index: what can be told of the two.
Kinds == {"nvidiagpu", "core", "memory"}

Zones(nodes) == {nodes[k].zone : k \in DOMAIN nodes}

Readable(names) ==
    \A n, m \in names : \A i, j \in Nat :
        Indexed(n, i) = Indexed(m, j) => n = m /\ i = j

\* In the cluster are the subnets, numbered in all.
SubnetsOK(g, par, nodes) ==
    \A i \in DOMAIN par : par[i] = 0 =>
        \E zone \in Zones(nodes), n \in 0 .. Subnets(g) - 1 :
            Vertex(g, i).name = Indexed(zone, n)

SiblingsDiffer(g, par) ==
    \A i, j \in DOMAIN par :
        par[i] = par[j] /\ Vertex(g, i).name = Vertex(g, j).name => i = j

\* The cluster is the first of its name, and its name is the first in every path.
RootNamed(g) ==
    /\ Vertex(g, 0).name = Indexed(defaultClusterName, 0)
    /\ g.root = defaultClusterName \o "0"

\* Siblings have different names, where no name runs into the index after it.
Named(g, par, nodes) ==
    /\ RootNamed(g)
    /\ PathsOK(g, par)
    /\ SubnetsOK(g, par, nodes)
    /\ Readable(Zones(nodes)) /\ Readable(Kinds) => SiblingsDiffer(g, par)

\* A path below another.
LEMMA PathAppend ==
  ASSUME NEW root, NEW S, NEW s, s \in Seq(S), NEW e
  PROVE  getNodePath(root, Append(s, e)) = Append(getNodePath(root, s), e)
<1> DEFINE T == S \cup {root, e}
<1>1. <<root>> \in Seq(T) /\ s \in Seq(T) /\ e \in T /\ <<e>> \in Seq(T)
  OBVIOUS
<1> HIDE DEF T
<1>3. Append(s, e) = s \o <<e>> /\ Append(<<root>> \o s, e) = (<<root>> \o s) \o <<e>>
  <2>1. <<root>> \o s \in Seq(T)
    BY <1>1, ConcatProperties
  <2> QED BY <1>1, <2>1, AppendIsConcat
<1>4. (<<root>> \o s) \o <<e>> = <<root>> \o (s \o <<e>>)
  BY <1>1, ConcatAssociative
<1> QED BY <1>3, <1>4 DEF getNodePath

\* The path of the root, and paths as sequences.
LEMMA PathIsSeq ==
  ASSUME NEW root, NEW S, NEW s, s \in Seq(S)
  PROVE  /\ getNodePath(root, s) \in Seq(S \cup {root})
         /\ getNodePath(root, <<>>) = <<root>>
<1>1. <<root>> \in Seq(S \cup {root}) /\ s \in Seq(S \cup {root})
  OBVIOUS
<1>2. <<root>> \o s \in Seq(S \cup {root})
  BY <1>1, ConcatProperties
<1>3. <<root>> \o <<>> = <<root>>
  BY <1>1, ConcatEmptySeq
<1> QED BY <1>2, <1>3 DEF getNodePath

\* The numbers of subnets grow.
LEMMA MoreSubnets ==
  ASSUME NEW g, NEW par, IsTree(g, par), NEW h, NEW q, IsTree(h, q),
         Extends(g, par, h, q), Len(g.nodes) < Len(h.nodes),
         Vertex(h, Len(g.nodes)).type = "subnet"
  PROVE  Subnets(g) \in Nat /\ Subnets(h) \in Nat /\ Subnets(g) < Subnets(h)
<1> DEFINE L == Len(g.nodes)
           A == {v \in ToSet(g.nodes) : v.type = "subnet"}
           B == {v \in ToSet(h.nodes) : v.type = "subnet"}
           w == Vertex(h, L)
<1>1. L \in Nat /\ L \in 0 .. Len(h.nodes) - 1 /\ Len(h.nodes) \in Nat
  BY TreeLength
<1>0. ToSet(g.nodes) = {Vertex(g, i) : i \in 0 .. L - 1}
  BY TreeVertices
<1>2. IsFiniteSet(A) /\ IsFiniteSet(B)
  <2>1. A \in SUBSET ToSet(g.nodes) /\ B \in SUBSET ToSet(h.nodes)
    OBVIOUS
  <2>2. IsFiniteSet(ToSet(g.nodes)) /\ IsFiniteSet(ToSet(h.nodes))
    BY TreeVertices
  <2> QED BY <2>1, <2>2, FS_Subset
<1>3. A \subseteq B
  <2>1. ASSUME NEW v \in A PROVE v \in ToSet(h.nodes)
    <3>1. PICK i \in 0 .. L - 1 : v = Vertex(g, i)
      BY <1>0
    <3>2. v = Vertex(h, i) /\ i \in 0 .. Len(h.nodes) - 1
      BY <1>1, <3>1 DEF Extends
    <3> QED BY <3>2, TreeVertices
  <2> QED BY <2>1
<1>4. w \in B /\ w \notin A
  <2>1. w \in ToSet(h.nodes) /\ w.id = L
    <3> DEFINE J == 0 .. Len(h.nodes) - 1
    <3>1. ToSet(h.nodes) = {Vertex(h, i) : i \in J} /\ \A i \in J : Vertex(h, i).id = i
      BY TreeVertices
    <3>2. L \in J
      BY <1>1
    <3> HIDE DEF J, L
    <3> QED BY <3>1, <3>2
  <2>2. \A v \in A : v.id # L
    <3>1. ASSUME NEW v \in A PROVE v.id # L
      <4>1. PICK i \in 0 .. L - 1 : v = Vertex(g, i)
        BY <1>0
      <4>2. v.id = i
        BY <4>1, TreeVertices
      <4> QED BY <1>1, <4>2
    <3> QED BY <3>1
  <2> QED BY <2>1, <2>2
<1> HIDE DEF A, B, w
<1>5. /\ Cardinality(A) \in Nat /\ Cardinality(B) \in Nat
      /\ Cardinality(A) < Cardinality(B)
  <2>1. A # B
    BY <1>4
  <2> QED BY <1>2, <1>3, <2>1, FS_Subset, FS_CardinalityType
<1> QED BY <1>5 DEF Subnets, A, B

\* The vertices under a node: no two of a kind have the same number.
Leaves(h, I, root, subpath, kind, num) ==
    /\ kind \in [I -> Kinds] /\ num \in [I -> Nat]
    /\ \A i \in I : Labelled(Vertex(h, i), root, kind[i], num[i], subpath)
    /\ \A i, j \in I : kind[i] = kind[j] /\ num[i] = num[j] => i = j

\* The vertices under a node have different kinds or different numbers.
LEMMA LeavesNamed ==
  ASSUME NEW g, NEW h, NEW node, NEW index, Len(g.nodes) \in Nat,
         NEW a \in Nat, NEW b \in Nat, NEW c \in Nat,
         BlockNamed(g, h, node, index, a, b, c),
         NEW I, I = Len(g.nodes) + 2 .. Len(g.nodes) + 2 + a + b + c - 1
  PROVE  \E kind, num : Leaves(h, I, g.root, NodeSubpath(g, node, index), kind, num)
<1> DEFINE L == Len(g.nodes)
           x == L + 2
           y == L + 2 + a
           z == L + 2 + a + b
           kind == [i \in I |-> IF i < y THEN "nvidiagpu" ELSE IF i < z THEN "core" ELSE "memory"]
           num == [i \in I |-> IF i < y THEN i - x ELSE IF i < z THEN i - y ELSE i - z]
           subpath == NodeSubpath(g, node, index)
<1>1. /\ \A j \in 0 .. a - 1 : Labelled(Vertex(h, x + j), g.root, "nvidiagpu", j, subpath)
      /\ \A j \in 0 .. b - 1 : Labelled(Vertex(h, y + j), g.root, "core", j, subpath)
      /\ \A j \in 0 .. c - 1 : Labelled(Vertex(h, z + j), g.root, "memory", j, subpath)
  BY DEF BlockNamed
<1> HIDE DEF L
<1>2. x \in Nat /\ y = x + a /\ z = y + b /\ I = x .. z + c - 1
  BY DEF L
<1> HIDE DEF x, y, z, subpath
<1>3. ASSUME NEW i \in I
      PROVE  /\ i < y => i - x \in 0 .. a - 1 /\ x + (i - x) = i
             /\ ~(i < y) /\ i < z => i - y \in 0 .. b - 1 /\ y + (i - y) = i
             /\ ~(i < y) /\ ~(i < z) => i - z \in 0 .. c - 1 /\ z + (i - z) = i
             /\ i \in Int /\ y \in Int /\ z \in Int
  BY <1>2
<1>4. kind \in [I -> Kinds]
  BY DEF Kinds
<1>5. num \in [I -> Nat]
  BY <1>3
<1>6. ASSUME NEW i \in I
      PROVE  Labelled(Vertex(h, i), g.root, kind[i], num[i], subpath)
  <2>1. CASE i < y
    <3>1. Labelled(Vertex(h, x + (i - x)), g.root, "nvidiagpu", i - x, subpath)
      BY <1>1, <1>3, <2>1
    <3> QED BY <1>3, <2>1, <3>1
  <2>2. CASE ~(i < y) /\ i < z
    <3>1. Labelled(Vertex(h, y + (i - y)), g.root, "core", i - y, subpath)
      BY <1>1, <1>3, <2>2
    <3> QED BY <1>3, <2>2, <3>1
  <2>3. CASE ~(i < y) /\ ~(i < z)
    <3>1. Labelled(Vertex(h, z + (i - z)), g.root, "memory", i - z, subpath)
      BY <1>1, <1>3, <2>3
    <3> QED BY <1>3, <2>3, <3>1
  <2> QED BY <2>1, <2>2, <2>3
<1>7. ASSUME NEW i \in I, NEW j \in I, kind[i] = kind[j], num[i] = num[j]
      PROVE  i = j
  <2>1. "nvidiagpu" # "core" /\ "nvidiagpu" # "memory" /\ "core" # "memory"
    OBVIOUS
  <2>2. (i < y <=> j < y) /\ (~(i < y) => (i < z <=> j < z))
    BY <1>7, <2>1
  <2> QED BY <1>2, <1>3, <1>7, <2>2
<1> HIDE DEF kind, num
<1>8. Leaves(h, I, g.root, subpath, kind, num)
  BY <1>4, <1>5, <1>6, <1>7 DEF Leaves
<1> QED BY <1>8 DEF subpath

\* A path is a sequence, and one below another.
LEMMA PathTyped ==
  ASSUME NEW root, NEW S, NEW s, s \in Seq(S), NEW e,
         NEW p, p = getNodePath(root, Append(s, e))
  PROVE  p \in Seq(ToSet(p)) /\ p = Append(getNodePath(root, s), e)
<1> DEFINE T == S \cup {e}
           U == T \cup {root}
<1>1. getNodePath(root, Append(s, e)) = Append(getNodePath(root, s), e)
  BY PathAppend
<1>2. s \in Seq(T) /\ Append(s, e) \in Seq(T)
  OBVIOUS
<1> HIDE DEF T
<1>3. p \in Seq(U)
  BY <1>2, PathIsSeq
<1> HIDE DEF U
<1>4. p \in Seq(ToSet(p))
  <2>1. DOMAIN p = 1 .. Len(p) /\ Len(p) \in Nat /\ p = [i \in 1 .. Len(p) |-> p[i]]
    BY <1>3
  <2>2. \A i \in 1 .. Len(p) : p[i] \in ToSet(p)
    BY <2>1 DEF ToSet
  <2> QED BY <2>1, <2>2
<1> QED BY <1>1, <1>4

\* One turn of the loop names what it adds after the place it adds it to.
LEMMA PathsOneMore ==
  ASSUME NEW g, NEW par, IsTree(g, par), NEW h, NEW q, IsTree(h, q),
         Extends(g, par, h, q), NEW node, NEW index,
         NEW a \in Nat, NEW b \in Nat, NEW c \in Nat,
         Block(h, q, Len(g.nodes), node, a, b, c),
         BlockNamed(g, h, node, index, a, b, c), PathsOK(g, par)
  PROVE  PathsOK(h, q)
<1> DEFINE L == Len(g.nodes)
           M == Len(h.nodes)
           sn == SubnetName(g, node)
           nn == Indexed(node.name, index)
           root == g.root
           sub == NodeSubpath(g, node, index)
           Path(i) == Vertex(h, i).path
           Name(i) == Vertex(h, i).name
           Typed(i) == Path(i) \in Seq(ToSet(Path(i)))
           Step(i) == Path(i) = Append(Path(q[i]), Name(i))
<1>1. /\ L \in Nat /\ L >= 1 /\ M = L + 2 + a + b + c
      /\ DOMAIN par = 1 .. L - 1 /\ DOMAIN q = 1 .. M - 1
      /\ q[L] = 0 /\ q[L + 1] = L
      /\ \A i \in L + 2 .. M - 1 : q[i] = L + 1
  BY TreeLength DEF Block
<1>2. /\ \A i \in 0 .. L - 1 : Vertex(h, i) = Vertex(g, i)
      /\ \A i \in 1 .. L - 1 : q[i] = par[i]
      /\ \A i \in 1 .. L - 1 : par[i] \in 0 .. L - 1
  <2>1. \A i \in 1 .. L - 1 : par[i] \in Nat /\ par[i] < i
    BY TreeLength
  <2>2. /\ \A i \in 0 .. L - 1 : Vertex(h, i) = Vertex(g, i)
        /\ \A i \in 1 .. L - 1 : q[i] = par[i]
    BY DEF Extends
  <2>3. ASSUME NEW i \in 1 .. L - 1 PROVE par[i] \in 0 .. L - 1
    <3>1. par[i] \in Nat /\ par[i] < i /\ L \in Nat
      BY <1>1, <2>1
    <3> HIDE DEF L, M
    <3> QED BY <3>1
  <2> QED BY <2>2, <2>3
<1>3. h.root = root /\ Path(0) = <<root>>
  <2>1. 0 \in 0 .. L - 1
    BY <1>1
  <2> QED BY <1>2, <2>1 DEF PathsOK, BlockNamed
<1>4. /\ Name(L) = sn /\ Path(L) = getNodePath(root, Append(<<>>, sn))
      /\ Name(L + 1) = nn /\ Path(L + 1) = getNodePath(root, Append(<<sn>>, nn))
  BY DEF BlockNamed, Labelled, SubnetName
<1>5. \A i \in L + 2 .. M - 1 : Path(i) = getNodePath(root, Append(sub, Name(i)))
  <2> DEFINE I == L + 2 .. L + 2 + a + b + c - 1
  <2>1. \E kind, num : Leaves(h, I, root, sub, kind, num)
    BY <1>1, LeavesNamed
  <2>2. L + 2 .. M - 1 = I
    BY <1>1
  <2> HIDE DEF sub, L, M, I, root
  <2>3. \A i \in I : Vertex(h, i).path = getNodePath(root, Append(sub, Vertex(h, i).name))
    BY <2>1 DEF Labelled, Leaves
  <2> QED BY <2>2, <2>3
<1> HIDE DEF L, M, sn, nn, root
\* Paths are sequences.
<1>6. ASSUME NEW s, NEW S, s \in Seq(S), NEW e, NEW p, p = getNodePath(root, Append(s, e))
      PROVE  p \in Seq(ToSet(p)) /\ p = Append(getNodePath(root, s), e)
  BY <1>6, PathTyped
<1>7. Typed(L) /\ Step(L)
  <2>1. <<>> \in Seq({})
    OBVIOUS
  <2>2. /\ Path(L) \in Seq(ToSet(Path(L)))
        /\ Path(L) = Append(getNodePath(root, <<>>), sn)
    <3> DEFINE p == Path(L)
    <3>1. p = getNodePath(root, Append(<<>>, sn))
      BY <1>4
    <3> HIDE DEF p
    <3>2. p \in Seq(ToSet(p)) /\ p = Append(getNodePath(root, <<>>), sn)
      BY <1>6, <2>1, <3>1
    <3> QED BY <3>2 DEF p
  <2>3. getNodePath(root, <<>>) = <<root>>
    BY <2>1, PathIsSeq
  <2> QED BY <1>1, <1>3, <1>4, <2>2, <2>3
<1>8. Typed(L + 1) /\ Step(L + 1) /\ Path(L + 1) = getNodePath(root, sub)
  <2>1. <<sn>> \in Seq({sn}) /\ Append(<<>>, sn) = <<sn>> /\ Append(<<sn>>, nn) = <<sn, nn>>
    <3>1. \A x : <<x>> \in Seq({x})
      OBVIOUS
    <3>2. \A x : Append(<<>>, x) = <<x>>
      OBVIOUS
    <3>3. \A x, y : Append(<<x>>, y) = <<x, y>>
      <4> TAKE x, y
      <4>1. Append(<<x>>, y) = [i \in 1 .. 2 |-> IF i = 2 THEN y ELSE x]
        OBVIOUS
      <4>2. <<x, y>> = [i \in 1 .. 2 |-> IF i = 2 THEN y ELSE x]
        OBVIOUS
      <4> QED BY <4>1, <4>2
    <3> QED BY <3>1, <3>2, <3>3
  <2>2. /\ Path(L + 1) \in Seq(ToSet(Path(L + 1)))
        /\ Path(L + 1) = Append(getNodePath(root, <<sn>>), nn)
    <3> DEFINE p == Path(L + 1)
    <3>1. p = getNodePath(root, Append(<<sn>>, nn))
      BY <1>4
    <3> HIDE DEF p
    <3>2. p \in Seq(ToSet(p)) /\ p = Append(getNodePath(root, <<sn>>), nn)
      BY <1>6, <2>1, <3>1
    <3> QED BY <3>2 DEF p
  <2>3. Path(L) = getNodePath(root, <<sn>>)
    BY <1>4, <2>1
  <2>4. sub = <<sn, nn>>
    BY DEF NodeSubpath, sn, nn
  <2> HIDE DEF sub
  <2> QED BY <1>1, <1>4, <2>1, <2>2, <2>3, <2>4
<1>9. ASSUME NEW i \in L + 2 .. M - 1 PROVE Typed(i) /\ Step(i)
  <2>1. sub \in Seq({sn, nn})
    BY DEF NodeSubpath, sn, nn
  <2> HIDE DEF sub
  <2> DEFINE p == Path(i)
  <2>2. p = getNodePath(root, Append(sub, Name(i)))
    BY <1>5, <1>9
  <2> HIDE DEF p
  <2>3. p \in Seq(ToSet(p)) /\ p = Append(getNodePath(root, sub), Name(i))
    BY <1>6, <2>1, <2>2
  <2>4. q[i] = L + 1
    BY <1>1, <1>9
  <2> QED BY <1>8, <2>3, <2>4 DEF p
<1>10. ASSUME NEW i \in 0 .. L - 1 PROVE Typed(i) /\ (i # 0 => Step(i))
  <2>1. Vertex(g, i).path \in Seq(ToSet(Vertex(g, i).path))
    BY DEF PathsOK, L
  <2>2. Vertex(h, i) = Vertex(g, i)
    BY <1>2
  <2>3. ASSUME i # 0 PROVE Step(i)
    <3>1. i \in 1 .. L - 1 /\ i \in DOMAIN par
      BY <1>1, <2>3
    <3>2. Vertex(g, i).path = Append(Vertex(g, par[i]).path, Vertex(g, i).name)
      BY <3>1 DEF PathsOK
    <3>3. q[i] = par[i] /\ Vertex(h, par[i]) = Vertex(g, par[i])
      BY <1>2, <3>1
    <3> QED BY <2>2, <3>2, <3>3
  <2> QED BY <2>1, <2>2, <2>3
<1>11. \A i \in 0 .. M - 1 : i \in 0 .. L - 1 \/ i = L \/ i = L + 1 \/ i \in L + 2 .. M - 1
  BY <1>1
<1>12. \A i \in DOMAIN q : i # 0 /\ i \in 0 .. M - 1
  BY <1>1
<1> HIDE DEF Typed, Step
<1>13. /\ \A i \in 0 .. M - 1 : Typed(i)
       /\ \A i \in DOMAIN q : Step(i)
  BY <1>7, <1>8, <1>9, <1>10, <1>11, <1>12
<1> QED BY <1>3, <1>13 DEF PathsOK, Typed, Step, M

\* The names of two vertices of the same place differ, when one more node has
\* come.
LEMMA NamedOneMore ==
  ASSUME NEW g, NEW par, IsTree(g, par), NEW h, NEW q, IsTree(h, q),
         Extends(g, par, h, q), NEW node, NEW index,
         NEW a \in Nat, NEW b \in Nat, NEW c \in Nat,
         Block(h, q, Len(g.nodes), node, a, b, c),
         BlockNamed(g, h, node, index, a, b, c),
         NEW nodes, node.zone \in Zones(nodes), Named(g, par, nodes)
  PROVE  Named(h, q, nodes)
<1> DEFINE L == Len(g.nodes)
           M == Len(h.nodes)
           S == Subnets(g)
           I == L + 2 .. L + 2 + a + b + c - 1
           sub == NodeSubpath(g, node, index)
           Name(i) == Vertex(h, i).name
<1>1. /\ L \in Nat /\ L >= 1 /\ M = L + 2 + a + b + c
      /\ DOMAIN par = 1 .. L - 1 /\ DOMAIN q = 1 .. M - 1
      /\ q[L] = 0 /\ q[L + 1] = L
      /\ \A i \in L + 2 .. M - 1 : q[i] = L + 1
  BY TreeLength DEF Block
<1>2. /\ \A i \in 0 .. L - 1 : Vertex(h, i) = Vertex(g, i)
      /\ \A i \in 1 .. L - 1 : q[i] = par[i]
      /\ \A i \in 1 .. L - 1 : par[i] \in 0 .. L - 1
  <2>1. \A i \in 1 .. L - 1 : par[i] \in Nat /\ par[i] < i
    BY TreeLength
  <2>2. /\ \A i \in 0 .. L - 1 : Vertex(h, i) = Vertex(g, i)
        /\ \A i \in 1 .. L - 1 : q[i] = par[i]
    BY DEF Extends
  <2>3. ASSUME NEW i \in 1 .. L - 1 PROVE par[i] \in 0 .. L - 1
    <3>1. par[i] \in Nat /\ par[i] < i /\ L \in Nat
      BY <1>1, <2>1
    <3> HIDE DEF L, M
    <3> QED BY <3>1
  <2> QED BY <2>2, <2>3
<1>3. S \in Nat /\ Subnets(h) \in Nat /\ S < Subnets(h)
  <2>1. Len(g.nodes) < Len(h.nodes)
    BY <1>1
  <2>2. Vertex(h, Len(g.nodes)).type = "subnet"
    BY DEF Block
  <2> QED BY <2>1, <2>2, MoreSubnets
<1>4. Name(L) = Indexed(node.zone, S)
  BY DEF BlockNamed, Labelled
<1>5. PICK kind, num : Leaves(h, I, g.root, sub, kind, num)
  BY <1>1, LeavesNamed
<1>6. I = L + 2 .. M - 1
  BY <1>1
<1>7. PathsOK(h, q)
  BY PathsOneMore DEF Named
<1> HIDE DEF L, M, S, I, sub
\* A vertex is an old one, the subnet, the node or under the node.
<1>8. ASSUME NEW i \in DOMAIN q
      PROVE  \/ i \in 1 .. L - 1 /\ q[i] = par[i] /\ q[i] \in 0 .. L - 1
             \/ i = L /\ q[i] = 0
             \/ i = L + 1 /\ q[i] = L
             \/ i \in I /\ q[i] = L + 1
  <2>1. i \in 1 .. L - 1 \/ i = L \/ i = L + 1 \/ i \in L + 2 .. M - 1
    BY <1>1
  <2> QED BY <1>1, <1>2, <1>6, <2>1
\* What a subnet of the tree was called.
<1>9. ASSUME NEW i \in 1 .. L - 1, par[i] = 0
      PROVE  \E zone \in Zones(nodes), n \in 0 .. S - 1 : Name(i) = Indexed(zone, n)
  <2>1. i \in DOMAIN par /\ Name(i) = Vertex(g, i).name
    BY <1>1, <1>2
  <2>2. \E zone \in Zones(nodes), n \in 0 .. Subnets(g) - 1 :
           Vertex(g, i).name = Indexed(zone, n)
    BY <1>9, <2>1 DEF Named, SubnetsOK
  <2> QED BY <2>1, <2>2 DEF S
<1>10. SubnetsOK(h, q, nodes)
  <2> SUFFICES ASSUME NEW i \in DOMAIN q, q[i] = 0
               PROVE  \E zone \in Zones(nodes), n \in 0 .. Subnets(h) - 1 :
                         Name(i) = Indexed(zone, n)
    BY DEF SubnetsOK
  <2>1. CASE i \in 1 .. L - 1 /\ q[i] = par[i]
    <3>1. PICK zone \in Zones(nodes), n \in 0 .. S - 1 : Name(i) = Indexed(zone, n)
      BY <1>9, <2>1
    <3>2. n \in 0 .. Subnets(h) - 1
      BY <1>3
    <3> QED BY <3>1, <3>2
  <2>2. CASE i = L
    <3>1. S \in 0 .. Subnets(h) - 1
      BY <1>3
    <3> QED BY <1>4, <2>2, <3>1
  <2>3. L # 0 /\ L + 1 # 0
    BY <1>1
  <2> QED BY <1>8, <2>1, <2>2, <2>3
<1>11. ASSUME Readable(Zones(nodes)), Readable(Kinds) PROVE SiblingsDiffer(h, q)
  <2> SUFFICES ASSUME NEW i \in DOMAIN q, NEW j \in DOMAIN q, q[i] = q[j], Name(i) = Name(j)
               PROVE  i = j
    BY DEF SiblingsDiffer
  <2>1. CASE i \in 1 .. L - 1 /\ j \in 1 .. L - 1
    <3>1. par[i] = par[j] /\ Vertex(g, i).name = Vertex(g, j).name
      BY <1>1, <1>2, <2>1
    <3>2. i \in DOMAIN par /\ j \in DOMAIN par
      BY <1>1, <2>1
    <3>3. SiblingsDiffer(g, par)
      BY <1>11 DEF Named
    <3> QED BY <3>1, <3>2, <3>3 DEF SiblingsDiffer
  <2>2. ASSUME NEW k \in 1 .. L - 1, par[k] = 0, Name(k) = Name(L) PROVE FALSE
    <3>1. PICK zone \in Zones(nodes), n \in 0 .. S - 1 : Name(k) = Indexed(zone, n)
      BY <1>9, <2>2
    <3>2. Indexed(zone, n) = Indexed(node.zone, S)
      BY <1>4, <2>2, <3>1
    <3>3. n \in Nat /\ n # S
      BY <1>3
    <3>4. n = S
      BY <1>3, <1>11, <3>2, <3>3 DEF Readable
    <3> QED BY <3>3, <3>4
  <2>3. CASE i \in I /\ j \in I
    <3>1. Indexed(kind[i], num[i]) = Indexed(kind[j], num[j])
      BY <1>5, <2>3 DEF Leaves, Labelled
    <3>2. /\ kind[i] \in Kinds /\ kind[j] \in Kinds
          /\ num[i] \in Nat /\ num[j] \in Nat
      BY <1>5, <2>3 DEF Leaves
    <3>3. kind[i] = kind[j] /\ num[i] = num[j]
      BY <1>11, <3>1, <3>2 DEF Readable
    <3> QED BY <1>5, <2>3, <3>3 DEF Leaves
  <2>4. /\ 0 # L /\ 0 # L + 1 /\ L # L + 1
        /\ \A n \in 0 .. L - 1 : n # L /\ n # L + 1
    BY <1>1
  <2>5. i \in 1 .. L - 1 /\ j = L => par[i] = 0
    BY <1>1, <1>2
  <2>6. j \in 1 .. L - 1 /\ i = L => par[j] = 0
    BY <1>1, <1>2
  <2> QED BY <1>8, <2>1, <2>2, <2>3, <2>4, <2>5, <2>6
<1>12. RootNamed(h)
  <2>1. Vertex(h, 0) = Vertex(g, 0)
    BY <1>1, <1>2
  <2> QED BY <2>1 DEF Named, RootNamed, BlockNamed
<1> QED BY <1>7, <1>10, <1>11, <1>12 DEF Named

\* Sequences with their last elements.
LEMMA LongerDiffer ==
  ASSUME NEW s, s \in Seq(ToSet(s)), NEW t, t \in Seq(ToSet(t)), NEW e, NEW f,
         Append(s, e) = Append(t, f)
  PROVE  s = t /\ e = f
<1> DEFINE S == ToSet(s) \cup ToSet(t) \cup {e, f}
<1>1. e \in S /\ f \in S /\ ToSet(s) \subseteq S /\ ToSet(t) \subseteq S
  OBVIOUS
<1> HIDE DEF S
<1>2. \A T : T \subseteq S => Seq(T) \subseteq Seq(S)
  OBVIOUS
<1>3. s \in Seq(S) /\ t \in Seq(S)
  BY <1>1, <1>2
<1> QED BY <1>1, <1>3, AppendInjective

\* No two vertices have the same path.
LEMMA PathsDiffer ==
  ASSUME NEW g, NEW par, IsTree(g, par), PathsOK(g, par), SiblingsDiffer(g, par)
  PROVE  \A i, j \in 0 .. Len(g.nodes) - 1 :
            Vertex(g, i).path = Vertex(g, j).path => i = j
<1> DEFINE n == Len(g.nodes) - 1
           Path(i) == Vertex(g, i).path
           Name(i) == Vertex(g, i).name
           Apart(k) == \A i, j \in 0 .. k : Path(i) = Path(j) => i = j
           Good == {k \in 0 .. n : Apart(k)}
<1>1. /\ n \in Nat /\ DOMAIN par = 1 .. n
      /\ \A i \in 1 .. n : par[i] \in Nat /\ par[i] < i
  BY TreeLength
<1>2. /\ \A i \in 0 .. n : Path(i) \in Seq(ToSet(Path(i)))
      /\ \A i \in 1 .. n : Path(i) = Append(Path(par[i]), Name(i))
      /\ Path(0) = <<g.root>>
  BY <1>1 DEF PathsOK
<1>3. \A i, j \in 1 .. n : par[i] = par[j] /\ Name(i) = Name(j) => i = j
  BY <1>1 DEF SiblingsDiffer
<1> HIDE DEF n, Path, Name
<1>4. \A i \in 1 .. n : par[i] \in 0 .. i - 1 /\ par[i] \in 0 .. n
  BY <1>1
\* The path of the root is the shortest.
<1>5. ASSUME NEW i \in 0 .. n PROVE Len(Path(i)) \in Nat /\ Len(Path(i)) >= 1
  <2>1. CASE i = 0
    <3>1. \A x : Len(<<x>>) = 1
      OBVIOUS
    <3>2. Len(Path(0)) = 1
      BY <1>2, <3>1
    <3> QED BY <2>1, <3>2
  <2>2. CASE i # 0
    <3>1. i \in 1 .. n /\ par[i] \in 0 .. n
      BY <1>1, <1>4, <2>2
    <3>2. Path(par[i]) \in Seq(ToSet(Path(par[i])))
      BY <1>2, <3>1
    <3>3. /\ Len(Path(par[i])) \in Nat
          /\ Len(Append(Path(par[i]), Name(i))) = Len(Path(par[i])) + 1
      BY <3>2, AppendOne
    <3> QED BY <1>2, <3>1, <3>3
  <2> QED BY <2>1, <2>2
<1>6. ASSUME NEW i \in 1 .. n PROVE Path(i) # Path(0)
  <2>1. i \in 0 .. n /\ par[i] \in 0 .. n
    BY <1>4
  <2>2. Path(par[i]) \in Seq(ToSet(Path(par[i])))
    BY <1>2, <2>1
  <2>3. Len(Path(i)) = Len(Path(par[i])) + 1
    BY <1>2, <2>2, AppendOne
  <2>4. Len(Path(par[i])) \in Nat /\ Len(Path(par[i])) >= 1
    BY <1>5, <2>1
  <2>5. Len(Path(0)) = 1
    <3>1. \A x : Len(<<x>>) = 1
      OBVIOUS
    <3> QED BY <1>2, <3>1
  <2>6. Len(Path(i)) # 1
    BY <2>3, <2>4
  <2> QED BY <2>5, <2>6
\* The paths of two vertices that are the same are under the same one.
<1>7. ASSUME NEW i \in 1 .. n, NEW j \in 1 .. n, Path(i) = Path(j)
      PROVE  Path(par[i]) = Path(par[j]) /\ Name(i) = Name(j)
  <2>1. /\ Path(par[i]) \in Seq(ToSet(Path(par[i])))
        /\ Path(par[j]) \in Seq(ToSet(Path(par[j])))
    BY <1>2, <1>4
  <2>2. Append(Path(par[i]), Name(i)) = Append(Path(par[j]), Name(j))
    BY <1>2, <1>7
  <2> QED BY <2>1, <2>2, LongerDiffer
<1>8. 0 \in Good
  <2>1. \A i, j \in 0 .. 0 : i = j
    OBVIOUS
  <2> QED BY <1>1, <2>1
<1>9. ASSUME NEW k \in 0 .. n - 1, k \in Good PROVE k + 1 \in Good
  <2>1. k + 1 \in 0 .. n /\ k \in Nat /\ k + 1 \in 1 .. n
    BY <1>1
  <2>2. Apart(k)
    BY <1>9
  <2>3. ASSUME NEW j \in 0 .. k PROVE Path(k + 1) # Path(j)
    <3>1. CASE j = 0
      BY <1>6, <2>1, <3>1
    <3>2. CASE j # 0
      <4>1. j \in 1 .. n /\ par[j] \in 0 .. k /\ par[k + 1] \in 0 .. k
        <5>1. j \in 1 .. n /\ j \in 1 .. k
          BY <1>1, <2>1, <3>2
        <5>2. par[j] \in 0 .. j - 1 /\ par[k + 1] \in 0 .. (k + 1) - 1
          BY <1>4, <2>1, <5>1
        <5> QED BY <2>1, <5>1, <5>2
      <4>2. ASSUME Path(k + 1) = Path(j) PROVE FALSE
        <5>1. Path(par[k + 1]) = Path(par[j]) /\ Name(k + 1) = Name(j)
          BY <1>7, <2>1, <4>1, <4>2
        <5>2. par[k + 1] = par[j]
          BY <2>2, <4>1, <5>1
        <5>3. k + 1 = j
          BY <1>3, <2>1, <4>1, <5>1, <5>2
        <5> QED BY <2>1, <5>3
      <4> QED BY <4>2
    <3> QED BY <3>1, <3>2
  <2>4. \A i \in 0 .. k + 1 : i \in 0 .. k \/ i = k + 1
    BY <2>1
  <2>5. Apart(k + 1)
    <3> SUFFICES ASSUME NEW i \in 0 .. k + 1, NEW j \in 0 .. k + 1, Path(i) = Path(j)
                 PROVE  i = j
      OBVIOUS
    <3> QED BY <2>2, <2>3, <2>4
  <2> QED BY <2>1, <2>5
<1> HIDE DEF Good
<1>10. 0 .. n \subseteq Good
  BY <1>1, <1>8, <1>9, NextNumber
<1>11. n \in Good
  BY <1>1, <1>10
<1> QED BY <1>11 DEF Good, Path, n

\* So there are as many as vertices.
LEMMA PathsCount ==
  ASSUME NEW g, NEW par, IsTree(g, par), PathsOK(g, par), SiblingsDiffer(g, par)
  PROVE  Cardinality({v.path : v \in ToSet(g.nodes)}) = Len(g.nodes)
<1> DEFINE I == 0 .. Len(g.nodes) - 1
           V == ToSet(g.nodes)
           path == [v \in V |-> v.path]
<1>1. /\ V = {Vertex(g, i) : i \in I}
      /\ IsFiniteSet(V) /\ Cardinality(V) = Len(g.nodes)
  BY TreeVertices
<1>2. \A i, j \in I : Vertex(g, i).path = Vertex(g, j).path => i = j
  BY PathsDiffer
<1> HIDE DEF I, V
<1>3. \A u, v \in V : path[u] = path[v] => u = v
  BY <1>1, <1>2
<1>4. V \subseteq DOMAIN path
  OBVIOUS
<1>5. {path[v] : v \in V} = {v.path : v \in V}
  OBVIOUS
<1> HIDE DEF path
<1>6. Cardinality({path[v] : v \in V}) = Cardinality(V)
  BY <1>1, <1>3, <1>4, SameNumber
<1> QED BY <1>1, <1>5, <1>6 DEF V

-----------------------------------------------------------------------------
(* A graph under construction.                                             *)

ChildrenOf(g, par, p, type) ==
    {i \in DOMAIN par : par[i] = p /\ Vertex(g, i).type = type}

\* Vertex i is the node, under a subnet of its own and with the vertices that
\* are due to it.
NodeAt(g, par, i, node, reqs) ==
    /\ i \in 2 .. Len(g.nodes) - 1
    /\ Vertex(g, i).type = "node" /\ Vertex(g, i).basename = node.name
    /\ par[i] = i - 1
    /\ Vertex(g, i - 1).type = "subnet" /\ Vertex(g, i - 1).basename = node.zone
    /\ Cardinality(ChildrenOf(g, par, i, "gpu")) = node.gpu
    /\ Cardinality(ChildrenOf(g, par, i, "core")) = Natural(availCpu(node, reqs))
    /\ Cardinality(ChildrenOf(g, par, i, "memory")) = Natural(availMem(node, reqs))

\* The graph of the nodes that were seen, each at its place.
Built(g, par, at, nodes, s) ==
    /\ IsTree(g, par)
    /\ at \in [DOMAIN s -> Nat]
    /\ \A k \in DOMAIN s : NodeAt(g, par, at[k], nodes[k], s[k])
    /\ \A i \in 0 .. Len(g.nodes) - 1 :
          Vertex(g, i).type = "node" => \E k \in DOMAIN s : at[k] = i
    /\ Named(g, par, nodes)

\* The new node is in its place.
LEMMA BlockNode ==
  ASSUME NEW h, NEW q, IsTree(h, q), NEW len \in Nat, len >= 1, NEW node, NEW reqs,
         node.gpu \in Nat,
         NEW b \in Nat, b = Natural(availCpu(node, reqs)),
         NEW c \in Nat, c = Natural(availMem(node, reqs)),
         \A i \in 1 .. len - 1 : q[i] < i,
         Block(h, q, len, node, node.gpu, b, c)
  PROVE  NodeAt(h, q, len + 1, node, reqs)
<1> DEFINE a == node.gpu
           M == Len(h.nodes)
           p == len + 1
<1>1. /\ M = len + 2 + a + b + c
      /\ q[len] = 0 /\ q[len + 1] = len
      /\ \A i \in len + 2 .. M - 1 :
          /\ q[i] = len + 1
          /\ Vertex(h, i).type = IF i < len + 2 + a THEN "gpu"
                                 ELSE IF i < len + 2 + a + b THEN "core" ELSE "memory"
  BY DEF Block
<1>2. DOMAIN q = 1 .. M - 1 /\ \A i \in DOMAIN q : q[i] < i /\ q[i] \in Nat
  BY TreeLength
<1> HIDE DEF M, a
<1>3. a \in Nat
  BY DEF a
<1>4. \A i \in DOMAIN q : q[i] = p <=> i \in len + 2 .. M - 1
  <2>1. ASSUME NEW i \in DOMAIN q PROVE q[i] = p <=> i \in len + 2 .. M - 1
    <3>1. CASE i \in len + 2 .. M - 1
      BY <1>1, <3>1
    <3>2. CASE i <= len + 1
      <4>1. q[i] < i /\ i \notin len + 2 .. M - 1 /\ q[i] \in Nat /\ i \in Nat
        BY <1>2, <3>2
      <4> QED BY <3>2, <4>1
    <3> QED BY <1>2, <3>1, <3>2
  <2> QED BY <2>1
<1> DEFINE x == len + 2
           y == len + 2 + a
           z == len + 2 + a + b
<1>5. /\ M - 1 = z + c - 1 /\ x \in Nat /\ y \in Nat /\ z \in Nat
      /\ y = x + a /\ z = y + b
      /\ \A i \in x .. M - 1 : i \in x .. y - 1 \/ i \in y .. z - 1 \/ i \in z .. M - 1
      /\ \A i \in x .. M - 1 : i \in DOMAIN q
      /\ \A i \in x .. y - 1 : i \in x .. M - 1
      /\ \A i \in y .. z - 1 : i \in x .. M - 1
      /\ \A i \in z .. M - 1 : i \in x .. M - 1
  <2>1. /\ M - 1 = z + c - 1 /\ x \in Nat /\ y \in Nat /\ z \in Nat
        /\ y = x + a /\ z = y + b /\ M \in Nat
    BY <1>1, <1>3
  <2>2. DOMAIN q = 1 .. M - 1 /\ 1 <= x
    BY <1>2
  <2> HIDE DEF x, y, z
  <2>3. \A i \in x .. M - 1 : i \in x .. y - 1 \/ i \in y .. z - 1 \/ i \in z .. M - 1
    BY <1>3, <2>1
  <2>4. \A i \in x .. M - 1 : i \in DOMAIN q
    BY <2>1, <2>2
  <2>5. /\ \A i \in x .. y - 1 : i \in x .. M - 1
        /\ \A i \in y .. z - 1 : i \in x .. M - 1
        /\ \A i \in z .. M - 1 : i \in x .. M - 1
    BY <1>3, <2>1
  <2> QED BY <2>1, <2>3, <2>4, <2>5
<1>6. /\ \A i \in x .. y - 1 : Vertex(h, i).type = "gpu"
      /\ \A i \in y .. z - 1 : Vertex(h, i).type = "core"
      /\ \A i \in z .. M - 1 : Vertex(h, i).type = "memory"
  <2>1. /\ \A i \in x .. y - 1 : i \in x .. M - 1 /\ i < y
        /\ \A i \in y .. z - 1 : i \in x .. M - 1 /\ ~(i < y) /\ i < z
        /\ \A i \in z .. M - 1 : i \in x .. M - 1 /\ ~(i < y) /\ ~(i < z)
    BY <1>1, <1>3
  <2>2. \A i \in x .. M - 1 :
           Vertex(h, i).type = IF i < y THEN "gpu" ELSE IF i < z THEN "core" ELSE "memory"
    BY <1>1
  <2> HIDE DEF x, y, z
  <2> QED BY <2>1, <2>2
<1>7. /\ ChildrenOf(h, q, p, "gpu") = x .. y - 1
      /\ ChildrenOf(h, q, p, "core") = y .. z - 1
      /\ ChildrenOf(h, q, p, "memory") = z .. z + c - 1
  <2>1. \A i \in DOMAIN q : q[i] = p <=> i \in x .. M - 1
    BY <1>4
  <2>2. "gpu" # "core" /\ "gpu" # "memory" /\ "core" # "memory"
    OBVIOUS
  <2> DEFINE X == x .. y - 1
             Y == y .. z - 1
             Z == z .. z + c - 1
             I == x .. M - 1
  <2>3. M - 1 = z + c - 1
    BY <1>5
  <2>4. /\ I = X \cup Y \cup Z
        /\ \A i \in X : Vertex(h, i).type = "gpu"
        /\ \A i \in Y : Vertex(h, i).type = "core"
        /\ \A i \in Z : Vertex(h, i).type = "memory"
    BY <1>5, <1>6, <2>3
  <2>5. I \subseteq DOMAIN q /\ \A i \in DOMAIN q : q[i] = p <=> i \in I
    BY <1>5, <2>1, <2>3
  <2> HIDE DEF x, y, z, X, Y, Z, I
  <2>6. /\ ChildrenOf(h, q, p, "gpu") = X
        /\ ChildrenOf(h, q, p, "core") = Y
        /\ ChildrenOf(h, q, p, "memory") = Z
    BY <2>2, <2>4, <2>5 DEF ChildrenOf
  <2> QED BY <2>6 DEF X, Y, Z
<1>8. ASSUME NEW l \in Int, NEW n \in Nat
      PROVE  Cardinality(l .. l + n - 1) = n
  BY FS_Interval
<1>9. /\ Cardinality(ChildrenOf(h, q, p, "gpu")) = a
      /\ Cardinality(ChildrenOf(h, q, p, "core")) = b
      /\ Cardinality(ChildrenOf(h, q, p, "memory")) = c
  <2> HIDE DEF x, y, z
  <2>1. x \in Int /\ y \in Int /\ z \in Int
    BY <1>5
  <2>2. x .. y - 1 = x .. x + a - 1 /\ y .. z - 1 = y .. y + b - 1
    <3>1. y - 1 = x + a - 1 /\ z - 1 = y + b - 1
      BY <1>3, <1>5, <2>1
    <3> QED BY <3>1
  <2>3. /\ Cardinality(x .. x + a - 1) = a
        /\ Cardinality(y .. y + b - 1) = b
        /\ Cardinality(z .. z + c - 1) = c
    BY <1>3, <1>8, <2>1
  <2> QED BY <1>7, <2>2, <2>3
<1>10. p \in 2 .. M - 1 /\ p - 1 = len /\ q[p] = p - 1
  BY <1>1, <1>3
<1>11. /\ Vertex(h, p).type = "node" /\ Vertex(h, p).basename = node.name
       /\ Vertex(h, p - 1).type = "subnet" /\ Vertex(h, p - 1).basename = node.zone
  BY <1>10 DEF Block
<1> QED BY <1>9, <1>10, <1>11 DEF NodeAt, M, a

\* The nodes before it are where they were.
LEMMA OtherNodes ==
  ASSUME NEW g, NEW par, IsTree(g, par), NEW h, NEW q, IsTree(h, q),
         Extends(g, par, h, q), NEW node, NEW a \in Nat, NEW b \in Nat, NEW c \in Nat,
         Block(h, q, Len(g.nodes), node, a, b, c),
         NEW i, NEW other, NEW reqs, NodeAt(g, par, i, other, reqs)
  PROVE  NodeAt(h, q, i, other, reqs)
<1> DEFINE L == Len(g.nodes)
           M == Len(h.nodes)
<1>1. /\ L \in Nat /\ L <= M /\ M \in Nat
      /\ DOMAIN par = 1 .. L - 1 /\ DOMAIN q = 1 .. M - 1
      /\ \A j \in 0 .. L - 1 : Vertex(h, j) = Vertex(g, j)
      /\ \A j \in 1 .. L - 1 : q[j] = par[j]
  BY TreeLength DEF Extends
<1>2. \A j \in L .. M - 1 : q[j] \in {0, L, L + 1}
  <2>1. \A j \in L + 2 .. M - 1 : q[j] = L + 1
    BY DEF Block
  <2>2. q[L] = 0 /\ q[L + 1] = L
    BY DEF Block
  <2> HIDE DEF L, M
  <2> QED BY <1>1, <2>1, <2>2
<1>3. i \in 2 .. L - 1
  BY DEF NodeAt
<1> HIDE DEF L, M
<1>4. ASSUME NEW type PROVE ChildrenOf(h, q, i, type) = ChildrenOf(g, par, i, type)
  <2>1. \A j \in DOMAIN q : q[j] = i => j \in 1 .. L - 1
    BY <1>1, <1>2, <1>3
  <2>2. \A j \in 1 .. L - 1 : j \in DOMAIN q /\ j \in DOMAIN par /\ q[j] = par[j]
                             /\ Vertex(h, j) = Vertex(g, j)
    BY <1>1
  <2> QED BY <1>1, <2>1, <2>2 DEF ChildrenOf
<1>5. /\ Vertex(h, i) = Vertex(g, i) /\ Vertex(h, i - 1) = Vertex(g, i - 1)
      /\ q[i] = par[i] /\ i \in 2 .. M - 1
  BY <1>1, <1>3
<1> QED BY <1>4, <1>5 DEF NodeAt, M

\* What is left of a node is an integer number of cores and GiB.
LEMMA Available ==
  ASSUME NEW node, NEW reqs, node.cpu \in Nat, node.mem \in Nat,
         reqs.cpu \in Nat, reqs.mem \in Nat
  PROVE  availCpu(node, reqs) \in Int /\ availMem(node, reqs) \in Int
  BY DEF availCpu, availMem, Quotient

\* One node more.
LEMMA BuiltOneMore ==
  ASSUME NEW g, NEW par, NEW at, NEW nodes, NEW s, Built(g, par, at, nodes, s),
         NEW k, k \notin DOMAIN s, k \in DOMAIN nodes, NEW index, NEW reqs,
         nodes[k].gpu \in Nat,
         availCpu(nodes[k], reqs) \in Int, availMem(nodes[k], reqs) \in Int
  PROVE  LET t == [j \in DOMAIN s \cup {k} |-> IF j = k THEN reqs ELSE s[j]]
             h == AddNode(g, nodes[k], index, reqs)
         IN  \E q, to : /\ Built(h, q, to, nodes, t)
                        /\ Len(g.nodes) <= Len(h.nodes)
<1> DEFINE L == Len(g.nodes)
           node == nodes[k]
           b == Natural(availCpu(node, reqs))
           c == Natural(availMem(node, reqs))
           t == [j \in DOMAIN s \cup {k} |-> IF j = k THEN reqs ELSE s[j]]
           h == AddNode(g, node, index, reqs)
           to == [j \in DOMAIN s \cup {k} |-> IF j = k THEN L + 1 ELSE at[j]]
<1>1. IsTree(g, par)
  BY DEF Built
<1>2. PICK q : /\ IsTree(h, q) /\ Extends(g, par, h, q)
               /\ Block(h, q, L, node, node.gpu, b, c)
               /\ BlockNamed(g, h, node, index, node.gpu, b, c)
  BY <1>1, AddNodeGrows
<1> HIDE DEF h
<1>3. b \in Nat /\ c \in Nat
  BY DEF Natural
<1>4. /\ L \in Nat /\ L >= 1 /\ L <= Len(h.nodes)
      /\ \A i \in 1 .. L - 1 : q[i] < i
      /\ \A i \in 0 .. L - 1 : Vertex(h, i) = Vertex(g, i)
  <2>1. /\ L \in Nat /\ L >= 1 /\ L <= Len(h.nodes) /\ Len(h.nodes) \in Nat
        /\ DOMAIN q = 1 .. Len(h.nodes) - 1 /\ \A i \in DOMAIN q : q[i] < i
    BY <1>1, <1>2, TreeLength DEF Extends
  <2>2. \A i \in 1 .. L - 1 : i \in DOMAIN q
    BY <2>1
  <2> QED BY <1>2, <2>1, <2>2 DEF Extends
<1>5. NodeAt(h, q, L + 1, node, reqs)
  <2> HIDE DEF b, c, L
  <2> QED BY <1>2, <1>3, <1>4, BlockNode DEF b, c
<1>6. ASSUME NEW j \in DOMAIN t PROVE NodeAt(h, q, to[j], nodes[j], t[j])
  <2>1. CASE j = k
    BY <1>5, <2>1
  <2>2. CASE j # k
    <3>1. j \in DOMAIN s /\ to[j] = at[j] /\ t[j] = s[j]
      BY <2>2
    <3>2. NodeAt(g, par, at[j], nodes[j], s[j])
      BY <3>1 DEF Built
    <3> HIDE DEF b, c, L
    <3>3. NodeAt(h, q, at[j], nodes[j], s[j])
      BY <1>1, <1>2, <1>3, <3>2, OtherNodes DEF L
    <3> QED BY <3>1, <3>3
  <2> QED BY <2>1, <2>2
<1>7. ASSUME NEW i \in 0 .. Len(h.nodes) - 1, Vertex(h, i).type = "node"
      PROVE  \E j \in DOMAIN t : to[j] = i
  <2>1. CASE i \in 0 .. L - 1
    <3>1. Vertex(g, i).type = "node"
      BY <1>4, <1>7, <2>1
    <3>2. PICK j \in DOMAIN s : at[j] = i
      BY <2>1, <3>1 DEF Built
    <3>3. j \in DOMAIN t /\ to[j] = i
      BY <3>2
    <3> QED BY <3>3
  <2>2. CASE i = L + 1
    <3>1. k \in DOMAIN t /\ to[k] = i
      BY <2>2
    <3> QED BY <3>1
  <2>3. CASE i = L
    <3>1. Vertex(h, L).type = "subnet"
      BY <1>2 DEF Block
    <3> QED BY <1>7, <2>3, <3>1
  <2>4. CASE i \in L + 2 .. Len(h.nodes) - 1
    <3>1. Vertex(h, i).type \in {"gpu", "core", "memory"}
      BY <1>2, <2>4 DEF Block
    <3> QED BY <1>7, <3>1
  <2>5. i \in 0 .. L - 1 \/ i = L \/ i = L + 1 \/ i \in L + 2 .. Len(h.nodes) - 1
    BY <1>4
  <2> QED BY <2>1, <2>2, <2>3, <2>4, <2>5
<1>8. to \in [DOMAIN t -> Nat]
  <2>1. at \in [DOMAIN s -> Nat]
    BY DEF Built
  <2> QED BY <1>4, <2>1
<1>9. Named(h, q, nodes)
  <2>1. node.zone \in Zones(nodes)
    BY DEF Zones
  <2>2. Named(g, par, nodes) /\ node.gpu \in Nat
    BY DEF Built
  <2> HIDE DEF b, c, node
  <2> QED BY <1>1, <1>2, <1>3, <2>1, <2>2, NamedOneMore
<1>10. Built(h, q, to, nodes, t)
  BY <1>2, <1>6, <1>7, <1>8, <1>9 DEF Built
<1> QED BY <1>4, <1>10 DEF h

\* The edges say who is under whom.
LEMMA TreeEdges ==
  ASSUME NEW g, NEW par, IsTree(g, par), NEW i \in 0 .. Len(g.nodes) - 1,
         NEW j \in 0 .. Len(g.nodes) - 1
  PROVE  /\ <<i, j, "contains">> \in g.edges <=> j \in DOMAIN par /\ par[j] = i
         /\ <<j, i, "in">> \in g.edges <=> j \in DOMAIN par /\ par[j] = i
<1>1. g.edges = EdgesOf(par)
  BY DEF IsTree
<1>2. <<i, j, "contains">> \in EdgesOf(par) <=> j \in DOMAIN par /\ par[j] = i
  BY DEF EdgesOf
<1>3. <<j, i, "in">> \in EdgesOf(par) <=> j \in DOMAIN par /\ par[j] = i
  BY DEF EdgesOf
<1> QED BY <1>1, <1>2, <1>3

\* A vertex is in its parent, and in nothing else.
LEMMA TreeParents ==
  ASSUME NEW par, IsTree(graph, par), NEW i \in 0 .. Len(graph.nodes) - 1
  PROVE  Parents(Vertex(graph, i))
            = IF i = 0 THEN {} ELSE {Vertex(graph, par[i])}
<1> DEFINE I == 0 .. Len(graph.nodes) - 1
           v == Vertex(graph, i)
<1>1. /\ ToSet(graph.nodes) = {Vertex(graph, j) : j \in I}
      /\ \A j \in I : Vertex(graph, j).id = j
  BY TreeVertices
<1>2. \A j \in I : <<i, j, "in">> \in graph.edges <=> i \in DOMAIN par /\ par[i] = j
  BY TreeEdges
<1>3. Parents(v) = {Vertex(graph, j) : j \in {j \in I : i \in DOMAIN par /\ par[i] = j}}
  <2> HIDE DEF I
  <2>1. v.id = i /\ \A j \in I : Vertex(graph, j).id = j
    BY <1>1 DEF I
  <2> HIDE DEF v
  <2> QED BY <1>1, <1>2, <2>1 DEF Parents
<1>4. CASE i = 0
  <2>1. i \notin DOMAIN par
    BY <1>4, TreeLength
  <2> QED BY <1>3, <1>4, <2>1
<1>5. CASE i # 0
  <2>1. i \in DOMAIN par /\ par[i] \in I
    BY <1>5, TreeLength
  <2> QED BY <1>3, <1>5, <2>1
<1> QED BY <1>4, <1>5

\* What is below a vertex, counted by id.
LEMMA TreeBelow ==
  ASSUME NEW par, IsTree(graph, par), NEW i \in 0 .. Len(graph.nodes) - 1, NEW type
  PROVE  /\ Below(Vertex(graph, i), type) = Cardinality(ChildrenOf(graph, par, i, type))
         /\ {c \in ToSet(graph.nodes) :
                c.type = type /\ <<Vertex(graph, i).id, c.id, "contains">> \in graph.edges}
              = {Vertex(graph, j) : j \in ChildrenOf(graph, par, i, type)}
         /\ IsFiniteSet({Vertex(graph, j) : j \in ChildrenOf(graph, par, i, type)})
         /\ Cardinality({Vertex(graph, j) : j \in ChildrenOf(graph, par, i, type)})
              = Cardinality(ChildrenOf(graph, par, i, type))
<1> DEFINE I == 0 .. Len(graph.nodes) - 1
           C == ChildrenOf(graph, par, i, type)
           V == {Vertex(graph, j) : j \in C}
           h == [j \in I |-> Vertex(graph, j)]
<1>1. /\ ToSet(graph.nodes) = {Vertex(graph, j) : j \in I}
      /\ \A j \in I : Vertex(graph, j).id = j
      /\ \A j, k \in I : Vertex(graph, j) = Vertex(graph, k) => j = k
  BY TreeVertices
<1>2. DOMAIN par \subseteq I /\ \A j \in DOMAIN par : j # 0 /\ par[j] \in I
  BY TreeLength
<1>3. C \subseteq I
  BY <1>2 DEF ChildrenOf
<1>4. IsFiniteSet(C)
  <2>1. IsFiniteSet(I)
    BY TreeLength, FS_Interval
  <2> QED BY <1>3, <2>1, FS_Subset
<1>5. IsFiniteSet(V) /\ Cardinality(V) = Cardinality(C)
  <2> HIDE DEF C, I
  <2>1. \A j, k \in C : h[j] = h[k] => j = k
    BY <1>1, <1>3
  <2>2. C \subseteq DOMAIN h /\ {h[j] : j \in C} = V
    BY <1>3
  <2> HIDE DEF h, V
  <2> QED BY <1>4, <2>1, <2>2, SameNumber
<1>6. {c \in ToSet(graph.nodes) :
          c.type = type /\ <<Vertex(graph, i).id, c.id, "contains">> \in graph.edges} = V
  <2>1. \A j \in I : <<i, j, "contains">> \in graph.edges <=> j \in DOMAIN par /\ par[j] = i
    BY TreeEdges
  <2>2. Vertex(graph, i).id = i
    BY <1>1
  <2> HIDE DEF I
  <2> QED BY <1>1, <1>2, <2>1, <2>2 DEF ChildrenOf
<1>7. {u \in ToSet(graph.nodes) : u.type = type /\ Parents(u) = {Vertex(graph, i)}} = V
  <2>1. \A j \in I : Parents(Vertex(graph, j)) = {Vertex(graph, i)}
                        <=> j \in DOMAIN par /\ par[j] = i
    <3> SUFFICES ASSUME NEW j \in I
                 PROVE  Parents(Vertex(graph, j)) = {Vertex(graph, i)}
                          <=> j \in DOMAIN par /\ par[j] = i
      OBVIOUS
    <3>1. Parents(Vertex(graph, j)) = IF j = 0 THEN {} ELSE {Vertex(graph, par[j])}
      BY TreeParents
    <3>2. j \in DOMAIN par <=> j # 0
      BY TreeLength
    <3>3. j # 0 => par[j] \in I
      BY <1>2, <3>2
    <3> HIDE DEF I
    <3>4. i \in I
      BY DEF I
    <3> QED BY <1>1, <3>1, <3>2, <3>3, <3>4
  <2> HIDE DEF I
  <2> QED BY <1>1, <1>2, <2>1 DEF ChildrenOf
<1> QED BY <1>5, <1>6, <1>7 DEF Below

-----------------------------------------------------------------------------
(* What Fluxion sees of a graph that was built.                            *)

NamesDiffer ==
    /\ DOMAIN seen \subseteq DOMAIN cluster
    /\ \A j, k \in DOMAIN cluster : cluster[j].name = cluster[k].name => j = k

\* The nodes of the graph are the ones that were seen, by their names.
LEMMA BuiltCompute ==
  ASSUME NEW par, NEW at, Built(graph, par, at, cluster, seen), NamesDiffer
  PROVE  /\ Compute = {Vertex(graph, at[k]) : k \in DOMAIN seen}
         /\ \A k \in DOMAIN seen : Vertex(graph, at[k]).basename = cluster[k].name
         /\ \A v, w \in Compute : v.basename = w.basename => v = w
         /\ IsFiniteSet(Compute)
         /\ Cardinality(Compute) = Cardinality(DOMAIN seen)
<1> DEFINE I == 0 .. Len(graph.nodes) - 1
           S == DOMAIN seen
           h == [k \in S |-> Vertex(graph, at[k])]
<1>1. IsTree(graph, par)
  BY DEF Built
<1>2. /\ ToSet(graph.nodes) = {Vertex(graph, i) : i \in I}
      /\ \A i, j \in I : Vertex(graph, i) = Vertex(graph, j) => i = j
      /\ IsFiniteSet(ToSet(graph.nodes))
  BY <1>1, TreeVertices
<1>3. \A k \in S : /\ at[k] \in I
                   /\ Vertex(graph, at[k]).type = "node"
                   /\ Vertex(graph, at[k]).basename = cluster[k].name
  <2>1. \A k \in S : NodeAt(graph, par, at[k], cluster[k], seen[k])
    BY DEF Built
  <2>2. Len(graph.nodes) \in Nat
    BY <1>1, TreeLength
  <2>3. 2 .. Len(graph.nodes) - 1 \subseteq I
    BY <2>2
  <2> HIDE DEF I
  <2> QED BY <2>1, <2>3 DEF NodeAt
<1>4. \A i \in I : Vertex(graph, i).type = "node" => \E k \in S : at[k] = i
  BY DEF Built
<1> HIDE DEF I
<1>5. Compute = {h[k] : k \in S}
  BY <1>2, <1>3, <1>4 DEF Compute
<1>6. Compute = {Vertex(graph, at[k]) : k \in S}
  BY <1>5
<1>7. \A j, k \in S : Vertex(graph, at[j]).basename = Vertex(graph, at[k]).basename => j = k
  BY <1>3 DEF NamesDiffer
<1>8. \A v, w \in Compute : v.basename = w.basename => v = w
  BY <1>6, <1>7
<1>9. IsFiniteSet(Compute)
  <2>1. Compute \in SUBSET ToSet(graph.nodes)
    BY DEF Compute
  <2> QED BY <1>2, <2>1, FS_Subset
<1>10. \A j, k \in S : h[j] = h[k] => j = k
  BY <1>7
<1>11. IsFiniteSet(S) /\ Cardinality(Compute) = Cardinality(S)
  <2>1. h \in Injection(S, Compute) /\ h \in Surjection(S, Compute)
    BY <1>5, <1>10 DEF Injection, Surjection, IsInjective
  <2>2. IsFiniteSet(S)
    BY <1>9, <2>1, FS_Injection
  <2> QED BY <1>9, <2>1, <2>2, FS_Injection
<1> QED BY <1>3, <1>6, <1>8, <1>9, <1>11

\* The cores of a node are as many as were available, and no other's.
LEMMA BuiltCores ==
  ASSUME NEW par, NEW at, Built(graph, par, at, cluster, seen), NamesDiffer
  PROVE  /\ \A k \in DOMAIN seen :
               Cardinality(CoresOf(Vertex(graph, at[k])))
                 = Natural(availCpu(cluster[k], seen[k]))
         /\ \A v \in Compute : /\ CoresOf(v) \subseteq ToSet(graph.nodes)
                               /\ IsFiniteSet(CoresOf(v))
                               /\ \A c \in CoresOf(v) : c.type = "core"
         /\ \A v, w \in Compute : v # w => CoresOf(v) \cap CoresOf(w) = {}
<1> DEFINE I == 0 .. Len(graph.nodes) - 1
           S == DOMAIN seen
           C(k) == ChildrenOf(graph, par, at[k], "core")
<1>1. IsTree(graph, par)
  BY DEF Built
<1>2. \A i, j \in I : Vertex(graph, i) = Vertex(graph, j) => i = j
  BY <1>1, TreeVertices
<1>3. \A k \in S : at[k] \in I /\ NodeAt(graph, par, at[k], cluster[k], seen[k])
  <2>1. \A k \in S : NodeAt(graph, par, at[k], cluster[k], seen[k])
    BY DEF Built
  <2>2. Len(graph.nodes) \in Nat
    BY <1>1, TreeLength
  <2>3. 2 .. Len(graph.nodes) - 1 \subseteq I
    BY <2>2
  <2> HIDE DEF I
  <2> QED BY <2>1, <2>3 DEF NodeAt
<1>4. ASSUME NEW k \in S
      PROVE  /\ CoresOf(Vertex(graph, at[k])) = {Vertex(graph, j) : j \in C(k)}
             /\ IsFiniteSet(CoresOf(Vertex(graph, at[k])))
             /\ Cardinality(CoresOf(Vertex(graph, at[k])))
                  = Natural(availCpu(cluster[k], seen[k]))
  <2>1. CoresOf(Vertex(graph, at[k])) = {Vertex(graph, j) : j \in C(k)}
    <3>1. CoresOf(Vertex(graph, at[k]))
            = {c \in ToSet(graph.nodes) :
                 c.type = "core" /\ <<Vertex(graph, at[k]).id, c.id, "contains">> \in graph.edges}
      BY DEF CoresOf
    <3> QED BY <1>1, <1>3, <3>1, TreeBelow
  <2>2. /\ IsFiniteSet({Vertex(graph, j) : j \in C(k)})
        /\ Cardinality({Vertex(graph, j) : j \in C(k)}) = Cardinality(C(k))
    BY <1>1, <1>3, TreeBelow
  <2>3. Cardinality(C(k)) = Natural(availCpu(cluster[k], seen[k]))
    BY <1>3 DEF NodeAt
  <2> HIDE DEF C
  <2> QED BY <2>1, <2>2, <2>3
<1>5. Compute = {Vertex(graph, at[k]) : k \in S}
  BY BuiltCompute
<1>6. \A v \in Compute : /\ CoresOf(v) \subseteq ToSet(graph.nodes)
                         /\ IsFiniteSet(CoresOf(v))
                         /\ \A c \in CoresOf(v) : c.type = "core"
  <2>1. \A v \in Compute : IsFiniteSet(CoresOf(v))
    BY <1>4, <1>5
  <2> QED BY <2>1 DEF CoresOf
<1>7. ASSUME NEW j \in S, NEW k \in S, Vertex(graph, at[j]) # Vertex(graph, at[k])
      PROVE  CoresOf(Vertex(graph, at[j])) \cap CoresOf(Vertex(graph, at[k])) = {}
  <2>1. at[j] # at[k]
    BY <1>7
  <2>2. \A m \in C(j), n \in C(k) : m \in I /\ n \in I /\ m # n
    <3>1. DOMAIN par \subseteq I
      BY <1>1, TreeLength
    <3> QED BY <2>1, <3>1 DEF ChildrenOf
  <2> HIDE DEF C, I
  <2> QED BY <1>2, <1>4, <2>2
<1>8. \A v, w \in Compute : v # w => CoresOf(v) \cap CoresOf(w) = {}
  <2> SUFFICES ASSUME NEW v \in Compute, NEW w \in Compute, v # w
               PROVE  CoresOf(v) \cap CoresOf(w) = {}
    OBVIOUS
  <2>1. PICK j \in S, k \in S : v = Vertex(graph, at[j]) /\ w = Vertex(graph, at[k])
    BY <1>5
  <2> QED BY <1>7, <2>1
<1> QED BY <1>4, <1>6, <1>8

-----------------------------------------------------------------------------
(* Whole units.                                                            *)

\* The greatest element.
LEMMA MaxIs ==
  ASSUME NEW S \in SUBSET Int, NEW m \in S, \A x \in S : x <= m
  PROVE  Max(S) = m
<1>1. \A y \in S : m >= y
  OBVIOUS
<1>2. \A x \in S : (\A y \in S : x >= y) => x = m
  OBVIOUS
<1> QED BY <1>1, <1>2 DEF Max

\* availCpu is the whole cores that are left, or not positive if none is.
LEMMA WholeCores ==
  ASSUME NEW node, NEW reqs, node.cpu \in Nat, reqs.cpu \in Nat
  PROVE  LET n == Natural(availCpu(node, reqs))
         IN  /\ n \in Nat
             /\ n > 0 => reqs.cpu + 1000 * n <= node.cpu
             /\ WholeUnits(node.cpu, reqs.cpu, 1000) = n
<1> DEFINE t == node.cpu
           u == reqs.cpu
           n == Natural(availCpu(node, reqs))
<1>1. /\ n \in Nat
      /\ n > 0 => u + 1000 * n <= t
      /\ \A m \in Nat : m * 1000 + u <= t => m <= n
  BY DEF Natural, availCpu, Quotient
<1>2. n = 0 \/ n * 1000 + u <= t
  BY <1>1
<1> HIDE DEF n
<1>3. n <= t
  BY <1>1, <1>2
<1> DEFINE S == {m \in 0 .. t : m * 1000 + u <= t} \cup {0}
<1>4. S \in SUBSET Int /\ n \in S /\ \A x \in S : x <= n
  BY <1>1, <1>2, <1>3
<1>5. WholeUnits(t, u, 1000) = n
  BY <1>4, MaxIs DEF WholeUnits
<1> QED BY <1>1, <1>5 DEF n

\* availMem is the whole GiB that are left, or not positive if none is.
LEMMA WholeGiB ==
  ASSUME NEW node, NEW reqs, node.mem \in Nat, reqs.mem \in Nat
  PROVE  WholeUnits(node.mem, reqs.mem, 1024) = Natural(availMem(node, reqs))
<1> DEFINE t == node.mem
           u == reqs.mem
           n == Natural(availMem(node, reqs))
<1>1. /\ n \in Nat
      /\ n > 0 => u + 1024 * n <= t
      /\ \A m \in Nat : m * 1024 + u <= t => m <= n
  BY DEF Natural, availMem
<1>2. n = 0 \/ n * 1024 + u <= t
  BY <1>1
<1> HIDE DEF n
<1>3. n <= t
  BY <1>1, <1>2
<1> DEFINE S == {m \in 0 .. t : m * 1024 + u <= t} \cup {0}
<1>4. S \in SUBSET Int /\ n \in S /\ \A x \in S : x <= n
  BY <1>1, <1>2, <1>3
<1>5. WholeUnits(t, u, 1024) = n
  BY <1>4, MaxIs DEF WholeUnits
<1> QED BY <1>5 DEF n

\* A tree is one in the sense of GraphIsATree.
LEMMA BuiltIsATree ==
  ASSUME NEW par, IsTree(graph, par)
  PROVE  GraphIsATree
<1> DEFINE L == Len(graph.nodes)
           I == 0 .. L - 1
<1>1. /\ L \in Nat /\ L >= 1
      /\ DOMAIN par = 1 .. L - 1
      /\ \A i \in DOMAIN par : par[i] \in Nat /\ par[i] < i
      /\ DOMAIN graph.nodes = 1 .. L
  BY TreeLength
<1>2. /\ ToSet(graph.nodes) = {Vertex(graph, i) : i \in I}
      /\ \A i \in I : Vertex(graph, i).id = i
  BY TreeVertices
<1> HIDE DEF L
<1>3. ASSUME NEW p \in 1 .. L
      PROVE  p - 1 \in I /\ graph.nodes[p] = Vertex(graph, p - 1)
  <2>1. p - 1 \in I /\ (p - 1) + 1 = p
    BY <1>1
  <2> QED BY <2>1 DEF Vertex
<1>4. \A p \in DOMAIN graph.nodes : graph.nodes[p].id = p - 1
  BY <1>1, <1>2, <1>3
<1>5. Parents(graph.nodes[1]) = {}
  <2>1. 1 \in 1 .. L /\ 0 \in I
    BY <1>1
  <2>2. graph.nodes[1] = Vertex(graph, 0)
    BY <1>3, <2>1
  <2>3. Parents(Vertex(graph, 0)) = {}
    BY <2>1, TreeParents DEF L
  <2> QED BY <2>2, <2>3
<1>6. ASSUME NEW p \in 2 .. L
      PROVE  \E u \in ToSet(graph.nodes) :
                /\ Parents(graph.nodes[p]) = {u}
                /\ u.id < graph.nodes[p].id
                /\ <<u.id, graph.nodes[p].id, "contains">> \in graph.edges
  <2> DEFINE i == p - 1
             u == Vertex(graph, par[i])
  <2>1. p \in 1 .. L /\ i \in I /\ i # 0 /\ i \in DOMAIN par
    BY <1>1
  <2>2. graph.nodes[p] = Vertex(graph, i)
    BY <1>3, <2>1
  <2>3. par[i] \in I /\ par[i] < i
    BY <1>1, <2>1
  <2> HIDE DEF i
  <2>4. Parents(Vertex(graph, i)) = {u}
    BY <2>1, TreeParents DEF L
  <2>5. <<par[i], i, "contains">> \in graph.edges
    BY <2>1, <2>3, TreeEdges DEF L
  <2>6. u \in ToSet(graph.nodes) /\ u.id = par[i] /\ Vertex(graph, i).id = i
    BY <1>2, <2>1, <2>3
  <2> HIDE DEF u
  <2> QED BY <2>2, <2>3, <2>4, <2>5, <2>6
<1> QED BY <1>4, <1>5, <1>6 DEF GraphIsATree, L

\* A graph of the nodes that were seen has what is due to each.
LEMMA BuiltCovers ==
  ASSUME NEW par, NEW at, Built(graph, par, at, cluster, seen), NamesDiffer,
         NEW k \in DOMAIN seen,
         cluster[k].cpu \in Nat, cluster[k].mem \in Nat,
         seen[k].cpu \in Nat, seen[k].mem \in Nat
  PROVE  \E v \in Compute, z \in ToSet(graph.nodes) :
              /\ v.basename = cluster[k].name
              /\ Parents(v) = {z} /\ z.type = "subnet" /\ z.basename = cluster[k].zone
              /\ Below(v, "core") = WholeUnits(cluster[k].cpu, seen[k].cpu, 1000)
              /\ Below(v, "memory") = WholeUnits(cluster[k].mem, seen[k].mem, 1024)
              /\ Below(v, "gpu") = cluster[k].gpu
<1> DEFINE i == at[k]
           v == Vertex(graph, i)
           z == Vertex(graph, i - 1)
           I == 0 .. Len(graph.nodes) - 1
<1>1. IsTree(graph, par) /\ NodeAt(graph, par, i, cluster[k], seen[k])
  BY DEF Built
<1>2. i \in I /\ i - 1 \in I /\ i # 0 /\ par[i] = i - 1
  <2>1. Len(graph.nodes) \in Nat /\ i \in 2 .. Len(graph.nodes) - 1 /\ par[i] = i - 1
    BY <1>1, TreeLength DEF NodeAt
  <2> QED BY <2>1
<1>3. v \in Compute
  BY BuiltCompute
<1>4. z \in ToSet(graph.nodes)
  BY <1>1, <1>2, TreeVertices
<1>5. Parents(v) = {z}
  <2> HIDE DEF i, I
  <2>1. Parents(Vertex(graph, i)) = {Vertex(graph, par[i])}
    BY <1>1, <1>2, TreeParents DEF I
  <2> QED BY <1>2, <2>1
<1>6. \A type : Below(v, type) = Cardinality(ChildrenOf(graph, par, i, type))
  BY <1>1, <1>2, TreeBelow
<1>7. /\ WholeUnits(cluster[k].cpu, seen[k].cpu, 1000) = Natural(availCpu(cluster[k], seen[k]))
      /\ WholeUnits(cluster[k].mem, seen[k].mem, 1024) = Natural(availMem(cluster[k], seen[k]))
  BY WholeCores, WholeGiB
<1>8. /\ v.basename = cluster[k].name
      /\ z.type = "subnet" /\ z.basename = cluster[k].zone
      /\ Cardinality(ChildrenOf(graph, par, i, "gpu")) = cluster[k].gpu
      /\ Cardinality(ChildrenOf(graph, par, i, "core")) = Natural(availCpu(cluster[k], seen[k]))
      /\ Cardinality(ChildrenOf(graph, par, i, "memory")) = Natural(availMem(cluster[k], seen[k]))
  BY <1>1 DEF NodeAt
<1> HIDE DEF v, z
<1> QED BY <1>3, <1>4, <1>5, <1>6, <1>7, <1>8

-----------------------------------------------------------------------------
(* The answer: the cores of each node, then the node.                      *)

\* A finite set as a sequence.
LEMMA SetToSeqIs ==
  ASSUME NEW S, IsFiniteSet(S)
  PROVE  /\ SetToSeq(S) \in [1 .. Cardinality(S) -> S]
         /\ IsInjective(SetToSeq(S))
         /\ \A x \in S : \E i \in 1 .. Cardinality(S) : SetToSeq(S)[i] = x
<1> DEFINE n == Cardinality(S)
<1>1. n \in Nat /\ ExistsBijection(1 .. n, S)
  BY FS_CardinalityType
<1>2. PICK f : f \in Bijection(1 .. n, S)
  BY <1>1 DEF ExistsBijection
<1>3. f \in [1 .. n -> S] /\ IsInjective(f)
  BY <1>2 DEF Bijection, Injection, IsInjective
<1> DEFINE s == SetToSeq(S)
<1>4. s \in [1 .. n -> S] /\ IsInjective(s)
  BY <1>3 DEF SetToSeq
<1> HIDE DEF s, n
<1>5. s \in Injection(1 .. n, S)
  BY <1>4 DEF Injection, IsInjective
<1>6. IsFiniteSet(1 .. n) /\ Cardinality(1 .. n) = n
  BY <1>1, FS_Interval
<1>7. s \in Surjection(1 .. n, S)
  BY <1>5, <1>6, FS_Injection DEF n
<1> QED BY <1>4, <1>7 DEF Surjection, s, n

\* The first n nodes of used and their cores, node j at position pos[j].
LaidOut(list, n, pos, used, chosen) ==
    /\ list \in Seq(ToSet(graph.nodes))
    /\ pos \in [0 .. n -> Nat]
    /\ pos[0] = 0 /\ pos[n] = Len(list)
    /\ \A j \in 1 .. n : /\ list[pos[j]] = used[j]
                         /\ pos[j] = pos[j - 1] + Cardinality(chosen[used[j]]) + 1
    /\ \A i, j \in 0 .. n : i < j => pos[i] < pos[j]
    /\ \A m \in 1 .. Len(list) :
          (\A j \in 1 .. n : m # pos[j]) => list[m].type = "core"

\* The cores of one more node, and the node.
LEMMA LaidOutMore ==
  ASSUME NEW list, NEW n \in Nat, NEW pos, NEW used, NEW chosen,
         LaidOut(list, n, pos, used, chosen),
         NEW C, C = chosen[used[n + 1]], C \subseteq ToSet(graph.nodes), IsFiniteSet(C),
         \A c \in C : c.type = "core",
         used[n + 1] \in ToSet(graph.nodes)
  PROVE  \E q : LaidOut(list \o (SetToSeq(C) \o <<used[n + 1]>>), n + 1, q, used, chosen)
<1> DEFINE V == ToSet(graph.nodes)
           v == used[n + 1]
           s == SetToSeq(C)
           b == s \o <<v>>
           all == list \o b
           l == Len(list)
           k == Cardinality(C)
           q == [j \in 0 .. n + 1 |-> IF j = n + 1 THEN l + k + 1 ELSE pos[j]]
<1>1. /\ list \in Seq(V) /\ l \in Nat
      /\ pos \in [0 .. n -> Nat] /\ pos[0] = 0 /\ pos[n] = l
      /\ \A j \in 1 .. n : /\ list[pos[j]] = used[j]
                           /\ pos[j] = pos[j - 1] + Cardinality(chosen[used[j]]) + 1
      /\ \A i, j \in 0 .. n : i < j => pos[i] < pos[j]
      /\ \A m \in 1 .. l : (\A j \in 1 .. n : m # pos[j]) => list[m].type = "core"
  BY DEF LaidOut
<1>2. k \in Nat
  BY FS_CardinalityType
<1>3. s \in Seq(V) /\ Len(s) = k /\ \A i \in 1 .. k : s[i].type = "core"
  <2>1. s \in [1 .. k -> C]
    BY SetToSeqIs
  <2> HIDE DEF s, k, V
  <2>2. s \in [1 .. k -> V]
    BY <2>1 DEF V
  <2> QED BY <1>2, <2>1, <2>2
<1> HIDE DEF s, k, V
<1>4. v \in V
  BY DEF V
<1> HIDE DEF v
<1>5. /\ b \in Seq(V) /\ Len(b) = k + 1
      /\ \A i \in 1 .. k : b[i] = s[i]
      /\ b[k + 1] = v
  BY <1>2, <1>3, <1>4
<1> HIDE DEF b, l
<1>6. /\ all \in Seq(V) /\ Len(all) = l + k + 1
      /\ \A i \in 1 .. l : all[i] = list[i]
      /\ \A i \in l + 1 .. l + k + 1 : all[i] = b[i - l]
  <2>1. /\ list \o b \in Seq(V) /\ Len(list \o b) = Len(list) + Len(b)
        /\ \A i \in 1 .. Len(list) + Len(b) :
              (list \o b)[i] = IF i <= Len(list) THEN list[i] ELSE b[i - Len(list)]
    BY <1>1, <1>5, ConcatProperties
  <2>2. /\ all \in Seq(V) /\ Len(all) = l + (k + 1)
        /\ \A i \in 1 .. l + (k + 1) : all[i] = IF i <= l THEN list[i] ELSE b[i - l]
    BY <1>5, <2>1 DEF l
  <2> HIDE DEF all
  <2> QED BY <1>1, <1>2, <2>2
<1> HIDE DEF all
<1>7. all[l + k + 1] = v
  <2>1. l + k + 1 \in l + 1 .. l + k + 1 /\ (l + k + 1) - l = k + 1
    BY <1>1, <1>2
  <2> QED BY <1>5, <1>6, <2>1
<1>8. \A i \in l + 1 .. l + k : all[i].type = "core"
  <2>1. \A i \in l + 1 .. l + k : i - l \in 1 .. k /\ i \in l + 1 .. l + k + 1
    BY <1>1, <1>2
  <2>2. \A i \in l + 1 .. l + k : all[i] = b[i - l] /\ b[i - l] = s[i - l]
    BY <1>5, <1>6, <2>1
  <2> QED BY <1>3, <2>1, <2>2
<1>9. /\ q \in [0 .. n + 1 -> Nat] /\ q[0] = 0 /\ q[n + 1] = l + k + 1
      /\ \A j \in 0 .. n : q[j] = pos[j]
  BY <1>1, <1>2
<1> HIDE DEF q
<1>10. ASSUME NEW j \in 1 .. n + 1
       PROVE  /\ all[q[j]] = used[j]
              /\ q[j] = q[j - 1] + Cardinality(chosen[used[j]]) + 1
  <2>1. CASE j = n + 1
    <3>1. q[j - 1] = l
      BY <1>1, <1>9, <2>1
    <3>2. Cardinality(chosen[used[j]]) = k /\ used[j] = v
      BY <2>1 DEF k, v
    <3> QED BY <1>1, <1>2, <1>7, <1>9, <2>1, <3>1, <3>2
  <2>2. CASE j # n + 1
    <3>1. j \in 1 .. n /\ j \in 0 .. n /\ j - 1 \in 0 .. n
      BY <2>2
    <3>2. pos[j] \in 1 .. l
      <4>1. pos[0] < pos[j] /\ (j = n \/ pos[j] < pos[n]) /\ pos[j] \in Nat
        BY <1>1, <3>1
      <4>2. pos[0] = 0 /\ pos[n] = l /\ l \in Nat
        BY <1>1
      <4> QED BY <4>1, <4>2
    <3>3. q[j] = pos[j] /\ q[j - 1] = pos[j - 1]
      BY <1>9, <3>1
    <3>4. all[pos[j]] = list[pos[j]]
      BY <1>6, <3>2
    <3>5. list[pos[j]] = used[j] /\ pos[j] = pos[j - 1] + Cardinality(chosen[used[j]]) + 1
      BY <1>1, <3>1
    <3> QED BY <3>3, <3>4, <3>5
  <2> QED BY <2>1, <2>2
<1>11. ASSUME NEW i \in 0 .. n + 1, NEW j \in 0 .. n + 1, i < j
       PROVE  q[i] < q[j]
  <2>1. i \in 0 .. n /\ (i = n \/ i < n) /\ n \in 0 .. n
    BY <1>11
  <2>2. pos[i] <= l /\ q[i] = pos[i] /\ pos[i] \in Nat
    BY <1>1, <1>9, <2>1
  <2>3. CASE j = n + 1
    BY <1>1, <1>2, <1>9, <2>2, <2>3
  <2>4. CASE j # n + 1
    <3>1. j \in 0 .. n
      BY <2>4
    <3> QED BY <1>1, <1>9, <1>11, <2>1, <2>2, <3>1
  <2> QED BY <2>3, <2>4
<1>12. ASSUME NEW m \in 1 .. l + k + 1, \A j \in 1 .. n + 1 : m # q[j]
       PROVE  all[m].type = "core"
  <2>1. m # l + k + 1
    <3>1. n + 1 \in 1 .. n + 1
      OBVIOUS
    <3> QED BY <1>9, <1>12, <3>1
  <2>2. CASE m \in 1 .. l
    <3>1. \A j \in 1 .. n : j \in 1 .. n + 1 /\ j \in 0 .. n
      OBVIOUS
    <3>2. \A j \in 1 .. n : m # pos[j]
      BY <1>9, <1>12, <3>1
    <3>3. list[m].type = "core"
      BY <1>1, <2>2, <3>2
    <3>4. all[m] = list[m]
      BY <1>6, <2>2
    <3> QED BY <3>3, <3>4
  <2>3. CASE m \in l + 1 .. l + k
    BY <1>8, <2>3
  <2>4. m \in 1 .. l \/ m \in l + 1 .. l + k
    <3>1. l \in Nat /\ k \in Nat
      BY <1>1, <1>2
    <3> QED BY <2>1, <3>1
  <2> QED BY <2>2, <2>3, <2>4
<1>13. LaidOut(all, n + 1, q, used, chosen)
  BY <1>6, <1>9, <1>10, <1>11, <1>12 DEF LaidOut, V
<1> QED BY <1>13 DEF all, b, s, v

\* The recursion of FlattenSeq.
Flattens(seqs, n, f) ==
    f = [i \in 1 .. n |-> IF i = 1 THEN seqs[i] ELSE f[i - 1] \o seqs[i]]

\* The recursive function that flattens sequences is defined.
LEMMA FlattenExists ==
  ASSUME NEW seqs, NEW n \in Nat
  PROVE  \E f : Flattens(seqs, n, f)
<1> DEFINE Good == {k \in 0 .. n : \E f : Flattens(seqs, k, f)}
<1>1. 0 \in Good
  <2> DEFINE f == [i \in 1 .. 0 |-> {}]
  <2>1. \A i \in 1 .. 0 : FALSE
    OBVIOUS
  <2>2. f = [i \in 1 .. 0 |-> IF i = 1 THEN seqs[i] ELSE f[i - 1] \o seqs[i]]
    BY <2>1
  <2> HIDE DEF f
  <2>3. Flattens(seqs, 0, f)
    BY <2>2 DEF Flattens
  <2> QED BY <2>3
<1>2. ASSUME NEW k \in 0 .. n - 1, k \in Good PROVE k + 1 \in Good
  <2>1. PICK f : Flattens(seqs, k, f)
    BY <1>2
  <2> DEFINE e == [i \in 1 .. k + 1 |->
                     IF i = k + 1 THEN IF i = 1 THEN seqs[i] ELSE f[k] \o seqs[i]
                     ELSE f[i]]
  <2>2. f = [i \in 1 .. k |-> IF i = 1 THEN seqs[i] ELSE f[i - 1] \o seqs[i]]
    BY <2>1 DEF Flattens
  <2>3. ASSUME NEW i \in 1 .. k + 1
        PROVE  e[i] = IF i = 1 THEN seqs[i] ELSE e[i - 1] \o seqs[i]
    <3>1. CASE i = k + 1
      <4>1. CASE i = 1
        BY <3>1, <4>1
      <4>2. CASE i # 1
        <5>1. i - 1 = k /\ i - 1 \in 1 .. k + 1 /\ k # k + 1
          BY <3>1, <4>2
        <5>2. e[i - 1] = f[k]
          BY <5>1
        <5> QED BY <3>1, <4>2, <5>2
      <4> QED BY <4>1, <4>2
    <3>2. CASE i # k + 1
      <4>1. i \in 1 .. k
        BY <3>2
      <4>2. e[i] = f[i]
        BY <3>2
      <4>3. CASE i = 1
        BY <2>2, <4>1, <4>2, <4>3
      <4>4. CASE i # 1
        <5>1. i - 1 \in 1 .. k + 1 /\ i - 1 # k + 1
          BY <4>1, <4>4
        <5>2. e[i - 1] = f[i - 1]
          BY <5>1
        <5> HIDE DEF e
        <5> QED BY <2>2, <4>1, <4>2, <4>4, <5>2
      <4> QED BY <4>3, <4>4
    <3> QED BY <3>1, <3>2
  <2>4. e = [i \in 1 .. k + 1 |-> e[i]]
    OBVIOUS
  <2> HIDE DEF e
  <2>5. Flattens(seqs, k + 1, e)
    BY <2>3, <2>4 DEF Flattens
  <2> QED BY <2>5
<1> HIDE DEF Good
<1>3. 0 .. n \subseteq Good
  BY <1>1, <1>2, NextNumber
<1>4. n \in Good
  BY <1>3
<1> QED BY <1>4 DEF Good

\* The nodes some cores of which were chosen.
Used(chosen) == {v \in Compute : chosen[v] # {}}

\* The answer of Fluxion has the cores of each node right before it.
LEMMA AllocatedIsLaidOut ==
  ASSUME NEW chosen, IsFiniteSet(Compute),
         \A v \in Compute : /\ chosen[v] \subseteq ToSet(graph.nodes)
                            /\ IsFiniteSet(chosen[v])
                            /\ \A c \in chosen[v] : c.type = "core"
  PROVE  \E pos : LaidOut(Allocated(chosen), Cardinality(Used(chosen)), pos,
                          SetToSeq(Used(chosen)), chosen)
<1> DEFINE V == ToSet(graph.nodes)
           U == Used(chosen)
           n == Cardinality(U)
           used == SetToSeq(U)
           block(i) == SetToSeq(chosen[used[i]]) \o <<used[i]>>
           seqs == [i \in 1 .. Len(used) |-> block(i)]
           f == CHOOSE x : Flattens(seqs, n, x)
           upto(i) == IF i = 0 THEN <<>> ELSE f[i]
           Good == {i \in 0 .. n : \E pos : LaidOut(upto(i), i, pos, used, chosen)}
<1>1. IsFiniteSet(U) /\ U \subseteq Compute /\ Compute \subseteq V
  <2>1. U \in SUBSET Compute
    BY DEF Used
  <2>2. IsFiniteSet(U)
    BY <2>1, FS_Subset
  <2> QED BY <2>1, <2>2 DEF Compute
<1>2. n \in Nat
  BY <1>1, FS_CardinalityType
<1>3. used \in [1 .. n -> U]
  BY <1>1, SetToSeqIs
<1> HIDE DEF U, n, used
<1>4. Len(used) = n
  <2>1. used \in Seq(U)
    BY <1>2, <1>3
  <2> QED BY <1>2, <1>3, <2>1
<1>5. ASSUME NEW i \in 1 .. n
      PROVE  /\ used[i] \in V /\ chosen[used[i]] \subseteq V
             /\ IsFiniteSet(chosen[used[i]])
             /\ \A c \in chosen[used[i]] : c.type = "core"
             /\ block(i) \in Seq(V)
  <2>1. used[i] \in Compute
    BY <1>1, <1>3
  <2>2. /\ used[i] \in V /\ chosen[used[i]] \subseteq V
        /\ IsFiniteSet(chosen[used[i]])
        /\ \A c \in chosen[used[i]] : c.type = "core"
    BY <1>1, <2>1
  <2> DEFINE C == chosen[used[i]]  k == Cardinality(C)  v == used[i]
  <2>3. k \in Nat /\ SetToSeq(C) \in [1 .. k -> C]
    BY <2>2, SetToSeqIs, FS_CardinalityType
  <2>4. C \subseteq V /\ v \in V
    BY <2>2
  <2> HIDE DEF C, k, v, V
  <2>5. SetToSeq(C) \in [1 .. k -> V]
    BY <2>3, <2>4
  <2>6. SetToSeq(C) \in Seq(V) /\ <<v>> \in Seq(V)
    BY <2>3, <2>4, <2>5
  <2>7. SetToSeq(C) \o <<v>> \in Seq(V)
    BY <2>6, ConcatProperties
  <2> QED BY <2>2, <2>7 DEF C, v, V
<1> HIDE DEF V
<1>6. /\ \A i \in 1 .. n : seqs[i] = block(i) /\ seqs[i] \in Seq(V)
      /\ DOMAIN seqs = 1 .. n /\ Len(seqs) = n
  <2>1. /\ \A i \in 1 .. n : seqs[i] = block(i)
        /\ DOMAIN seqs = 1 .. n
    BY <1>4
  <2>2. seqs \in [1 .. n -> Seq(V)]
    <3>1. \A i \in 1 .. n : block(i) \in Seq(V)
      BY <1>5
    <3> HIDE DEF block
    <3> QED BY <1>4, <3>1
  <2> HIDE DEF seqs, block
  <2>3. Len(seqs) = n
    <3>1. seqs \in Seq(Seq(V))
      BY <1>2, <2>2
    <3> QED BY <1>2, <2>1, <3>1
  <2> QED BY <2>1, <2>2, <2>3
<1>7. Allocated(chosen) = FlattenSeq(seqs)
  BY DEF Allocated, Used, used, U
<1> HIDE DEF seqs
<1>8. Flattens(seqs, n, f)
  <2>1. \E x : Flattens(seqs, n, x)
    BY <1>2, FlattenExists
  <2> QED BY <2>1
<1>9. Allocated(chosen) = IF n = 0 THEN seqs ELSE f[n]
  BY <1>6, <1>7 DEF FlattenSeq, Flattens
<1> HIDE DEF f
<1>10. LaidOut(<<>>, 0, [i \in 0 .. 0 |-> 0], used, chosen)
  <2>1. Len(<<>>) = 0 /\ <<>> \in Seq(ToSet(graph.nodes))
    OBVIOUS
  <2> QED BY <2>1 DEF LaidOut
<1>11. 0 \in Good
  BY <1>2, <1>10
<1>12. ASSUME NEW k \in 0 .. n - 1, k \in Good PROVE k + 1 \in Good
  <2>1. PICK pos : LaidOut(upto(k), k, pos, used, chosen)
    BY <1>12
  <2>2. k + 1 \in 1 .. n /\ k \in Nat /\ k + 1 # 0
    BY <1>2
  <2>3. upto(k + 1) = upto(k) \o block(k + 1)
    <3>1. f[k + 1] = IF k + 1 = 1 THEN seqs[k + 1] ELSE f[(k + 1) - 1] \o seqs[k + 1]
      BY <1>8, <2>2 DEF Flattens
    <3>2. seqs[k + 1] = block(k + 1) /\ block(k + 1) \in Seq(V)
      BY <1>5, <1>6, <2>2
    <3> HIDE DEF block
    <3>3. CASE k = 0
      <4>1. upto(k + 1) = block(k + 1) /\ upto(k) = <<>>
        BY <3>1, <3>2, <3>3
      <4>2. <<>> \o block(k + 1) = block(k + 1)
        BY <3>2, ConcatEmptySeq
      <4> QED BY <4>1, <4>2
    <3>4. CASE k # 0
      <4>1. (k + 1) - 1 = k /\ k + 1 # 1
        BY <2>2, <3>4
      <4> QED BY <2>2, <3>1, <3>2, <3>4, <4>1
    <3> QED BY <3>3, <3>4
  <2> HIDE DEF upto
  <2> DEFINE C == chosen[used[k + 1]]
  <2>4. /\ C \subseteq ToSet(graph.nodes) /\ IsFiniteSet(C)
        /\ \A c \in C : c.type = "core"
        /\ used[k + 1] \in ToSet(graph.nodes)
    BY <1>5, <2>2 DEF V
  <2>5. \E q : LaidOut(upto(k) \o (SetToSeq(C) \o <<used[k + 1]>>), k + 1, q, used, chosen)
    <3> HIDE DEF C
    <3>1. C = chosen[used[k + 1]]
      BY DEF C
    <3> QED BY <2>1, <2>2, <2>4, <3>1, LaidOutMore
  <2>6. \E q : LaidOut(upto(k + 1), k + 1, q, used, chosen)
    BY <2>3, <2>5
  <2> QED BY <2>2, <2>6
<1> HIDE DEF Good
<1>13. 0 .. n \subseteq Good
  BY <1>2, <1>11, <1>12, NextNumber
<1>14. n \in Good
  BY <1>2, <1>13
<1>15. PICK pos : LaidOut(upto(n), n, pos, used, chosen)
  BY <1>14 DEF Good
<1>16. Allocated(chosen) = upto(n)
  <2>1. n = 0 => seqs = <<>>
    BY <1>6
  <2> QED BY <1>9, <2>1
<1> HIDE DEF upto
<1> QED BY <1>15, <1>16 DEF n, used, U

\* The entries since the node before are the cores of the node.
LEMMA Parsed ==
  ASSUME NEW list, NEW n \in Nat, NEW pos, NEW used, NEW chosen,
         LaidOut(list, n, pos, used, chosen),
         \A j \in 1 .. n : /\ used[j].type = "node"
                           /\ Cardinality(chosen[used[j]]) \in Nat
  PROVE  LET result == ParseAllocResult(list)
         IN  /\ \A i \in DOMAIN result : \E j \in 1 .. n : i = pos[j]
             /\ \A j \in 1 .. n : pos[j] \in DOMAIN result
             /\ \A j \in 1 .. n :
                   result[pos[j]] = [node  |-> used[j].basename,
                                     cores |-> Cardinality(chosen[used[j]])]
<1> DEFINE l == Len(list)
           since(m, i) == \A x \in m .. i - 1 : list[x].type = "core"
           corecount(i) == Cardinality({m \in 1 .. i - 1 : since(m, i)})
           D == {i \in DOMAIN list : list[i].type = "node"}
           result == ParseAllocResult(list)
<1>1. /\ DOMAIN list = 1 .. l /\ l \in Nat
      /\ pos \in [0 .. n -> Nat] /\ pos[0] = 0 /\ pos[n] = l
      /\ \A j \in 1 .. n : /\ list[pos[j]] = used[j]
                           /\ pos[j] = pos[j - 1] + Cardinality(chosen[used[j]]) + 1
      /\ \A i, j \in 0 .. n : i < j => pos[i] < pos[j]
      /\ \A m \in 1 .. l : (\A j \in 1 .. n : m # pos[j]) => list[m].type = "core"
  BY DEF LaidOut
<1>2. result = [i \in D |-> [node |-> list[i].basename, cores |-> corecount(i)]]
  BY DEF ParseAllocResult
<1> HIDE DEF l, result
<1>3. ASSUME NEW j \in 1 .. n
      PROVE  /\ pos[j] \in 1 .. l /\ list[pos[j]].type = "node"
             /\ j - 1 \in 0 .. n /\ pos[j - 1] \in Nat /\ pos[j - 1] < pos[j]
  <2>1. j - 1 \in 0 .. n /\ j \in 0 .. n /\ 0 \in 0 .. n /\ n \in 0 .. n /\ j - 1 < j
    OBVIOUS
  <2>2. pos[0] < pos[j] /\ (j = n \/ pos[j] < pos[n])
    BY <1>1, <2>1
  <2>3. pos[j - 1] < pos[j] /\ pos[j - 1] \in Nat /\ pos[j] \in Nat
    BY <1>1, <2>1
  <2>4. list[pos[j]].type = "node"
    <3>1. list[pos[j]] = used[j]
      BY <1>1
    <3> QED BY <3>1
  <2>5. pos[j] \in 1 .. l
    <3>1. pos[0] = 0 /\ pos[n] = l /\ l \in Nat
      BY <1>1
    <3> QED BY <2>2, <2>3, <3>1
  <2> QED BY <2>1, <2>3, <2>4, <2>5
<1>4. D = {pos[j] : j \in 1 .. n}
  <2>1. ASSUME NEW m \in D PROVE \E j \in 1 .. n : m = pos[j]
    <3>1. m \in 1 .. l /\ list[m].type # "core"
      BY <1>1
    <3> QED BY <1>1, <3>1
  <2>2. \A j \in 1 .. n : pos[j] \in D
    BY <1>1, <1>3
  <2> HIDE DEF D
  <2> QED BY <2>1, <2>2
<1>5. ASSUME NEW j \in 1 .. n
      PROVE  corecount(pos[j]) = Cardinality(chosen[used[j]])
  <2> DEFINE a == pos[j - 1]
             b == pos[j]
             k == Cardinality(chosen[used[j]])
             S == {m \in 1 .. b - 1 : since(m, b)}
  <2>1. /\ a \in Nat /\ b \in 1 .. l /\ a < b /\ k \in Nat
        /\ b = a + k + 1
    BY <1>1, <1>3
  <2>2. ASSUME NEW x \in a + 1 .. b - 1 PROVE list[x].type = "core"
    <3>1. x \in 1 .. l
      <4> HIDE DEF a, b, k
      <4> QED BY <1>1, <2>1
    <3>2. ASSUME NEW i \in 1 .. n PROVE x # pos[i]
      <4>0. i \in 0 .. n /\ j \in 0 .. n /\ j - 1 \in 0 .. n
        OBVIOUS
      <4>1. i \in 0 .. n /\ j \in 0 .. n /\ j - 1 \in 0 .. n /\ pos[i] \in Nat
        BY <1>1, <4>0
      <4>2. i < j - 1 => pos[i] < a
        BY <1>1, <4>1
      <4>3. j < i => b < pos[i]
        BY <1>1, <4>1
      <4>4. i < j - 1 \/ i = j - 1 \/ i = j \/ j < i
        OBVIOUS
      <4> HIDE DEF b, a
      <4>5. (i = j - 1 => pos[i] = a) /\ (i = j => pos[i] = b)
        BY DEF a, b
      <4> QED BY <2>1, <4>1, <4>2, <4>3, <4>4, <4>5
    <3> QED BY <1>1, <3>1, <3>2
  <2>3. ASSUME NEW m \in 1 .. b - 1, m <= a PROVE ~ since(m, b)
    <3>1. j - 1 # 0
      BY <1>1, <2>1, <2>3
    <3>2. j - 1 \in 1 .. n
      BY <3>1
    <3>3. list[a].type = "node"
      BY <1>3, <3>2
    <3>4. a \in m .. b - 1
      BY <2>1, <2>3
    <3> HIDE DEF a, b
    <3> QED BY <3>3, <3>4
  <2> HIDE DEF a, b, k
  <2>4. S = a + 1 .. b - 1
    <3>1. ASSUME NEW m \in a + 1 .. b - 1 PROVE m \in 1 .. b - 1 /\ since(m, b)
      <4>1. m \in 1 .. b - 1 /\ \A x \in m .. b - 1 : x \in a + 1 .. b - 1
        BY <2>1
      <4> QED BY <2>2, <4>1
    <3>2. ASSUME NEW m \in 1 .. b - 1, since(m, b) PROVE m \in a + 1 .. b - 1
      <4>1. ~(m <= a)
        BY <2>3, <3>2
      <4> QED BY <2>1, <4>1
    <3> HIDE DEF since
    <3> QED BY <3>1, <3>2
  <2>5. Cardinality(a + 1 .. b - 1) = k
    <3>1. a + 1 \in Int /\ b - 1 \in Int
      BY <2>1
    <3>2. Cardinality(a + 1 .. b - 1) = IF a + 1 > b - 1 THEN 0 ELSE (b - 1) - (a + 1) + 1
      BY <3>1, FS_Interval
    <3> QED BY <2>1, <3>2
  <2> QED BY <2>4, <2>5 DEF a, b, k
<1>6. /\ \A i \in DOMAIN result : \E j \in 1 .. n : i = pos[j]
      /\ \A j \in 1 .. n : pos[j] \in DOMAIN result
  BY <1>2, <1>4
<1>7. ASSUME NEW j \in 1 .. n
      PROVE  result[pos[j]] = [node  |-> used[j].basename,
                               cores |-> Cardinality(chosen[used[j]])]
  <2>1. pos[j] \in D
    BY <1>4
  <2>2. list[pos[j]] = used[j]
    BY <1>1
  <2> HIDE DEF D, corecount
  <2> QED BY <1>2, <1>5, <2>1, <2>2
<1> QED BY <1>6, <1>7 DEF result

\* The reply names each node that is used, once, with the tasks for its cores.
LEMMA Answer ==
  ASSUME NEW chosen, IsFiniteSet(Compute),
         \A v \in Compute : /\ chosen[v] \subseteq ToSet(graph.nodes)
                            /\ IsFiniteSet(chosen[v])
                            /\ \A c \in chosen[v] : c.type = "core",
         NEW cpu
  PROVE  LET list == NodeList(chosen, cpu)
         IN  /\ IsFiniteSet(DOMAIN list)
             /\ \E h \in [DOMAIN list -> Used(chosen)] :
                   /\ \A i, j \in DOMAIN list : h[i] = h[j] => i = j
                   /\ \A v \in Used(chosen) : \E i \in DOMAIN list : h[i] = v
                   /\ \A i \in DOMAIN list :
                        /\ list[i].node = h[i].basename
                        /\ list[i].tasks = Cardinality(chosen[h[i]]) \div cpu
<1> DEFINE U == Used(chosen)
           n == Cardinality(U)
           used == SetToSeq(U)
           all == Allocated(chosen)
           result == ParseAllocResult(all)
           list == NodeList(chosen, cpu)
           h == [i \in DOMAIN list |-> all[i]]
<1>1. IsFiniteSet(U) /\ U \subseteq Compute /\ \A v \in U : v.type = "node"
  <2>1. U \in SUBSET Compute
    BY DEF Used
  <2>2. IsFiniteSet(U)
    BY <2>1, FS_Subset
  <2> QED BY <2>1, <2>2 DEF Compute
<1>2. /\ n \in Nat /\ used \in [1 .. n -> U] /\ IsInjective(used)
      /\ \A v \in U : \E j \in 1 .. n : used[j] = v
  BY <1>1, SetToSeqIs, FS_CardinalityType
<1>3. PICK pos : LaidOut(all, n, pos, used, chosen)
  BY AllocatedIsLaidOut
<1>4. list = [i \in DOMAIN result |-> [node  |-> result[i].node,
                                       tasks |-> result[i].cores \div cpu]]
  BY DEF NodeList
<1> HIDE DEF U, n, used, all
<1>5. \A j \in 1 .. n : used[j] \in U /\ all[pos[j]] = used[j]
  BY <1>2, <1>3 DEF LaidOut
<1>6. /\ \A i \in DOMAIN result : \E j \in 1 .. n : i = pos[j]
      /\ \A j \in 1 .. n : pos[j] \in DOMAIN result
      /\ \A j \in 1 .. n :
            result[pos[j]] = [node  |-> used[j].basename,
                              cores |-> Cardinality(chosen[used[j]])]
  <2>1. \A j \in 1 .. n : /\ used[j].type = "node"
                          /\ Cardinality(chosen[used[j]]) \in Nat
    BY <1>1, <1>5, FS_CardinalityType
  <2>2. n \in Nat
    BY <1>2
  <2> HIDE DEF result
  <2>3. /\ \A i \in DOMAIN ParseAllocResult(all) : \E j \in 1 .. n : i = pos[j]
        /\ \A j \in 1 .. n : pos[j] \in DOMAIN ParseAllocResult(all)
        /\ \A j \in 1 .. n :
              ParseAllocResult(all)[pos[j]]
                 = [node  |-> used[j].basename, cores |-> Cardinality(chosen[used[j]])]
    BY <1>3, <2>1, <2>2, Parsed
  <2> QED BY <2>3 DEF result
<1> HIDE DEF result, list
<1>7. /\ \A i \in DOMAIN list : \E j \in 1 .. n : i = pos[j]
      /\ \A j \in 1 .. n : pos[j] \in DOMAIN list
  BY <1>4, <1>6
<1>8. \A j \in 1 .. n : h[pos[j]] = used[j]
  BY <1>5, <1>7
<1>9. \A j \in 1 .. n : /\ list[pos[j]].node = used[j].basename
                        /\ list[pos[j]].tasks = Cardinality(chosen[used[j]]) \div cpu
  <2> SUFFICES ASSUME NEW j \in 1 .. n
               PROVE  /\ list[pos[j]].node = used[j].basename
                      /\ list[pos[j]].tasks = Cardinality(chosen[used[j]]) \div cpu
    OBVIOUS
  <2>1. pos[j] \in DOMAIN result
    BY <1>6
  <2>2. /\ result[pos[j]].node = used[j].basename
        /\ result[pos[j]].cores = Cardinality(chosen[used[j]])
    <3>1. result[pos[j]] = [node  |-> used[j].basename,
                            cores |-> Cardinality(chosen[used[j]])]
      BY <1>6
    <3> QED BY <3>1
  <2>3. list[pos[j]] = [node  |-> result[pos[j]].node,
                        tasks |-> result[pos[j]].cores \div cpu]
    BY <1>4, <2>1
  <2> QED BY <2>2, <2>3
<1>10. h \in [DOMAIN list -> U]
  BY <1>5, <1>7
<1>11. \A i, j \in DOMAIN list : h[i] = h[j] => i = j
  <2>1. \A i, j \in 1 .. n : used[i] = used[j] => i = j
    BY <1>2 DEF IsInjective
  <2> HIDE DEF h
  <2> QED BY <1>7, <1>8, <2>1
<1> HIDE DEF h
<1>12. ASSUME NEW v \in U
       PROVE  \E i \in DOMAIN list : h[i] = v
  <2>1. PICK j \in 1 .. n : used[j] = v
    BY <1>2
  <2>2. pos[j] \in DOMAIN list /\ h[pos[j]] = used[j]
    BY <1>7, <1>8
  <2> QED BY <2>1, <2>2
<1>13. \A i \in DOMAIN list :
          /\ list[i].node = h[i].basename
          /\ list[i].tasks = Cardinality(chosen[h[i]]) \div cpu
  BY <1>7, <1>8, <1>9
<1>14. IsFiniteSet(DOMAIN list)
  <2>1. h \in Injection(DOMAIN list, U)
    BY <1>10, <1>11 DEF Injection, IsInjective
  <2> QED BY <1>1, <2>1, FS_Injection
<1> QED BY <1>10, <1>11, <1>12, <1>13, <1>14 DEF list, U

-----------------------------------------------------------------------------
(* A job that is matched.                                                  *)

\* The sum of a function is the total over its domain.
LEMMA SumIs == ASSUME NEW f PROVE Sum(f) = Total(f, DOMAIN f)
  BY DEF Sum, Total

\* The cpus that are asked for cover those of the containers.
LEMMA SpecCovers ==
  ASSUME NEW shape, shape.cpus \in Seq(Nat)
  PROVE  /\ PreparePodJobSpec(shape).cpu \in Nat \ {0}
         /\ Sum(shape.cpus) \in Nat
         /\ Sum(shape.cpus) <= 1000 * PreparePodJobSpec(shape).cpu
<1> DEFINE f == shape.cpus
           S == DOMAIN f
           e == [i \in S |-> (f[i] + 999) \div 1000]
           units == Total(e, S)
<1>1. IsFiniteSet(S)
  <2>1. S = 1 .. Len(f) /\ Len(f) \in Nat
    OBVIOUS
  <2> QED BY <2>1, FS_Interval
<1>2. \A i \in S : f[i] \in Nat /\ e[i] \in Nat /\ f[i] <= 1000 * e[i]
  <2>1. \A i \in S : f[i] \in Nat
    OBVIOUS
  <2>2. \A x \in Nat : (x + 999) \div 1000 \in Nat /\ x <= 1000 * ((x + 999) \div 1000)
    OBVIOUS
  <2> HIDE DEF f
  <2>3. \A i \in S : e[i] = (f[i] + 999) \div 1000
    OBVIOUS
  <2> HIDE DEF e, S
  <2> QED BY <2>1, <2>2, <2>3
<1>3. Sum(f) = Total(f, S) /\ Sum(e) = units
  <2> HIDE DEF f
  <2>1. DOMAIN e = S
    OBVIOUS
  <2> HIDE DEF e
  <2> QED BY <2>1, SumIs
<1>4. PreparePodJobSpec(shape).cpu = IF units = 0 THEN 1 ELSE units
  <2> DEFINE m == Sum([i \in DOMAIN shape.cpus |-> (shape.cpus[i] + 999) \div 1000])
  <2>1. m = units
    BY <1>3
  <2>2. PreparePodJobSpec(shape).cpu = IF m = 0 THEN 1 ELSE m
    BY DEF PreparePodJobSpec
  <2> HIDE DEF m, units
  <2> QED BY <2>1, <2>2
<1> HIDE DEF f, e, S
<1>5. units \in Nat /\ Total(f, S) \in Nat /\ Total(f, S) <= 1000 * units
  BY <1>1, <1>2, TotalNat, TotalBound
<1> HIDE DEF units
<1>6. Sum(shape.cpus) = Total(f, S)
  BY <1>3 DEF f
<1> QED BY <1>4, <1>5, <1>6

\* Each node gives free cores of its own, as many in all as the job asks for,
\* and only one does if the job is to be in one zone.
LEMMA ChosenCores ==
  ASSUME IsFiniteSet(Compute), \A v \in Compute : IsFiniteSet(CoresOf(v)),
         NEW js, js.slots \in Nat, js.core \in Nat, NEW chosen \in MatchAllocate(js)
  PROVE  /\ DOMAIN chosen = Compute
         /\ \A v \in Compute : chosen[v] \subseteq Free(v) /\ IsFiniteSet(chosen[v])
         /\ Total([v \in Compute |-> Cardinality(chosen[v])], Compute) = js.slots * js.core
         /\ js.zone => Cardinality(Used(chosen)) = 1
<1> DEFINE free == [v \in Compute |-> Free(v)]
           wanted == js.slots * js.core
<1>1. PICK t \in [Compute -> 0 .. wanted] :
         /\ \A v \in Compute : t[v] <= Cardinality(free[v])
         /\ Sum(t) = wanted
         /\ js.zone => Cardinality({v \in Compute : t[v] > 0}) = 1
         /\ chosen = [v \in Compute |-> CHOOSE cores \in kSubset(t[v], free[v]) : TRUE]
  BY DEF MatchAllocate
<1>2. wanted \in Nat
  <2>1. \A a, b \in Nat : a * b \in Nat
    OBVIOUS
  <2> QED BY <2>1
<1> HIDE DEF wanted
<1>3. ASSUME NEW v \in Compute
      PROVE  /\ chosen[v] \subseteq Free(v) /\ IsFiniteSet(chosen[v])
             /\ Cardinality(chosen[v]) = t[v]
  <2>1. IsFiniteSet(Free(v))
    <3>1. Free(v) \in SUBSET CoresOf(v)
      BY DEF Free
    <3> QED BY <3>1, FS_Subset
  <2>2. t[v] \in 0 .. Cardinality(Free(v))
    <3>1. t[v] \in Nat /\ t[v] <= Cardinality(Free(v)) /\ Cardinality(Free(v)) \in Nat
      BY <1>1, <1>2, <2>1, FS_CardinalityType
    <3> QED BY <3>1
  <2>3. \E T \in SUBSET Free(v) : Cardinality(T) = t[v]
    BY <2>1, <2>2, SubsetOfSize
  <2>4. chosen[v] \in kSubset(t[v], Free(v))
    <3>1. \E T : T \in kSubset(t[v], Free(v))
      BY <2>3 DEF kSubset
    <3>2. chosen[v] = CHOOSE cores \in kSubset(t[v], Free(v)) : TRUE
      BY <1>1
    <3> QED BY <3>1, <3>2
  <2>5. chosen[v] \in SUBSET Free(v) /\ Cardinality(chosen[v]) = t[v]
    BY <2>4 DEF kSubset
  <2> QED BY <2>1, <2>5, FS_Subset
<1>4. Total([v \in Compute |-> Cardinality(chosen[v])], Compute) = wanted
  <2> DEFINE e == [v \in Compute |-> Cardinality(chosen[v])]
  <2>1. \A v \in Compute : e[v] = t[v]
    BY <1>3
  <2>2. DOMAIN t = Compute /\ Sum(t) = Total(t, Compute)
    <3>1. DOMAIN t = Compute
      BY <1>1
    <3> QED BY <3>1, SumIs
  <2> HIDE DEF e
  <2>3. Total(e, Compute) = Total(t, Compute)
    BY <2>1, TotalsAgree
  <2> QED BY <1>1, <2>2, <2>3 DEF e
<1>5. DOMAIN chosen = Compute
  BY <1>1
<1>6. ASSUME js.zone
      PROVE  Cardinality(Used(chosen)) = 1
  <2>1. ASSUME NEW v \in Compute
        PROVE  chosen[v] # {} <=> t[v] > 0
    <3>1. chosen[v] = {} <=> Cardinality(chosen[v]) = 0
      BY <1>3, FS_EmptySet
    <3>2. t[v] \in Nat /\ Cardinality(chosen[v]) = t[v]
      BY <1>1, <1>2, <1>3
    <3> QED BY <3>1, <3>2
  <2>2. Used(chosen) = {v \in Compute : t[v] > 0}
    BY <2>1 DEF Used
  <2> QED BY <1>1, <1>6, <2>2
<1> QED BY <1>3, <1>4, <1>5, <1>6 DEF wanted

\* The tasks of an answer on a node are backed by cores of it.
OfItsCores(a, i) ==
    \E v \in Compute :
       /\ v.basename = a.list[i].node
       /\ a.list[i].tasks * a.cpu <= Cardinality(a.cores \cap CoresOf(v))

\* An allocation and the answer for it.
AllocOK(a) ==
    /\ a.cores \subseteq ToSet(graph.nodes)
    /\ a.cpu \in Nat \ {0} /\ a.milli \in Nat /\ a.milli <= 1000 * a.cpu
    /\ IsFiniteSet(DOMAIN a.list)
    /\ \A i, j \in DOMAIN a.list : a.list[i].node = a.list[j].node => i = j
    /\ \A i \in DOMAIN a.list : a.list[i].tasks \in Nat /\ OfItsCores(a, i)
    /\ Tasks(a) <= a.count
    /\ a.cpu = 1 \/ Cardinality(DOMAIN a.list) = 1 => Tasks(a) = a.count
    /\ a.zone => Cardinality(DOMAIN a.list) = 1

\* Division, for every divisor.
LEMMA Divided ==
  ASSUME NEW a \in Nat, NEW c \in Nat \ {0}
  PROVE  a \div c \in Nat /\ (a \div c) * c <= a
  OBVIOUS

\* A multiple is divided without a rest.
LEMMA DividedExactly ==
  ASSUME NEW n \in Nat, NEW c \in Nat \ {0}
  PROVE  (n * c) \div c = n
  OBVIOUS

\* A common factor is dropped.
LEMMA TimesLess ==
  ASSUME NEW m \in Nat, NEW n \in Nat, NEW c \in Nat \ {0}, m * c <= n * c
  PROVE  m <= n
  OBVIOUS

\* The allocation of a job and its answer.
Allocation(id, shape, count, chosen) ==
    LET spec == PreparePodJobSpec(shape)
    IN  [id |-> id, cores |-> UNION Range(chosen), count |-> count,
         cpu |-> spec.cpu, milli |-> Sum(shape.cpus),
         list |-> NodeList(chosen, spec.cpu), zone |-> "zone" \in spec.labels]

\* What MatchAllocate, ParseAllocResult and Match make of a job, whichever free
\* cores are chosen.
LEMMA MatchedOK ==
  ASSUME NEW par, NEW at, Built(graph, par, at, cluster, seen), NamesDiffer,
         NEW shape, shape.cpus \in Seq(Nat), NEW count \in Nat,
         NEW chosen \in MatchAllocate(CreateJobSpec(PreparePodJobSpec(shape), count)),
         NEW id
  PROVE  /\ AllocOK(Allocation(id, shape, count, chosen))
         /\ \A b \in allocs : Allocation(id, shape, count, chosen).cores \cap b.cores = {}
<1> DEFINE c == PreparePodJobSpec(shape).cpu
           js == CreateJobSpec(PreparePodJobSpec(shape), count)
           a == Allocation(id, shape, count, chosen)
           list == NodeList(chosen, c)
           U == Used(chosen)
           num == [v \in Compute |-> Cardinality(chosen[v])]
           D == DOMAIN list
           tasks == [i \in D |-> list[i].tasks]
<1>1. /\ c \in Nat \ {0} /\ Sum(shape.cpus) \in Nat /\ Sum(shape.cpus) <= 1000 * c
  BY SpecCovers
<1>2. /\ IsFiniteSet(Compute)
      /\ \A v, w \in Compute : v.basename = w.basename => v = w
  BY BuiltCompute
<1>3. \A v \in Compute : /\ CoresOf(v) \subseteq ToSet(graph.nodes)
                         /\ IsFiniteSet(CoresOf(v))
                         /\ \A x \in CoresOf(v) : x.type = "core"
  BY BuiltCores
<1> HIDE DEF c
<1>4. js.slots = count /\ js.core = c
  BY DEF CreateJobSpec, c
<1>5. /\ DOMAIN chosen = Compute
      /\ \A v \in Compute : chosen[v] \subseteq Free(v) /\ IsFiniteSet(chosen[v])
      /\ Total(num, Compute) = count * c
      /\ js.zone => Cardinality(U) = 1
  <2>1. /\ DOMAIN chosen = Compute
        /\ \A v \in Compute : chosen[v] \subseteq Free(v) /\ IsFiniteSet(chosen[v])
        /\ Total(num, Compute) = js.slots * js.core
        /\ js.zone => Cardinality(U) = 1
    <3>1. js.slots \in Nat /\ js.core \in Nat
      BY <1>1, <1>4
    <3> HIDE DEF js
    <3> QED BY <1>2, <1>3, <3>1, ChosenCores DEF js
  <2> QED BY <1>4, <2>1
<1>6. \A v \in Compute : /\ chosen[v] \subseteq CoresOf(v)
                         /\ chosen[v] \subseteq ToSet(graph.nodes)
                         /\ \A x \in chosen[v] : x.type = "core"
  BY <1>3, <1>5 DEF Free
<1>7. /\ IsFiniteSet(D)
      /\ \E h \in [D -> U] :
                   /\ \A i, j \in D : h[i] = h[j] => i = j
                   /\ \A v \in U : \E i \in D : h[i] = v
                   /\ \A i \in D :
                        /\ list[i].node = h[i].basename
                        /\ list[i].tasks = Cardinality(chosen[h[i]]) \div c
  BY <1>2, <1>5, <1>6, Answer
<1> HIDE DEF list
<1>8. PICK h \in [D -> U] :
         /\ \A i, j \in D : h[i] = h[j] => i = j
         /\ \A v \in U : \E i \in D : h[i] = v
         /\ \A i \in D : /\ list[i].node = h[i].basename
                         /\ list[i].tasks = Cardinality(chosen[h[i]]) \div c
  BY <1>7
<1>9. /\ a.cores = UNION Range(chosen) /\ a.count = count /\ a.cpu = c
      /\ a.milli = Sum(shape.cpus) /\ a.list = list /\ a.zone = js.zone
  BY DEF Allocation, CreateJobSpec, c, list
<1> HIDE DEF a
<1>10. a.cores = UNION {chosen[v] : v \in Compute}
  BY <1>5, <1>9 DEF Range
<1>11. U \subseteq Compute /\ IsFiniteSet(U) /\ \A v \in Compute \ U : chosen[v] = {}
  <2>1. U \in SUBSET Compute /\ \A v \in Compute \ U : chosen[v] = {}
    BY DEF Used
  <2> QED BY <1>2, <2>1, FS_Subset
<1> HIDE DEF U, D
<1>12. ASSUME NEW i \in D
       PROVE  /\ h[i] \in Compute /\ num[h[i]] \in Nat
              /\ tasks[i] = num[h[i]] \div c
              /\ tasks[i] \in Nat /\ tasks[i] * c <= num[h[i]]
              /\ num[h[i]] <= Cardinality(a.cores \cap CoresOf(h[i]))
  <2>1. h[i] \in Compute
    BY <1>8, <1>11
  <2>2. num[h[i]] = Cardinality(chosen[h[i]]) /\ num[h[i]] \in Nat
    BY <1>5, <2>1, FS_CardinalityType
  <2>3. tasks[i] = num[h[i]] \div c
    BY <1>8, <2>2
  <2> DEFINE n == num[h[i]]
             B == a.cores \cap CoresOf(h[i])
  <2>4. IsFiniteSet(B) /\ chosen[h[i]] \in SUBSET B
    <3>1. chosen[h[i]] \subseteq a.cores
      BY <1>10, <2>1
    <3>2. B \in SUBSET CoresOf(h[i])
      OBVIOUS
    <3>3. IsFiniteSet(B)
      BY <1>3, <2>1, <3>2, FS_Subset
    <3> QED BY <1>6, <2>1, <3>1, <3>3
  <2>5. n <= Cardinality(B)
    BY <2>2, <2>4, FS_Subset
  <2> HIDE DEF n, num, tasks, B
  <2>6. n \div c \in Nat /\ (n \div c) * c <= n
    BY <1>1, <2>2, Divided DEF n
  <2>7. tasks[i] = n \div c
    BY <2>3 DEF n
  <2>8. tasks[i] \in Nat /\ tasks[i] * c <= n
    BY <2>6, <2>7
  <2> QED BY <2>1, <2>2, <2>3, <2>5, <2>8 DEF n, B
<1>13. Total(num, U) = count * c
  <2>1. \A v \in Compute : num[v] \in Nat
    BY <1>5, FS_CardinalityType
  <2>2. \A v \in Compute \ U : num[v] = 0
    BY <1>11, FS_EmptySet
  <2> HIDE DEF num
  <2>3. Total(num, Compute) = Total(num, U)
    BY <1>2, <1>11, <2>1, <2>2, TotalWithout
  <2> QED BY <1>5, <2>3
<1> DEFINE e == [i \in D |-> num[h[i]]]
<1>14. Total(e, D) = count * c
  <2>1. \A v \in U : num[v] \in Nat
    BY <1>5, <1>11, FS_CardinalityType
  <2>2. \A i \in D : e[i] = num[h[i]]
    OBVIOUS
  <2> HIDE DEF num, e
  <2>3. /\ \A i, j \in D : h[i] = h[j] => i = j
        /\ \A v \in U : \E i \in D : h[i] = v
        /\ IsFiniteSet(D) /\ IsFiniteSet(U)
    BY <1>7, <1>8, <1>11
  <2>4. Total(e, D) = Total(num, U)
    BY <2>1, <2>2, <2>3, TotalOnto
  <2> QED BY <1>13, <2>4
<1>15. Tasks(a) = Total(tasks, D)
  <2>1. Tasks(a) = Sum([i \in DOMAIN a.list |-> a.list[i].tasks])
    BY DEF Tasks
  <2>2. [i \in DOMAIN a.list |-> a.list[i].tasks] = tasks
    BY <1>9 DEF D
  <2>3. DOMAIN tasks = D
    OBVIOUS
  <2> HIDE DEF tasks
  <2> QED BY <2>1, <2>2, <2>3, SumIs
<1>16. \A i \in D : tasks[i] \in Nat /\ e[i] \in Nat /\ tasks[i] * c <= e[i]
  BY <1>12
<1> HIDE DEF tasks, e
<1>17. Tasks(a) <= count
  <2>1. Total(tasks, D) * c <= Total(e, D)
    BY <1>1, <1>7, <1>16, TotalShares
  <2>2. Total(tasks, D) \in Nat
    BY <1>7, <1>16, TotalNat
  <2> DEFINE m == Total(tasks, D)
  <2> HIDE DEF m
  <2>3. m * c <= count * c /\ m \in Nat
    BY <1>14, <2>1, <2>2 DEF m
  <2>4. m <= count
    BY <1>1, <2>3, TimesLess
  <2> QED BY <1>15, <2>4 DEF m
<1>18. ASSUME c = 1 PROVE Tasks(a) = count
  <2>1. \A i \in D : tasks[i] = e[i]
    <3>1. \A i \in D : e[i] = num[h[i]]
      BY DEF e
    <3>2. \A n \in Nat : n \div 1 = n
      OBVIOUS
    <3> QED BY <1>12, <1>18, <3>1, <3>2
  <2>2. Total(tasks, D) = Total(e, D)
    BY <1>7, <2>1, TotalsAgree
  <2>3. count * 1 = count
    OBVIOUS
  <2> QED BY <1>14, <1>15, <1>18, <2>2, <2>3
<1>19. ASSUME Cardinality(D) = 1 PROVE Tasks(a) = count
  <2>1. PICK i : D = {i}
    BY <1>7, <1>19, FS_Singleton
  <2>2. tasks[i] \in Nat /\ e[i] \in Nat
    BY <1>16, <2>1
  <2>3. Total(tasks, D) = tasks[i] /\ Total(e, D) = e[i]
    <3>1. tasks[i] \in Int /\ e[i] \in Int
      BY <2>2
    <3>2. Total(tasks, D) = tasks[i]
      BY <2>1, <3>1, TotalOfOne
    <3>3. Total(e, D) = e[i]
      BY <2>1, <3>1, TotalOfOne
    <3> QED BY <3>2, <3>3
  <2>4. tasks[i] = e[i] \div c
    BY <1>12, <2>1 DEF e
  <2>5. e[i] = count * c
    BY <1>14, <2>3
  <2>6. tasks[i] = count
    BY <1>1, <2>4, <2>5, DividedExactly
  <2> QED BY <1>15, <2>3, <2>6
<1>20. a.cores \subseteq ToSet(graph.nodes)
  BY <1>6, <1>10
<1>21. \A i, j \in D : list[i].node = list[j].node => i = j
  <2>1. \A i, j \in D : h[i].basename = h[j].basename => h[i] = h[j]
    BY <1>2, <1>12
  <2> QED BY <1>8, <2>1
<1>22. ASSUME NEW i \in D
       PROVE  /\ list[i].tasks \in Nat
              /\ \E v \in Compute :
                   /\ v.basename = list[i].node
                   /\ list[i].tasks * c <= Cardinality(a.cores \cap CoresOf(v))
  <2> DEFINE n == num[h[i]]
             b == Cardinality(a.cores \cap CoresOf(h[i]))
             m == list[i].tasks * c
  <2>1. tasks[i] = list[i].tasks
    BY DEF tasks
  <2>2. /\ h[i] \in Compute /\ n \in Nat /\ n <= b
        /\ list[i].tasks \in Nat /\ m <= n
    BY <1>12, <2>1
  <2>3. b \in Nat /\ m \in Nat
    <3>1. IsFiniteSet(CoresOf(h[i])) /\ a.cores \cap CoresOf(h[i]) \in SUBSET CoresOf(h[i])
      BY <1>3, <2>2
    <3>2. b \in Nat
      BY <3>1, FS_Subset, FS_CardinalityType
    <3>3. \A x, y \in Nat : x * y \in Nat
      OBVIOUS
    <3> QED BY <1>1, <2>2, <3>2, <3>3
  <2> HIDE DEF n, b, m
  <2>4. m <= b
    BY <2>2, <2>3
  <2>5. h[i].basename = list[i].node
    BY <1>8
  <2> QED BY <2>2, <2>4, <2>5 DEF b, m
<1>23. ASSUME a.zone PROVE Cardinality(D) = 1
  <2>1. Cardinality(U) = 1
    BY <1>5, <1>9, <1>23
  <2>2. ExistsBijection(D, U)
    BY <1>8 DEF ExistsBijection, Bijection, Injection, Surjection, IsInjective
  <2> QED BY <1>7, <1>11, <2>1, <2>2, FS_Bijection
<1>24. AllocOK(a)
  <2>1. /\ a.cpu \in Nat \ {0} /\ a.milli \in Nat /\ a.milli <= 1000 * a.cpu
    BY <1>1, <1>9
  <2>2. DOMAIN a.list = D
    BY <1>9 DEF D
  <2>3. a.cpu = 1 \/ Cardinality(DOMAIN a.list) = 1 => Tasks(a) = a.count
    BY <1>9, <1>18, <1>19, <2>2
  <2>4. Tasks(a) <= a.count
    BY <1>9, <1>17
  <2>5. a.list = list /\ a.cpu = c
    BY <1>9
  <2>6. IsFiniteSet(D)
    BY <1>7
  <2> HIDE DEF D
  <2>7. \A i \in DOMAIN a.list : a.list[i].tasks \in Nat /\ OfItsCores(a, i)
    BY <1>22, <2>2, <2>5 DEF OfItsCores
  <2>8. \A i, j \in DOMAIN a.list : a.list[i].node = a.list[j].node => i = j
    BY <1>21, <2>2, <2>5
  <2>10. a.zone => Cardinality(DOMAIN a.list) = 1
    BY <1>23, <2>2
  <2> HIDE DEF a, list, c
  <2>9. IsFiniteSet(DOMAIN a.list)
    BY <2>2, <2>6
  <2> QED BY <1>20, <2>1, <2>3, <2>4, <2>7, <2>8, <2>9, <2>10 DEF AllocOK
<1>25. \A b \in allocs : a.cores \cap b.cores = {}
  BY <1>5, <1>10 DEF Free
<1> QED BY <1>24, <1>25 DEF a

-----------------------------------------------------------------------------
(* The invariant.                                                          *)

ClusterOK ==
    /\ cluster \in Clusters
    /\ others \in [DOMAIN cluster -> Loads]
    /\ next \in 1 .. Len(cluster) + 1

\* The nodes that were seen are those up to the next one that were not passed
\* over.
SeenOK ==
    /\ DOMAIN seen = {k \in 1 .. next - 1 : ~Skipped(cluster[k])}
    /\ \A k \in DOMAIN seen : seen[k] \in Resources

\* The sidecar starts with nothing; what it builds and serves is the graph of
\* the nodes it saw.
GraphOK ==
    /\ sidecar \in {"down", "building", "serving", "uninitialised"}
    /\ sidecar = "down" => graph = NewFluxJGF /\ next = 1 /\ seen = <<>>
    /\ sidecar \in {"building", "serving"} =>
          \E par, at : Built(graph, par, at, cluster, seen)
    /\ graph.elements = Len(graph.nodes)

\* Only a sidecar that serves has allocations, and no core is in two of them.
AllocsOK ==
    /\ sidecar # "serving" => allocs = {}
    /\ IsFiniteSet(allocs)
    /\ \A a \in allocs : AllocOK(a)
    /\ \A a, b \in allocs : a # b => a.cores \cap b.cores = {}

IdsOK ==
    /\ matches \in 0 .. MaxMatches
    /\ jobID \in 1 .. matches + 1

PodsOK ==
    /\ IsFiniteSet(pods)
    /\ \A p \in pods : /\ DOMAIN p = {"job", "id", "node", "cpu", "bound", "released"}
                       /\ p.cpu \in Nat /\ {p.bound, p.released} \subseteq BOOLEAN

RInv == ClusterOK /\ SeenOK /\ GraphOK /\ AllocsOK /\ IdsOK /\ PodsOK

\* What is known of the node list.
LEMMA ClusterTyped ==
  ASSUME ClusterOK
  PROVE  /\ Len(cluster) \in Nat /\ DOMAIN cluster = 1 .. Len(cluster)
         /\ \A k \in DOMAIN cluster :
               /\ cluster[k].cpu \in Nat /\ cluster[k].mem \in Nat /\ cluster[k].gpu \in Nat
               /\ "" \notin cluster[k].labels
         /\ \A j, k \in DOMAIN cluster : cluster[j].name = cluster[k].name => j = k
<1> DEFINE N == [name : STRING, zone : STRING, labels : SUBSET STRING,
                 unschedulable : BOOLEAN, cpu : Nat, mem : Nat, gpu : Nat]
<1>1. /\ cluster \in Seq(N)
      /\ \A j, k \in DOMAIN cluster : cluster[j].name = cluster[k].name => j = k
      /\ \A k \in DOMAIN cluster : "" \notin cluster[k].labels
  BY ResourceAssumption DEF ClusterOK
<1>2. /\ Len(cluster) \in Nat /\ DOMAIN cluster = 1 .. Len(cluster)
  <2>1. cluster \in Seq(N)
    BY <1>1
  <2> HIDE DEF N
  <2> QED BY <2>1
<1>3. \A k \in DOMAIN cluster : cluster[k] \in N
  <2>1. cluster \in Seq(N)
    BY <1>1
  <2> HIDE DEF N
  <2> QED BY <1>2, <2>1
<1>4. \A k \in DOMAIN cluster :
         cluster[k].cpu \in Nat /\ cluster[k].mem \in Nat /\ cluster[k].gpu \in Nat
  BY <1>3
<1> QED BY <1>1, <1>2, <1>4

\* The nodes that were seen are of the list, and have different names.
LEMMA SeenInCluster ==
  ASSUME ClusterOK, SeenOK
  PROVE  NamesDiffer
<1>1. /\ Len(cluster) \in Nat /\ DOMAIN cluster = 1 .. Len(cluster)
      /\ \A j, k \in DOMAIN cluster : cluster[j].name = cluster[k].name => j = k
  BY ClusterTyped
<1>2. next \in 1 .. Len(cluster) + 1 /\ DOMAIN seen \subseteq 1 .. next - 1
  BY DEF ClusterOK, SeenOK
<1>3. 1 .. next - 1 \subseteq DOMAIN cluster
  BY <1>1, <1>2
<1> QED BY <1>1, <1>2, <1>3 DEF NamesDiffer

\* Requests are not negative.
LEMMA RequestsTyped ==
  ASSUME ClusterOK, PodsOK, NEW k \in DOMAIN cluster
  PROVE  computeTotalRequests(k) \in Resources
<1> DEFINE B == Bound(k)
           f == [p \in B |-> p.cpu]
<1>1. others[k].cpu \in Nat /\ others[k].mem \in Nat
  <2>1. others[k] \in Resources
    BY ResourceAssumption DEF ClusterOK
  <2> QED BY <2>1 DEF Resources
<1>2. IsFiniteSet(B) /\ \A p \in B : p.cpu \in Nat
  <2>1. B \in SUBSET pods
    BY DEF Bound
  <2> QED BY <2>1, FS_Subset DEF PodsOK
<1> HIDE DEF B
<1>3. Sum(f) = Total(f, B)
  <2>1. DOMAIN f = B
    OBVIOUS
  <2> HIDE DEF f
  <2> QED BY <2>1, SumIs
<1>4. Total(f, B) \in Nat
  <2>1. \A p \in B : f[p] \in Nat
    BY <1>2
  <2> HIDE DEF f
  <2> QED BY <1>2, <2>1, TotalNat
<1>5. computeTotalRequests(k) = [cpu |-> others[k].cpu + Sum(f), mem |-> others[k].mem]
  BY DEF computeTotalRequests, B
<1> HIDE DEF f
<1> QED BY <1>1, <1>3, <1>4, <1>5 DEF Resources

\* The new graph is a tree of the cluster alone.
LEMMA ClusterBuilt ==
  ASSUME NEW nodes, NEW s, DOMAIN s = {}
  PROVE  LET g == InitCluster(NewFluxJGF, defaultClusterName)
         IN  /\ \E par, at : Built(g, par, at, nodes, s)
             /\ g.elements = Len(g.nodes)
<1> DEFINE g == InitCluster(NewFluxJGF, defaultClusterName)
           par == [i \in 1 .. 0 |-> 0]
           at == [k \in DOMAIN s |-> 0]
           root == defaultClusterName \o "0"
           vname == Indexed(defaultClusterName, 0)
           path == getNodePath(root, <<>>)
<1>1. /\ g.nodes = <<[id |-> 0, type |-> "cluster", basename |-> defaultClusterName,
                      name |-> vname, path |-> path]>>
      /\ g.edges = {} /\ g.elements = 1 /\ g.root = root
      /\ DOMAIN g = {"nodes", "edges", "counts", "elements", "root"}
  <2> DEFINE n == [NewFluxJGF EXCEPT !.root = root]
             r == getCounter(n, defaultClusterName, "cluster")
             c == Counted(n, r.name)
  <2>1. /\ n.nodes = <<>> /\ n.edges = {} /\ n.elements = 0 /\ n.root = root
        /\ defaultClusterName \notin DOMAIN n.counts
        /\ DOMAIN n = {"nodes", "edges", "counts", "elements", "root"}
    BY DEF NewFluxJGF, defaultClusterName
  <2> HIDE DEF n
  <2>2. /\ r.elementId = 0 /\ r.type = "cluster" /\ r.name = defaultClusterName
        /\ r.index = 0
    BY <2>1 DEF getCounter, NextResourceIndex
  <2> HIDE DEF r
  <2>3. /\ c.nodes = <<>> /\ c.edges = {} /\ c.elements = 1 /\ c.root = root
        /\ DOMAIN c = {"nodes", "edges", "counts", "elements", "root"}
    BY <2>1 DEF Counted
  <2> HIDE DEF c
  <2>4. NameWithIndex(r) = vname
    BY <2>2 DEF NameWithIndex, Indexed
  <2>5. g = [c EXCEPT !.nodes =
               Append(@, [id |-> r.elementId, type |-> r.type, basename |-> r.name,
                          name |-> NameWithIndex(r),
                          path |-> getNodePath(n.root, <<>>)])]
    BY DEF InitCluster, makeNewNode, n, r, c, root
  <2> HIDE DEF g, path, vname, root
  <2>6. g = [c EXCEPT !.nodes =
               Append(@, [id |-> 0, type |-> "cluster", basename |-> defaultClusterName,
                          name |-> vname, path |-> path])]
    BY <2>1, <2>2, <2>4, <2>5 DEF path
  <2>7. /\ g.nodes = Append(<<>>, [id |-> 0, type |-> "cluster",
                                  basename |-> defaultClusterName,
                                  name |-> vname, path |-> path])
        /\ g.edges = {} /\ g.elements = 1 /\ g.root = root
        /\ DOMAIN g = {"nodes", "edges", "counts", "elements", "root"}
    BY <2>3, <2>6
  <2>8. \A x : Append(<<>>, x) = <<x>>
    OBVIOUS
  <2> QED BY <2>7, <2>8
<1>2. path = <<root>>
  <2>1. <<>> \in Seq({})
    OBVIOUS
  <2> HIDE DEF root
  <2> QED BY <2>1, PathIsSeq DEF path
<1> HIDE DEF vname, path, root
<1> DEFINE e == [id |-> 0, type |-> "cluster", basename |-> defaultClusterName,
                 name |-> vname, path |-> path]
<1> HIDE DEF g
<1>3. /\ g.nodes = <<e>> /\ e.id = 0 /\ e.type = "cluster"
      /\ e.name = vname /\ e.path = <<root>>
  BY <1>1, <1>2
<1> HIDE DEF e
<1>4. /\ Len(g.nodes) = 1 /\ g.nodes[1] = e /\ DOMAIN g.nodes = {1}
      /\ g.nodes \in Seq(ToSet(g.nodes))
  <2>1. /\ Len(g.nodes) = 1 /\ g.nodes[1] = e /\ DOMAIN g.nodes = {1}
        /\ g.nodes \in Seq({e})
    BY <1>3
  <2>2. ToSet(g.nodes) = {e}
    BY <2>1 DEF ToSet
  <2> QED BY <2>1, <2>2
<1>5. Vertex(g, 0) = e /\ 0 .. Len(g.nodes) - 1 = {0}
  BY <1>4 DEF Vertex
<1>6. g.edges = EdgesOf(par)
  <2>1. \A i \in DOMAIN par : FALSE
    OBVIOUS
  <2> HIDE DEF par
  <2> QED BY <1>1, <2>1 DEF EdgesOf
<1>7. IsTree(g, par)
  <2>1. IsJGF(g)
    BY <1>1, <1>4 DEF IsJGF
  <2>2. \A i \in 0 .. Len(g.nodes) - 1 : Vertex(g, i).id = i
    BY <1>3, <1>5
  <2>3. par \in [1 .. Len(g.nodes) - 1 -> Nat] /\ \A i \in DOMAIN par : par[i] < i
    BY <1>4
  <2> QED BY <1>4, <1>6, <2>1, <2>2, <2>3 DEF IsTree
<1>8. \A i \in 0 .. Len(g.nodes) - 1 : Vertex(g, i).type # "node"
  BY <1>3, <1>5
<1>9. Named(g, par, nodes)
  <2>1. RootNamed(g)
    BY <1>1, <1>3, <1>5 DEF RootNamed, root, vname
  <2>2. DOMAIN par = {}
    OBVIOUS
  <2> HIDE DEF par
  <2>3. PathsOK(g, par)
    <3>1. ToSet(<<root>>) = {root} /\ <<root>> \in Seq({root})
      <4>1. \A x : <<x>> \in Seq({x})
        OBVIOUS
      <4>2. \A x : DOMAIN <<x>> = {1} /\ <<x>>[1] = x
        OBVIOUS
      <4> QED BY <4>1, <4>2 DEF ToSet
    <3>2. Vertex(g, 0).path = <<root>> /\ g.root = root
      BY <1>1, <1>3, <1>5
    <3>3. \A i \in 0 .. Len(g.nodes) - 1 :
             Vertex(g, i).path \in Seq(ToSet(Vertex(g, i).path))
      BY <1>5, <3>1, <3>2
    <3> QED BY <2>2, <3>2, <3>3 DEF PathsOK
  <2>4. SubnetsOK(g, par, nodes) /\ SiblingsDiffer(g, par)
    BY <2>2 DEF SubnetsOK, SiblingsDiffer
  <2> QED BY <2>1, <2>3, <2>4 DEF Named
<1>10. Built(g, par, at, nodes, s)
  BY <1>7, <1>8, <1>9 DEF Built
<1> QED BY <1>1, <1>4, <1>10 DEF g

\* Parts of the invariant that a step leaves alone.
LEMMA SameBuild ==
  ASSUME SeenOK, GraphOK, UNCHANGED <<cluster, sidecar, next, graph, seen>>
  PROVE  SeenOK' /\ GraphOK'
<1>1. SeenOK'
  BY DEF SeenOK, Skipped
<1>2. GraphOK'
  BY DEF GraphOK
<1> QED BY <1>1, <1>2

\* An allocation stays what it is while the graph does.
LEMMA SameAlloc ==
  ASSUME NEW a, AllocOK(a), graph' = graph
  PROVE  AllocOK(a)'
<1>1. Compute' = Compute /\ \A v : CoresOf(v)' = CoresOf(v)
  BY DEF Compute, CoresOf
<1>2. Tasks(a)' = Tasks(a)
  BY DEF Tasks
<1>3. \A i : OfItsCores(a, i)' = OfItsCores(a, i)
  BY <1>1 DEF OfItsCores
<1> QED BY <1>2, <1>3 DEF AllocOK

\* Cancelling allocations, or none, keeps the rest.
LEMMA SameAllocs ==
  ASSUME AllocsOK, UNCHANGED <<sidecar, graph>>, allocs' \subseteq allocs
  PROVE  AllocsOK'
<1>1. IsFiniteSet(allocs')
  <2>1. allocs' \in SUBSET allocs
    OBVIOUS
  <2> QED BY <2>1, FS_Subset DEF AllocsOK
<1>2. \A a \in allocs' : AllocOK(a)'
  BY SameAlloc DEF AllocsOK
<1> QED BY <1>1, <1>2 DEF AllocsOK

\* The invariant holds before the sidecar is started.
LEMMA RInvInit == Init => RInv
<1> SUFFICES ASSUME Init PROVE RInv
  OBVIOUS
<1>1. ClusterOK
  <2>1. cluster \in Clusters /\ others \in [DOMAIN cluster -> Loads] /\ next = 1
    BY DEF Init
  <2>2. Len(cluster) \in Nat
    <3> DEFINE N == [name : STRING, zone : STRING, labels : SUBSET STRING,
                     unschedulable : BOOLEAN, cpu : Nat, mem : Nat, gpu : Nat]
    <3>1. cluster \in Seq(N)
      BY <2>1, ResourceAssumption
    <3> HIDE DEF N
    <3> QED BY <3>1
  <2> QED BY <2>1, <2>2 DEF ClusterOK
<1>2. SeenOK
  <2>1. seen = <<>> /\ next = 1
    BY DEF Init
  <2>2. DOMAIN seen = {}
    BY <2>1
  <2>3. 1 .. next - 1 = {}
    BY <2>1
  <2> QED BY <2>2, <2>3 DEF SeenOK
<1>3. GraphOK
  <2>1. NewFluxJGF.elements = Len(NewFluxJGF.nodes)
    BY DEF NewFluxJGF
  <2> QED BY <2>1 DEF Init, GraphOK
<1>4. AllocsOK
  BY FS_EmptySet DEF Init, AllocsOK
<1>5. IdsOK
  <2>1. MaxMatches \in Nat
    BY ResourceAssumption
  <2>2. matches = 0 /\ jobID = 1
    BY DEF Init
  <2> QED BY <2>1, <2>2 DEF IdsOK
<1>6. PodsOK
  BY FS_EmptySet DEF Init, PodsOK
<1> QED BY <1>1, <1>2, <1>3, <1>4, <1>5, <1>6 DEF RInv

\* The sidecar starts with the graph of the cluster alone, or with none.
LEMMA InitFluxionKeeps == RInv /\ InitFluxion => RInv'
<1> SUFFICES ASSUME RInv, InitFluxion PROVE RInv'
  OBVIOUS
<1> USE DEF RInv
<1>0. UNCHANGED <<cluster, others, pods, next, seen, allocs, jobID, matches>>
  BY DEF InitFluxion, apiVars, fluxionVars
<1>1. ClusterOK' /\ IdsOK' /\ PodsOK' /\ SeenOK'
  BY <1>0 DEF ClusterOK, IdsOK, PodsOK, SeenOK, Skipped
<1>2. AllocsOK'
  <2>1. allocs' = {}
    BY <1>0 DEF InitFluxion, AllocsOK
  <2> QED BY <2>1, FS_EmptySet DEF AllocsOK
<1>3. GraphOK'
  <2>1. sidecar = "down" /\ graph = NewFluxJGF /\ seen = <<>>
    BY DEF InitFluxion, GraphOK
  <2>2. CASE sidecar' = "building" /\ graph' = InitCluster(NewFluxJGF, defaultClusterName)
    <3> DEFINE g == InitCluster(NewFluxJGF, defaultClusterName)
    <3>1. DOMAIN seen = {}
      BY <2>1
    <3>2. /\ \E par, at : Built(g, par, at, cluster, seen)
          /\ g.elements = Len(g.nodes)
      BY <3>1, ClusterBuilt
    <3> HIDE DEF g
    <3>3. graph' = g /\ seen' = seen /\ cluster' = cluster
      BY <1>0, <2>2 DEF g
    <3>4. /\ \E par, at : Built(graph', par, at, cluster', seen')
          /\ graph'.elements = Len(graph'.nodes)
      BY <3>2, <3>3
    <3> QED BY <2>2, <3>4 DEF GraphOK
  <2>3. CASE sidecar' = "uninitialised" /\ UNCHANGED graph
    BY <2>3 DEF GraphOK
  <2> QED BY <2>2, <2>3 DEF InitFluxion
<1> QED BY <1>1, <1>2, <1>3

\* A turn of the loop passes a node over, adds it, or ends the construction.
LEMMA BuildNodeKeeps == RInv /\ BuildNode => RInv'
<1> SUFFICES ASSUME RInv, BuildNode PROVE RInv'
  OBVIOUS
<1> USE DEF RInv
<1>0. /\ UNCHANGED <<cluster, others, pods, allocs, jobID, matches>>
      /\ sidecar = "building" /\ next <= Len(cluster)
  BY DEF BuildNode, apiVars, fluxionVars
<1>1. IdsOK' /\ PodsOK'
  BY <1>0 DEF IdsOK, PodsOK
<1>2. AllocsOK'
  <2>1. allocs' = {}
    BY <1>0 DEF AllocsOK
  <2> QED BY <2>1, FS_EmptySet DEF AllocsOK
<1>3. /\ Len(cluster) \in Nat /\ next \in 1 .. Len(cluster) + 1
      /\ next \in DOMAIN cluster
      /\ cluster[next].cpu \in Nat /\ cluster[next].mem \in Nat
      /\ cluster[next].gpu \in Nat
  <2>1. next \in 1 .. Len(cluster) + 1
    BY DEF ClusterOK
  <2>2. Len(cluster) \in Nat /\ DOMAIN cluster = 1 .. Len(cluster)
    BY ClusterTyped
  <2>3. next \in DOMAIN cluster
    BY <1>0, <2>1, <2>2
  <2> QED BY <2>1, <2>2, <2>3, ClusterTyped
<1>4. next \notin DOMAIN seen
  <2>1. next \notin 1 .. next - 1
    BY <1>3
  <2> QED BY <2>1 DEF SeenOK
<1>5. CASE /\ Skipped(cluster[next])
           /\ next' = next + 1
           /\ UNCHANGED <<sidecar, graph, seen>>
  <2>1. ClusterOK'
    BY <1>0, <1>3, <1>5 DEF ClusterOK
  <2>2. SeenOK'
    <3>1. 1 .. next' - 1 = (1 .. next - 1) \cup {next}
      BY <1>3, <1>5
    <3>2. DOMAIN seen' = {k \in 1 .. next' - 1 : ~Skipped(cluster'[k])}
      BY <1>0, <1>5, <3>1 DEF SeenOK, Skipped
    <3> QED BY <1>5, <3>2 DEF SeenOK
  <2>3. GraphOK'
    BY <1>0, <1>5 DEF GraphOK
  <2> QED BY <1>1, <1>2, <2>1, <2>2, <2>3
<1>6. CASE /\ ~Skipped(cluster[next])
           /\ graph' = AddNode(graph, cluster[next], next - 1, computeTotalRequests(next))
           /\ seen' = [k \in DOMAIN seen \cup {next} |->
                         IF k = next THEN computeTotalRequests(next) ELSE seen[k]]
           /\ next' = next + 1
           /\ UNCHANGED sidecar
  <2> DEFINE reqs == computeTotalRequests(next)
             h == AddNode(graph, cluster[next], next - 1, reqs)
             t == [k \in DOMAIN seen \cup {next} |-> IF k = next THEN reqs ELSE seen[k]]
  <2>1. ClusterOK'
    BY <1>0, <1>3, <1>6 DEF ClusterOK
  <2>2. reqs \in Resources
    BY <1>3, RequestsTyped
  <2>3. reqs.cpu \in Nat /\ reqs.mem \in Nat
    BY <2>2 DEF Resources
  <2> HIDE DEF reqs
  <2>4. SeenOK'
    <3>1. 1 .. next' - 1 = (1 .. next - 1) \cup {next}
      BY <1>3, <1>6
    <3>2. seen' = t
      BY <1>6 DEF reqs
    <3>3. DOMAIN t = DOMAIN seen \cup {next}
      OBVIOUS
    <3>4. \A k \in DOMAIN t : t[k] \in Resources
      BY <2>2 DEF SeenOK
    <3> HIDE DEF t
    <3>5. DOMAIN seen' = {k \in 1 .. next' - 1 : ~Skipped(cluster'[k])}
      BY <1>0, <1>6, <3>1, <3>2, <3>3 DEF SeenOK, Skipped
    <3> QED BY <3>2, <3>4, <3>5 DEF SeenOK
  <2>5. PICK par, at : Built(graph, par, at, cluster, seen)
    BY <1>0 DEF GraphOK
  <2>6. /\ availCpu(cluster[next], reqs) \in Int
        /\ availMem(cluster[next], reqs) \in Int
    BY <1>3, <2>3, Available
  <2>7. \E q, to : Built(h, q, to, cluster, t)
    <3>1. cluster[next].gpu \in Nat /\ next \in DOMAIN cluster
      BY <1>3
    <3>2. \E q, to : /\ Built(h, q, to, cluster, t)
                     /\ Len(graph.nodes) <= Len(h.nodes)
      BY <1>4, <2>5, <2>6, <3>1, BuiltOneMore
    <3> HIDE DEF h, t
    <3> QED BY <3>2
  <2>8. graph' = h /\ seen' = t
    BY <1>6 DEF reqs
  <2> HIDE DEF h, t
  <2>9. h.elements = Len(h.nodes)
    BY <2>7 DEF Built, IsTree, IsJGF
  <2>10. \E q, to : Built(graph', q, to, cluster', seen')
    BY <1>0, <2>7, <2>8
  <2>11. GraphOK'
    BY <1>0, <1>6, <2>8, <2>9, <2>10 DEF GraphOK
  <2> QED BY <1>1, <1>2, <2>1, <2>4, <2>11
<1>7. CASE /\ sidecar' = "uninitialised"
           /\ UNCHANGED buildVars
  <2>1. ClusterOK' /\ SeenOK'
    BY <1>0, <1>7 DEF ClusterOK, SeenOK, Skipped, buildVars
  <2>2. GraphOK'
    BY <1>0, <1>7 DEF GraphOK, buildVars
  <2> QED BY <1>1, <1>2, <2>1, <2>2
<1> QED BY <1>5, <1>6, <1>7 DEF BuildNode

\* The complete graph is served.
LEMMA InitContextKeeps == RInv /\ InitContext => RInv'
<1> SUFFICES ASSUME RInv, InitContext PROVE RInv'
  OBVIOUS
<1> USE DEF RInv
<1>0. /\ UNCHANGED <<cluster, others, pods, next, graph, seen, allocs, jobID, matches>>
      /\ sidecar = "building" /\ sidecar' = "serving"
  BY DEF InitContext, Complete, apiVars, buildVars, fluxionVars
<1>1. ClusterOK' /\ SeenOK' /\ IdsOK' /\ PodsOK'
  BY <1>0 DEF ClusterOK, SeenOK, Skipped, IdsOK, PodsOK
<1>2. AllocsOK'
  <2>1. allocs' = {}
    BY <1>0 DEF AllocsOK
  <2> QED BY <2>1, FS_EmptySet DEF AllocsOK
<1>3. GraphOK'
  BY <1>0 DEF GraphOK
<1> QED BY <1>1, <1>2, <1>3

\* A new process has nothing.
LEMMA SidecarRestartsKeeps == RInv /\ SidecarRestarts => RInv'
<1> SUFFICES ASSUME RInv, SidecarRestarts PROVE RInv'
  OBVIOUS
<1> USE DEF RInv
<1>0. /\ UNCHANGED <<cluster, others, pods, matches>>
      /\ sidecar' = "down" /\ next' = 1 /\ graph' = NewFluxJGF /\ seen' = <<>>
      /\ allocs' = {} /\ jobID' = 1
  BY DEF SidecarRestarts, apiVars
<1>1. ClusterOK'
  <2>1. Len(cluster) \in Nat
    BY ClusterTyped
  <2>2. 1 \in 1 .. Len(cluster) + 1
    BY <2>1
  <2> QED BY <1>0, <2>2 DEF ClusterOK
<1>2. SeenOK'
  <2>1. DOMAIN seen' = {}
    BY <1>0
  <2>2. 1 .. next' - 1 = {}
    BY <1>0
  <2> QED BY <2>1, <2>2 DEF SeenOK
<1>3. GraphOK'
  <2>1. NewFluxJGF.elements = Len(NewFluxJGF.nodes)
    BY DEF NewFluxJGF
  <2> QED BY <1>0, <2>1 DEF GraphOK
<1>4. AllocsOK'
  BY <1>0, FS_EmptySet DEF AllocsOK
<1>5. IdsOK' /\ PodsOK'
  BY <1>0 DEF IdsOK, PodsOK
<1> QED BY <1>1, <1>2, <1>3, <1>4, <1>5

\* The pods planned for an answer.
Planned(list, job, id, milli) ==
    {[job |-> job, id |-> id, node |-> list[i].node,
      cpu |-> list[i].tasks * milli, bound |-> FALSE, released |-> FALSE] :
        i \in {i \in DOMAIN list : list[i].tasks > 0}}

\* What Match does, in terms of the allocation and the pods planned for it.
LEMMA MatchTakes ==
  ASSUME NEW shape, NEW count, Match(shape, count)
  PROVE  \E chosen \in MatchAllocate(CreateJobSpec(PreparePodJobSpec(shape), count)) :
            LET a == Allocation(jobID, shape, count, chosen)
            IN  /\ allocs' = allocs \cup {a}
                /\ pods' = pods \cup Planned(a.list, matches, jobID, a.milli)
<1> DEFINE spec == PreparePodJobSpec(shape)
<1>1. PICK chosen \in MatchAllocate(CreateJobSpec(spec, count)) :
         LET list == NodeList(chosen, spec.cpu)
         IN  /\ allocs' = allocs \cup
                   {[id |-> jobID, cores |-> UNION Range(chosen), count |-> count,
                     cpu |-> spec.cpu, milli |-> Sum(shape.cpus), list |-> list,
                     zone |-> "zone" \in spec.labels]}
             /\ pods' = pods \cup
                   {[job |-> matches, id |-> jobID, node |-> list[i].node,
                     cpu |-> list[i].tasks * Sum(shape.cpus), bound |-> FALSE,
                     released |-> FALSE] :
                      i \in {i \in DOMAIN list : list[i].tasks > 0}}
  BY DEF Match
<1> DEFINE a == Allocation(jobID, shape, count, chosen)
<1>2. a.list = NodeList(chosen, spec.cpu) /\ a.milli = Sum(shape.cpus)
  BY DEF Allocation
<1>3. allocs' = allocs \cup {a}
  BY <1>1 DEF Allocation
<1> HIDE DEF a
<1>4. pods' = pods \cup Planned(a.list, matches, jobID, a.milli)
  BY <1>1, <1>2 DEF Planned
<1> QED BY <1>3, <1>4 DEF a

\* There are finitely many, with their requests.
LEMMA PlannedTyped ==
  ASSUME NEW list, NEW job, NEW id, NEW milli \in Nat, IsFiniteSet(DOMAIN list),
         \A i \in DOMAIN list : list[i].tasks \in Nat
  PROVE  /\ IsFiniteSet(Planned(list, job, id, milli))
         /\ \A p \in Planned(list, job, id, milli) :
               /\ DOMAIN p = {"job", "id", "node", "cpu", "bound", "released"}
               /\ p.cpu \in Nat /\ {p.bound, p.released} \subseteq BOOLEAN
<1> DEFINE P == Planned(list, job, id, milli)
           D == {i \in DOMAIN list : list[i].tasks > 0}
           f == [i \in D |-> [job |-> job, id |-> id, node |-> list[i].node,
                              cpu |-> list[i].tasks * milli, bound |-> FALSE,
                              released |-> FALSE]]
<1>1. IsFiniteSet(D)
  <2>1. D \in SUBSET DOMAIN list
    OBVIOUS
  <2> QED BY <2>1, FS_Subset
<1>2. f \in Surjection(D, P)
  BY DEF Planned, Surjection
<1>3. IsFiniteSet(P)
  BY <1>1, <1>2, FS_Surjection
<1>4. \A i \in D : list[i].tasks * milli \in Nat
  <2>1. \A m, n \in Nat : m * n \in Nat
    OBVIOUS
  <2> QED BY <2>1
<1>5. \A p \in P : /\ DOMAIN p = {"job", "id", "node", "cpu", "bound", "released"}
                   /\ p.cpu \in Nat /\ {p.bound, p.released} \subseteq BOOLEAN
  <2> SUFFICES ASSUME NEW p \in P
               PROVE  /\ DOMAIN p = {"job", "id", "node", "cpu", "bound", "released"}
                      /\ p.cpu \in Nat /\ {p.bound, p.released} \subseteq BOOLEAN
    OBVIOUS
  <2>1. PICK i \in D : p = [job |-> job, id |-> id, node |-> list[i].node,
                            cpu |-> list[i].tasks * milli, bound |-> FALSE,
                            released |-> FALSE]
    BY DEF Planned
  <2>2. list[i].tasks * milli \in Nat
    BY <1>4
  <2> HIDE DEF D
  <2> QED BY <2>1, <2>2
<1> QED BY <1>3, <1>5

\* What Fluxion may choose makes an allocation of free cores.
LEMMA MatchFits ==
  ASSUME RInv, sidecar = "serving", NEW shape \in PodShapes, NEW count \in 1 .. MaxCount,
         NEW chosen \in MatchAllocate(CreateJobSpec(PreparePodJobSpec(shape), count)),
         NEW id
  PROVE  /\ AllocOK(Allocation(id, shape, count, chosen))
         /\ \A b \in allocs : Allocation(id, shape, count, chosen).cores \cap b.cores = {}
<1>1. PICK par, at : Built(graph, par, at, cluster, seen)
  BY DEF RInv, GraphOK
<1>2. NamesDiffer
  BY SeenInCluster DEF RInv
<1>3. shape.cpus \in Seq(Nat)
  BY ResourceAssumption
<1>4. count \in Nat
  <2>1. MaxCount \in Nat
    BY ResourceAssumption
  <2> QED BY <2>1
<1> QED BY <1>1, <1>2, <1>3, <1>4, MatchedOK

\* A match allocates free cores.
LEMMA MatchKeeps ==
  ASSUME RInv, NEW shape \in PodShapes, NEW count \in 1 .. MaxCount, Match(shape, count)
  PROVE  RInv'
<1> USE DEF RInv
<1>0. /\ UNCHANGED <<cluster, others, sidecar, next, graph, seen>>
      /\ sidecar = "serving" /\ matches < MaxMatches
      /\ jobID' = jobID + 1 /\ matches' = matches + 1
  BY DEF Match, apiVars, buildVars
<1>1. PICK chosen \in MatchAllocate(CreateJobSpec(PreparePodJobSpec(shape), count)) :
         LET a == Allocation(jobID, shape, count, chosen)
         IN  /\ allocs' = allocs \cup {a}
             /\ pods' = pods \cup Planned(a.list, matches, jobID, a.milli)
  BY MatchTakes
<1> DEFINE a == Allocation(jobID, shape, count, chosen)
<1>2. AllocOK(a) /\ \A b \in allocs : a.cores \cap b.cores = {}
  BY <1>0, MatchFits
<1>3. allocs' = allocs \cup {a} /\ pods' = pods \cup Planned(a.list, matches, jobID, a.milli)
  BY <1>1
<1> HIDE DEF a
<1>4. ClusterOK' /\ SeenOK' /\ GraphOK'
  <2>1. ClusterOK'
    BY <1>0 DEF ClusterOK
  <2> QED BY <1>0, <2>1, SameBuild
<1>5. AllocsOK'
  <2>1. IsFiniteSet(allocs')
    BY <1>3, FS_AddElement DEF AllocsOK
  <2>2. \A b \in allocs' : AllocOK(b)
    BY <1>2, <1>3 DEF AllocsOK
  <2>3. \A b \in allocs' : AllocOK(b)'
    BY <1>0, <2>2, SameAlloc
  <2>4. \A b, d \in allocs' : b # d => b.cores \cap d.cores = {}
    BY <1>2, <1>3 DEF AllocsOK
  <2> QED BY <1>0, <2>1, <2>3, <2>4 DEF AllocsOK
<1>6. IdsOK'
  <2>1. MaxMatches \in Nat
    BY ResourceAssumption
  <2> QED BY <1>0, <2>1 DEF IdsOK
<1>7. PodsOK'
  <2> DEFINE P == Planned(a.list, matches, jobID, a.milli)
  <2>1. /\ IsFiniteSet(P)
        /\ \A p \in P : /\ DOMAIN p = {"job", "id", "node", "cpu", "bound", "released"}
                        /\ p.cpu \in Nat /\ {p.bound, p.released} \subseteq BOOLEAN
    <3>1. /\ a.milli \in Nat /\ IsFiniteSet(DOMAIN a.list)
          /\ \A i \in DOMAIN a.list : a.list[i].tasks \in Nat
      BY <1>2 DEF AllocOK
    <3> QED BY <3>1, PlannedTyped
  <2> HIDE DEF P
  <2>2. pods' = pods \cup P
    BY <1>3 DEF P
  <2>3. IsFiniteSet(pods')
    BY <2>1, <2>2, FS_Union DEF PodsOK
  <2> QED BY <2>1, <2>2, <2>3 DEF PodsOK
<1> QED BY <1>4, <1>5, <1>6, <1>7

\* A cancel takes an allocation away, or none.
LEMMA CancelKeeps ==
  ASSUME RInv, NEW id, Cancel(id)
  PROVE  RInv'
<1> USE DEF RInv
<1>0. /\ UNCHANGED <<cluster, others, pods, sidecar, next, graph, seen, jobID, matches>>
      /\ allocs' = Without(id)
  BY DEF Cancel, apiVars, buildVars
<1>1. allocs' \subseteq allocs
  BY <1>0 DEF Without
<1>2. ClusterOK' /\ IdsOK' /\ PodsOK'
  BY <1>0 DEF ClusterOK, IdsOK, PodsOK
<1>3. AllocsOK' /\ SeenOK' /\ GraphOK'
  BY <1>0, <1>1, SameAllocs, SameBuild
<1> QED BY <1>2, <1>3

\* What the steps of the cluster leave alone.
LEMMA ClusterKeeps ==
  ASSUME RInv, PodsOK', others' \in [DOMAIN cluster -> Loads],
         UNCHANGED <<cluster, sidecar, next, graph, seen, allocs, jobID, matches>>
  PROVE  RInv'
<1> USE DEF RInv
<1>1. ClusterOK' /\ IdsOK'
  BY DEF ClusterOK, IdsOK
<1>2. SeenOK' /\ GraphOK' /\ AllocsOK'
  BY SameBuild, SameAllocs
<1> QED BY <1>1, <1>2

\* Binding pods marks them.
LEMMA BindPodsKeeps ==
  ASSUME RInv, NEW job, BindPods(job)
  PROVE  RInv'
<1> DEFINE f == [p \in pods |-> [p EXCEPT !.bound = @ \/ p.job = job]]
<1>1. pods' = {[p EXCEPT !.bound = @ \/ p.job = job] : p \in pods}
  BY DEF BindPods
<1>2. pods' = {f[p] : p \in pods}
  BY <1>1
<1>3. IsFiniteSet(pods')
  <2>1. f \in Surjection(pods, pods')
    BY <1>2 DEF Surjection
  <2>2. IsFiniteSet(pods)
    BY DEF RInv, PodsOK
  <2> QED BY <2>1, <2>2, FS_Surjection
<1>4. ASSUME NEW p \in pods
      PROVE  /\ DOMAIN f[p] = {"job", "id", "node", "cpu", "bound", "released"}
             /\ f[p].cpu \in Nat /\ {f[p].bound, f[p].released} \subseteq BOOLEAN
  <2>1. /\ DOMAIN p = {"job", "id", "node", "cpu", "bound", "released"}
        /\ p.cpu \in Nat /\ {p.bound, p.released} \subseteq BOOLEAN
    BY DEF RInv, PodsOK
  <2> QED BY <2>1
<1> HIDE DEF f
<1>5. PodsOK'
  BY <1>2, <1>3, <1>4 DEF PodsOK
<1>6. UNCHANGED <<cluster, others, sidecar, next, graph, seen, allocs, jobID, matches>>
  BY DEF BindPods, apiVars, buildVars, fluxionVars
<1>7. others' \in [DOMAIN cluster -> Loads]
  BY <1>6 DEF RInv, ClusterOK
<1> QED BY <1>5, <1>6, <1>7, ClusterKeeps

\* Releasing pods marks them, and asks for a cancel.
LEMMA ReleasePodsKeeps ==
  ASSUME RInv, NEW job, ReleasePods(job)
  PROVE  RInv'
<1> DEFINE f == [p \in pods |-> [p EXCEPT !.released = @ \/ p.job = job]]
<1>1. pods' = {[p EXCEPT !.released = @ \/ p.job = job] : p \in pods}
  BY DEF ReleasePods
<1>2. pods' = {f[p] : p \in pods}
  BY <1>1
<1>3. IsFiniteSet(pods')
  <2>1. f \in Surjection(pods, pods')
    BY <1>2 DEF Surjection
  <2>2. IsFiniteSet(pods)
    BY DEF RInv, PodsOK
  <2> QED BY <2>1, <2>2, FS_Surjection
<1>4. ASSUME NEW p \in pods
      PROVE  /\ DOMAIN f[p] = {"job", "id", "node", "cpu", "bound", "released"}
             /\ f[p].cpu \in Nat /\ {f[p].bound, f[p].released} \subseteq BOOLEAN
  <2>1. /\ DOMAIN p = {"job", "id", "node", "cpu", "bound", "released"}
        /\ p.cpu \in Nat /\ {p.bound, p.released} \subseteq BOOLEAN
    BY DEF RInv, PodsOK
  <2> QED BY <2>1
<1> HIDE DEF f
<1>5. PodsOK'
  BY <1>2, <1>3, <1>4 DEF PodsOK
<1>6. UNCHANGED <<cluster, others, sidecar, next, graph, seen, allocs, jobID, matches>>
  BY DEF ReleasePods, apiVars, buildVars, fluxionVars
<1>7. others' \in [DOMAIN cluster -> Loads]
  BY <1>6 DEF RInv, ClusterOK
<1> QED BY <1>5, <1>6, <1>7, ClusterKeeps

\* Finished pods are gone.
LEMMA PodsFinishKeeps ==
  ASSUME RInv, NEW job, PodsFinish(job)
  PROVE  RInv'
<1>1. /\ pods' \in SUBSET pods
      /\ UNCHANGED <<cluster, others, sidecar, next, graph, seen, allocs, jobID, matches>>
  BY DEF PodsFinish, apiVars, buildVars, fluxionVars
<1>2. PodsOK'
  BY <1>1, FS_Subset DEF RInv, PodsOK
<1>3. others' \in [DOMAIN cluster -> Loads]
  BY <1>1 DEF RInv, ClusterOK
<1> QED BY <1>1, <1>2, <1>3, ClusterKeeps

\* Other schedulers request something else.
LEMMA OthersChangeKeeps ==
  ASSUME RInv, NEW k \in DOMAIN cluster, NEW load \in Loads, OthersChange(k, load)
  PROVE  RInv'
<1>1. /\ others' = [others EXCEPT ![k] = load]
      /\ UNCHANGED <<cluster, pods, sidecar, next, graph, seen, allocs, jobID, matches>>
  BY DEF OthersChange, buildVars, fluxionVars
<1>2. PodsOK'
  BY <1>1 DEF RInv, PodsOK
<1>3. others' \in [DOMAIN cluster -> Loads]
  BY <1>1 DEF RInv, ClusterOK
<1> QED BY <1>1, <1>2, <1>3, ClusterKeeps

\* Every step keeps the invariant.
LEMMA RInvNext == RInv /\ [Next]_vars => RInv'
<1> SUFFICES ASSUME RInv, [Next]_vars PROVE RInv'
  OBVIOUS
<1>1. CASE InitFluxion
  BY <1>1, InitFluxionKeeps
<1>2. CASE BuildNode
  BY <1>2, BuildNodeKeeps
<1>3. CASE InitContext
  BY <1>3, InitContextKeeps
<1>4. CASE SidecarRestarts
  BY <1>4, SidecarRestartsKeeps
<1>5. CASE \E shape \in PodShapes, count \in 1 .. MaxCount : Match(shape, count)
  BY <1>5, MatchKeeps
<1>6. CASE \E id \in cancels : Cancel(id)
  BY <1>6, CancelKeeps
<1>7. CASE \E p \in pods : BindPods(p.job) \/ ReleasePods(p.job) \/ PodsFinish(p.job)
  BY <1>7, BindPodsKeeps, ReleasePodsKeeps, PodsFinishKeeps
<1>8. CASE \E k \in DOMAIN cluster, load \in Loads : OthersChange(k, load)
  BY <1>8, OthersChangeKeeps
<1>9. CASE UNCHANGED vars
  <2>1. UNCHANGED <<cluster, others, pods, sidecar, next, graph, seen, allocs, jobID, matches>>
    BY <1>9 DEF vars, apiVars, buildVars, fluxionVars
  <2>2. PodsOK' /\ others' \in [DOMAIN cluster -> Loads]
    BY <2>1 DEF RInv, PodsOK, ClusterOK
  <2> QED BY <2>1, <2>2, ClusterKeeps
<1> QED BY <1>1, <1>2, <1>3, <1>4, <1>5, <1>6, <1>7, <1>8, <1>9 DEF Next

\* RInv holds in every state: it is the inductive invariant behind the theorems.
LEMMA AlwaysRInv == Spec => []RInv
  BY RInvInit, RInvNext, PTL DEF Spec

-----------------------------------------------------------------------------
(* What the invariant says.                                                *)

\* An answer names a node once: its tasks there are those of one entry.
LEMMA TasksOnIs ==
  ASSUME NEW a, AllocOK(a), NEW name
  PROVE  /\ \A i \in DOMAIN a.list : a.list[i].node = name => TasksOn(a, name) = a.list[i].tasks
         /\ (\A i \in DOMAIN a.list : a.list[i].node # name) => TasksOn(a, name) = 0
<1> DEFINE D == DOMAIN a.list
           f == [i \in D |-> IF a.list[i].node = name THEN a.list[i].tasks ELSE 0]
<1>1. /\ IsFiniteSet(D) /\ \A i \in D : a.list[i].tasks \in Nat
      /\ \A i, j \in D : a.list[i].node = a.list[j].node => i = j
  BY DEF AllocOK
<1> HIDE DEF D
<1>2. TasksOn(a, name) = Total(f, D)
  <2>1. TasksOn(a, name) = Sum(f)
    BY DEF TasksOn, D
  <2>2. DOMAIN f = D
    OBVIOUS
  <2> HIDE DEF f
  <2> QED BY <2>1, <2>2, SumIs
<1>3. \A i \in D : f[i] \in Int
  BY <1>1
<1>4. \A i \in D : f[i] = IF a.list[i].node = name THEN a.list[i].tasks ELSE 0
  OBVIOUS
<1> HIDE DEF f
<1>5. ASSUME NEW i \in D, a.list[i].node = name
      PROVE  TasksOn(a, name) = a.list[i].tasks
  <2> DEFINE T == {i}
  <2>1. T \in SUBSET D /\ \A j \in D \ T : f[j] = 0
    BY <1>1, <1>4, <1>5
  <2>2. T = {i}
    OBVIOUS
  <2>3. f[i] = a.list[i].tasks
    BY <1>4, <1>5
  <2> HIDE DEF T
  <2>4. Total(f, D) = Total(f, T)
    BY <1>1, <1>3, <2>1, TotalWithout
  <2>5. Total(f, T) = f[i]
    BY <1>3, <2>2, TotalOfOne
  <2> QED BY <1>2, <2>3, <2>4, <2>5
<1>6. ASSUME \A i \in D : a.list[i].node # name
      PROVE  TasksOn(a, name) = 0
  <2>1. \A i \in D \ {} : f[i] = 0
    BY <1>4, <1>6
  <2>2. Total(f, D) = Total(f, {})
    BY <1>1, <1>3, <2>1, TotalWithout
  <2> QED BY <1>2, <2>2, TotalOfNone
<1> QED BY <1>5, <1>6 DEF D

\* A product of numbers is one, and grows with its factors.
LEMMA Times ==
  ASSUME NEW t \in Nat, NEW m \in Nat, NEW c \in Nat, NEW n \in Nat,
         m <= 1000 * c, t * c <= n
  PROVE  t * m \in Nat /\ t * m <= 1000 * n
<1>1. t * m \in Nat /\ t * c \in Nat
  OBVIOUS
<1>2. t * m <= t * (1000 * c)
  OBVIOUS
<1>3. t * (1000 * c) = 1000 * (t * c)
  OBVIOUS
<1>4. 1000 * (t * c) <= 1000 * n
  BY <1>1
<1> QED BY <1>1, <1>2, <1>3, <1>4

\* The tasks of an allocation on a node take no more cpu than the cores it has
\* there.
LEMMA AllocShare ==
  ASSUME RInv, NEW par, NEW at, Built(graph, par, at, cluster, seen),
         NEW k \in DOMAIN seen, NEW a \in allocs
  PROVE  LET t == TasksOn(a, cluster[k].name)
             n == Cardinality(a.cores \cap CoresOf(Vertex(graph, at[k])))
         IN  /\ t \in Nat /\ n \in Nat /\ t <= n
             /\ t * a.milli \in Nat /\ t * a.milli <= 1000 * n
<1> DEFINE name == cluster[k].name
           v == Vertex(graph, at[k])
           t == TasksOn(a, name)
           C == a.cores \cap CoresOf(v)
           n == Cardinality(C)
<1>1. AllocOK(a)
  BY DEF RInv, AllocsOK
<1>2. NamesDiffer
  BY SeenInCluster DEF RInv
<1>3. /\ v \in Compute /\ v.basename = name
      /\ \A w \in Compute : w.basename = v.basename => w = v
  BY <1>2, BuiltCompute
<1>4. n \in Nat
  <2>1. IsFiniteSet(CoresOf(v))
    BY <1>2, <1>3, BuiltCores
  <2>2. C \in SUBSET CoresOf(v)
    OBVIOUS
  <2>3. IsFiniteSet(C)
    BY <2>1, <2>2, FS_Subset
  <2> QED BY <2>3, FS_CardinalityType
<1>5. a.cpu \in Nat \ {0} /\ a.milli \in Nat /\ a.milli <= 1000 * a.cpu
  BY <1>1 DEF AllocOK
<1>6. t \in Nat /\ t * a.cpu <= n
  <2>1. CASE \A i \in DOMAIN a.list : a.list[i].node # name
    <3>1. t = 0
      BY <1>1, <2>1, TasksOnIs
    <3> QED BY <1>4, <1>5, <3>1
  <2>2. CASE \E i \in DOMAIN a.list : a.list[i].node = name
    <3>1. PICK i \in DOMAIN a.list : a.list[i].node = name
      BY <2>2
    <3>2. t = a.list[i].tasks
      BY <1>1, <3>1, TasksOnIs
    <3>3. a.list[i].tasks \in Nat
      BY <1>1 DEF AllocOK
    <3>4. PICK w \in Compute :
             /\ w.basename = a.list[i].node
             /\ a.list[i].tasks * a.cpu <= Cardinality(a.cores \cap CoresOf(w))
      BY <1>1 DEF AllocOK, OfItsCores
    <3>5. w = v
      BY <1>3, <3>1, <3>4
    <3> QED BY <3>2, <3>3, <3>4, <3>5
  <2> QED BY <2>1, <2>2
<1> HIDE DEF t, n
<1>7. t <= n
  <2>1. t <= t * a.cpu /\ t * a.cpu \in Nat
    BY <1>5, <1>6
  <2> QED BY <1>4, <1>6, <2>1
<1>8. t * a.milli \in Nat /\ t * a.milli <= 1000 * n
  BY <1>4, <1>5, <1>6, Times
<1> QED BY <1>4, <1>6, <1>7, <1>8 DEF t, n

\* What the allocations promise of a node, in milli.
Promised(k) == [a \in allocs |-> TasksOn(a, cluster[k].name) * a.milli]

\* The cores of a node are in no two allocations: together they promise no more
\* than all of them.
LEMMA PromisedCpu ==
  ASSUME RInv, NEW par, NEW at, Built(graph, par, at, cluster, seen),
         NEW k \in DOMAIN seen
  PROVE  LET n == Cardinality(CoresOf(Vertex(graph, at[k])))
         IN  /\ n \in Nat
             /\ \A a \in allocs : Promised(k)[a] \in Nat
             /\ Total(Promised(k), allocs) \in Nat
             /\ Total(Promised(k), allocs) <= 1000 * n
             /\ n > 0 => seen[k].cpu + 1000 * n <= cluster[k].cpu
<1> DEFINE X == CoresOf(Vertex(graph, at[k]))
           f == Promised(k)
           A == [a \in allocs |-> a.cores]
<1>1. NamesDiffer
  BY SeenInCluster DEF RInv
<1>2. IsFiniteSet(X) /\ Cardinality(X) = Natural(availCpu(cluster[k], seen[k]))
  <2>1. Vertex(graph, at[k]) \in Compute
    BY <1>1, BuiltCompute
  <2> QED BY <1>1, <2>1, BuiltCores
<1>3. Cardinality(X) \in Nat
  BY <1>2, FS_CardinalityType
<1>4. /\ IsFiniteSet(allocs)
      /\ \A a, b \in allocs : a # b => A[a] \cap A[b] = {}
  BY DEF RInv, AllocsOK
<1>5. ASSUME NEW a \in allocs
      PROVE  f[a] \in Nat /\ f[a] <= 1000 * Cardinality(A[a] \cap X)
  <2>1. f[a] = TasksOn(a, cluster[k].name) * a.milli /\ A[a] = a.cores
    BY DEF Promised
  <2> QED BY <2>1, AllocShare
<1> HIDE DEF f, A, X
<1>6. ASSUME NEW a \in allocs
      PROVE  f[a] \in Nat
  <2> DEFINE share == 1000 * Cardinality(A[a] \cap X)
  <2>1. f[a] \in Nat /\ f[a] <= share
    BY <1>5
  <2> HIDE DEF share
  <2> QED BY <2>1
<1>7. Total(f, allocs) \in Nat
  BY <1>4, <1>6, TotalNat
<1>8. Total(f, allocs) <= 1000 * Cardinality(X)
  <2> DEFINE c == 1000
  <2>1. /\ c \in Nat /\ IsFiniteSet(allocs) /\ IsFiniteSet(X)
        /\ \A a, b \in allocs : a # b => A[a] \cap A[b] = {}
        /\ \A a \in allocs : f[a] \in Nat /\ f[a] <= c * Cardinality(A[a] \cap X)
    BY <1>2, <1>4, <1>5
  <2> HIDE DEF c
  <2>2. Total(f, allocs) <= c * Cardinality(X)
    BY <2>1, DisjointShares
  <2> QED BY <2>2 DEF c
<1>9. Cardinality(X) > 0 => seen[k].cpu + 1000 * Cardinality(X) <= cluster[k].cpu
  <2>1. k \in DOMAIN cluster
    BY <1>1 DEF NamesDiffer
  <2>2. cluster[k].cpu \in Nat
    BY <2>1, ClusterTyped DEF RInv
  <2>3. seen[k].cpu \in Nat
    BY DEF RInv, SeenOK, Resources
  <2> QED BY <1>2, <2>2, <2>3, WholeCores
<1>10. /\ Cardinality(X) \in Nat
       /\ \A a \in allocs : f[a] \in Nat
       /\ Total(f, allocs) \in Nat
       /\ Total(f, allocs) <= 1000 * Cardinality(X)
       /\ Cardinality(X) > 0 => seen[k].cpu + 1000 * Cardinality(X) <= cluster[k].cpu
  BY <1>3, <1>7, <1>8, <1>9, <1>6
<1> QED BY <1>10 DEF f, X

\* At most whole cores are promised, and those are left.
LEMMA RInvTasksFit == RInv => TasksFit
<1> SUFFICES ASSUME RInv, NEW k \in DOMAIN seen
             PROVE  LET tasks == Sum([a \in allocs |-> TasksOn(a, cluster[k].name) * a.milli])
                    IN  tasks > 0 => seen[k].cpu + tasks <= cluster[k].cpu
  BY DEF TasksFit
<1> DEFINE tasks == Sum(Promised(k))
<1>1. tasks = Total(Promised(k), allocs)
  <2>1. DOMAIN Promised(k) = allocs
    BY DEF Promised
  <2> QED BY <2>1, SumIs
<1>2. seen[k].cpu \in Nat /\ cluster[k].cpu \in Nat
  <2>1. k \in DOMAIN cluster
    BY SeenInCluster DEF NamesDiffer, RInv
  <2>2. cluster[k].cpu \in Nat
    BY <2>1, ClusterTyped DEF RInv
  <2> QED BY <2>2 DEF RInv, SeenOK, Resources
<1>3. CASE allocs = {}
  <2>1. tasks = 0
    BY <1>1, <1>3, TotalOfNone
  <2> QED BY <2>1 DEF Promised
<1>4. CASE allocs # {}
  <2>1. PICK par, at : Built(graph, par, at, cluster, seen)
    BY <1>4 DEF RInv, AllocsOK, GraphOK
  <2> DEFINE n == Cardinality(CoresOf(Vertex(graph, at[k])))
  <2>2. /\ n \in Nat /\ tasks \in Nat /\ tasks <= 1000 * n
        /\ n > 0 => seen[k].cpu + 1000 * n <= cluster[k].cpu
    BY <1>1, <2>1, PromisedCpu
  <2> HIDE DEF n, tasks
  <2>3. tasks > 0 => seen[k].cpu + tasks <= cluster[k].cpu
    BY <1>2, <2>2
  <2> QED BY <2>3 DEF tasks, Promised
<1> QED BY <1>3, <1>4

\* At the end of the loop every node of the list was seen or passed over.
LEMMA RInvCovers == RInv => GraphCoversCluster
<1> SUFFICES ASSUME RInv, Complete PROVE GraphCoversCluster
  BY DEF GraphCoversCluster
<1>1. PICK par, at : Built(graph, par, at, cluster, seen)
  BY DEF RInv, GraphOK, Complete
<1>2. NamesDiffer
  BY SeenInCluster DEF RInv
<1>3. DOMAIN seen = {k \in DOMAIN cluster :
                        /\ {controlPlaneLabel, SkipLabel} \cap cluster[k].labels = {}
                        /\ ~cluster[k].unschedulable}
  <2>1. 1 .. next - 1 = DOMAIN cluster
    <3>1. Len(cluster) \in Nat /\ DOMAIN cluster = 1 .. Len(cluster)
      BY ClusterTyped DEF RInv
    <3>2. next \in 1 .. Len(cluster) + 1 /\ next > Len(cluster)
      BY DEF RInv, ClusterOK, Complete
    <3>3. next - 1 = Len(cluster)
      BY <3>1, <3>2
    <3> QED BY <3>1, <3>3
  <2>2. \A k \in DOMAIN cluster : "" \notin cluster[k].labels
    BY ClusterTyped DEF RInv
  <2>3. \A k \in DOMAIN cluster :
           ~Skipped(cluster[k]) <=>
              /\ {controlPlaneLabel, SkipLabel} \cap cluster[k].labels = {}
              /\ ~cluster[k].unschedulable
    BY <2>2 DEF Skipped
  <2>4. DOMAIN seen = {k \in DOMAIN cluster : ~Skipped(cluster[k])}
    BY <2>1 DEF RInv, SeenOK
  <2> QED BY <2>3, <2>4
<1>4. Cardinality(Compute) = Cardinality(DOMAIN seen)
  BY <1>1, <1>2, BuiltCompute
<1>5. ASSUME NEW k \in DOMAIN seen
      PROVE  \E v \in Compute, z \in ToSet(graph.nodes) :
                /\ v.basename = cluster[k].name
                /\ Parents(v) = {z} /\ z.type = "subnet" /\ z.basename = cluster[k].zone
                /\ Below(v, "core") = WholeUnits(cluster[k].cpu, seen[k].cpu, 1000)
                /\ Below(v, "memory") = WholeUnits(cluster[k].mem, seen[k].mem, 1024)
                /\ Below(v, "gpu") = cluster[k].gpu
  <2>1. k \in DOMAIN cluster
    BY <1>2 DEF NamesDiffer
  <2>2. cluster[k].cpu \in Nat /\ cluster[k].mem \in Nat
    BY <2>1, ClusterTyped DEF RInv
  <2>3. seen[k].cpu \in Nat /\ seen[k].mem \in Nat
    BY DEF RInv, SeenOK, Resources
  <2> QED BY <1>1, <1>2, <2>2, <2>3, BuiltCovers
<1> QED BY <1>3, <1>4, <1>5 DEF GraphCoversCluster

\* Names that can be told from the indexes after them: those of the zones of a
\* node list, of the kinds of resources, and the first index, which the cluster's
\* path is written with.
NamesReadable ==
    /\ ToString(0) = "0"
    /\ Readable(Kinds)
    /\ \A c \in Clusters : Readable(Zones(c))

\* The paths of a graph that was built.
LEMMA RInvPaths ==
  ASSUME NamesReadable, RInv
  PROVE  PathsFollowTheTree
<1> SUFFICES ASSUME Complete
             PROVE  /\ graph.nodes[1].path = <<graph.nodes[1].name>>
                    /\ \A v \in ToSet(graph.nodes) : \A u \in Parents(v) :
                          v.path = Append(u.path, v.name)
                    /\ Cardinality({v.path : v \in ToSet(graph.nodes)}) = Len(graph.nodes)
  BY DEF PathsFollowTheTree
<1>1. PICK par, at : Built(graph, par, at, cluster, seen)
  BY DEF RInv, GraphOK, Complete
<1>2. IsTree(graph, par) /\ PathsOK(graph, par) /\ RootNamed(graph)
  BY <1>1 DEF Built, Named
<1>3. SiblingsDiffer(graph, par)
  <2>1. Readable(Zones(cluster))
    BY DEF NamesReadable, RInv, ClusterOK
  <2> QED BY <1>1, <2>1 DEF Built, Named, NamesReadable
<1>4. graph.nodes[1].path = <<graph.nodes[1].name>>
  <2>1. Vertex(graph, 0) = graph.nodes[1]
    BY DEF Vertex
  <2>2. Vertex(graph, 0).name = graph.root
    BY <1>2 DEF RootNamed, Indexed, NamesReadable
  <2> QED BY <1>2, <2>1, <2>2 DEF PathsOK
<1>5. ASSUME NEW v \in ToSet(graph.nodes), NEW u \in Parents(v)
      PROVE  v.path = Append(u.path, v.name)
  <2> DEFINE I == 0 .. Len(graph.nodes) - 1
  <2>0. ToSet(graph.nodes) = {Vertex(graph, i) : i \in I}
    BY <1>2, TreeVertices
  <2> HIDE DEF I
  <2>1. PICK i \in I : v = Vertex(graph, i)
    BY <2>0
  <2> USE DEF I
  <2>2. Parents(v) = IF i = 0 THEN {} ELSE {Vertex(graph, par[i])}
    BY <1>2, <2>1, TreeParents
  <2>3. i # 0 /\ u = Vertex(graph, par[i])
    BY <1>5, <2>2
  <2>4. i \in DOMAIN par
    BY <1>2, <2>3, TreeLength
  <2> QED BY <1>2, <2>1, <2>3, <2>4 DEF PathsOK
<1>6. Cardinality({v.path : v \in ToSet(graph.nodes)}) = Len(graph.nodes)
  BY <1>2, <1>3, PathsCount
<1> QED BY <1>4, <1>5, <1>6

\* The types are part of the invariant.
LEMMA RInvTypeOK == RInv => TypeOK
<1> SUFFICES ASSUME RInv PROVE TypeOK
  OBVIOUS
<1>1. DOMAIN seen \subseteq DOMAIN cluster
  BY SeenInCluster DEF NamesDiffer, RInv
<1>2. \A a \in allocs : a.cores \subseteq ToSet(graph.nodes)
  BY DEF RInv, AllocsOK, AllocOK
<1>3. jobID \in 1 .. MaxMatches + 1
  <2>1. MaxMatches \in Nat
    BY ResourceAssumption
  <2>2. matches \in 0 .. MaxMatches /\ jobID \in 1 .. matches + 1
    BY DEF RInv, IdsOK
  <2> QED BY <2>1, <2>2
<1>4. cluster \in Clusters /\ others \in [DOMAIN cluster -> Loads]
      /\ next \in 1 .. Len(cluster) + 1
  BY DEF RInv, ClusterOK
<1>5. \A p \in pods : p.cpu \in Nat /\ {p.bound, p.released} \subseteq BOOLEAN
  BY DEF RInv, PodsOK
<1>6. /\ sidecar \in {"down", "building", "serving", "uninitialised"}
      /\ graph.elements = Len(graph.nodes)
  BY DEF RInv, GraphOK
<1>7. \A k \in DOMAIN seen : seen[k] \in Resources
  BY DEF RInv, SeenOK
<1> QED BY <1>1, <1>2, <1>3, <1>4, <1>5, <1>6, <1>7 DEF TypeOK

\* The state of the sidecar, of the node list and of the pods keeps its types,
\* whatever the API server and Fluxion answer.
THEOREM ResourceTypeCorrect == Spec => []TypeOK
  BY AlwaysRInv, RInvTypeOK, PTL

\* The graph that CreateInClusterJGF saves is one tree, for every node list: ids
\* are positions, and each vertex but the cluster is in exactly one other, which
\* was added before it and contains it (AddNode, MakeBidirectionalEdge).
THEOREM GraphAlwaysATree == Spec => []GraphIsATree
<1>1. RInv => GraphIsATree
  <2>1. ASSUME RInv, Complete PROVE GraphIsATree
    <3>1. PICK par, at : Built(graph, par, at, cluster, seen)
      BY <2>1 DEF RInv, GraphOK, Complete
    <3> QED BY <3>1, BuiltIsATree DEF Built
  <2> QED BY <2>1 DEF GraphIsATree
<1> QED BY <1>1, AlwaysRInv, PTL

\* Where names can be told from the indexes after them, a vertex is at the path of
\* the one it is in and its own name, from the cluster down, and no two vertices
\* are at the same path: getNodePath, and the subpaths and the indexes that
\* CreateInClusterJGF passes on, for every node list.
THEOREM PathsAlwaysFollow == NamesReadable => (Spec => []PathsFollowTheTree)
<1> SUFFICES ASSUME NamesReadable PROVE Spec => []PathsFollowTheTree
  OBVIOUS
<1>1. RInv => PathsFollowTheTree
  BY RInvPaths
<1> QED BY <1>1, AlwaysRInv, PTL

\* It holds each schedulable node of the list once, below its zone, with the
\* whole cores and GiB that the pods found on it leave (computeTotalRequests),
\* and no other node.
THEOREM GraphAlwaysCovers == Spec => []GraphCoversCluster
  BY AlwaysRInv, RInvCovers, PTL

\* An answer of MatchAllocate, as ParseAllocResult and the worker read it, has
\* no more tasks than the job has pods, and as many when no pod's cores are on
\* two nodes.
THEOREM AnswersWithinCount == Spec => []TasksWithinCount
<1>1. RInv => TasksWithinCount
  BY DEF RInv, AllocsOK, AllocOK, TasksWithinCount
<1> QED BY <1>1, AlwaysRInv, PTL

\* The tasks of the live allocations never need more cpu on a node than the pods
\* found on it when it was listed leave, however requests and nodes are rounded.
THEOREM TasksAlwaysFit == Spec => []TasksFit
  BY AlwaysRInv, RInvTasksFit, PTL

-----------------------------------------------------------------------------
(* Before the sidecar restarts.                                            *)

\* The allocation and its answer hold the cores of the pod.
Backs(a, p) ==
    /\ a.id = p.id
    /\ \E i \in DOMAIN a.list : /\ a.list[i].node = p.node
                                /\ a.list[i].tasks > 0
                                /\ p.cpu = a.list[i].tasks * a.milli

\* Flux ids follow the jobs; the allocation of a pod that was not released is
\* live and not about to be cancelled; and a job has one pod, with all its
\* tasks, on a node.
FirstRun ==
    /\ jobID = matches + 1
    /\ cancels \subseteq 1 .. matches
    /\ \A p \in pods : /\ p.job \in 0 .. matches - 1
                       /\ p.id = p.job + 1
                       /\ ~p.released => /\ p.id \notin cancels
                                         /\ \E a \in allocs : Backs(a, p)
    /\ \A p, q \in pods : p.id = q.id /\ p.node = q.node => p = q

RunInv == restarts \in Nat /\ (restarts = 0 => FirstRun)

\* There are no pods at first.
LEMMA RunInvInit == Init => RunInv
  BY DEF Init, RunInv, FirstRun

\* The pods of a match have its id, which no cancel has yet.
LEMMA MatchKeepsRun ==
  ASSUME RInv, RInv', RunInv, NEW shape, NEW count, Match(shape, count)
  PROVE  RunInv'
<1>0. /\ UNCHANGED <<cancels, restarts>>
      /\ jobID' = jobID + 1 /\ matches' = matches + 1
  BY DEF Match
<1> SUFFICES ASSUME restarts = 0 PROVE FirstRun'
  BY <1>0 DEF RunInv
<1>1. FirstRun
  BY DEF RunInv
<1>2. PICK chosen \in MatchAllocate(CreateJobSpec(PreparePodJobSpec(shape), count)) :
         LET a == Allocation(jobID, shape, count, chosen)
         IN  /\ allocs' = allocs \cup {a}
             /\ pods' = pods \cup Planned(a.list, matches, jobID, a.milli)
  BY MatchTakes
<1> DEFINE a == Allocation(jobID, shape, count, chosen)
           P == Planned(a.list, matches, jobID, a.milli)
<1>3. allocs' = allocs \cup {a} /\ pods' = pods \cup P /\ a.id = jobID
  BY <1>2 DEF Allocation
<1> HIDE DEF a
<1>4. \A i, j \in DOMAIN a.list : a.list[i].node = a.list[j].node => i = j
  BY <1>3 DEF RInv, AllocsOK, AllocOK
<1>5. matches \in Nat /\ jobID = matches + 1
  BY <1>1 DEF RInv, IdsOK, FirstRun
<1>6. ASSUME NEW p \in P
      PROVE  \E i \in DOMAIN a.list :
                /\ a.list[i].tasks > 0
                /\ p = [job |-> matches, id |-> jobID, node |-> a.list[i].node,
                        cpu |-> a.list[i].tasks * a.milli, bound |-> FALSE,
                        released |-> FALSE]
  BY DEF Planned
<1>7. ASSUME NEW p \in P
      PROVE  p.job = matches /\ p.id = jobID /\ Backs(a, p)
  <2>1. PICK i \in DOMAIN a.list :
            /\ a.list[i].tasks > 0
            /\ p = [job |-> matches, id |-> jobID, node |-> a.list[i].node,
                    cpu |-> a.list[i].tasks * a.milli, bound |-> FALSE,
                    released |-> FALSE]
    BY <1>6
  <2>2. /\ p.job = matches /\ p.id = jobID /\ p.node = a.list[i].node
        /\ p.cpu = a.list[i].tasks * a.milli
    BY <2>1
  <2> QED BY <1>3, <2>1, <2>2 DEF Backs
<1>8. ASSUME NEW p \in P, NEW q \in P, p.node = q.node
      PROVE  p = q
  <2>1. PICK i \in DOMAIN a.list :
            p = [job |-> matches, id |-> jobID, node |-> a.list[i].node,
                 cpu |-> a.list[i].tasks * a.milli, bound |-> FALSE,
                 released |-> FALSE]
    BY <1>6
  <2>2. PICK j \in DOMAIN a.list :
            q = [job |-> matches, id |-> jobID, node |-> a.list[j].node,
                 cpu |-> a.list[j].tasks * a.milli, bound |-> FALSE,
                 released |-> FALSE]
    BY <1>6
  <2>3. p.node = a.list[i].node /\ q.node = a.list[j].node
    BY <2>1, <2>2
  <2>4. i = j
    BY <1>4, <1>8, <2>3
  <2> QED BY <2>1, <2>2, <2>4
<1> HIDE DEF P
<1>9. jobID' = matches' + 1 /\ cancels' \subseteq 1 .. matches'
  BY <1>0, <1>1, <1>5 DEF FirstRun
<1>10. ASSUME NEW p \in pods'
       PROVE  /\ p.job \in 0 .. matches' - 1
              /\ p.id = p.job + 1
              /\ ~p.released => /\ p.id \notin cancels'
                                /\ \E b \in allocs' : Backs(b, p)
  <2>1. CASE p \in pods
    <3>1. /\ p.job \in 0 .. matches - 1 /\ p.id = p.job + 1
          /\ ~p.released => p.id \notin cancels /\ \E b \in allocs : Backs(b, p)
      BY <1>1, <2>1 DEF FirstRun
    <3> QED BY <1>0, <1>3, <1>5, <3>1
  <2>2. CASE p \in P
    <3>1. p.job = matches /\ p.id = jobID /\ Backs(a, p)
      BY <1>7, <2>2
    <3>2. jobID \notin cancels
      BY <1>1, <1>5 DEF FirstRun
    <3> QED BY <1>0, <1>3, <1>5, <3>1, <3>2
  <2> QED BY <1>3, <2>1, <2>2
<1>11. ASSUME NEW p \in pods', NEW q \in pods', p.id = q.id, p.node = q.node
       PROVE  p = q
  <2>1. \A r \in pods : r.id # jobID
    BY <1>1, <1>5 DEF FirstRun
  <2>2. \A r \in P : r.id = jobID
    BY <1>7
  <2>3. CASE p \in pods /\ q \in pods
    BY <1>1, <1>11, <2>3 DEF FirstRun
  <2>4. CASE p \in P /\ q \in P
    BY <1>8, <1>11, <2>4
  <2> QED BY <1>3, <1>11, <2>1, <2>2, <2>3, <2>4
<1> QED BY <1>9, <1>10, <1>11 DEF FirstRun, Backs

\* The cancels that are on their way are not of jobs whose pods were not released.
LEMMA CancelKeepsRun ==
  ASSUME RunInv, NEW id, Cancel(id)
  PROVE  RunInv'
<1>0. /\ UNCHANGED <<pods, jobID, matches, restarts>>
      /\ id \in cancels /\ cancels' = cancels \ {id}
      /\ allocs' = {a \in allocs : a.id # id}
  BY DEF Cancel, Without
<1> SUFFICES ASSUME restarts = 0 PROVE FirstRun'
  BY <1>0 DEF RunInv
<1>1. FirstRun
  BY DEF RunInv
<1>2. ASSUME NEW p \in pods, ~p.released
      PROVE  \E a \in allocs' : Backs(a, p)
  <2>1. PICK a \in allocs : Backs(a, p)
    BY <1>1, <1>2 DEF FirstRun
  <2>2. a.id = p.id /\ p.id # id
    BY <1>0, <1>1, <1>2, <2>1 DEF FirstRun, Backs
  <2> QED BY <1>0, <2>1, <2>2
<1> QED BY <1>0, <1>1, <1>2 DEF FirstRun, Backs

\* Binding the pods of a job changes nothing else.
LEMMA BindPodsKeepsRun ==
  ASSUME RInv, RunInv, NEW job, BindPods(job)
  PROVE  RunInv'
<1> DEFINE f == [p \in pods |-> [p EXCEPT !.bound = @ \/ p.job = job]]
<1>0. /\ UNCHANGED <<allocs, jobID, matches, cancels, restarts>>
      /\ pods' = {f[p] : p \in pods}
  BY DEF BindPods, fluxionVars
<1> SUFFICES ASSUME restarts = 0 PROVE FirstRun'
  BY <1>0 DEF RunInv
<1>1. FirstRun
  BY DEF RunInv
<1>2. ASSUME NEW p \in pods
      PROVE  /\ f[p].job = p.job /\ f[p].id = p.id /\ f[p].node = p.node
             /\ f[p].cpu = p.cpu /\ f[p].released = p.released
  <2>1. DOMAIN p = {"job", "id", "node", "cpu", "bound", "released"}
    BY DEF RInv, PodsOK
  <2> QED BY <2>1
<1> HIDE DEF f
<1>3. ASSUME NEW p \in pods, ~p.released
      PROVE  \E a \in allocs : Backs(a, f[p])
  <2>1. PICK a \in allocs : Backs(a, p)
    BY <1>1, <1>3 DEF FirstRun
  <2> QED BY <1>2, <2>1 DEF Backs
<1>4. ASSUME NEW q \in pods'
      PROVE  /\ q.job \in 0 .. matches - 1 /\ q.id = q.job + 1
             /\ ~q.released => q.id \notin cancels /\ \E a \in allocs : Backs(a, q)
  <2>1. PICK p \in pods : q = f[p]
    BY <1>0
  <2>2. /\ p.job \in 0 .. matches - 1 /\ p.id = p.job + 1
        /\ ~p.released => p.id \notin cancels
    BY <1>1 DEF FirstRun
  <2> QED BY <1>2, <1>3, <2>1, <2>2
<1>5. ASSUME NEW p \in pods', NEW q \in pods', p.id = q.id, p.node = q.node
      PROVE  p = q
  <2>1. PICK r \in pods : p = f[r]
    BY <1>0
  <2>2. PICK s \in pods : q = f[s]
    BY <1>0
  <2>3. r = s
    BY <1>1, <1>2, <1>5, <2>1, <2>2 DEF FirstRun
  <2> QED BY <2>1, <2>2, <2>3
<1>6. jobID' = matches' + 1 /\ cancels' \subseteq 1 .. matches'
  BY <1>0, <1>1 DEF FirstRun
<1> QED BY <1>0, <1>4, <1>5, <1>6 DEF FirstRun, Backs

\* The pods of a job are released together, and their flux id is of no other.
LEMMA ReleasePodsKeepsRun ==
  ASSUME RInv, RunInv, NEW job, ReleasePods(job)
  PROVE  RunInv'
<1> DEFINE f == [p \in pods |-> [p EXCEPT !.released = @ \/ p.job = job]]
<1>0. /\ UNCHANGED <<allocs, jobID, matches, restarts>>
      /\ pods' = {f[p] : p \in pods}
      /\ cancels' = cancels \cup {p.id : p \in PodsOf(job)}
  BY DEF ReleasePods, fluxionVars
<1> SUFFICES ASSUME restarts = 0 PROVE FirstRun'
  BY <1>0 DEF RunInv
<1>1. FirstRun /\ matches \in Nat
  BY DEF RunInv, RInv, IdsOK
<1>2. ASSUME NEW p \in pods
      PROVE  /\ f[p].job = p.job /\ f[p].id = p.id /\ f[p].node = p.node
             /\ f[p].cpu = p.cpu /\ f[p].released = (p.released \/ p.job = job)
  <2>1. DOMAIN p = {"job", "id", "node", "cpu", "bound", "released"}
    BY DEF RInv, PodsOK
  <2> QED BY <2>1
<1> HIDE DEF f
<1>3. ASSUME NEW p \in pods, ~p.released
      PROVE  \E a \in allocs : Backs(a, f[p])
  <2>1. PICK a \in allocs : Backs(a, p)
    BY <1>1, <1>3 DEF FirstRun
  <2> QED BY <1>2, <2>1 DEF Backs
<1>4. ASSUME NEW q \in pods'
      PROVE  /\ q.job \in 0 .. matches - 1 /\ q.id = q.job + 1
             /\ ~q.released => q.id \notin cancels' /\ \E a \in allocs : Backs(a, q)
  <2>1. PICK p \in pods : q = f[p]
    BY <1>0
  <2>2. /\ p.job \in 0 .. matches - 1 /\ p.id = p.job + 1
        /\ ~p.released => p.id \notin cancels
    BY <1>1 DEF FirstRun
  <2>3. p.job # job => p.id \notin {r.id : r \in PodsOf(job)}
    BY <1>1 DEF FirstRun, PodsOf
  <2> QED BY <1>0, <1>2, <1>3, <2>1, <2>2, <2>3
<1>5. ASSUME NEW p \in pods', NEW q \in pods', p.id = q.id, p.node = q.node
      PROVE  p = q
  <2>1. PICK r \in pods : p = f[r]
    BY <1>0
  <2>2. PICK s \in pods : q = f[s]
    BY <1>0
  <2>3. r = s
    BY <1>1, <1>2, <1>5, <2>1, <2>2 DEF FirstRun
  <2> QED BY <2>1, <2>2, <2>3
<1>6. jobID' = matches' + 1 /\ cancels' \subseteq 1 .. matches'
  <2>1. \A p \in pods : p.id \in 1 .. matches
    BY <1>1 DEF FirstRun
  <2>2. {p.id : p \in PodsOf(job)} \subseteq 1 .. matches
    BY <2>1 DEF PodsOf
  <2> QED BY <1>0, <1>1, <2>2 DEF FirstRun
<1> QED BY <1>0, <1>4, <1>5, <1>6 DEF FirstRun, Backs

\* The pods of one job have the flux id that is to be cancelled, and no others.
LEMMA PodsFinishKeepsRun ==
  ASSUME RInv, RunInv, NEW job, PodsFinish(job)
  PROVE  RunInv'
<1>0. /\ UNCHANGED <<allocs, jobID, matches, restarts>>
      /\ pods' = {p \in pods : p.job # job}
      /\ cancels' = cancels \cup {p.id : p \in PodsOf(job)}
  BY DEF PodsFinish, PodsOf, fluxionVars
<1> SUFFICES ASSUME restarts = 0 PROVE FirstRun'
  BY <1>0 DEF RunInv
<1>1. FirstRun /\ matches \in Nat
  BY DEF RunInv, RInv, IdsOK
<1>2. cancels' \subseteq 1 .. matches
  <2>1. \A p \in pods : p.id \in 1 .. matches
    BY <1>1 DEF FirstRun
  <2>2. {p.id : p \in PodsOf(job)} \subseteq 1 .. matches
    BY <2>1 DEF PodsOf
  <2>3. cancels \subseteq 1 .. matches
    BY <1>1 DEF FirstRun
  <2> QED BY <1>0, <2>2, <2>3
<1>3. \A p \in pods' : ~p.released => p.id \notin cancels'
  <2>1. \A p, q \in pods : p.id = q.id => p.job = q.job
    BY <1>1 DEF FirstRun
  <2> QED BY <1>0, <1>1, <2>1 DEF FirstRun, PodsOf
<1> QED BY <1>0, <1>1, <1>2, <1>3 DEF FirstRun, Backs

\* Every step keeps it, the first restart by ending the first run.
LEMMA RunInvNext == RInv /\ RInv' /\ RunInv /\ [Next]_vars => RunInv'
<1> SUFFICES ASSUME RInv, RInv', RunInv, [Next]_vars PROVE RunInv'
  OBVIOUS
<1>0. ASSUME UNCHANGED <<pods, allocs, jobID, matches, cancels, restarts>>
      PROVE  RunInv'
  BY <1>0 DEF RunInv, FirstRun, Backs
<1>1. CASE InitFluxion \/ BuildNode \/ InitContext
  BY <1>0, <1>1 DEF InitFluxion, BuildNode, InitContext, fluxionVars
<1>2. CASE SidecarRestarts
  <2>1. restarts \in Nat /\ restarts' = restarts + 1
    BY <1>2 DEF SidecarRestarts, RunInv
  <2>2. restarts' \in Nat /\ restarts' # 0
    BY <2>1
  <2> QED BY <2>2 DEF RunInv
<1>3. CASE \E shape \in PodShapes, count \in 1 .. MaxCount : Match(shape, count)
  BY <1>3, MatchKeepsRun
<1>4. CASE \E id \in cancels : Cancel(id)
  BY <1>4, CancelKeepsRun
<1>5. CASE \E p \in pods : BindPods(p.job) \/ ReleasePods(p.job) \/ PodsFinish(p.job)
  BY <1>5, BindPodsKeepsRun, ReleasePodsKeepsRun, PodsFinishKeepsRun
<1>6. CASE \E k \in DOMAIN cluster, load \in Loads : OthersChange(k, load)
  BY <1>0, <1>6 DEF OthersChange, fluxionVars
<1>7. CASE UNCHANGED vars
  BY <1>0, <1>7 DEF vars, fluxionVars
<1> QED BY <1>1, <1>2, <1>3, <1>4, <1>5, <1>6, <1>7 DEF Next

\* Both invariants hold in every state.
LEMMA AlwaysRunInv == Spec => [](RInv /\ RunInv)
<1>1. Init => RInv /\ RunInv
  BY RInvInit, RunInvInit
<1>2. RInv /\ RunInv /\ [Next]_vars => (RInv /\ RunInv)'
  BY RInvNext, RunInvNext
<1> QED BY <1>1, <1>2, PTL DEF Spec

\* Different pods on a node are of different allocations: their requests are
\* part of what is promised.
LEMMA RInvNotOvercommitted == RInv /\ RunInv => NodesNotOvercommitted
<1> SUFFICES ASSUME RInv, RunInv, NEW k \in DOMAIN seen, restarts = 0,
                    others[k].cpu <= seen[k].cpu,
                    {p \in Bound(k) : ~p.released} # {}
             PROVE  others[k].cpu + Sum([p \in {q \in Bound(k) : ~q.released} |-> p.cpu])
                       <= cluster[k].cpu
  BY DEF NodesNotOvercommitted
<1> DEFINE B == {p \in Bound(k) : ~p.released}
           f == [p \in B |-> p.cpu]
           e == Promised(k)
           h == [p \in B |-> CHOOSE a \in allocs : Backs(a, p)]
           name == cluster[k].name
<1>1. \A p \in B : p \in pods /\ p.node = name /\ ~p.released
  BY DEF Bound
<1>2. \A p \in B : h[p] \in allocs /\ Backs(h[p], p)
  <2>1. \A p \in B : \E a \in allocs : Backs(a, p)
    BY <1>1 DEF RunInv, FirstRun
  <2> QED BY <2>1
<1>3. h \in [B -> allocs]
  BY <1>2
<1>4. IsFiniteSet(B) /\ IsFiniteSet(allocs)
  <2>1. B \in SUBSET pods
    BY <1>1
  <2> QED BY <2>1, FS_Subset DEF RInv, PodsOK, AllocsOK
<1>5. PICK par, at : Built(graph, par, at, cluster, seen)
  <2>1. allocs # {}
    BY <1>2
  <2> QED BY <2>1 DEF RInv, AllocsOK, GraphOK
<1> DEFINE n == Cardinality(CoresOf(Vertex(graph, at[k])))
<1>6. ASSUME NEW p \in B
      PROVE  f[p] = e[h[p]] /\ TasksOn(h[p], name) > 0
  <2> DEFINE a == h[p]
  <2>1. a \in allocs /\ Backs(a, p) /\ p.node = name
    BY <1>1, <1>2
  <2> HIDE DEF h
  <2>2. PICK i \in DOMAIN a.list : /\ a.list[i].node = name
                                   /\ a.list[i].tasks > 0
                                   /\ p.cpu = a.list[i].tasks * a.milli
    BY <2>1 DEF Backs
  <2>3. TasksOn(a, name) = a.list[i].tasks
    BY <2>1, <2>2, TasksOnIs DEF RInv, AllocsOK
  <2>4. e[a] = TasksOn(a, name) * a.milli
    BY <2>1 DEF Promised
  <2>5. f[p] = p.cpu
    OBVIOUS
  <2> HIDE DEF a, e, f
  <2>6. f[p] = e[a] /\ TasksOn(a, name) > 0
    BY <2>2, <2>3, <2>4, <2>5
  <2> QED BY <2>6 DEF a
<1>7. \A p, q \in B : h[p] = h[q] => p = q
  <2> SUFFICES ASSUME NEW p \in B, NEW q \in B, h[p] = h[q] PROVE p = q
    OBVIOUS
  <2>1. h[p].id = p.id /\ h[q].id = q.id
    BY <1>2 DEF Backs
  <2>2. p \in pods /\ q \in pods /\ p.node = q.node
    BY <1>1
  <2> HIDE DEF h
  <2>3. p.id = q.id
    BY <2>1
  <2> QED BY <2>2, <2>3 DEF RunInv, FirstRun
<1> HIDE DEF f, h
<1>8. \A a \in allocs : e[a] \in Nat
  BY <1>5, PromisedCpu
<1>9. /\ n \in Nat /\ Total(e, allocs) \in Nat /\ Total(e, allocs) <= 1000 * n
      /\ n > 0 => seen[k].cpu + 1000 * n <= cluster[k].cpu
  BY <1>5, PromisedCpu
<1>10. n > 0
  <2>1. PICK p \in B : TRUE
    OBVIOUS
  <2>2. h[p] \in allocs /\ TasksOn(h[p], name) > 0
    BY <1>2, <1>6
  <2> DEFINE X == CoresOf(Vertex(graph, at[k]))
             a == h[p]
             c == Cardinality(a.cores \cap X)
  <2>3. c \in Nat /\ TasksOn(a, name) \in Nat /\ TasksOn(a, name) <= c
    BY <1>5, <2>2, AllocShare
  <2>4. IsFiniteSet(X)
    <3>1. NamesDiffer
      BY SeenInCluster DEF RInv
    <3>2. Vertex(graph, at[k]) \in Compute
      BY <1>5, <3>1, BuiltCompute
    <3> QED BY <1>5, <3>1, <3>2, BuiltCores
  <2>5. c <= n
    <3>1. a.cores \cap X \in SUBSET X
      OBVIOUS
    <3> QED BY <2>4, <3>1, FS_Subset
  <2> HIDE DEF c, n, a
  <2>6. TasksOn(a, name) > 0
    BY <2>2 DEF a
  <2> QED BY <1>9, <2>3, <2>5, <2>6
<1> HIDE DEF e, n, B
<1>11. Total(f, B) <= Total(e, allocs) /\ Total(f, B) \in Nat
  <2> DEFINE T == {h[p] : p \in B}
  <2>1. T \in SUBSET allocs
    BY <1>3
  <2>2. Total(f, B) = Total(e, T)
    BY <1>3, <1>4, <1>6, <1>7, <1>8, TotalAlong
  <2> HIDE DEF T
  <2>3. Total(e, T) <= Total(e, allocs)
    BY <1>4, <1>8, <2>1, TotalPart
  <2>4. Total(e, T) \in Nat
    BY <1>4, <1>8, <2>1, FS_Subset, TotalNat
  <2> QED BY <2>2, <2>3, <2>4
<1>12. Sum([p \in {q \in Bound(k) : ~q.released} |-> p.cpu]) = Total(f, B)
  <2>1. DOMAIN f = B
    BY DEF f
  <2>2. Sum(f) = Total(f, B)
    BY <2>1, SumIs
  <2> QED BY <2>2 DEF f, B
<1>13. others[k].cpu \in Nat /\ seen[k].cpu \in Nat /\ cluster[k].cpu \in Nat
  <2>1. k \in DOMAIN cluster
    BY SeenInCluster DEF NamesDiffer, RInv
  <2>2. cluster[k].cpu \in Nat
    BY <2>1, ClusterTyped DEF RInv
  <2>3. others[k] \in Resources
    BY <2>1, ResourceAssumption DEF RInv, ClusterOK
  <2> QED BY <2>2, <2>3 DEF RInv, SeenOK, Resources
<1> QED BY <1>9, <1>10, <1>11, <1>12, <1>13

\* As long as the sidecar is not started again, the pods of jobs whose release
\* nobody asked for fit on their node beside what others request, unless other
\* schedulers put more on it than the sidecar found: in whatever order jobs are
\* matched, bound, released at their deadline, finished and cancelled, the cancel
\* of one gives away no cores under the pods of another.
THEOREM NeverOvercommitted == Spec => []NodesNotOvercommitted
  BY AlwaysRunInv, RInvNotOvercommitted, PTL

-----------------------------------------------------------------------------
(* The ledger.                                                             *)

Grants == {Granted(a) : a \in allocs}

\* The ids of allocations are numbers that were given out, each once.
IdsDiffer ==
    /\ \A a \in allocs : a.id \in 1 .. jobID - 1
    /\ \A a, b \in allocs : a.id = b.id => a = b

\* An allocation gets the number that is next; no other gives or changes one.
LEMMA IdsDifferNext == RInv /\ IdsDiffer /\ [Next]_vars => IdsDiffer'
<1> SUFFICES ASSUME RInv, IdsDiffer, [Next]_vars PROVE IdsDiffer'
  OBVIOUS
<1>1. jobID \in Nat /\ jobID >= 1
  BY DEF RInv, IdsOK
<1>2. ASSUME UNCHANGED <<allocs, jobID>> PROVE IdsDiffer'
  BY <1>2 DEF IdsDiffer
<1>3. CASE SidecarRestarts
  BY <1>3 DEF SidecarRestarts, IdsDiffer
<1>4. ASSUME NEW shape \in PodShapes, NEW count \in 1 .. MaxCount, Match(shape, count)
      PROVE  IdsDiffer'
  <2>1. PICK chosen \in MatchAllocate(CreateJobSpec(PreparePodJobSpec(shape), count)) :
           LET a == Allocation(jobID, shape, count, chosen)
           IN  /\ allocs' = allocs \cup {a}
               /\ pods' = pods \cup Planned(a.list, matches, jobID, a.milli)
    BY <1>4, MatchTakes
  <2> DEFINE a == Allocation(jobID, shape, count, chosen)
  <2>2. allocs' = allocs \cup {a}
    BY <2>1
  <2>3. a.id = jobID
    BY DEF Allocation
  <2>4. jobID' = jobID + 1
    BY <1>4 DEF Match
  <2> HIDE DEF a
  <2>5. \A b \in allocs : b.id \in 1 .. jobID - 1
    BY DEF IdsDiffer
  <2>6. \A b \in allocs' : b.id \in 1 .. jobID' - 1
    BY <1>1, <2>2, <2>3, <2>4, <2>5
  <2>7. \A b \in allocs : b.id # a.id
    BY <1>1, <2>3, <2>5
  <2>8. \A b, c \in allocs' : b.id = c.id => b = c
    BY <2>2, <2>7 DEF IdsDiffer
  <2> QED BY <2>6, <2>8 DEF IdsDiffer
<1>5. ASSUME NEW id, Cancel(id) PROVE IdsDiffer'
  <2>1. allocs' \subseteq allocs /\ jobID' = jobID
    BY <1>5 DEF Cancel, Without
  <2> QED BY <2>1 DEF IdsDiffer
<1>6. CASE InitFluxion \/ BuildNode \/ InitContext
  <2>1. UNCHANGED <<allocs, jobID>>
    BY <1>6 DEF InitFluxion, BuildNode, InitContext, fluxionVars
  <2> QED BY <1>2, <2>1
<1>7. CASE \E p \in pods : BindPods(p.job) \/ ReleasePods(p.job) \/ PodsFinish(p.job)
  <2>1. UNCHANGED <<allocs, jobID>>
    BY <1>7 DEF BindPods, ReleasePods, PodsFinish, fluxionVars
  <2> QED BY <1>2, <2>1
<1>8. CASE \E k \in DOMAIN cluster, load \in Loads : OthersChange(k, load)
  <2>1. UNCHANGED <<allocs, jobID>>
    BY <1>8 DEF OthersChange, fluxionVars
  <2> QED BY <1>2, <2>1
<1>9. CASE UNCHANGED vars
  BY <1>2, <1>9 DEF vars, fluxionVars
<1> QED BY <1>3, <1>4, <1>5, <1>6, <1>7, <1>8, <1>9 DEF Next

\* The sums of the ledger are totals.
LEMMA LedgerSum == ASSUME NEW f PROVE Ledger!Sum(f) = Total(f, DOMAIN f)
  BY DEF Ledger!Sum, Ledger!MapThenSumSet, Ledger!MapThenFoldSet, Total,
         MapThenSumSet, MapThenFoldSet

\* The tasks of an allocation are on nodes that are served, each at one of them.
LEMMA TasksServed ==
  ASSUME RInv, sidecar = "serving", NEW a, AllocOK(a)
  PROVE  LET e == Granted(a).tasks
         IN  /\ DOMAIN e = Served /\ IsFiniteSet(Served)
             /\ \A k \in Served : e[k] \in Nat /\ e[k] <= Tasks(a)
             /\ Total(e, Served) = Tasks(a)
             /\ a.zone => \A j, k \in Served : e[j] > 0 /\ e[k] > 0 => j = k
<1> DEFINE D == DOMAIN a.list
           tasks == [i \in D |-> a.list[i].tasks]
           e == [k \in Served |-> TasksOn(a, cluster[k].name)]
<1>1. Granted(a).tasks = e
  BY DEF Granted
<1>2. Served = DOMAIN seen
  BY DEF Served
<1>3. PICK par, at : Built(graph, par, at, cluster, seen)
  BY DEF RInv, GraphOK
<1>4. NamesDiffer
  BY SeenInCluster DEF RInv
<1>5. IsFiniteSet(Served)
  <2> DEFINE L == 1 .. Len(cluster)
  <2>1. DOMAIN seen \in SUBSET L /\ Len(cluster) \in Nat
    BY <1>4, ClusterTyped DEF NamesDiffer, RInv
  <2>2. IsFiniteSet(L)
    BY <2>1, FS_Interval
  <2> QED BY <1>2, <2>1, <2>2, FS_Subset
<1>6. /\ IsFiniteSet(D)
      /\ \A i \in D : a.list[i].tasks \in Nat
      /\ \A i, j \in D : a.list[i].node = a.list[j].node => i = j
  BY DEF AllocOK
<1>7. \A i \in D : \E k \in Served : cluster[k].name = a.list[i].node
  <2> SUFFICES ASSUME NEW i \in D
               PROVE  \E k \in Served : cluster[k].name = a.list[i].node
    OBVIOUS
  <2>1. PICK v \in Compute : v.basename = a.list[i].node
    <3>1. OfItsCores(a, i)
      BY DEF AllocOK
    <3> QED BY <3>1, Zenon DEF OfItsCores
  <2>2. /\ Compute = {Vertex(graph, at[k]) : k \in DOMAIN seen}
        /\ \A k \in DOMAIN seen : Vertex(graph, at[k]).basename = cluster[k].name
    BY <1>3, <1>4, BuiltCompute
  <2>3. PICK k \in DOMAIN seen : v = Vertex(graph, at[k])
    BY <2>1, <2>2
  <2> QED BY <1>2, <2>1, <2>2, <2>3
<1>8. \A j, k \in Served : cluster[j].name = cluster[k].name => j = k
  BY <1>2, <1>4 DEF NamesDiffer
<1>9. ASSUME NEW k \in Served, NEW i \in D, cluster[k].name = a.list[i].node
      PROVE  e[k] = a.list[i].tasks
  BY <1>9, TasksOnIs
<1>10. ASSUME NEW k \in Served, \A i \in D : cluster[k].name # a.list[i].node
       PROVE  e[k] = 0
  BY <1>10, TasksOnIs
<1> HIDE DEF e
<1>11. \A k \in Served : e[k] \in Nat
  BY <1>6, <1>9, <1>10
<1> DEFINE h == [i \in D |-> CHOOSE k \in Served : cluster[k].name = a.list[i].node]
           V == {h[i] : i \in D}
<1>12. \A i \in D : h[i] \in Served /\ cluster[h[i]].name = a.list[i].node
  BY <1>7
<1>13. h \in [D -> Served] /\ \A i, j \in D : h[i] = h[j] => i = j
  <2>1. h \in [D -> Served]
    BY <1>12
  <2>2. ASSUME NEW i \in D, NEW j \in D, h[i] = h[j] PROVE i = j
    <3>1. a.list[i].node = cluster[h[i]].name /\ a.list[j].node = cluster[h[j]].name
      BY <1>12
    <3>2. a.list[i].node = a.list[j].node
      BY <2>2, <3>1
    <3> QED BY <1>6, <3>2
  <2> QED BY <2>1, <2>2
<1>14. \A k \in Served \ V : e[k] = 0
  <2> SUFFICES ASSUME NEW k \in Served, k \notin V PROVE e[k] = 0
    OBVIOUS
  <2>1. ASSUME NEW i \in D PROVE cluster[k].name # a.list[i].node
    <3>1. h[i] # k
      OBVIOUS
    <3> QED BY <1>8, <1>12, <3>1
  <2> QED BY <1>10, <2>1
<1>15. \A i \in D : tasks[i] = e[h[i]]
  <2> SUFFICES ASSUME NEW i \in D PROVE tasks[i] = e[h[i]]
    OBVIOUS
  <2>1. e[h[i]] = a.list[i].tasks
    BY <1>9, <1>12
  <2> QED BY <2>1
<1>16. V \in SUBSET Served
  BY <1>12
<1>17. Tasks(a) = Total(tasks, D)
  <2>1. Tasks(a) = Sum(tasks) /\ DOMAIN tasks = D
    BY DEF Tasks
  <2> HIDE DEF tasks
  <2> QED BY <2>1, SumIs
<1> HIDE DEF tasks, h
<1>18. Total(tasks, D) = Total(e, V)
  BY <1>5, <1>6, <1>11, <1>13, <1>15, TotalAlong
<1> HIDE DEF V
<1>19. Total(e, Served) = Total(e, V)
  BY <1>5, <1>11, <1>14, <1>16, TotalWithout
<1>20. Total(e, Served) = Tasks(a)
  BY <1>17, <1>18, <1>19
<1>21. ASSUME NEW k \in Served PROVE e[k] <= Tasks(a)
  <2> DEFINE K == {k}
  <2>1. K \in SUBSET Served /\ K = {k}
    OBVIOUS
  <2> HIDE DEF K
  <2>2. Total(e, K) <= Total(e, Served)
    BY <1>5, <1>11, <2>1, TotalPart
  <2>3. e[k] \in Int
    BY <1>11
  <2>4. Total(e, K) = e[k]
    BY <2>1, <2>3, TotalOfOne
  <2> QED BY <1>20, <2>2, <2>4
<1>22. ASSUME a.zone, NEW j \in Served, NEW k \in Served, e[j] > 0, e[k] > 0
       PROVE  j = k
  <2>1. Cardinality(D) = 1
    BY <1>22 DEF AllocOK
  <2>2. PICK i : D = {i}
    BY <1>6, <2>1, FS_Singleton
  <2>3. cluster[j].name = a.list[i].node /\ cluster[k].name = a.list[i].node
    BY <1>10, <1>22, <2>2
  <2> QED BY <1>8, <2>3
<1>23. DOMAIN e = Served
  BY DEF e
<1> QED BY <1>1, <1>5, <1>11, <1>20, <1>21, <1>22, <1>23

\* What is left is not negative, and no less than the difference.
LEMMA AtLeastNone ==
  ASSUME NEW n \in Int
  PROVE  Max({0, n}) \in Nat /\ Max({0, n}) >= n
<1>1. CASE n >= 0
  <2>1. Max({0, n}) = n
    BY <1>1, MaxIs
  <2> QED BY <1>1, <2>1
<1>2. CASE n < 0
  <2>1. Max({0, n}) = 0
    BY <1>2, MaxIs
  <2> QED BY <1>2, <2>1
<1> QED BY <1>1, <1>2

\* The cpu that the jobs hold on a node is what the allocations promise of it,
\* which fits.
LedgerFits == \A k \in DOMAIN Room : Ledger!Taken(Grants, k) <= Room[k]

\* The allocations of different ids are different grants, so that the sums are
\* the same.
LEMMA RInvLedgerFits == RInv /\ IdsDiffer => LedgerFits
<1> SUFFICES ASSUME RInv, IdsDiffer, NEW k \in DOMAIN Room
             PROVE  Ledger!Taken(Grants, k) <= Room[k]
  BY DEF LedgerFits
<1> DEFINE held == [g \in Grants |-> g.tasks[k] * g.order.milli]
           P == Promised(k)
           h == [a \in allocs |-> Granted(a)]
           left == cluster[k].cpu - seen[k].cpu
<1>1. k \in Served /\ sidecar = "serving" /\ k \in DOMAIN seen
  BY DEF Room, Served
<1>2. Room[k] = Max({0, left})
  BY <1>1 DEF Room
<1>3. cluster[k].cpu \in Nat /\ seen[k].cpu \in Nat
  <2>1. k \in DOMAIN cluster
    BY <1>1, SeenInCluster DEF NamesDiffer, RInv
  <2>2. cluster[k].cpu \in Nat
    BY <2>1, ClusterTyped DEF RInv
  <2> QED BY <1>1, <2>2 DEF RInv, SeenOK, Resources
<1>4. IsFiniteSet(allocs)
  BY DEF RInv, AllocsOK
<1>5. (\A a \in allocs : P[a] \in Nat) /\ Total(P, allocs) \in Nat
  <2>1. PICK par, at : Built(graph, par, at, cluster, seen)
    BY <1>1 DEF RInv, GraphOK
  <2> QED BY <1>1, <2>1, PromisedCpu
<1>6. Total(P, allocs) > 0 => Total(P, allocs) <= left
  <2>1. TasksFit
    BY RInvTasksFit
  <2>2. Sum(P) > 0 => seen[k].cpu + Sum(P) <= cluster[k].cpu
    BY <1>1, <2>1 DEF TasksFit, Promised
  <2>3. DOMAIN P = allocs
    BY DEF Promised
  <2> HIDE DEF P
  <2>4. Sum(P) = Total(P, allocs)
    BY <2>3, SumIs
  <2> QED BY <1>3, <1>5, <2>2, <2>4
<1>7. Ledger!Taken(Grants, k) = Total(held, Grants)
  <2>1. Ledger!Taken(Grants, k) = Ledger!Sum(held)
    BY DEF Ledger!Taken
  <2>2. DOMAIN held = Grants
    OBVIOUS
  <2> HIDE DEF held
  <2> QED BY <2>1, <2>2, LedgerSum
<1>8. Total(P, allocs) = Total(held, Grants)
  <2>1. h \in [allocs -> Grants] /\ \A g \in Grants : \E a \in allocs : h[a] = g
    BY DEF Grants
  <2>2. \A a, b \in allocs : h[a] = h[b] => a = b
    <3>1. \A a \in allocs : h[a].id = a.id
      BY DEF Granted
    <3> HIDE DEF h
    <3> QED BY <3>1 DEF IdsDiffer
  <2>3. \A a \in allocs : P[a] = held[h[a]]
    <3> SUFFICES ASSUME NEW a \in allocs PROVE P[a] = held[h[a]]
      OBVIOUS
    <3>1. h[a] = Granted(a) /\ Granted(a) \in Grants
      BY DEF Grants
    <3>2. Granted(a).tasks[k] = TasksOn(a, cluster[k].name)
      BY <1>1 DEF Granted
    <3>3. Granted(a).order.milli = a.milli
      BY DEF Granted, Asked
    <3>4. held[Granted(a)] = Granted(a).tasks[k] * Granted(a).order.milli
      BY <3>1
    <3> QED BY <3>1, <3>2, <3>3, <3>4 DEF Promised
  <2>4. IsFiniteSet(Grants)
    <3>1. h \in Surjection(allocs, Grants)
      BY <2>1 DEF Surjection
    <3> QED BY <1>4, <3>1, FS_Surjection
  <2> HIDE DEF h, held, P
  <2>5. \A g \in Grants : held[g] \in Nat
    BY <1>5, <2>1, <2>3
  <2> QED BY <1>4, <2>1, <2>2, <2>3, <2>4, <2>5, TotalOnto
<1>9. left \in Int
  BY <1>3
<1> HIDE DEF P, held, left
<1>10. Max({0, left}) \in Nat /\ Max({0, left}) >= left
  BY <1>9, AtLeastNone
<1> QED BY <1>2, <1>5, <1>6, <1>7, <1>8, <1>9, <1>10

\* It does after a step.
LEMMA LedgerFitsNext == RInv' /\ IdsDiffer' => LedgerFits'
  BY RInvLedgerFits, PTL

\* A sidecar that does not serve has no room.
LEMMA Closed == ASSUME sidecar # "serving" PROVE Room = <<>>
<1>1. Served = {}
  BY DEF Served
<1> QED BY <1>1 DEF Room

\* Nor has one that ends, or is not begun, in a step.
LEMMA ClosedNext == ASSUME sidecar' # "serving" PROVE Room' = <<>>
<1>1. Served' = {}
  BY DEF Served
<1> QED BY <1>1 DEF Room

\* Without allocations there are no grants.
LEMMA NoGrants == ASSUME allocs = {} PROVE Grants = {}
  BY DEF Grants

\* Nor are there when a step leaves none.
LEMMA NoGrantsNext == ASSUME allocs' = {} PROVE Grants' = {}
  BY DEF Grants

\* While the same is served, the allocations that a step leaves are the grants.
LEMMA GrantsOf ==
  ASSUME UNCHANGED <<cluster, sidecar, seen>>
  PROVE  Room' = Room /\ Grants' = {Granted(a) : a \in allocs'}
<1>1. Served' = Served
  BY DEF Served
<1>2. Room' = Room
  BY <1>1 DEF Room
<1>3. \A a : Granted(a)' = Granted(a)
  BY <1>1 DEF Granted, Asked, TasksOn
<1> QED BY <1>2, <1>3 DEF Grants

\* A step that changes neither leaves the ledger alone.
LEMMA LedgerStays ==
  ASSUME UNCHANGED <<cluster, sidecar, seen, allocs, jobID>>
  PROVE  UNCHANGED Ledger!vars
<1>1. Room' = Room /\ Grants' = Grants
  BY GrantsOf DEF Grants
<1> QED BY <1>1 DEF Ledger!vars, Grants

\* The sidecar is initialised: there is no ledger yet.
LEMMA BuildingIsHidden ==
  ASSUME RInv, InitFluxion \/ BuildNode
  PROVE  UNCHANGED Ledger!vars
<1>1. /\ sidecar # "serving" /\ sidecar' # "serving"
      /\ UNCHANGED <<allocs, jobID>>
  BY DEF InitFluxion, BuildNode, fluxionVars
<1>2. allocs = {} /\ allocs' = {}
  BY <1>1 DEF RInv, AllocsOK
<1>3. Room = <<>> /\ Room' = <<>>
  BY <1>1, Closed, ClosedNext
<1>4. Grants = {} /\ Grants' = {}
  BY <1>2, NoGrants, NoGrantsNext
<1> QED BY <1>1, <1>3, <1>4 DEF Ledger!vars, Grants

\* A graph that is served opens it, with the room that was seen.
LEMMA InitContextOpens ==
  ASSUME RInv, InitContext
  PROVE  Ledger!Open
<1>1. /\ UNCHANGED <<cluster, seen, allocs, jobID>>
      /\ sidecar = "building" /\ sidecar' = "serving"
  BY DEF InitContext, Complete, apiVars, buildVars, fluxionVars
<1>2. allocs = {} /\ allocs' = {}
  BY <1>1 DEF RInv, AllocsOK
<1>3. Room = <<>> /\ Grants = {} /\ Grants' = {}
  BY <1>1, <1>2, Closed, NoGrants, NoGrantsNext
<1>4. Room' = [k \in DOMAIN seen |-> Max({0, cluster[k].cpu - seen[k].cpu})]
  <2>1. Served' = DOMAIN seen
    BY <1>1 DEF Served
  <2> QED BY <1>1, <2>1 DEF Room
<1>5. ASSUME NEW k \in DOMAIN seen
      PROVE  /\ k \in DOMAIN cluster
             /\ Max({0, cluster[k].cpu - seen[k].cpu}) \in Nat
  <2>1. k \in DOMAIN cluster
    BY SeenInCluster DEF NamesDiffer, RInv
  <2>2. cluster[k].cpu \in Nat
    BY <2>1, ClusterTyped DEF RInv
  <2>3. seen[k].cpu \in Nat
    BY DEF RInv, SeenOK, Resources
  <2> DEFINE left == cluster[k].cpu - seen[k].cpu
  <2>4. left \in Int
    BY <2>2, <2>3
  <2> HIDE DEF left
  <2>5. Max({0, left}) \in Nat
    BY <2>4, AtLeastNone
  <2> QED BY <2>1, <2>5 DEF left
<1>6. DOMAIN seen \in SUBSET UNION {DOMAIN c : c \in Clusters}
  <2>1. cluster \in Clusters
    BY DEF RInv, ClusterOK
  <2> QED BY <1>5, <2>1
<1>7. Room' \in [DOMAIN seen -> Nat]
  BY <1>4, <1>5
<1> QED BY <1>1, <1>3, <1>6, <1>7 DEF Ledger!Open, Grants

\* Its end closes it.
LEMMA RestartCloses ==
  ASSUME SidecarRestarts
  PROVE  Ledger!Close
<1>1. sidecar' # "serving" /\ allocs' = {} /\ jobID' = 1
  BY DEF SidecarRestarts
<1>2. Room' = <<>>
  BY <1>1, ClosedNext
<1>3. Grants' = {}
  BY <1>1, NoGrantsNext
<1> QED BY <1>1, <1>2, <1>3 DEF Ledger!Close, Grants

\* A cancel request that finds its allocation gives back that grant, one that
\* does not gives back nothing.
LEMMA CancelReleases ==
  ASSUME RInv, IdsDiffer, NEW id, Cancel(id)
  PROVE  [Ledger!Release]_(Ledger!vars)
<1>1. UNCHANGED <<cluster, sidecar, seen, jobID>> /\ allocs' = Without(id)
  BY DEF Cancel, apiVars, buildVars
<1>2. CASE \A a \in allocs : a.id # id
  <2>1. allocs' = allocs
    BY <1>1, <1>2 DEF Without
  <2> QED BY <1>1, <2>1, LedgerStays
<1>3. CASE \E a \in allocs : a.id = id
  <2>1. PICK a \in allocs : a.id = id
    BY <1>3
  <2>2. allocs' = allocs \ {a}
    BY <1>1, <2>1 DEF Without, IdsDiffer
  <2>3. Room' = Room /\ Grants' = {Granted(b) : b \in allocs'}
    BY <1>1, GrantsOf
  <2>4. \A b \in allocs : Granted(b) = Granted(a) => b = a
    <3>1. \A b : Granted(b).id = b.id
      BY DEF Granted
    <3> QED BY <2>1, <3>1 DEF IdsDiffer
  <2>5. Grants' = Grants \ {Granted(a)} /\ Granted(a) \in Grants
    BY <2>1, <2>2, <2>3, <2>4 DEF Grants
  <2> QED BY <1>1, <2>3, <2>5 DEF Ledger!Release, Grants
<1> QED BY <1>2, <1>3

\* An allocation and its answer are a grant that fits the order.
LEMMA MatchGrants ==
  ASSUME RInv, IdsDiffer, LedgerFits', RInv',
         NEW shape \in PodShapes, NEW count \in 1 .. MaxCount, Match(shape, count)
  PROVE  Ledger!Grant
<1> DEFINE spec == PreparePodJobSpec(shape)
           o == Asked(count, spec.cpu, Sum(shape.cpus), CreateJobSpec(spec, count).zone)
<1>1. /\ UNCHANGED <<cluster, sidecar, seen>> /\ sidecar = "serving"
      /\ jobID' = jobID + 1
  BY DEF Match, apiVars, buildVars
<1>2. PICK chosen \in MatchAllocate(CreateJobSpec(spec, count)) :
         LET a == Allocation(jobID, shape, count, chosen)
         IN  /\ allocs' = allocs \cup {a}
             /\ pods' = pods \cup Planned(a.list, matches, jobID, a.milli)
  BY MatchTakes
<1> DEFINE a == Allocation(jobID, shape, count, chosen)
<1>3. allocs' = allocs \cup {a}
  BY <1>2
<1>4. a.id = jobID /\ a.count = count /\ Asked(a.count, a.cpu, a.milli, a.zone) = o
  BY DEF Allocation, CreateJobSpec
<1>5. o.count = count /\ o.complete = (a.cpu = 1 \/ a.zone) /\ o.together = a.zone
  BY DEF Allocation, CreateJobSpec, Asked
<1> HIDE DEF a, o
<1>6. AllocOK(a)
  <2>1. AllocOK(Allocation(jobID, shape, count, chosen))
    BY <1>1, MatchFits
  <2> QED BY <2>1 DEF a
<1>7. Room' = Room /\ Grants' = {Granted(b) : b \in allocs'}
  BY <1>1, GrantsOf
<1> DEFINE e == Granted(a).tasks
<1>8. /\ DOMAIN e = Served /\ IsFiniteSet(Served)
      /\ \A k \in Served : e[k] \in Nat /\ e[k] <= Tasks(a)
      /\ Total(e, Served) = Tasks(a)
      /\ a.zone => \A j, k \in Served : e[j] > 0 /\ e[k] > 0 => j = k
  BY <1>1, <1>6, TasksServed
<1>9. Granted(a) = [id |-> jobID, order |-> o, tasks |-> e]
  BY <1>4 DEF Granted
<1> HIDE DEF e
<1>10. Tasks(a) \in Nat /\ Tasks(a) <= count /\ count \in Nat
       /\ (a.cpu = 1 \/ a.zone => Tasks(a) = count)
  <2>1. count \in Nat
    <3>1. MaxCount \in Nat
      BY ResourceAssumption
    <3> QED BY <3>1
  <2>2. Total(e, Served) \in Nat
    BY <1>8, TotalNat
  <2> QED BY <1>4, <1>6, <1>8, <2>1, <2>2 DEF AllocOK
<1>11. e \in [DOMAIN Room -> 0 .. o.count]
  <2>1. DOMAIN Room = Served
    BY DEF Room
  <2>2. e = [k \in Served |-> TasksOn(a, cluster[k].name)]
    BY DEF e, Granted
  <2>3. \A k \in Served : e[k] \in 0 .. count
    BY <1>8, <1>10
  <2> QED BY <1>5, <2>1, <2>2, <2>3
<1>12. Ledger!Fits(o, e)
  <2>1. Ledger!TasksOf(e) = Tasks(a)
    <3>1. Ledger!TasksOf(e) = Ledger!Sum(e)
      BY DEF Ledger!TasksOf
    <3> QED BY <1>8, <3>1, LedgerSum
  <2> QED BY <1>5, <1>8, <1>10, <2>1 DEF Ledger!Fits
<1>13. \A g \in Grants : g.id # jobID
  <2>1. \A b \in allocs : Granted(b).id = b.id /\ b.id # jobID
    BY DEF Granted, IdsDiffer, RInv, IdsOK
  <2> QED BY <2>1 DEF Grants
<1>14. Grants' = Grants \cup {[id |-> jobID, order |-> o, tasks |-> e]}
  BY <1>3, <1>7, <1>9 DEF Grants
<1>15. \A k \in DOMAIN Room : Ledger!Taken(Grants', k) <= Room[k]
  BY <1>7 DEF LedgerFits
<1>16. o \in {LET s == PreparePodJobSpec(pod)
               IN  Asked(n, s.cpu, Sum(pod.cpus), CreateJobSpec(s, n).zone) :
                  pod \in PodShapes, n \in 1 .. MaxCount}
  BY DEF o
<1> QED BY <1>1, <1>7, <1>11, <1>12, <1>13, <1>14, <1>15, <1>16 DEF Ledger!Grant, Grants

\* Every step of the sidecar is one of the ledger, or leaves it alone.
LEMMA LedgerStep ==
  RInv /\ IdsDiffer /\ [Next]_vars /\ RInv' /\ IdsDiffer' => [Ledger!Next]_(Ledger!vars)
<1> SUFFICES ASSUME RInv, IdsDiffer, [Next]_vars, RInv', IdsDiffer'
             PROVE  [Ledger!Next]_(Ledger!vars)
  OBVIOUS
<1>1. CASE InitFluxion \/ BuildNode
  BY <1>1, BuildingIsHidden
<1>2. CASE InitContext
  BY <1>2, InitContextOpens DEF Ledger!Next
<1>3. CASE SidecarRestarts
  BY <1>3, RestartCloses DEF Ledger!Next
<1>4. CASE \E shape \in PodShapes, count \in 1 .. MaxCount : Match(shape, count)
  <2>1. LedgerFits'
    BY LedgerFitsNext
  <2> QED BY <1>4, <2>1, MatchGrants DEF Ledger!Next
<1>5. CASE \E id \in cancels : Cancel(id)
  BY <1>5, CancelReleases DEF Ledger!Next
<1>6. CASE \E p \in pods : BindPods(p.job) \/ ReleasePods(p.job) \/ PodsFinish(p.job)
  <2>1. UNCHANGED <<cluster, sidecar, seen, allocs, jobID>>
    BY <1>6 DEF BindPods, ReleasePods, PodsFinish, apiVars, buildVars, fluxionVars
  <2> QED BY <2>1, LedgerStays
<1>7. CASE \E k \in DOMAIN cluster, load \in Loads : OthersChange(k, load)
  <2>1. UNCHANGED <<cluster, sidecar, seen, allocs, jobID>>
    BY <1>7 DEF OthersChange, buildVars, fluxionVars
  <2> QED BY <2>1, LedgerStays
<1>8. CASE UNCHANGED vars
  <2>1. UNCHANGED <<cluster, sidecar, seen, allocs, jobID>>
    BY <1>8 DEF vars, apiVars, buildVars, fluxionVars
  <2> QED BY <2>1, LedgerStays
<1> QED BY <1>1, <1>2, <1>3, <1>4, <1>5, <1>6, <1>7, <1>8 DEF Next

\* The graph, the jobspec, the cores Fluxion takes, the answer and the way it is
\* read, restarts and cancels of any ids: all together they keep the ledger, for
\* every node list, pod shape, size of job and load.
THEOREM ImplementsLedger == Spec => LedgerSpec
<1>1. Init => Ledger!Init /\ IdsDiffer
  <2> SUFFICES ASSUME Init PROVE Ledger!Init /\ IdsDiffer
    OBVIOUS
  <2>1. sidecar # "serving" /\ allocs = {} /\ jobID = 1
    BY DEF Init
  <2>2. Room = <<>>
    BY <2>1, Closed
  <2>3. Grants = {}
    BY <2>1, NoGrants
  <2>4. Ledger!Init
    BY <2>1, <2>2, <2>3 DEF Ledger!Init, Grants
  <2> QED BY <2>1, <2>4 DEF IdsDiffer
<1>2. RInv /\ IdsDiffer /\ [Next]_vars => IdsDiffer'
  BY IdsDifferNext
<1>3. RInv /\ IdsDiffer /\ [Next]_vars /\ RInv' /\ IdsDiffer' => [Ledger!Next]_(Ledger!vars)
  BY LedgerStep
<1> QED BY <1>1, <1>2, <1>3, AlwaysRInv, PTL DEF Spec, LedgerSpec, Ledger!Spec
=============================================================================
