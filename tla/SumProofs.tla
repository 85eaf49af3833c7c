----------------------------- MODULE SumProofs -----------------------------
(***************************************************************************)
(* Finite sums.  MapThenSumSet adds up along an order that CHOOSE picks;   *)
(* the lemmas say that the order does not matter: a sum over a set with a  *)
(* further element is the sum over the set plus what is at the element.    *)
(*                                                                         *)
(* The library's induction over finite sets takes the statement as an      *)
(* operator.  Here it is taken as a set, that of the subsets for which the *)
(* statement holds.                                                        *)
(***************************************************************************)
EXTENDS Integers, FiniteSets, FiniteSetsExt, FiniteSetTheorems,
        WellFoundedInduction, TLAPS

\* What holds of a set when it holds of all smaller ones holds of S.
LEMMA SmallerSubsets ==
  ASSUME NEW S, IsFiniteSet(S), NEW Good,
         \A T \in SUBSET S :
            (\A U \in SUBSET T : U # T => U \in Good) => T \in Good
  PROVE  SUBSET S \subseteq Good
<1> DEFINE Bad == (SUBSET S) \ Good
<1> SUFFICES ASSUME Bad # {} PROVE FALSE
  OBVIOUS
<1>1. IsWellFoundedOn(StrictSubsetOrdering(S), FiniteSubsetsOf(S))
  BY FS_StrictSubsetOrderingWellFounded
<1>2. Bad \subseteq FiniteSubsetsOf(S)
  BY FS_FiniteSubsetsOfFinite
<1> HIDE DEF Bad
<1>3. PICK T \in Bad : \A U \in Bad : <<U, T>> \notin StrictSubsetOrdering(S)
  BY <1>1, <1>2, WFMin
<1>4. \A U \in SUBSET T : U # T => U \in Good
  BY <1>3 DEF StrictSubsetOrdering, Bad
<1> QED BY <1>3, <1>4 DEF Bad

-----------------------------------------------------------------------------
\* The sum of f over S, and the recursion behind it.
Total(f, S) == MapThenSumSet(LAMBDA x : f[x], S)
Chosen(s) == CHOOSE x \in s : TRUE
SumsUp(f, S, g) ==
    g = [s \in SUBSET S |->
            IF s = {} THEN 0 ELSE f[Chosen(s)] + g[s \ {Chosen(s)}]]

\* What is chosen from a set is in it.
LEMMA ChosenIn == ASSUME NEW s, s # {} PROVE Chosen(s) \in s
  BY DEF Chosen

\* What a step of the recursion comes to.
LEMMA SumsUpAt ==
  ASSUME NEW f, NEW S, NEW g, SumsUp(f, S, g), NEW s \in SUBSET S
  PROVE  g[s] = IF s = {} THEN 0 ELSE f[Chosen(s)] + g[s \ {Chosen(s)}]
  BY DEF SumsUp

\* Two solutions agree where both are defined.
LEMMA SumsAgree ==
  ASSUME NEW f, NEW S, NEW g, SumsUp(f, S, g),
         NEW e, NEW R, NEW h, SumsUp(e, R, h),
         NEW T, IsFiniteSet(T), T \subseteq S, T \subseteq R,
         \A x \in T : f[x] = e[x]
  PROVE  g[T] = h[T]
<1> DEFINE Good == {U \in SUBSET T : g[U] = h[U]}
<1>1. ASSUME NEW U \in SUBSET T, \A V \in SUBSET U : V # U => V \in Good
      PROVE  U \in Good
  <2>1. /\ g[U] = IF U = {} THEN 0 ELSE f[Chosen(U)] + g[U \ {Chosen(U)}]
        /\ h[U] = IF U = {} THEN 0 ELSE e[Chosen(U)] + h[U \ {Chosen(U)}]
    <3>1. U \in SUBSET S /\ U \in SUBSET R
      OBVIOUS
    <3>2. g[U] = IF U = {} THEN 0 ELSE f[Chosen(U)] + g[U \ {Chosen(U)}]
      BY <3>1, SumsUpAt
    <3>3. h[U] = IF U = {} THEN 0 ELSE e[Chosen(U)] + h[U \ {Chosen(U)}]
      BY <3>1 DEF SumsUp
    <3> QED BY <3>2, <3>3
  <2>2. CASE U # {}
    <3>1. Chosen(U) \in U
      BY <2>2, ChosenIn
    <3>2. U \ {Chosen(U)} \in Good
      BY <1>1, <3>1
    <3>3. f[Chosen(U)] = e[Chosen(U)]
      BY <3>1
    <3> QED BY <2>1, <2>2, <3>2, <3>3
  <2> QED BY <2>1, <2>2
<1> HIDE DEF Good
<1>2. SUBSET T \subseteq Good
  BY <1>1, SmallerSubsets
<1> QED BY <1>2 DEF Good

\* What a solution, if there is one, gives for the whole of s.
Value(f, s) == (CHOOSE g : SumsUp(f, s, g))[s]

\* The recursion has a solution.
LEMMA Solvable ==
  ASSUME NEW f, NEW S, IsFiniteSet(S)
  PROVE  \E g : SumsUp(f, S, g)
<1> DEFINE Good == {U \in SUBSET S : \E g : SumsUp(f, U, g)}
<1>1. ASSUME NEW T \in SUBSET S, \A U \in SUBSET T : U # T => U \in Good
      PROVE  T \in Good
  <2> DEFINE c == Chosen(T)
             h == [s \in SUBSET T |->
                     IF s = T /\ T # {} THEN f[c] + Value(f, T \ {c}) ELSE Value(f, s)]
  <2>1. Value(f, {}) = 0
    <3>1. SumsUp(f, {}, [s \in SUBSET {} |-> 0])
      BY DEF SumsUp
    <3> DEFINE g == CHOOSE x : SumsUp(f, {}, x)
    <3>2. SumsUp(f, {}, g)
      BY <3>1
    <3> HIDE DEF g
    <3>3. g[{}] = 0
      BY <3>2, SumsUpAt
    <3> QED BY <3>3 DEF g, Value
  <2>2. ASSUME NEW s \in SUBSET T, s # T, s # {}
        PROVE  Value(f, s) = f[Chosen(s)] + Value(f, s \ {Chosen(s)})
    <3> DEFINE r == s \ {Chosen(s)}
               g == CHOOSE x : SumsUp(f, s, x)
               e == CHOOSE x : SumsUp(f, r, x)
    <3>1. Chosen(s) \in s
      BY <2>2, ChosenIn
    <3>2. r # T /\ r \in SUBSET T
      BY <3>1
    <3>3. s \in Good /\ r \in Good
      BY <1>1, <2>2, <3>2
    <3>4. SumsUp(f, s, g) /\ SumsUp(f, r, e)
      BY <3>3
    <3>5. IsFiniteSet(r)
      BY FS_Subset
    <3>6. r \subseteq s
      OBVIOUS
    <3> HIDE DEF g, e, r
    <3>7. g[r] = e[r]
      BY <3>4, <3>5, <3>6, SumsAgree
    <3>8. g[s] = f[Chosen(s)] + g[r]
      BY <2>2, <3>4, SumsUpAt DEF r
    <3> QED BY <3>7, <3>8 DEF g, e, r, Value
  <2>3. T # {} => c \in T /\ T \ {c} # T
    BY ChosenIn
  <2>4. ASSUME NEW s \in SUBSET T
        PROVE  h[s] = IF s = {} THEN 0 ELSE f[Chosen(s)] + h[s \ {Chosen(s)}]
    <3>1. CASE s = {}
      BY <2>1, <3>1
    <3>2. CASE s = T /\ T # {}
      BY <2>3, <3>2
    <3>3. CASE s # T /\ s # {}
      <4>1. Chosen(s) \in s
        BY <3>3, ChosenIn
      <4>2. s \ {Chosen(s)} # T /\ s \ {Chosen(s)} \in SUBSET T
        BY <4>1
      <4> QED BY <2>2, <3>3, <4>2
    <3> QED BY <3>1, <3>2, <3>3
  <2>5. h = [s \in SUBSET T |-> h[s]]
    OBVIOUS
  <2> HIDE DEF h
  <2>6. SumsUp(f, T, h)
    BY <2>4, <2>5 DEF SumsUp
  <2> QED BY <2>6
<1> HIDE DEF Good
<1>2. SUBSET S \subseteq Good
  BY <1>1, SmallerSubsets
<1> QED BY <1>2 DEF Good

\* MapThenSumSet computes one.
LEMMA TotalSumsUp ==
  ASSUME NEW f, NEW S, IsFiniteSet(S)
  PROVE  \E g : SumsUp(f, S, g) /\ Total(f, S) = g[S]
<1> DEFINE g == CHOOSE x : SumsUp(f, S, x)
<1>1. SumsUp(f, S, g)
  BY Solvable
<1>2. Total(f, S) = g[S]
  BY DEF Total, MapThenSumSet, MapThenFoldSet, SumsUp, Chosen
<1> QED BY <1>1, <1>2

\* Sums of integers are integers.
LEMMA SumsInt ==
  ASSUME NEW f, NEW S, IsFiniteSet(S), \A x \in S : f[x] \in Int,
         NEW g, SumsUp(f, S, g), NEW T \in SUBSET S
  PROVE  g[T] \in Int
<1> DEFINE Good == {U \in SUBSET S : g[U] \in Int}
<1>1. ASSUME NEW U \in SUBSET S, \A V \in SUBSET U : V # U => V \in Good
      PROVE  U \in Good
  <2>1. g[U] = IF U = {} THEN 0 ELSE f[Chosen(U)] + g[U \ {Chosen(U)}]
    BY SumsUpAt
  <2>2. CASE U # {}
    <3>1. Chosen(U) \in U
      BY <2>2, ChosenIn
    <3>2. U \ {Chosen(U)} \in Good
      BY <1>1, <3>1
    <3> QED BY <2>1, <2>2, <3>1, <3>2
  <2> QED BY <2>1, <2>2
<1> HIDE DEF Good
<1>2. SUBSET S \subseteq Good
  BY <1>1, SmallerSubsets
<1> QED BY <1>2 DEF Good

\* Any element may be taken out first.
LEMMA AnyOrder ==
  ASSUME NEW f, NEW S, IsFiniteSet(S), \A x \in S : f[x] \in Int,
         NEW g, SumsUp(f, S, g)
  PROVE  \A T \in SUBSET S : \A x \in T : g[T] = f[x] + g[T \ {x}]
<1> DEFINE Good == {U \in SUBSET S : \A x \in U : g[U] = f[x] + g[U \ {x}]}
<1>1. ASSUME NEW U \in SUBSET S, \A V \in SUBSET U : V # U => V \in Good
      PROVE  U \in Good
  <2> SUFFICES ASSUME NEW x \in U PROVE g[U] = f[x] + g[U \ {x}]
    OBVIOUS
  <2> DEFINE c == Chosen(U)
  <2>1. c \in U
    BY ChosenIn
  <2>2. g[U] = f[c] + g[U \ {c}]
    BY SumsUpAt
  <2>3. CASE x # c
    <3>1. U \ {c} \in Good /\ U \ {x} \in Good
      BY <1>1, <2>1
    <3> DEFINE rest == g[(U \ {c}) \ {x}]
    <3> HIDE DEF c
    <3>2. g[U \ {c}] = f[x] + rest
      BY <2>1, <2>3, <3>1
    <3>3. (U \ {c}) \ {x} = (U \ {x}) \ {c}
      OBVIOUS
    <3>4. g[U \ {x}] = f[c] + rest
      BY <2>1, <2>3, <3>1, <3>3
    <3>5. f[x] \in Int /\ f[c] \in Int
      BY <2>1
    <3>6. rest \in Int
      BY SumsInt, (U \ {c}) \ {x} \in SUBSET S
    <3> HIDE DEF rest, Good
    <3> QED BY <2>2, <3>2, <3>4, <3>5, <3>6
  <2> QED BY <2>2, <2>3
<1> HIDE DEF Good
<1>2. SUBSET S \subseteq Good
  BY <1>1, SmallerSubsets
<1> QED BY <1>2 DEF Good

-----------------------------------------------------------------------------
(* What the sums are used for.                                             *)

\* Nothing adds up to zero.
LEMMA TotalOfNone == ASSUME NEW f PROVE Total(f, {}) = 0
<1>1. PICK g : SumsUp(f, {}, g) /\ Total(f, {}) = g[{}]
  BY TotalSumsUp, FS_EmptySet
<1> QED BY <1>1, SumsUpAt

\* Integers add up to an integer.
LEMMA TotalInt ==
  ASSUME NEW f, NEW S, IsFiniteSet(S), \A x \in S : f[x] \in Int
  PROVE  Total(f, S) \in Int
<1>1. PICK g : SumsUp(f, S, g) /\ Total(f, S) = g[S]
  BY TotalSumsUp
<1> QED BY <1>1, SumsInt

\* Only what is at the elements counts.
LEMMA TotalsAgree ==
  ASSUME NEW f, NEW e, NEW S, IsFiniteSet(S), \A x \in S : f[x] = e[x]
  PROVE  Total(f, S) = Total(e, S)
<1>1. PICK g : SumsUp(f, S, g) /\ Total(f, S) = g[S]
  BY TotalSumsUp
<1>2. PICK h : SumsUp(e, S, h) /\ Total(e, S) = h[S]
  BY TotalSumsUp
<1> QED BY <1>1, <1>2, SumsAgree

\* One element more.
LEMMA TotalWith ==
  ASSUME NEW f, NEW S, IsFiniteSet(S), NEW x, x \notin S,
         \A y \in S \cup {x} : f[y] \in Int
  PROVE  Total(f, S \cup {x}) = f[x] + Total(f, S)
<1> DEFINE T == S \cup {x}
<1>1. IsFiniteSet(T)
  BY FS_AddElement
<1>2. PICK g : SumsUp(f, T, g) /\ Total(f, T) = g[T]
  BY <1>1, TotalSumsUp
<1>3. PICK h : SumsUp(f, S, h) /\ Total(f, S) = h[S]
  BY TotalSumsUp
<1>4. g[T] = f[x] + g[T \ {x}]
  BY <1>1, <1>2, AnyOrder
<1>5. T \ {x} = S
  OBVIOUS
<1>6. g[S] = h[S]
  BY <1>2, <1>3, SumsAgree
<1> QED BY <1>2, <1>3, <1>4, <1>5, <1>6

\* A change at one element.
LEMMA TotalChanged ==
  ASSUME NEW f, NEW e, NEW S, IsFiniteSet(S), NEW x \in S,
         \A y \in S : f[y] \in Int /\ e[y] \in Int,
         \A y \in S \ {x} : f[y] = e[y]
  PROVE  Total(e, S) = Total(f, S) - f[x] + e[x]
<1> DEFINE R == S \ {x}
<1>1. IsFiniteSet(R) /\ R \cup {x} = S /\ x \notin R
  BY FS_RemoveElement
<1>2. Total(f, S) = f[x] + Total(f, R) /\ Total(e, S) = e[x] + Total(e, R)
  BY <1>1, TotalWith
<1>3. Total(f, R) = Total(e, R) /\ Total(f, R) \in Int
  BY <1>1, TotalsAgree, TotalInt
<1> QED BY <1>2, <1>3

-----------------------------------------------------------------------------
(* Induction, one step at a time.                                          *)

\* What holds of no elements, and of one more, holds of all subsets.
LEMMA OneMore ==
  ASSUME NEW S, IsFiniteSet(S), NEW Good, {} \in Good,
         \A T \in SUBSET S : \A x \in S \ T : T \in Good => T \cup {x} \in Good
  PROVE  SUBSET S \subseteq Good
<1>1. ASSUME NEW T \in SUBSET S, \A U \in SUBSET T : U # T => U \in Good
      PROVE  T \in Good
  <2>1. CASE T = {}
    BY <2>1
  <2>2. CASE T # {}
    <3>1. PICK x \in T : TRUE
      BY <2>2
    <3>2. T \ {x} \in Good /\ T = (T \ {x}) \cup {x}
      BY <1>1, <3>1
    <3>3. T \ {x} \in SUBSET S /\ x \in S \ (T \ {x})
      BY <3>1
    <3> QED BY <3>2, <3>3
  <2> QED BY <2>1, <2>2
<1> QED BY <1>1, SmallerSubsets

\* What holds of 0, and of the next number, holds up to n.
LEMMA NextNumber ==
  ASSUME NEW n \in Nat, NEW Good, 0 \in Good,
         \A k \in 0 .. n - 1 : k \in Good => k + 1 \in Good
  PROVE  0 .. n \subseteq Good
<1> DEFINE I    == 1 .. n
           Upto == {T \in SUBSET I : \A k \in 0 .. n : T = 1 .. k => k \in Good}
<1>1. ASSUME NEW T \in SUBSET I, \A U \in SUBSET T : U # T => U \in Upto
      PROVE  T \in Upto
  <2> SUFFICES ASSUME NEW k \in 0 .. n, T = 1 .. k PROVE k \in Good
    OBVIOUS
  <2>1. CASE k = 0
    BY <2>1
  <2>2. CASE k # 0
    <3>1. k - 1 \in 0 .. n - 1 /\ k - 1 \in 0 .. n /\ (k - 1) + 1 = k
      BY <2>2
    <3>2. 1 .. k - 1 \in SUBSET T /\ k \in T /\ k \notin 1 .. k - 1
      BY <2>2
    <3>3. 1 .. k - 1 \in Upto
      BY <1>1, <3>2
    <3>4. k - 1 \in Good
      BY <3>1, <3>3
    <3> QED BY <3>1, <3>4
  <2> QED BY <2>1, <2>2
<1>2. IsFiniteSet(I)
  BY FS_Interval
<1> HIDE DEF Upto, I
<1>3. SUBSET I \subseteq Upto
  BY <1>1, <1>2, SmallerSubsets
<1>4. ASSUME NEW k \in 0 .. n PROVE k \in Good
  <2>1. 1 .. k \in SUBSET I
    BY DEF I
  <2>2. 1 .. k \in Upto
    BY <1>3, <2>1
  <2> QED BY <2>2 DEF Upto
<1> QED BY <1>4

-----------------------------------------------------------------------------
(* Sums that are compared.                                                 *)

\* Sums of natural numbers are natural.
LEMMA TotalNat ==
  ASSUME NEW f, NEW S, IsFiniteSet(S), \A x \in S : f[x] \in Nat
  PROVE  Total(f, S) \in Nat
<1> DEFINE Good == {T \in SUBSET S : Total(f, T) \in Nat}
<1>1. {} \in Good
  BY TotalOfNone
<1>2. ASSUME NEW T \in SUBSET S, NEW x \in S \ T, T \in Good
      PROVE  T \cup {x} \in Good
  <2>1. Total(f, T \cup {x}) = f[x] + Total(f, T)
    BY TotalWith, FS_Subset
  <2> QED BY <1>2, <2>1
<1> HIDE DEF Good
<1>3. SUBSET S \subseteq Good
  BY <1>1, <1>2, OneMore
<1> QED BY <1>3 DEF Good

\* A sum of shares is at most that many times the sum of the wholes.
LEMMA TotalShares ==
  ASSUME NEW f, NEW e, NEW S, IsFiniteSet(S), NEW c \in Nat,
         \A x \in S : f[x] \in Nat /\ e[x] \in Nat /\ f[x] * c <= e[x]
  PROVE  Total(f, S) * c <= Total(e, S)
<1> DEFINE Good == {T \in SUBSET S : Total(f, T) * c <= Total(e, T)}
<1>1. {} \in Good
  BY TotalOfNone
<1>2. ASSUME NEW T \in SUBSET S, NEW x \in S \ T, T \in Good
      PROVE  T \cup {x} \in Good
  <2>1. /\ Total(f, T \cup {x}) = f[x] + Total(f, T)
        /\ Total(e, T \cup {x}) = e[x] + Total(e, T)
    BY TotalWith, FS_Subset
  <2>2. Total(f, T) \in Nat /\ Total(e, T) \in Nat
    BY TotalNat, FS_Subset
  <2> DEFINE a == f[x] b == Total(f, T)
  <2>3. a \in Nat /\ b \in Nat
    BY <2>2
  <2> HIDE DEF a, b
  <2>4. (a + b) * c = a * c + b * c
    BY <2>3
  <2>5. a * c <= e[x] /\ b * c <= Total(e, T) /\ a * c \in Nat /\ b * c \in Nat
    BY <1>2, <2>3 DEF a, b
  <2>6. (a + b) * c <= e[x] + Total(e, T)
    BY <2>2, <2>4, <2>5
  <2> QED BY <2>1, <2>6 DEF a, b
<1> HIDE DEF Good
<1>3. SUBSET S \subseteq Good
  BY <1>1, <1>2, OneMore
<1> QED BY <1>3 DEF Good

\* What is bounded element by element is bounded in all.
LEMMA TotalBound ==
  ASSUME NEW f, NEW e, NEW S, IsFiniteSet(S), NEW c \in Nat,
         \A x \in S : f[x] \in Nat /\ e[x] \in Nat /\ f[x] <= c * e[x]
  PROVE  Total(f, S) <= c * Total(e, S)
<1> DEFINE Good == {T \in SUBSET S : Total(f, T) <= c * Total(e, T)}
<1>1. {} \in Good
  BY TotalOfNone
<1>2. ASSUME NEW T \in SUBSET S, NEW x \in S \ T, T \in Good
      PROVE  T \cup {x} \in Good
  <2>1. /\ Total(f, T \cup {x}) = f[x] + Total(f, T)
        /\ Total(e, T \cup {x}) = e[x] + Total(e, T)
    BY TotalWith, FS_Subset
  <2>2. Total(f, T) \in Nat /\ Total(e, T) \in Nat
    BY TotalNat, FS_Subset
  <2> DEFINE a == e[x] b == Total(e, T)
  <2>3. a \in Nat /\ b \in Nat
    BY <2>2
  <2> HIDE DEF a, b
  <2>4. c * (a + b) = c * a + c * b
    BY <2>3
  <2>5. f[x] <= c * a /\ Total(f, T) <= c * b /\ c * a \in Nat /\ c * b \in Nat
    BY <1>2, <2>3 DEF a, b
  <2>6. f[x] + Total(f, T) <= c * (a + b)
    BY <2>2, <2>4, <2>5
  <2> QED BY <2>1, <2>6 DEF a, b
<1> HIDE DEF Good
<1>3. SUBSET S \subseteq Good
  BY <1>1, <1>2, OneMore
<1> QED BY <1>3 DEF Good

\* Elements that count for nothing may be left out.
LEMMA TotalWithout ==
  ASSUME NEW f, NEW S, IsFiniteSet(S), NEW T \in SUBSET S,
         \A x \in S : f[x] \in Int, \A x \in S \ T : f[x] = 0
  PROVE  Total(f, S) = Total(f, T)
<1> DEFINE R == S \ T
           Good == {U \in SUBSET R : Total(f, T \cup U) = Total(f, T)}
<1>1. {} \in Good
  <2>1. T \cup {} = T
    OBVIOUS
  <2> QED BY <2>1
<1>2. ASSUME NEW U \in SUBSET R, NEW x \in R \ U, U \in Good
      PROVE  U \cup {x} \in Good
  <2>1. T \cup (U \cup {x}) = (T \cup U) \cup {x} /\ x \notin T \cup U
    OBVIOUS
  <2>2. T \cup U \in SUBSET S
    OBVIOUS
  <2>3. IsFiniteSet(T \cup U) /\ \A y \in (T \cup U) \cup {x} : f[y] \in Int
    BY <2>2, FS_Subset
  <2> DEFINE V == T \cup U
  <2> HIDE DEF V
  <2>4. Total(f, V \cup {x}) = f[x] + Total(f, V)
    BY <2>1, <2>3, TotalWith DEF V
  <2>5. Total(f, V) \in Int /\ f[x] = 0
    BY <2>3, TotalInt DEF V
  <2>6. Total(f, V) = Total(f, T)
    BY <1>2 DEF V
  <2>7. Total(f, V \cup {x}) = Total(f, T)
    BY <2>4, <2>5, <2>6
  <2>8. Total(f, T \cup (U \cup {x})) = Total(f, T)
    BY <2>1, <2>7 DEF V
  <2>9. U \cup {x} \in SUBSET R
    OBVIOUS
  <2> QED BY <2>8, <2>9
<1>3. IsFiniteSet(R)
  BY FS_Subset
<1> HIDE DEF Good, R
<1>4. SUBSET R \subseteq Good
  BY <1>1, <1>2, <1>3, OneMore
<1>5. T \cup R = S
  BY DEF R
<1>6. R \in Good
  BY <1>4
<1> QED BY <1>5, <1>6 DEF Good

\* Elements that are counted along an injection.
LEMMA TotalAlong ==
  ASSUME NEW S, IsFiniteSet(S), NEW T, IsFiniteSet(T),
         NEW h \in [S -> T], \A x, y \in S : h[x] = h[y] => x = y,
         NEW f, NEW e, \A x \in S : f[x] = e[h[x]], \A y \in T : e[y] \in Nat
  PROVE  Total(f, S) = Total(e, {h[x] : x \in S})
<1> DEFINE Good == {U \in SUBSET S : Total(f, U) = Total(e, {h[x] : x \in U})}
<1>1. {} \in Good
  <2>1. {h[x] : x \in {}} = {}
    OBVIOUS
  <2> QED BY <2>1, TotalOfNone
<1>2. ASSUME NEW U \in SUBSET S, NEW z \in S \ U, U \in Good
      PROVE  U \cup {z} \in Good
  <2> DEFINE V == {h[x] : x \in U}
  <2>1. {h[x] : x \in U \cup {z}} = V \cup {h[z]}
    OBVIOUS
  <2>2. h[z] \notin V
    OBVIOUS
  <2>3. V \in SUBSET T
    OBVIOUS
  <2>4. IsFiniteSet(V) /\ IsFiniteSet(U)
    BY <2>3, FS_Subset
  <2>5. \A y \in V \cup {h[z]} : e[y] \in Int
    BY <2>3
  <2>6. \A x \in U \cup {z} : f[x] \in Int
    OBVIOUS
  <2>7. Total(f, U) = Total(e, V)
    BY <1>2
  <2> HIDE DEF V
  <2>8. Total(e, V \cup {h[z]}) = e[h[z]] + Total(e, V)
    BY <2>2, <2>4, <2>5, TotalWith
  <2>9. Total(f, U \cup {z}) = f[z] + Total(f, U)
    BY <2>4, <2>6, TotalWith
  <2>10. Total(f, U \cup {z}) = Total(e, V \cup {h[z]})
    BY <2>7, <2>8, <2>9
  <2> QED BY <2>1, <2>10
<1> HIDE DEF Good
<1>3. SUBSET S \subseteq Good
  BY <1>1, <1>2, OneMore
<1> QED BY <1>3 DEF Good

\* The same, when every element is met.
LEMMA TotalOnto ==
  ASSUME NEW S, IsFiniteSet(S), NEW T, IsFiniteSet(T),
         NEW h \in [S -> T], \A x, y \in S : h[x] = h[y] => x = y,
         \A y \in T : \E x \in S : h[x] = y,
         NEW f, NEW e, \A x \in S : f[x] = e[h[x]], \A y \in T : e[y] \in Nat
  PROVE  Total(f, S) = Total(e, T)
<1> DEFINE V == {h[x] : x \in S}
<1>1. V = T
  OBVIOUS
<1>2. Total(f, S) = Total(e, V)
  BY TotalAlong
<1> QED BY <1>1, <1>2

\* The sum over one element.
LEMMA TotalOfOne ==
  ASSUME NEW f, NEW S, NEW x, S = {x}, f[x] \in Int
  PROVE  Total(f, S) = f[x]
<1> DEFINE R == {}
<1>1. R \cup {x} = S /\ x \notin R /\ IsFiniteSet(R) /\ Total(f, R) = 0
  BY FS_EmptySet, TotalOfNone
<1> DEFINE T == R \cup {x}
<1>2. T = S /\ \A y \in T : f[y] \in Int
  BY <1>1
<1> HIDE DEF R
<1>3. Total(f, T) = f[x] + Total(f, R)
  BY <1>1, <1>2, TotalWith
<1> HIDE DEF T
<1> QED BY <1>1, <1>2, <1>3

\* A part of a sum of natural numbers is at most the whole.
LEMMA TotalPart ==
  ASSUME NEW f, NEW S, IsFiniteSet(S), NEW T \in SUBSET S, \A x \in S : f[x] \in Nat
  PROVE  Total(f, T) <= Total(f, S)
<1> DEFINE R == S \ T
           Good == {U \in SUBSET R : Total(f, T) <= Total(f, T \cup U)}
<1>1. {} \in Good
  <2>1. T \cup {} = T
    OBVIOUS
  <2>2. Total(f, T) \in Nat
    BY TotalNat, FS_Subset
  <2> QED BY <2>1, <2>2
<1>2. ASSUME NEW U \in SUBSET R, NEW x \in R \ U, U \in Good
      PROVE  U \cup {x} \in Good
  <2> DEFINE V == T \cup U
  <2>1. T \cup (U \cup {x}) = V \cup {x} /\ x \notin V
    OBVIOUS
  <2>2. V \in SUBSET S
    OBVIOUS
  <2>3. IsFiniteSet(V) /\ IsFiniteSet(T) /\ \A y \in V \cup {x} : f[y] \in Nat
    BY <2>2, FS_Subset
  <2>4. Total(f, T) <= Total(f, V)
    BY <1>2
  <2> HIDE DEF V
  <2>5. Total(f, V \cup {x}) = f[x] + Total(f, V)
    BY <2>1, <2>3, TotalWith
  <2>6. Total(f, V) \in Nat /\ Total(f, T) \in Nat
    BY <2>3, TotalNat
  <2>7. Total(f, T) <= Total(f, V \cup {x})
    BY <2>3, <2>4, <2>5, <2>6
  <2> QED BY <2>1, <2>7
<1>3. IsFiniteSet(R) /\ T \cup R = S
  BY FS_Subset
<1> HIDE DEF Good, R
<1>4. SUBSET R \subseteq Good
  BY <1>1, <1>2, <1>3, OneMore
<1>5. R \in Good
  BY <1>4
<1> QED BY <1>3, <1>5 DEF Good

\* Shares of disjoint sets in X add up to no more than X has.
LEMMA DisjointShares ==
  ASSUME NEW S, IsFiniteSet(S), NEW A, NEW X, IsFiniteSet(X),
         \A x, y \in S : x # y => A[x] \cap A[y] = {},
         NEW f, NEW c \in Nat,
         \A x \in S : f[x] \in Nat /\ f[x] <= c * Cardinality(A[x] \cap X)
  PROVE  Total(f, S) <= c * Cardinality(X)
<1> DEFINE In(U) == {z \in X : \E x \in U : z \in A[x]}
           Good == {U \in SUBSET S : Total(f, U) <= c * Cardinality(In(U))}
<1>1. {} \in Good
  <2>1. In({}) = {}
    OBVIOUS
  <2>2. Total(f, {}) = 0 /\ Cardinality({}) = 0
    BY TotalOfNone, FS_EmptySet
  <2>3. Total(f, {}) <= c * Cardinality(In({}))
    BY <2>1, <2>2
  <2> QED BY <2>3
<1>2. ASSUME NEW U \in SUBSET S, NEW x \in S \ U, U \in Good
      PROVE  U \cup {x} \in Good
  <2> DEFINE B == A[x] \cap X  C == In(U)
  <2>1. In(U \cup {x}) = C \cup B /\ C \cap B = {}
    OBVIOUS
  <2>2. C \in SUBSET X /\ B \in SUBSET X
    OBVIOUS
  <2>3. Total(f, U) <= c * Cardinality(C)
    BY <1>2
  <2>4. f[x] \in Nat /\ f[x] <= c * Cardinality(B)
    OBVIOUS
  <2> HIDE DEF B, C, In
  <2>5. IsFiniteSet(B) /\ IsFiniteSet(C)
    BY <2>2, FS_Subset
  <2>6. Cardinality(B) \in Nat /\ Cardinality(C) \in Nat
    BY <2>5, FS_CardinalityType
  <2>7. Cardinality(C \cup B) = Cardinality(C) + Cardinality(B)
    <3>1. Cardinality(C \cup B) = Cardinality(C) + Cardinality(B) - Cardinality(C \cap B)
      BY <2>5, FS_Union
    <3>2. Cardinality(C \cap B) = 0
      BY <2>1, FS_EmptySet
    <3> QED BY <2>6, <3>1, <3>2
  <2>8. IsFiniteSet(U) /\ Total(f, U) \in Nat /\ \A y \in U \cup {x} : f[y] \in Int
    <3>1. IsFiniteSet(U)
      BY FS_Subset
    <3>2. \A y \in U \cup {x} : f[y] \in Nat
      OBVIOUS
    <3> QED BY <3>1, <3>2, TotalNat
  <2>9. Total(f, U \cup {x}) = f[x] + Total(f, U)
    BY <2>8, TotalWith
  <2> DEFINE b == Cardinality(B) d == Cardinality(C)
  <2> HIDE DEF b, d
  <2>10. b \in Nat /\ d \in Nat
    BY <2>6 DEF b, d
  <2>11. c * (d + b) = c * d + c * b /\ c * d \in Nat /\ c * b \in Nat
    BY <2>10
  <2>12. f[x] + Total(f, U) <= c * (d + b)
    BY <2>3, <2>4, <2>8, <2>11 DEF b, d
  <2>13. Total(f, U \cup {x}) <= c * Cardinality(In(U \cup {x}))
    BY <2>1, <2>7, <2>9, <2>12 DEF b, d
  <2>14. U \cup {x} \in SUBSET S
    OBVIOUS
  <2> QED BY <2>13, <2>14
<1> HIDE DEF Good, In
<1>3. SUBSET S \subseteq Good
  BY <1>1, <1>2, OneMore
<1>4. Total(f, S) <= c * Cardinality(In(S))
  BY <1>3 DEF Good
<1>5. In(S) \in SUBSET X
  BY DEF In
<1>6. Cardinality(In(S)) <= Cardinality(X) /\ Cardinality(X) \in Nat
      /\ Cardinality(In(S)) \in Nat
  BY <1>5, FS_Subset, FS_CardinalityType
<1>7. Total(f, S) \in Nat
  BY TotalNat
<1> DEFINE m == Cardinality(In(S)) n == Cardinality(X)
<1> HIDE DEF m, n
<1>8. \A i, j \in Nat : i <= j => c * i <= c * j
  OBVIOUS
<1>9. c * m <= c * n /\ c * m \in Nat /\ c * n \in Nat
  BY <1>6, <1>8 DEF m, n
<1> QED BY <1>4, <1>7, <1>9 DEF m, n

\* A finite set has a subset of each smaller size.
LEMMA SubsetOfSize ==
  ASSUME NEW S, IsFiniteSet(S), NEW n \in 0 .. Cardinality(S)
  PROVE  \E T \in SUBSET S : Cardinality(T) = n
<1> DEFINE Good == {U \in SUBSET S : \A k \in 0 .. Cardinality(U) :
                        \E T \in SUBSET U : Cardinality(T) = k}
<1>1. {} \in Good
  BY FS_EmptySet
<1>2. ASSUME NEW U \in SUBSET S, NEW x \in S \ U, U \in Good
      PROVE  U \cup {x} \in Good
  <2>1. IsFiniteSet(U)
    BY FS_Subset
  <2>2. Cardinality(U \cup {x}) = Cardinality(U) + 1 /\ Cardinality(U) \in Nat
    BY <2>1, FS_AddElement, FS_CardinalityType
  <2>3. ASSUME NEW k \in 0 .. Cardinality(U \cup {x})
        PROVE  \E T \in SUBSET (U \cup {x}) : Cardinality(T) = k
    <3>1. CASE k = Cardinality(U \cup {x})
      BY <3>1
    <3>2. CASE k # Cardinality(U \cup {x})
      <4>1. k \in 0 .. Cardinality(U)
        BY <2>2, <3>2
      <4>2. PICK T \in SUBSET U : Cardinality(T) = k
        BY <1>2, <4>1
      <4> QED BY <4>2
    <3> QED BY <3>1, <3>2
  <2> QED BY <2>3
<1> HIDE DEF Good
<1>3. SUBSET S \subseteq Good
  BY <1>1, <1>2, OneMore
<1> QED BY <1>3 DEF Good
=============================================================================
