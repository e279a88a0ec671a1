----------------------------- MODULE SumTheorems ------------------------------
(***************************************************************************)
(* Facts about SumFunctionOnSet, the sum the ledger and the refunds are    *)
(* stated with.  The fold behind it takes the elements of a set in an      *)
(* order of its own; that the order does not matter is shown by an         *)
(* induction over finite sets, written with a set of sets in the place of  *)
(* a predicate (FiniteInduction), so that every use of it is first order.  *)
(***************************************************************************)
EXTENDS Integers, FiniteSets, Functions, FiniteSetTheorems, WellFoundedInduction, TLAPS

\* Induction over the subsets of a finite set: a set of them that has the empty one and is
\* closed under adding an element has the whole set.
LEMMA FiniteInduction ==
  ASSUME NEW S, IsFiniteSet(S), NEW T \in SUBSET (SUBSET S), {} \in T,
         \A s \in T : \A x \in S \ s : s \cup {x} \in T
  PROVE  S \in T
<1> DEFINE Bad == (SUBSET S) \ T
<1>1. SUFFICES ASSUME S \notin T PROVE FALSE
  OBVIOUS
<1>2. IsWellFoundedOn(StrictSubsetOrdering(S), SUBSET S)
  BY FS_StrictSubsetOrderingWellFounded, FS_FiniteSubsetsOfFinite
<1>3. Bad \subseteq SUBSET S /\ Bad # {}
  BY <1>1
<1>4. PICK s \in Bad : \A t \in Bad : ~(<<t, s>> \in StrictSubsetOrdering(S))
  <2> HIDE DEF Bad
  <2> QED
    BY <1>2, <1>3, WFMin
<1>5. PICK x \in s : TRUE
  BY <1>4
<1>6. s \ {x} \in T
  <2>1. s \ {x} \in SUBSET S /\ s \in SUBSET S /\ s \ {x} \subseteq s /\ s \ {x} # s
    BY <1>4, <1>5
  <2>2. <<s \ {x}, s>> \in StrictSubsetOrdering(S)
    BY <2>1 DEF StrictSubsetOrdering
  <2> QED
    BY <1>4, <2>1, <2>2
<1>7. (s \ {x}) \cup {x} = s
  BY <1>5
<1> QED
  BY <1>4, <1>5, <1>6, <1>7

\* g gives every subset of S its sum of f, whatever the order the elements are added in.
Adds(g, f, S) ==
  /\ g \in [SUBSET S -> Int]
  /\ g[{}] = 0
  /\ \A s \in SUBSET S : \A x \in S \ s : g[s \cup {x}] = g[s] + f[x]

\* Such a g exists: it is extended by one element at a time.
LEMMA AddsExists ==
  ASSUME NEW S, IsFiniteSet(S), NEW f, \A x \in S : f[x] \in Int
  PROVE  \E g : Adds(g, f, S)
<1> DEFINE T == {s \in SUBSET S : \E g : Adds(g, f, s)}
<1>1. {} \in T
  <2>1. Adds([s \in SUBSET {} |-> 0], f, {})
    BY DEF Adds
  <2> QED
    BY <2>1
<1>2. ASSUME NEW t \in T, NEW x \in S \ t PROVE t \cup {x} \in T
  <2>1. PICK g : Adds(g, f, t)
    BY <1>2
  <2> DEFINE u == t \cup {x}
             h == [s \in SUBSET u |-> IF x \in s THEN g[s \ {x}] + f[x] ELSE g[s]]
  <2>2. h \in [SUBSET u -> Int]
    <3> SUFFICES ASSUME NEW s \in SUBSET u PROVE h[s] \in Int
      OBVIOUS
    <3>1. CASE x \in s
      <4>1. s \ {x} \in SUBSET t
        OBVIOUS
      <4>2. g[s \ {x}] \in Int /\ f[x] \in Int
        BY <4>1, <2>1 DEF Adds
      <4> QED
        BY <3>1, <4>2
    <3>2. CASE x \notin s
      <4>1. s \in SUBSET t
        BY <3>2
      <4>2. g[s] \in Int
        BY <4>1, <2>1 DEF Adds
      <4> QED
        BY <3>2, <4>2
    <3> QED
      BY <3>1, <3>2
  <2>3. h[{}] = 0
    BY <2>1 DEF Adds
  <2>4. ASSUME NEW s \in SUBSET u, NEW y \in u \ s PROVE h[s \cup {y}] = h[s] + f[y]
    <3>1. s \cup {y} \in SUBSET u
      OBVIOUS
    <3>2. CASE y = x
      <4>1. s \in SUBSET t /\ (s \cup {y}) \ {x} = s /\ x \in s \cup {y} /\ x \notin s
        BY <3>2
      <4> HIDE DEF u
      <4> QED
        BY <4>1, <3>1, <3>2
    <3>3. CASE y # x /\ x \notin s
      <4>1. s \in SUBSET t /\ y \in t \ s /\ x \notin s \cup {y}
        BY <3>3
      <4>2. g[s \cup {y}] = g[s] + f[y]
        BY <4>1, <2>1 DEF Adds
      <4> HIDE DEF u
      <4> QED
        BY <4>1, <4>2, <3>1, <3>3
    <3>4. CASE y # x /\ x \in s
      <4>1. s \ {x} \in SUBSET t /\ y \in t \ (s \ {x}) /\ x \in s \cup {y}
            /\ (s \cup {y}) \ {x} = (s \ {x}) \cup {y}
        BY <3>4
      <4>2. g[(s \ {x}) \cup {y}] = g[s \ {x}] + f[y]
        BY <4>1, <2>1 DEF Adds
      <4>3. g[s \ {x}] \in Int /\ f[x] \in Int /\ f[y] \in Int
        BY <4>1, <2>1 DEF Adds
      <4>4. h[s \cup {y}] = g[(s \ {x}) \cup {y}] + f[x] /\ h[s] = g[s \ {x}] + f[x]
        <5> HIDE DEF u
        <5> QED
          BY <4>1, <3>1, <3>4
      <4> HIDE DEF u, h
      <4> QED
        BY <4>2, <4>3, <4>4
    <3> QED
      BY <3>2, <3>3, <3>4
  <2>5. Adds(h, f, u)
    <3> HIDE DEF h, u
    <3> QED
      BY <2>2, <2>3, <2>4 DEF Adds
  <2> QED
    BY <2>5
<1>3. S \in T
  <2> HIDE DEF T
  <2>1. T \in SUBSET (SUBSET S)
    BY DEF T
  <2> QED
    BY <1>1, <1>2, <2>1, FiniteInduction
<1> QED
  BY <1>3

\* The fold computes what g gives: g solves the recursion of the fold, and nothing else does.
LEMMA SumIs ==
  ASSUME NEW S, IsFiniteSet(S), NEW f, NEW g, Adds(g, f, S), \A x \in S : f[x] \in Int
  PROVE  SumFunctionOnSet(f, S) = g[S]
<1> DEFINE eq(h) == h = [s \in SUBSET S |-> IF s = {} THEN 0
                             ELSE f[CHOOSE x \in s : TRUE] + h[s \ {CHOOSE x \in s : TRUE}]]
<1> DEFINE iter == CHOOSE h : eq(h)
<1>1. SumFunctionOnSet(f, S) = iter[S]
  BY DEF SumFunctionOnSet, FoldFunctionOnSet, MapThenFoldSet
<1> HIDE DEF iter
<1>2. eq(g)
  <2> DEFINE r == [s \in SUBSET S |-> IF s = {} THEN 0
                     ELSE f[CHOOSE x \in s : TRUE] + g[s \ {CHOOSE x \in s : TRUE}]]
  <2>1. ASSUME NEW s \in SUBSET S PROVE g[s] = r[s]
    <3>1. CASE s = {}
      BY <3>1 DEF Adds
    <3>2. CASE s # {}
      <4>1. PICK x : x = CHOOSE y \in s : TRUE
        OBVIOUS
      <4>2. x \in s
        BY <3>2, <4>1
      <4>3. s \ {x} \in SUBSET S /\ x \in S \ (s \ {x}) /\ (s \ {x}) \cup {x} = s
        BY <4>2
      <4>4. g[s] = g[s \ {x}] + f[x]
        BY <4>3 DEF Adds
      <4>5. g[s \ {x}] \in Int /\ f[x] \in Int
        BY <4>3 DEF Adds
      <4>6. r[s] = f[x] + g[s \ {x}]
        BY <3>2, <4>1
      <4> QED
        BY <4>4, <4>5, <4>6
    <3> QED
      BY <3>1, <3>2
  <2>2. g = [s \in SUBSET S |-> g[s]]
    BY DEF Adds
  <2> QED
    BY <2>1, <2>2
<1>3. eq(iter)
  <2> HIDE DEF eq
  <2> QED
    BY <1>2 DEF iter
<1>4. ASSUME NEW s \in SUBSET S PROVE iter[s] = IF s = {} THEN 0
                   ELSE f[CHOOSE x \in s : TRUE] + iter[s \ {CHOOSE x \in s : TRUE}]
  BY <1>3
<1> DEFINE Bad == {s \in SUBSET S : iter[s] # g[s]}
<1>5. SUFFICES ASSUME Bad # {} PROVE FALSE
  BY <1>1
<1>6. IsWellFoundedOn(StrictSubsetOrdering(S), SUBSET S)
  BY FS_StrictSubsetOrderingWellFounded, FS_FiniteSubsetsOfFinite
<1>7. PICK s \in Bad : \A t \in Bad : ~(<<t, s>> \in StrictSubsetOrdering(S))
  <2>1. Bad \subseteq SUBSET S
    OBVIOUS
  <2> HIDE DEF Bad
  <2> QED
    BY <1>5, <1>6, <2>1, WFMin
<1>8. s # {}
  BY <1>4, <1>7 DEF Adds
<1>9. PICK x : x = CHOOSE y \in s : TRUE
  OBVIOUS
<1>10. x \in s
  BY <1>8, <1>9
<1>11. s \ {x} \in SUBSET S /\ s \in SUBSET S /\ x \in S \ (s \ {x}) /\ (s \ {x}) \cup {x} = s
       /\ s \ {x} # s
  BY <1>7, <1>10
<1>12. iter[s] = f[x] + iter[s \ {x}]
  BY <1>4, <1>8, <1>9, <1>11
<1>13. iter[s \ {x}] = g[s \ {x}]
  <2>1. <<s \ {x}, s>> \in StrictSubsetOrdering(S)
    BY <1>11 DEF StrictSubsetOrdering
  <2> QED
    BY <1>7, <1>11, <2>1
<1>14. g[s] = g[s \ {x}] + f[x]
  BY <1>11 DEF Adds
<1>15. g[s \ {x}] \in Int /\ f[x] \in Int
  BY <1>11 DEF Adds
<1>16. iter[s] = g[s]
  BY <1>12, <1>13, <1>14, <1>15
<1> QED
  BY <1>7, <1>16

\* The sum of nothing.
LEMMA SumEmpty ==
  ASSUME NEW f PROVE SumFunctionOnSet(f, {}) = 0
<1>1. Adds([s \in SUBSET {} |-> 0], f, {})
  BY DEF Adds
<1>2. IsFiniteSet({})
  BY FS_EmptySet
<1> QED
  BY <1>1, <1>2, SumIs

\* A sum of integers is an integer.
LEMMA SumInt ==
  ASSUME NEW S, IsFiniteSet(S), NEW f, \A x \in S : f[x] \in Int
  PROVE  SumFunctionOnSet(f, S) \in Int
<1>1. PICK g : Adds(g, f, S)
  BY AddsExists
<1>2. SumFunctionOnSet(f, S) = g[S]
  BY <1>1, SumIs
<1> QED
  BY <1>1, <1>2 DEF Adds

\* A new element adds its term.
LEMMA SumAdd ==
  ASSUME NEW S, IsFiniteSet(S), NEW x, x \notin S, NEW f, \A y \in S \cup {x} : f[y] \in Int
  PROVE  SumFunctionOnSet(f, S \cup {x}) = SumFunctionOnSet(f, S) + f[x]
<1> DEFINE u == S \cup {x}
<1>1. IsFiniteSet(u)
  BY FS_AddElement
<1>2. PICK g : Adds(g, f, u)
  <2> HIDE DEF u
  <2>1. \A y \in u : f[y] \in Int
    BY DEF u
  <2> QED
    BY <1>1, <2>1, AddsExists
<1>3. SumFunctionOnSet(f, u) = g[u]
  <2> HIDE DEF u
  <2>1. \A y \in u : f[y] \in Int
    BY DEF u
  <2> QED
    BY <1>1, <1>2, <2>1, SumIs
<1> DEFINE h == [s \in SUBSET S |-> g[s]]
<1>4. Adds(h, f, S)
  <2>1. \A s \in SUBSET S : s \in SUBSET u /\ h[s] = g[s]
    OBVIOUS
  <2>2. h \in [SUBSET S -> Int]
    BY <1>2, <2>1 DEF Adds
  <2>3. ASSUME NEW s \in SUBSET S, NEW y \in S \ s PROVE h[s \cup {y}] = h[s] + f[y]
    <3>1. s \cup {y} \in SUBSET S /\ s \in SUBSET u /\ y \in u \ s
      OBVIOUS
    <3>2. g[s \cup {y}] = g[s] + f[y]
      BY <1>2, <3>1 DEF Adds
    <3> QED
      BY <2>1, <3>1, <3>2
  <2>4. h[{}] = 0
    BY <1>2 DEF Adds
  <2> HIDE DEF h
  <2> QED
    BY <2>2, <2>3, <2>4 DEF Adds
<1>5. SumFunctionOnSet(f, S) = h[S]
  <2> HIDE DEF h
  <2> QED
    BY <1>4, SumIs
<1>6. h[S] = g[S]
  OBVIOUS
<1>7. g[S \cup {x}] = g[S] + f[x]
  BY <1>2 DEF Adds
<1> QED
  BY <1>3, <1>5, <1>6, <1>7

\* Nothing negative adds up to something negative.
LEMMA SumNat ==
  ASSUME NEW S, IsFiniteSet(S), NEW f, \A x \in S : f[x] \in Nat
  PROVE  SumFunctionOnSet(f, S) \in Nat
<1> DEFINE T == {s \in SUBSET S : SumFunctionOnSet(f, s) \in Nat}
<1>1. {} \in T
  BY SumEmpty
<1>2. ASSUME NEW s \in T, NEW x \in S \ s
      PROVE  s \cup {x} \in T
  <2>1. IsFiniteSet(s)
    BY FS_Subset
  <2>2. x \notin s /\ \A y \in s \cup {x} : f[y] \in Int
    OBVIOUS
  <2> HIDE DEF T
  <2>3. SumFunctionOnSet(f, s \cup {x}) = SumFunctionOnSet(f, s) + f[x]
    BY <2>1, <2>2, SumAdd
  <2> QED
    BY <2>3 DEF T
<1> HIDE DEF T
<1>3. T \in SUBSET (SUBSET S)
  BY DEF T
<1>4. S \in T
  BY <1>1, <1>2, <1>3, FiniteInduction
<1> QED
  BY <1>4 DEF T

\* Equal terms give equal sums.
LEMMA SumSame ==
  ASSUME NEW S, IsFiniteSet(S), NEW f, NEW g, \A x \in S : f[x] \in Int /\ g[x] = f[x]
  PROVE  SumFunctionOnSet(f, S) = SumFunctionOnSet(g, S)
<1>1. PICK h : Adds(h, f, S)
  BY AddsExists
<1>2. Adds(h, g, S)
  BY <1>1 DEF Adds
<1>3. SumFunctionOnSet(f, S) = h[S]
  BY <1>1, SumIs
<1>4. SumFunctionOnSet(g, S) = h[S]
  BY <1>2, SumIs
<1> QED
  BY <1>3, <1>4

\* One more term at the end.
LEMMA SumUpTo ==
  ASSUME NEW n \in Nat, NEW f, \A i \in 1 .. n + 1 : f[i] \in Int
  PROVE  SumFunctionOnSet(f, 1 .. n + 1) = SumFunctionOnSet(f, 1 .. n) + f[n + 1]
<1>1. 1 .. n + 1 = (1 .. n) \cup {n + 1} /\ n + 1 \notin 1 .. n
  OBVIOUS
<1>2. IsFiniteSet(1 .. n)
  BY FS_Interval
<1>3. \A i \in (1 .. n) \cup {n + 1} : f[i] \in Int
  BY <1>1
<1>4. SumFunctionOnSet(f, (1 .. n) \cup {n + 1}) = SumFunctionOnSet(f, 1 .. n) + f[n + 1]
  <2>1. PICK S, x : S = 1 .. n /\ x = n + 1
    OBVIOUS
  <2>2. IsFiniteSet(S) /\ x \notin S /\ \A i \in S \cup {x} : f[i] \in Int
    BY <1>1, <1>2, <1>3, <2>1
  <2>3. SumFunctionOnSet(f, S \cup {x}) = SumFunctionOnSet(f, S) + f[x]
    BY <2>2, SumAdd
  <2> QED
    BY <2>1, <2>3
<1> QED
  BY <1>1, <1>4

\* No terms, two, three and four of them.
LEMMA SumShort ==
  ASSUME NEW f
  PROVE  /\ SumFunctionOnSet(f, 1 .. 0) = 0
         /\ (\A i \in 1 .. 2 : f[i] \in Int) => SumFunctionOnSet(f, 1 .. 2) = f[1] + f[2]
         /\ (\A i \in 1 .. 3 : f[i] \in Int) => SumFunctionOnSet(f, 1 .. 3) = f[1] + f[2] + f[3]
         /\ (\A i \in 1 .. 4 : f[i] \in Int) =>
              SumFunctionOnSet(f, 1 .. 4) = f[1] + f[2] + f[3] + f[4]
<1>0. SumFunctionOnSet(f, 1 .. 0) = 0
  <2>1. 1 .. 0 = {}
    OBVIOUS
  <2> QED
    BY <2>1, SumEmpty
<1>1. (\A i \in 1 .. 1 : f[i] \in Int) => SumFunctionOnSet(f, 1 .. 1) = f[1]
  <2> SUFFICES ASSUME \A i \in 1 .. 0 + 1 : f[i] \in Int
               PROVE  SumFunctionOnSet(f, 1 .. 0 + 1) = f[0 + 1]
    OBVIOUS
  <2>1. SumFunctionOnSet(f, 1 .. 0 + 1) = SumFunctionOnSet(f, 1 .. 0) + f[0 + 1]
    BY SumUpTo
  <2> QED
    BY <1>0, <2>1
<1>2. (\A i \in 1 .. 2 : f[i] \in Int) => SumFunctionOnSet(f, 1 .. 2) = f[1] + f[2]
  <2> SUFFICES ASSUME \A i \in 1 .. 1 + 1 : f[i] \in Int
               PROVE  SumFunctionOnSet(f, 1 .. 1 + 1) = f[1] + f[1 + 1]
    OBVIOUS
  <2>1. SumFunctionOnSet(f, 1 .. 1 + 1) = SumFunctionOnSet(f, 1 .. 1) + f[1 + 1]
    BY SumUpTo
  <2> QED
    BY <1>1, <2>1
<1>3. (\A i \in 1 .. 3 : f[i] \in Int) => SumFunctionOnSet(f, 1 .. 3) = f[1] + f[2] + f[3]
  <2> SUFFICES ASSUME \A i \in 1 .. 2 + 1 : f[i] \in Int
               PROVE  SumFunctionOnSet(f, 1 .. 2 + 1) = f[1] + f[2] + f[2 + 1]
    OBVIOUS
  <2>1. SumFunctionOnSet(f, 1 .. 2 + 1) = SumFunctionOnSet(f, 1 .. 2) + f[2 + 1]
    BY SumUpTo
  <2> QED
    BY <1>2, <2>1
<1>4. (\A i \in 1 .. 4 : f[i] \in Int) =>
         SumFunctionOnSet(f, 1 .. 4) = f[1] + f[2] + f[3] + f[4]
  <2> SUFFICES ASSUME \A i \in 1 .. 3 + 1 : f[i] \in Int
               PROVE  SumFunctionOnSet(f, 1 .. 3 + 1) = f[1] + f[2] + f[3] + f[3 + 1]
    OBVIOUS
  <2>1. SumFunctionOnSet(f, 1 .. 3 + 1) = SumFunctionOnSet(f, 1 .. 3) + f[3 + 1]
    BY SumUpTo
  <2> QED
    BY <1>3, <2>1
<1> QED
  BY <1>0, <1>2, <1>3, <1>4

\* Negating every term negates the sum.
LEMMA SumNegated ==
  ASSUME NEW S, IsFiniteSet(S), NEW f, NEW g,
         \A x \in S : f[x] \in Int /\ g[x] = -f[x]
  PROVE  SumFunctionOnSet(g, S) = -SumFunctionOnSet(f, S)
<1>1. PICK h : Adds(h, f, S)
  BY AddsExists
<1> DEFINE k == [s \in SUBSET S |-> 0 - h[s]]
<1>2. Adds(k, g, S)
  <2>1. \A s \in SUBSET S : h[s] \in Int /\ k[s] = 0 - h[s] /\ 0 - h[s] \in Int
    BY <1>1 DEF Adds
  <2>2. k \in [SUBSET S -> Int]
    BY <2>1
  <2>3. ASSUME NEW s \in SUBSET S, NEW y \in S \ s PROVE k[s \cup {y}] = k[s] + g[y]
    <3>1. s \cup {y} \in SUBSET S
      OBVIOUS
    <3>2. h[s \cup {y}] = h[s] + f[y]
      BY <1>1 DEF Adds
    <3>3. f[y] \in Int /\ g[y] = -f[y]
      OBVIOUS
    <3>4. /\ h[s] \in Int /\ k[s] = 0 - h[s]
          /\ h[s \cup {y}] \in Int /\ k[s \cup {y}] = 0 - h[s \cup {y}]
      BY <2>1, <3>1
    <3> HIDE DEF k
    <3> QED
      BY <3>2, <3>3, <3>4
  <2>4. k[{}] = 0
    BY <1>1, <2>1 DEF Adds
  <2> HIDE DEF k
  <2> QED
    BY <2>2, <2>3, <2>4 DEF Adds
<1>3. SumFunctionOnSet(f, S) = h[S]
  BY <1>1, SumIs
<1>4. SumFunctionOnSet(g, S) = k[S]
  <2> HIDE DEF k
  <2>1. \A x \in S : g[x] \in Int
    OBVIOUS
  <2> QED
    BY <1>2, <2>1, SumIs
<1> QED
  BY <1>1, <1>3, <1>4 DEF Adds

\* Two families of terms, each with its label: as many of each label on both sides.
Paired(s, d, t, e) ==
  /\ Cardinality(d) = Cardinality(e)
  /\ \A i \in d : Cardinality({k \in d : s[k] = s[i]}) = Cardinality({k \in e : t[k] = s[i]})

\* Terms with equal labels can be taken away in pairs.
LEMMA PairedLess ==
  ASSUME NEW d, NEW e, NEW s, NEW t, NEW x, NEW y,
         IsFiniteSet(d), IsFiniteSet(e), x \notin d, y \notin e, s[x] = t[y],
         Paired(s, d \cup {x}, t, e \cup {y})
  PROVE  Paired(s, d, t, e)
<1>1. Cardinality(d) = Cardinality(e)
  <2>1. Cardinality(d \cup {x}) = Cardinality(d) + 1 /\ Cardinality(e \cup {y}) = Cardinality(e) + 1
    BY FS_AddElement
  <2>2. Cardinality(d) \in Nat /\ Cardinality(e) \in Nat
    BY FS_CardinalityType
  <2>3. Cardinality(d \cup {x}) = Cardinality(e \cup {y})
    BY DEF Paired
  <2> QED
    BY <2>1, <2>2, <2>3
<1>2. ASSUME NEW i \in d
      PROVE  Cardinality({k \in d : s[k] = s[i]}) = Cardinality({k \in e : t[k] = s[i]})
  <2> DEFINE D == {k \in d : s[k] = s[i]}
             E == {k \in e : t[k] = s[i]}
  <2>1. IsFiniteSet(D) /\ IsFiniteSet(E)
    BY FS_Subset
  <2>2. Cardinality({k \in d \cup {x} : s[k] = s[i]})
          = Cardinality({k \in e \cup {y} : t[k] = s[i]})
    BY DEF Paired
  <2>3. CASE s[x] = s[i]
    <3>1. {k \in d \cup {x} : s[k] = s[i]} = D \cup {x} /\ x \notin D
      BY <2>3
    <3>2. {k \in e \cup {y} : t[k] = s[i]} = E \cup {y} /\ y \notin E
      BY <2>3
    <3> HIDE DEF D, E
    <3>3. Cardinality(D \cup {x}) = Cardinality(D) + 1 /\ Cardinality(E \cup {y}) = Cardinality(E) + 1
      BY <2>1, <3>1, <3>2, FS_AddElement
    <3>4. Cardinality(D) \in Nat /\ Cardinality(E) \in Nat
      BY <2>1, FS_CardinalityType
    <3>5. Cardinality(D \cup {x}) = Cardinality(E \cup {y})
      BY <2>2, <3>1, <3>2
    <3>6. Cardinality(D) = Cardinality(E)
      BY <3>3, <3>4, <3>5
    <3> QED
      BY <3>6 DEF D, E
  <2>4. CASE s[x] # s[i]
    <3>1. {k \in d \cup {x} : s[k] = s[i]} = D
      BY <2>4
    <3>2. {k \in e \cup {y} : t[k] = s[i]} = E
      BY <2>4
    <3> QED
      BY <2>2, <3>1, <3>2
  <2> QED
    BY <2>3, <2>4
<1> QED
  BY <1>1, <1>2 DEF Paired

\* Families with as many terms of each label have the same sum, if the label fixes the term.
LEMMA SumPaired ==
  ASSUME NEW D, IsFiniteSet(D), NEW E, IsFiniteSet(E), NEW s, NEW t, Paired(s, D, t, E),
         NEW f, NEW g, \A i \in D : f[i] \in Int, \A k \in E : g[k] \in Int,
         \A i \in D, k \in E : s[i] = t[k] => f[i] = g[k]
  PROVE  SumFunctionOnSet(f, D) = SumFunctionOnSet(g, E)
<1> DEFINE T == {d \in SUBSET D : \A e \in SUBSET E : Paired(s, d, t, e) =>
                   SumFunctionOnSet(f, d) = SumFunctionOnSet(g, e)}
<1>1. {} \in T
  <2> SUFFICES ASSUME NEW e \in SUBSET E, Paired(s, {}, t, e)
               PROVE  SumFunctionOnSet(f, {}) = SumFunctionOnSet(g, e)
    OBVIOUS
  <2>1. IsFiniteSet(e) /\ Cardinality(e) = 0
    BY FS_Subset, FS_EmptySet DEF Paired
  <2>2. e = {}
    BY <2>1, FS_EmptySet
  <2> QED
    BY <2>2, SumEmpty
<1>2. ASSUME NEW d \in T, NEW x \in D \ d PROVE d \cup {x} \in T
  <2> SUFFICES ASSUME NEW e \in SUBSET E, Paired(s, d \cup {x}, t, e)
               PROVE  SumFunctionOnSet(f, d \cup {x}) = SumFunctionOnSet(g, e)
    OBVIOUS
  <2>1. IsFiniteSet(d) /\ IsFiniteSet(e) /\ IsFiniteSet(d \cup {x})
    BY FS_Subset
  <2>2. PICK y \in e : t[y] = s[x]
    <3> DEFINE A == {k \in d \cup {x} : s[k] = s[x]}
               B == {k \in e : t[k] = s[x]}
    <3>1. IsFiniteSet(A) /\ IsFiniteSet(B) /\ x \in A
      BY <2>1, FS_Subset
    <3>2. Cardinality(A) = Cardinality(B)
      BY DEF Paired
    <3> HIDE DEF A, B
    <3>3. B # {}
      BY <3>1, <3>2, FS_EmptySet
    <3> QED
      BY <3>3 DEF B
  <2>3. IsFiniteSet(e \ {y}) /\ (e \ {y}) \cup {y} = e /\ y \notin e \ {y} /\ e \ {y} \in SUBSET E
    BY <2>1, <2>2, FS_Subset
  <2>4. Paired(s, d, t, e \ {y})
    BY <2>1, <2>2, <2>3, PairedLess
  <2>5. SumFunctionOnSet(f, d) = SumFunctionOnSet(g, e \ {y})
    BY <2>3, <2>4
  <2>6. SumFunctionOnSet(f, d \cup {x}) = SumFunctionOnSet(f, d) + f[x]
    BY <2>1, SumAdd
  <2>7. SumFunctionOnSet(g, e) = SumFunctionOnSet(g, e \ {y}) + g[y]
    <3>1. \A k \in (e \ {y}) \cup {y} : g[k] \in Int
      BY <2>3
    <3>2. SumFunctionOnSet(g, (e \ {y}) \cup {y}) = SumFunctionOnSet(g, e \ {y}) + g[y]
      BY <2>3, <3>1, SumAdd
    <3> QED
      BY <2>3, <3>2
  <2>8. f[x] = g[y]
    BY <2>2
  <2> QED
    BY <2>5, <2>6, <2>7, <2>8
<1>3. D \in T
  <2>1. T \in SUBSET (SUBSET D)
    OBVIOUS
  <2> HIDE DEF T
  <2> QED
    BY <1>1, <1>2, <2>1, FiniteInduction
<1> QED
  BY <1>3
=============================================================================
