---------------------------- MODULE LoopTheorems -----------------------------
(***************************************************************************)
(* Induction, for the loops that the modules write as recursive functions. *)
(*                                                                         *)
(* The induction theorems of the library speak of any predicate P(_) and   *)
(* of any recursive definition Def(_,_).  Here a predicate is a set of     *)
(* numbers and the body of a definition a function, so that the statements *)
(* are first-order and can be used as they stand.                          *)
(***************************************************************************)
EXTENDS Integers, Sequences, FiniteSets, WellFoundedInduction, FiniteSetTheorems, TLAPS

\* A set of natural numbers has a least element.
LEMMA LeastElement ==
    ASSUME NEW T, T \subseteq Nat, T # {}
    PROVE  \E n \in T : \A m \in T : n <= m
<1> DEFINE R == {ss \in Nat \X Nat : ss[1] < ss[2]}
<1>1. IsWellFoundedOn(R, Nat)
  BY NatLessThanWellFounded DEF OpToRel
<1>2. \A x, y \in Nat : x < y => <<x, y>> \in R
  OBVIOUS
<1>3. PICK n \in T : \A m \in T : ~ (<<m, n>> \in R)
  <2> HIDE DEF R
  <2> QED
    BY <1>1, WFMin
<1>4. ASSUME NEW m \in T
      PROVE  n <= m
  <2>1. ~ (m < n)
    BY <1>2, <1>3
  <2> QED
    BY <2>1
<1> QED
  BY <1>4

\* A set that holds 0 and with every number the next one holds all of them.
LEMMA Induction ==
    ASSUME NEW T, T \subseteq Nat, 0 \in T, \A n \in T : n + 1 \in T
    PROVE  T = Nat
<1>1. SUFFICES ASSUME Nat \ T # {}
               PROVE  FALSE
  OBVIOUS
<1>2. PICK n \in Nat \ T : \A m \in Nat \ T : n <= m
  BY <1>1, LeastElement
<1>3. n - 1 \in Nat /\ n - 1 \in T
  BY <1>2
<1> QED
  BY <1>2, <1>3

\* The same up to a bound.
LEMMA BoundedInduction ==
    ASSUME NEW N \in Nat, NEW T, 0 \in T, \A n \in T : n \in 0 .. N - 1 => n + 1 \in T
    PROVE  \A n \in 0 .. N : n \in T
<1> DEFINE U == {n \in Nat : n <= N => n \in T}
<1>1. 0 \in U
  OBVIOUS
<1>2. ASSUME NEW n \in U
      PROVE  n + 1 \in U
  <2>1. CASE n + 1 <= N
    <3>1. n \in T /\ n \in 0 .. N - 1
      BY <2>1
    <3> QED
      BY <3>1
  <2>2. CASE ~ (n + 1 <= N)
    BY <2>2
  <2> QED
    BY <2>1, <2>2
<1>3. U = Nat
  <2>1. U \subseteq Nat
    OBVIOUS
  <2> HIDE DEF U
  <2> QED
    BY <2>1, <1>1, <1>2, Induction
<1> QED
  BY <1>3

\* The same downwards: what holds at a place if it holds at all higher ones.
LEMMA DownwardInduction ==
    ASSUME NEW N \in Nat, NEW T, \A d \in 0 .. N : (\A e \in d + 1 .. N : e \in T) => d \in T
    PROVE  \A d \in 0 .. N : d \in T
<1> DEFINE U == {m \in 0 .. N : \A e \in N - m .. N : e \in T}
<1>1. 0 \in U
  <2>1. N \in T
    OBVIOUS
  <2> QED
    BY <2>1
<1>2. ASSUME NEW m \in U, m \in 0 .. N - 1
      PROVE  m + 1 \in U
  <2>1. N - (m + 1) \in 0 .. N /\ m + 1 \in 0 .. N /\ (N - (m + 1)) + 1 = N - m
    BY <1>2
  <2>2. N - (m + 1) \in T
    BY <1>2, <2>1
  <2>3. \A e \in N - (m + 1) .. N : e = N - (m + 1) \/ e \in N - m .. N
    BY <2>1
  <2> QED
    BY <1>2, <2>1, <2>2, <2>3
<1>3. N \in U
  <2> HIDE DEF U
  <2>1. \A m \in 0 .. N : m \in U
    BY <1>1, <1>2, BoundedInduction
  <2> QED
    BY <2>1
<1> QED
  BY <1>3

\* The body of a recursive definition looks at the function only at places of lower rank.
LooksBelow(body, rank, D, S) ==
    \A d \in D : \A g, h \in [D -> S] :
        (\A e \in D : rank[e] < rank[d] => g[e] = h[e]) => body[<<d, g>>] = body[<<d, h>>]

IsRecursion(f, body, D, S) == f \in [D -> S] /\ \A d \in D : f[d] = body[<<d, f>>]

\* Such a definition defines a function.
LEMMA RecursionExists ==
    ASSUME NEW D, NEW S, NEW s0 \in S, NEW N \in Nat,
           NEW rank \in [D -> 0 .. N],
           NEW body \in [D \X [D -> S] -> S],
           LooksBelow(body, rank, D, S)
    PROVE  \E f : IsRecursion(f, body, D, S)
<1> DEFINE Solves(f, k) == \A d \in D : rank[d] < k => f[d] = body[<<d, f>>]
           T == {k \in Nat : \E f \in [D -> S] : Solves(f, k)}
<1>1. 0 \in T
  <2>1. [d \in D |-> s0] \in [D -> S]
    OBVIOUS
  <2>2. Solves([d \in D |-> s0], 0)
    OBVIOUS
  <2> QED
    BY <2>1, <2>2
<1>2. ASSUME NEW k \in T
      PROVE  k + 1 \in T
  <2>1. PICK f \in [D -> S] : Solves(f, k)
    OBVIOUS
  <2> DEFINE g == [d \in D |-> IF rank[d] = k THEN body[<<d, f>>] ELSE f[d]]
  <2>2. g \in [D -> S]
    OBVIOUS
  <2>3. ASSUME NEW d \in D, rank[d] < k + 1
        PROVE  g[d] = body[<<d, f>>]
    <3>1. k \in Nat /\ rank[d] \in Nat
      OBVIOUS
    <3>2. CASE rank[d] = k
      BY <3>2
    <3>3. CASE rank[d] < k
      BY <3>1, <3>3, <2>1
    <3> QED
      BY SMTT(30), <2>3, <3>1, <3>2, <3>3
  <2>4. ASSUME NEW d \in D, rank[d] < k + 1
        PROVE  body[<<d, f>>] = body[<<d, g>>]
    <3>1. ASSUME NEW e \in D, rank[e] < rank[d]
          PROVE  f[e] = g[e]
      <4>1. k \in Nat /\ rank[d] \in Nat /\ rank[e] \in Nat
        OBVIOUS
      <4> QED
        BY <2>4, <3>1, <4>1
    <3> HIDE DEF g
    <3> QED
      BY <2>2, <3>1 DEF LooksBelow
  <2>5. Solves(g, k + 1)
    <3> HIDE DEF g
    <3> QED
      BY <2>3, <2>4
  <2> QED
    <3> HIDE DEF g, Solves
    <3> QED
      BY <2>2, <2>5
<1>3. T = Nat
  <2>1. T \subseteq Nat
    OBVIOUS
  <2> HIDE DEF T
  <2> QED
    BY <2>1, <1>1, <1>2, Induction
<1>4. PICK f \in [D -> S] : Solves(f, N + 1)
  <2>1. N + 1 \in T
    <3> HIDE DEF T
    <3> QED
      BY <1>3
  <2> HIDE DEF Solves
  <2> QED
    BY <2>1
<1>5. \A d \in D : rank[d] < N + 1
  OBVIOUS
<1> QED
  BY <1>4, <1>5 DEF IsRecursion

\* f holds the states, each in S, of a loop that goes from 1 to n and makes a new
\* state of the one before it.
IsLoop(f, n, S, base, step) ==
    /\ f \in [0 .. n -> S]
    /\ f[0] = base
    /\ \A i \in 1 .. n : f[i] = step[<<i, f[i - 1]>>]

\* Such a loop exists.
LEMMA LoopExists ==
    ASSUME NEW n \in Nat, NEW S, NEW base \in S, NEW step \in [(1 .. n) \X S -> S]
    PROVE  \E f : IsLoop(f, n, S, base, step)
<1> DEFINE Runs(f, m) == f[0] = base /\ \A i \in 1 .. m : f[i] = step[<<i, f[i - 1]>>]
           T == {m \in 0 .. n : \E f \in [0 .. n -> S] : Runs(f, m)}
<1>1. 0 \in T
  <2>1. [i \in 0 .. n |-> base] \in [0 .. n -> S]
    OBVIOUS
  <2>2. Runs([i \in 0 .. n |-> base], 0)
    OBVIOUS
  <2>3. 0 \in 0 .. n
    OBVIOUS
  <2> HIDE DEF Runs
  <2> QED
    BY <2>1, <2>2, <2>3
<1>2. ASSUME NEW m \in T, m \in 0 .. n - 1
      PROVE  m + 1 \in T
  <2>1. PICK f \in [0 .. n -> S] : Runs(f, m)
    OBVIOUS
  <2> DEFINE g == [f EXCEPT ![m + 1] = step[<<m + 1, f[m]>>]]
  <2>2. g \in [0 .. n -> S]
    <3>1. m + 1 \in 1 .. n /\ f[m] \in S
      BY <1>2
    <3>2. step[<<m + 1, f[m]>>] \in S
      BY <3>1
    <3> QED
      BY <3>2
  <2>3. g[0] = base
    BY <1>2, <2>1
  <2>4. ASSUME NEW i \in 1 .. m + 1
        PROVE  g[i] = step[<<i, g[i - 1]>>]
    <3>1. m + 1 \in 0 .. n /\ i - 1 \in 0 .. n /\ i - 1 # m + 1 /\ g[i - 1] = f[i - 1]
      BY <1>2
    <3>2. CASE i = m + 1
      BY <3>1, <3>2
    <3>3. CASE i # m + 1
      <4>1. i \in 1 .. m /\ i \in 0 .. n /\ g[i] = f[i]
        BY <1>2, <3>3
      <4> QED
        BY <2>1, <3>1, <4>1
    <3> QED
      BY <3>2, <3>3
  <2>5. Runs(g, m + 1)
    <3> HIDE DEF g
    <3> QED
      BY <2>3, <2>4
  <2> QED
    <3>1. m + 1 \in 0 .. n
      BY <1>2
    <3> HIDE DEF g, Runs
    <3> QED
      BY <2>2, <2>5, <3>1
<1>3. n \in T
  <2> HIDE DEF T
  <2> QED
    BY <1>1, <1>2, BoundedInduction
<1> QED
  BY <1>3 DEF IsLoop

\* What every round of a loop keeps holds of all of its states.
LEMMA LoopKeeps ==
    ASSUME NEW n \in Nat, NEW f, NEW S, f[0] \in S,
           \A i \in 1 .. n : f[i - 1] \in S => f[i] \in S
    PROVE  \A i \in 0 .. n : f[i] \in S
<1> DEFINE T == {m \in 0 .. n : f[m] \in S}
<1>1. 0 \in T
  OBVIOUS
<1>2. ASSUME NEW m \in T, m \in 0 .. n - 1
      PROVE  m + 1 \in T
  <2>1. m + 1 \in 1 .. n /\ (m + 1) - 1 = m
    BY <1>2
  <2> QED
    BY <2>1
<1>3. \A m \in 0 .. n : m \in T
  <2> HIDE DEF T
  <2> QED
    BY <1>1, <1>2, BoundedInduction
<1> QED
  BY <1>3

-----------------------------------------------------------------------------
(***************************************************************************)
(* Sums over finite sets.  MapThenSumSet adds up a set by choosing one     *)
(* element after the other; g[s] is the sum over s, a part of A.           *)
(***************************************************************************)
AnyOf(s) == CHOOSE x \in s : TRUE

IsSum(g, w, A) ==
    g = [s \in SUBSET A |-> IF s = {} THEN 0 ELSE w[AnyOf(s)] + g[s \ {AnyOf(s)}]]

LEMMA AnyIsOne == ASSUME NEW s, s # {} PROVE AnyOf(s) \in s
BY DEF AnyOf

\* Parts of a finite set and their sizes.
LEMMA PartSize ==
    ASSUME NEW A, IsFiniteSet(A), NEW s \in SUBSET A
    PROVE  /\ IsFiniteSet(s)
           /\ Cardinality(s) \in 0 .. Cardinality(A)
           /\ Cardinality(s) = 0 <=> s = {}
           /\ \A x \in s : Cardinality(s \ {x}) = Cardinality(s) - 1
<1>1. IsFiniteSet(s) /\ Cardinality(s) <= Cardinality(A)
  BY FS_Subset
<1>2. Cardinality(s) \in Nat /\ Cardinality(A) \in Nat
  BY <1>1, FS_CardinalityType
<1>3. Cardinality(s) = 0 <=> s = {}
  BY <1>1, FS_EmptySet
<1>4. \A x \in s : Cardinality(s \ {x}) = Cardinality(s) - 1
  BY <1>1, FS_RemoveElement
<1> QED
  BY <1>1, <1>2, <1>3, <1>4

\* A finite set of natural numbers' worth can be added up.
LEMMA SumExists ==
    ASSUME NEW A, IsFiniteSet(A), NEW w \in [A -> Nat]
    PROVE  \E g : IsSum(g, w, A)
<1> DEFINE D == SUBSET A
           N == Cardinality(A)
           rank == [s \in D |-> Cardinality(s)]
           Body(s, g) == IF s = {} THEN 0 ELSE w[AnyOf(s)] + g[s \ {AnyOf(s)}]
           body == [x \in D \X [D -> Nat] |-> Body(x[1], x[2])]
<1>1. N \in Nat /\ rank \in [D -> 0 .. N]
  <2>1. N \in Nat
    BY FS_CardinalityType
  <2> QED
    BY <2>1, PartSize
<1>2. ASSUME NEW s \in D, NEW g \in [D -> Nat]
      PROVE  Body(s, g) \in Nat
  <2>1. CASE s = {}
    BY <2>1
  <2>2. CASE s # {}
    <3>1. AnyOf(s) \in A /\ s \ {AnyOf(s)} \in D
      BY <2>2, AnyIsOne
    <3>2. w[AnyOf(s)] \in Nat /\ g[s \ {AnyOf(s)}] \in Nat
      BY <3>1
    <3> QED
      BY <2>2, <3>2
  <2> QED
    BY <2>1, <2>2
<1>3. body \in [D \X [D -> Nat] -> Nat]
  <2> HIDE DEF Body, D
  <2> QED
    BY <1>2
<1>4. ASSUME NEW s \in D, NEW g \in [D -> Nat], NEW h \in [D -> Nat],
             \A e \in D : rank[e] < rank[s] => g[e] = h[e]
      PROVE  body[<<s, g>>] = body[<<s, h>>]
  <2>1. body[<<s, g>>] = Body(s, g) /\ body[<<s, h>>] = Body(s, h)
    <3> HIDE DEF Body, D
    <3> QED
      OBVIOUS
  <2>2. CASE s = {}
    BY <2>1, <2>2
  <2>3. CASE s # {}
    <3>1. AnyOf(s) \in s /\ s \ {AnyOf(s)} \in D
      BY <2>3, AnyIsOne
    <3>2. rank[s \ {AnyOf(s)}] < rank[s]
      BY <3>1, PartSize
    <3>3. g[s \ {AnyOf(s)}] = h[s \ {AnyOf(s)}]
      BY <1>4, <3>1, <3>2
    <3> QED
      BY <2>1, <3>3
  <2> QED
    BY <2>2, <2>3
<1>5. PICK g : IsRecursion(g, body, D, Nat)
  <2> HIDE DEF D, N, rank, body
  <2>1. LooksBelow(body, rank, D, Nat)
    BY <1>4 DEF LooksBelow
  <2>2. 0 \in Nat
    OBVIOUS
  <2> QED
    BY <1>1, <1>3, <2>1, <2>2, RecursionExists
<1>6. g \in [D -> Nat] /\ \A s \in D : g[s] = body[<<s, g>>]
  BY <1>5 DEF IsRecursion
<1>7. \A s \in D : g[s] = Body(s, g)
  <2> HIDE DEF Body, D
  <2> QED
    BY <1>6
<1>8. g = [s \in D |-> Body(s, g)]
  <2> HIDE DEF Body, D
  <2> QED
    BY <1>6, <1>7
<1>9. IsSum(g, w, A)
  BY <1>8 DEF IsSum
<1> QED
  BY <1>9

\* Whatever order the elements are chosen in, each adds its own worth.
LEMMA SumStep ==
    ASSUME NEW A, IsFiniteSet(A), NEW w \in [A -> Nat], NEW g, IsSum(g, w, A)
    PROVE  /\ g[{}] = 0
           /\ \A s \in SUBSET A : g[s] \in Nat
           /\ \A s \in SUBSET A : \A x \in s : g[s] = w[x] + g[s \ {x}]
<1> DEFINE N == Cardinality(A)
           Adds(s) == g[s] \in Nat /\ \A x \in s : g[s] = w[x] + g[s \ {x}]
           T == {n \in 0 .. N : \A s \in SUBSET A : Cardinality(s) <= n => Adds(s)}
<1>1. N \in Nat
  BY FS_CardinalityType
<1>2. g[{}] = 0
  BY DEF IsSum
<1>3. \A s \in SUBSET A : s # {} => g[s] = w[AnyOf(s)] + g[s \ {AnyOf(s)}]
  BY DEF IsSum
<1>4. 0 \in T
  <2>1. ASSUME NEW s \in SUBSET A, Cardinality(s) <= 0
        PROVE  Adds(s)
    <3>1. s = {}
      BY <1>1, <2>1, PartSize
    <3> QED
      BY <1>2, <3>1
  <2> HIDE DEF Adds
  <2> QED
    BY <1>1, <2>1
<1>5. ASSUME NEW n \in T, n \in 0 .. N - 1
      PROVE  n + 1 \in T
  <2>1. ASSUME NEW s \in SUBSET A, Cardinality(s) <= n + 1
        PROVE  Adds(s)
    <3>1. CASE s = {}
      BY <1>2, <3>1
    <3>2. CASE s # {}
      <4> DEFINE a == AnyOf(s)
                 r == s \ {a}
      <4>1. a \in s /\ a \in A /\ w[a] \in Nat
        BY <3>2, AnyIsOne
      <4>2. r \in SUBSET A /\ Cardinality(r) <= n
        BY <1>1, <1>5, <2>1, <4>1, PartSize
      <4>3. Adds(r)
        <5> HIDE DEF Adds, r
        <5> QED
          BY <1>5, <4>2
      <4>4. g[s] = w[a] + g[r] /\ g[r] \in Nat
        BY <1>3, <3>2, <4>3
      <4>5. ASSUME NEW x \in s, x # a
            PROVE  g[s] = w[x] + g[s \ {x}]
        <5> DEFINE q == s \ {x}
                   p == (s \ {a}) \ {x}
        <5>1. x \in r /\ w[x] \in Nat
          BY <4>5
        <5>2. g[r] = w[x] + g[p]
          BY <4>3, <5>1
        <5>3. q \in SUBSET A /\ Cardinality(q) <= n
          BY <1>1, <1>5, <2>1, <4>5, PartSize
        <5>4. Adds(q)
          <6> HIDE DEF Adds, q
          <6> QED
            BY <1>5, <5>3
        <5>5. a \in q /\ q \ {a} = p
          BY <4>1, <4>5
        <5>6. g[q] = w[a] + g[p]
          <6> HIDE DEF p, a, r
          <6> QED
            BY <5>4, <5>5
        <5>7. p \in SUBSET A /\ Cardinality(p) <= n
          <6>1. p \in SUBSET A /\ p \subseteq r
            BY <4>2
          <6>2. Cardinality(p) = Cardinality(r) - 1
            BY <4>2, <5>1, PartSize
          <6>3. Cardinality(r) \in Nat /\ n \in Nat
            BY <1>5, <1>1, <4>2, PartSize
          <6> QED
            BY <4>2, <6>1, <6>2, <6>3
        <5>8. g[p] \in Nat
          <6>1. Adds(p)
            <7> HIDE DEF Adds, p
            <7> QED
              BY <1>5, <5>7
          <6> QED
            BY <6>1
        <5> HIDE DEF a, r, p, q, Adds
        <5> QED
          BY <4>1, <4>4, <5>1, <5>2, <5>6, <5>8 DEF q
      <4>6. g[s] \in Nat
        <5> HIDE DEF a, r
        <5> QED
          BY <4>1, <4>4
      <4> QED
        BY <4>4, <4>5, <4>6
    <3> QED
      BY <3>1, <3>2
  <2>2. n + 1 \in 0 .. N
    BY <1>1, <1>5
  <2> HIDE DEF Adds
  <2> QED
    BY <2>1, <2>2
<1>6. N \in T
  <2> HIDE DEF T
  <2> QED
    BY <1>1, <1>4, <1>5, BoundedInduction
<1>7. \A s \in SUBSET A : Cardinality(s) <= N
  BY <1>1, PartSize
<1>8. \A s \in SUBSET A : Adds(s)
  <2> HIDE DEF Adds
  <2> QED
    BY <1>6, <1>7
<1> QED
  BY <1>2, <1>8

\* Two sums over the same elements, worth the same, are equal.
LEMMA SumsAgree ==
    ASSUME NEW A, IsFiniteSet(A), NEW w \in [A -> Nat], NEW g, IsSum(g, w, A),
           NEW B, IsFiniteSet(B), NEW v \in [B -> Nat], NEW h, IsSum(h, v, B),
           NEW s \in SUBSET A, s \subseteq B, \A x \in s : w[x] = v[x]
    PROVE  g[s] = h[s]
<1> DEFINE N == Cardinality(s)
           T == {n \in 0 .. N : \A r \in SUBSET s : Cardinality(r) <= n => g[r] = h[r]}
<1>1. IsFiniteSet(s) /\ N \in Nat
  BY PartSize, FS_CardinalityType
<1>2. g[{}] = 0 /\ h[{}] = 0
  BY SumStep
<1>3. 0 \in T
  <2>1. \A r \in SUBSET s : Cardinality(r) <= 0 => r = {}
    BY <1>1, PartSize
  <2> QED
    BY <1>1, <1>2, <2>1
<1>4. ASSUME NEW n \in T, n \in 0 .. N - 1
      PROVE  n + 1 \in T
  <2>1. ASSUME NEW r \in SUBSET s, Cardinality(r) <= n + 1
        PROVE  g[r] = h[r]
    <3>1. CASE r = {}
      BY <1>2, <3>1
    <3>2. CASE r # {}
      <4>1. PICK x \in r : TRUE
        BY <3>2
      <4>2. r \in SUBSET A /\ r \in SUBSET B
        OBVIOUS
      <4>3. g[r] = w[x] + g[r \ {x}]
        BY <4>2, SumStep
      <4>4. h[r] = v[x] + h[r \ {x}]
        BY SMTT(30), <4>2, SumStep
      <4>5. r \ {x} \in SUBSET s /\ Cardinality(r \ {x}) <= n
        BY <1>1, <1>4, <2>1, PartSize
      <4>6. g[r \ {x}] = h[r \ {x}]
        BY <1>4, <4>5
      <4> QED
        BY <4>3, <4>4, <4>6
    <3> QED
      BY <3>1, <3>2
  <2>2. n + 1 \in 0 .. N
    BY <1>1, <1>4
  <2> QED
    BY <2>1, <2>2
<1>5. N \in T
  <2> HIDE DEF T
  <2> QED
    BY <1>1, <1>3, <1>4, BoundedInduction
<1>6. N <= N
  BY <1>1
<1> QED
  BY <1>5, <1>6

=============================================================================
