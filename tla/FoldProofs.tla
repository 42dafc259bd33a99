------------------------------ MODULE FoldProofs ------------------------------
(***************************************************************************)
(* Sums over finite sets, sets put in order and folds over sequences, as   *)
(* the community modules define them: the facts that the proofs about      *)
(* budgets and histories rest on. Induction is over sets of numbers.       *)
(***************************************************************************)
EXTENDS Functions, FiniteSetsExt, FiniteSetTheorems, TLAPS

-----------------------------------------------------------------------------
(* Induction over numbers and over finite sets, for sets instead of        *)
(* predicates.                                                             *)

\* Every set of numbers has a least one.
LEMMA Least ==
  ASSUME NEW s \in SUBSET Nat, s # {}
  PROVE  Min(s) \in s /\ \A y \in s : Min(s) <= y
<1> DEFINE Less == OpToRel(<, Nat)
<1>1. PICK x \in s : \A y \in s : <<y, x>> \notin Less
  <2>1. IsWellFoundedOn(Less, Nat)
    BY NatLessThanWellFounded
  <2> HIDE DEF Less
  <2> QED
    BY <2>1, s \subseteq Nat, WFMin
<1>2. ASSUME NEW y \in s, ~(x <= y)
      PROVE  FALSE
  <2>1. y \in Nat /\ x \in Nat /\ y < x
    BY <1>2
  <2>2. <<y, x>> \in Less
    BY <2>1 DEF OpToRel
  <2> QED
    BY <1>1, <2>2
<1> QED
  BY <1>2 DEF Min

\* A set of numbers with 0 and every successor has all of them.
LEMMA NumbersByInduction ==
  ASSUME NEW T, 0 \in T, \A n \in Nat : n \in T => n + 1 \in T
  PROVE  \A n \in Nat : n \in T
<1> SUFFICES ASSUME Nat \ T # {}
             PROVE  FALSE
  OBVIOUS
<1>1. PICK m \in Nat \ T : \A k \in Nat \ T : m <= k
  BY Least
<1>2. m # 0 /\ m - 1 \in Nat /\ (m - 1) + 1 = m
  OBVIOUS
<1>3. m - 1 \in T
  BY <1>1, <1>2
<1> QED
  BY <1>2, <1>3

\* A family of subsets of a finite set that has the empty one, and each set of
\* which it has what is left without some member, has all of them.
LEMMA SubsetsByInduction ==
  ASSUME NEW S, IsFiniteSet(S), NEW F, {} \in F,
         \A s \in SUBSET S : (\A u \in SUBSET s : u # s => u \in F) => s \in F
  PROVE  \A s \in SUBSET S : s \in F
<1> DEFINE T == {n \in Nat : \A s \in SUBSET S : Cardinality(s) <= n => s \in F}
<1>1. \A s \in SUBSET S : IsFiniteSet(s) /\ Cardinality(s) \in Nat
  BY FS_Subset, FS_CardinalityType
<1>2. 0 \in T
  BY <1>1, FS_EmptySet
<1>3. ASSUME NEW n \in Nat, n \in T
      PROVE  n + 1 \in T
  <2> SUFFICES ASSUME NEW s \in SUBSET S, Cardinality(s) <= n + 1
               PROVE  s \in F
    OBVIOUS
  <2>1. ASSUME NEW u \in SUBSET s, u # s
        PROVE  u \in F
    <3>1. Cardinality(u) <= Cardinality(s) /\ Cardinality(u) # Cardinality(s)
      BY <1>1, <2>1, FS_Subset
    <3>2. Cardinality(u) <= n
      BY <3>1, <1>1
    <3> QED
      BY <3>2, <1>3
  <2> QED
    BY <2>1
<1>4. \A n \in Nat : n \in T
  <2> HIDE DEF T
  <2> QED
    BY <1>2, <1>3, NumbersByInduction
<1> QED
  BY <1>1, <1>4

-----------------------------------------------------------------------------
(* Recursion over the subsets of a finite set, as in MapThenFoldSet.       *)

\* g goes from {} to every subset of S, a member pick[s] at a time.
Recurs(g, S, base, pick, step) ==
  \A s \in SUBSET S : g[s] = IF s = {} THEN base ELSE step[<<pick[s], g[s \ {pick[s]}]>>]

\* There is such a function for every base and step.
LEMMA RecursionOverSubsets ==
  ASSUME NEW S, IsFiniteSet(S), NEW A, NEW base \in A, NEW pick, NEW step,
         \A s \in SUBSET S : s # {} => pick[s] \in s,
         \A x \in S, a \in A : step[<<x, a>>] \in A
  PROVE  \E g \in [SUBSET S -> A] : Recurs(g, S, base, pick, step)
<1> DEFINE Small(n) == {s \in SUBSET S : Cardinality(s) <= n}
           Unfolds(g, D) == \A s \in D :
              g[s] = IF s = {} THEN base ELSE step[<<pick[s], g[s \ {pick[s]}]>>]
           T == {n \in Nat : \E g \in [Small(n) -> A] : Unfolds(g, Small(n))}
<1>1. \A s \in SUBSET S :
         /\ IsFiniteSet(s) /\ Cardinality(s) \in Nat
         /\ Cardinality(s) = 0 <=> s = {}
         /\ s # {} => s \ {pick[s]} \in SUBSET S /\ Cardinality(s \ {pick[s]}) = Cardinality(s) - 1
  BY FS_Subset, FS_CardinalityType, FS_EmptySet, FS_RemoveElement
<1>2. 0 \in T
  <2>1. Small(0) = {{}}
    <3>1. ASSUME NEW s \in SUBSET S
          PROVE  Cardinality(s) <= 0 <=> s = {}
      <4>1. Cardinality(s) \in Nat /\ (Cardinality(s) = 0 <=> s = {})
        BY <1>1
      <4> QED
        BY <4>1
    <3> QED
      BY <3>1
  <2>2. [s \in {{}} |-> base] \in [Small(0) -> A] /\ Unfolds([s \in {{}} |-> base], Small(0))
    BY <2>1
  <2> QED
    BY <2>2
<1>3. ASSUME NEW n \in Nat, n \in T
      PROVE  n + 1 \in T
  <2>1. PICK g \in [Small(n) -> A] : Unfolds(g, Small(n))
    BY <1>3
  <2> DEFINE h == [s \in Small(n + 1) |->
                     IF s = {} THEN base ELSE step[<<pick[s], g[s \ {pick[s]}]>>]]
  <2>2. ASSUME NEW s \in Small(n + 1), s # {}
        PROVE  s \ {pick[s]} \in Small(n)
    <3>1. s \in SUBSET S /\ Cardinality(s) <= n + 1 /\ Cardinality(s) \in Nat
      BY <1>1
    <3>2. s \ {pick[s]} \in SUBSET S /\ Cardinality(s \ {pick[s]}) = Cardinality(s) - 1
      BY <3>1, <2>2, <1>1
    <3>3. Cardinality(s \ {pick[s]}) <= n
      BY <3>1, <3>2
    <3> QED
      BY <3>2, <3>3
  <2>3. h \in [Small(n + 1) -> A]
    <3> SUFFICES ASSUME NEW s \in Small(n + 1), s # {}
                 PROVE  step[<<pick[s], g[s \ {pick[s]}]>>] \in A
      OBVIOUS
    <3>1. g[s \ {pick[s]}] \in A /\ pick[s] \in S
      BY <2>2
    <3> QED
      BY <3>1
  <2>4. \A s \in Small(n) : s \in Small(n + 1) /\ h[s] = g[s]
    <3> TAKE s \in Small(n)
    <3>1. s \in SUBSET S /\ Cardinality(s) <= n /\ Cardinality(s) \in Nat
      BY <1>1
    <3>2. s \in Small(n + 1)
      BY <3>1
    <3> QED
      BY <3>2, <2>1
  <2>5. Unfolds(h, Small(n + 1))
    <3> SUFFICES ASSUME NEW s \in Small(n + 1), s # {}
                 PROVE  h[s \ {pick[s]}] = g[s \ {pick[s]}]
      OBVIOUS
    <3> HIDE DEF Small, h
    <3> QED
      BY <2>2, <2>4
  <2>6. \E f \in [Small(n + 1) -> A] : Unfolds(f, Small(n + 1))
    <3> HIDE DEF Small, h, Unfolds
    <3> QED
      BY <2>3, <2>5
  <2> HIDE DEF Small, Unfolds
  <2> QED
    BY <2>6
<1>4. Cardinality(S) \in T
  <2> HIDE DEF T
  <2> QED
    BY <1>1, <1>2, <1>3, NumbersByInduction
<1>5. Small(Cardinality(S)) = SUBSET S
  BY FS_Subset
<1> QED
  BY <1>4, <1>5 DEF Recurs

\* The greatest of some numbers up to n.
LEMMA Greatest ==
  ASSUME NEW n \in Nat, NEW s \in SUBSET (1..n), s # {}
  PROVE  Max(s) \in s /\ \A y \in s : Max(s) >= y
<1> DEFINE T == {k \in Nat : \A u \in SUBSET (1..k) : u # {} => \E x \in u : \A y \in u : x >= y}
<1>1. 0 \in T
  <2>1. 1..0 = {}
    OBVIOUS
  <2> QED
    BY <2>1
<1>2. ASSUME NEW k \in Nat, k \in T
      PROVE  k + 1 \in T
  <2> SUFFICES ASSUME NEW u \in SUBSET (1..(k + 1)), u # {}
               PROVE  \E x \in u : \A y \in u : x >= y
    OBVIOUS
  <2>1. CASE k + 1 \in u
    <3>1. \A y \in u : y \in 1..(k + 1)
      OBVIOUS
    <3>2. \A y \in 1..(k + 1) : k + 1 >= y
      OBVIOUS
    <3> HIDE DEF T
    <3> QED
      BY <2>1, <3>1, <3>2
  <2>2. CASE k + 1 \notin u
    <3>1. u \in SUBSET (1..k)
      BY <2>2
    <3> QED
      BY <3>1, <1>2
  <2> QED
    BY <2>1, <2>2
<1>3. n \in T
  <2> HIDE DEF T
  <2> QED
    BY <1>1, <1>2, NumbersByInduction
<1>4. \E x \in s : \A y \in s : x >= y
  BY <1>3
<1> QED
  BY <1>4 DEF Max

\* The first k numbers, without the greatest.
LEMMA Prefix ==
  ASSUME NEW k \in Nat, k > 0
  PROVE  Max(1..k) = k /\ (1..k) \ {Max(1..k)} = 1..(k - 1) /\ 1..k # {}
<1>1. 1..k # {} /\ k \in 1..k
  OBVIOUS
<1>2. Max(1..k) \in 1..k /\ Max(1..k) >= k
  BY <1>1, Greatest
<1>3. Max(1..k) = k
  BY <1>2
<1>4. (1..k) \ {k} = 1..(k - 1)
  OBVIOUS
<1> QED
  BY <1>1, <1>3, <1>4

\* g is a function of the sets of positions of which FoldLeft takes a value, r is
\* the loop over the positions: r[k] is what it has behind the k-th.
FoldsSets(g, n, base, step) ==
  /\ g[{}] = base
  /\ \A s \in SUBSET (1..n) : s # {} =>
       /\ Max(s) \in 1..n /\ s \ {Max(s)} \in SUBSET (1..n)
       /\ g[s] = step[<<Max(s), g[s \ {Max(s)}]>>]

Loops(r, n, base, step) ==
  r[0] = base /\ \A k \in 1..n : r[k] = step[<<k, r[k - 1]>>]

\* A step at each of n positions leads from A into A.
StepsIn(step, n, A) == \A k \in 1..n, a \in A : step[<<k, a>>] \in A

\* Where iter yields a value in A, its next value is a step from there.
GoesOn(iter, n, A, step) ==
  \A s \in SUBSET (1..n) :
    s # {} /\ iter[s \ {Max(s)}] \in A => iter[s] = step[<<Max(s), iter[s \ {Max(s)}]>>]

\* There is such a function.
LEMMA FoldExists ==
  ASSUME NEW n \in Nat, NEW A, NEW base \in A, NEW step, StepsIn(step, n, A)
  PROVE  \E g \in [SUBSET (1..n) -> A] : FoldsSets(g, n, base, step)
<1> USE DEF StepsIn
<1> DEFINE pick == [s \in SUBSET (1..n) |-> Max(s)]
<1>1. IsFiniteSet(1..n)
  BY FS_Interval
<1>2. \A s \in SUBSET (1..n) : s # {} => pick[s] \in s
  BY Greatest
<1>3. PICK g \in [SUBSET (1..n) -> A] : Recurs(g, 1..n, base, pick, step)
  <2> HIDE DEF pick
  <2> QED
    BY <1>1, <1>2, RecursionOverSubsets
<1>4. g[{}] = base
  BY <1>3 DEF Recurs
<1>5. ASSUME NEW s \in SUBSET (1..n), s # {}
      PROVE  /\ Max(s) \in 1..n /\ s \ {Max(s)} \in SUBSET (1..n)
             /\ g[s] = step[<<Max(s), g[s \ {Max(s)}]>>]
  <2>1. pick[s] = Max(s) /\ Max(s) \in s
    BY <1>5, Greatest
  <2> HIDE DEF pick
  <2> QED
    BY <1>3, <1>5, <2>1 DEF Recurs
<1> QED
  BY <1>4, <1>5 DEF FoldsSets

\* Any such function is the loop, if what it yields of a value in A is a step.
LEMMA FoldLoop ==
  ASSUME NEW n \in Nat, NEW A, NEW base \in A, NEW step, StepsIn(step, n, A),
         NEW iter, iter[{}] = base, GoesOn(iter, n, A, step)
  PROVE  \E r \in [0..n -> A] : Loops(r, n, base, step) /\ iter[1..n] = r[n]
<1> USE DEF StepsIn, GoesOn
<1>1. iter[1..0] = base
  <2>1. 1..0 = {}
    OBVIOUS
  <2> QED
    BY <2>1
<1>2. ASSUME NEW k \in 1..n, iter[1..(k - 1)] \in A
      PROVE  iter[1..k] = step[<<k, iter[1..(k - 1)]>>]
  <2>1. 1..k \in SUBSET (1..n) /\ k \in Nat /\ k > 0
    OBVIOUS
  <2>2. 1..k # {} /\ Max(1..k) = k /\ (1..k) \ {k} = 1..(k - 1)
    BY <2>1, Prefix
  <2> QED
    BY <1>2, <2>1, <2>2
<1>3. \A k \in 0..n : iter[1..k] \in A
  <2> DEFINE T == {k \in Nat : k <= n => iter[1..k] \in A}
  <2>1. 0 \in T
    BY <1>1
  <2>2. ASSUME NEW k \in Nat, k \in T
        PROVE  k + 1 \in T
    <3> SUFFICES ASSUME k + 1 <= n
                 PROVE  iter[1..(k + 1)] \in A
      OBVIOUS
    <3>1. k + 1 \in 1..n /\ (k + 1) - 1 = k /\ iter[1..k] \in A
      BY <2>2
    <3>2. iter[1..(k + 1)] = step[<<k + 1, iter[1..k]>>]
      BY <1>2, <3>1
    <3> QED
      BY <3>1, <3>2
  <2>3. \A k \in Nat : k \in T
    <3> HIDE DEF T
    <3> QED
      BY <2>1, <2>2, NumbersByInduction
  <2> QED
    BY <2>3
<1> DEFINE r == [k \in 0..n |-> iter[1..k]]
<1>4. r \in [0..n -> A] /\ r[0] = base /\ iter[1..n] = r[n]
  BY <1>1, <1>3
<1>5. ASSUME NEW k \in 1..n
      PROVE  r[k] = step[<<k, r[k - 1]>>]
  <2>1. k - 1 \in 0..n /\ k \in 0..n
    OBVIOUS
  <2> QED
    BY <1>2, <1>3, <2>1
<1> HIDE DEF r
<1>6. Loops(r, n, base, step)
  BY <1>4, <1>5 DEF Loops
<1> QED
  BY <1>4, <1>6

-----------------------------------------------------------------------------
(* Sums.                                                                   *)

\* The member at which a sum over s begins.
Leader(s) == CHOOSE x \in s : TRUE

\* h has the sums over the subsets of S.
SumsUp(h, w, S) ==
  \A s \in SUBSET S : h[s] = IF s = {} THEN 0 ELSE w[Leader(s)] + h[s \ {Leader(s)}]

\* The function of which MapThenFoldSet takes the value at S.
LEMMA SumUnfolds ==
  ASSUME NEW S, IsFiniteSet(S), NEW w, \A t \in S : w[t] \in Nat
  PROVE  \E h \in [SUBSET S -> Nat] :
            SumFunctionOnSet(w, S) = h[S] /\ SumsUp(h, w, S)
<1> DEFINE Unfolds(i) == i = [s \in SUBSET S |->
              IF s = {} THEN 0 ELSE w[Leader(s)] + i[s \ {Leader(s)}]]
           iter == CHOOSE i : Unfolds(i)
           pick == [s \in SUBSET S |-> Leader(s)]
           step == [p \in S \X Nat |-> w[p[1]] + p[2]]
<1>1. \A s \in SUBSET S : s # {} => Leader(s) \in s /\ s \ {Leader(s)} \in SUBSET S
  BY DEF Leader
<1>2. PICK h \in [SUBSET S -> Nat] : Recurs(h, S, 0, pick, step)
  <2>1. \A x \in S, a \in Nat : step[<<x, a>>] \in Nat
    OBVIOUS
  <2>2. \A s \in SUBSET S : s # {} => pick[s] \in s
    BY <1>1
  <2> HIDE DEF pick, step
  <2> QED
    BY <2>1, <2>2, RecursionOverSubsets
<1>3. \A s \in SUBSET S : h[s] = IF s = {} THEN 0 ELSE w[Leader(s)] + h[s \ {Leader(s)}]
  <2> SUFFICES ASSUME NEW s \in SUBSET S, s # {}
               PROVE  h[s] = w[Leader(s)] + h[s \ {Leader(s)}]
    BY <1>2 DEF Recurs
  <2>1. Leader(s) \in S /\ h[s \ {Leader(s)}] \in Nat
    BY <1>1
  <2> QED
    BY <1>2, <2>1 DEF Recurs
<1>4. Unfolds(h)
  BY <1>3
<1>5. Unfolds(iter)
  BY <1>4
<1>6. \A s \in SUBSET S : iter[s] = h[s]
  <2> DEFINE F == {s \in SUBSET S : iter[s] = h[s]}
  <2>1. {} \in F
    BY <1>3, <1>5
  <2>2. ASSUME NEW s \in SUBSET S, \A u \in SUBSET s : u # s => u \in F
        PROVE  s \in F
    <3>1. CASE s = {}
      BY <3>1, <2>1
    <3>2. CASE s # {}
      <4>1. s \ {Leader(s)} \in SUBSET s /\ s \ {Leader(s)} # s
        BY <3>2, <1>1
      <4>2. iter[s \ {Leader(s)}] = h[s \ {Leader(s)}]
        BY <2>2, <4>1
      <4> HIDE DEF iter
      <4> QED
        BY <4>2, <3>2, <1>3, <1>5
    <3> QED
      BY <3>1, <3>2
  <2> HIDE DEF F
  <2>3. \A s \in SUBSET S : s \in F
    BY <2>1, <2>2, SubsetsByInduction
  <2> QED
    BY <2>3 DEF F
<1>7. SumFunctionOnSet(w, S) = iter[S]
  BY DEF SumFunctionOnSet, FoldFunctionOnSet, MapThenFoldSet, Leader
<1> HIDE DEF iter
<1>8. SumFunctionOnSet(w, S) = h[S]
  BY <1>6, <1>7
<1>9. SumsUp(h, w, S)
  BY <1>3 DEF SumsUp
<1> QED
  BY <1>8, <1>9

\* The empty sum is zero; a sum is the weight of its first member and the sum of
\* the others. Both are numbers.
LEMMA SumFirst ==
  ASSUME NEW S, IsFiniteSet(S), NEW w, \A t \in S : w[t] \in Nat
  PROVE  /\ SumFunctionOnSet(w, S) \in Nat
         /\ S = {} => SumFunctionOnSet(w, S) = 0
         /\ S # {} => /\ Leader(S) \in S
                      /\ SumFunctionOnSet(w, S) = w[Leader(S)] + SumFunctionOnSet(w, S \ {Leader(S)})
<1> DEFINE R == S \ {Leader(S)}
<1>1. PICK h \in [SUBSET S -> Nat] : SumFunctionOnSet(w, S) = h[S] /\ SumsUp(h, w, S)
  BY SumUnfolds
<1>2. CASE S = {}
  <2>1. h[S] = 0
    BY <1>1, <1>2 DEF SumsUp
  <2> QED
    BY <1>1, <1>2, <2>1
<1>3. CASE S # {}
  <2>1. Leader(S) \in S
    BY <1>3 DEF Leader
  <2>2. R \in SUBSET S /\ IsFiniteSet(R)
    BY FS_Subset
  <2>3. PICK g \in [SUBSET R -> Nat] : SumFunctionOnSet(w, R) = g[R] /\ SumsUp(g, w, R)
    <3> HIDE DEF R
    <3> QED
      BY <2>2, SumUnfolds
  <2>4. \A s \in SUBSET R : g[s] = h[s]
    <3> DEFINE F == {s \in SUBSET R : g[s] = h[s]}
    <3>1. {} \in F
      BY <1>1, <2>3 DEF SumsUp
    <3>2. ASSUME NEW s \in SUBSET R, \A u \in SUBSET s : u # s => u \in F
          PROVE  s \in F
      <4>1. CASE s = {}
        BY <4>1, <3>1
      <4>2. CASE s # {}
        <5>1. Leader(s) \in s
          BY <4>2 DEF Leader
        <5>2. g[s \ {Leader(s)}] = h[s \ {Leader(s)}]
          BY <3>2, <5>1
        <5> QED
          BY <5>2, <4>2, <1>1, <2>3, <2>2 DEF SumsUp
      <4> QED
        BY <4>1, <4>2
    <3> HIDE DEF F, R
    <3>3. \A s \in SUBSET R : s \in F
      BY <3>1, <3>2, <2>2, SubsetsByInduction
    <3> QED
      BY <3>3 DEF F
  <2>5. SumFunctionOnSet(w, R) = h[R]
    BY <2>3, <2>4
  <2> QED
    BY <1>1, <1>3, <2>1, <2>2, <2>5 DEF SumsUp
<1> QED
  BY <1>2, <1>3

\* A sum is the weight of any member and the sum of the others.
LEMMA SumMember ==
  ASSUME NEW S, IsFiniteSet(S), NEW w, \A t \in S : w[t] \in Nat, NEW x \in S
  PROVE  SumFunctionOnSet(w, S) = w[x] + SumFunctionOnSet(w, S \ {x})
<1> DEFINE F == {s \in SUBSET S : \A y \in s : SumFunctionOnSet(w, s) = w[y] + SumFunctionOnSet(w, s \ {y})}
<1>1. {} \in F
  OBVIOUS
<1>2. ASSUME NEW s \in SUBSET S, \A u \in SUBSET s : u # s => u \in F
      PROVE  s \in F
  <2> SUFFICES ASSUME NEW y \in s, y # Leader(s)
               PROVE  SumFunctionOnSet(w, s) = w[y] + SumFunctionOnSet(w, s \ {y})
    <3>1. \A y \in s : y = Leader(s) => SumFunctionOnSet(w, s) = w[y] + SumFunctionOnSet(w, s \ {y})
      BY FS_Subset, SumFirst
    <3> QED
      BY <3>1
  <2> DEFINE f == Leader(s)
             rest == (s \ {f}) \ {y}
  <2>1. /\ f \in s /\ w[f] \in Nat /\ w[y] \in Nat
        /\ SumFunctionOnSet(w, s) = w[f] + SumFunctionOnSet(w, s \ {f})
    BY FS_Subset, SumFirst
  <2>2. SumFunctionOnSet(w, s \ {f}) = w[y] + SumFunctionOnSet(w, rest)
    BY <1>2, <2>1
  <2>3. SumFunctionOnSet(w, s \ {y}) = w[f] + SumFunctionOnSet(w, rest)
    <3>1. s \ {y} \in F /\ f \in s \ {y} /\ (s \ {y}) \ {f} = rest
      BY <1>2, <2>1
    <3> QED
      BY <3>1
  <2>4. SumFunctionOnSet(w, rest) \in Nat
    <3>1. rest \in SUBSET S
      OBVIOUS
    <3> HIDE DEF rest
    <3> QED
      BY <3>1, FS_Subset, SumFirst
  <2> HIDE DEF f, rest
  <2> QED
    BY <2>1, <2>2, <2>3, <2>4
<1> HIDE DEF F
<1>3. S \in F
  BY <1>1, <1>2, SubsetsByInduction
<1> QED
  BY <1>3 DEF F

\* A sum depends on the weights of its members alone.
LEMMA SumSame ==
  ASSUME NEW S, IsFiniteSet(S), NEW w, \A t \in S : w[t] \in Nat,
         NEW v, \A t \in S : v[t] = w[t]
  PROVE  SumFunctionOnSet(v, S) = SumFunctionOnSet(w, S)
<1> DEFINE F == {s \in SUBSET S : SumFunctionOnSet(v, s) = SumFunctionOnSet(w, s)}
<1>1. {} \in F
  BY FS_EmptySet, SumFirst
<1>2. ASSUME NEW s \in SUBSET S, \A u \in SUBSET s : u # s => u \in F
      PROVE  s \in F
  <2>1. CASE s = {}
    BY <2>1, <1>1
  <2>2. CASE s # {}
    <3>1. IsFiniteSet(s) /\ Leader(s) \in s
      BY <2>2, FS_Subset DEF Leader
    <3>2. SumFunctionOnSet(v, s \ {Leader(s)}) = SumFunctionOnSet(w, s \ {Leader(s)})
      BY <1>2, <3>1
    <3> QED
      BY <2>2, <3>1, <3>2, SumFirst
  <2> QED
    BY <2>1, <2>2
<1> HIDE DEF F
<1>3. S \in F
  BY <1>1, <1>2, SubsetsByInduction
<1> QED
  BY <1>3 DEF F

\* A part weighs no more than the whole.
LEMMA SumPart ==
  ASSUME NEW S, IsFiniteSet(S), NEW w, \A t \in S : w[t] \in Nat, NEW P \in SUBSET S
  PROVE  SumFunctionOnSet(w, P) <= SumFunctionOnSet(w, S)
<1> DEFINE F == {s \in SUBSET S : \A p \in SUBSET s : SumFunctionOnSet(w, p) <= SumFunctionOnSet(w, s)}
<1>1. \A s \in SUBSET S : IsFiniteSet(s) /\ SumFunctionOnSet(w, s) \in Nat
  BY FS_Subset, SumFirst
<1>2. {} \in F
  BY <1>1
<1>3. ASSUME NEW s \in SUBSET S, \A u \in SUBSET s : u # s => u \in F
      PROVE  s \in F
  <2> SUFFICES ASSUME NEW p \in SUBSET s, p # s
               PROVE  SumFunctionOnSet(w, p) <= SumFunctionOnSet(w, s)
    BY <1>1
  <2>1. PICK x \in s : x \notin p
    OBVIOUS
  <2>2. s \ {x} \in F /\ p \in SUBSET (s \ {x}) /\ s \ {x} \in SUBSET S
    BY <1>3, <2>1
  <2>3. SumFunctionOnSet(w, p) <= SumFunctionOnSet(w, s \ {x})
    BY <2>2
  <2>4. SumFunctionOnSet(w, s) = w[x] + SumFunctionOnSet(w, s \ {x})
    BY <1>1, <2>1, SumMember
  <2>5. /\ SumFunctionOnSet(w, p) \in Nat /\ SumFunctionOnSet(w, s) \in Nat
        /\ SumFunctionOnSet(w, s \ {x}) \in Nat /\ w[x] \in Nat
    BY <1>1, <2>2
  <2> QED
    BY <2>3, <2>4, <2>5
<1>4. \A s \in SUBSET S : s \in F
  <2> HIDE DEF F
  <2> QED
    BY <1>2, <1>3, SubsetsByInduction
<1> QED
  BY <1>4

\* Where one weight changes, the sum changes by as much.
LEMMA SumChange ==
  ASSUME NEW S, IsFiniteSet(S), NEW w, \A t \in S : w[t] \in Nat,
         NEW v, \A t \in S : v[t] \in Nat,
         NEW x, \A t \in S : t # x => v[t] = w[t]
  PROVE  /\ x \notin S => SumFunctionOnSet(v, S) = SumFunctionOnSet(w, S)
         /\ x \in S => SumFunctionOnSet(v, S) = SumFunctionOnSet(w, S) + v[x] - w[x]
<1>1. CASE x \notin S
  BY <1>1, SumSame
<1>2. CASE x \in S
  <2>1. IsFiniteSet(S \ {x})
    BY FS_Subset
  <2>2. SumFunctionOnSet(v, S \ {x}) = SumFunctionOnSet(w, S \ {x})
    BY <2>1, SumSame
  <2>3. /\ SumFunctionOnSet(v, S) = v[x] + SumFunctionOnSet(v, S \ {x})
        /\ SumFunctionOnSet(w, S) = w[x] + SumFunctionOnSet(w, S \ {x})
    BY <1>2, SumMember
  <2>4. SumFunctionOnSet(w, S \ {x}) \in Nat /\ v[x] \in Nat /\ w[x] \in Nat
    BY <1>2, <2>1, SumFirst
  <2> QED
    BY <1>2, <2>2, <2>3, <2>4
<1> QED
  BY <1>1, <1>2
=============================================================================
