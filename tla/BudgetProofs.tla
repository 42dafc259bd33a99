----------------------------- MODULE BudgetProofs -----------------------------
(***************************************************************************)
(* The quota and the reserve are kept, for torrents of any number and any  *)
(* sizes, any scores, thresholds and disturbances.                         *)
(***************************************************************************)
EXTENDS TickBudget, FoldProofs

-----------------------------------------------------------------------------
(* The constants.                                                          *)

\* Torrents are finitely many and have a size.
LEMMA Torrents ==
  /\ Torrent = 1..Len(Size) /\ Len(Size) \in Nat
  /\ Torrent \subseteq Nat /\ IsFiniteSet(Torrent)
  /\ \A t \in Torrent : Size[t] \in Nat /\ Size[t] > 0
<1>1. Torrent = 1..Len(Size) /\ Len(Size) \in Nat /\ \A t \in Torrent : Size[t] \in Nat /\ Size[t] > 0
  BY SelectorAssumption DEF Torrent
<1>2. IsFiniteSet(1..Len(Size))
  BY <1>1, FS_Interval
<1> QED
  BY <1>1, <1>2

\* The greater and the lesser of two numbers.
LEMMA OfTwo ==
  ASSUME NEW a \in Int, NEW b \in Int
  PROVE  /\ Max({a, b}) = IF a >= b THEN a ELSE b
         /\ Min({a, b}) = IF a <= b THEN a ELSE b
<1>1. \E x \in {a, b} : \A y \in {a, b} : x >= y
  OBVIOUS
<1>2. \E x \in {a, b} : \A y \in {a, b} : x <= y
  OBVIOUS
<1> QED
  BY <1>1, <1>2 DEF Max, Min

\* The age gates are ages, and so is the age of a sidecar, where there is one.
LEMMA Ages ==
  /\ MaxAge \in Nat /\ MinHot <= MaxAge /\ MinCold <= MaxAge
  /\ NoSidecar \in NoSidecar..MaxAge
  /\ \A x \in 0..MaxAge : x \in NoSidecar..MaxAge /\ x # NoSidecar
  /\ \A x \in NoSidecar..MaxAge : x # NoSidecar => x \in 0..MaxAge
<1>1. MaxAge \in Nat /\ MinHot <= MaxAge /\ MinCold <= MaxAge
  BY BudgetAssumption, OfTwo DEF MaxAge
<1> QED
  BY <1>1 DEF NoSidecar

-----------------------------------------------------------------------------
(* Sorted sequences.                                                       *)

\* A set that is ordered by a strict total order is in order a sequence of all
\* its members, each once.
LEMMA InOrderEnumerates ==
  ASSUME NEW S, IsFiniteSet(S), NEW before \in [S -> SUBSET S],
         \A t \in S : t \notin before[t],
         \A t, u \in S : t # u => t \in before[u] \/ u \in before[t],
         \A t, u \in S : t \in before[u] => before[t] \subseteq before[u]
  PROVE  /\ InOrder(before) \in Seq(S)
         /\ Len(InOrder(before)) = Cardinality(S)
         /\ IsInjective(InOrder(before))
         /\ ToSet(InOrder(before)) = S
<1> DEFINE n == Cardinality(S)
           place == [t \in S |-> Cardinality(before[t]) + 1]
           s == InOrder(before)
<1>1. n \in Nat
  BY FS_CardinalityType
<1>2. \A t \in S : IsFiniteSet(before[t]) /\ Cardinality(before[t]) \in Nat
  BY FS_Subset, FS_CardinalityType
<1>3. place \in [S -> 1..n]
  <2> SUFFICES ASSUME NEW t \in S
               PROVE  Cardinality(before[t]) + 1 <= n
    BY <1>1, <1>2
  <2>1. before[t] \in SUBSET S /\ before[t] # S
    OBVIOUS
  <2>2. Cardinality(before[t]) <= n /\ Cardinality(before[t]) # n
    BY <2>1, FS_Subset
  <2> QED
    BY <2>2, <1>1, <1>2
<1>4. \A t, u \in S : t # u => place[t] # place[u]
  <2>1. ASSUME NEW t \in S, NEW u \in S, t \in before[u]
        PROVE  place[t] # place[u]
    <3>1. before[t] \in SUBSET before[u] /\ before[t] # before[u]
      BY <2>1
    <3>2. Cardinality(before[t]) # Cardinality(before[u])
      BY <3>1, <1>2, FS_Subset
    <3> QED
      BY <3>2, <1>2
  <2> HIDE DEF place
  <2> QED
    BY <2>1
<1>5. \A i \in 1..n : \E t \in S : place[t] = i
  <2>1. IsFiniteSet(1..n) /\ Cardinality(1..n) = n
    BY <1>1, FS_Interval
  <2>2. place \in Injection(S, 1..n)
    BY <1>3, <1>4 DEF Injection, IsInjective
  <2>3. place \in Surjection(S, 1..n)
    <3> HIDE DEF place
    <3> QED
      BY <2>1, <2>2, FS_Injection
  <2> HIDE DEF place
  <2> QED
    BY <2>3 DEF Surjection
<1>6. DOMAIN s = 1..n /\ \A i \in 1..n : s[i] \in S /\ place[s[i]] = i
  <2>1. DOMAIN before = S
    OBVIOUS
  <2>2. s = [i \in 1..n |-> CHOOSE t \in S : Cardinality(before[t]) = i - 1]
    BY <2>1 DEF InOrder
  <2> SUFFICES ASSUME NEW i \in 1..n
               PROVE  s[i] \in S /\ place[s[i]] = i
    BY <2>2
  <2>3. \E t \in S : Cardinality(before[t]) = i - 1
    BY <1>1, <1>2, <1>5
  <2>4. s[i] \in S /\ Cardinality(before[s[i]]) = i - 1
    BY <2>2, <2>3
  <2> QED
    BY <1>1, <2>4
<1>7. s \in Seq(S) /\ Len(s) = n
  <2>1. s \in [1..n -> S]
    BY <1>6 DEF InOrder
  <2> HIDE DEF s
  <2> QED
    BY <1>1, <2>1
<1>8. IsInjective(s)
  BY <1>6 DEF IsInjective
<1>9. ToSet(s) = S
  <2> HIDE DEF place, s
  <2>1. \A t \in S : place[t] \in 1..n
    BY <1>3
  <2>2. \A t \in S : s[place[t]] = t
    BY <1>4, <1>6, <2>1
  <2>3. \A t \in S : \E i \in DOMAIN s : s[i] = t
    BY <1>6, <2>1, <2>2
  <2> QED
    BY <2>3, <1>6 DEF ToSet
<1> QED
  BY <1>7, <1>8, <1>9

-----------------------------------------------------------------------------
(* The three orders of the selector are total.                             *)

\* Multiplying by a positive number keeps the order of two numbers.
LEMMA Scale ==
  ASSUME NEW p \in Nat, NEW q \in Nat, NEW c \in Nat, c > 0
  PROVE  p >= q <=> p * c >= q * c
OBVIOUS

\* Being at least as dense is transitive.
LEMMA DensityOrder ==
  ASSUME NEW v, ViewType(v),
         NEW x \in Torrent, NEW y \in Torrent, NEW z \in Torrent,
         ~Denser(v, y, x), ~Denser(v, z, y)
  PROVE  ~Denser(v, z, x)
<1> DEFINE a == v.rate[x] * Size[y]
           b == v.rate[y] * Size[x]
           c == v.rate[y] * Size[z]
           d == v.rate[z] * Size[y]
           e == v.rate[x] * Size[z]
           f == v.rate[z] * Size[x]
<1>1. /\ v.rate[x] \in Nat /\ v.rate[y] \in Nat /\ v.rate[z] \in Nat
      /\ Size[x] \in Nat /\ Size[y] \in Nat /\ Size[z] \in Nat
      /\ Size[x] > 0 /\ Size[y] > 0 /\ Size[z] > 0
  BY Torrents DEF ViewType
<1>2. a \in Nat /\ b \in Nat /\ c \in Nat /\ d \in Nat /\ e \in Nat /\ f \in Nat
  BY <1>1
<1>3. a >= b /\ c >= d
  BY <1>2 DEF Denser
<1>4. a * Size[z] >= b * Size[z] /\ c * Size[x] >= d * Size[x]
  BY <1>1, <1>2, <1>3, Scale
<1>5. a * Size[z] = e * Size[y] /\ b * Size[z] = c * Size[x] /\ d * Size[x] = f * Size[y]
  BY <1>1
<1>6. e * Size[y] >= f * Size[y]
  <2> HIDE DEF a, b, c, d, e, f
  <2>1. a * Size[z] \in Int /\ b * Size[z] \in Int /\ d * Size[x] \in Int
    BY <1>1, <1>2
  <2> QED
    BY <1>4, <1>5, <2>1
<1>7. e >= f
  BY <1>1, <1>2, <1>6, Scale
<1> QED
  BY <1>2, <1>7 DEF Denser

\* s has each member of S once.
Enumerates(s, S) == s \in Seq(S) /\ IsInjective(s) /\ ToSet(s) = S

\* The candidates, the densest first.
LEMMA DensestFirstOrders ==
  ASSUME NEW v, ViewType(v), NEW S \in SUBSET Torrent
  PROVE  Enumerates(DensestFirst(v, S), S)
<1> DEFINE Earlier(u, t) == Denser(v, u, t) \/ (~Denser(v, t, u) /\ u < t)
           before == [t \in S |-> {u \in S : Earlier(u, t)}]
<1>1. \A t, u \in S : Denser(v, t, u) => ~Denser(v, u, t)
  BY Torrents DEF ViewType, Denser
<1>2. \A t \in S : ~Earlier(t, t)
  BY <1>1, Torrents
<1>3. \A t, u \in S : t # u => Earlier(t, u) \/ Earlier(u, t)
  BY Torrents
<1>4. ASSUME NEW x \in S, NEW y \in S, NEW z \in S, Earlier(x, y), Earlier(y, z)
      PROVE  Earlier(x, z)
  <2>1. ~Denser(v, y, x) /\ ~Denser(v, z, y)
    BY <1>1, <1>4
  <2>2. ~Denser(v, z, x)
    BY <2>1, DensityOrder
  <2>3. ~Denser(v, x, z) => ~Denser(v, x, y) /\ ~Denser(v, y, z)
    BY <2>1, DensityOrder
  <2>4. ~Denser(v, x, z) => x < y /\ y < z
    BY <1>4, <2>3
  <2> QED
    BY <2>2, <2>4, Torrents
<1>5. IsFiniteSet(S) /\ before \in [S -> SUBSET S]
  BY Torrents, FS_Subset
<1>6. DensestFirst(v, S) = InOrder(before)
  BY DEF DensestFirst
<1>7. /\ \A t \in S : t \notin before[t]
      /\ \A t, u \in S : t # u => t \in before[u] \/ u \in before[t]
      /\ \A t, u \in S : t \in before[u] => before[t] \subseteq before[u]
  BY <1>2, <1>3, <1>4
<1> HIDE DEF before
<1> QED
  BY <1>5, <1>6, <1>7, InOrderEnumerates DEF Enumerates

\* The victims, the least dense first.
LEMMA LeastDenseFirstOrders ==
  ASSUME NEW v, ViewType(v), NEW S \in SUBSET Torrent
  PROVE  Enumerates(LeastDenseFirst(v, S), S)
<1> DEFINE Earlier(u, t) == Denser(v, t, u) \/ (~Denser(v, u, t) /\ u < t)
           before == [t \in S |-> {u \in S : Earlier(u, t)}]
<1>1. \A t, u \in S : Denser(v, t, u) => ~Denser(v, u, t)
  BY Torrents DEF ViewType, Denser
<1>2. \A t \in S : ~Earlier(t, t)
  BY <1>1, Torrents
<1>3. \A t, u \in S : t # u => Earlier(t, u) \/ Earlier(u, t)
  BY Torrents
<1>4. ASSUME NEW x \in S, NEW y \in S, NEW z \in S, Earlier(x, y), Earlier(y, z)
      PROVE  Earlier(x, z)
  <2>1. ~Denser(v, x, y) /\ ~Denser(v, y, z)
    BY <1>1, <1>4
  <2>2. ~Denser(v, x, z)
    BY <2>1, DensityOrder
  <2>3. ~Denser(v, z, x) => ~Denser(v, y, x) /\ ~Denser(v, z, y)
    BY <2>1, DensityOrder
  <2>4. ~Denser(v, z, x) => x < y /\ y < z
    BY <1>4, <2>3
  <2> QED
    BY <2>2, <2>4, Torrents
<1>5. IsFiniteSet(S) /\ before \in [S -> SUBSET S]
  BY Torrents, FS_Subset
<1>6. LeastDenseFirst(v, S) = InOrder(before)
  BY DEF LeastDenseFirst
<1>7. /\ \A t \in S : t \notin before[t]
      /\ \A t, u \in S : t # u => t \in before[u] \/ u \in before[t]
      /\ \A t, u \in S : t \in before[u] => before[t] \subseteq before[u]
  BY <1>2, <1>3, <1>4
<1> HIDE DEF before
<1> QED
  BY <1>5, <1>6, <1>7, InOrderEnumerates DEF Enumerates

\* The torrents to demote, the slowest first.
LEMMA SlowestFirstOrders ==
  ASSUME NEW v, ViewType(v), NEW S \in SUBSET Torrent
  PROVE  Enumerates(SlowestFirst(v, S), S)
<1> DEFINE Earlier(u, t) == v.rate[u] < v.rate[t] \/ (v.rate[u] = v.rate[t] /\ u < t)
           before == [t \in S |-> {u \in S : Earlier(u, t)}]
<1>1. \A t \in S : v.rate[t] \in Nat /\ t \in Nat
  BY Torrents DEF ViewType
<1>2. IsFiniteSet(S) /\ before \in [S -> SUBSET S]
  BY Torrents, FS_Subset
<1>3. SlowestFirst(v, S) = InOrder(before)
  BY DEF SlowestFirst
<1>4. /\ \A t \in S : t \notin before[t]
      /\ \A t, u \in S : t # u => t \in before[u] \/ u \in before[t]
      /\ \A t, u \in S : t \in before[u] => before[t] \subseteq before[u]
  BY <1>1
<1> HIDE DEF before
<1> QED
  BY <1>2, <1>3, <1>4, InOrderEnumerates DEF Enumerates

\* Demotions are torrents of the view.
LEMMA DemotionsTyped ==
  ASSUME NEW v, ViewType(v)
  PROVE  SelectDemotions(v) \in Seq(Torrent)
<1> DEFINE S == {t \in Evictable(v) : v.rate[t] <= DemoteMax}
<1>1. S \in SUBSET Torrent
  BY DEF Evictable, ViewType
<1>2. SlowestFirst(v, S) \in Seq(S)
  <2> HIDE DEF S
  <2> QED
    BY <1>1, SlowestFirstOrders DEF Enumerates
<1>3. SelectDemotions(v) = SlowestFirst(v, S)
  BY DEF SelectDemotions
<1> HIDE DEF S
<1> QED
  BY <1>1, <1>2, <1>3

-----------------------------------------------------------------------------
(* The promotions of a tick fit into what is available.                    *)

\* The size of a set of torrents.
LEMMA Sizes ==
  ASSUME NEW S \in SUBSET Torrent
  PROVE  /\ SizeOf(S) \in Nat
         /\ S = {} => SizeOf(S) = 0
         /\ \A t \in S : SizeOf(S) = Size[t] + SizeOf(S \ {t})
<1>1. IsFiniteSet(S) /\ \A t \in S : Size[t] \in Nat
  BY Torrents, FS_Subset
<1> QED
  BY <1>1, SumFirst, SumMember DEF SizeOf

\* A part of the torrents is no larger than all of them, one more adds its size.
LEMMA SizesGrow ==
  ASSUME NEW S \in SUBSET Torrent
  PROVE  /\ \A P \in SUBSET S : SizeOf(P) <= SizeOf(S)
         /\ \A t \in Torrent : SizeOf(S \cup {t}) <= SizeOf(S) + Size[t]
         /\ \A t \in Torrent \ S : SizeOf(S \cup {t}) = SizeOf(S) + Size[t]
<1>1. IsFiniteSet(S) /\ SizeOf(S) \in Nat /\ \A t \in Torrent : Size[t] \in Nat
  BY Torrents, FS_Subset, Sizes
<1>2. \A P \in SUBSET S : SizeOf(P) <= SizeOf(S)
  BY <1>1, SumPart DEF SizeOf
<1>3. ASSUME NEW t \in Torrent \ S
      PROVE  SizeOf(S \cup {t}) = SizeOf(S) + Size[t]
  <2>1. S \cup {t} \in SUBSET Torrent /\ (S \cup {t}) \ {t} = S
    BY <1>3
  <2>2. SizeOf(S \cup {t}) = Size[t] + SizeOf(S)
    BY <2>1, Sizes
  <2> QED
    BY <1>1, <2>2
<1>4. ASSUME NEW t \in S
      PROVE  SizeOf(S \cup {t}) <= SizeOf(S) + Size[t]
  <2>1. S \cup {t} = S
    BY <1>4
  <2>2. SizeOf(S \cup {t}) = SizeOf(S) /\ t \in Torrent
    BY <2>1
  <2>3. SizeOf(S) \in Nat /\ Size[t] \in Nat
    BY <1>1, <2>2
  <2> QED
    BY <2>2, <2>3
<1> QED
  BY <1>1, <1>2, <1>3, <1>4

\* Appending a torrent that is not there yet.
LEMMA Appending ==
  ASSUME NEW p \in Seq(Torrent), IsInjective(p), NEW t \in Torrent, t \notin ToSet(p)
  PROVE  /\ Append(p, t) \in Seq(Torrent) /\ IsInjective(Append(p, t))
         /\ ToSet(Append(p, t)) = ToSet(p) \cup {t}
         /\ SizeOf(ToSet(Append(p, t))) = SizeOf(ToSet(p)) + Size[t]
<1> DEFINE q == Append(p, t)
<1>1. /\ q \in Seq(Torrent) /\ DOMAIN q = 1..(Len(p) + 1) /\ DOMAIN p = 1..Len(p) /\ Len(p) \in Nat
      /\ q[Len(p) + 1] = t /\ \A i \in 1..Len(p) : q[i] = p[i]
  OBVIOUS
<1> HIDE DEF q
<1>2. \A i \in DOMAIN p : p[i] # t /\ p[i] \in Torrent
  BY DEF ToSet
<1>3. IsInjective(q)
  BY <1>1, <1>2 DEF IsInjective
<1>4. ToSet(q) = ToSet(p) \cup {t}
  <2>1. \A i \in DOMAIN q : i \in DOMAIN p \/ i = Len(p) + 1
    BY <1>1
  <2>2. ToSet(q) \subseteq ToSet(p) \cup {t}
    BY <1>1, <2>1 DEF ToSet
  <2>3. ToSet(p) \subseteq ToSet(q)
    <3>1. \A i \in DOMAIN p : i \in DOMAIN q /\ q[i] = p[i]
      BY <1>1
    <3>2. \A i \in DOMAIN p : p[i] \in {q[j] : j \in DOMAIN q}
      BY <3>1
    <3> QED
      BY <3>2 DEF ToSet
  <2>4. t \in ToSet(q)
    <3>1. Len(p) + 1 \in DOMAIN q
      BY <1>1
    <3> QED
      BY <1>1, <3>1 DEF ToSet
  <2> QED
    BY <2>2, <2>3, <2>4
<1>5. SizeOf(ToSet(q)) = SizeOf(ToSet(p)) + Size[t]
  <2>0. ToSet(p) \in SUBSET Torrent
    BY <1>2 DEF ToSet
  <2>1. ToSet(q) \in SUBSET Torrent /\ ToSet(q) \ {t} = ToSet(p) /\ ToSet(p) \in SUBSET Torrent
    BY <1>4, <2>0
  <2>2. SizeOf(ToSet(q)) = Size[t] + SizeOf(ToSet(p))
    BY <2>1, <1>4, Sizes
  <2>3. SizeOf(ToSet(p)) \in Nat /\ Size[t] \in Nat
    BY <2>1, Sizes, Torrents
  <2> QED
    BY <2>2, <2>3
<1> QED
  BY <1>1, <1>3, <1>4, <1>5 DEF q

\* Taking a torrent not taken before: what is picked and what is left are still
\* all that was available.
Taken(acc, available) ==
  /\ acc \in [picked : Seq(Torrent), left : Nat]
  /\ IsInjective(acc.picked)
  /\ SizeOf(ToSet(acc.picked)) + acc.left = available

\* One step of the greedy selection.
LEMMA TakeOne ==
  ASSUME NEW available \in Nat, NEW acc, Taken(acc, available),
         NEW t \in Torrent, t \notin ToSet(acc.picked)
  PROVE  /\ Taken(TakeIfFits(acc, t), available)
         /\ ToSet(TakeIfFits(acc, t).picked) \subseteq ToSet(acc.picked) \cup {t}
<1>1. CASE Len(acc.picked) < MaxPromotions /\ Size[t] <= acc.left
  <2> DEFINE p == Append(acc.picked, t)
  <2>1. /\ acc.picked \in Seq(Torrent) /\ IsInjective(acc.picked) /\ acc.left \in Nat
        /\ SizeOf(ToSet(acc.picked)) + acc.left = available
    BY DEF Taken
  <2>2. /\ p \in Seq(Torrent) /\ IsInjective(p) /\ ToSet(p) = ToSet(acc.picked) \cup {t}
        /\ SizeOf(ToSet(p)) = SizeOf(ToSet(acc.picked)) + Size[t]
    BY <2>1, Appending
  <2>3. TakeIfFits(acc, t) = [picked |-> p, left |-> acc.left - Size[t]]
    BY <1>1 DEF TakeIfFits
  <2>4. ToSet(acc.picked) \in SUBSET Torrent
    BY <2>1 DEF ToSet
  <2>5. SizeOf(ToSet(acc.picked)) \in Nat /\ Size[t] \in Nat
    BY <2>4, Sizes, Torrents
  <2> HIDE DEF p
  <2>6. acc.left - Size[t] \in Nat /\ SizeOf(ToSet(p)) + (acc.left - Size[t]) = available
    BY <1>1, <2>1, <2>2, <2>5
  <2> DEFINE next == [picked |-> p, left |-> acc.left - Size[t]]
  <2>7. next \in [picked : Seq(Torrent), left : Nat] /\ next.picked = p /\ next.left = acc.left - Size[t]
    BY <2>2, <2>6
  <2>8. TakeIfFits(acc, t) = next
    BY <2>3
  <2> HIDE DEF next
  <2>9. Taken(next, available)
    BY <2>2, <2>6, <2>7 DEF Taken
  <2> QED
    BY <2>2, <2>7, <2>8, <2>9
<1>2. CASE ~(Len(acc.picked) < MaxPromotions /\ Size[t] <= acc.left)
  BY <1>2 DEF TakeIfFits
<1> QED
  BY <1>1, <1>2

\* The wanted torrents in the order in which both selections look at them.
Queue(v) == DensestFirst(v, Wanted(v))

\* It has each of them once.
LEMMA QueueOrders ==
  ASSUME NEW v, ViewType(v)
  PROVE  /\ Wanted(v) \in SUBSET Torrent
         /\ Len(Queue(v)) \in Nat /\ DOMAIN Queue(v) = 1..Len(Queue(v))
         /\ \A i \in 1..Len(Queue(v)) : Queue(v)[i] \in Wanted(v)
         /\ \A i, j \in 1..Len(Queue(v)) : Queue(v)[i] = Queue(v)[j] => i = j
<1>1. Wanted(v) \in SUBSET Torrent
  BY DEF Wanted, ViewType
<1>2. Queue(v) \in Seq(Wanted(v)) /\ IsInjective(Queue(v))
  BY <1>1, DensestFirstOrders DEF Enumerates, Queue
<1>3. /\ Len(Queue(v)) \in Nat /\ DOMAIN Queue(v) = 1..Len(Queue(v))
      /\ \A i \in 1..Len(Queue(v)) : Queue(v)[i] \in Wanted(v)
  BY <1>2
<1> QED
  BY <1>1, <1>2, <1>3 DEF IsInjective

\* What the greedy selection has gathered.
PickedType == [picked : Seq(Torrent), left : Nat]

\* select_promotions() as a loop: r[k] is what it has behind the k-th candidate.
PromotionLoops(r, v, available) ==
  /\ r \in [0..Len(Queue(v)) -> PickedType]
  /\ r[0] = [picked |-> << >>, left |-> available]
  /\ \A k \in 1..Len(Queue(v)) : r[k] = TakeIfFits(r[k - 1], Queue(v)[k])

\* It is one.
LEMMA PromotionLoop ==
  ASSUME NEW v, ViewType(v), NEW available \in Nat
  PROVE  \E r : /\ PromotionLoops(r, v, available)
                /\ SelectPromotions(v, available) = r[Len(Queue(v))].picked
<1> DEFINE order == Queue(v)
           n == Len(order)
           base == [picked |-> << >>, left |-> available]
           Folds(i) == i = [s \in SUBSET DOMAIN order |->
              IF s = {} THEN base ELSE TakeIfFits(i[s \ {Max(s)}], order[Max(s)])]
           iter == CHOOSE i : Folds(i)
           step == [p \in (1..n) \X PickedType |-> TakeIfFits(p[2], order[p[1]])]
<1> HIDE DEF order, n
<1>1. n \in Nat /\ DOMAIN order = 1..n /\ \A i \in 1..n : order[i] \in Torrent
  BY QueueOrders DEF n, order
<1>2. \A a \in PickedType, t \in Torrent : TakeIfFits(a, t) \in PickedType
  BY Torrents DEF TakeIfFits, PickedType
<1>3. base \in PickedType
  BY DEF PickedType
<1>4. \A k \in 1..n, a \in PickedType : step[<<k, a>>] = TakeIfFits(a, order[k])
  OBVIOUS
<1> HIDE DEF step, base, Folds, iter
<1>5. StepsIn(step, n, PickedType)
  BY <1>1, <1>2, <1>4 DEF StepsIn
<1>6. PICK g \in [SUBSET (1..n) -> PickedType] : FoldsSets(g, n, base, step)
  BY <1>5, <1>1, <1>3, FoldExists
<1>7. Folds(g)
  <2>1. \A s \in SUBSET (1..n) : s # {} => g[s] = TakeIfFits(g[s \ {Max(s)}], order[Max(s)])
    BY <1>4, <1>6 DEF FoldsSets
  <2> QED
    BY <1>1, <1>6, <2>1 DEF FoldsSets, Folds
<1>8. Folds(iter)
  BY <1>7 DEF iter
<1>9. SelectPromotions(v, available) = iter[DOMAIN order].picked
  BY DEF SelectPromotions, FoldLeft, MapThenFoldSet, order, Queue, base, iter, Folds
<1>10. iter[{}] = base
  BY <1>8 DEF Folds
<1>11. ASSUME NEW s \in SUBSET (1..n), s # {}, iter[s \ {Max(s)}] \in PickedType
       PROVE  iter[s] = step[<<Max(s), iter[s \ {Max(s)}]>>]
  <2>1. iter[s] = TakeIfFits(iter[s \ {Max(s)}], order[Max(s)])
    BY <1>1, <1>8, <1>11 DEF Folds
  <2>2. Max(s) \in 1..n
    BY <1>6, <1>11 DEF FoldsSets
  <2> QED
    BY <1>4, <1>11, <2>1, <2>2
<1>12. GoesOn(iter, n, PickedType, step)
  BY <1>11 DEF GoesOn
<1>13. \E r \in [0..n -> PickedType] : Loops(r, n, base, step) /\ iter[1..n] = r[n]
  <2> HIDE DEF PickedType
  <2>1. n \in Nat
    BY <1>1
  <2> QED
    BY <1>5, <1>3, <1>10, <1>12, <2>1, FoldLoop
<1>14. PICK r \in [0..n -> PickedType] : Loops(r, n, base, step) /\ iter[1..n] = r[n]
  BY <1>13
<1>15. ASSUME NEW k \in 1..n
       PROVE  r[k] = TakeIfFits(r[k - 1], order[k])
  <2>1. k - 1 \in 0..n
    BY <1>1
  <2>2. r[k] = step[<<k, r[k - 1]>>] /\ r[k - 1] \in PickedType
    BY <1>14, <2>1 DEF Loops
  <2> QED
    BY <1>4, <2>2
<1>16. r[0] = base /\ SelectPromotions(v, available) = r[n].picked
  BY <1>1, <1>9, <1>14 DEF Loops
<1> QED
  BY <1>14, <1>15, <1>16 DEF n, order, base, PromotionLoops

\* What it has taken are wanted torrents, each once, and with what is left they
\* are all that was available.
LEMMA LoopTakes ==
  ASSUME NEW v, ViewType(v), NEW available \in Nat, NEW r, PromotionLoops(r, v, available)
  PROVE  /\ Taken(r[Len(Queue(v))], available)
         /\ ToSet(r[Len(Queue(v))].picked) \subseteq Wanted(v)
<1> DEFINE order == Queue(v)
           n == Len(order)
           base == [picked |-> << >>, left |-> available]
<1> HIDE DEF order, n
<1>1. /\ n \in Nat
      /\ \A i \in 1..n : order[i] \in Wanted(v) /\ order[i] \in Torrent
      /\ \A i, j \in 1..n : order[i] = order[j] => i = j
  BY QueueOrders DEF n, order
<1>2. /\ r \in [0..n -> PickedType] /\ r[0] = base
      /\ \A k \in 1..n : r[k] = TakeIfFits(r[k - 1], order[k])
  BY DEF n, order, PromotionLoops
<1> DEFINE Good(k) == /\ Taken(r[k], available)
                      /\ ToSet(r[k].picked) \subseteq {order[i] : i \in 1..k}
           T == {k \in Nat : k <= n => Good(k)}
<1>3. 0 \in T
  <2>1. base.picked = << >> /\ base.left = available
    OBVIOUS
  <2>2. IsInjective(<< >>) /\ ToSet(<< >>) = {} /\ SizeOf({}) = 0
    BY Sizes DEF IsInjective, ToSet
  <2> HIDE DEF base
  <2>3. base \in [picked : Seq(Torrent), left : Nat]
    BY <1>1, <1>2 DEF PickedType
  <2>4. SizeOf(ToSet(base.picked)) = 0
    BY <2>1, <2>2, Zenon
  <2>5. SizeOf(ToSet(base.picked)) + base.left = available
    BY <2>1, <2>4
  <2>6. Taken(base, available)
    BY <2>1, <2>2, <2>3, <2>5 DEF Taken
  <2> QED
    BY <1>2, <2>1, <2>2, <2>6
<1>4. ASSUME NEW k \in Nat, k \in T
      PROVE  k + 1 \in T
  <2> SUFFICES ASSUME k + 1 <= n
               PROVE  Good(k + 1)
    OBVIOUS
  <2>1. k + 1 \in 1..n /\ Good(k) /\ (k + 1) - 1 = k
    BY <1>1, <1>4
  <2> DEFINE acc == r[k]
             t == order[k + 1]
  <2>2. r[k + 1] = TakeIfFits(acc, t)
    BY <1>2, <2>1
  <2>3. t \notin {order[i] : i \in 1..k}
    BY <1>1, <2>1
  <2>4. t \in Torrent /\ t \notin ToSet(acc.picked) /\ Taken(acc, available)
    BY <1>1, <2>1, <2>3
  <2>5. /\ Taken(TakeIfFits(acc, t), available)
        /\ ToSet(TakeIfFits(acc, t).picked) \subseteq ToSet(acc.picked) \cup {t}
    BY <2>4, TakeOne
  <2>6. {order[i] : i \in 1..k} \cup {t} \subseteq {order[i] : i \in 1..(k + 1)}
    BY <2>1
  <2> QED
    BY <2>1, <2>2, <2>5, <2>6
<1>5. Good(n)
  <2>1. n \in T
    <3> HIDE DEF T
    <3> QED
      BY <1>1, <1>3, <1>4, NumbersByInduction
  <2> QED
    BY <1>1, <2>1
<1>6. ToSet(r[n].picked) \subseteq Wanted(v)
  BY <1>1, <1>5
<1> QED
  BY <1>5, <1>6 DEF n, order

\* What select_promotions() takes are wanted torrents, each once, that fit into
\* what is available together.
LEMMA PromotionsFit ==
  ASSUME NEW v, ViewType(v), NEW available \in Nat
  PROVE  /\ SelectPromotions(v, available) \in Seq(Torrent)
         /\ IsInjective(SelectPromotions(v, available))
         /\ ToSet(SelectPromotions(v, available)) \subseteq Wanted(v)
         /\ SizeOf(ToSet(SelectPromotions(v, available))) <= available
<1>1. PICK r : /\ PromotionLoops(r, v, available)
               /\ SelectPromotions(v, available) = r[Len(Queue(v))].picked
  BY PromotionLoop
<1> DEFINE acc == r[Len(Queue(v))]
           p == SelectPromotions(v, available)
<1>2. Taken(acc, available) /\ ToSet(acc.picked) \subseteq Wanted(v)
  BY <1>1, LoopTakes
<1>3. p = acc.picked
  BY <1>1
<1> HIDE DEF acc, p
<1>4. p \in Seq(Torrent) /\ IsInjective(p) /\ ToSet(p) \subseteq Wanted(v)
  BY <1>2, <1>3 DEF Taken
<1>5. SizeOf(ToSet(p)) \in Nat
  BY <1>4, QueueOrders, Sizes
<1>6. acc.left \in Nat /\ SizeOf(ToSet(p)) + acc.left = available
  BY <1>2, <1>3 DEF Taken
<1>7. SizeOf(ToSet(p)) <= available
  BY <1>5, <1>6
<1> QED
  BY <1>4, <1>7 DEF p

-----------------------------------------------------------------------------
(* The plan of displacements.                                              *)

\* What the plan has gathered; its victims and its queue come from Q.
PlanType(Q) == [victims : Seq(Q), queue : Seq(Q), left : Nat, promoted : Nat]

\* Where the plan begins.
PlanBase(v, available) ==
  [victims |-> << >>, queue |-> LeastDenseFirst(v, Evictable(v)), left |-> available, promoted |-> 0]

\* Sets of the members of a sequence.
LEMMA Members ==
  ASSUME NEW S, NEW s \in Seq(S)
  PROVE  ToSet(s) \in SUBSET S
BY DEF ToSet

\* The members of two sequences are members of one behind the other.
LEMMA Joined ==
  ASSUME NEW S, NEW s \in Seq(S), NEW t \in Seq(S)
  PROVE  ToSet(s) \subseteq ToSet(s \o t) /\ ToSet(t) \subseteq ToSet(s \o t)
<1> DEFINE u == s \o t
<1>1. /\ Len(s) \in Nat /\ Len(t) \in Nat
      /\ DOMAIN s = 1..Len(s) /\ DOMAIN t = 1..Len(t) /\ DOMAIN u = 1..(Len(s) + Len(t))
      /\ \A i \in 1..Len(s) : u[i] = s[i]
      /\ \A i \in 1..Len(t) : u[Len(s) + i] = t[i]
  OBVIOUS
<1> HIDE DEF u
<1>2. \A i \in DOMAIN s : i \in DOMAIN u /\ u[i] = s[i]
  BY <1>1
<1>3. \A i \in DOMAIN t : Len(s) + i \in DOMAIN u /\ u[Len(s) + i] = t[i]
  BY <1>1
<1>4. ToSet(s) \subseteq ToSet(u) /\ ToSet(t) \subseteq ToSet(u)
  BY <1>2, <1>3 DEF ToSet
<1> QED
  BY <1>4 DEF u

\* Victims are only taken where they make room.
LEMMA VictimsFit ==
  ASSUME NEW v, NEW Q \in SUBSET Torrent, NEW acc \in PlanType(Q), NEW t \in Torrent,
         Victims(v, acc, t) # {}
  PROVE  LET n     == Min(Victims(v, acc, t))
             taken == SubSeq(acc.queue, 1, n)
             rest  == SubSeq(acc.queue, n + 1, Len(acc.queue))
         IN /\ taken \in Seq(Q) /\ rest \in Seq(Q) /\ taken # << >>
            /\ SizeOf(ToSet(taken)) \in Nat
            /\ acc.left + SizeOf(ToSet(taken)) - Size[t] \in Nat
<1> DEFINE n == Min(Victims(v, acc, t))
           taken == SubSeq(acc.queue, 1, n)
           rest  == SubSeq(acc.queue, n + 1, Len(acc.queue))
<1>1. acc.queue \in Seq(Q) /\ acc.left \in Nat /\ Len(acc.queue) \in Nat
  BY DEF PlanType
<1>2. Victims(v, acc, t) \in SUBSET Nat
  BY <1>1 DEF Victims
<1>3. n \in Victims(v, acc, t)
  <2> DEFINE S == Victims(v, acc, t)
  <2>1. S \in SUBSET Nat /\ S # {}
    BY <1>2
  <2> HIDE DEF S, n, taken, rest
  <2>2. Min(S) \in S
    BY <2>1, Least
  <2> QED
    BY <2>2 DEF S, n
<1> HIDE DEF n
<1>4. n \in 1..Len(acc.queue) /\ Size[t] <= acc.left + SizeOf(ToSet(taken))
  BY <1>3 DEF Victims
<1>5. taken \in Seq(Q) /\ rest \in Seq(Q) /\ Len(taken) = n
  BY <1>1, <1>4
<1>6. taken # << >>
  BY <1>4, <1>5
<1>7. SizeOf(ToSet(taken)) \in Nat /\ Size[t] \in Nat
  <2> HIDE DEF taken
  <2>1. ToSet(taken) \in SUBSET Torrent
    BY <1>5, Members
  <2> QED
    BY <2>1, Sizes, Torrents
<1>8. acc.left + SizeOf(ToSet(taken)) - Size[t] \in Nat
  <2> HIDE DEF taken
  <2> QED
    BY <1>1, <1>4, <1>7
<1> QED
  BY <1>5, <1>6, <1>7, <1>8 DEF n

\* A step of the plan.
LEMMA MakeRoomTyped ==
  ASSUME NEW v, NEW Q \in SUBSET Torrent, NEW acc \in PlanType(Q), NEW t \in Torrent
  PROVE  MakeRoom(v, acc, t) \in PlanType(Q)
<1>1. /\ acc.victims \in Seq(Q) /\ acc.queue \in Seq(Q) /\ acc.left \in Nat /\ acc.promoted \in Nat
      /\ Size[t] \in Nat
  BY Torrents DEF PlanType
<1>2. CASE acc.promoted = MaxPromotions \/ Len(acc.victims) = MaxEvictions
  BY <1>2 DEF MakeRoom
<1>3. CASE /\ ~(acc.promoted = MaxPromotions \/ Len(acc.victims) = MaxEvictions)
           /\ Size[t] <= acc.left
  <2>1. MakeRoom(v, acc, t) = [acc EXCEPT !.left = acc.left - Size[t], !.promoted = acc.promoted + 1]
    BY <1>3 DEF MakeRoom
  <2>2. acc.left - Size[t] \in Nat /\ acc.promoted + 1 \in Nat
    BY <1>1, <1>3
  <2> QED
    BY <2>1, <2>2 DEF PlanType
<1>4. CASE /\ ~(acc.promoted = MaxPromotions \/ Len(acc.victims) = MaxEvictions)
           /\ ~(Size[t] <= acc.left)
  <2>1. CASE Victims(v, acc, t) = {}
    BY <1>4, <2>1 DEF MakeRoom
  <2>2. CASE Victims(v, acc, t) # {}
    <3> DEFINE n     == Min(Victims(v, acc, t))
               taken == SubSeq(acc.queue, 1, n)
               rest  == SubSeq(acc.queue, n + 1, Len(acc.queue))
               left  == acc.left + SizeOf(ToSet(taken)) - Size[t]
    <3>1. MakeRoom(v, acc, t) = [victims |-> acc.victims \o taken, queue |-> rest,
                                 left |-> left, promoted |-> acc.promoted + 1]
      BY <1>4, <2>2 DEF MakeRoom
    <3>2. taken \in Seq(Q) /\ rest \in Seq(Q) /\ left \in Nat
      BY <2>2, VictimsFit
    <3> HIDE DEF taken, rest, left
    <3>3. acc.victims \o taken \in Seq(Q) /\ acc.promoted + 1 \in Nat
      BY <1>1, <3>2
    <3> QED
      BY <3>1, <3>2, <3>3 DEF PlanType
  <2> QED
    BY <2>1, <2>2
<1> QED
  BY <1>2, <1>3, <1>4

\* select_displacements() as a loop: r[k] is what it has behind the k-th candidate.
DisplacementLoops(r, v, available) ==
  /\ r \in [0..Len(Queue(v)) -> PlanType(Evictable(v))]
  /\ r[0] = PlanBase(v, available)
  /\ \A k \in 1..Len(Queue(v)) : r[k] = MakeRoom(v, r[k - 1], Queue(v)[k])

\* It is one.
LEMMA DisplacementLoop ==
  ASSUME NEW v, ViewType(v), NEW available \in Nat
  PROVE  \E r : /\ DisplacementLoops(r, v, available)
                /\ SelectDisplacements(v, available) = r[Len(Queue(v))].victims
<1> DEFINE order == Queue(v)
           n == Len(order)
           Plans == PlanType(Evictable(v))
           base == PlanBase(v, available)
           Folds(i) == i = [s \in SUBSET DOMAIN order |->
              IF s = {} THEN base ELSE MakeRoom(v, i[s \ {Max(s)}], order[Max(s)])]
           iter == CHOOSE i : Folds(i)
           step == [p \in (1..n) \X Plans |-> MakeRoom(v, p[2], order[p[1]])]
<1>1. Evictable(v) \in SUBSET Torrent
  BY DEF Evictable, ViewType
<1>2. LeastDenseFirst(v, Evictable(v)) \in Seq(Evictable(v))
  BY <1>1, LeastDenseFirstOrders DEF Enumerates
<1>3. base \in Plans
  BY <1>2 DEF PlanType, PlanBase
<1> HIDE DEF order, n
<1>4. n \in Nat /\ DOMAIN order = 1..n /\ \A i \in 1..n : order[i] \in Torrent
  BY QueueOrders DEF n, order
<1> HIDE DEF Plans
<1>5. \A k \in 1..n, a \in Plans : step[<<k, a>>] = MakeRoom(v, a, order[k])
  OBVIOUS
<1>6. \A a \in Plans, t \in Torrent : MakeRoom(v, a, t) \in Plans
  BY <1>1, MakeRoomTyped DEF Plans
<1> HIDE DEF step, base, Folds, iter
<1>7. StepsIn(step, n, Plans)
  BY <1>4, <1>5, <1>6 DEF StepsIn
<1>8. PICK g \in [SUBSET (1..n) -> Plans] : FoldsSets(g, n, base, step)
  BY <1>3, <1>4, <1>7, FoldExists
<1>9. Folds(g)
  <2>1. \A s \in SUBSET (1..n) : s # {} => g[s] = MakeRoom(v, g[s \ {Max(s)}], order[Max(s)])
    BY <1>5, <1>8 DEF FoldsSets
  <2> QED
    BY <1>4, <1>8, <2>1 DEF FoldsSets, Folds
<1>10. Folds(iter)
  BY <1>9 DEF iter
<1>11. SelectDisplacements(v, available) = iter[DOMAIN order].victims
  BY DEF SelectDisplacements, FoldLeft, MapThenFoldSet, order, Queue, base, PlanBase, iter, Folds
<1>12. iter[{}] = base
  BY <1>10 DEF Folds
<1>13. ASSUME NEW s \in SUBSET (1..n), s # {}, iter[s \ {Max(s)}] \in Plans
       PROVE  iter[s] = step[<<Max(s), iter[s \ {Max(s)}]>>]
  <2>1. iter[s] = MakeRoom(v, iter[s \ {Max(s)}], order[Max(s)])
    BY <1>4, <1>10, <1>13 DEF Folds
  <2>2. Max(s) \in 1..n
    BY <1>8, <1>13 DEF FoldsSets
  <2> QED
    BY <1>5, <1>13, <2>1, <2>2
<1>14. GoesOn(iter, n, Plans, step)
  BY <1>13 DEF GoesOn
<1>15. PICK r \in [0..n -> Plans] : Loops(r, n, base, step) /\ iter[1..n] = r[n]
  BY <1>3, <1>4, <1>7, <1>12, <1>14, FoldLoop
<1>16. ASSUME NEW k \in 1..n
       PROVE  r[k] = MakeRoom(v, r[k - 1], order[k])
  <2>1. k - 1 \in 0..n
    BY <1>4
  <2>2. r[k] = step[<<k, r[k - 1]>>] /\ r[k - 1] \in Plans
    BY <1>15, <2>1 DEF Loops
  <2> QED
    BY <1>5, <2>2
<1>17. r[0] = base /\ SelectDisplacements(v, available) = r[n].victims
  BY <1>4, <1>11, <1>15 DEF Loops
<1> QED
  BY <1>15, <1>16, <1>17 DEF n, order, base, Plans, DisplacementLoops

\* The victims are evictable torrents.
LEMMA DisplacementsTyped ==
  ASSUME NEW v, ViewType(v), NEW available \in Nat
  PROVE  /\ SelectDisplacements(v, available) \in Seq(Evictable(v))
         /\ Evictable(v) \in SUBSET Torrent
<1>1. Evictable(v) \in SUBSET Torrent
  BY DEF Evictable, ViewType
<1>2. Len(Queue(v)) \in 0..Len(Queue(v))
  BY QueueOrders
<1>3. PICK r : /\ DisplacementLoops(r, v, available)
               /\ SelectDisplacements(v, available) = r[Len(Queue(v))].victims
  BY DisplacementLoop
<1>4. r[Len(Queue(v))] \in PlanType(Evictable(v))
  BY <1>2, <1>3 DEF DisplacementLoops
<1> QED
  BY <1>1, <1>3, <1>4 DEF PlanType

\* The victims of a step of the plan stay victims.
LEMMA VictimsStay ==
  ASSUME NEW v, NEW Q \in SUBSET Torrent, NEW acc \in PlanType(Q), NEW t \in Torrent
  PROVE  ToSet(acc.victims) \subseteq ToSet(MakeRoom(v, acc, t).victims)
<1>1. CASE MakeRoom(v, acc, t).victims = acc.victims
  BY <1>1
<1>2. CASE MakeRoom(v, acc, t).victims # acc.victims
  <2> DEFINE n     == Min(Victims(v, acc, t))
             taken == SubSeq(acc.queue, 1, n)
  <2>1. Victims(v, acc, t) # {} /\ MakeRoom(v, acc, t).victims = acc.victims \o taken
    BY <1>2 DEF MakeRoom, PlanType
  <2>2. taken \in Seq(Q)
    BY <2>1, VictimsFit
  <2>3. acc.victims \in Seq(Q)
    BY DEF PlanType
  <2> HIDE DEF taken
  <2> QED
    BY <2>1, <2>2, <2>3, Joined
<1> QED
  BY <1>1, <1>2

\* The plan ends with all the victims of its way.
LEMMA VictimsInPlan ==
  ASSUME NEW v, ViewType(v), NEW available \in Nat, NEW r, DisplacementLoops(r, v, available)
  PROVE  \A k \in 0..Len(Queue(v)) : ToSet(r[k].victims) \subseteq ToSet(r[Len(Queue(v))].victims)
<1> DEFINE order == Queue(v)
           n == Len(order)
           V == ToSet(r[n].victims)
           T == {j \in Nat : \A k \in 0..n : k + j = n => ToSet(r[k].victims) \subseteq V}
<1> HIDE DEF order, n
<1>1. n \in Nat /\ \A i \in 1..n : order[i] \in Torrent
  BY QueueOrders DEF n, order
<1>2. /\ \A k \in 0..n : r[k] \in PlanType(Evictable(v))
      /\ \A k \in 1..n : r[k] = MakeRoom(v, r[k - 1], order[k])
  BY DEF n, order, DisplacementLoops
<1>3. Evictable(v) \in SUBSET Torrent
  BY DEF Evictable, ViewType
<1>4. 0 \in T
  BY <1>1
<1>5. ASSUME NEW j \in Nat, j \in T
      PROVE  j + 1 \in T
  <2> SUFFICES ASSUME NEW k \in 0..n, k + (j + 1) = n
               PROVE  ToSet(r[k].victims) \subseteq V
    OBVIOUS
  <2>1. k + 1 \in 1..n /\ k + 1 \in 0..n /\ (k + 1) + j = n /\ (k + 1) - 1 = k
    BY <1>1
  <2>2. r[k + 1] = MakeRoom(v, r[k], order[k + 1])
    BY <1>2, <2>1
  <2>3. ToSet(r[k].victims) \subseteq ToSet(r[k + 1].victims)
    BY <1>1, <1>2, <1>3, <2>1, <2>2, VictimsStay
  <2>4. ToSet(r[k + 1].victims) \subseteq V
    BY <1>5, <2>1
  <2> QED
    BY <2>3, <2>4
<1>6. \A j \in Nat : j \in T
  <2> HIDE DEF T
  <2> QED
    BY <1>4, <1>5, NumbersByInduction
<1>7. ASSUME NEW k \in 0..n
      PROVE  ToSet(r[k].victims) \subseteq V
  <2>1. n - k \in Nat /\ k + (n - k) = n
    BY <1>1
  <2>2. n - k \in T
    BY <1>6, <2>1
  <2> QED
    BY <2>1, <2>2
<1> QED
  BY <1>7 DEF n, order

\* How far select_promotions(), with what the victims V free besides, is when
\* the plan is at d: it follows the plan until that takes its first victims, or
\* has already taken more than would have fitted without them.
Follows(p, d, freed) ==
  /\ d.victims = << >> /\ d.promoted <= MaxPromotions /\ Len(p.picked) = d.promoted
  /\ p.left = d.left + freed

\* One candidate further.
LEMMA FollowsOn ==
  ASSUME NEW v, NEW Q \in SUBSET Torrent, NEW d \in PlanType(Q), NEW p \in PickedType, NEW t \in Torrent,
         NEW V \in SUBSET Torrent, ToSet(MakeRoom(v, d, t).victims) \subseteq V,
         Follows(p, d, SizeOf(V)) \/ p.left < SizeOf(V)
  PROVE  \/ Follows(TakeIfFits(p, t), MakeRoom(v, d, t), SizeOf(V))
         \/ TakeIfFits(p, t).left < SizeOf(V)
<1> DEFINE q == TakeIfFits(p, t)
           e == MakeRoom(v, d, t)
           freed == SizeOf(V)
<1>1. /\ d.victims \in Seq(Q) /\ d.queue \in Seq(Q) /\ d.left \in Nat /\ d.promoted \in Nat
      /\ p.picked \in Seq(Torrent) /\ p.left \in Nat
      /\ Size[t] \in Nat /\ Size[t] > 0 /\ freed \in Nat
  BY Torrents, Sizes DEF PlanType, PickedType
<1>2. MaxPromotions \in Nat /\ MaxEvictions \in Nat /\ MaxEvictions > 0
  BY SelectorAssumption
<1>3. /\ Len(p.picked) < MaxPromotions /\ Size[t] <= p.left =>
           q.picked = Append(p.picked, t) /\ q.left = p.left - Size[t]
      /\ ~(Len(p.picked) < MaxPromotions /\ Size[t] <= p.left) => q = p
  BY DEF TakeIfFits
<1> HIDE DEF q, freed
<1>4. CASE p.left < freed
  <2>1. q.left <= p.left
    BY <1>1, <1>3
  <2>2. q.left \in Int
    BY <1>1, <1>3
  <2> QED
    BY <1>1, <1>4, <2>1, <2>2 DEF q, freed
<1>5. CASE Follows(p, d, freed)
  <2>1. /\ d.victims = << >> /\ d.promoted <= MaxPromotions /\ Len(p.picked) = d.promoted
        /\ p.left = d.left + freed
    BY <1>5 DEF Follows
  <2>2. Len(d.victims) # MaxEvictions
    BY <1>2, <2>1
  <2>3. CASE d.promoted = MaxPromotions
    <3>1. e = d
      BY <2>3 DEF MakeRoom
    <3>2. q = p
      BY <1>2, <1>3, <2>1, <2>3
    <3> QED
      BY <1>5, <3>1, <3>2 DEF q, freed
  <2>4. CASE d.promoted # MaxPromotions /\ Size[t] <= d.left
    <3>1. e = [d EXCEPT !.left = d.left - Size[t], !.promoted = d.promoted + 1]
      BY <2>2, <2>4 DEF MakeRoom
    <3>2. e.victims = d.victims /\ e.left = d.left - Size[t] /\ e.promoted = d.promoted + 1
      BY <3>1 DEF PlanType
    <3> HIDE DEF e
    <3>3. q.picked = Append(p.picked, t) /\ q.left = p.left - Size[t]
      BY <1>1, <1>2, <1>3, <2>1, <2>4
    <3>4. Len(q.picked) = Len(p.picked) + 1
      BY <1>1, <3>3
    <3>5. e.victims = << >> /\ e.promoted <= MaxPromotions
      BY <1>1, <1>2, <2>1, <2>4, <3>2
    <3>6. Len(q.picked) = e.promoted
      BY <2>1, <3>2, <3>4
    <3>7. q.left = e.left + freed
      BY <1>1, <2>1, <3>2, <3>3
    <3>8. Follows(q, e, freed)
      BY <3>5, <3>6, <3>7 DEF Follows
    <3> QED
      BY <3>8 DEF q, e, freed
  <2>5. CASE d.promoted # MaxPromotions /\ ~(Size[t] <= d.left) /\ Victims(v, d, t) = {}
    <3>1. e = d
      BY <2>2, <2>5 DEF MakeRoom
    <3>2. CASE q = p
      BY <1>5, <3>1, <3>2 DEF q, freed
    <3>3. CASE q # p
      <4>1. q.left = p.left - Size[t]
        BY <1>3, <3>3
      <4>2. q.left < freed
        BY <1>1, <2>1, <2>5, <4>1
      <4> QED
        BY <4>2 DEF q, freed
    <3> QED
      BY <3>2, <3>3
  <2>6. CASE d.promoted # MaxPromotions /\ ~(Size[t] <= d.left) /\ Victims(v, d, t) # {}
    <3> DEFINE n     == Min(Victims(v, d, t))
               taken == SubSeq(d.queue, 1, n)
               seized == SizeOf(ToSet(taken))
    <3>1. e.victims = d.victims \o taken
      BY <2>2, <2>6 DEF MakeRoom
    <3>2. taken \in Seq(Q) /\ seized \in Nat /\ d.left + seized - Size[t] \in Nat
      BY <2>6, VictimsFit
    <3> HIDE DEF taken
    <3>3. ToSet(taken) \subseteq ToSet(e.victims)
      BY <1>1, <3>1, <3>2, Joined
    <3>4. ToSet(taken) \in SUBSET V
      BY <3>3
    <3>5. seized <= freed
      BY <3>4, SizesGrow DEF freed
    <3> HIDE DEF seized
    <3>6. Size[t] <= p.left
      BY <1>1, <2>1, <3>2, <3>5
    <3>7. q.left = p.left - Size[t]
      BY <1>1, <1>2, <1>3, <2>1, <2>6, <3>6
    <3>8. q.left < freed
      BY <1>1, <2>1, <2>6, <3>7
    <3> QED
      BY <3>8 DEF q, freed
  <2> QED
    BY <2>3, <2>4, <2>5, <2>6
<1> QED
  BY <1>4, <1>5 DEF freed

\* Both selections together: promotions that have the room of the victims, but
\* know nothing of the plan, take more than would have fitted without them.
LEMMA DisplacementsPay ==
  ASSUME NEW v, ViewType(v), NEW available \in Nat,
         NEW V, V = ToSet(SelectDisplacements(v, available)), V # {}
  PROVE  SizeOf(ToSet(SelectPromotions(v, available + SizeOf(V)))) > available
<1> DEFINE order == Queue(v)
           n == Len(order)
           freed == SizeOf(V)
<1> HIDE DEF order, n
<1>1. n \in Nat /\ n \in 0..n /\ \A i \in 1..n : order[i] \in Torrent
  BY QueueOrders DEF n, order
<1>2. Evictable(v) \in SUBSET Torrent /\ V \in SUBSET Torrent
  BY DisplacementsTyped, Members
<1>3. freed \in Nat
  BY <1>2, Sizes
<1>4. PICK d : /\ DisplacementLoops(d, v, available)
               /\ SelectDisplacements(v, available) = d[n].victims
  BY DisplacementLoop DEF n, order
<1> HIDE DEF freed
<1>5. available + freed \in Nat
  BY <1>3
<1>6. PICK p : /\ PromotionLoops(p, v, available + freed)
               /\ SelectPromotions(v, available + freed) = p[n].picked
  BY <1>5, PromotionLoop DEF n, order
<1>7. /\ \A k \in 0..n : d[k] \in PlanType(Evictable(v)) /\ ToSet(d[k].victims) \subseteq V
      /\ d[0] = PlanBase(v, available)
      /\ \A k \in 1..n : d[k] = MakeRoom(v, d[k - 1], order[k])
  <2>1. \A k \in 0..n : ToSet(d[k].victims) \subseteq V
    BY <1>4, VictimsInPlan DEF n, order
  <2> QED
    BY <1>4, <2>1 DEF n, order, DisplacementLoops
<1>8. /\ \A k \in 0..n : p[k] \in PickedType
      /\ p[0] = [picked |-> << >>, left |-> available + freed]
      /\ \A k \in 1..n : p[k] = TakeIfFits(p[k - 1], order[k])
  BY <1>6 DEF n, order, PromotionLoops
<1> DEFINE Good(k) == Follows(p[k], d[k], freed) \/ p[k].left < freed
           T == {k \in Nat : k <= n => Good(k)}
<1>9. 0 \in T
  <2>1. d[0].victims = << >> /\ d[0].promoted = 0 /\ d[0].left = available
    BY <1>7 DEF PlanBase
  <2>2. p[0].picked = << >> /\ p[0].left = available + freed
    BY <1>8
  <2>3. 0 <= MaxPromotions /\ Len(<< >>) = 0
    BY SelectorAssumption
  <2>4. Follows(p[0], d[0], freed)
    BY <2>1, <2>2, <2>3 DEF Follows
  <2> QED
    BY <2>4
<1>10. ASSUME NEW k \in Nat, k \in T
       PROVE  k + 1 \in T
  <2> SUFFICES ASSUME k + 1 <= n
               PROVE  Good(k + 1)
    OBVIOUS
  <2>1. k + 1 \in 1..n /\ k + 1 \in 0..n /\ k \in 0..n /\ (k + 1) - 1 = k /\ Good(k)
    BY <1>1, <1>10
  <2>2. /\ d[k + 1] = MakeRoom(v, d[k], order[k + 1])
        /\ p[k + 1] = TakeIfFits(p[k], order[k + 1])
    BY <1>7, <1>8, <2>1
  <2>3. /\ d[k] \in PlanType(Evictable(v)) /\ p[k] \in PickedType /\ order[k + 1] \in Torrent
        /\ ToSet(d[k + 1].victims) \subseteq V
    BY <1>1, <1>7, <1>8, <2>1
  <2>4. \/ Follows(TakeIfFits(p[k], order[k + 1]), MakeRoom(v, d[k], order[k + 1]), freed)
        \/ TakeIfFits(p[k], order[k + 1]).left < freed
    BY <1>2, <2>1, <2>2, <2>3, FollowsOn DEF freed
  <2> QED
    BY <2>2, <2>4
<1>11. Good(n)
  <2>1. n \in T
    <3> HIDE DEF T
    <3> QED
      BY <1>1, <1>9, <1>10, NumbersByInduction
  <2> QED
    BY <1>1, <2>1
<1>12. p[n].left < freed
  <2>1. d[n].victims # << >>
    BY <1>4 DEF ToSet
  <2> QED
    BY <1>11, <2>1 DEF Follows
<1>13. Taken(p[n], available + freed)
  BY <1>5, <1>6, LoopTakes DEF n, order
<1> DEFINE total == SizeOf(ToSet(SelectPromotions(v, available + freed)))
<1>14. total + p[n].left = available + freed /\ p[n].left \in Nat
  BY <1>6, <1>13 DEF Taken
<1>15. total \in Nat
  BY <1>5, PromotionsFit, Members, Sizes
<1> HIDE DEF total
<1>16. total > available
  BY <1>3, <1>12, <1>14, <1>15
<1> QED
  BY <1>16 DEF total, freed

-----------------------------------------------------------------------------
(* The account.                                                            *)

\* The first of the torrents still to do, and the others.
LEMMA Heads ==
  ASSUME NEW s \in Seq(Torrent), s # << >>
  PROVE  /\ Head(s) \in Torrent /\ Head(s) \in ToSet(s)
         /\ Tail(s) \in Seq(Torrent)
         /\ ToSet(s) = {Head(s)} \cup ToSet(Tail(s))
         /\ ToSet(s) \in SUBSET Torrent /\ ToSet(Tail(s)) \in SUBSET Torrent
         /\ IsInjective(s) => /\ IsInjective(Tail(s)) /\ Head(s) \notin ToSet(Tail(s))
                              /\ SizeOf(ToSet(s)) = Size[Head(s)] + SizeOf(ToSet(Tail(s)))
<1> DEFINE r == Tail(s)
<1>1. /\ Len(s) \in Nat /\ Len(s) > 0 /\ DOMAIN s = 1..Len(s) /\ s[1] = Head(s)
      /\ r \in Seq(Torrent) /\ DOMAIN r = 1..(Len(s) - 1) /\ \A i \in 1..(Len(s) - 1) : r[i] = s[i + 1]
  OBVIOUS
<1> HIDE DEF r
<1>2. ToSet(s) = {Head(s)} \cup ToSet(r)
  <2>1. \A i \in 1..(Len(s) - 1) : i + 1 \in 1..Len(s)
    BY <1>1
  <2>2. ToSet(r) \subseteq ToSet(s)
    BY <1>1, <2>1 DEF ToSet
  <2>3. 1 \in 1..Len(s)
    BY <1>1
  <2>4. Head(s) \in ToSet(s)
    BY <1>1, <2>3 DEF ToSet
  <2>5. ASSUME NEW i \in 1..Len(s), i # 1
        PROVE  s[i] \in ToSet(r)
    <3>1. i - 1 \in 1..(Len(s) - 1) /\ (i - 1) + 1 = i
      BY <1>1, <2>5
    <3>2. r[i - 1] = s[i] /\ i - 1 \in DOMAIN r
      BY <1>1, <3>1
    <3> QED
      BY <3>2 DEF ToSet
  <2>6. ToSet(s) \subseteq {Head(s)} \cup ToSet(r)
    BY <1>1, <2>5 DEF ToSet
  <2> QED
    BY <2>2, <2>4, <2>6
<1>3. Head(s) \in Torrent /\ ToSet(s) \in SUBSET Torrent /\ ToSet(r) \in SUBSET Torrent
  BY <1>1, Members
<1>4. ASSUME IsInjective(s)
      PROVE  /\ IsInjective(r) /\ Head(s) \notin ToSet(r)
             /\ SizeOf(ToSet(s)) = Size[Head(s)] + SizeOf(ToSet(r))
  <2>1. \A i, j \in 1..Len(s) : s[i] = s[j] => i = j
    BY <1>1, <1>4 DEF IsInjective
  <2>2. IsInjective(r)
    BY <1>1, <2>1 DEF IsInjective
  <2>3. \A i \in 1..(Len(s) - 1) : i + 1 \in 1..Len(s) /\ 1 \in 1..Len(s) /\ i + 1 # 1
    BY <1>1
  <2>4. \A i \in 1..(Len(s) - 1) : r[i] # Head(s)
    BY <1>1, <2>1, <2>3
  <2>5. Head(s) \notin ToSet(r)
    BY <1>1, <2>4 DEF ToSet
  <2>6. ToSet(s) \ {Head(s)} = ToSet(r)
    BY <1>2, <2>5
  <2> QED
    BY <1>2, <1>3, <2>2, <2>5, <2>6, Sizes
<1> QED
  BY <1>1, <1>2, <1>3, <1>4 DEF r

\* Bytes are numbers.
LEMMA Bytes ==
  ASSUME TypeOK
  PROVE  /\ \A S \in SUBSET Torrent : DiskOf(S) \in Nat
         /\ Booked \in Nat /\ Free \in Int
<1>1. \A t \in Torrent : disk[t] \in Nat
  BY DEF TypeOK
<1>2. \A S \in SUBSET Torrent : IsFiniteSet(S)
  BY Torrents, FS_Subset
<1>3. \A S \in SUBSET Torrent : DiskOf(S) \in Nat
  BY <1>1, <1>2, SumFirst DEF DiskOf
<1>4. Hot \in SUBSET Torrent /\ Torrent \in SUBSET Torrent
  BY DEF Hot
<1>5. Booked \in Nat
  BY <1>4, Sizes DEF Booked
<1>6. DiskOf(Torrent) \in Nat
  BY <1>3, <1>4
<1>7. other \in Int /\ Capacity \in Int
  BY BudgetAssumption DEF TypeOK
<1> QED
  BY <1>3, <1>5, <1>6, <1>7 DEF Free

\* Headroom is what quota and filesystem leave, if they leave anything.
LEMMA HeadroomLeft ==
  ASSUME TypeOK, ViewInv
  PROVE  /\ Headroom \in Nat /\ Untracked \in Nat
         /\ Headroom > 0 => /\ Booked + Untracked + Headroom <= Quota
                            /\ MinFree + Headroom <= Free
         /\ Spare \in Int /\ (Spare >= 0 => Headroom = Spare)
<1>1. view.quarantined \ Hot \in SUBSET Torrent
  BY DEF ViewInv
<1>2. Untracked \in Nat /\ Booked \in Nat /\ Free \in Int
  BY <1>1, Bytes DEF Untracked
<1>3. MinFree \in Nat /\ Quota \in Nat
  BY BudgetAssumption
<1>4. Quota - (Booked + Untracked) \in Int /\ Free - MinFree \in Int
  BY <1>2, <1>3
<1>5. /\ Spare = Quota - (Booked + Untracked) \/ Spare = Free - MinFree
      /\ Spare <= Quota - (Booked + Untracked) /\ Spare <= Free - MinFree
  <2> DEFINE a == Quota - (Booked + Untracked)
             b == Free - MinFree
  <2>1. a \in Int /\ b \in Int
    BY <1>4
  <2>2. Spare = Min({a, b})
    BY DEF Spare
  <2> HIDE DEF a, b
  <2>3. Spare = IF a <= b THEN a ELSE b
    BY <2>1, <2>2, OfTwo
  <2>4. (Spare = a \/ Spare = b) /\ Spare <= a /\ Spare <= b
    BY <2>1, <2>3
  <2> QED
    BY <2>4 DEF a, b
<1>6. Spare \in Int
  BY <1>4, <1>5
<1>7. Headroom = IF 0 >= Spare THEN 0 ELSE Spare
  BY <1>6, OfTwo DEF Headroom
<1> QED
  BY <1>2, <1>3, <1>5, <1>6, <1>7

-----------------------------------------------------------------------------
(* Types.                                                                  *)

\* Initially everything has its type.
LEMMA InitTyped ==
  ASSUME Init
  PROVE  TypeOK
<1>1. MaxAge \in Nat
  BY Ages
<1>2. rate \in [Torrent -> Nat]
  BY BudgetAssumption DEF Init
<1>3. 0 \in 0..MaxAge /\ 0 \in 0..MaxOther /\ MaxEvents \in 0..MaxEvents
  BY <1>1, BudgetAssumption
<1>4. \A t \in Torrent : 0 <= Size[t]
  BY Torrents
<1>5. NoSidecar \in NoSidecar..MaxAge
  BY Ages
<1> QED
  BY <1>2, <1>3, <1>4, <1>5 DEF Init, TypeOK

\* A disturbance takes one from their number.
LEMMA BudgetTyped ==
  ASSUME TypeOK, NEW kind, Disturb(kind)
  PROVE  budget' \in 0..MaxEvents
BY BudgetAssumption DEF TypeOK, Disturb

\* A torrent grows one tick older.
LEMMA OlderTyped ==
  ASSUME TypeOK, NEW t \in Torrent
  PROVE  Older(t) \in 0..MaxAge
BY Ages DEF TypeOK, Older

\* One row is written, or none.
LEMMA RowTyped ==
  ASSUME TypeOK, NEW t \in Torrent,
         \/ UNCHANGED <<tier, age>>
         \/ \E x \in {"none", "cold", "hot"} :
               tier' = [tier EXCEPT ![t] = x] /\ age' = [age EXCEPT ![t] = 0]
  PROVE  tier' \in [Torrent -> {"none", "cold", "hot"}] /\ age' \in [Torrent -> 0..MaxAge]
<1>1. tier \in [Torrent -> {"none", "cold", "hot"}] /\ age \in [Torrent -> 0..MaxAge] /\ 0 \in 0..MaxAge
  BY Ages DEF TypeOK
<1>2. CASE UNCHANGED <<tier, age>>
  BY <1>1, <1>2
<1>3. ASSUME NEW x \in {"none", "cold", "hot"},
             tier' = [tier EXCEPT ![t] = x], age' = [age EXCEPT ![t] = 0]
      PROVE  tier' \in [Torrent -> {"none", "cold", "hot"}] /\ age' \in [Torrent -> 0..MaxAge]
  <2>1. tier' \in [Torrent -> {"none", "cold", "hot"}]
    BY <1>1, <1>3
  <2>2. age' \in [Torrent -> 0..MaxAge]
    BY <1>1, <1>3
  <2> QED
    BY <2>1, <2>2
<1> QED
  BY <1>2, <1>3

\* The end of a tick forgets what the tick knew.
LEMMA EndTyped ==
  ASSUME ForgetTick
  PROVE  /\ todo' \in Seq(Torrent) /\ todo' = << >>
         /\ avail' \in Nat /\ room' \in Nat /\ gained' \in Nat /\ evicted' = {} /\ gained' = 0
BY DEF ForgetTick

\* A sidecar that grows older is still there.
LEMMA SidecarAge ==
  ASSUME NEW x \in NoSidecar..MaxAge, x # NoSidecar, x # MaxAge
  PROVE  x + 1 \in NoSidecar..MaxAge /\ x + 1 # NoSidecar
BY Ages DEF NoSidecar

\* Time makes sidecars older, and neither more nor fewer.
LEMMA SidecarsOlder ==
  ASSUME TypeOK, NEW seen, NEW ok, Poll(seen, ok)
  PROVE  side' \in [Torrent -> NoSidecar..MaxAge] /\ Noted' = Noted
<1>1. side \in [Torrent -> NoSidecar..MaxAge]
  BY DEF TypeOK
<1>2. side' = [t \in Torrent |-> IF side[t] \in {NoSidecar, MaxAge} THEN side[t] ELSE side[t] + 1]
  BY DEF Poll
<1>3. \A t \in Torrent : /\ side'[t] \in NoSidecar..MaxAge
                         /\ side'[t] = NoSidecar <=> side[t] = NoSidecar
  BY <1>1, <1>2, SidecarAge
<1>4. side' \in [Torrent -> NoSidecar..MaxAge]
  BY <1>2, <1>3
<1> QED
  BY <1>3, <1>4 DEF Noted

\* A poll: the view has its type, and so have the torrents to demote.
LEMMA PollTyped ==
  ASSUME TypeOK, NEW seen \in SUBSET Torrent, NEW ok, Poll(seen, ok)
  PROVE  TypeOK' /\ ViewType(view') /\ view' = Candidates(seen, ok)
<1>1. view' = Candidates(seen, ok)
  BY DEF Poll
<1>2. ViewType(view')
  BY <1>1 DEF Candidates, ViewType, TypeOK, Hot
<1>3. todo' \in Seq(Torrent)
  BY <1>2, DemotionsTyped DEF Poll
<1>4. age' \in [Torrent -> 0..MaxAge]
  BY OlderTyped DEF Poll
<1>5. tier' \in [Torrent -> {"none", "cold", "hot"}]
  BY DEF Poll, TypeOK
<1>6. budget' \in 0..MaxEvents
  BY BudgetTyped DEF Poll, TypeOK
<1>7. side' \in [Torrent -> NoSidecar..MaxAge]
  BY SidecarsOlder
<1> QED
  BY <1>1, <1>2, <1>3, <1>4, <1>5, <1>6, <1>7 DEF Poll, TypeOK, worldVars, ghostVars

\* Directories that are removed.
LEMMA EmptiedTyped ==
  ASSUME TypeOK, NEW S, Emptied(S)
  PROVE  /\ disk' \in [Torrent -> Nat] /\ \A u \in Torrent : disk'[u] <= Size[u]
         /\ side' \in [Torrent -> NoSidecar..MaxAge]
         /\ pend' \subseteq Torrent /\ linked' \subseteq Torrent /\ failed' \subseteq Torrent
         /\ Noted' = Noted \ S
<1>1. disk' \in [Torrent -> Nat] /\ \A u \in Torrent : disk'[u] <= Size[u]
  BY Torrents DEF Emptied, TypeOK
<1>2. side' \in [Torrent -> NoSidecar..MaxAge]
  BY Ages DEF Emptied, TypeOK
<1>3. pend' \subseteq Torrent /\ linked' \subseteq Torrent /\ failed' \subseteq Torrent
  BY DEF Emptied, TypeOK
<1>4. Noted' = Noted \ S
  BY DEF Emptied, Noted
<1> QED
  BY <1>1, <1>2, <1>3, <1>4

\* The demotion of a torrent.
LEMMA DemoteStepTyped ==
  ASSUME TypeOK, NEW t \in Torrent, DemoteStep(t)
  PROVE  /\ tier' \in [Torrent -> {"none", "cold", "hot"}]
         /\ age' \in [Torrent -> 0..MaxAge]
         /\ disk' = [disk EXCEPT ![t] = 0]
         /\ Hot' = Hot \ {t}
<1>1. tier' = [tier EXCEPT ![t] = "cold"] /\ age' = [age EXCEPT ![t] = 0] /\ Emptied({t})
  BY DEF DemoteStep
<1>2. tier' \in [Torrent -> {"none", "cold", "hot"}] /\ age' \in [Torrent -> 0..MaxAge]
  BY <1>1, RowTyped
<1>3. disk' = [disk EXCEPT ![t] = 0]
  BY <1>1 DEF Emptied, TypeOK
<1>4. Hot' = Hot \ {t}
  BY <1>1 DEF Hot, TypeOK
<1> QED
  BY <1>2, <1>3, <1>4

\* Bytes of one torrent's directory are set.
LEMMA DiskTyped ==
  ASSUME TypeOK, NEW t \in Torrent, NEW k \in Nat, k <= Size[t], disk' = [disk EXCEPT ![t] = k]
  PROVE  disk' \in [Torrent -> Nat] /\ \A u \in Torrent : disk'[u] <= Size[u]
BY DEF TypeOK

\* A promotion that ends early leaves no more than the torrent.
LEMMA HalfTyped ==
  ASSUME TypeOK, NEW t \in Torrent, HalfPromoted(t)
  PROVE  /\ disk' \in [Torrent -> Nat] /\ \A u \in Torrent : disk'[u] <= Size[u]
         /\ side' \in [Torrent -> NoSidecar..MaxAge]
         /\ pend' \subseteq Torrent /\ linked' \subseteq Torrent
         /\ UNCHANGED <<side, linked>> \/ (Noted' = Noted \cup {t} /\ linked' \subseteq linked \cup {t})
<1>1. PICK k \in disk[t]..Size[t] : disk' = [disk EXCEPT ![t] = k]
  BY DEF HalfPromoted
<1>2. k \in Nat /\ k <= Size[t]
  <2>1. disk[t] \in Nat /\ Size[t] \in Nat
    BY Torrents DEF TypeOK
  <2> QED
    BY <2>1
<1>3. disk' \in [Torrent -> Nat] /\ \A u \in Torrent : disk'[u] <= Size[u]
  BY <1>1, <1>2, DiskTyped
<1>4. /\ pend' \subseteq Torrent /\ linked' \subseteq Torrent
      /\ UNCHANGED <<side, linked>>
         \/ (side' = [side EXCEPT ![t] = 0] /\ linked' \subseteq linked \cup {t})
  BY DEF HalfPromoted, TypeOK
<1>5. side \in [Torrent -> NoSidecar..MaxAge] /\ 0 \in 0..MaxAge /\ 0 \in NoSidecar..MaxAge /\ 0 # NoSidecar
  BY Ages DEF TypeOK
<1>6. side' \in [Torrent -> NoSidecar..MaxAge]
  BY <1>4, <1>5
<1>7. side' = [side EXCEPT ![t] = 0] => Noted' = Noted \cup {t}
  BY <1>5 DEF Noted
<1> QED
  BY <1>3, <1>4, <1>6, <1>7

\* A demotion that ends early leaves no more than there was.
LEMMA HalfDemotedTyped ==
  ASSUME TypeOK, NEW t \in Torrent, HalfDemoted(t)
  PROVE  disk' \in [Torrent -> Nat] /\ \A u \in Torrent : disk'[u] <= Size[u]
<1>1. PICK k \in 0..disk[t] : disk' = [disk EXCEPT ![t] = k]
  BY DEF HalfDemoted
<1>2. disk[t] \in Nat /\ disk[t] <= Size[t] /\ Size[t] \in Nat
  BY Torrents DEF TypeOK
<1>3. k \in Nat /\ k <= Size[t]
  BY <1>2
<1> QED
  BY <1>1, <1>3, DiskTyped

\* A mapping is lost, and with it the row or the sidecar that said so.
LEMMA LoseTyped ==
  ASSUME TypeOK, NEW t \in Torrent, LoseMapping(t)
  PROVE  /\ tier' \in [Torrent -> {"none", "cold", "hot"}] /\ age' \in [Torrent -> 0..MaxAge]
         /\ side' \in [Torrent -> NoSidecar..MaxAge]
         /\ Hot' = Hot \ {t} /\ Noted' = Noted \ {t}
<1>1. /\ tier' = [tier EXCEPT ![t] = IF tier[t] = "hot" THEN "none" ELSE tier[t]]
      /\ age' = [age EXCEPT ![t] = IF tier[t] = "hot" THEN 0 ELSE age[t]]
      /\ side' = [side EXCEPT ![t] = NoSidecar]
  BY DEF LoseMapping
<1>2. tier \in [Torrent -> {"none", "cold", "hot"}] /\ age \in [Torrent -> 0..MaxAge] /\ 0 \in 0..MaxAge
  BY Ages DEF TypeOK
<1>3. side \in [Torrent -> NoSidecar..MaxAge] /\ NoSidecar \in NoSidecar..MaxAge
  BY Ages DEF TypeOK
<1>4. tier' \in [Torrent -> {"none", "cold", "hot"}] /\ Hot' = Hot \ {t}
  BY <1>1, <1>2 DEF Hot
<1>5. age' \in [Torrent -> 0..MaxAge]
  BY <1>1, <1>2
<1>6. side' \in [Torrent -> NoSidecar..MaxAge] /\ Noted' = Noted \ {t}
  BY <1>1, <1>3 DEF Noted
<1> QED
  BY <1>4, <1>5, <1>6

\* A start books what has a sidecar, and drops rows of directories that are gone.
LEMMA StartTyped ==
  ASSUME TypeOK, Start
  PROVE  /\ tier' \in [Torrent -> {"none", "cold", "hot"}] /\ age' \in [Torrent -> 0..MaxAge]
         /\ side' \in [Torrent -> NoSidecar..MaxAge] /\ Noted' = {} /\ linked' = {}
         /\ pend' \subseteq Torrent /\ failed' \subseteq Torrent
         /\ \E gone \in SUBSET Hot : Hot' = (Hot \ gone) \cup Noted /\ failed' = failed \ gone
<1>1. PICK gone \in SUBSET {t \in Hot : disk[t] = 0} :
        /\ tier' = [t \in Torrent |->
                      IF t \in Noted THEN "hot" ELSE IF t \in gone THEN "none" ELSE tier[t]]
        /\ age' = [t \in Torrent |->
                     IF t \in Noted THEN side[t] ELSE IF t \in gone THEN 0 ELSE age[t]]
        /\ pend' = pend \ gone /\ failed' = failed \ gone
  BY DEF Start
<1>2. tier' \in [Torrent -> {"none", "cold", "hot"}]
  BY <1>1 DEF TypeOK
<1>3. age' \in [Torrent -> 0..MaxAge]
  <2>1. \A t \in Torrent : t \in Noted => side[t] \in 0..MaxAge
    BY Ages DEF TypeOK, Noted
  <2>2. age \in [Torrent -> 0..MaxAge] /\ 0 \in 0..MaxAge
    BY Ages DEF TypeOK
  <2> QED
    BY <1>1, <2>1, <2>2
<1>4. side' \in [Torrent -> NoSidecar..MaxAge] /\ Noted' = {} /\ linked' = {}
  BY Ages DEF Start, Noted
<1>5. pend' \subseteq Torrent /\ failed' \subseteq Torrent
  BY <1>1 DEF TypeOK
<1>6. gone \in SUBSET Hot /\ Hot' = (Hot \ gone) \cup Noted
  BY <1>1 DEF Hot, Noted
<1> QED
  BY <1>1, <1>2, <1>3, <1>4, <1>5, <1>6

\* Selected promotions are torrents.
LEMMA PromotionsTyped ==
  ASSUME TypeOK, ViewInv, NEW available \in Nat, BeginPromotions(available)
  PROVE  phase' = "promote" /\ todo' \in Seq(Torrent) /\ avail' \in Nat
BY PromotionsFit DEF BeginPromotions, ViewInv

\* Every step keeps the types.
LEMMA TypeKept ==
  ASSUME TypeOK, ViewInv, [Next]_vars
  PROVE  TypeOK'
<1> USE DEF TypeOK, worldVars, ghostVars, cacheVars, rowVars
<1>1. CASE Poll(Torrent, TRUE) \/ \E seen \in SUBSET Torrent : Poll(seen, FALSE)
  <2>1. PICK seen \in SUBSET Torrent, ok \in BOOLEAN : Poll(seen, ok)
    BY <1>1
  <2> QED
    BY <2>1, PollTyped
<1>2. CASE Demote \/ Displace
  <2>1. todo # << >> /\ DemoteStep(Head(todo)) /\ todo' = Tail(todo)
    BY <1>2 DEF Demote, Displace
  <2>2. Head(todo) \in Torrent /\ todo' \in Seq(Torrent)
    BY <2>1, Heads
  <2>3. /\ tier' \in [Torrent -> {"none", "cold", "hot"}]
        /\ age' \in [Torrent -> 0..MaxAge]
    BY <2>1, <2>2, DemoteStepTyped
  <2>5. Emptied({Head(todo)})
    BY <2>1 DEF DemoteStep
  <2>6. /\ disk' \in [Torrent -> Nat] /\ \A u \in Torrent : disk'[u] <= Size[u]
        /\ side' \in [Torrent -> NoSidecar..MaxAge]
        /\ pend' \subseteq Torrent /\ linked' \subseteq Torrent /\ failed' \subseteq Torrent
    BY <2>5, EmptiedTyped
  <2>4. evicted' \subseteq Torrent
    BY <1>2, <2>2 DEF Demote, Displace
  <2> QED
    BY <1>2, <2>2, <2>3, <2>4, <2>6 DEF Demote, Displace
<1>3. CASE DemoteFails
  <2>1. Head(todo) \in Torrent /\ todo' \in Seq(Torrent)
    BY <1>3, Heads DEF DemoteFails
  <2>2. HalfDemoted(Head(todo))
    BY <1>3 DEF DemoteFails
  <2>3. UNCHANGED <<pend, side, linked>>
    BY <2>2 DEF HalfDemoted
  <2>4. disk' \in [Torrent -> Nat] /\ \A u \in Torrent : disk'[u] <= Size[u]
    BY <2>1, <2>2, HalfDemotedTyped
  <2>5. budget' \in 0..MaxEvents
    BY <1>3, BudgetTyped DEF DemoteFails
  <2> QED
    BY <1>3, <2>1, <2>3, <2>4, <2>5 DEF DemoteFails
<1>4. CASE Reclaim
  <2>1. Emptied(IF view.ok THEN Reclaimable ELSE {})
    BY <1>4 DEF Reclaim
  <2>2. /\ disk' \in [Torrent -> Nat] /\ \A u \in Torrent : disk'[u] <= Size[u]
        /\ side' \in [Torrent -> NoSidecar..MaxAge]
        /\ pend' \subseteq Torrent /\ linked' \subseteq Torrent /\ failed' \subseteq Torrent
    BY <2>1, EmptiedTyped
  <2> QED
    BY <1>4, <2>2 DEF Reclaim
<1>5. CASE MeasureAndDisplace
  <2>1. CASE Suspended
    <3>1. EndTick
      BY <1>5, <2>1 DEF MeasureAndDisplace
    <3> QED
      BY <1>5, <3>1, EndTyped DEF MeasureAndDisplace, EndTick
  <2>2. CASE ~Suspended
    <3> DEFINE victims == IF view.ok THEN SelectDisplacements(view, Headroom) ELSE << >>
    <3>1. /\ IF victims = << >> THEN BeginPromotions(Headroom)
             ELSE phase' = "displace" /\ todo' = victims /\ avail' = Headroom
          /\ room' = Headroom /\ UNCHANGED <<view, evicted, gained>>
          /\ UNCHANGED <<rowVars, cacheVars, worldVars, budget>>
      BY <1>5, <2>2 DEF MeasureAndDisplace
    <3>2. Headroom \in Nat
      BY HeadroomLeft
    <3>3. victims \in Seq(Torrent)
      BY <3>2, DisplacementsTyped DEF ViewInv
    <3> HIDE DEF victims
    <3>4. phase' \in {"displace", "promote"} /\ todo' \in Seq(Torrent) /\ avail' \in Nat
      BY <3>1, <3>2, <3>3, PromotionsTyped
    <3> QED
      BY <3>1, <3>2, <3>4
  <2> QED
    BY <2>1, <2>2
<1>6. CASE MeasureAgain
  <2>1. phase' = "promote" /\ todo' \in Seq(Torrent) /\ avail' \in Nat
    BY <1>6, HeadroomLeft, PromotionsTyped DEF MeasureAgain
  <2> QED
    BY <1>6, <2>1 DEF MeasureAgain
<1>7. CASE Promote
  <2>1. Head(todo) \in Torrent /\ todo' \in Seq(Torrent)
    BY <1>7, Heads DEF Promote
  <2>2. Size[Head(todo)] \in Nat /\ Size[Head(todo)] <= Size[Head(todo)]
    BY <2>1, Torrents
  <2>3. disk' = [disk EXCEPT ![Head(todo)] = Size[Head(todo)]]
    BY <1>7 DEF Promote
  <2>4. disk' \in [Torrent -> Nat] /\ \A u \in Torrent : disk'[u] <= Size[u]
    BY <2>1, <2>2, <2>3, DiskTyped
  <2>5. /\ gained' = gained + Size[Head(todo)] /\ pend' = pend \ {Head(todo)}
        /\ side' = [side EXCEPT ![Head(todo)] = NoSidecar]
        /\ linked' = linked \ {Head(todo)} /\ failed' = failed \ {Head(todo)}
        /\ tier' = [tier EXCEPT ![Head(todo)] = "hot"] /\ age' = [age EXCEPT ![Head(todo)] = 0]
    <3> HIDE DEF TypeOK, ViewInv
    <3> QED
      BY <1>7 DEF Promote
  <2>6. age' \in [Torrent -> 0..MaxAge] /\ tier' \in [Torrent -> {"none", "cold", "hot"}]
    BY <2>1, <2>5, RowTyped
  <2>7. gained' \in Nat /\ pend' \subseteq Torrent /\ linked' \subseteq Torrent /\ failed' \subseteq Torrent
    <3>1. gained \in Nat /\ pend \subseteq Torrent /\ linked \subseteq Torrent /\ failed \subseteq Torrent
      OBVIOUS
    <3> HIDE DEF TypeOK, ViewInv
    <3> QED
      BY <2>2, <2>5, <3>1
  <2>8. side' \in [Torrent -> NoSidecar..MaxAge]
    <3>1. side \in [Torrent -> NoSidecar..MaxAge] /\ NoSidecar \in NoSidecar..MaxAge
      BY Ages
    <3> HIDE DEF TypeOK, ViewInv
    <3> QED
      BY <2>5, <3>1
  <2> QED
    BY <1>7, <2>1, <2>4, <2>6, <2>7, <2>8 DEF Promote
<1>8. CASE PromoteFails
  <2>1. Head(todo) \in Torrent /\ todo' \in Seq(Torrent)
    BY <1>8, Heads DEF PromoteFails
  <2>2. /\ disk' \in [Torrent -> Nat] /\ \A u \in Torrent : disk'[u] <= Size[u]
        /\ side' \in [Torrent -> NoSidecar..MaxAge]
        /\ pend' \subseteq Torrent /\ linked' \subseteq Torrent
    <3>1. HalfPromoted(Head(todo))
      BY <1>8 DEF PromoteFails
    <3> QED
      BY <2>1, <3>1, HalfTyped
  <2>4. failed' \subseteq Torrent
    BY <1>8, <2>1 DEF PromoteFails
  <2>3. budget' \in 0..MaxEvents
    BY <1>8, BudgetTyped DEF PromoteFails
  <2> QED
    BY <1>8, <2>1, <2>2, <2>3, <2>4 DEF PromoteFails
<1>9. CASE EndPromotions
  BY <1>9, EndTyped DEF EndPromotions, EndTick
<1>10. CASE Interrupt
  <2>1. budget' \in 0..MaxEvents /\ ForgetTick /\ phase' = "down" /\ UNCHANGED <<rowVars, worldVars>>
    BY <1>10, BudgetTyped DEF Interrupt
  <2>2. /\ disk' \in [Torrent -> Nat] /\ \A u \in Torrent : disk'[u] <= Size[u]
        /\ side' \in [Torrent -> NoSidecar..MaxAge]
        /\ pend' \subseteq Torrent /\ linked' \subseteq Torrent
    <3>1. CASE UNCHANGED cacheVars
      BY <3>1
    <3>2. CASE todo # << >> /\ HalfDemoted(Head(todo))
      <4>1. Head(todo) \in Torrent
        BY <3>2, Heads
      <4>2. disk' \in [Torrent -> Nat] /\ \A u \in Torrent : disk'[u] <= Size[u]
        BY <3>2, <4>1, HalfDemotedTyped
      <4>3. UNCHANGED <<pend, side, linked>>
        BY <3>2 DEF HalfDemoted
      <4> QED
        BY <4>2, <4>3
    <3>3. CASE todo # << >> /\ HalfPromoted(Head(todo))
      <4>1. Head(todo) \in Torrent
        BY <3>3, Heads
      <4> QED
        BY <3>3, <4>1, HalfTyped
    <3> QED
      BY <1>10, <3>1, <3>2, <3>3 DEF Interrupt
  <2> QED
    BY <2>1, <2>2, EndTyped
<1>14. CASE Start
  BY <1>14, StartTyped DEF Start
<1>11. CASE OtherData
  <2>1. budget' \in 0..MaxEvents
    BY <1>11, BudgetTyped DEF OtherData
  <2> QED
    BY <1>11, <2>1 DEF OtherData
<1>12. ASSUME NEW t \in Torrent, LoseMapping(t) \/ RepairMapping(t) \/ ChangeScore(t) \/ IntentExpires(t)
       PROVE  TypeOK'
  <2>1. budget' \in 0..MaxEvents
    BY <1>12, BudgetTyped DEF LoseMapping, RepairMapping, ChangeScore, IntentExpires
  <2>2. RatesOf[t] \subseteq Nat
    BY BudgetAssumption
  <2>3. /\ tier' \in [Torrent -> {"none", "cold", "hot"}] /\ age' \in [Torrent -> 0..MaxAge]
        /\ side' \in [Torrent -> NoSidecar..MaxAge]
    <3>1. CASE LoseMapping(t)
      BY <3>1, LoseTyped
    <3>2. CASE RepairMapping(t) \/ ChangeScore(t) \/ IntentExpires(t)
      BY <3>2 DEF RepairMapping, ChangeScore, IntentExpires
    <3> QED
      BY <1>12, <3>1, <3>2
  <2>4. /\ rate' \in [Torrent -> Nat] /\ lost' \subseteq Torrent /\ pend' \subseteq Torrent
        /\ linked' \subseteq Torrent /\ failed' \subseteq Torrent
    BY <1>12, <2>2 DEF LoseMapping, RepairMapping, ChangeScore, IntentExpires
  <2> QED
    BY <1>12, <2>1, <2>3, <2>4 DEF LoseMapping, RepairMapping, ChangeScore, IntentExpires
<1>13. CASE UNCHANGED vars
  BY <1>13 DEF vars
<1> QED
  BY <1>1, <1>2, <1>3, <1>4, <1>5, <1>6, <1>7, <1>8, <1>9, <1>10, <1>11, <1>12, <1>13, <1>14
     DEF Next, Daemon, Environment

-----------------------------------------------------------------------------
(* The view.                                                               *)

\* Between two ticks there is no view.
LEMMA NoViewTyped ==
  ViewType(NoView) /\ NoView.quarantined = {} /\ ~NoView.ok
BY DEF NoView, ViewType

\* The end of a tick drops the view.
LEMMA EndView ==
  ASSUME ForgetTick
  PROVE  ViewInv'
<1>1. view' = NoView
  BY DEF ForgetTick
<1> HIDE DEF NoView
<1>2. ViewType(view') /\ view'.quarantined = {} /\ ~view'.ok
  BY <1>1, NoViewTyped
<1> QED
  BY <1>2 DEF ViewInv

\* What is quarantined changes only between two ticks.
LEMMA ViewKept ==
  ASSUME TypeOK, ViewInv, [Next]_vars
  PROVE  ViewInv'
<1>1. CASE Poll(Torrent, TRUE) \/ \E seen \in SUBSET Torrent : Poll(seen, FALSE)
  <2>1. PICK seen \in SUBSET Torrent, ok \in BOOLEAN : Poll(seen, ok) /\ (ok => seen = Torrent)
    BY <1>1 DEF Poll
  <2>2. ViewType(view') /\ view' = Candidates(seen, ok)
    BY <2>1, PollTyped
  <2>3. /\ view'.quarantined = seen \cap lost /\ view'.active = seen \ lost /\ view'.ok = ok
        /\ lost' = lost /\ phase' = "demote"
    BY <2>1, <2>2 DEF Poll, Candidates, worldVars
  <2>4. lost \subseteq Torrent
    BY DEF TypeOK
  <2> QED
    BY <2>1, <2>2, <2>3, <2>4 DEF ViewInv
<1>2. CASE EndPromotions \/ Interrupt \/ (MeasureAndDisplace /\ Suspended)
  <2>1. ForgetTick
    BY <1>2 DEF EndPromotions, Interrupt, MeasureAndDisplace, EndTick
  <2> QED
    BY <2>1, EndView
<1>3. ASSUME UNCHANGED <<view, lost>>, phase' \in {"idle", "down"} => phase \in {"idle", "down"}
      PROVE  ViewInv'
  BY <1>3 DEF ViewInv
<1>4. CASE Demote \/ Displace \/ DemoteFails \/ Reclaim \/ Promote \/ PromoteFails \/ OtherData \/ Start
  BY <1>3, <1>4 DEF Start, Demote, Displace, DemoteFails, Reclaim, Promote, PromoteFails, OtherData, worldVars
<1>5. CASE (MeasureAndDisplace /\ ~Suspended) \/ MeasureAgain
  BY <1>3, <1>5 DEF MeasureAndDisplace, MeasureAgain, BeginPromotions, worldVars
<1>6. ASSUME NEW t \in Torrent, LoseMapping(t) \/ RepairMapping(t) \/ ChangeScore(t) \/ IntentExpires(t)
      PROVE  ViewInv'
  BY <1>6 DEF ViewInv, LoseMapping, RepairMapping, ChangeScore, IntentExpires, worldVars
<1>7. CASE UNCHANGED vars
  BY <1>3, <1>7 DEF vars, worldVars
<1> QED
  BY <1>1, <1>2, <1>4, <1>5, <1>6, <1>7 DEF Next, Daemon, Environment

-----------------------------------------------------------------------------
(* The plan of a tick keeps its room.                                      *)

\* Selected promotions fit.
LEMMA PlanBegins ==
  ASSUME TypeOK, ViewInv, PlanInv, phase \in {"headroom", "displace"},
         BeginPromotions(Headroom), UNCHANGED <<tier, disk, other, view>>
  PROVE  PlanInv'
<1>1. todo' = SelectPromotions(view, Headroom)
  BY DEF BeginPromotions
<1>2. Headroom \in Nat
  BY HeadroomLeft
<1>3. /\ todo' \in Seq(Torrent) /\ IsInjective(todo') /\ ToSet(todo') \subseteq Wanted(view)
      /\ SizeOf(ToSet(todo')) <= Headroom
  BY <1>1, <1>2, PromotionsFit DEF ViewInv
<1>4. ToSet(todo') \subseteq view.active /\ ToSet(todo') \cap Hot' = {}
  <2>1. ToSet(todo') \subseteq view.active /\ ToSet(todo') \cap view.hot = {}
    BY <1>3 DEF Wanted
  <2>2. Hot \cap view.active \subseteq view.hot /\ Hot' = Hot
    BY DEF PlanInv, Hot
  <2> QED
    BY <2>1, <2>2
<1>5. Booked' = Booked /\ Untracked' = Untracked /\ Free' = Free
  BY DEF Booked, Untracked, Free, Hot, DiskOf
<1>6. ASSUME todo' # << >>
      PROVE  SizeOf(ToSet(todo')) \in Nat /\ SizeOf(ToSet(todo')) > 0
  <2>1. Head(todo') \in ToSet(todo') /\ Head(todo') \in Torrent /\ ToSet(todo') \in SUBSET Torrent
    BY <1>3, <1>6, Heads
  <2>2. SizeOf(ToSet(todo')) = Size[Head(todo')] + SizeOf(ToSet(todo') \ {Head(todo')})
    BY <2>1, Sizes
  <2>3. Size[Head(todo')] \in Nat /\ Size[Head(todo')] > 0
    BY <2>1, Torrents
  <2>4. SizeOf(ToSet(todo') \ {Head(todo')}) \in Nat
    BY <2>1, Sizes
  <2> QED
    BY <2>2, <2>3, <2>4
<1>7. ASSUME todo' # << >>
      PROVE  /\ Booked + Untracked + SizeOf(ToSet(todo')) <= Quota
             /\ MinFree + SizeOf(ToSet(todo')) <= Free
  <2>1. Headroom > 0
    BY <1>2, <1>3, <1>6, <1>7
  <2>2. Booked + Untracked + Headroom <= Quota /\ MinFree + Headroom <= Free
    BY <2>1, HeadroomLeft
  <2>3. Booked \in Nat /\ Untracked \in Nat /\ Free \in Int /\ MinFree \in Nat /\ Quota \in Nat
    BY Bytes, HeadroomLeft, BudgetAssumption
  <2> QED
    BY <1>2, <1>3, <1>6, <1>7, <2>2, <2>3
<1> QED
  BY <1>3, <1>4, <1>5, <1>7 DEF PlanInv, BeginPromotions

\* A sum over all torrents moves by what one torrent's value moves.
LEMMA SumOfOneChanged ==
  ASSUME NEW w, NEW v, NEW t \in Torrent, IsFiniteSet(Torrent),
         \A u \in Torrent : w[u] \in Nat /\ v[u] \in Nat /\ (u # t => v[u] = w[u])
  PROVE  SumFunctionOnSet(v, Torrent) = SumFunctionOnSet(w, Torrent) + v[t] - w[t]
BY SumChange

\* More bytes of one torrent on the SSD are as many fewer free, and change
\* nothing of what other torrents have there.
LEMMA DiskChange ==
  ASSUME TypeOK, NEW t \in Torrent, NEW k \in Nat, disk' = [disk EXCEPT ![t] = k], other' = other
  PROVE  /\ Free' = Free - (k - disk[t])
         /\ \A S \in SUBSET Torrent : t \notin S => SumFunctionOnSet(disk', S) = DiskOf(S)
<1>1. \A u \in Torrent : disk[u] \in Nat /\ disk'[u] \in Nat /\ (u # t => disk'[u] = disk[u])
  BY DEF TypeOK
<1>2. disk'[t] = k /\ disk[t] \in Nat
  BY DEF TypeOK
<1>3. \A S \in SUBSET Torrent : IsFiniteSet(S)
  BY Torrents, FS_Subset
<1>4. \A S \in SUBSET Torrent : t \notin S => SumFunctionOnSet(disk', S) = SumFunctionOnSet(disk, S)
  BY <1>1, <1>3, SumChange
<1>5. SumFunctionOnSet(disk', Torrent) = SumFunctionOnSet(disk, Torrent) + k - disk[t]
  <2>1. IsFiniteSet(Torrent)
    BY <1>3
  <2>2. SumFunctionOnSet(disk', Torrent) = SumFunctionOnSet(disk, Torrent) + disk'[t] - disk[t]
    BY <1>1, <2>1, SumOfOneChanged
  <2> QED
    BY <1>2, <2>2
<1>6. SumFunctionOnSet(disk, Torrent) \in Nat
  BY Bytes DEF DiskOf
<1>7. other \in Int /\ Capacity \in Int
  BY BudgetAssumption DEF TypeOK
<1>8. Free' = Free - (k - disk[t])
  BY <1>2, <1>5, <1>6, <1>7 DEF Free, DiskOf
<1> QED
  BY <1>4, <1>8 DEF DiskOf

\* Growing to k takes no more than the size z, whatever was there already.
LEMMA RoomTaken ==
  ASSUME NEW f \in Int, NEW z \in Nat, NEW d \in Nat, NEW k \in Nat, k <= z, NEW g, g = f - (k - d)
  PROVE  g \in Int /\ f - z <= g
OBVIOUS

\* Where there is room for z and l, there is room for l when z is taken.
LEMMA StillRoom ==
  ASSUME NEW b \in Nat, NEW u \in Nat, NEW z \in Nat, NEW l \in Nat, NEW q \in Nat,
         b + u + (z + l) <= q, NEW c \in Nat, c <= b + z
  PROVE  c + u + l <= q
OBVIOUS

\* Parts of what has room have room.
LEMMA PartsHaveRoom ==
  ASSUME NEW b \in Nat, NEW u \in Nat, NEW l \in Nat, NEW q \in Nat, b + u + l <= q
  PROVE  b <= q /\ b + u <= q
OBVIOUS

\* The rest of the plan has its room when the first of it is done, whether its
\* promotion succeeds or leaves some of it behind.
LEMMA PlanGoesOn ==
  ASSUME TypeOK, ViewInv, PlanInv, phase = "promote", todo # << >>,
         NEW k \in Nat, disk[Head(todo)] <= k, k <= Size[Head(todo)],
         disk' = [disk EXCEPT ![Head(todo)] = k],
         Hot' = Hot \/ Hot' = Hot \cup {Head(todo)},
         todo' = Tail(todo), UNCHANGED <<other, view>>
  PROVE  /\ IsInjective(todo') /\ ToSet(todo') \subseteq view.active
         /\ ToSet(todo') \cap Hot' = {}
         /\ ToSet(todo') \in SUBSET Torrent
         /\ Booked' + Untracked' + SizeOf(ToSet(todo')) <= Quota
         /\ "other" \notin trouble => MinFree + SizeOf(ToSet(todo')) <= Free'
         /\ Booked' \in Nat /\ Untracked' \in Nat /\ Free' \in Int
<1> DEFINE t == Head(todo)
           left == SizeOf(ToSet(Tail(todo)))
<1>1. /\ todo \in Seq(Torrent) /\ IsInjective(todo) /\ ToSet(todo) \subseteq view.active
      /\ ToSet(todo) \cap Hot = {}
  BY DEF TypeOK, PlanInv
<1>2. /\ t \in Torrent /\ t \in ToSet(todo) /\ ToSet(todo) = {t} \cup ToSet(Tail(todo))
      /\ IsInjective(Tail(todo)) /\ ToSet(Tail(todo)) \in SUBSET Torrent
      /\ t \notin ToSet(Tail(todo))
      /\ SizeOf(ToSet(todo)) = Size[t] + left
  BY <1>1, Heads
<1>3. left \in Nat /\ Size[t] \in Nat /\ disk[t] \in Nat
  BY <1>2, Sizes, Torrents DEF TypeOK
<1>4. Booked \in Nat /\ Untracked \in Nat /\ Free \in Int /\ Quota \in Nat /\ MinFree \in Nat
  BY Bytes, HeadroomLeft, BudgetAssumption
<1>5. /\ Booked + Untracked + (Size[t] + left) <= Quota
      /\ "other" \notin trouble => MinFree + (Size[t] + left) <= Free
  BY <1>2 DEF PlanInv
<1>6. Booked' \in Nat /\ Booked' <= Booked + Size[t]
  <2>1. Hot \in SUBSET Torrent /\ Hot \cup {t} \in SUBSET Torrent
    BY <1>2 DEF Hot
  <2>2. SizeOf(Hot \cup {t}) <= SizeOf(Hot) + Size[t] /\ SizeOf(Hot \cup {t}) \in Nat
    BY <1>2, <2>1, SizesGrow, Sizes
  <2>3. Booked' = SizeOf(Hot) \/ Booked' = SizeOf(Hot \cup {t})
    BY DEF Booked
  <2>4. SizeOf(Hot) \in Nat
    BY <2>1, Sizes
  <2> QED
    BY <1>3, <2>2, <2>3, <2>4 DEF Booked
<1>7. Untracked' = Untracked
  <2>1. t \notin view.quarantined /\ view.quarantined \subseteq Torrent
    BY <1>1, <1>2 DEF ViewInv
  <2>2. view.quarantined \ Hot' = view.quarantined \ Hot
    BY <2>1
  <2>3. Untracked' = SumFunctionOnSet(disk', view.quarantined \ Hot)
    BY <2>2 DEF Untracked, DiskOf
  <2>4. view.quarantined \ Hot \in SUBSET Torrent /\ t \notin view.quarantined \ Hot
    BY <2>1
  <2> QED
    BY <1>2, <2>3, <2>4, DiskChange DEF Untracked
<1>8. Free' = Free - (k - disk[t])
  BY <1>2, DiskChange
<1>9. Free' \in Int /\ Free - Size[t] <= Free'
  BY <1>3, <1>4, <1>8, RoomTaken
<1>10. /\ SizeOf(ToSet(todo')) = left /\ IsInjective(todo') /\ ToSet(todo') \subseteq view.active
       /\ ToSet(todo') \cap Hot' = {}
  BY <1>1, <1>2
<1> HIDE DEF t, left
<1>11. Booked' + Untracked' + left <= Quota
  <2>1. Booked' + Untracked + left <= Quota
    BY <1>3, <1>4, <1>5, <1>6, StillRoom
  <2> QED
    BY <1>7, <2>1
<1>12. "other" \notin trouble => MinFree + left <= Free'
  BY <1>3, <1>4, <1>5, <1>9
<1> QED
  BY <1>2, <1>4, <1>6, <1>7, <1>9, <1>10, <1>11, <1>12

\* A step at the head of the plan: done, or left behind in part.
LEMMA PromotionSteps ==
  ASSUME TypeOK, ViewInv, Promote \/ PromoteFails
  PROVE  /\ phase = "promote" /\ phase' = "promote" /\ todo # << >> /\ todo' = Tail(todo)
         /\ UNCHANGED <<other, view, lost>>
         /\ Hot' = Hot \/ Hot' = Hot \cup {Head(todo)}
         /\ trouble \subseteq trouble'
         /\ \E k \in Nat : /\ disk[Head(todo)] <= k /\ k <= Size[Head(todo)]
                           /\ disk' = [disk EXCEPT ![Head(todo)] = k]
<1>1. /\ phase = "promote" /\ phase' = "promote" /\ todo # << >> /\ todo' = Tail(todo)
      /\ UNCHANGED <<other, view, lost>> /\ trouble \subseteq trouble'
  BY DEF Promote, PromoteFails, worldVars
<1>2. Head(todo) \in Torrent
  BY <1>1, Heads DEF TypeOK
<1>3. disk[Head(todo)] \in Nat /\ Size[Head(todo)] \in Nat /\ disk[Head(todo)] <= Size[Head(todo)]
  BY <1>2, Torrents DEF TypeOK
<1>4. CASE Promote
  <2>1. tier' = [tier EXCEPT ![Head(todo)] = "hot"]
        /\ disk' = [disk EXCEPT ![Head(todo)] = Size[Head(todo)]]
    BY <1>4 DEF Promote
  <2>2. Hot' = Hot \cup {Head(todo)}
    BY <1>2, <2>1 DEF Hot, TypeOK
  <2>3. Size[Head(todo)] <= Size[Head(todo)]
    BY <1>3
  <2> QED
    BY <1>1, <1>3, <2>1, <2>2, <2>3
<1>5. CASE PromoteFails
  <2>1. Hot' = Hot
    BY <1>5 DEF PromoteFails, Hot
  <2>2. PICK k \in disk[Head(todo)]..Size[Head(todo)] : disk' = [disk EXCEPT ![Head(todo)] = k]
    BY <1>5 DEF PromoteFails, HalfPromoted
  <2>3. k \in Nat /\ disk[Head(todo)] <= k /\ k <= Size[Head(todo)]
    BY <1>3
  <2> QED
    BY <1>1, <2>1, <2>2, <2>3
<1> QED
  BY <1>4, <1>5

\* After such a step the rest of the plan has its room.
LEMMA PromotionRoom ==
  ASSUME TypeOK, ViewInv, PlanInv, Promote \/ PromoteFails
  PROVE  /\ IsInjective(todo') /\ ToSet(todo') \subseteq view.active
         /\ ToSet(todo') \cap Hot' = {}
         /\ SizeOf(ToSet(todo')) \in Nat
         /\ Booked' + Untracked' + SizeOf(ToSet(todo')) <= Quota
         /\ "other" \notin trouble => MinFree + SizeOf(ToSet(todo')) <= Free'
         /\ Booked' \in Nat /\ Untracked' \in Nat /\ Free' \in Int
<1>1. /\ phase = "promote" /\ todo # << >> /\ todo' = Tail(todo) /\ UNCHANGED <<other, view>>
      /\ Hot' = Hot \/ Hot' = Hot \cup {Head(todo)}
  BY PromotionSteps
<1>2. PICK k \in Nat : /\ disk[Head(todo)] <= k /\ k <= Size[Head(todo)]
                       /\ disk' = [disk EXCEPT ![Head(todo)] = k]
  BY PromotionSteps
<1>3. /\ IsInjective(todo') /\ ToSet(todo') \subseteq view.active
      /\ ToSet(todo') \cap Hot' = {}
      /\ ToSet(todo') \in SUBSET Torrent
      /\ Booked' + Untracked' + SizeOf(ToSet(todo')) <= Quota
      /\ "other" \notin trouble => MinFree + SizeOf(ToSet(todo')) <= Free'
      /\ Booked' \in Nat /\ Untracked' \in Nat /\ Free' \in Int
  BY <1>1, <1>2, PlanGoesOn
<1> QED
  BY <1>3, Sizes

\* What was hot at the poll is all that is hot of the candidates.
LEMMA HotSeen ==
  ASSUME TypeOK, PlanInv, UNCHANGED view,
         phase \in {"demote", "headroom", "displace"}, phase' \in {"demote", "headroom", "displace"},
         Hot' \subseteq Hot
  PROVE  PlanInv'
BY DEF PlanInv

\* Every step keeps the room of the plan.
LEMMA PlanKept ==
  ASSUME TypeOK, ViewInv, PlanInv, [Next]_vars
  PROVE  PlanInv'
<1>1. ASSUME phase' \in {"idle", "down"}
      PROVE  PlanInv'
  BY <1>1 DEF PlanInv
<1>2. CASE MeasureAndDisplace \/ MeasureAgain
  <2>1. CASE phase' = "promote"
    <3>1. /\ BeginPromotions(Headroom) /\ UNCHANGED <<tier, disk, other, view>>
          /\ phase \in {"headroom", "displace"}
      BY <1>2, <2>1 DEF MeasureAndDisplace, MeasureAgain, EndTick, rowVars, cacheVars, worldVars
    <3> QED
      BY <3>1, PlanBegins
  <2>2. CASE phase' = "displace"
    <3>1. UNCHANGED <<tier, view>> /\ phase = "headroom"
      BY <1>2, <2>2 DEF MeasureAndDisplace, MeasureAgain, BeginPromotions, EndTick, rowVars
    <3> QED
      BY <2>2, <3>1, HotSeen DEF Hot
  <2>3. phase' \in {"idle", "displace", "promote"}
    BY <1>2 DEF MeasureAndDisplace, MeasureAgain, BeginPromotions, EndTick
  <2> QED
    BY <1>1, <2>1, <2>2, <2>3
<1>3. CASE Promote \/ PromoteFails
  <2>1. trouble \subseteq trouble' /\ phase' = "promote" /\ UNCHANGED view
    BY <1>3, PromotionSteps
  <2> QED
    BY <1>3, <2>1, PromotionRoom DEF PlanInv
<1>4. CASE OtherData
  <2>1. UNCHANGED <<tier, disk, view, phase, todo>> /\ (phase = "promote" => "other" \in trouble')
    BY <1>4 DEF OtherData, rowVars, cacheVars
  <2>2. Hot' = Hot /\ Booked' = Booked /\ Untracked' = Untracked
    BY <2>1 DEF Booked, Untracked, Hot, DiskOf
  <2> QED
    BY <2>1, <2>2 DEF PlanInv
<1>5. CASE UNCHANGED vars
  <2>1. UNCHANGED <<tier, disk, view, other, phase, todo, trouble>>
    BY <1>5 DEF vars, rowVars, cacheVars, worldVars, ghostVars
  <2>2. Hot' = Hot /\ Booked' = Booked /\ Untracked' = Untracked /\ Free' = Free
    BY <2>1 DEF Booked, Untracked, Hot, DiskOf, Free
  <2> QED
    BY <2>1, <2>2 DEF PlanInv
<1>6. CASE \/ EndPromotions \/ Interrupt \/ Start
           \/ \E t \in Torrent : LoseMapping(t) \/ RepairMapping(t) \/ ChangeScore(t) \/ IntentExpires(t)
  <2>1. phase' \in {"idle", "down"}
    BY <1>6 DEF EndPromotions, Interrupt, EndTick, Start,
                LoseMapping, RepairMapping, ChangeScore, IntentExpires
  <2> QED
    BY <1>1, <2>1
<1>7. CASE DemoteFails \/ Reclaim
  <2>1. /\ UNCHANGED <<tier, view>>
        /\ phase \in {"demote", "displace"} /\ phase' \in {"demote", "headroom", "displace"}
    BY <1>7 DEF DemoteFails, Reclaim, rowVars
  <2> QED
    BY <2>1, HotSeen DEF Hot
<1>8. CASE Demote \/ Displace
  <2>1. /\ UNCHANGED <<view, phase>> /\ phase \in {"demote", "displace"}
        /\ todo # << >> /\ DemoteStep(Head(todo))
    BY <1>8 DEF Demote, Displace
  <2>2. Head(todo) \in Torrent
    BY <2>1, Heads DEF TypeOK
  <2>3. Hot' \subseteq Hot
    BY <2>1, <2>2, DemoteStepTyped
  <2> QED
    BY <2>1, <2>3, HotSeen
<1>9. CASE Poll(Torrent, TRUE) \/ \E seen \in SUBSET Torrent : Poll(seen, FALSE)
  <2>1. PICK seen \in SUBSET Torrent, ok \in BOOLEAN : Poll(seen, ok)
    BY <1>9
  <2>2. phase' = "demote" /\ view' = Candidates(seen, ok)
    BY <2>1 DEF Poll
  <2>3. Hot' = Hot
    BY <2>1 DEF Poll, Hot, TypeOK
  <2>4. view'.active = seen \ lost /\ view'.hot = Hot \cap seen
    BY <2>2 DEF Candidates
  <2> QED
    BY <2>2, <2>3, <2>4 DEF PlanInv
<1> QED
  BY <1>2, <1>3, <1>4, <1>5, <1>6, <1>7, <1>8, <1>9 DEF Next, Daemon, Environment

-----------------------------------------------------------------------------
(* Sidecars of torrents that are not hot.                                  *)

\* Directories that are removed leave nothing to book.
LEMMA SideEmptied ==
  ASSUME TypeOK, SideInv, NEW S, Emptied(S), Hot' \subseteq Hot, phase # "down"
  PROVE  SideInv'
<1>1. Noted' = Noted \ S
  BY EmptiedTyped
<1>2. linked' = linked \ S /\ failed' = failed \ S
  BY DEF Emptied
<1> QED
  BY <1>1, <1>2 DEF SideInv

\* A promotion that ends early is of a torrent that is not hot.
LEMMA SideHalf ==
  ASSUME TypeOK, SideInv, PlanInv, phase = "promote", todo # << >>,
         HalfPromoted(Head(todo)), UNCHANGED tier
  PROVE  /\ Noted' \cap Hot' = {} /\ linked' \subseteq Noted'
         /\ Noted' \subseteq Noted \cup {Head(todo)} /\ Hot' = Hot
<1>1. Head(todo) \in Torrent /\ Head(todo) \in ToSet(todo)
  BY Heads DEF TypeOK
<1>2. Head(todo) \notin Hot /\ Hot' = Hot
  BY <1>1 DEF PlanInv, Hot
<1>3. UNCHANGED <<side, linked>>
      \/ (Noted' = Noted \cup {Head(todo)} /\ linked' \subseteq linked \cup {Head(todo)})
  BY <1>1, HalfTyped
<1>4. UNCHANGED side => Noted' = Noted
  BY DEF Noted
<1> QED
  BY <1>2, <1>3, <1>4 DEF SideInv

\* Every step keeps them apart from hot torrents.
LEMMA SideKept ==
  ASSUME TypeOK, SideInv, PlanInv, [Next]_vars
  PROVE  SideInv'
<1>1. ASSUME UNCHANGED <<rowVars, side, linked>>, phase' # "down" => phase # "down"
      PROVE  SideInv'
  BY <1>1 DEF SideInv, Noted, Hot, rowVars
<1>2. CASE \/ DemoteFails \/ MeasureAndDisplace \/ MeasureAgain \/ EndPromotions \/ OtherData
           \/ UNCHANGED vars
           \/ \E t \in Torrent : RepairMapping(t) \/ ChangeScore(t) \/ IntentExpires(t)
  <2>1. UNCHANGED <<rowVars, side, linked>> /\ (phase' # "down" => phase # "down")
    BY <1>2 DEF DemoteFails, HalfDemoted, MeasureAndDisplace, MeasureAgain, EndPromotions, OtherData,
                vars, RepairMapping, ChangeScore, IntentExpires, cacheVars
  <2> QED
    BY <1>1, <2>1
<1>3. CASE Poll(Torrent, TRUE) \/ \E seen \in SUBSET Torrent : Poll(seen, FALSE)
  <2>1. PICK seen \in SUBSET Torrent, ok \in BOOLEAN : Poll(seen, ok)
    BY <1>3
  <2>2. Noted' = Noted
    BY <2>1, SidecarsOlder
  <2>3. Hot' = Hot /\ UNCHANGED <<linked, failed>> /\ phase = "idle"
    BY <2>1 DEF Poll, Hot, TypeOK
  <2> QED
    BY <2>2, <2>3 DEF SideInv
<1>4. CASE Demote \/ Displace
  <2>1. phase \in {"demote", "displace"} /\ todo # << >> /\ DemoteStep(Head(todo))
    BY <1>4 DEF Demote, Displace
  <2>2. Head(todo) \in Torrent
    BY <2>1, Heads DEF TypeOK
  <2>3. Emptied({Head(todo)}) /\ Hot' \subseteq Hot
    BY <2>1, <2>2, DemoteStepTyped DEF DemoteStep
  <2> QED
    BY <2>1, <2>3, SideEmptied
<1>5. CASE Reclaim
  <2>1. Emptied(IF view.ok THEN Reclaimable ELSE {}) /\ Hot' = Hot /\ phase # "down"
    BY <1>5 DEF Reclaim, Hot
  <2> QED
    BY <2>1, SideEmptied
<1>6. CASE Promote
  <2>1. /\ todo # << >> /\ phase = "promote"
        /\ tier' = [tier EXCEPT ![Head(todo)] = "hot"]
        /\ side' = [side EXCEPT ![Head(todo)] = NoSidecar]
        /\ linked' = linked \ {Head(todo)} /\ failed' = failed \ {Head(todo)}
    BY <1>6 DEF Promote
  <2>2. Head(todo) \in Torrent
    BY <2>1, Heads DEF TypeOK
  <2>3. Hot' = Hot \cup {Head(todo)} /\ Noted' = Noted \ {Head(todo)}
    BY <2>1, <2>2 DEF Hot, Noted, TypeOK
  <2> QED
    BY <2>1, <2>3 DEF SideInv
<1>7. CASE PromoteFails
  <2>1. /\ phase = "promote" /\ todo # << >> /\ HalfPromoted(Head(todo)) /\ UNCHANGED tier
        /\ failed' = failed \cup ({Head(todo)} \cap Noted') /\ phase' = "promote"
    BY <1>7 DEF PromoteFails
  <2>2. /\ Noted' \cap Hot' = {} /\ linked' \subseteq Noted'
        /\ Noted' \subseteq Noted \cup {Head(todo)}
    BY <2>1, SideHalf
  <2>3. Noted \subseteq failed
    BY <2>1 DEF SideInv
  <2> QED
    BY <2>1, <2>2, <2>3 DEF SideInv
<1>8. CASE Interrupt
  <2>1. phase' = "down" /\ UNCHANGED rowVars
    BY <1>8 DEF Interrupt
  <2>2. CASE UNCHANGED <<side, linked>>
    BY <1>1, <2>1, <2>2
  <2>3. CASE phase = "promote" /\ todo # << >> /\ HalfPromoted(Head(todo))
    <3>1. Noted' \cap Hot' = {} /\ linked' \subseteq Noted'
      BY <2>1, <2>3, SideHalf DEF rowVars
    <3> QED
      BY <2>1, <3>1 DEF SideInv
  <2> QED
    BY <1>8, <2>2, <2>3 DEF Interrupt, HalfDemoted, cacheVars
<1>9. CASE Start
  BY <1>9, StartTyped DEF SideInv
<1>10. ASSUME NEW t \in Torrent, LoseMapping(t)
       PROVE  SideInv'
  <2>1. Hot' = Hot \ {t} /\ Noted' = Noted \ {t}
    BY <1>10, LoseTyped
  <2>2. linked' = linked \ {t} /\ phase' = "down"
    BY <1>10 DEF LoseMapping
  <2> QED
    BY <2>1, <2>2 DEF SideInv
<1> QED
  BY <1>2, <1>3, <1>4, <1>5, <1>6, <1>7, <1>8, <1>9, <1>10 DEF Next, Daemon, Environment

-----------------------------------------------------------------------------
(* The quota.                                                              *)

\* What is booked, or will be by the next start, but for late failures.
Due == (Hot \cup Noted) \ failed

\* No torrent more is due, no byte more.
LEMMA FewerDue ==
  ASSUME WithinQuota, Due' \subseteq Due
  PROVE  WithinQuota'
<1>1. Due \in SUBSET Torrent /\ Due' \in SUBSET Torrent /\ Due' \in SUBSET Due
  BY DEF Due, Hot, Noted
<1>2. SizeOf(Due') <= SizeOf(Due) /\ SizeOf(Due) \in Nat /\ SizeOf(Due') \in Nat
  BY <1>1, SizesGrow, Sizes
<1>3. Quota \in Nat /\ SizeOf(Due) <= Quota
  BY BudgetAssumption DEF WithinQuota, Due
<1>4. SizeOf(Due') <= Quota
  BY <1>2, <1>3
<1> QED
  BY <1>4 DEF WithinQuota, Due

\* What is part of something that fits, fits.
LEMMA DueFits ==
  ASSUME NEW S \in SUBSET Torrent, SizeOf(S) <= Quota, Due' \subseteq S
  PROVE  WithinQuota'
<1>1. SizeOf(Due') <= SizeOf(S) /\ SizeOf(S) \in Nat /\ SizeOf(Due') \in Nat
  <2>1. Due' \in SUBSET S /\ Due' \in SUBSET Torrent
    OBVIOUS
  <2> QED
    BY <2>1, SizesGrow, Sizes
<1>2. Quota \in Nat
  BY BudgetAssumption
<1>3. SizeOf(Due') <= Quota
  BY <1>1, <1>2
<1> QED
  BY <1>3 DEF WithinQuota, Due

\* A promotion cut short behind its sidecar, and booked by the next start, had
\* its room.
LEMMA InterruptedFits ==
  ASSUME TypeOK, ViewInv, PlanInv, phase = "promote", todo # << >>
  PROVE  SizeOf(Hot \cup {Head(todo)}) <= Quota /\ Hot \cup {Head(todo)} \in SUBSET Torrent
<1> DEFINE t == Head(todo)
           left == SizeOf(ToSet(Tail(todo)))
<1>1. /\ t \in Torrent /\ ToSet(Tail(todo)) \in SUBSET Torrent
      /\ SizeOf(ToSet(todo)) = Size[t] + left
  BY Heads DEF TypeOK, PlanInv
<1>2. left \in Nat /\ Size[t] \in Nat
  BY <1>1, Sizes, Torrents
<1>3. Booked \in Nat /\ Untracked \in Nat /\ Quota \in Nat
  BY Bytes, HeadroomLeft, BudgetAssumption
<1>4. Booked + Untracked + (Size[t] + left) <= Quota
  BY <1>1 DEF PlanInv
<1>5. Hot \in SUBSET Torrent /\ Hot \cup {t} \in SUBSET Torrent
  BY <1>1 DEF Hot
<1>6. SizeOf(Hot \cup {t}) <= SizeOf(Hot) + Size[t] /\ SizeOf(Hot \cup {t}) \in Nat
  BY <1>1, <1>5, SizesGrow, Sizes
<1> DEFINE b == SizeOf(Hot \cup {t})
<1>7. b \in Nat /\ b <= Booked + Size[t]
  BY <1>6 DEF Booked
<1> HIDE DEF t, left, b
<1>8. b + Untracked + left <= Quota
  BY <1>2, <1>3, <1>4, <1>7, StillRoom
<1>9. b <= Quota
  BY <1>2, <1>3, <1>7, <1>8, PartsHaveRoom
<1> QED
  BY <1>5, <1>9 DEF b, t

\* Every step keeps the quota.
LEMMA QuotaKept ==
  ASSUME TypeOK, WithinQuota, SideInv, ViewInv, PlanInv, [Next]_vars
  PROVE  WithinQuota'
<1>1. CASE Promote \/ PromoteFails
  <2>1. Booked' + Untracked' + SizeOf(ToSet(todo')) <= Quota
    BY <1>1, PromotionRoom
  <2>2. SizeOf(ToSet(todo')) \in Nat /\ Booked' \in Nat /\ Untracked' \in Nat /\ Quota \in Nat
    BY <1>1, PromotionRoom, BudgetAssumption
  <2>3. Booked' <= Quota
    BY <2>1, <2>2, PartsHaveRoom
  <2>4. Noted' \subseteq failed'
    <3>1. phase' = "promote" /\ SideInv'
      BY <1>1, SideKept DEF Next, Daemon, Promote, PromoteFails
    <3> QED
      BY <3>1 DEF SideInv
  <2>5. Due' \subseteq Hot' /\ Hot' \in SUBSET Torrent
    BY <2>4 DEF Due, Hot
  <2> QED
    BY <2>3, <2>5, DueFits DEF Booked
<1>2. CASE Interrupt
  <2>1. UNCHANGED rowVars
    BY <1>2 DEF Interrupt
  <2>2. CASE UNCHANGED side
    <3>1. Due' = Due
      BY <2>1, <2>2 DEF Due, Hot, Noted, rowVars
    <3> QED
      BY <3>1, FewerDue
  <2>3. CASE phase = "promote" /\ todo # << >> /\ HalfPromoted(Head(todo))
    <3>1. Noted' \subseteq Noted \cup {Head(todo)} /\ Hot' = Hot /\ failed' = failed
      BY <2>1, <2>3, SideHalf DEF rowVars
    <3>2. Noted \subseteq failed
      BY <2>3 DEF SideInv
    <3>3. Due' \subseteq Hot \cup {Head(todo)}
      BY <3>1, <3>2 DEF Due
    <3> QED
      BY <2>3, <3>3, InterruptedFits, DueFits
  <2> QED
    BY <1>2, <2>2, <2>3 DEF Interrupt, HalfDemoted, cacheVars
<1>3. CASE Poll(Torrent, TRUE) \/ \E seen \in SUBSET Torrent : Poll(seen, FALSE)
  <2>1. PICK seen \in SUBSET Torrent, ok \in BOOLEAN : Poll(seen, ok)
    BY <1>3
  <2>2. Noted' = Noted
    BY <2>1, SidecarsOlder
  <2>3. Hot' = Hot /\ failed' = failed
    BY <2>1 DEF Poll, Hot, TypeOK
  <2>4. Due' = Due
    BY <2>2, <2>3 DEF Due
  <2> QED
    BY <2>4, FewerDue
<1>4. CASE Demote \/ Displace
  <2>1. todo # << >> /\ DemoteStep(Head(todo))
    BY <1>4 DEF Demote, Displace
  <2>2. Head(todo) \in Torrent
    BY <2>1, Heads DEF TypeOK
  <2>3. Emptied({Head(todo)}) /\ Hot' = Hot \ {Head(todo)}
    BY <2>1, <2>2, DemoteStepTyped DEF DemoteStep
  <2>4. Noted' = Noted \ {Head(todo)} /\ failed' = failed \ {Head(todo)}
    BY <2>3, EmptiedTyped DEF Emptied
  <2>5. Due' \subseteq Due
    BY <2>3, <2>4 DEF Due
  <2> QED
    BY <2>5, FewerDue
<1>5. CASE Reclaim
  <2> DEFINE S == IF view.ok THEN Reclaimable ELSE {}
  <2>1. Emptied(S) /\ Hot' = Hot
    BY <1>5 DEF Reclaim, Hot
  <2>2. S \cap Hot = {}
    BY DEF Reclaimable
  <2> HIDE DEF S
  <2>3. Noted' = Noted \ S /\ failed' = failed \ S
    BY <2>1, EmptiedTyped DEF Emptied
  <2>4. Due' \subseteq Due
    BY <2>1, <2>2, <2>3 DEF Due
  <2> QED
    BY <2>4, FewerDue
<1>6. CASE Start
  <2>1. PICK gone \in SUBSET Hot : Hot' = (Hot \ gone) \cup Noted /\ failed' = failed \ gone
    BY <1>6, StartTyped
  <2>2. Noted' = {} /\ Noted \cap Hot = {}
    BY <1>6, StartTyped DEF SideInv
  <2>3. Due' \subseteq Due
    BY <2>1, <2>2 DEF Due
  <2> QED
    BY <2>3, FewerDue
<1>7. ASSUME NEW t \in Torrent, LoseMapping(t)
      PROVE  WithinQuota'
  <2>1. Hot' = Hot \ {t} /\ Noted' = Noted \ {t}
    BY <1>7, LoseTyped
  <2>2. failed' = failed \ {t}
    BY <1>7 DEF LoseMapping
  <2>3. Due' \subseteq Due
    BY <2>1, <2>2 DEF Due
  <2> QED
    BY <2>3, FewerDue
<1>8. CASE \/ DemoteFails \/ MeasureAndDisplace \/ MeasureAgain \/ EndPromotions \/ OtherData
           \/ UNCHANGED vars
           \/ \E t \in Torrent : RepairMapping(t) \/ ChangeScore(t) \/ IntentExpires(t)
  <2>1. UNCHANGED <<rowVars, side>>
    BY <1>8 DEF DemoteFails, HalfDemoted, MeasureAndDisplace, MeasureAgain, EndPromotions, OtherData,
                vars, RepairMapping, ChangeScore, IntentExpires, cacheVars
  <2>2. Due' = Due
    BY <2>1 DEF Due, Hot, Noted, rowVars
  <2> QED
    BY <2>2, FewerDue
<1> QED
  BY <1>1, <1>2, <1>3, <1>4, <1>5, <1>6, <1>7, <1>8 DEF Next, Daemon, Environment

-----------------------------------------------------------------------------
(* Displacements pay.                                                      *)

\* The end of a tick forgets what it displaced.
LEMMA EndPay ==
  ASSUME ForgetTick, phase' \in {"idle", "down"}
  PROVE  PayInv'
<1>1. phase' \in {"idle", "down"} /\ gained' = 0 /\ evicted' = {}
  BY DEF ForgetTick
<1> QED
  BY <1>1 DEF PayInv

\* A tick in which nothing went wrong begins to displace.
LEMMA PayBegins ==
  ASSUME TypeOK, ViewInv, PayInv, MeasureAndDisplace
  PROVE  PayInv'
<1>1. CASE Suspended
  BY <1>1, EndPay DEF MeasureAndDisplace, EndTick
<1>2. CASE ~Suspended
  <2> DEFINE victims == IF view.ok THEN SelectDisplacements(view, Headroom) ELSE << >>
  <2>1. /\ IF victims = << >> THEN BeginPromotions(Headroom)
           ELSE phase' = "displace" /\ todo' = victims /\ avail' = Headroom
        /\ room' = Headroom /\ UNCHANGED <<view, evicted, gained>>
        /\ UNCHANGED <<tier, disk, other>> /\ phase = "headroom"
        /\ trouble' = trouble \cup (IF Spare < 0 THEN {"full"} ELSE {})
                              \cup (IF \E t \in Hot : disk[t] < Size[t] THEN {"hollow"} ELSE {})
    BY <1>2 DEF MeasureAndDisplace, rowVars, cacheVars, worldVars
  <2>2. evicted' = {} /\ gained' = 0
    BY <2>1 DEF PayInv
  <2>3. CASE victims = << >>
    <3>1. phase' = "promote"
      BY <2>1, <2>3 DEF BeginPromotions
    <3> QED
      BY <2>2, <3>1 DEF PayInv
  <2>4. CASE victims # << >>
    <3>1. phase' = "displace" /\ todo' = SelectDisplacements(view, Headroom)
      BY <2>1, <2>4
    <3>2. ASSUME trouble' = {}
          PROVE  Displacing'
      <4>1. trouble = {} /\ ~(Spare < 0) /\ ~ \E t \in Hot : disk[t] < Size[t]
        BY <2>1, <3>2
      <4>2. view.hot \subseteq Hot
        BY <2>1, <4>1 DEF PayInv
      <4>3. Headroom \in Nat /\ Spare = Headroom
        BY <4>1, HeadroomLeft
      <4>4. ToSet(todo') \subseteq Evictable(view)
        BY <3>1, <4>3, DisplacementsTyped, Members DEF ViewInv
      <4>5. ToSet(todo') \subseteq Hot
        BY <4>2, <4>4 DEF Evictable
      <4>6. \A t \in Hot : disk[t] = Size[t]
        <5>1. \A t \in Hot : disk[t] \in Nat /\ Size[t] \in Nat /\ disk[t] <= Size[t]
          BY Torrents DEF Hot, TypeOK
        <5> QED
          BY <4>1, <5>1
      <4>7. Hot' = Hot /\ Spare' = Spare
        BY <2>1 DEF Hot, Spare, Booked, Untracked, Free, DiskOf
      <4>8. Spare' = room' + SizeOf(evicted')
        BY <2>1, <2>2, <4>3, <4>7, Sizes
      <4> QED
        BY <2>1, <2>2, <3>1, <4>5, <4>6, <4>7, <4>8 DEF Displacing
    <3> QED
      BY <2>2, <3>1, <3>2 DEF PayInv
  <2> QED
    BY <2>3, <2>4
<1> QED
  BY <1>1, <1>2

\* What both bounds gain, the lesser of them gains.
LEMMA LesserGains ==
  ASSUME NEW a \in Int, NEW b \in Int, NEW z \in Nat
  PROVE  Min({a + z, b + z}) = Min({a, b}) + z
<1>1. Min({a + z, b + z}) = IF a + z <= b + z THEN a + z ELSE b + z
  <2> DEFINE c == a + z
             d == b + z
  <2>1. c \in Int /\ d \in Int
    OBVIOUS
  <2> HIDE DEF c, d
  <2>2. Min({c, d}) = IF c <= d THEN c ELSE d
    BY <2>1, OfTwo
  <2> QED
    BY <2>2 DEF c, d
<1>2. Min({a, b}) = IF a <= b THEN a ELSE b
  BY OfTwo
<1> QED
  BY <1>1, <1>2

\* A whole hot torrent that is demoted leaves its size to quota and filesystem;
\* one that has already left changes nothing.
LEMMA RoomOfVictim ==
  ASSUME TypeOK, ViewInv, NEW t \in Torrent, t \notin view.quarantined,
         DemoteStep(t), UNCHANGED <<other, view>>
  PROVE  /\ Hot' = Hot \ {t}
         /\ t \in Hot /\ disk[t] = Size[t] => Spare' = Spare + Size[t]
         /\ t \notin Hot /\ disk[t] = 0 => Spare' = Spare
<1>1. /\ tier' = [tier EXCEPT ![t] = "cold"] /\ disk' = [disk EXCEPT ![t] = 0] /\ other' = other
      /\ view' = view
  BY DemoteStepTyped DEF DemoteStep
<1>2. Hot' = Hot \ {t} /\ Hot \in SUBSET Torrent
  BY DemoteStepTyped DEF Hot
<1>3. Untracked' = Untracked
  <2>1. view.quarantined \ Hot' = view.quarantined \ Hot
    BY <1>2
  <2>2. Untracked' = SumFunctionOnSet(disk', view.quarantined \ Hot)
    BY <1>1, <2>1 DEF Untracked, DiskOf
  <2>3. view.quarantined \ Hot \in SUBSET Torrent /\ t \notin view.quarantined \ Hot
    BY DEF ViewInv
  <2> QED
    BY <1>1, <2>2, <2>3, DiskChange DEF Untracked
<1>4. Free' = Free - (0 - disk[t])
  BY <1>1, DiskChange
<1>5. /\ Booked \in Nat /\ Untracked \in Nat /\ Free \in Int /\ Quota \in Nat /\ MinFree \in Nat
      /\ Size[t] \in Nat
  BY Bytes, HeadroomLeft, BudgetAssumption, Torrents
<1> DEFINE a == Quota - (Booked + Untracked)
           b == Free - MinFree
           z == Size[t]
<1>6. ASSUME t \in Hot, disk[t] = z
      PROVE  Spare' = Spare + z
  <2>1. Hot \ {t} \in SUBSET Torrent
    BY <1>2
  <2>2. SizeOf(Hot) = Size[t] + SizeOf(Hot \ {t}) /\ SizeOf(Hot \ {t}) \in Nat
    BY <1>2, <1>6, <2>1, Sizes
  <2>3. Booked' = SizeOf(Hot \ {t})
    BY <1>2 DEF Booked
  <2>4. Booked = z + Booked' /\ Booked' \in Nat
    BY <2>2, <2>3 DEF Booked
  <2>5. Quota - (Booked' + Untracked') = a + z
    BY <1>3, <1>5, <2>4
  <2>6. Free' - MinFree = b + z
    BY <1>4, <1>5, <1>6
  <2>7. Spare' = Min({a + z, b + z})
    BY <2>5, <2>6 DEF Spare
  <2>8. Spare = Min({a, b})
    BY DEF Spare
  <2>9. a \in Int /\ b \in Int /\ z \in Nat
    BY <1>5
  <2> HIDE DEF a, b, z
  <2> QED
    BY <2>7, <2>8, <2>9, LesserGains
<1>7. ASSUME t \notin Hot, disk[t] = 0
      PROVE  Spare' = Spare
  <2>1. Hot' = Hot /\ Booked' = Booked
    BY <1>2, <1>7 DEF Booked
  <2>2. Free' = Free
    BY <1>4, <1>5, <1>7
  <2> QED
    BY <1>3, <2>1, <2>2 DEF Spare
<1> QED
  BY <1>2, <1>6, <1>7

\* A displacement goes on as it began.
LEMMA PayGoesOn ==
  ASSUME TypeOK, ViewInv, Displacing, Displace
  PROVE  Displacing'
<1> DEFINE t == Head(todo)
           victims == ToSet(SelectDisplacements(view, room))
<1>1. /\ todo # << >> /\ DemoteStep(t) /\ todo' = Tail(todo)
      /\ evicted' = evicted \cup ({t} \cap Hot) /\ UNCHANGED <<other, view, room>>
  BY DEF Displace, worldVars
<1>2. /\ t \in Torrent /\ t \in ToSet(todo) /\ ToSet(todo) = {t} \cup ToSet(todo')
      /\ ToSet(todo) \in SUBSET Torrent
  BY <1>1, Heads DEF TypeOK
<1>3. /\ evicted \cup ToSet(todo) = victims
      /\ ToSet(todo) \subseteq Hot \cup evicted /\ evicted \cap Hot = {}
      /\ \A u \in Hot : disk[u] = Size[u]
      /\ \A u \in evicted : disk[u] = 0
      /\ Spare = room + SizeOf(evicted)
  BY DEF Displacing
<1>4. t \in view.active
  <2>1. victims \subseteq Evictable(view)
    BY DisplacementsTyped, Members DEF ViewInv, TypeOK
  <2> QED
    BY <1>2, <1>3, <2>1 DEF Evictable
<1>5. t \notin view.quarantined
  BY <1>4 DEF ViewInv
<1>6. /\ Hot' = Hot \ {t}
      /\ t \in Hot /\ disk[t] = Size[t] => Spare' = Spare + Size[t]
      /\ t \notin Hot /\ disk[t] = 0 => Spare' = Spare
  BY <1>1, <1>2, <1>5, RoomOfVictim
<1>7. disk' = [disk EXCEPT ![t] = 0] /\ disk \in [Torrent -> Nat] /\ Hot \subseteq Torrent /\ evicted \subseteq Torrent
  BY <1>1, <1>2, DemoteStepTyped DEF TypeOK, Hot
<1>8. \A u \in Torrent : disk'[u] = IF u = t THEN 0 ELSE disk[u]
  BY <1>7
<1> HIDE DEF t, victims
<1>9. (\A u \in Hot' : disk'[u] = Size[u]) /\ (\A u \in evicted' : disk'[u] = 0)
  BY <1>1, <1>3, <1>6, <1>7, <1>8
<1>10. victims' = victims
  BY <1>1 DEF victims
<1>11. /\ evicted' \cup ToSet(todo') = victims'
       /\ ToSet(todo') \subseteq Hot' \cup evicted' /\ evicted' \cap Hot' = {}
  BY <1>1, <1>2, <1>3, <1>6, <1>10
<1>12. Spare' = room' + SizeOf(evicted')
  <2>1. evicted \in SUBSET Torrent
    BY <1>7
  <2>2. SizeOf(evicted) \in Nat /\ Size[t] \in Nat /\ room \in Nat
    BY <1>2, <2>1, Sizes, Torrents DEF TypeOK
  <2>3. CASE t \in Hot
    <3>1. evicted' = evicted \cup {t} /\ t \notin evicted
      BY <1>1, <1>3, <2>3
    <3>2. SizeOf(evicted \cup {t}) = SizeOf(evicted) + Size[t]
      BY <1>2, <2>1, <3>1, SizesGrow
    <3>3. Spare' = Spare + Size[t]
      BY <1>3, <1>6, <2>3
    <3>4. Spare' = (room + SizeOf(evicted)) + Size[t]
      BY <1>3, <3>3
    <3>5. SizeOf(evicted') = SizeOf(evicted) + Size[t] /\ room' = room
      BY <1>1, <3>1, <3>2
    <3>6. (room + SizeOf(evicted)) + Size[t] = room + (SizeOf(evicted) + Size[t])
      BY <2>2
    <3> QED
      BY <3>4, <3>5, <3>6
  <2>4. CASE t \notin Hot
    <3>1. evicted' = evicted /\ disk[t] = 0
      BY <1>1, <1>2, <1>3, <2>4
    <3> QED
      BY <1>1, <1>3, <1>6, <2>4, <3>1
  <2> QED
    BY <2>3, <2>4
<1> QED
  BY <1>9, <1>11, <1>12 DEF Displacing, victims

\* When the victims are gone, the promotions selected are worth more than would
\* have fitted without them.
LEMMA PayEnds ==
  ASSUME TypeOK, ViewInv, PayInv, MeasureAgain
  PROVE  PayInv'
<1>1. /\ phase = "displace" /\ todo = << >> /\ phase' = "promote"
      /\ todo' = SelectPromotions(view, Headroom)
      /\ UNCHANGED <<room, evicted, gained, trouble>>
  BY DEF MeasureAgain, BeginPromotions, ghostVars
<1>2. gained' = 0
  BY <1>1 DEF PayInv
<1>3. ASSUME trouble = {}, evicted # {}
      PROVE  SizeOf(ToSet(todo')) > room
  <2>1. Displacing
    BY <1>1, <1>3 DEF PayInv
  <2>2. ToSet(todo) = {}
    BY <1>1 DEF ToSet
  <2>3. evicted = ToSet(SelectDisplacements(view, room)) /\ Spare = room + SizeOf(evicted)
    BY <2>1, <2>2 DEF Displacing
  <2>4. evicted \in SUBSET Torrent /\ room \in Nat
    BY DEF TypeOK
  <2>5. SizeOf(evicted) \in Nat
    BY <2>4, Sizes
  <2>6. Headroom = room + SizeOf(evicted)
    <3>1. Spare >= 0
      BY <2>3, <2>4, <2>5
    <3> QED
      BY <2>3, <3>1, HeadroomLeft
  <2>7. SizeOf(ToSet(SelectPromotions(view, room + SizeOf(evicted)))) > room
    BY <1>3, <2>3, <2>4, DisplacementsPay DEF ViewInv
  <2> QED
    BY <1>1, <2>6, <2>7
<1>4. ASSUME trouble' = {}, evicted' # {}
      PROVE  gained' + SizeOf(ToSet(todo')) > room'
  <2>1. SizeOf(ToSet(todo')) > room /\ room' = room
    BY <1>1, <1>3, <1>4
  <2>2. SizeOf(ToSet(todo')) \in Nat
    <3>1. Headroom \in Nat
      BY HeadroomLeft
    <3> QED
      BY <1>1, <3>1, PromotionsFit, Members, Sizes DEF ViewInv
  <2> QED
    BY <1>2, <2>1, <2>2
<1> QED
  BY <1>1, <1>4 DEF PayInv

\* A promotion turns what is to be promoted into what is.
LEMMA PayPromotes ==
  ASSUME TypeOK, PlanInv, PayInv, Promote
  PROVE  PayInv'
<1>1. /\ phase = "promote" /\ phase' = "promote" /\ todo # << >> /\ todo' = Tail(todo)
      /\ gained' = gained + Size[Head(todo)] /\ UNCHANGED <<room, evicted, trouble>>
  BY DEF Promote
<1>2. /\ SizeOf(ToSet(todo)) = Size[Head(todo)] + SizeOf(ToSet(Tail(todo)))
      /\ Head(todo) \in Torrent /\ ToSet(Tail(todo)) \in SUBSET Torrent
  BY <1>1, Heads DEF TypeOK, PlanInv
<1>3. Size[Head(todo)] \in Nat /\ SizeOf(ToSet(Tail(todo))) \in Nat /\ gained \in Nat
  BY <1>2, Sizes, Torrents DEF TypeOK
<1>4. gained' + SizeOf(ToSet(todo')) = gained + SizeOf(ToSet(todo))
  BY <1>1, <1>2, <1>3
<1> QED
  BY <1>1, <1>4 DEF PayInv

\* Every step keeps the account of displacements.
LEMMA PayKept ==
  ASSUME TypeOK, ViewInv, PlanInv, PayInv, [Next]_vars
  PROVE  PayInv'
<1>1. CASE EndPromotions \/ Interrupt
  BY <1>1, EndPay DEF EndPromotions, Interrupt, EndTick
<1>2. CASE MeasureAndDisplace
  BY <1>2, PayBegins
<1>3. CASE MeasureAgain
  BY <1>3, PayEnds
<1>4. CASE Promote
  BY <1>4, PayPromotes
<1>5. CASE Displace
  <2>1. phase = "displace" /\ phase' = "displace" /\ UNCHANGED <<gained, trouble>>
    BY <1>5 DEF Displace
  <2>2. trouble = {} => Displacing'
    BY <1>5, <2>1, PayGoesOn DEF PayInv
  <2> QED
    BY <2>1, <2>2 DEF PayInv
<1>6. CASE Poll(Torrent, TRUE) \/ \E seen \in SUBSET Torrent : Poll(seen, FALSE)
  <2>1. PICK seen \in SUBSET Torrent, ok \in BOOLEAN : Poll(seen, ok)
    BY <1>6
  <2>2. phase = "idle" /\ phase' = "demote" /\ UNCHANGED <<evicted, gained>> /\ view' = Candidates(seen, ok)
    BY <2>1 DEF Poll, ghostVars
  <2>3. Hot' = Hot
    BY <2>1 DEF Poll, Hot, TypeOK
  <2>4. view'.hot \subseteq Hot'
    BY <2>2, <2>3 DEF Candidates
  <2> QED
    BY <2>2, <2>4 DEF PayInv
<1>7. CASE Reclaim
  <2>1. phase = "demote" /\ phase' = "headroom" /\ UNCHANGED <<tier, view, evicted, gained, trouble>>
    BY <1>7 DEF Reclaim, ghostVars
  <2>2. Hot' = Hot
    BY <2>1 DEF Hot
  <2> QED
    BY <2>1, <2>2 DEF PayInv
<1>8. CASE Demote \/ DemoteFails \/ PromoteFails \/ (OtherData /\ phase \notin {"idle", "down"})
  <2>1. trouble' # {} /\ UNCHANGED <<phase, evicted, gained>>
    BY <1>8 DEF Demote, DemoteFails, PromoteFails, OtherData
  <2> QED
    BY <2>1 DEF PayInv
<1>9. CASE \/ OtherData /\ phase \in {"idle", "down"}
           \/ Start
           \/ \E t \in Torrent : LoseMapping(t) \/ RepairMapping(t) \/ ChangeScore(t) \/ IntentExpires(t)
  <2>1. /\ phase \in {"idle", "down"} /\ phase' \in {"idle", "down"}
        /\ UNCHANGED <<evicted, gained>>
    BY <1>9 DEF OtherData, Start, LoseMapping, RepairMapping, ChangeScore, IntentExpires, ghostVars
  <2> QED
    BY <2>1 DEF PayInv
<1>10. CASE UNCHANGED vars
  <2>1. UNCHANGED <<tier, disk, other, phase, todo, view, room, evicted, gained, trouble>>
    BY <1>10 DEF vars, rowVars, cacheVars, worldVars, ghostVars
  <2>2. Hot' = Hot /\ Spare' = Spare
    BY <2>1 DEF Hot, Spare, Booked, Untracked, Free, DiskOf
  <2>3. Displacing => Displacing'
    BY <2>1, <2>2 DEF Displacing
  <2> QED
    BY <2>1, <2>2, <2>3 DEF PayInv
<1> QED
  BY <1>1, <1>2, <1>3, <1>4, <1>5, <1>6, <1>7, <1>8, <1>9, <1>10 DEF Next, Daemon, Environment

-----------------------------------------------------------------------------
(* The theorems.                                                           *)

\* Initially nothing is booked, seen or planned.
LEMMA InitQuota ==
  ASSUME Init
  PROVE  QuotaInv
<1>1. TypeOK
  BY InitTyped
<1>2. Hot = {}
  BY DEF Init, Hot
<1>3. Noted = {} /\ linked = {}
  BY DEF Init, Noted
<1>4. WithinQuota /\ SideInv
  <2>1. (Hot \cup Noted) \ failed = {}
    BY <1>2, <1>3
  <2>2. SizeOf((Hot \cup Noted) \ failed) = 0
    BY <2>1, Sizes
  <2> QED
    BY <1>2, <1>3, <2>2, BudgetAssumption DEF WithinQuota, SideInv
<1>5. ViewInv
  <2>1. view = NoView
    BY DEF Init
  <2> HIDE DEF NoView
  <2>2. ViewType(view) /\ view.quarantined = {} /\ ~view.ok
    BY <2>1, NoViewTyped
  <2> QED
    BY <2>2 DEF ViewInv
<1>6. PlanInv
  BY DEF Init, PlanInv
<1>7. PayInv
  BY DEF Init, PayInv
<1> QED
  BY <1>1, <1>4, <1>5, <1>6, <1>7 DEF QuotaInv

\* The bytes that rows book, or sidecars for the next start, never exceed the quota
\* but for promotions that failed behind their sidecar, and the selected promotions
\* keep their room until their turn (_tick(), steps 5 to 9, and reconcile()).
THEOREM BudgetInvariant == Spec => []QuotaInv
<1>1. Init => QuotaInv
  BY InitQuota
<1>2. QuotaInv /\ [Next]_vars => QuotaInv'
  BY TypeKept, ViewKept, PlanKept, SideKept, QuotaKept, PayKept DEF QuotaInv
<1> QED
  BY <1>1, <1>2, PTL DEF Spec

\* Only a promotion gains bytes.
LEMMA OnlyPromotions ==
  ASSUME TypeOK, [Next]_vars, gained' > gained
  PROVE  Promote
<1>1. gained \in Nat
  BY DEF TypeOK
<1>2. ~(gained' = gained) /\ ~(gained' = 0)
  BY <1>1
<1>3. ~ForgetTick
  BY <1>2 DEF ForgetTick
<1> QED
  BY <1>2, <1>3
     DEF Next, Start, EndTick, Daemon, Environment, Poll, Demote, Displace, Reclaim, MeasureAndDisplace, MeasureAgain,
         EndPromotions, PromoteFails, DemoteFails, Interrupt, OtherData, LoseMapping, RepairMapping,
         ChangeScore, IntentExpires, vars, ghostVars

\* A promotion keeps the quota, in a tick that saw every instance with the copies
\* that no row books: _untracked_ssd_bytes() counts what it must.
THEOREM HonestQuota == Spec => QuotaHonest
<1>1. ASSUME QuotaInv, [Next]_vars, gained' > gained
      PROVE  Booked' <= Quota /\ (view.ok => (Booked + DiskOf(lost \ Hot) <= Quota)')
  <2>1. TypeOK /\ ViewInv /\ PlanInv
    BY <1>1 DEF QuotaInv
  <2>2. Promote
    BY <1>1, <2>1, OnlyPromotions
  <2>3. view' = view /\ lost' = lost /\ (view.ok => view.quarantined = lost)
    BY <2>1, <2>2, PromotionSteps DEF ViewInv
  <2>4. /\ Booked' + Untracked' + SizeOf(ToSet(todo')) <= Quota
        /\ SizeOf(ToSet(todo')) \in Nat /\ Booked' \in Nat /\ Untracked' \in Nat
    BY <2>1, <2>2, PromotionRoom
  <2>5. Quota \in Nat
    BY BudgetAssumption
  <2>6. Booked' <= Quota /\ Booked' + Untracked' <= Quota
    BY <2>4, <2>5, PartsHaveRoom
  <2>7. view.ok => DiskOf(lost \ Hot)' = Untracked'
    BY <2>3 DEF Untracked, DiskOf
  <2> QED
    BY <2>6, <2>7
<1>2. QuotaInv /\ [Next]_vars =>
        [gained' > gained => /\ Booked' <= Quota
                             /\ view.ok => (Booked + DiskOf(lost \ Hot) <= Quota)']_vars
  BY <1>1
<1> QED
  BY <1>2, BudgetInvariant, PTL DEF Spec, QuotaHonest

\* A promotion leaves the reserve of the filesystem free unless other data grew
\* since the headroom was measured (min_free_gb, _free_ssd_bytes()).
THEOREM FreeReserve == Spec => ReserveKept
<1>1. ASSUME QuotaInv, [Next]_vars, gained' > gained, "other" \notin trouble
      PROVE  Free' >= MinFree
  <2>1. TypeOK /\ ViewInv /\ PlanInv
    BY <1>1 DEF QuotaInv
  <2>2. Promote
    BY <1>1, <2>1, OnlyPromotions
  <2>3. MinFree + SizeOf(ToSet(todo')) <= Free' /\ SizeOf(ToSet(todo')) \in Nat /\ Free' \in Int
    BY <1>1, <2>1, <2>2, PromotionRoom
  <2>4. MinFree \in Nat
    BY BudgetAssumption
  <2> QED
    BY <2>3, <2>4
<1>2. QuotaInv /\ [Next]_vars => [gained' > gained /\ "other" \notin trouble => Free' >= MinFree]_vars
  BY <1>1
<1> QED
  BY <1>2, BudgetInvariant, PTL DEF Spec, ReserveKept

\* A displacement pays, when nothing else happens in its tick: what is promoted
\* is more than would have fitted without it (select_displacements(), which
\* plans with the victims' sizes, and select_promotions(), which knows no plan).
THEOREM DisplacementPays == Spec => []EvictionsPay
<1>1. ASSUME QuotaInv
      PROVE  EvictionsPay
  <2>1. PayInv /\ gained \in Nat
    BY <1>1 DEF QuotaInv, TypeOK
  <2> SUFFICES ASSUME phase = "promote", todo = << >>, evicted # {}, trouble = {}
               PROVE  gained > room
    BY DEF EvictionsPay
  <2>2. gained + SizeOf(ToSet(todo)) > room
    BY <2>1 DEF PayInv
  <2>3. ToSet(todo) = {}
    BY DEF ToSet
  <2>4. SizeOf(ToSet(todo)) = 0
    BY <2>3, Sizes
  <2> QED
    BY <2>1, <2>2, <2>4
<1> QED
  BY <1>1, BudgetInvariant, PTL
=============================================================================
