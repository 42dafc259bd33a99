---------------------------- MODULE HistoryProofs ----------------------------
(***************************************************************************)
(* Thinning keeps the sums, whatever the window, the buckets and the       *)
(* restarts. The argument is one function that says for each row how much  *)
(* was counted up to it: it explains each step of the full series and,     *)
(* since a row that is left out lies inside a bucket and far from a reset, *)
(* each step of the kept one. A sum over steps is then a difference.       *)
(***************************************************************************)
EXTENDS History, FoldProofs

-----------------------------------------------------------------------------
(* Series: the first row, the last one, the one before.                    *)

\* A finite set of rows, told apart by their times.
Series(R) == IsFiniteSet(R) /\ R \subseteq Row /\ \A p, q \in R : p.ts = q.ts => p = q

\* The fields of a row are numbers.
LEMMA Numbers ==
  ASSUME NEW R, Series(R)
  PROVE  \A r \in R : r.ts \in Nat /\ r.up \in Nat /\ r.total \in Nat
BY DEF Series, Row

\* Part of a series is a series.
LEMMA PartIsSeries ==
  ASSUME NEW R, Series(R), NEW P \in SUBSET R
  PROVE  Series(P)
BY FS_Subset DEF Series

\* A series that is not empty begins.
LEMMA Earliest ==
  ASSUME NEW R, Series(R), R # {}
  PROVE  First(R) \in R /\ \A q \in R : First(R).ts <= q.ts
<1> DEFINE T == {r.ts : r \in R}
<1>1. T \in SUBSET Nat /\ T # {}
  BY Numbers
<1>2. Min(T) \in T /\ \A y \in T : Min(T) <= y
  <2> HIDE DEF T
  <2> QED
    BY <1>1, Least
<1>3. PICK r \in R : r.ts = Min(T)
  BY <1>2
<1>4. \A q \in R : r.ts <= q.ts
  BY <1>2, <1>3
<1> QED
  BY <1>3, <1>4 DEF First

\* A series that is not empty ends.
LEMMA Latest ==
  ASSUME NEW R, Series(R), R # {}
  PROVE  Last(R) \in R /\ \A q \in R : q.ts <= Last(R).ts
<1> DEFINE F == {s \in SUBSET R : s # {} => \E r \in s : \A q \in s : q.ts <= r.ts}
<1>1. {} \in F
  OBVIOUS
<1>2. ASSUME NEW s \in SUBSET R, \A u \in SUBSET s : u # s => u \in F
      PROVE  s \in F
  <2> SUFFICES ASSUME NEW x \in s
               PROVE  \E r \in s : \A q \in s : q.ts <= r.ts
    OBVIOUS
  <2>1. CASE s = {x}
    <3>1. x.ts \in Nat
      BY Numbers
    <3>2. \A q \in s : q.ts = x.ts
      BY <2>1
    <3>3. \A q \in s : q.ts <= x.ts
      BY <3>1, <3>2
    <3> QED
      BY <3>3
  <2>2. CASE s # {x}
    <3>1. s \ {x} \in SUBSET s /\ s \ {x} # s /\ s \ {x} # {}
      BY <2>2
    <3>2. s \ {x} \in F
      BY <1>2, <3>1
    <3>3. PICK r \in s \ {x} : \A q \in s \ {x} : q.ts <= r.ts
      BY <3>1, <3>2
    <3>4. \A q \in s : q.ts \in Nat
      BY Numbers
    <3> QED
      BY <3>3, <3>4
  <2> QED
    BY <2>1, <2>2
<1>3. R \in F
  <2>1. IsFiniteSet(R)
    BY DEF Series
  <2> HIDE DEF F
  <2> QED
    BY <1>1, <1>2, <2>1, SubsetsByInduction
<1> QED
  BY <1>3 DEF Last

\* The first and the last row are the only ones at their place.
LEMMA Ends ==
  ASSUME NEW R, Series(R), NEW r \in R
  PROVE  /\ (\A q \in R : r.ts <= q.ts) => First(R) = r
         /\ (\A q \in R : q.ts <= r.ts) => Last(R) = r
<1>1. \A p, q \in R : p.ts \in Nat /\ (p.ts = q.ts => p = q)
  BY Numbers DEF Series
<1>2. First(R) \in R /\ First(R).ts <= r.ts /\ Last(R) \in R /\ r.ts <= Last(R).ts
  BY Earliest, Latest
<1> QED
  BY <1>1, <1>2

\* A step leads to each row but the first.
LEMMA StepTo ==
  ASSUME NEW R, Series(R), NEW r \in R, r # First(R)
  PROVE  \E p \in R : <<p, r>> \in Steps(R)
<1> DEFINE E == {q \in R : q.ts < r.ts}
           p == Last(E)
<1>1. \A q \in R : q.ts \in Nat
  BY Numbers
<1>2. E # {}
  <2>1. First(R).ts <= r.ts /\ First(R) \in R /\ First(R).ts # r.ts
    BY Earliest DEF Series
  <2> QED
    BY <1>1, <2>1
<1>3. Series(E)
  BY PartIsSeries
<1>4. p \in E /\ \A q \in E : q.ts <= p.ts
  <2> HIDE DEF E
  <2> QED
    BY <1>2, <1>3, Latest
<1>5. p \in R /\ p.ts < r.ts /\ ~\E q \in R : p.ts < q.ts /\ q.ts < r.ts
  <2> HIDE DEF p
  <2> QED
    BY <1>1, <1>4
<1> HIDE DEF p
<1> QED
  BY <1>5 DEF Steps

\* A step leads from each row but the last.
LEMMA StepFrom ==
  ASSUME NEW R, Series(R), NEW r \in R, r # Last(R)
  PROVE  \E q \in R : <<r, q>> \in Steps(R)
<1> DEFINE E == {q \in R : r.ts < q.ts}
           n == First(E)
<1>1. \A q \in R : q.ts \in Nat
  BY Numbers
<1>2. E # {}
  <2>1. r.ts <= Last(R).ts /\ Last(R) \in R /\ Last(R).ts # r.ts
    BY Latest DEF Series
  <2> QED
    BY <1>1, <2>1
<1>3. Series(E)
  BY PartIsSeries
<1>4. n \in E /\ \A q \in E : n.ts <= q.ts
  <2> HIDE DEF E
  <2> QED
    BY <1>2, <1>3, Earliest
<1>5. n \in R /\ r.ts < n.ts /\ ~\E q \in R : r.ts < q.ts /\ q.ts < n.ts
  <2> HIDE DEF n
  <2> QED
    BY <1>1, <1>4
<1> HIDE DEF n
<1> QED
  BY <1>5 DEF Steps

\* What holds of the first row and passes along the steps holds of all.
LEMMA RowsByInduction ==
  ASSUME NEW R, Series(R), NEW T, R # {} => First(R) \in T,
         \A p, r \in R : <<p, r>> \in Steps(R) /\ p \in T => r \in T
  PROVE  R \subseteq T
<1> SUFFICES ASSUME R \ T # {}
             PROVE  FALSE
  OBVIOUS
<1> DEFINE r == First(R \ T)
<1>1. r \in R \ T /\ \A q \in R \ T : r.ts <= q.ts
  BY PartIsSeries, Earliest
<1> HIDE DEF r
<1>2. PICK p \in R : <<p, r>> \in Steps(R)
  BY <1>1, StepTo
<1>3. p \in R \ T
  BY <1>1, <1>2
<1>4. p.ts < r.ts /\ p.ts \in Nat /\ r.ts \in Nat
  BY <1>1, <1>2, Numbers DEF Steps
<1> QED
  BY <1>1, <1>3, <1>4

-----------------------------------------------------------------------------
(* Steps and the sum over them.                                            *)

\* The rows up to one.
UpTo(R, r) == {q \in R : q.ts <= r.ts}

\* What is counted between two rows is a number.
LEMMA Growths ==
  ASSUME NEW R, Series(R), NEW p \in R, NEW q \in R
  PROVE  /\ Growth(<<p, q>>) \in Nat
         /\ Growth(<<p, q>>) = IF q.up < p.up THEN q.up ELSE q.up - p.up
BY Numbers DEF Growth, IsReset

\* Steps lead from row to row.
LEMMA StepRows ==
  ASSUME NEW R, NEW s \in Steps(R)
  PROVE  /\ s[1] \in R /\ s[2] \in R /\ s = <<s[1], s[2]>> /\ s[1].ts < s[2].ts
         /\ \A r \in R : ~(s[1].ts < r.ts /\ r.ts < s[2].ts)
BY DEF Steps

\* There are finitely many steps, each of which counts a number of bytes.
LEMMA StepsCount ==
  ASSUME NEW R, Series(R)
  PROVE  /\ IsFiniteSet(Steps(R))
         /\ \A s \in Steps(R) : Growth(s) \in Nat
<1>1. IsFiniteSet(R \X R)
  BY FS_Product DEF Series
<1>2. Steps(R) \in SUBSET (R \X R)
  BY DEF Steps
<1>3. IsFiniteSet(Steps(R))
  BY <1>1, <1>2, FS_Subset
<1> QED
  BY <1>3, StepRows, Growths

\* The sum of what each of some steps counts.
Bytes(S) == SumFunctionOnSet([s \in S |-> Growth(s)], S)

\* The score is the sum over the steps.
LEMMA ScoreIsBytes ==
  ASSUME NEW R
  PROVE  Score(R) = Bytes(Steps(R))
BY DEF Score, Bytes

\* One step more counts for what it counts.
LEMMA BytesOfOneMore ==
  ASSUME NEW S, IsFiniteSet(S), \A s \in S : Growth(s) \in Nat, NEW x \in S
  PROVE  Bytes(S) = Bytes(S \ {x}) + Growth(x) /\ Bytes(S \ {x}) \in Nat
<1> DEFINE w == [s \in S |-> Growth(s)]
           v == [s \in S \ {x} |-> Growth(s)]
           P == S \ {x}
<1>1. \A s \in S : w[s] \in Nat
  OBVIOUS
<1>2. SumFunctionOnSet(w, S) = w[x] + SumFunctionOnSet(w, P)
  <2> HIDE DEF w
  <2> QED
    BY <1>1, SumMember
<1>3. IsFiniteSet(P) /\ (\A s \in P : w[s] \in Nat) /\ (\A s \in P : v[s] = w[s])
  BY FS_Subset
<1>4. SumFunctionOnSet(v, P) = SumFunctionOnSet(w, P) /\ SumFunctionOnSet(w, P) \in Nat
  <2> HIDE DEF w, v, P
  <2> QED
    BY <1>3, SumSame, SumFirst
<1>5. w[x] = Growth(x) /\ w[x] \in Nat
  OBVIOUS
<1>6. Bytes(S) = SumFunctionOnSet(w, S) /\ Bytes(P) = SumFunctionOnSet(v, P)
  BY DEF Bytes
<1> HIDE DEF w, v, P
<1>7. Bytes(S) = Bytes(P) + Growth(x) /\ Bytes(P) \in Nat
  BY <1>2, <1>4, <1>5, <1>6
<1> QED
  BY <1>7 DEF P

\* The score is a number.
LEMMA ScoreTyped ==
  ASSUME NEW R, Series(R)
  PROVE  Score(R) \in Nat
<1> DEFINE S == Steps(R)
           w == [s \in S |-> Growth(s)]
<1>1. IsFiniteSet(S) /\ \A s \in S : w[s] \in Nat
  BY StepsCount
<1>2. SumFunctionOnSet(w, S) \in Nat
  <2> HIDE DEF w, S
  <2> QED
    BY <1>1, SumFirst
<1> QED
  BY <1>2 DEF Score

\* With one step more the score grows by what it counts.
LEMMA ScoreAlongStep ==
  ASSUME NEW R, Series(R), NEW p \in R, NEW r \in R, <<p, r>> \in Steps(R)
  PROVE  /\ Score(UpTo(R, r)) = Score(UpTo(R, p)) + Growth(<<p, r>>)
         /\ Score(UpTo(R, p)) \in Nat
<1> DEFINE s == <<p, r>>
<1>1. \A q \in R : q.ts \in Nat
  BY Numbers
<1>2. p.ts < r.ts /\ ~\E q \in R : p.ts < q.ts /\ q.ts < r.ts
  BY DEF Steps
<1>3. \A q \in R : q.ts = r.ts => q = r
  BY DEF Series
<1>4. UpTo(R, r) = UpTo(R, p) \cup {r} /\ r \notin UpTo(R, p) /\ p \in UpTo(R, p)
  BY <1>1, <1>2, <1>3 DEF UpTo
<1>5. \A q \in UpTo(R, p) : q \in R /\ q.ts \in Nat /\ q.ts <= p.ts
  BY <1>1 DEF UpTo
<1>6. \A x, y \in R : <<x, y>> \in Steps(UpTo(R, r)) \ {s} <=> <<x, y>> \in Steps(UpTo(R, p))
  <2> TAKE x, y \in R
  <2>0. r.ts \in Nat /\ p.ts \in Nat /\ x.ts \in Nat /\ y.ts \in Nat
    BY <1>1
  <2>1. CASE x = r
    <3>1. <<x, y>> \notin Steps(UpTo(R, p))
      BY <2>1, <1>4 DEF Steps
    <3>2. <<x, y>> \notin Steps(UpTo(R, r))
      BY <2>0, <2>1, <1>1, <1>2, <1>4, <1>5 DEF Steps
    <3> QED
      BY <3>1, <3>2
  <2>2. CASE x # r /\ y = r
    <3>1. <<x, y>> \notin Steps(UpTo(R, p))
      BY <2>2, <1>4 DEF Steps
    <3>2. ASSUME <<x, y>> \in Steps(UpTo(R, r))
          PROVE  x = p
      <4>1. x \in UpTo(R, p) /\ p \in UpTo(R, r) /\ ~(x.ts < p.ts /\ p.ts < r.ts)
        BY <2>2, <1>4, <3>2 DEF Steps
      <4>2. x.ts = p.ts
        BY <4>1, <2>0, <1>2, <1>5
      <4> QED
        BY <4>2 DEF Series
    <3> QED
      BY <2>2, <3>1, <3>2
  <2>3. CASE x # r /\ y # r
    BY <2>0, <2>3, <1>2, <1>4, <1>5 DEF Steps
  <2> QED
    BY <2>1, <2>2, <2>3
<1>7. s \in Steps(UpTo(R, r))
  <2>1. UpTo(R, r) \subseteq R
    BY DEF UpTo
  <2> QED
    BY <2>1, <1>2, <1>4 DEF Steps
<1>8. Steps(UpTo(R, r)) \ {s} = Steps(UpTo(R, p))
  <2>1. UpTo(R, r) \subseteq R /\ UpTo(R, p) \subseteq R
    BY DEF UpTo
  <2>2. \A t \in Steps(UpTo(R, r)) : t[1] \in R /\ t[2] \in R /\ t = <<t[1], t[2]>>
    BY <2>1, StepRows
  <2>3. \A t \in Steps(UpTo(R, p)) : t[1] \in R /\ t[2] \in R /\ t = <<t[1], t[2]>>
    BY <2>1, StepRows
  <2> QED
    BY <1>6, <2>2, <2>3
<1>9. Series(UpTo(R, r))
  BY PartIsSeries DEF UpTo
<1>10. Bytes(Steps(UpTo(R, r))) = Bytes(Steps(UpTo(R, p))) + Growth(s) /\ Bytes(Steps(UpTo(R, p))) \in Nat
  BY <1>7, <1>8, <1>9, StepsCount, BytesOfOneMore
<1> QED
  BY <1>10, ScoreIsBytes

\* Up to the first row nothing is counted.
LEMMA ScoreAtFirst ==
  ASSUME NEW R, Series(R), R # {}
  PROVE  Score(UpTo(R, First(R))) = 0
<1> DEFINE U == UpTo(R, First(R))
<1>1. First(R) \in R /\ \A q \in R : First(R).ts <= q.ts /\ q.ts \in Nat
  BY Earliest, Numbers
<1>2. \A q \in U : q.ts = First(R).ts
  BY <1>1 DEF UpTo
<1>3. Steps(U) = {}
  <2>1. \A s \in Steps(U) : s[1].ts \in Nat /\ s[1].ts < s[2].ts /\ s[1].ts = s[2].ts
    <3>1. \A q \in U : q.ts \in Nat
      BY <1>1 DEF UpTo
    <3> HIDE DEF U
    <3> QED
      BY <1>2, <3>1, StepRows
  <2> QED
    BY <2>1
<1>4. Bytes({}) = 0
  BY FS_EmptySet, SumFirst DEF Bytes
<1> QED
  BY <1>3, <1>4, ScoreIsBytes

-----------------------------------------------------------------------------
(* What is counted up to each row.                                         *)

\* c says for each row how much was counted up to it.
Counts(c, R) ==
  /\ \A r \in R : c[r] \in Int
  /\ \A p, q \in R : <<p, q>> \in Steps(R) => Growth(<<p, q>>) = c[q] - c[p]

\* The score up to a row is the difference to the first one.
LEMMA Telescopes ==
  ASSUME NEW R, Series(R), NEW c, Counts(c, R)
  PROVE  \A r \in R : Score(UpTo(R, r)) = c[r] - c[First(R)]
<1> DEFINE T == {r \in R : Score(UpTo(R, r)) = c[r] - c[First(R)]}
<1>1. ASSUME R # {}
      PROVE  First(R) \in T
  <2>1. First(R) \in R /\ c[First(R)] \in Int
    BY <1>1, Earliest DEF Counts
  <2> QED
    BY <1>1, <2>1, ScoreAtFirst
<1>2. ASSUME NEW p \in R, NEW r \in R, <<p, r>> \in Steps(R), p \in T
      PROVE  r \in T
  <2>1. Score(UpTo(R, r)) = Score(UpTo(R, p)) + Growth(<<p, r>>) /\ Score(UpTo(R, p)) \in Nat
    BY <1>2, ScoreAlongStep
  <2>2. Growth(<<p, r>>) = c[r] - c[p] /\ Score(UpTo(R, p)) = c[p] - c[First(R)]
    BY <1>2 DEF Counts
  <2>3. c[r] \in Int /\ c[p] \in Int /\ c[First(R)] \in Int
    BY Earliest DEF Counts
  <2> QED
    BY <2>1, <2>2, <2>3
<1>3. R \subseteq T
  <2> HIDE DEF T
  <2> QED
    BY <1>1, <1>2, RowsByInduction
<1> QED
  BY <1>3

\* The score is the difference of the ends.
LEMMA ScoreOfSeries ==
  ASSUME NEW R, Series(R), NEW c, Counts(c, R), R # {}
  PROVE  Score(R) = c[Last(R)] - c[First(R)]
<1>1. Last(R) \in R /\ \A q \in R : q.ts <= Last(R).ts
  BY Latest
<1>2. UpTo(R, Last(R)) = R
  BY <1>1 DEF UpTo
<1> QED
  BY <1>1, <1>2, Telescopes

\* Every series has such counts: the score up to each row.
LEMMA CountsExist ==
  ASSUME NEW R, Series(R)
  PROVE  \E c : Counts(c, R)
<1> DEFINE c == [r \in R |-> Score(UpTo(R, r))]
<1>1. \A r \in R : Score(UpTo(R, r)) \in Nat
  <2> TAKE r \in R
  <2>1. Series(UpTo(R, r))
    BY PartIsSeries DEF UpTo
  <2> QED
    BY <2>1, ScoreTyped
<1>2. \A p, q \in R : <<p, q>> \in Steps(R) => Growth(<<p, q>>) = c[q] - c[p]
  <2> TAKE p, q \in R
  <2> HAVE <<p, q>> \in Steps(R)
  <2>1. Score(UpTo(R, q)) = Score(UpTo(R, p)) + Growth(<<p, q>>)
    BY ScoreAlongStep
  <2>2. Growth(<<p, q>>) \in Nat
    BY Growths
  <2>3. c[q] = Score(UpTo(R, q)) /\ c[p] = Score(UpTo(R, p))
    OBVIOUS
  <2> QED
    BY <1>1, <2>1, <2>2, <2>3
<1>3. Counts(c, R)
  BY <1>1, <1>2 DEF Counts
<1> QED
  BY <1>3

\* The steps between two rows of a series are steps of the series.
LEMMA StepsBetween ==
  ASSUME NEW R, Series(R), NEW p \in R, NEW q \in R, p.ts <= q.ts
  PROVE  /\ Series(Between(R, p, q)) /\ Between(R, p, q) \subseteq R
         /\ First(Between(R, p, q)) = p /\ Last(Between(R, p, q)) = q
         /\ p \in Between(R, p, q) /\ q \in Between(R, p, q)
         /\ Steps(Between(R, p, q)) \subseteq Steps(R)
<1> DEFINE B == Between(R, p, q)
<1>1. \A r \in R : r.ts \in Nat
  BY Numbers
<1>2. \A r : r \in B <=> r \in R /\ p.ts <= r.ts /\ r.ts <= q.ts
  BY DEF Between
<1>3. Series(B)
  BY PartIsSeries DEF Between
<1>4. p \in B /\ q \in B /\ B \subseteq R
  BY <1>1, <1>2
<1> HIDE DEF B
<1>5. First(B) = p /\ Last(B) = q
  BY <1>2, <1>3, <1>4, Ends
<1>6. ASSUME NEW s \in Steps(B)
      PROVE  s \in Steps(R)
  <2>1. s[1] \in B /\ s[2] \in B /\ s = <<s[1], s[2]>> /\ s[1].ts < s[2].ts
    BY StepRows
  <2>2. \A r \in B : ~(s[1].ts < r.ts /\ r.ts < s[2].ts)
    BY StepRows
  <2>3. \A r \in R : s[1].ts < r.ts /\ r.ts < s[2].ts => r \in B
    <3>1. p.ts <= s[1].ts /\ s[2].ts <= q.ts
      BY <2>1, <1>2
    <3>2. s[1].ts \in Nat /\ s[2].ts \in Nat
      BY <2>1, <1>1, <1>4
    <3>3. ASSUME NEW r \in R, s[1].ts < r.ts, r.ts < s[2].ts
          PROVE  p.ts <= r.ts /\ r.ts <= q.ts
      BY <3>1, <3>2, <3>3, <1>1
    <3> QED
      BY <3>3, <1>2
  <2> QED
    BY <2>1, <2>2, <2>3, <1>4 DEF Steps
<1> QED
  BY <1>3, <1>4, <1>5, <1>6 DEF B

\* Counts of a series are counts of what has its steps.
LEMMA CountsOfPart ==
  ASSUME NEW R, NEW c, Counts(c, R), NEW P \in SUBSET R, Steps(P) \subseteq Steps(R)
  PROVE  Counts(c, P)
BY DEF Counts

\* The score between two rows is the difference of their counts.
LEMMA ScoreBetween ==
  ASSUME NEW R, Series(R), NEW c, Counts(c, R), NEW p \in R, NEW q \in R, p.ts <= q.ts
  PROVE  Score(Between(R, p, q)) = c[q] - c[p]
<1>1. Counts(c, Between(R, p, q))
  BY StepsBetween, CountsOfPart
<1>2. Between(R, p, q) # {}
  BY StepsBetween
<1> QED
  BY <1>1, <1>2, StepsBetween, ScoreOfSeries

\* The sums of K are those of F, of which it keeps some rows.
Exact(K, F) == \A s \in Steps(K) : Growth(s) = Score(Between(F, s[1], s[2]))

\* The sums are kept when the same counts explain both series, and only then.
LEMMA ExactIsShared ==
  ASSUME NEW F, Series(F), NEW K \in SUBSET F
  PROVE  Exact(K, F) <=> \E c : Counts(c, F) /\ Counts(c, K)
<1>1. \A s \in Steps(K) : s[1] \in F /\ s[2] \in F /\ s[1] \in K /\ s[2] \in K /\ s = <<s[1], s[2]>> /\ s[1].ts <= s[2].ts
  <2> TAKE s \in Steps(K)
  <2>1. s[1] \in K /\ s[2] \in K /\ s = <<s[1], s[2]>> /\ s[1].ts < s[2].ts
    BY StepRows
  <2>2. s[1].ts \in Nat /\ s[2].ts \in Nat
    BY <2>1, Numbers
  <2> QED
    BY <2>1, <2>2
<1>2. ASSUME NEW c, Counts(c, F), NEW s \in Steps(K)
      PROVE  Score(Between(F, s[1], s[2])) = c[s[2]] - c[s[1]]
  BY <1>1, <1>2, ScoreBetween
<1>3. ASSUME NEW c, Counts(c, F), Counts(c, K)
      PROVE  Exact(K, F)
  <2>1. \A s \in Steps(K) : Growth(s) = c[s[2]] - c[s[1]]
    BY <1>1, <1>3 DEF Counts
  <2> QED
    BY <1>2, <1>3, <2>1 DEF Exact
<1>4. ASSUME Exact(K, F)
      PROVE  \E c : Counts(c, F) /\ Counts(c, K)
  <2>1. PICK c : Counts(c, F)
    BY CountsExist
  <2>2. \A p, q \in K : <<p, q>> \in Steps(K) => Growth(<<p, q>>) = c[q] - c[p]
    <3> TAKE p, q \in K
    <3> HAVE <<p, q>> \in Steps(K)
    <3> DEFINE s == <<p, q>>
    <3>1. s[1] = p /\ s[2] = q
      OBVIOUS
    <3> HIDE DEF s
    <3>2. s \in Steps(K)
      BY DEF s
    <3>3. Growth(s) = c[s[2]] - c[s[1]]
      BY <1>2, <1>4, <2>1, <3>2 DEF Exact
    <3> QED
      BY <3>1, <3>3 DEF s
  <2>3. Counts(c, K)
    BY <2>1, <2>2 DEF Counts
  <2> QED
    BY <2>1, <2>3
<1> QED
  BY <1>3, <1>4

-----------------------------------------------------------------------------
(* A row is recorded, rows leave the window, old rows are thinned.         *)

\* n comes after all rows.
Follows(R, n) == \A r \in R : r.ts < n.ts

\* A new row adds the step that leads to it.
LEMMA StepsOfAppended ==
  ASSUME NEW R, NEW n, Series(R \cup {n}), Follows(R, n)
  PROVE  /\ Steps(R) \subseteq Steps(R \cup {n})
         /\ \A s \in Steps(R \cup {n}) : s \in Steps(R) \/ (R # {} /\ s = <<Last(R), n>>)
<1> DEFINE A == R \cup {n}
<1>1. Series(R)
  BY PartIsSeries
<1>2. \A r \in A : r.ts \in Nat
  BY Numbers
<1>3. \A r \in R : r.ts < n.ts
  BY DEF Follows
<1>4. ASSUME NEW s \in Steps(R)
      PROVE  s \in Steps(A)
  <2>1. s[1] \in R /\ s[2] \in R /\ s = <<s[1], s[2]>> /\ s[1].ts < s[2].ts
    BY StepRows
  <2>2. \A r \in R : ~(s[1].ts < r.ts /\ r.ts < s[2].ts)
    BY StepRows
  <2>3. ~(n.ts < s[2].ts)
    BY <2>1, <1>2, <1>3
  <2>4. ~\E r \in A : s[1].ts < r.ts /\ r.ts < s[2].ts
    BY <2>2, <2>3
  <2> QED
    BY <2>1, <2>4 DEF Steps
<1>5. ASSUME NEW s \in Steps(A), s \notin Steps(R)
      PROVE  R # {} /\ s = <<Last(R), n>>
  <2>1. s[1] \in A /\ s[2] \in A /\ s = <<s[1], s[2]>> /\ s[1].ts < s[2].ts
    BY StepRows
  <2>2. \A r \in A : ~(s[1].ts < r.ts /\ r.ts < s[2].ts)
    BY StepRows
  <2>3. s[2] = n
    <3>1. CASE s[2] \in R
      <4>1. s[1] # n
        BY <2>1, <3>1, <1>2, <1>3
      <4>2. s[1] \in R
        BY <2>1, <4>1
      <4> QED
        BY <2>1, <2>2, <3>1, <4>2, <1>5 DEF Steps
    <3> QED
      BY <3>1, <2>1
  <2>4. s[1] \in R
    BY <2>1, <2>3, <1>2
  <2>5. \A r \in R : r.ts <= s[1].ts
    BY <2>2, <2>3, <2>4, <1>2, <1>3
  <2>6. Last(R) = s[1]
    BY <2>4, <2>5, <1>1, Ends
  <2> QED
    BY <2>1, <2>3, <2>4, <2>6
<1> QED
  BY <1>4, <1>5

\* The steps of the late rows and of the early ones are steps of the series.
LEMMA StepsOfParts ==
  ASSUME NEW R, Series(R), NEW t \in Int
  PROVE  /\ Steps(Since(R, t)) \subseteq Steps(R)
         /\ Steps(R \ Since(R, t)) \subseteq Steps(R)
<1> DEFINE S == Since(R, t)
           O == R \ S
<1>1. \A r \in R : r.ts \in Nat /\ (r \in S <=> t <= r.ts) /\ (r \in O <=> r.ts < t)
  BY Numbers DEF Since
<1>2. S \subseteq R /\ O \subseteq R
  BY DEF Since
<1> HIDE DEF S, O
<1>3. ASSUME NEW P, P = S \/ P = O, NEW s \in Steps(P)
      PROVE  s \in Steps(R)
  <2>1. s[1] \in P /\ s[2] \in P /\ s = <<s[1], s[2]>> /\ s[1].ts < s[2].ts
    BY StepRows
  <2>2. \A r \in P : ~(s[1].ts < r.ts /\ r.ts < s[2].ts)
    BY StepRows
  <2>3. s[1] \in R /\ s[2] \in R
    BY <1>2, <1>3, <2>1
  <2>4. ASSUME NEW r \in R, s[1].ts < r.ts, r.ts < s[2].ts
        PROVE  r \in P
    <3>1. r.ts \in Nat /\ s[1].ts \in Nat /\ s[2].ts \in Nat
      BY <2>3, <1>1
    <3>2. P = S => t <= r.ts
      BY <2>1, <2>3, <2>4, <3>1, <1>1
    <3>3. P = O => r.ts < t
      BY <2>1, <2>3, <2>4, <3>1, <1>1
    <3> QED
      BY <3>2, <3>3, <1>1, <1>3
  <2> QED
    BY <2>1, <2>2, <2>3, <2>4 DEF Steps
<1> QED
  BY <1>3 DEF S, O

\* Thinning keeps the ends, and both rows of a reset.
LEMMA Kept ==
  ASSUME NEW R, Series(R)
  PROVE  /\ RowsToKeep(R) \subseteq R
         /\ R # {} => First(R) \in RowsToKeep(R) /\ Last(R) \in RowsToKeep(R)
         /\ \A p, q \in R : <<p, q>> \in Steps(R) /\ q.up < p.up => p \in RowsToKeep(R) /\ q \in RowsToKeep(R)
<1>1. R # {} => First(R) \in R /\ Last(R) \in R
  BY Earliest, Latest
<1>2. ASSUME NEW p \in R, NEW q \in R, <<p, q>> \in Steps(R), q.up < p.up
      PROVE  p \in RowsToKeep(R) /\ q \in RowsToKeep(R)
  <2> DEFINE s == <<p, q>>
  <2>1. s \in Steps(R) /\ p \in {s[1], s[2]} /\ q \in {s[1], s[2]} /\ IsReset(s)
    BY <1>2 DEF IsReset
  <2> HIDE DEF s
  <2> QED
    BY <2>1 DEF RowsToKeep
<1> QED
  BY <1>1, <1>2 DEF RowsToKeep

\* Between neighbours that are kept nothing was reset: what is counted is the
\* difference of the counter.
LEMMA ThinnedCounts ==
  ASSUME NEW R, Series(R), NEW c, Counts(c, R)
  PROVE  Counts(c, RowsToKeep(R))
<1> DEFINE K == RowsToKeep(R)
<1>1. K \subseteq R
  BY Kept
<1>2. ASSUME NEW p \in K, NEW q \in K, <<p, q>> \in Steps(K), <<p, q>> \notin Steps(R)
      PROVE  Growth(<<p, q>>) = c[q] - c[p]
  <2> DEFINE B == Between(R, p, q)
             T == {r \in B : c[r] - c[p] = r.up - p.up /\ p.up <= r.up}
  <2>1. p \in R /\ q \in R /\ p.ts < q.ts
    BY <1>1, <1>2 DEF Steps
  <2>2. \A r \in R : r.ts \in Nat /\ r.up \in Nat /\ c[r] \in Int
    BY Numbers DEF Counts
  <2>3. /\ Series(B) /\ B \subseteq R /\ First(B) = p /\ p \in B /\ q \in B
        /\ Steps(B) \subseteq Steps(R)
    BY <2>1, <2>2, StepsBetween
  <2>4. \A r \in B : p.ts <= r.ts /\ r.ts <= q.ts
    BY DEF Between
  <2>5. \A r \in K : ~(p.ts < r.ts /\ r.ts < q.ts)
    BY <1>2 DEF Steps
  <2> HIDE DEF B, K
  <2>6. ASSUME NEW x \in B, NEW y \in B, <<x, y>> \in Steps(B), x \in T
        PROVE  y \in T
    <3>1. x \in R /\ y \in R /\ <<x, y>> \in Steps(R) /\ x.ts < y.ts
      BY <2>3, <2>6 DEF Steps
    <3>2. ~(y.up < x.up)
      <4> SUFFICES ASSUME y.up < x.up
                   PROVE  FALSE
        OBVIOUS
      <4>1. x \in K /\ y \in K
        BY <3>1, Kept DEF K
      <4>2. x.ts = p.ts /\ y.ts = q.ts
        BY <2>1, <2>2, <2>4, <2>5, <3>1, <4>1
      <4>3. x = p /\ y = q
        BY <4>2, <2>1, <3>1 DEF Series
      <4> QED
        BY <3>1, <4>3, <1>2
    <3>3. Growth(<<x, y>>) = y.up - x.up
      BY <3>1, <3>2, Growths
    <3>4. Growth(<<x, y>>) = c[y] - c[x]
      BY <3>1 DEF Counts
    <3>5. c[x] - c[p] = x.up - p.up /\ p.up <= x.up
      BY <2>6
    <3>6. c[y] - c[p] = y.up - p.up /\ p.up <= y.up
      BY <2>1, <2>2, <3>1, <3>2, <3>3, <3>4, <3>5
    <3> QED
      BY <3>6
  <2>7. p \in T
    BY <2>1, <2>2, <2>3
  <2>8. B \subseteq T
    <3> HIDE DEF T
    <3> QED
      BY <2>3, <2>6, <2>7, RowsByInduction
  <2>9. c[q] - c[p] = q.up - p.up /\ p.up <= q.up
    BY <2>3, <2>8
  <2> QED
    BY <2>1, <2>2, <2>9, Growths
<1>3. \A p, q \in K : <<p, q>> \in Steps(K) => Growth(<<p, q>>) = c[q] - c[p]
  BY <1>1, <1>2 DEF Counts
<1> QED
  BY <1>1, <1>3 DEF Counts

\* Of the late rows all are kept, of the early ones some.
LEMMA CompactRows ==
  ASSUME NEW R, Series(R), NEW t \in Int
  PROVE  /\ Compact(R, t) \subseteq R
         /\ \A r \in R : r.ts \in Nat
         /\ \A r \in R : t <= r.ts => r \in Compact(R, t)
         /\ \A r \in R : r.ts < t => (r \in Compact(R, t) <=> r \in RowsToKeep(R \ Since(R, t)))
         /\ Series(R \ Since(R, t))
         /\ \A r : r \in R \ Since(R, t) <=> r \in R /\ r.ts < t
<1>1. \A r \in R : r.ts \in Nat
  BY Numbers
<1>2. \A r : r \in R \ Since(R, t) <=> r \in R /\ r.ts < t
  BY <1>1 DEF Since
<1>3. Series(R \ Since(R, t))
  BY PartIsSeries
<1>4. RowsToKeep(R \ Since(R, t)) \subseteq R \ Since(R, t)
  BY <1>3, Kept
<1>5. \A r : r \in Since(R, t) <=> r \in R /\ t <= r.ts
  BY <1>1 DEF Since
<1> QED
  BY <1>1, <1>2, <1>3, <1>4, <1>5 DEF Compact

\* The last row is kept.
LEMMA LastIsKept ==
  ASSUME NEW R, Series(R), NEW t \in Int, R # {}
  PROVE  Last(R) \in Compact(R, t)
<1> DEFINE O == R \ Since(R, t)
<1>1. Last(R) \in R /\ \A q \in R : q.ts <= Last(R).ts
  BY Latest
<1>2. CASE Last(R).ts < t
  <2>1. Last(R) \in O /\ Series(O) /\ O \subseteq R
    BY <1>1, <1>2, CompactRows
  <2>2. Last(O) = Last(R)
    <3> HIDE DEF O
    <3> QED
      BY <1>1, <2>1, Ends
  <2>3. Last(O) \in RowsToKeep(O)
    <3> HIDE DEF O
    <3> QED
      BY <2>1, Kept
  <2> QED
    BY <1>1, <1>2, <2>2, <2>3, CompactRows
<1>3. CASE ~(Last(R).ts < t)
  <2>1. Last(R).ts \in Nat
    BY <1>1, Numbers
  <2>2. t <= Last(R).ts
    BY <1>3, <2>1
  <2> QED
    BY <1>1, <2>2, CompactRows
<1> QED
  BY <1>2, <1>3

\* The counts of a series are the counts of what thinning leaves of it.
LEMMA CompactCounts ==
  ASSUME NEW R, Series(R), NEW t \in Int, NEW c, Counts(c, R)
  PROVE  Counts(c, Compact(R, t))
<1> DEFINE K == Compact(R, t)
           O == R \ Since(R, t)
           M == RowsToKeep(O)
<1>1. K \subseteq R /\ \A r \in R : r.ts \in Nat
  BY CompactRows
<1>2. \A r \in R : /\ t <= r.ts => r \in K
                   /\ r.ts < t => (r \in K <=> r \in M) /\ r \in O
  BY CompactRows
<1>3. Series(O) /\ \A r : r \in O <=> r \in R /\ r.ts < t
  BY CompactRows
<1>4. Counts(c, M)
  BY <1>3, StepsOfParts, CountsOfPart, ThinnedCounts
<1>5. M \subseteq O /\ (O # {} => Last(O) \in M)
  BY <1>3, Kept
<1> HIDE DEF K, M
<1>6. ASSUME NEW p \in K, NEW q \in K, <<p, q>> \in Steps(K)
      PROVE  Growth(<<p, q>>) = c[q] - c[p]
  <2>1. p \in R /\ q \in R /\ p.ts < q.ts
    BY <1>1, <1>6 DEF Steps
  <2>2. \A r \in K : ~(p.ts < r.ts /\ r.ts < q.ts)
    BY <1>6 DEF Steps
  <2>3. p.ts \in Nat /\ q.ts \in Nat
    BY <2>1, <1>1
  <2>4. ASSUME <<p, q>> \in Steps(R)
        PROVE  Growth(<<p, q>>) = c[q] - c[p]
    BY <2>1, <2>4 DEF Counts
  <2>5. CASE t <= p.ts
    <3>1. \A r \in R : p.ts < r.ts => r \in K
      BY <2>3, <2>5, <1>1, <1>2
    <3>2. <<p, q>> \in Steps(R)
      BY <2>1, <2>2, <3>1 DEF Steps
    <3> QED
      BY <3>2, <2>4
  <2>6. CASE p.ts < t /\ t <= q.ts
    <3> HIDE DEF O
    <3>1. p \in O
      BY <2>1, <2>6, <1>3
    <3>2. Last(O) \in O /\ \A r \in O : r.ts <= Last(O).ts
      BY <3>1, <1>3, Latest
    <3>3. Last(O) \in R /\ Last(O).ts < t /\ Last(O) \in K
      BY <3>1, <3>2, <1>2, <1>3, <1>5
    <3>4. p.ts = Last(O).ts
      BY <2>2, <2>3, <2>6, <3>1, <3>2, <3>3, <1>1
    <3>5. \A r \in R : ~(p.ts < r.ts /\ r.ts < q.ts)
      <4> SUFFICES ASSUME NEW r \in R, p.ts < r.ts, r.ts < q.ts
                   PROVE  FALSE
        OBVIOUS
      <4>1. r.ts \in Nat
        BY <1>1
      <4>2. CASE r.ts < t
        BY <2>3, <3>2, <3>4, <4>1, <4>2, <1>3
      <4>3. CASE t <= r.ts
        BY <2>2, <4>3, <1>2
      <4> QED
        BY <4>1, <4>2, <4>3
    <3>6. <<p, q>> \in Steps(R)
      BY <2>1, <3>5 DEF Steps
    <3> QED
      BY <3>6, <2>4
  <2>7. CASE q.ts < t
    <3>1. p.ts < t
      BY <2>1, <2>3, <2>7
    <3>2. p \in M /\ q \in M
      BY <2>1, <2>7, <3>1, <1>2
    <3>3. \A r \in M : r \in R /\ r.ts < t
      BY <1>3, <1>5
    <3>4. \A r \in M : r \in K
      BY <3>3, <1>2
    <3>5. <<p, q>> \in Steps(M)
      BY <2>1, <2>2, <3>2, <3>4 DEF Steps
    <3> QED
      BY <3>2, <3>5, <1>4 DEF Counts
  <2> QED
    BY <2>3, <2>5, <2>6, <2>7
<1>7. \A r \in K : c[r] \in Int
  BY <1>1 DEF Counts
<1> QED
  BY <1>6, <1>7 DEF Counts, K

-----------------------------------------------------------------------------
(* Buckets.                                                                *)

\* A row kept follows each row of F in its bucket.
Dns(K, F) == \A r \in F : \E k \in K : r.ts <= k.ts /\ r.ts \div Bucket = k.ts \div Bucket

\* Buckets follow each other as times do.
LEMMA BucketsInOrder ==
  ASSUME NEW a \in Nat, NEW b \in Nat, a <= b
  PROVE  /\ a \div Bucket \in Nat /\ b \div Bucket \in Nat
         /\ a \div Bucket <= b \div Bucket
BY HistoryAssumption

\* Thinning keeps the last row of each bucket.
LEMMA CompactDense ==
  ASSUME NEW R, Series(R), NEW t \in Int
  PROVE  Dns(Compact(R, t), R)
<1> SUFFICES ASSUME NEW r \in R
             PROVE  \E k \in Compact(R, t) : r.ts <= k.ts /\ r.ts \div Bucket = k.ts \div Bucket
  BY DEF Dns
<1>1. \A q \in R : q.ts \in Nat
  BY Numbers
<1>2. CASE t <= r.ts
  <2>1. r.ts <= r.ts
    BY <1>1
  <2>2. r \in Compact(R, t)
    BY <1>2, CompactRows
  <2> QED
    BY <2>1, <2>2
<1>3. CASE r.ts < t
  <2> DEFINE O == R \ Since(R, t)
             E == {q \in O : q.ts \div Bucket = r.ts \div Bucket}
             k == Last(E)
  <2>1. r \in O /\ Series(O) /\ O \subseteq R /\ \A q \in O : q.ts < t
    BY <1>3, CompactRows
  <2> HIDE DEF O
  <2>2. Series(E) /\ r \in E
    BY <2>1, PartIsSeries
  <2>3. k \in E /\ \A q \in E : q.ts <= k.ts
    <3> HIDE DEF E
    <3> QED
      BY <2>2, Latest
  <2> HIDE DEF k
  <2>4. k \in RowsToKeep(O)
    <3>1. CASE k = Last(O)
      BY <3>1, <2>3 DEF RowsToKeep
    <3>2. CASE k # Last(O)
      <4>1. PICK q \in O : <<k, q>> \in Steps(O)
        BY <2>1, <2>3, <3>2, StepFrom
      <4>2. k.ts < q.ts /\ k.ts \in Nat /\ q.ts \in Nat
        BY <4>1, <2>1, <2>3, <1>1 DEF Steps
      <4>3. q \notin E
        BY <2>3, <4>2
      <4>4. k.ts \div Bucket # q.ts \div Bucket
        BY <2>3, <4>3
      <4> DEFINE s == <<k, q>>
      <4>5. s \in Steps(O) /\ s[1] = k /\ k.ts \div Bucket # s[2].ts \div Bucket
        BY <4>1, <4>4
      <4> HIDE DEF s, E
      <4>6. k \in O
        BY <2>3 DEF E
      <4> QED
        BY <4>5, <4>6 DEF RowsToKeep
    <3> QED
      BY <3>1, <3>2
  <2>5. k \in R /\ k.ts < t /\ k \in Compact(R, t)
    <3>1. k \in R /\ k.ts < t
      BY <2>1, <2>3
    <3> QED
      BY <2>4, <3>1, CompactRows DEF O
  <2> QED
    BY <2>2, <2>3, <2>5
<1> QED
  BY <1>1, <1>2, <1>3

\* A row before t that was kept is the first of all, or the last of its bucket,
\* or next to a reset.
Spare(K, t) ==
  \A r \in K \ Since(K, t) :
    \/ r = First(K)
    \/ \A q \in K \ Since(K, t) : r.ts < q.ts => r.ts \div Bucket # q.ts \div Bucket
    \/ \E s \in Steps(K) : r \in {s[1], s[2]} /\ IsReset(s)

\* Thinning leaves only such rows.
LEMMA CompactSpare ==
  ASSUME NEW R, Series(R), NEW t \in Int
  PROVE  Spare(Compact(R, t), t)
<1> DEFINE K == Compact(R, t)
           O == R \ Since(R, t)
           M == RowsToKeep(O)
<1>1. K \subseteq R /\ \A r \in R : r.ts \in Nat
  BY CompactRows
<1>2. \A r \in R : /\ t <= r.ts => r \in K
                   /\ r.ts < t => (r \in K <=> r \in M)
  BY CompactRows
<1>3. Series(O) /\ \A r : r \in O <=> r \in R /\ r.ts < t
  BY CompactRows
<1>4. M \subseteq O /\ (O # {} => First(O) \in M)
  BY <1>3, Kept
<1>5. Series(K)
  BY <1>1, PartIsSeries
<1>6. Steps(O) \subseteq Steps(R)
  BY StepsOfParts
<1>7. \A r : r \in K \ Since(K, t) <=> r \in M
  <2>1. \A r : r \in K \ Since(K, t) <=> r \in K /\ r.ts < t
    BY <1>1 DEF Since
  <2> HIDE DEF K, M, O
  <2> QED
    BY <2>1, <1>1, <1>2, <1>3, <1>4
<1> SUFFICES ASSUME NEW r \in M
             PROVE  \/ r = First(K)
                    \/ \A q \in M : r.ts < q.ts => r.ts \div Bucket # q.ts \div Bucket
                    \/ \E s \in Steps(K) : r \in {s[1], s[2]} /\ IsReset(s)
  <2> HIDE DEF K, M
  <2>1. \A r \in K \ Since(K, t) : r \in M
    BY <1>7
  <2>2. \A q \in K \ Since(K, t) : q \in M
    BY <1>7
  <2>3. Spare(K, t)
    BY <2>1 DEF Spare
  <2> QED
    BY <2>3 DEF K
<1>8. r \in O /\ r \in R /\ r \in K /\ r.ts < t /\ r.ts \in Nat
  <2> HIDE DEF K, M, O
  <2> QED
    BY <1>1, <1>2, <1>3, <1>4
<1>9. CASE r = First(O)
  <2> HIDE DEF K, M
  <2>1. \A q \in O : r.ts <= q.ts
    <3> HIDE DEF O
    <3> QED
      BY <1>3, <1>8, <1>9, Earliest
  <2>2. \A q \in K : r.ts <= q.ts
    BY <2>1, <1>1, <1>3, <1>8
  <2>3. r = First(K)
    BY <2>2, <1>5, <1>8, Ends
  <2> QED
    BY <2>3
<1>10. CASE r = Last(O)
  <2>1. \A q \in O : q.ts <= r.ts
    <3> HIDE DEF O
    <3> QED
      BY <1>3, <1>8, <1>10, Latest
  <2>2. \A q \in M : q.ts <= r.ts /\ q.ts \in Nat
    <3> HIDE DEF O, M
    <3> QED
      BY <2>1, <1>1, <1>3, <1>4
  <2>3. \A q \in M : ~(r.ts < q.ts)
    <3> HIDE DEF O, M
    <3> QED
      BY <2>2, <1>8
  <2> QED
    BY <2>3
<1>11. ASSUME NEW s \in Steps(O), r \in {s[1], s[2]}, IsReset(s)
       PROVE  \E z \in Steps(K) : r \in {z[1], z[2]} /\ IsReset(z)
  <2> HIDE DEF O, M, K
  <2>1. s[1] \in O /\ s[2] \in O /\ s = <<s[1], s[2]>> /\ s[1].ts < s[2].ts
    BY StepRows
  <2>2. s[1] \in M /\ s[2] \in M
    <3>1. s[2].up < s[1].up
      BY <1>11 DEF IsReset
    <3> QED
      BY <2>1, <3>1, <1>3, <1>11, Kept DEF M
  <2>3. s[1] \in K /\ s[2] \in K
    BY <2>1, <2>2, <1>2, <1>3
  <2>4. \A q \in R : ~(s[1].ts < q.ts /\ q.ts < s[2].ts)
    BY <1>6, StepRows
  <2>5. s \in Steps(K)
    BY <2>1, <2>3, <2>4, <1>1 DEF Steps
  <2> QED
    BY <2>5, <1>11
<1>12. ASSUME NEW s \in Steps(O), s[1] = r, r.ts \div Bucket # s[2].ts \div Bucket
       PROVE  \A q \in M : r.ts < q.ts => r.ts \div Bucket # q.ts \div Bucket
  <2> HIDE DEF O, M, K
  <2> SUFFICES ASSUME NEW q \in M, r.ts < q.ts
               PROVE  r.ts \div Bucket # q.ts \div Bucket
    OBVIOUS
  <2>1. q \in O /\ q.ts \in Nat
    BY <1>1, <1>3, <1>4
  <2>2. s[2] \in O /\ s[2].ts \in Nat /\ r.ts < s[2].ts
    BY <1>1, <1>3, <1>12, StepRows
  <2>3. ~(q.ts < s[2].ts)
    BY <2>1, <1>12, StepRows
  <2>4. s[2].ts <= q.ts /\ r.ts <= s[2].ts
    BY <2>1, <2>2, <2>3, <1>8
  <2> DEFINE a == r.ts \div Bucket
             b == s[2].ts \div Bucket
             d == q.ts \div Bucket
  <2>5. a \in Nat /\ b \in Nat /\ d \in Nat /\ a <= b /\ b <= d
    BY <2>1, <2>2, <2>4, <1>8, BucketsInOrder
  <2>6. a # b
    BY <1>12
  <2> HIDE DEF a, b, d
  <2>7. a # d
    BY <2>5, <2>6
  <2> QED
    BY <2>7 DEF a, d
<1>13. r \in {First(O), Last(O)} \/ (\E s \in Steps(O) : r \in {s[1], s[2]} /\ IsReset(s))
         \/ (\E s \in Steps(O) : s[1] = r /\ r.ts \div Bucket # s[2].ts \div Bucket)
  BY DEF RowsToKeep
<1> HIDE DEF O, M, K
<1> QED
  BY <1>9, <1>10, <1>11, <1>12, <1>13

\* Pruning leaves only such rows: who loses the row before is the first now.
LEMMA PruneSpare ==
  ASSUME NEW K, Series(K), NEW t \in Int, Spare(K, t), NEW u \in Int
  PROVE  Spare(Since(K, u), t)
<1> DEFINE P == Since(K, u)
<1>1. \A r \in K : r.ts \in Nat
  BY Numbers
<1>2. \A r : r \in P <=> r \in K /\ u <= r.ts
  BY <1>1 DEF Since
<1>3. Series(P)
  BY PartIsSeries DEF Since
<1>4. \A r : /\ r \in K \ Since(K, t) <=> r \in K /\ r.ts < t
             /\ r \in P \ Since(P, t) <=> r \in P /\ r.ts < t
  BY <1>1 DEF Since
<1> HIDE DEF P
<1> SUFFICES ASSUME NEW r \in P \ Since(P, t)
             PROVE  \/ r = First(P)
                    \/ \A q \in P \ Since(P, t) : r.ts < q.ts => r.ts \div Bucket # q.ts \div Bucket
                    \/ \E s \in Steps(P) : r \in {s[1], s[2]} /\ IsReset(s)
  BY DEF Spare, P
<1>5. r \in K \ Since(K, t) /\ r \in K /\ r \in P
  BY <1>2, <1>4
<1>6. CASE r = First(K)
  <2>1. \A q \in P : r.ts <= q.ts
    BY <1>2, <1>5, <1>6, Earliest
  <2> QED
    BY <2>1, <1>3, <1>5, Ends
<1>7. CASE \A q \in K \ Since(K, t) : r.ts < q.ts => r.ts \div Bucket # q.ts \div Bucket
  <2>1. \A q \in P \ Since(P, t) : q \in K \ Since(K, t)
    BY <1>2, <1>4
  <2> QED
    BY <2>1, <1>7
<1>8. ASSUME NEW s \in Steps(K), r \in {s[1], s[2]}, IsReset(s)
      PROVE  r = First(P) \/ \E z \in Steps(P) : r \in {z[1], z[2]} /\ IsReset(z)
  <2>1. s[1] \in K /\ s[2] \in K /\ s = <<s[1], s[2]>> /\ s[1].ts < s[2].ts
    BY StepRows
  <2>2. \A q \in K : ~(s[1].ts < q.ts /\ q.ts < s[2].ts)
    BY StepRows
  <2>3. s[1].ts \in Nat /\ s[2].ts \in Nat
    BY <2>1, <1>1
  <2>4. CASE u <= s[1].ts
    <3>1. s[1] \in P /\ s[2] \in P
      BY <2>1, <2>3, <2>4, <1>2
    <3>2. s \in Steps(P)
      BY <2>1, <2>2, <3>1, <1>2 DEF Steps
    <3> QED
      BY <3>2, <1>8
  <2>5. CASE s[1].ts < u
    <3>1. r = s[2]
      BY <2>3, <2>5, <1>2, <1>5, <1>8
    <3>2. \A q \in P : r.ts <= q.ts
      <4> TAKE q \in P
      <4>1. q \in K /\ q.ts \in Nat /\ u <= q.ts
        BY <1>1, <1>2
      <4> QED
        BY <2>2, <2>3, <2>5, <3>1, <4>1
    <3> QED
      BY <3>2, <1>3, <1>5, Ends
  <2> QED
    BY <2>3, <2>4, <2>5
<1> QED
  BY <1>5, <1>6, <1>7, <1>8 DEF Spare

\* A row that is recorded later changes nothing about the old ones.
LEMMA AppendSpare ==
  ASSUME NEW K, NEW n, Series(K \cup {n}), Follows(K, n), NEW t \in Int, t <= n.ts, Spare(K, t)
  PROVE  Spare(K \cup {n}, t)
<1> DEFINE A == K \cup {n}
<1>1. \A r \in A : r.ts \in Nat
  BY Numbers
<1>2. Series(K)
  BY PartIsSeries
<1>3. \A r : r \in A \ Since(A, t) <=> r \in K \ Since(K, t)
  <2>1. n \in A /\ n.ts \in Nat
    BY <1>1
  <2> QED
    BY <1>1, <2>1 DEF Since
<1>4. Steps(K) \subseteq Steps(A)
  BY StepsOfAppended
<1>5. K # {} => First(A) = First(K)
  <2> HAVE K # {}
  <2>1. First(K) \in K /\ \A q \in K : First(K).ts <= q.ts
    BY <1>2, Earliest
  <2>2. First(K).ts < n.ts /\ First(K).ts \in Nat /\ n.ts \in Nat
    BY <2>1, <1>1 DEF Follows
  <2>3. First(K) \in A /\ \A q \in A : First(K).ts <= q.ts
    BY <2>1, <2>2
  <2> HIDE DEF A
  <2> QED
    BY <2>3, Ends DEF A
<1> HIDE DEF A
<1>6. Spare(A, t)
  BY <1>3, <1>4, <1>5 DEF Spare
<1> QED
  BY <1>6 DEF A

-----------------------------------------------------------------------------
(* The invariant, of kept rows K, all rows F, the time m and the border t.  *)

\* The growth between two polls was uploaded between them.
CoveredSteps(F) == \A s \in Steps(F) : Growth(s) <= s[2].total - s[1].total

\* What the poll n finds was uploaded since the last row.
Reaches(F, n) == F # {} => Growth(<<Last(F), n>>) <= n.total - Last(F).total

\* All but what is said of the next poll.
Sound(K, F, m, t) ==
  /\ Series(F) /\ K \subseteq F /\ (\A r \in F : r.ts <= m)
  /\ (F # {} => Last(F) \in K) /\ t <= m
  /\ Exact(K, F) /\ CoveredSteps(F) /\ Dns(K, F) /\ Spare(K, t)

\* A poll is recorded.
LEMMA Appended ==
  ASSUME NEW K, NEW F, NEW m \in Nat, NEW t \in Int, Sound(K, F, m, t),
         NEW n \in Row, n.ts = m + 1, Reaches(F, n)
  PROVE  Sound(K \cup {n}, F \cup {n}, m + 1, t) /\ Last(F \cup {n}) = n
<1> DEFINE G == F \cup {n}
           L == K \cup {n}
<1>1. Series(F) /\ K \subseteq F /\ \A r \in F : r.ts <= m /\ r.ts \in Nat
  BY Numbers DEF Sound
<1>2. Follows(F, n) /\ Follows(K, n)
  BY <1>1 DEF Follows
<1>3. Series(G) /\ L \subseteq G /\ L \in SUBSET G
  <2>1. IsFiniteSet(G)
    BY <1>1, FS_AddElement DEF Series
  <2>2. \A p, q \in G : p.ts = q.ts => p = q
    <3>1. \A p \in F : p.ts # n.ts
      BY <1>1
    <3>2. \A p, q \in F : p.ts = q.ts => p = q
      BY <1>1 DEF Series
    <3> QED
      BY <3>1, <3>2
  <2> QED
    BY <1>1, <2>1, <2>2 DEF Series
<1>4. Series(L) /\ Series(K)
  BY <1>1, <1>3, PartIsSeries
<1>5. \A r \in G : r.ts <= m + 1 /\ r.ts <= n.ts
  BY <1>1
<1>6. n \in L /\ n \in G
  OBVIOUS
<1>7. Last(G) = n
  <2> HIDE DEF G
  <2> QED
    BY <1>3, <1>5, <1>6, Ends
<1>8. Exact(L, G)
  <2>1. PICK c : Counts(c, F) /\ Counts(c, K)
    BY <1>1, ExactIsShared DEF Sound
  <2> DEFINE d == [r \in G |-> IF r \in F THEN c[r] ELSE
                                IF F = {} THEN 0 ELSE c[Last(F)] + Growth(<<Last(F), n>>)]
  <2>2. \A r \in F : d[r] = c[r] /\ c[r] \in Int /\ r # n
    BY <2>1, <1>1 DEF Counts
  <2>3. F # {} => Last(F) \in F /\ d[n] = c[Last(F)] + Growth(<<Last(F), n>>) /\ Growth(<<Last(F), n>>) \in Nat
    <3> HAVE F # {}
    <3>1. Last(F) \in F
      BY <1>1, Latest
    <3>2. Growth(<<Last(F), n>>) \in Nat
      BY <3>1, <1>3, Growths
    <3>3. n \notin F
      BY <2>2
    <3> QED
      BY <3>1, <3>2, <3>3
  <2>4. d[n] \in Int
    BY <2>2, <2>3
  <2> HIDE DEF d
  <2>5. ASSUME NEW P \in SUBSET F, Counts(c, P), Series(P \cup {n}), P # {} => Last(P) = Last(F)
        PROVE  Counts(d, P \cup {n})
    <3>1. ASSUME NEW p \in P \cup {n}, NEW q \in P \cup {n}, <<p, q>> \in Steps(P \cup {n})
          PROVE  Growth(<<p, q>>) = d[q] - d[p]
      <4>1. Follows(P, n)
        BY <1>2 DEF Follows
      <4>2. CASE <<p, q>> \in Steps(P)
        <5>1. p \in P /\ q \in P
          BY <4>2 DEF Steps
        <5> QED
          BY <2>2, <2>5, <4>2, <5>1 DEF Counts
      <4>3. CASE P # {} /\ <<p, q>> = <<Last(P), n>>
        <5>1. p = Last(F) /\ q = n /\ F # {}
          BY <2>5, <4>3
        <5> QED
          BY <2>2, <2>3, <5>1
      <4> QED
        BY <2>5, <3>1, <4>1, <4>2, <4>3, StepsOfAppended
    <3> QED
      BY <2>2, <2>4, <3>1 DEF Counts
  <2>6. Counts(d, G)
    BY <2>1, <2>5, <1>3
  <2>7. K # {} => Last(K) = Last(F)
    <3> HAVE K # {}
    <3>1. Last(F) \in K /\ \A r \in K : r.ts <= Last(F).ts
      BY <1>1, Latest DEF Sound
    <3> QED
      BY <3>1, <1>4, Ends
  <2>8. Counts(d, L)
    BY <2>1, <2>5, <2>7, <1>1, <1>4
  <2> HIDE DEF G, L
  <2> QED
    BY <2>6, <2>8, <1>3, ExactIsShared
<1>9. CoveredSteps(G)
  <2> SUFFICES ASSUME NEW s \in Steps(G)
               PROVE  Growth(s) <= s[2].total - s[1].total
    BY DEF CoveredSteps
  <2>1. CASE s \in Steps(F)
    BY <2>1 DEF Sound, CoveredSteps
  <2>2. CASE F # {} /\ s = <<Last(F), n>>
    BY <2>2 DEF Reaches
  <2> QED
    BY <1>2, <1>3, <2>1, <2>2, StepsOfAppended
<1>10. Dns(L, G)
  <2>1. \A r \in F : \E k \in L : r.ts <= k.ts /\ r.ts \div Bucket = k.ts \div Bucket
    BY DEF Sound, Dns
  <2>2. n.ts <= n.ts
    BY DEF Row
  <2> QED
    BY <1>6, <2>1, <2>2 DEF Dns
<1>11. Spare(L, t)
  <2>1. t <= n.ts /\ Spare(K, t)
    BY DEF Sound
  <2> QED
    BY <2>1, <1>2, <1>4, AppendSpare
<1>12. t <= m + 1
  BY DEF Sound
<1> HIDE DEF G, L
<1>13. Sound(L, G, m + 1, t)
  BY <1>3, <1>5, <1>6, <1>7, <1>8, <1>9, <1>10, <1>11, <1>12 DEF Sound
<1> QED
  BY <1>7, <1>13 DEF G, L

\* The last row of the window stays the last as long as there is one.
LEMMA LastOfSince ==
  ASSUME NEW F, Series(F), NEW u \in Int, Since(F, u) # {}
  PROVE  /\ F # {} /\ Last(Since(F, u)) = Last(F) /\ u <= Last(F).ts
         /\ Last(F) \in Since(F, u)
<1> DEFINE S == Since(F, u)
<1>1. \A r : r \in S <=> r \in F /\ u <= r.ts
  BY Numbers DEF Since
<1>2. F # {}
  BY DEF Since
<1>3. Last(F) \in F /\ (\A r \in F : r.ts <= Last(F).ts) /\ \A r \in F : r.ts \in Nat
  BY <1>2, Latest, Numbers
<1>4. Series(S) /\ S # {}
  BY PartIsSeries DEF Since
<1> HIDE DEF S
<1>5. u <= Last(F).ts /\ Last(F) \in S
  BY <1>1, <1>3, <1>4
<1>6. \A r \in S : r.ts <= Last(F).ts
  BY <1>1, <1>3
<1>7. Last(S) = Last(F)
  BY <1>4, <1>5, <1>6, Ends
<1> QED
  BY <1>2, <1>5, <1>7 DEF S

\* Rows leave the window.
LEMMA Pruned ==
  ASSUME NEW K, NEW F, NEW m \in Nat, NEW t \in Int, Sound(K, F, m, t), NEW u \in Int
  PROVE  Sound(Since(K, u), Since(F, u), m, t)
<1> DEFINE G == Since(F, u)
           L == Since(K, u)
<1>1. Series(F) /\ K \subseteq F /\ K \in SUBSET F /\ \A r \in F : r.ts <= m /\ r.ts \in Nat
  BY Numbers DEF Sound
<1>2. Series(K)
  BY <1>1, PartIsSeries
<1>3. /\ \A r : r \in G <=> r \in F /\ u <= r.ts
      /\ \A r : r \in L <=> r \in K /\ u <= r.ts
  BY <1>1 DEF Since
<1>4. Steps(G) \subseteq Steps(F) /\ Steps(L) \subseteq Steps(K)
  BY <1>1, <1>2, StepsOfParts
<1>5. Spare(L, t)
  BY <1>2, PruneSpare DEF Sound
<1>6. G # {} => Last(G) \in L
  <2> HAVE G # {}
  <2>1. F # {} /\ Last(G) = Last(F) /\ u <= Last(F).ts
    BY <1>1, LastOfSince
  <2>2. Last(F) \in K
    BY <2>1 DEF Sound
  <2> HIDE DEF G, L
  <2> QED
    BY <1>3, <2>1, <2>2
<1> HIDE DEF G, L
<1>7. G \in SUBSET F /\ L \in SUBSET K /\ L \in SUBSET G
  BY <1>1, <1>3
<1>8. Series(G)
  BY <1>1, <1>7, PartIsSeries
<1>9. Exact(L, G)
  <2>1. PICK c : Counts(c, F) /\ Counts(c, K)
    BY <1>1, ExactIsShared DEF Sound
  <2>2. Counts(c, G) /\ Counts(c, L)
    BY <2>1, <1>4, <1>7, CountsOfPart
  <2> QED
    BY <2>2, <1>7, <1>8, ExactIsShared
<1>10. CoveredSteps(G)
  BY <1>4 DEF Sound, CoveredSteps
<1>11. Dns(L, G)
  <2> SUFFICES ASSUME NEW r \in G
               PROVE  \E k \in L : r.ts <= k.ts /\ r.ts \div Bucket = k.ts \div Bucket
    BY DEF Dns
  <2>1. r \in F /\ u <= r.ts
    BY <1>3
  <2>2. PICK k \in K : r.ts <= k.ts /\ r.ts \div Bucket = k.ts \div Bucket
    BY <2>1 DEF Sound, Dns
  <2>3. u <= k.ts
    BY <2>1, <2>2, <1>1
  <2>4. k \in L
    BY <2>3, <1>3
  <2> QED
    BY <2>2, <2>4
<1>12. Sound(L, G, m, t)
  BY <1>1, <1>3, <1>5, <1>6, <1>7, <1>8, <1>9, <1>10, <1>11 DEF Sound
<1> QED
  BY <1>12 DEF G, L

\* Old rows are thinned.
LEMMA ThinnedAgain ==
  ASSUME NEW K, NEW F, NEW m \in Nat, NEW t \in Int, Sound(K, F, m, t), NEW b \in Int, b <= m
  PROVE  Sound(Compact(K, b), F, m, b)
<1> DEFINE L == Compact(K, b)
<1>1. Series(F) /\ K \subseteq F /\ K \in SUBSET F
  BY DEF Sound
<1>2. Series(K) /\ \A r \in K : r.ts \in Nat
  BY <1>1, PartIsSeries, Numbers
<1>3. L \subseteq K /\ L \in SUBSET F /\ Dns(L, K) /\ Spare(L, b)
  BY <1>1, <1>2, CompactRows, CompactDense, CompactSpare
<1>4. F # {} => Last(F) \in L
  <2> HAVE F # {}
  <2>1. Last(F) \in K /\ \A r \in K : r.ts <= Last(F).ts
    BY <1>1, Latest DEF Sound
  <2>2. Last(K) = Last(F) /\ K # {}
    BY <1>2, <2>1, Ends
  <2>3. Last(K) \in L
    BY <1>2, <2>2, LastIsKept
  <2> QED
    BY <2>2, <2>3
<1>5. Exact(L, F)
  <2>1. PICK c : Counts(c, F) /\ Counts(c, K)
    BY <1>1, ExactIsShared DEF Sound
  <2>2. Counts(c, L)
    BY <1>2, <2>1, CompactCounts
  <2> HIDE DEF L
  <2> QED
    BY <1>1, <1>3, <2>1, <2>2, ExactIsShared
<1> HIDE DEF L
<1>6. Dns(L, F)
  <2> SUFFICES ASSUME NEW r \in F
               PROVE  \E k \in L : r.ts <= k.ts /\ r.ts \div Bucket = k.ts \div Bucket
    BY DEF Dns
  <2>1. PICK j \in K : r.ts <= j.ts /\ r.ts \div Bucket = j.ts \div Bucket
    BY DEF Sound, Dns
  <2>2. PICK k \in L : j.ts <= k.ts /\ j.ts \div Bucket = k.ts \div Bucket
    BY <1>3 DEF Dns
  <2>3. r.ts \in Nat /\ j.ts \in Nat /\ k.ts \in Nat
    BY <1>1, <1>3, Numbers
  <2>4. r.ts <= k.ts
    BY <2>1, <2>2, <2>3
  <2>5. r.ts \div Bucket = k.ts \div Bucket
    BY <2>1, <2>2
  <2> QED
    BY <2>4, <2>5
<1>7. Sound(L, F, m, b)
  BY <1>1, <1>3, <1>4, <1>5, <1>6 DEF Sound
<1> QED
  BY <1>7 DEF L

-----------------------------------------------------------------------------
(* The steps of the history.                                               *)

\* The invariant of the runs, in these terms.
LEMMA SumsInvIs ==
  SumsInv <=> TypeOK /\ Sound(rows, full, now, thinned) /\ Reaches(full, Current)
<1>1. TypeOK => full \subseteq Row /\ rows \subseteq full
  BY DEF TypeOK
<1>2. SumsExact <=> Exact(rows, full)
  BY DEF SumsExact, Exact
<1>3. Dense <=> Dns(rows, full)
  BY DEF Dense, Dns
<1>4. Thinned <=> Spare(rows, thinned)
  BY DEF Thinned, Spare
<1>5. Covered <=> CoveredSteps(full) /\ Reaches(full, Current)
  BY DEF Covered, CoveredSteps, Reaches, Current
<1> QED
  BY <1>1, <1>2, <1>3, <1>4, <1>5 DEF SumsInv, Ordered, Sound, Series

\* What the instance says is a row.
LEMMA CurrentIsRow ==
  ASSUME TypeOK
  PROVE  Current \in Row /\ Current.ts = now /\ Current.up = uploaded /\ Current.total = total
BY DEF TypeOK, Current, Row

\* Between two polls the counter gains what is uploaded, or starts over with it.
LEMMA SeedReaches ==
  ASSUME TypeOK, Series(full), Reaches(full, Current), Seed, Current' \in Row
  PROVE  Reaches(full, Current')
<1> SUFFICES ASSUME full # {}
             PROVE  Growth(<<Last(full), Current'>>) <= Current'.total - Last(full).total
  BY DEF Reaches
<1> DEFINE l == Last(full)
<1>1. l \in full
  BY Latest
<1>2. l \in Row /\ l.up \in Nat /\ l.total \in Nat
  BY <1>1, Numbers DEF TypeOK
<1> HIDE DEF l
<1>3. PICK g \in Gains : /\ total' = total + g
                         /\ uploaded' = uploaded + g \/ uploaded' = g
  BY DEF Seed
<1>4. g \in Nat
  BY HistoryAssumption
<1>5. uploaded \in Nat /\ total \in Nat
  BY DEF TypeOK
<1>6. Growth(<<l, Current>>) <= total - l.total
  BY <1>1, CurrentIsRow DEF Reaches, l
<1>7. Growth(<<l, Current>>) = IF uploaded < l.up THEN uploaded ELSE uploaded - l.up
  BY DEF Growth, IsReset, Current
<1>8. Growth(<<l, Current'>>) = IF uploaded' < l.up THEN uploaded' ELSE uploaded' - l.up
  BY DEF Growth, IsReset, Current
<1>9. Current'.total = total'
  BY DEF Current
<1> HIDE DEF Current
<1>10. Growth(<<l, Current'>>) <= total' - l.total
  BY <1>2, <1>3, <1>4, <1>5, <1>6, <1>7, <1>8
<1> QED
  BY <1>9, <1>10 DEF l

\* A poll that is not recorded makes no difference but to the time.
LEMMA NotRecorded ==
  ASSUME NEW K, NEW F, NEW m \in Nat, NEW t \in Int, Sound(K, F, m, t)
  PROVE  Sound(K, F, m + 1, t)
<1>1. \A r \in F : r.ts <= m /\ r.ts \in Nat
  BY Numbers DEF Sound
<1>2. \A r \in F : r.ts <= m + 1
  BY <1>1
<1>3. t <= m + 1
  BY DEF Sound
<1> QED
  BY <1>2, <1>3 DEF Sound

\* A tick keeps the invariant.
LEMMA TickKeeps ==
  ASSUME SumsInv, NEW answered \in BOOLEAN, NEW works \in BOOLEAN, Tick(answered, works)
  PROVE  SumsInv'
<1> DEFINE n == Current'
           X == IF answered THEN {n} ELSE {}
           u == now' - Window
           F1 == full \cup X
           K1 == rows \cup X
           F2 == Since(F1, u)
           K2 == Since(K1, u)
<1>1. TypeOK /\ Sound(rows, full, now, thinned) /\ Reaches(full, Current)
  BY SumsInvIs
<1>2. /\ now \in Nat /\ now' = now + 1 /\ now' \in Nat /\ thinned \in Int
      /\ uploaded' \in Nat /\ total' \in Nat /\ restarts' \in 0..MaxRestarts
  <2>1. PICK g \in Gains : /\ now' = now + 1 /\ total' = total + g
                           /\ \/ uploaded' = uploaded + g /\ UNCHANGED restarts
                              \/ restarts < MaxRestarts /\ restarts' = restarts + 1 /\ uploaded' = g
    BY DEF Tick, Seed
  <2>2. g \in Nat /\ now \in Nat /\ uploaded \in Nat /\ total \in Nat /\ thinned \in Int
        /\ restarts \in 0..MaxRestarts /\ MaxRestarts \in Nat
    BY <1>1, HistoryAssumption DEF TypeOK
  <2>3. restarts' \in 0..MaxRestarts
    BY <2>1, <2>2
  <2> QED
    BY <2>1, <2>2, <2>3
<1>3. trouble' \in 0..MaxTrouble
  <2>1. trouble \in 0..MaxTrouble /\ MaxTrouble \in Nat
    BY <1>1, HistoryAssumption DEF TypeOK
  <2>2. trouble' = trouble + (IF answered THEN 0 ELSE 1) + (IF works THEN 0 ELSE 1) /\ trouble' <= MaxTrouble
    BY DEF Tick
  <2> QED
    BY <2>1, <2>2
<1>4. n \in Row /\ n.ts = now + 1
  BY <1>2 DEF Current, Row
<1>5. Reaches(full, n)
  <2>1. Series(full) /\ Seed
    BY <1>1 DEF Sound, Tick
  <2> QED
    BY <1>1, <1>4, <2>1, SeedReaches
<1>6. /\ full' = F2
      /\ \/ rows' = K2 /\ thinned' = thinned
         \/ rows' = Compact(K2, now' - FullRes) /\ thinned' = now' - FullRes
      /\ maintained' \in {maintained, now'}
  BY DEF Tick, Maintain, Prune
<1> HIDE DEF n
<1>7. Sound(K1, F1, now', thinned)
  <2>1. CASE answered
    <3>1. Sound(rows \cup {n}, full \cup {n}, now + 1, thinned)
      BY <1>1, <1>2, <1>4, <1>5, Appended
    <3>2. K1 = rows \cup {n} /\ F1 = full \cup {n}
      BY <2>1
    <3> QED
      BY <3>1, <3>2, <1>2
  <2>2. CASE ~answered
    <3>1. Sound(rows, full, now + 1, thinned)
      BY <1>1, <1>2, NotRecorded
    <3>2. K1 = rows /\ F1 = full
      BY <2>2
    <3> QED
      BY <3>1, <3>2, <1>2
  <2> QED
    BY <2>1, <2>2
<1>8. Reaches(F1, n)
  <2>1. CASE answered
    <3>1. Last(full \cup {n}) = n
      <4>1. Sound(rows \cup {n}, full \cup {n}, now + 1, thinned) /\ Last(full \cup {n}) = n
        BY <1>1, <1>2, <1>4, <1>5, Appended
      <4> QED
        BY <4>1
    <3>2. n.up \in Nat /\ n.total \in Nat
      BY <1>4 DEF Row
    <3>3. Growth(<<n, n>>) = 0
      BY <3>2 DEF Growth, IsReset
    <3>4. F1 = full \cup {n}
      BY <2>1
    <3> QED
      BY <3>1, <3>2, <3>3, <3>4 DEF Reaches
  <2>2. CASE ~answered
    <3>1. F1 = full
      BY <2>2
    <3> QED
      BY <3>1, <1>5
  <2> QED
    BY <2>1, <2>2
<1>9. u \in Int /\ now' - FullRes \in Int /\ now' - FullRes <= now'
  BY <1>2, HistoryAssumption
<1> HIDE DEF F1, K1, X, u
<1>10. Sound(K2, F2, now', thinned)
  BY <1>2, <1>7, <1>9, Pruned
<1>11. Reaches(F2, n)
  <2>1. Series(F1)
    BY <1>7 DEF Sound
  <2>2. F2 # {} => F1 # {} /\ Last(F2) = Last(F1)
    BY <2>1, <1>9, LastOfSince
  <2> QED
    BY <2>2, <1>8 DEF Reaches
<1> HIDE DEF F2, K2
<1>12. Sound(rows', full', now', thinned') /\ thinned' \in Int
  <2>1. Sound(Compact(K2, now' - FullRes), F2, now', now' - FullRes)
    BY <1>2, <1>9, <1>10, ThinnedAgain
  <2> QED
    BY <2>1, <1>2, <1>6, <1>9, <1>10
<1>13. Reaches(full', Current')
  BY <1>6, <1>11 DEF n
<1>14. TypeOK'
  <2>1. rows' \subseteq full' /\ full' \subseteq Row
    BY <1>12 DEF Sound, Series
  <2>2. maintained' \in 0..now'
    BY <1>1, <1>2, <1>6 DEF TypeOK
  <2> QED
    BY <1>2, <1>3, <1>12, <2>1, <2>2 DEF TypeOK
<1>15. Ordered'
  BY <1>12 DEF Ordered, Sound, Series
<1>16. SumsExact'
  BY <1>12 DEF SumsExact, Exact, Sound
<1>17. Covered'
  BY <1>12, <1>13 DEF Covered, CoveredSteps, Reaches, Sound, Current
<1>18. Dense' /\ Thinned'
  BY <1>12 DEF Dense, Dns, Thinned, Spare, Sound
<1> QED
  BY <1>14, <1>15, <1>16, <1>17, <1>18 DEF SumsInv

\* However the window slides, however often the border is moved and the counter
\* starts over, the sums of the kept rows are those of the full history.
THEOREM HistoryInvariant == Spec => []SumsInv
<1>1. Init => SumsInv
  <2> HAVE Init
  <2>1. TypeOK
    BY HistoryAssumption DEF Init, TypeOK
  <2>2. Series({})
    BY FS_EmptySet DEF Series
  <2>3. Steps({}) = {}
    BY DEF Steps
  <2>4. Sound({}, {}, now, 0)
    BY <2>1, <2>2, <2>3 DEF Sound, Exact, CoveredSteps, Dns, Spare, Since, TypeOK
  <2>5. Reaches({}, Current)
    BY DEF Reaches
  <2> QED
    BY <2>1, <2>4, <2>5, SumsInvIs DEF Init
<1>2. SumsInv /\ [Next]_vars => SumsInv'
  <2> SUFFICES ASSUME SumsInv, [Next]_vars
               PROVE  SumsInv'
    OBVIOUS
  <2>1. ASSUME NEW answered \in BOOLEAN, NEW works \in BOOLEAN, Tick(answered, works)
        PROVE  SumsInv'
    BY <2>1, TickKeeps
  <2>2. CASE RestartDaemon
    <3>1. TypeOK'
      <4>1. TypeOK /\ MaxTrouble \in Nat
        BY HistoryAssumption DEF SumsInv
      <4> QED
        BY <2>2, <4>1 DEF TypeOK, RestartDaemon
    <3>2. Ordered' /\ SumsExact' /\ Covered' /\ Dense' /\ Thinned'
      BY <2>2 DEF SumsInv, RestartDaemon, Ordered, SumsExact, Covered, Dense, Thinned, Current
    <3> QED
      BY <3>1, <3>2 DEF SumsInv
  <2>3. CASE UNCHANGED vars
    BY <2>3 DEF vars, SumsInv, TypeOK, Ordered, SumsExact, Covered, Dense, Thinned, Current
  <2> QED
    BY <2>1, <2>2, <2>3 DEF Next
<1> QED
  BY <1>1, <1>2, PTL DEF Spec

-----------------------------------------------------------------------------
(* What follows from the invariant.                                        *)

\* The kept rows, as a series with the counts of the full one.
LEMMA KeptSeries ==
  ASSUME SumsInv
  PROVE  /\ Series(full) /\ Series(rows) /\ rows \in SUBSET full
         /\ full # {} => Last(full) \in rows /\ Last(rows) = Last(full)
         /\ \E c : Counts(c, full) /\ Counts(c, rows)
<1>1. Sound(rows, full, now, thinned)
  BY SumsInvIs
<1>2. Series(full) /\ rows \in SUBSET full /\ Exact(rows, full) /\ (full # {} => Last(full) \in rows)
  BY <1>1 DEF Sound
<1>3. Series(rows)
  BY <1>2, PartIsSeries
<1>4. full # {} => Last(rows) = Last(full)
  BY <1>2, <1>3, Latest, Ends
<1> QED
  BY <1>2, <1>3, <1>4, ExactIsShared

\* What is missing from the score lies in the bucket of the first row.
LEMMA EdgeOfWindow ==
  ASSUME SumsInv
  PROVE  EdgeWithinBucket
<1> SUFFICES ASSUME full # {}
             PROVE  /\ rows # {}
                    /\ First(rows).ts \div Bucket = First(full).ts \div Bucket
                    /\ Score(rows) = Score(full) - Score(Between(full, First(full), First(rows)))
  BY DEF EdgeWithinBucket
<1>1. Series(full) /\ Series(rows) /\ rows \in SUBSET full /\ rows # {} /\ Last(rows) = Last(full)
  BY KeptSeries
<1>2. First(full) \in full /\ (\A q \in full : First(full).ts <= q.ts)
      /\ First(rows) \in rows /\ (\A q \in rows : First(rows).ts <= q.ts)
  BY <1>1, Earliest
<1>3. \A q \in full : q.ts \in Nat
  BY <1>1, Numbers
<1> DEFINE a == First(full).ts
           b == First(rows).ts
<1>4. a \in Nat /\ b \in Nat /\ a <= b
  BY <1>1, <1>2, <1>3
<1>5. b \div Bucket = a \div Bucket
  <2>1. PICK k \in rows : a <= k.ts /\ a \div Bucket = k.ts \div Bucket
    BY <1>2 DEF SumsInv, Dense
  <2>2. k.ts \in Nat /\ b <= k.ts
    BY <1>1, <1>2, <1>3
  <2> DEFINE d == k.ts
  <2>3. d \in Nat /\ b <= d /\ a \div Bucket = d \div Bucket
    BY <2>1, <2>2
  <2> HIDE DEF a, b, d
  <2>4. /\ a \div Bucket \in Nat /\ b \div Bucket \in Nat
        /\ a \div Bucket <= b \div Bucket /\ b \div Bucket <= d \div Bucket
    BY <1>4, <2>3, BucketsInOrder
  <2> QED
    BY <2>3, <2>4
<1>6. Score(rows) = Score(full) - Score(Between(full, First(full), First(rows)))
  <2>1. PICK c : Counts(c, full) /\ Counts(c, rows)
    BY KeptSeries
  <2>2. Score(rows) = c[Last(full)] - c[First(rows)]
    BY <1>1, <2>1, ScoreOfSeries
  <2>3. Score(full) = c[Last(full)] - c[First(full)]
    BY <1>1, <2>1, ScoreOfSeries
  <2>4. Score(Between(full, First(full), First(rows))) = c[First(rows)] - c[First(full)]
    BY <1>1, <1>2, <2>1, ScoreBetween
  <2>5. c[Last(full)] \in Int /\ c[First(rows)] \in Int /\ c[First(full)] \in Int
    BY <1>1, <1>2, <2>1, Latest DEF Counts
  <2> QED
    BY <2>2, <2>3, <2>4, <2>5
<1> QED
  BY <1>1, <1>5, <1>6

\* Between any two rows no more is counted than was uploaded.
LEMMA NoMoreThanUploaded ==
  ASSUME NEW F, Series(F), CoveredSteps(F), NEW c, Counts(c, F),
         NEW p \in F, NEW q \in F, p.ts <= q.ts
  PROVE  c[q] - c[p] <= q.total - p.total
<1> DEFINE B == Between(F, p, q)
           T == {r \in B : c[r] - c[p] <= r.total - p.total}
<1>1. /\ Series(B) /\ B \subseteq F /\ First(B) = p /\ p \in B /\ q \in B
      /\ Steps(B) \subseteq Steps(F)
  BY StepsBetween
<1>2. \A r \in F : r.total \in Nat /\ c[r] \in Int
  BY Numbers DEF Counts
<1> HIDE DEF B
<1>3. First(B) \in T
  BY <1>1, <1>2
<1>4. ASSUME NEW x \in B, NEW y \in B, <<x, y>> \in Steps(B), x \in T
      PROVE  y \in T
  <2>1. x \in F /\ y \in F /\ <<x, y>> \in Steps(F)
    BY <1>1, <1>4
  <2>2. Growth(<<x, y>>) = c[y] - c[x]
    BY <2>1 DEF Counts
  <2>3. Growth(<<x, y>>) <= y.total - x.total
    <3> DEFINE s == <<x, y>>
    <3>1. s[1] = x /\ s[2] = y
      OBVIOUS
    <3>2. s \in Steps(F)
      BY <2>1
    <3> HIDE DEF s
    <3>3. Growth(s) <= y.total - x.total
      BY <3>1, <3>2 DEF CoveredSteps
    <3> QED
      BY <3>3 DEF s
  <2>4. c[x] - c[p] <= x.total - p.total
    BY <1>4
  <2>5. c[y] - c[p] <= y.total - p.total
    BY <2>1, <2>2, <2>3, <2>4, <1>2
  <2> QED
    BY <2>5
<1>5. B \subseteq T
  <2> HIDE DEF T
  <2> QED
    BY <1>1, <1>3, <1>4, RowsByInduction
<1> QED
  BY <1>1, <1>5

\* The score claims no more than was uploaded.
LEMMA HonestScore ==
  ASSUME SumsInv
  PROVE  NeverOverstates
<1> SUFFICES ASSUME rows # {}
             PROVE  Score(rows) <= Last(rows).total - First(rows).total
  BY DEF NeverOverstates
<1>1. Series(full) /\ Series(rows) /\ rows \in SUBSET full
  BY KeptSeries
<1>2. PICK c : Counts(c, full) /\ Counts(c, rows)
  BY KeptSeries
<1>3. CoveredSteps(full)
  BY SumsInvIs DEF Sound
<1>4. First(rows) \in full /\ Last(rows) \in full /\ First(rows).ts <= Last(rows).ts
  BY <1>1, Earliest, Latest
<1>5. Score(rows) = c[Last(rows)] - c[First(rows)]
  BY <1>1, <1>2, ScoreOfSeries
<1> QED
  BY <1>1, <1>2, <1>3, <1>4, <1>5, NoMoreThanUploaded

\* A set has no more members than there are values of what tells them apart.
LEMMA ToldApart ==
  ASSUME NEW S, NEW V, IsFiniteSet(V), NEW f \in [S -> V],
         \A x, y \in S : f[x] = f[y] => x = y
  PROVE  IsFiniteSet(S) /\ Cardinality(S) <= Cardinality(V)
<1>1. f \in Injection(S, V)
  BY DEF Injection, IsInjective
<1> QED
  BY <1>1, FS_Injection

\* There are no more values than members that have them.
LEMMA Values ==
  ASSUME NEW S, NEW V, IsFiniteSet(S), NEW f \in [S -> V], \A y \in V : \E x \in S : f[x] = y
  PROVE  IsFiniteSet(V) /\ Cardinality(V) <= Cardinality(S)
<1>1. f \in Surjection(S, V)
  BY DEF Surjection
<1> QED
  BY <1>1, FS_Surjection

\* Two sets together have no more members than both.
LEMMA Together ==
  ASSUME NEW S, NEW T, IsFiniteSet(S), IsFiniteSet(T)
  PROVE  /\ IsFiniteSet(S \cup T)
         /\ Cardinality(S) \in Nat /\ Cardinality(T) \in Nat /\ Cardinality(S \cup T) \in Nat
         /\ Cardinality(S \cup T) <= Cardinality(S) + Cardinality(T)
<1>1. IsFiniteSet(S \cup T)
  BY FS_Union
<1>2. Cardinality(S \cup T) = Cardinality(S) + Cardinality(T) - Cardinality(S \cap T)
  BY FS_Union
<1>3. IsFiniteSet(S \cap T)
  BY FS_Intersection
<1>4. Cardinality(S) \in Nat /\ Cardinality(T) \in Nat /\ Cardinality(S \cap T) \in Nat /\ Cardinality(S \cup T) \in Nat
  BY <1>1, <1>3, FS_CardinalityType
<1> QED
  BY <1>1, <1>2, <1>4

\* Few old rows are kept.
LEMMA FewAreKept ==
  ASSUME SumsInv
  PROVE  HistoryBounded
<1> DEFINE old     == rows \ Since(rows, thinned)
           buckets == {r.ts \div Bucket : r \in old}
           resets  == {s \in Steps(rows) : IsReset(s)}
           lasts   == {r \in old : \A q \in old : r.ts < q.ts => r.ts \div Bucket # q.ts \div Bucket}
           lefts   == {s[1] : s \in resets}
           rights  == {s[2] : s \in resets}
<1>1. Series(rows) /\ \A r \in rows : r.ts \in Nat
  BY KeptSeries, Numbers
<1>2. old \subseteq {First(rows)} \cup lasts \cup lefts \cup rights
  BY DEF SumsInv, Thinned
<1>3. IsFiniteSet(old) /\ IsFiniteSet(resets)
  <2>1. IsFiniteSet(rows) /\ old \in SUBSET rows
    BY <1>1 DEF Series
  <2>2. IsFiniteSet(Steps(rows)) /\ resets \in SUBSET Steps(rows)
    BY <1>1, StepsCount
  <2> QED
    BY <2>1, <2>2, FS_Subset
<1>4. IsFiniteSet(buckets) /\ IsFiniteSet(lefts) /\ Cardinality(lefts) <= Cardinality(resets)
      /\ IsFiniteSet(rights) /\ Cardinality(rights) <= Cardinality(resets)
  <2> DEFINE f == [r \in old |-> r.ts \div Bucket]
             g == [s \in resets |-> s[1]]
             h == [s \in resets |-> s[2]]
  <2>1. IsFiniteSet(buckets)
    <3>1. f \in [old -> buckets] /\ \A y \in buckets : \E x \in old : f[x] = y
      <4> HIDE DEF old
      <4> QED
        OBVIOUS
    <3> HIDE DEF f, old, buckets
    <3> QED
      BY <1>3, <3>1, Values
  <2>2. IsFiniteSet(lefts) /\ Cardinality(lefts) <= Cardinality(resets)
    <3>1. g \in [resets -> lefts] /\ \A y \in lefts : \E x \in resets : g[x] = y
      <4> HIDE DEF resets
      <4> QED
        OBVIOUS
    <3> HIDE DEF g, resets, lefts
    <3> QED
      BY <1>3, <3>1, Values
  <2>3. IsFiniteSet(rights) /\ Cardinality(rights) <= Cardinality(resets)
    <3>1. h \in [resets -> rights] /\ \A y \in rights : \E x \in resets : h[x] = y
      <4> HIDE DEF resets
      <4> QED
        OBVIOUS
    <3> HIDE DEF h, resets, rights
    <3> QED
      BY <1>3, <3>1, Values
  <2> QED
    BY <2>1, <2>2, <2>3
<1>5. IsFiniteSet(lasts) /\ Cardinality(lasts) <= Cardinality(buckets)
  <2> DEFINE f == [r \in lasts |-> r.ts \div Bucket]
  <2>1. f \in [lasts -> buckets]
    OBVIOUS
  <2>2. ASSUME NEW x \in lasts, NEW y \in lasts, f[x] = f[y]
        PROVE  x = y
    <3>1. x \in old /\ y \in old /\ x.ts \div Bucket = y.ts \div Bucket
      BY <2>2
    <3>2. ~(x.ts < y.ts) /\ ~(y.ts < x.ts)
      BY <2>2, <3>1
    <3>3. x.ts \in Nat /\ y.ts \in Nat /\ x \in rows /\ y \in rows
      BY <3>1, <1>1
    <3>4. x.ts = y.ts
      BY <3>2, <3>3
    <3> QED
      BY <3>3, <3>4, <1>1 DEF Series
  <2> HIDE DEF f, lasts, buckets
  <2> QED
    BY <2>1, <2>2, <1>4, ToldApart
<1>6. IsFiniteSet({First(rows)}) /\ Cardinality({First(rows)}) = 1
  BY FS_Singleton
<1> DEFINE A == {First(rows)} \cup lasts
           B == lefts \cup rights
<1> HIDE DEF old, buckets, resets, lasts, lefts, rights
<1>7. IsFiniteSet(A) /\ Cardinality(A) <= Cardinality(buckets) + 1
      /\ Cardinality(A) \in Nat /\ Cardinality(buckets) \in Nat
  <2>1. Cardinality(A) <= 1 + Cardinality(lasts) /\ IsFiniteSet(A) /\ Cardinality(A) \in Nat
        /\ Cardinality(lasts) \in Nat
    BY <1>5, <1>6, Together
  <2>2. Cardinality(buckets) \in Nat
    BY <1>4, FS_CardinalityType
  <2> QED
    BY <2>1, <2>2, <1>5
<1>8. IsFiniteSet(B) /\ Cardinality(B) <= 2 * Cardinality(resets)
      /\ Cardinality(B) \in Nat /\ Cardinality(resets) \in Nat
  <2>1. Cardinality(B) <= Cardinality(lefts) + Cardinality(rights) /\ IsFiniteSet(B)
        /\ Cardinality(B) \in Nat /\ Cardinality(lefts) \in Nat /\ Cardinality(rights) \in Nat
    BY <1>4, Together
  <2>2. Cardinality(resets) \in Nat
    BY <1>3, FS_CardinalityType
  <2> QED
    BY <2>1, <2>2, <1>4
<1>9. old \in SUBSET (A \cup B)
  BY <1>2
<1> HIDE DEF A, B
<1>10. Cardinality(A \cup B) <= Cardinality(A) + Cardinality(B) /\ IsFiniteSet(A \cup B)
       /\ Cardinality(A \cup B) \in Nat
  BY <1>7, <1>8, Together
<1>11. Cardinality(old) <= Cardinality(A \cup B) /\ Cardinality(old) \in Nat
  BY <1>3, <1>9, <1>10, FS_Subset, FS_CardinalityType
<1>12. Cardinality(old) <= Cardinality(buckets) + 2 * Cardinality(resets) + 1
  BY <1>7, <1>8, <1>10, <1>11
<1> QED
  BY <1>12 DEF HistoryBounded, old, buckets, resets

\* The score is that of the full history, but for what was uploaded in the first
\* bucket before its last row.
THEOREM WindowEdge == Spec => []EdgeWithinBucket
BY HistoryInvariant, EdgeOfWindow, PTL

\* No restart of qBittorrent, missed poll or thinning makes the score exceed what
\* was uploaded between the rows it looks at.
THEOREM ScoreIsHonest == Spec => []NeverOverstates
BY HistoryInvariant, HonestScore, PTL

\* The old part of the history has a row per bucket, two per reset, and one more.
THEOREM HistoryStaysSmall == Spec => []HistoryBounded
BY HistoryInvariant, FewAreKept, PTL
=============================================================================
