------------------------------- MODULE Selector -------------------------------
(***************************************************************************)
(* The three selections of a tick (selector.py): what to demote, what to   *)
(* displace for something denser, what to promote.                         *)
(*                                                                         *)
(* Torrents are numbered in the order in which the tick aggregates them,   *)
(* which decides between equals, as Python's stable sort does. A view is   *)
(* what the candidates say: active (not quarantined), hot (by the row read *)
(* for the candidate), ripe (their age passes the gate of their tier), and *)
(* their rates. Sizes, rates and thresholds are in units of the model.     *)
(***************************************************************************)
EXTENDS Integers, SequencesExt

CONSTANTS
  Size,            \* size_bytes of each torrent
  PromoteMin,      \* promote_min_upload_mb
  DemoteMax,       \* demote_max_upload_mb
  Factor,          \* displacement_factor
  MaxSize,         \* max_torrent_size_gb
  MaxPromotions,   \* max_concurrent_promotions
  MaxEvictions     \* max_displacements_per_tick

\* config.py:26-81. A factor of 1 is legal but excluded here: the documented
\* hysteresis is about factors above 1.
ASSUME SelectorAssumption ==
  /\ Size \in Seq(Nat \ {0})
  /\ DemoteMax \in Nat /\ PromoteMin \in Nat /\ DemoteMax < PromoteMin
  /\ Factor \in Nat /\ Factor > 1
  /\ MaxSize \in Nat /\ MaxPromotions \in Nat \ {0} /\ MaxEvictions \in Nat \ {0}

Torrent == DOMAIN Size

SizeOf(S) == SumFunctionOnSet(Size, S)

\* rate / size compared without division.
Denser(v, t, u) == v.rate[t] * Size[u] > v.rate[u] * Size[t]

\* sorted(), by which torrents come before each.
InOrder(before) ==
  [i \in 1..Cardinality(DOMAIN before) |->
     CHOOSE t \in DOMAIN before : Cardinality(before[t]) = i - 1]

DensestFirst(v, S) ==
  InOrder([t \in S |-> {u \in S : Denser(v, u, t) \/ (~Denser(v, t, u) /\ u < t)}])

LeastDenseFirst(v, S) ==
  InOrder([t \in S |-> {u \in S : Denser(v, t, u) \/ (~Denser(v, u, t) /\ u < t)}])

SlowestFirst(v, S) ==
  InOrder([t \in S |-> {u \in S : v.rate[u] < v.rate[t] \/ (v.rate[u] = v.rate[t] /\ u < t)}])

\* Cold (or new) for long enough, fast enough, not too large.
Wanted(v) ==
  {t \in v.active \ v.hot : /\ t \in v.ripe
                            /\ Size[t] <= MaxSize
                            /\ v.rate[t] >= PromoteMin}

Evictable(v) == v.active \cap v.hot \cap v.ripe

SelectDemotions(v) == SlowestFirst(v, {t \in Evictable(v) : v.rate[t] <= DemoteMax})

-----------------------------------------------------------------------------
(* select_promotions(): greedy by density.                                 *)

TakeIfFits(acc, t) ==
  IF Len(acc.picked) < MaxPromotions /\ Size[t] <= acc.left
  THEN [picked |-> Append(acc.picked, t), left |-> acc.left - Size[t]]
  ELSE acc

SelectPromotions(v, available) ==
  FoldLeft(TakeIfFits, [picked |-> << >>, left |-> available], DensestFirst(v, Wanted(v))).picked

-----------------------------------------------------------------------------
(* select_displacements(): for each wanted torrent, densest first, the     *)
(* fewest further victims, least dense first, that make it fit.            *)

\* Mutant: any denser or equal torrent beats its victim.
BeatsPlain(v, t, victim) == ~Denser(v, victim, t)

Beats(v, t, victim) == v.rate[t] * Size[victim] >= Factor * v.rate[victim] * Size[t]

\* Mutant: evictions are not tied to whether the target fits in the end.
VictimsInVain(v, acc, t) ==
  {n \in 1..Len(acc.queue) :
     /\ Len(acc.victims) + n <= MaxEvictions
     /\ \A k \in 1..n : Beats(v, t, acc.queue[k])}

\* The numbers of victims that would do.
Victims(v, acc, t) ==
  {n \in 1..Len(acc.queue) :
     /\ Len(acc.victims) + n <= MaxEvictions
     /\ \A k \in 1..n : Beats(v, t, acc.queue[k])
     /\ Size[t] <= acc.left + SizeOf(ToSet(SubSeq(acc.queue, 1, n)))}

MakeRoom(v, acc, t) ==
  IF acc.promoted = MaxPromotions \/ Len(acc.victims) = MaxEvictions THEN acc
  ELSE IF Size[t] <= acc.left
  THEN [acc EXCEPT !.left = @ - Size[t], !.promoted = @ + 1]
  ELSE IF Victims(v, acc, t) = {} THEN acc
  ELSE LET n     == Min(Victims(v, acc, t))
           taken == SubSeq(acc.queue, 1, n)
       IN [victims  |-> acc.victims \o taken,
           queue    |-> SubSeq(acc.queue, n + 1, Len(acc.queue)),
           left     |-> acc.left + SizeOf(ToSet(taken)) - Size[t],
           promoted |-> acc.promoted + 1]

SelectDisplacements(v, available) ==
  FoldLeft(LAMBDA acc, t : MakeRoom(v, acc, t),
           [victims |-> << >>, queue |-> LeastDenseFirst(v, Evictable(v)),
            left |-> available, promoted |-> 0],
           DensestFirst(v, Wanted(v))).victims
=============================================================================
