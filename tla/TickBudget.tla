------------------------------ MODULE TickBudget ------------------------------
(***************************************************************************)
(* The bytes of a tick (daemon.py, quota.py): scores and ages decide what  *)
(* is demoted, displaced and promoted, the quota and the free space of the *)
(* SSD decide how much. Demoting or promoting a torrent is one step here,  *)
(* with the outcomes Mover gives it. Of links and sidecars it keeps what   *)
(* decides about bytes: which directories the next start books, and which  *)
(* are in use although no row books them. Torrents neither come nor go.    *)
(***************************************************************************)
EXTENDS Selector

CONSTANTS
  Quota,              \* quota_gb
  MinFree,            \* min_free_gb
  Capacity,           \* size of the SSD filesystem
  MaxOther,           \* bound on the other data on it
  MinHot, MinCold,    \* age gates, in ticks
  SuspendOnAnomaly,   \* suspend_promotions_on_anomaly
  RatesOf,            \* the scores a torrent may have
  Faults,             \* kinds of disturbance
  MaxEvents           \* bound on their number

FaultKind == {
  "poll",      \* an instance does not answer
  "error",     \* a demotion or promotion raises
  "interrupt", \* the process is stopped or killed, and starts again
  "lost",      \* the notes of a mapping are lost, while the daemon is down
  "score",     \* a score changes
  "other"}     \* other data on the SSD grows or shrinks

ASSUME BudgetAssumption ==
  /\ Quota \in Nat /\ MinFree \in Nat /\ MaxOther \in Nat /\ Capacity \in Nat
  /\ MaxOther <= Capacity
  /\ MinHot \in Nat /\ MinCold \in Nat
  /\ SuspendOnAnomaly \in BOOLEAN
  /\ RatesOf \in [Torrent -> SUBSET Nat]
  /\ Faults \subseteq FaultKind
  /\ MaxEvents \in Nat

VARIABLES
  tier,    \* tier row: "none", "cold" or "hot"
  age,     \* ticks since the tier was set, capped
  rate,    \* upload score
  disk,    \* bytes of the torrent's directory on the SSD
  pend,    \* torrents with a promotion intent that is not too old
  side,    \* ticks since the sidecar of a torrent that is not hot was written, capped
  linked,  \* torrents with a sidecar that are not hot, but a live link uses their copy
  lost,    \* torrents with a live link into the SSD and no note of its bulk file
  other,   \* other data on the SSD
  phase,   \* loop of the tick; down: the daemon is not running
  todo,    \* torrents of this loop still to do
  view,    \* the candidates of this tick
  avail,   \* headroom last computed
  room,    \* ghost: headroom before the displacements
  evicted, \* ghost: torrents displaced in this tick
  gained,  \* ghost: bytes promoted in this tick
  trouble, \* ghost: what happened since the poll
  failed,  \* ghost: torrents whose last promotion failed behind its sidecar
  budget

rowVars == <<tier, age, failed>>
cacheVars == <<disk, pend, side, linked>>
worldVars == <<rate, lost, other>>
ghostVars == <<room, evicted, gained, trouble>>
vars == <<rowVars, cacheVars, worldVars, phase, todo, view, avail, ghostVars, budget>>

NoSidecar == -1

MaxAge == Max({MinHot, MinCold})
NoView == [active |-> {}, hot |-> {}, ripe |-> {}, rate |-> [t \in Torrent |-> 0],
           quarantined |-> {}, ok |-> FALSE]
DiskOf(S) == SumFunctionOnSet(disk, S)

Hot == {t \in Torrent : tier[t] = "hot"}

\* What the next start books. The sidecar of a hot torrent says what its row
\* says: it is left out.
Noted == {t \in Torrent : side[t] # NoSidecar}

Booked == SizeOf(Hot)
Free == Capacity - other - DiskOf(Torrent)

TypeOK ==
  /\ tier \in [Torrent -> {"none", "cold", "hot"}]
  /\ age \in [Torrent -> 0..MaxAge]
  /\ rate \in [Torrent -> Nat]
  /\ disk \in [Torrent -> Nat] /\ \A t \in Torrent : disk[t] <= Size[t]
  /\ pend \subseteq Torrent /\ lost \subseteq Torrent
  /\ side \in [Torrent -> NoSidecar..MaxAge]
  /\ linked \subseteq Torrent /\ failed \subseteq Torrent
  /\ other \in 0..MaxOther
  /\ phase \in {"down", "idle", "demote", "headroom", "displace", "promote"}
  /\ todo \in Seq(Torrent)
  /\ avail \in Nat /\ room \in Nat /\ gained \in Nat
  /\ evicted \subseteq Torrent
  /\ budget \in 0..MaxEvents

Init ==
  /\ tier = [t \in Torrent |-> "none"]
  /\ age = [t \in Torrent |-> 0]
  /\ rate \in {r \in [Torrent -> UNION {RatesOf[t] : t \in Torrent}] :
                 \A t \in Torrent : r[t] \in RatesOf[t]}
  /\ disk = [t \in Torrent |-> 0]
  /\ pend = {} /\ lost = {}
  /\ side = [t \in Torrent |-> NoSidecar] /\ linked = {} /\ failed = {}
  /\ other = 0
  /\ phase = "idle" /\ todo = << >> /\ view = NoView
  /\ avail = 0 /\ room = 0 /\ evicted = {} /\ gained = 0 /\ trouble = {}
  /\ budget = MaxEvents

Disturb(kind) == kind \in Faults /\ budget > 0 /\ budget' = budget - 1

ForgetTick ==
  /\ todo' = << >> /\ view' = NoView
  /\ avail' = 0 /\ room' = 0 /\ evicted' = {} /\ gained' = 0 /\ trouble' = {}

EndTick == phase' = "idle" /\ ForgetTick

-----------------------------------------------------------------------------
(* Steps 1 to 7: candidates and demotions.                                 *)

Older(t) == IF tier[t] = "none" \/ age[t] = MaxAge THEN age[t] ELSE age[t] + 1

\* Old enough for its tier; a torrent never tracked is.
Ripe(t, a) ==
  CASE tier[t] = "none" -> TRUE
    [] tier[t] = "cold" -> a >= MinCold
    [] tier[t] = "hot"  -> a >= MinHot

\* A torrent whose links lead into the SSD unmapped resolves to nothing.
Candidates(seen, ok) ==
  [active |-> seen \ lost,
   hot |-> Hot \cap seen,
   ripe |-> {t \in seen : Ripe(t, Older(t))},
   rate |-> rate,
   quarantined |-> seen \cap lost,
   ok |-> ok]

\* A poll interval has passed; new torrents get a cold row.
Poll(seen, ok) ==
  /\ phase = "idle"
  /\ IF ok THEN seen = Torrent /\ UNCHANGED budget ELSE Disturb("poll")
  /\ view' = Candidates(seen, ok)
  /\ age' = [t \in Torrent |-> Older(t)]
  /\ tier' = [t \in Torrent |-> IF t \in seen \ lost /\ tier[t] = "none" THEN "cold" ELSE tier[t]]
  /\ side' = [t \in Torrent |->
                IF side[t] \in {NoSidecar, MaxAge} THEN side[t] ELSE side[t] + 1]
  /\ phase' = "demote"
  /\ todo' = IF ok THEN SelectDemotions(view') ELSE << >>
  /\ UNCHANGED <<disk, pend, linked, failed, worldVars, avail, ghostVars>>

\* The directory of a torrent goes, with all that is in it.
Emptied(S) ==
  /\ disk' = [t \in Torrent |-> IF t \in S THEN 0 ELSE disk[t]]
  /\ side' = [t \in Torrent |-> IF t \in S THEN NoSidecar ELSE side[t]]
  /\ pend' = pend \ S
  /\ linked' = linked \ S
  /\ failed' = failed \ S

\* _demote_logical() and the cold row.
DemoteStep(t) ==
  /\ tier' = [tier EXCEPT ![t] = "cold"]
  /\ age' = [age EXCEPT ![t] = 0]
  /\ Emptied({t})

Demote ==
  /\ phase = "demote" /\ todo # << >>
  /\ DemoteStep(Head(todo))
  /\ todo' = Tail(todo)
  /\ trouble' = trouble \cup {"demoted"}
  /\ UNCHANGED <<worldVars, phase, view, avail, room, evicted, gained, budget>>

Displace ==
  /\ phase = "displace" /\ todo # << >>
  /\ DemoteStep(Head(todo))
  /\ todo' = Tail(todo)
  /\ evicted' = evicted \cup ({Head(todo)} \cap Hot)
  /\ UNCHANGED <<worldVars, phase, view, avail, room, gained, trouble, budget>>

\* Where a demotion of t may end early: its row is still hot, whatever the rm has
\* taken, and the row alone says so at the next start.
HalfDemoted(t) ==
  /\ \E k \in 0..disk[t] : disk' = [disk EXCEPT ![t] = k]
  /\ UNCHANGED <<pend, side, linked>>

\* A retarget or the rm raises.
DemoteFails ==
  /\ phase \in {"demote", "displace"} /\ todo # << >>
  /\ Disturb("error")
  /\ HalfDemoted(Head(todo))
  /\ todo' = Tail(todo)
  /\ trouble' = trouble \cup {"error"}
  /\ UNCHANGED <<rowVars, worldVars, phase, view, avail, room, evicted, gained>>

-----------------------------------------------------------------------------
(* Steps 7b and 8: reclaim, headroom, displacements.                       *)

\* _cleanup_fs_orphans(): neither hot, nor in use by a live link, nor pending,
\* which a promotion behind its sidecar no longer is.
Reclaimable == {t \in Torrent \ (Hot \cup lost \cup linked) : t \notin pend \/ t \in Noted}

\* _untracked_ssd_bytes(): directories of quarantined torrents.
Untracked == DiskOf(view.quarantined \ Hot)

\* Mutant: the free space of the filesystem is not looked at.
SpareQuotaOnly == Quota - (Booked + Untracked)

\* Mutant: quarantined directories are in nobody's account.
SpareTracked == Min({Quota - Booked, Free - MinFree})

\* What is left of the quota and of the filesystem, before the clamp.
Spare == Min({Quota - (Booked + Untracked), Free - MinFree})

\* _free_ssd_bytes()
Headroom == Max({0, Spare})

Reclaim ==
  /\ phase = "demote" /\ todo = << >>
  /\ Emptied(IF view.ok THEN Reclaimable ELSE {})
  /\ phase' = "headroom"
  /\ UNCHANGED <<tier, age, worldVars, todo, view, avail, ghostVars, budget>>

BeginPromotions(available) ==
  /\ phase' = "promote"
  /\ avail' = available
  /\ todo' = SelectPromotions(view, available)

Suspended == SuspendOnAnomaly /\ view.quarantined # {}

MeasureAndDisplace ==
  /\ phase = "headroom"
  /\ IF Suspended THEN EndTick
     ELSE \E available \in {Headroom} :
          \E victims \in {IF view.ok THEN SelectDisplacements(view, available) ELSE << >>} :
          /\ IF victims = << >> THEN BeginPromotions(available)
             ELSE phase' = "displace" /\ todo' = victims /\ avail' = available
          /\ room' = available
          /\ trouble' = trouble \cup (IF Spare < 0 THEN {"full"} ELSE {})
                                \cup (IF \E t \in Hot : disk[t] < Size[t] THEN {"hollow"} ELSE {})
          /\ UNCHANGED <<view, evicted, gained>>
  /\ UNCHANGED <<rowVars, cacheVars, worldVars, budget>>

-----------------------------------------------------------------------------
(* Step 9: the headroom is measured again after displacements.             *)

\* Mutant: the space the plan would free is trusted.
MeasureAgainPlanned ==
  /\ phase = "displace" /\ todo = << >>
  /\ BeginPromotions(avail + SizeOf(Torrent \cap view.hot \cap ToSet(SelectDisplacements(view, avail))))
  /\ UNCHANGED <<rowVars, cacheVars, worldVars, view, ghostVars, budget>>

MeasureAgain ==
  /\ phase = "displace" /\ todo = << >>
  /\ BeginPromotions(Headroom)
  /\ UNCHANGED <<rowVars, cacheVars, worldVars, view, ghostVars, budget>>

Promote ==
  /\ phase = "promote" /\ todo # << >>
  /\ LET t == Head(todo)
     IN /\ Size[t] - disk[t] <= Free
        /\ tier' = [tier EXCEPT ![t] = "hot"]
        /\ age' = [age EXCEPT ![t] = 0]
        /\ disk' = [disk EXCEPT ![t] = Size[t]]
        /\ side' = [side EXCEPT ![t] = NoSidecar]
        /\ pend' = pend \ {t} /\ linked' = linked \ {t} /\ failed' = failed \ {t}
        /\ gained' = gained + Size[t]
  /\ todo' = Tail(todo)
  /\ UNCHANGED <<worldVars, phase, view, avail, room, evicted, trouble, budget>>

\* Where a promotion of t may end early: in the copies, whose files and partial
\* stay with the intent (an older one is left as it is), or behind the sidecar,
\* and then before the intent is removed, before the links or among them.
HalfPromoted(t) ==
  /\ \E k \in disk[t]..Size[t] : k - disk[t] <= Free /\ disk' = [disk EXCEPT ![t] = k]
  /\ \/ pend' \in {pend, pend \cup {t}} /\ UNCHANGED <<side, linked>>
     \/ /\ disk'[t] = Size[t]
        /\ side' = [side EXCEPT ![t] = 0]
        /\ \/ pend' \in {pend, pend \cup {t}} /\ UNCHANGED linked
           \/ pend' = pend \ {t} /\ linked' \in {linked, linked \cup {t}}

PromoteFails ==
  /\ phase = "promote" /\ todo # << >>
  /\ IF Size[Head(todo)] - disk[Head(todo)] > Free THEN UNCHANGED budget ELSE Disturb("error")
  /\ HalfPromoted(Head(todo))
  /\ failed' = failed \cup ({Head(todo)} \cap Noted')
  /\ todo' = Tail(todo)
  /\ trouble' = trouble \cup {"error"}
  /\ UNCHANGED <<tier, age, worldVars, phase, view, avail, room, evicted, gained>>

EndPromotions ==
  /\ phase = "promote" /\ todo = << >>
  /\ EndTick
  /\ UNCHANGED <<rowVars, cacheVars, worldVars, budget>>

-----------------------------------------------------------------------------
(* The process, the operator and the SSD.                                  *)

\* A stop or a crash at any point.
Interrupt ==
  /\ phase # "down"
  /\ Disturb("interrupt")
  /\ \/ UNCHANGED cacheVars
     \/ phase \in {"demote", "displace"} /\ todo # << >> /\ HalfDemoted(Head(todo))
     \/ phase = "promote" /\ todo # << >> /\ HalfPromoted(Head(todo))
  /\ phase' = "down" /\ ForgetTick
  /\ UNCHANGED <<rowVars, worldVars>>

\* The next start, and reconcile(): every torrent with a sidecar whose row is not
\* hot is booked, since the sidecar was written; a hot row whose directory is
\* gone is dropped (it may as well be there, with nothing in it).
Start ==
  /\ phase = "down"
  /\ \E gone \in SUBSET {t \in Hot : disk[t] = 0} :
       /\ tier' = [t \in Torrent |->
                     IF t \in Noted THEN "hot" ELSE IF t \in gone THEN "none" ELSE tier[t]]
       /\ age' = [t \in Torrent |->
                    IF t \in Noted THEN side[t] ELSE IF t \in gone THEN 0 ELSE age[t]]
       /\ pend' = pend \ gone
       /\ failed' = failed \ gone
  /\ side' = [t \in Torrent |-> NoSidecar] /\ linked' = {}
  /\ phase' = "idle"
  /\ UNCHANGED <<disk, worldVars, todo, view, avail, ghostVars, budget>>

\* A hot torrent loses its row and its sidecar, one in use behind its sidecar
\* loses that.
LoseMapping(t) ==
  /\ phase \in {"idle", "down"} /\ t \in Hot \cup linked
  /\ Disturb("lost")
  /\ lost' = lost \cup {t}
  /\ tier' = [tier EXCEPT ![t] = IF @ = "hot" THEN "none" ELSE @]
  /\ age' = [age EXCEPT ![t] = IF tier[t] = "hot" THEN 0 ELSE @]
  /\ side' = [side EXCEPT ![t] = NoSidecar]
  /\ linked' = linked \ {t} /\ failed' = failed \ {t}
  /\ phase' = "down"
  /\ UNCHANGED <<rate, other, disk, pend, todo, view, avail, ghostVars>>

\* The operator points the links back to bulk.
RepairMapping(t) ==
  /\ phase = "idle" /\ t \in lost
  /\ lost' = lost \ {t}
  /\ UNCHANGED <<rowVars, cacheVars, rate, other, phase, todo, view, avail, ghostVars, budget>>

ChangeScore(t) ==
  /\ phase = "idle"
  /\ Disturb("score")
  /\ \E r \in RatesOf[t] \ {rate[t]} : rate' = [rate EXCEPT ![t] = r]
  /\ UNCHANGED <<rowVars, cacheVars, lost, other, phase, todo, view, avail, ghostVars>>

OtherData ==
  /\ Disturb("other")
  /\ \E o \in (0..MaxOther) \ {other} : o - other <= Free /\ other' = o
  /\ trouble' = IF phase \in {"idle", "down"} THEN trouble ELSE trouble \cup {"other"}
  /\ UNCHANGED <<rowVars, cacheVars, rate, lost, phase, todo, view, avail, room, evicted, gained>>

IntentExpires(t) ==
  /\ phase = "idle" /\ t \in pend
  /\ pend' = pend \ {t}
  /\ UNCHANGED <<rowVars, disk, side, linked, worldVars, phase, todo, view, avail, ghostVars, budget>>

Daemon ==
  \/ Start \/ Poll(Torrent, TRUE)
  \/ Demote \/ Displace \/ Reclaim \/ MeasureAndDisplace \/ MeasureAgain \/ Promote
  \/ EndPromotions
  \/ PromoteFails

Environment ==
  \/ \E seen \in SUBSET Torrent : Poll(seen, FALSE)
  \/ DemoteFails \/ Interrupt \/ OtherData
  \/ \E t \in Torrent : LoseMapping(t) \/ RepairMapping(t) \/ ChangeScore(t) \/ IntentExpires(t)

Next == Daemon \/ Environment

\* The loop of run_daemon() goes on whenever it can, and the container is started
\* again (docker-compose.example.yaml).
Spec == Init /\ [][Next]_vars /\ WF_vars(Daemon)

-----------------------------------------------------------------------------
(* Properties.                                                             *)

\* What rows book, and what the next start will book from sidecars, stays within
\* the quota: however often a torrent is evicted twice, and after a crash in the
\* middle of a promotion that reconciliation then books. What may go beyond it is
\* a torrent whose promotion failed behind its sidecar: no row books the copy
\* while others are promoted, and the next start books it all the same.
WithinQuota == SizeOf((Hot \cup Noted) \ failed) <= Quota

\* While the daemon runs only promotions that failed have a sidecar and no hot row.
SideInv ==
  /\ Noted \cap Hot = {} /\ linked \subseteq Noted
  /\ phase # "down" => Noted \subseteq failed

\* What a view says of torrents.
ViewType(v) ==
  /\ v.active \subseteq Torrent /\ v.hot \subseteq Torrent /\ v.ripe \subseteq Torrent
  /\ v.rate \in [Torrent -> Nat]

\* The view of a tick that saw every instance stays true of what is quarantined.
ViewInv ==
  /\ ViewType(view)
  /\ view.quarantined \subseteq Torrent /\ view.active \cap view.quarantined = {}
  /\ view.ok => view.quarantined = lost
  /\ phase \in {"idle", "down"} => ~view.ok

\* Promotions still to do are of torrents that are not hot; they fit into the quota
\* together, and into the filesystem unless other data grew since they were selected.
PlanInv ==
  /\ phase \in {"demote", "headroom", "displace"} => Hot \cap view.active \subseteq view.hot
  /\ phase = "promote" =>
    /\ IsInjective(todo) /\ ToSet(todo) \subseteq view.active /\ ToSet(todo) \cap Hot = {}
    /\ todo # << >> => Booked + Untracked + SizeOf(ToSet(todo)) <= Quota
    /\ todo # << >> /\ "other" \notin trouble => MinFree + SizeOf(ToSet(todo)) <= Free

\* While a tick in which nothing went wrong displaces, every victim leaves its
\* whole size behind.
Displacing ==
  /\ evicted \cup ToSet(todo) = ToSet(SelectDisplacements(view, room))
  /\ ToSet(todo) \subseteq Hot \cup evicted /\ evicted \cap Hot = {}
  /\ \A t \in Hot : disk[t] = Size[t]
  /\ \A t \in evicted : disk[t] = 0
  /\ Spare = room + SizeOf(evicted)

\* What is promoted behind displacements and what is still to be promoted are
\* together more than would have fitted without them.
PayInv ==
  /\ phase # "promote" => gained = 0
  /\ phase \notin {"displace", "promote"} => evicted = {}
  /\ trouble = {} =>
       /\ phase \in {"demote", "headroom"} => view.hot \subseteq Hot
       /\ phase = "displace" => Displacing
       /\ phase = "promote" /\ evicted # {} => gained + SizeOf(ToSet(todo)) > room

\* The account of a tick is in order: a headroom is never negative, no
\* directory is larger than its torrent, the quota is kept but for promotions that
\* failed late (daemon.py:448, reconcile.py:113), what is selected for promotion
\* has its room whatever fails before its turn, and what is displaced is paid for.
QuotaInv == TypeOK /\ WithinQuota /\ SideInv /\ ViewInv /\ PlanInv /\ PayInv

\* No promotion goes beyond the quota, not even on top of what a start has booked;
\* in a tick that saw every instance not even when the copies of torrents the
\* database has forgotten are counted.
QuotaHonest ==
  [][gained' > gained => /\ Booked' <= Quota
                         /\ view.ok => (Booked + DiskOf(lost \ Hot) <= Quota)']_vars

\* Promotions leave the reserve of the filesystem free, with the remains of
\* earlier attempts and other data on it, unless other data grew meanwhile.
ReserveKept ==
  [][gained' > gained /\ "other" \notin trouble => Free' >= MinFree]_vars

\* A displacement pays: select_promotions(), which knows nothing of its plan,
\* promotes more than would have fitted without it. This needs that nothing
\* failed, that no torrent was demoted in the same tick, that the headroom was
\* not negative and that hot torrents are whole: each of these was found by TLC.
EvictionsPay ==
  (phase = "promote" /\ todo = << >> /\ evicted # {} /\ trouble = {}) => gained > room

\* With scores that no longer change every torrent ends up hot or not: no two
\* torrents take each other's place for ever.
Settles == \A t \in Torrent : <>[](t \in Hot) \/ <>[](t \notin Hot)

\* docs/architecture.md:77, selector.py:172: whatever happened before in the
\* tick, evictions buy a promotion when nothing fails.
NeverForNothing ==
  (phase = "promote" /\ todo = << >> /\ evicted # {} /\ trouble \cap {"error", "other"} = {})
    => gained > room
=============================================================================
