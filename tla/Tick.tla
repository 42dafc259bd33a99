-------------------------------- MODULE Tick --------------------------------
(***************************************************************************)
(* One poll tick of the daemon (daemon.py, resolver.py, anomaly.py): poll  *)
(* and aggregate, bootstrap, orphan rows, quarantine, demote, reclaim      *)
(* directories, displace, promote.                                         *)
(*                                                                         *)
(* WHICH torrents are demoted, displaced or promoted depends on scores,    *)
(* ages and byte counts; any subset the selectors may return is allowed.   *)
(***************************************************************************)
EXTENDS Mover

-----------------------------------------------------------------------------
(* Steps 1 to 5: the view of this tick.                                    *)

\* Links a poll sees when the instances in `down` do not answer and the
\* (torrent, instance) pairs in `absent` are missing from the answers.
SeenLinks(down, absent) ==
  {l \in listed : /\ IsSymlink(l)
                  /\ InstanceOf[l] \notin down
                  /\ <<TorrentOf[l], InstanceOf[l]>> \notin absent}

\* ssd_links(): what is in use on the SSD, dangling links included.
IntoSsd(seen) == {l \in seen : link[l] = "ssd"}

\* resolve(): a link on bulk says where its file is; a link into the SSD
\* needs the mapping of a hot row.
Resolved(seen) == {l \in seen : link[l] = "bulk" \/ l \in HotMap(TorrentOf[l])}

\* Mutant: the place of the link is stored for the tier.
BootstrapPlace(t, ls) == link[CHOOSE l \in ls \cap LinksOf(t) : TRUE]

\* A torrent without a tier row gets one from where its links point.
BootstrapTier(t, ls) ==
  IF \A l \in ls \cap LinksOf(t) : link[l] = "ssd" THEN "hot" ELSE "cold"

\* Polls are read at once; what changes afterwards is an event during the tick.
Poll(down, absent) ==
  /\ phase = "idle"
  /\ ~halt
  /\ down # {} => "poll" \in Faults
  /\ absent # {} => "absent" \in Faults
  /\ IF down = {} /\ absent = {} THEN UNCHANGED budget
                                 ELSE budget > 0 /\ budget' = budget - 1
  /\ LET seen == SeenLinks(down, absent)
         ls   == Resolved(seen)
         new  == {t \in {TorrentOf[l] : l \in ls} : row[t] = "none"}
     IN /\ layouts' = ls
        /\ into' = IntoSsd(seen)
        /\ hotSeen' = {t \in {TorrentOf[l] : l \in ls} : row[t] = "hot"}
        /\ row' = [t \in Torrent |-> IF t \in new THEN BootstrapTier(t, ls) ELSE row[t]]
        /\ map' = [t \in Torrent |-> IF t \in new /\ BootstrapTier(t, ls) = "hot"
                                     THEN ls \cap LinksOf(t) ELSE map[t]]
  /\ pollOk' = (down = {})
  /\ quarantined' = {}
  /\ LET live == {TorrentOf[l] : l \in layouts'}
     IN BeginLoop("orphans", IF pollOk' THEN {t \in Torrent : row'[t] = "hot"} \ live ELSE {})
  /\ UNCHANGED <<bulkVars, ssdVars, halt>>

-----------------------------------------------------------------------------
(* Step 6: _cleanup_orphans().                                             *)

PickOrphan(t) ==
  /\ phase = "orphans"
  /\ BeginRetarget(t, BulkTargetsFor(t))
  /\ UNCHANGED <<bulkVars, ssdVars, dbVars, viewVars, halt, budget>>

DropOrphanRow ==
  /\ phase = "orphans"
  /\ step = "remove"
  /\ row' = [row EXCEPT ![cur] = "none"]
  /\ map' = [map EXCEPT ![cur] = {}]
  /\ NextTorrent
  /\ UNCHANGED <<bulkVars, ssdVars, viewVars, halt, budget>>

-----------------------------------------------------------------------------
(* Step 6b and 7: quarantine, then select_demotions().                     *)

\* Mutant: a torrent this poll resolved is taken for a mapped one.
UnmappedUnresolved ==
  {l \in into : /\ l \notin HotMap(TorrentOf[l]) \cup side[TorrentOf[l]]
                /\ TorrentOf[l] \notin Live
                /\ IsSymlink(l)
                /\ link[l] = "ssd"}

UnmappedNow ==
  {l \in into : /\ l \notin HotMap(TorrentOf[l]) \cup side[TorrentOf[l]]
                /\ IsSymlink(l)
                /\ link[l] = "ssd"}

\* select_demotions() returns hot candidates; with an incomplete poll it is not
\* asked.
Demotable(q) == IF pollOk THEN hotSeen \ q ELSE {}

QuarantineAndDemote ==
  /\ phase = "orphans"
  /\ step = "pick"
  /\ todo = {}
  /\ quarantined' = {TorrentOf[l] : l \in UnmappedNow}
  /\ \E ts \in SUBSET Demotable(quarantined') : BeginLoop("demote", ts)
  /\ UNCHANGED <<bulkVars, ssdVars, dbVars, layouts, into, pollOk, hotSeen, halt, budget>>

PickDemotion(t) ==
  /\ phase \in DemotePhases
  /\ BeginDemote(t)
  /\ UNCHANGED <<bulkVars, ssdVars, dbVars, viewVars, halt, budget>>

SetCold ==
  /\ phase \in DemotePhases
  /\ step = "remove"
  /\ row' = [row EXCEPT ![cur] = "cold"]
  /\ map' = [map EXCEPT ![cur] = {}]
  /\ NextTorrent
  /\ UNCHANGED <<bulkVars, ssdVars, viewVars, halt, budget>>

-----------------------------------------------------------------------------
(* Step 7b: _cleanup_fs_orphans().                                         *)

InUse == HotTorrents \cup Referenced

\* Mutant: directories are reclaimed after an incomplete poll, too.
ReclaimAlways ==
  /\ phase = "demote"
  /\ step = "pick"
  /\ todo = {}
  /\ BeginLoop("reclaim", dir \ InUse)
  /\ UNCHANGED <<bulkVars, ssdVars, dbVars, viewVars, halt, budget>>

BeginReclaim ==
  /\ phase = "demote"
  /\ step = "pick"
  /\ todo = {}
  /\ BeginLoop("reclaim", IF pollOk THEN dir \ InUse ELSE {})
  /\ UNCHANGED <<bulkVars, ssdVars, dbVars, viewVars, halt, budget>>

\* Mutant: the age comparison is the wrong way round.
PendingWhenOld(t) == intent[t] = "stale" /\ t \in Live /\ side[t] = {}

\* Mutant: the age of the first attempt is not looked at.
PendingAnyAge(t) == intent[t] # "none" /\ t \in Live /\ side[t] = {}

\* Mutant: neither is whether the torrent is still there.
PendingAny(t) == intent[t] # "none" /\ side[t] = {}

\* An interrupted promotion of a torrent that is still there is resumed later.
Pending(t) == intent[t] = "fresh" /\ t \in Live /\ side[t] = {}

KeepPending(t) ==
  /\ phase = "reclaim"
  /\ step = "pick"
  /\ t \in todo
  /\ Pending(t)
  /\ todo' = todo \ {t}
  /\ UNCHANGED <<bulkVars, ssdVars, dbVars, phase, step, cur, rest, viewVars, halt, budget>>

PickReclaim(t) ==
  /\ phase = "reclaim"
  /\ ~Pending(t)
  /\ BeginRetarget(t, side[t])
  /\ UNCHANGED <<bulkVars, ssdVars, dbVars, viewVars, halt, budget>>

Reclaimed ==
  /\ phase = "reclaim"
  /\ step = "remove"
  /\ NextTorrent
  /\ UNCHANGED <<bulkVars, ssdVars, dbVars, viewVars, halt, budget>>

-----------------------------------------------------------------------------
(* Step 8: suspension, then select_displacements() on the tiers as they    *)
(* were when the candidates were built.                                    *)

\* Its victims are hot candidates; with an incomplete poll it is not asked.
Displaceable == IF pollOk THEN hotSeen \ quarantined ELSE {}

BeginDisplace ==
  /\ phase = "reclaim"
  /\ step = "pick"
  /\ todo = {}
  /\ IF quarantined # {} /\ SuspendOnAnomaly
     THEN EndTick
     ELSE /\ \E ts \in SUBSET Displaceable : BeginLoop("displace", ts)
          /\ UNCHANGED <<viewVars, halt>>
  /\ UNCHANGED <<bulkVars, ssdVars, dbVars, budget>>

-----------------------------------------------------------------------------
(* Step 9: promotions, whether or not every instance answered.             *)

\* select_promotions() returns candidates that were not hot.
Promotable == Live \ (hotSeen \cup quarantined)

BeginPromotions ==
  /\ phase = "displace"
  /\ step = "pick"
  /\ todo = {}
  /\ \E ts \in SUBSET Promotable : BeginLoop("promote", ts)
  /\ UNCHANGED <<bulkVars, ssdVars, dbVars, viewVars, halt, budget>>

PickPromotion(t) ==
  /\ phase = "promote"
  /\ ~halt
  /\ BeginPromote(t)
  /\ UNCHANGED <<bulkVars, copies, partial, side, dbVars, viewVars, halt, budget>>

SetHot ==
  /\ phase = "promote"
  /\ step = "publish"
  /\ rest = {}
  /\ row' = [row EXCEPT ![cur] = "hot"]
  /\ map' = [map EXCEPT ![cur] = LayoutsOf(cur)]
  /\ NextTorrent
  /\ UNCHANGED <<bulkVars, ssdVars, viewVars, halt, budget>>

\* The loop is through, or a stop breaks it.
EndPromotions ==
  /\ phase = "promote"
  /\ step = "pick"
  /\ todo = {} \/ halt
  /\ EndTick
  /\ UNCHANGED <<bulkVars, ssdVars, dbVars, budget>>

StopPromotions ==
  /\ phase = "promote"
  /\ CopyStopped
  /\ EndTick
  /\ UNCHANGED <<bulkVars, ssdVars, dbVars, budget>>

-----------------------------------------------------------------------------
(* Failures. demote(), displace and promote() are guarded per torrent; the *)
(* orphan passes and the tier writes are not, and abort the tick.          *)

BulkJobFails ==
  /\ ToBulkRaises \/ RemoveRaises
  /\ \/ phase \in DemotePhases /\ NextTorrent /\ UNCHANGED <<viewVars, halt>>
     \/ phase \in {"orphans", "reclaim"} /\ EndTick
  /\ UNCHANGED <<bulkVars, ssdVars, dbVars>>

PromotionFails ==
  /\ phase = "promote"
  /\ \/ CopyRaises /\ UNCHANGED <<dir, copies, side, intent>>
     \/ (MetaRaises \/ PublishRaises) /\ UNCHANGED ssdVars
  /\ NextTorrent
  /\ UNCHANGED <<bulkVars, dbVars, viewVars, halt>>

TierWriteFails ==
  /\ \/ phase \in DemotePhases \cup {"orphans"} /\ step = "remove"
     \/ phase = "promote" /\ step = "publish" /\ rest = {}
  /\ Disturb("dberror")
  /\ EndTick
  /\ UNCHANGED <<bulkVars, ssdVars, dbVars>>
=============================================================================
