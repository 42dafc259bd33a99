------------------------------ MODULE SeedCache ------------------------------
(***************************************************************************)
(* The whole system: the daemon's tick and startup reconciliation against  *)
(* the world, and the properties that make the cache correct.              *)
(***************************************************************************)
EXTENDS Tick, Reconcile, World

\* A first start on a library whose links all lead to bulk.
Init ==
  /\ listed \in SUBSET Link
  /\ link = [l \in Link |-> IF l \in listed THEN "bulk" ELSE "none"]
  /\ mounted = TRUE
  /\ dir = {}
  /\ copies = {}
  /\ partial = {}
  /\ side = [t \in Torrent |-> {}]
  /\ intent = [t \in Torrent |-> "none"]
  /\ row = [t \in Torrent |-> "none"]
  /\ map = [t \in Torrent |-> {}]
  /\ phase = "down"
  /\ step = "pick"
  /\ todo = {}
  /\ cur = None
  /\ rest = {}
  /\ layouts = {}
  /\ into = {}
  /\ pollOk = FALSE
  /\ hotSeen = {}
  /\ quarantined = {}
  /\ halt = FALSE
  /\ budget = MaxEvents

\* Work on one torrent, whichever loop it belongs to.
BulkWork ==
  \/ \E l \in Link : ToBulk(l)
  \/ UnlinkEntry
  \/ RemoveDir

PromoteWork ==
  \/ \E f \in File : BeginCopy(f) \/ FinishCopy(f)
  \/ CopiesDone
  \/ WriteMeta
  \/ ClearIntent
  \/ \E l \in Link : Publish(l)

Loops ==
  \/ \E t \in Torrent : PickOrphan(t)
  \/ DropOrphanRow
  \/ QuarantineAndDemote
  \/ \E t \in Torrent : PickDemotion(t)
  \/ SetCold
  \/ BeginReclaim
  \/ \E t \in Torrent : KeepPending(t)
  \/ \E t \in Torrent : PickReclaim(t)
  \/ Reclaimed
  \/ BeginDisplace
  \/ BeginPromotions
  \/ \E t \in Torrent : PickPromotion(t)
  \/ SetHot
  \/ EndPromotions
  \/ StopPromotions

Failures ==
  \/ BulkJobFails
  \/ PromotionFails
  \/ TierWriteFails
  \/ ReconcileFails

Reconciliation ==
  \/ Start
  \/ \E t \in Torrent : ReconcileDir(t)
  \/ BeginPassB
  \/ \E t \in Torrent : PickMissing(t)
  \/ DropMissingRow
  \/ EndReconcile

PollTick == \E down \in SUBSET Instance, absent \in SUBSET (Torrent \X Instance) : Poll(down, absent)

Daemon == PollTick \/ Loops \/ BulkWork \/ PromoteWork \/ Failures \/ Reconciliation \/ Exit

Environment ==
  \/ Crash
  \/ RequestStop
  \/ LoseDb
  \/ \E t \in Torrent : LoseDir(t) \/ LoseSidecar(t)
  \/ \E f \in File : LosePayload(f)
  \/ \E l \in Link : Import(l)
  \/ \E t \in Torrent, i \in Instance : RemoveTorrent(t, i)
  \/ \E l, m \in Link : Relocate(l, m)
  \/ Unmount
  \/ Mount
  \/ \E t \in Torrent : IntentExpires(t)

Next == Daemon \/ Environment

Spec == Init /\ [][Next]_vars

\* The daemon is never stuck for good: it goes on whenever it can, the
\* container's restart policy starts it again, and an intent grows old.
FairSpec ==
  /\ Spec
  /\ WF_vars(Daemon)
  /\ \A t \in Torrent : WF_vars(IntentExpires(t))

-----------------------------------------------------------------------------
(* Safety of links and mappings.                                           *)

\* A link an instance seeds from that leads to an SSD copy which is not there.
Dangling == {l \in listed : link[l] = "ssd" /\ FileOf[l] \notin copies}

\* While the daemon runs, no link into the SSD loses the last record of its
\* bulk file: not in a promotion that rewrites the sidecar, a demotion, an
\* orphan clean-up or a reconciliation, whatever fails or crashes in between.
KeepsMappings == phase # "down" => Unmapped' \subseteq Unmapped

MappingSurvives == [][KeepsMappings]_vars

\* Lost mappings that the orphan clean-up runs over: it precedes the quarantine
\* and takes the torrent for gone when no other link of it resolves.
Forsaken == {l \in Link : phase = "orphans" /\ ~Known(l)}

\* While the daemon runs, no seeded link is left leading nowhere: a copy is
\* only removed when the links that use it are back on bulk. From the
\* quarantine on this includes the links whose mapping is lost for good.
DanglesNothing == phase # "down" => Dangling' \subseteq Dangling \cup Forsaken

NoNewDangling == [][DanglesNothing]_vars

\* promote() publishes a link only when its copy is whole and the sidecar says
\* where its bulk file is, also when the torrent was promoted before by half,
\* with other links, or by a process that died.
PublishesInOrder ==
  \A l \in Link : /\ phase = "promote"
                  /\ link[l] = "bulk"
                  /\ link'[l] = "ssd"
                  => FileOf[l] \in copies /\ l \in side[TorrentOf[l]]

WriteAhead == [][PublishesInOrder]_vars

\* Between startup reconciliation and the next stop the database counts every
\* torrent with a recoverable link into the SSD as hot, so that the quota sees
\* its bytes: all but the one being published.
HotAccounted ==
  phase \notin {"down", "reconA", "reconB"} =>
    \A l \in Link : link[l] = "ssd" /\ Known(l) =>
       row[TorrentOf[l]] = "hot" \/ (phase = "promote" /\ cur = TorrentOf[l])

\* A tick in which an instance did not answer removes no copy, whatever else
\* it does: the torrents of that instance may still be seeded from there.
UnseenCopiesStay == [][phase # "down" /\ ~pollOk => copies \subseteq copies']_vars

\* Reclaiming never takes the directory of a promotion that was interrupted
\* and can be resumed: its torrent is there, its intent is young, nothing was
\* published.
PendingKept ==
  [][\A t \in Torrent :
       /\ phase = "reclaim"
       /\ cur = None
       /\ cur' = t
       => ~(/\ intent[t] = "fresh"
            /\ side[t] = {}
            /\ \E l \in listed \cap LinksOf(t) : link[l] = "bulk")]_vars

\* The cache implements the ledger it promises to be.
Ledger == INSTANCE LinkLedger WITH
  up <- phase # "down",
  where <- link,
  recorded <- {l \in Link : Known(l)},
  stored <- copies

LedgerSpec == Ledger!LedgerSpec

-----------------------------------------------------------------------------
(* Why the properties above hold: what every step relies on.               *)

\* promote() goes through its stages in order and keeps to its layouts.
PromotionOrder ==
  /\ step \in {"copy", "meta", "clear", "publish"} => phase = "promote" /\ rest \subseteq LayoutsOf(cur)
  /\ step \in {"meta", "clear", "publish"} => Wanted(cur) \subseteq copies
  /\ step \in {"clear", "publish"} => side[cur] = LayoutsOf(cur)

\* Faults under which a mapping can really be lost (see the violation runs).
RoughFaults == {"publish", "dberror", "midtick", "move", "unmount"}

TickPhases == {"orphans", "demote", "reclaim", "displace", "promote"}
Publishing(t) == cur = t /\ step = "publish"
OnSsd(l) == link[l] = "ssd"

\* Stages, loops and the tick's view.
LoopInv ==
  /\ mounted
  /\ phase \in {"down", "idle", "reconA"} => step = "pick"
  /\ step \in {"links", "remove"} => phase \in BulkPhases
  /\ phase \notin TickPhases => layouts = {}
  /\ \A l \in layouts : link[l] # "none"

\* Each loop visits torrents in the state it was started for.
VisitInv ==
  /\ phase = "reconA" => todo \subseteq dir
  /\ phase = "reconB" =>
       /\ todo \cap dir = {}
       /\ step # "pick" => cur \notin dir
  /\ phase \in {"orphans", "demote", "reclaim", "displace"} => Live \cap HotTorrents \subseteq hotSeen
  /\ phase = "reclaim" =>
       /\ todo \cap HotTorrents = {}
       /\ step # "pick" => row[cur] # "hot"
  /\ phase = "promote" =>
       /\ todo \cap HotTorrents = {}
       /\ step # "pick" => row[cur] # "hot" /\ cur \notin todo

\* The two records of a mapping.
RecordInv ==
  /\ \A t \in Torrent : side[t] # {} => t \in dir
  /\ \A t \in Torrent : row[t] # "hot" => map[t] = {}
  /\ \A l \in Link : OnSsd(l) /\ l \in side[TorrentOf[l]] /\ HotMap(TorrentOf[l]) # {}
                       => l \in map[TorrentOf[l]]

\* Once a torrent is reconciled, a recorded link into the SSD makes it hot.
HotInv ==
  \A l \in Link : OnSsd(l) /\ l \in side[TorrentOf[l]] /\ row[TorrentOf[l]] # "hot" =>
    \/ phase = "down"
    \/ phase = "reconA" /\ TorrentOf[l] \in todo
    \/ Publishing(TorrentOf[l])

\* A layout's link leads into the SSD only by the map of its hot row.
LayoutInv ==
  \A l \in layouts : OnSsd(l) => l \in HotMap(TorrentOf[l]) \/ Publishing(TorrentOf[l])

\* What is still to retarget covers every recorded link into the SSD.
WorkInv ==
  step \in {"links", "remove"} =>
    /\ \A l \in LinksOf(cur) : OnSsd(l) /\ Known(l) => l \in rest
    /\ step = "remove" => rest = {}

MappingInv == PromotionOrder /\ LoopInv /\ VisitInv /\ RecordInv /\ HotInv /\ LayoutInv /\ WorkInv

\* Whom a loop that removes copies may visit: nobody after an incomplete poll,
\* then only torrents the poll resolved, without the quarantined ones, and
\* directories nothing seen leads into.
Visited == IF step = "pick" THEN todo ELSE todo \cup {cur}

VisitedInv ==
  /\ hotSeen \subseteq Live
  /\ ~pollOk /\ phase \in TickPhases \ {"promote"} => Visited = {}
  /\ phase \in DemotePhases => Visited \subseteq hotSeen \ quarantined
  /\ phase = "reclaim" => Visited \cap Referenced = {}

\* What has been removed is not there, a promotion marker lies in a directory,
\* and notes name a torrent's own links.
NothingLeft == step = "remove" /\ phase # "reconB" => cur \notin dir
MarkerInDir == \A t \in Torrent : intent[t] # "none" => t \in dir
OwnNotes == \A t \in Torrent : side[t] \subseteq LinksOf(t) /\ map[t] \subseteq LinksOf(t)

\* The work on a torrent is on its links, and it is not visited twice.
OwnWork == step # "pick" => rest \subseteq LinksOf(cur) /\ cur \notin todo

VictimInv == VisitedInv /\ NothingLeft /\ MarkerInDir /\ OwnNotes /\ OwnWork

\* A complete view shows every lost mapping, and every link on bulk as a layout
\* but those that were retargeted with their directory.
Retargeted(t) ==
  \/ t \notin dir
  \/ phase = "orphans" /\ step # "pick" /\ cur = t
  \/ phase = "reclaim" /\ t \notin todo

ViewInv ==
  "absent" \notin Faults /\ pollOk /\ phase \in TickPhases =>
    \A l \in listed :
      /\ l \in Unmapped => l \in into
      /\ l \in Unmapped => phase = "orphans" \/ TorrentOf[l] \in quarantined
      /\ phase \in {"orphans", "demote", "reclaim"} /\ link[l] = "bulk" =>
           TorrentOf[l] \in Live \/ Retargeted(TorrentOf[l])

IndInv == MappingInv /\ VictimInv /\ ViewInv

-----------------------------------------------------------------------------
(* Liveness, under FairSpec.                                               *)

\* The directory of a torrent no instance holds any more is removed in the end.
OrphansReclaimed ==
  \A t \in Torrent :
    (t \in dir /\ listed \cap LinksOf(t) = {}) ~> (t \notin dir \/ listed \cap LinksOf(t) # {})

\* A mapped link whose directory was deleted while the daemon was down gets
\* back to bulk.
LostDirHealed ==
  \A l \in Link :
    (/\ phase = "down"
     /\ link[l] = "ssd"
     /\ l \in HotMap(TorrentOf[l])
     /\ TorrentOf[l] \notin dir) ~> (link[l] # "ssd" \/ TorrentOf[l] \in dir)

\* A promotion that keeps failing does not pin its partial copy forever.
NoPartialPinned == \A p \in File : p \in partial ~> p \notin partial

-----------------------------------------------------------------------------
(* What the documentation says and the code does not do (see README).      *)

\* docs/architecture.md:161: with the bulk filesystem gone hot torrents keep
\* their copy.
UnmountedKeepsCopies == [][phase # "down" /\ ~mounted => copies \subseteq copies']_vars
=============================================================================
