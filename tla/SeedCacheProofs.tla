--------------------------- MODULE SeedCacheProofs ---------------------------
(***************************************************************************)
(* Theorems about SeedCache for every library, every number of instances,  *)
(* every set of faults and every number of events. Then, without the       *)
(* faults in RoughFaults: the mapping of a published link is never lost    *)
(* while the daemon runs, and the database accounts for it, by the         *)
(* inductive invariant MappingInv.                                         *)
(***************************************************************************)
EXTENDS SeedCache, TLAPS

-----------------------------------------------------------------------------
(* Type correctness.                                                       *)

\* The helpers that end or begin work keep the types of what they assign.
LEMMA TypeInit == Init => TypeOK
<1> SUFFICES ASSUME Init PROVE TypeOK
  OBVIOUS
<1>1. budget \in 0..MaxEvents
  BY EventsAssumption DEF Init
<1>2. mounted \in BOOLEAN /\ pollOk \in BOOLEAN /\ halt \in BOOLEAN
  BY DEF Init
<1>3. link \in [Link -> {"none", "bulk", "ssd"}]
  BY DEF Init
<1> QED
  BY <1>1, <1>2, <1>3 DEF Init, TypeOK, Phases, Steps

LEMMA TypeLoops == TypeOK /\ Loops => TypeOK'
<1> SUFFICES ASSUME TypeOK, Loops PROVE TypeOK'
  OBVIOUS
<1> USE LinksAssumption DEF TypeOK, Phases, Steps, bulkVars, ssdVars, dbVars, workVars, viewVars
<1>1. ASSUME NEW t \in Torrent, PickOrphan(t) PROVE TypeOK'
  BY <1>1 DEF PickOrphan, BeginRetarget, Take, BulkTargetsFor
<1>2. CASE DropOrphanRow
  BY <1>2 DEF DropOrphanRow, NextTorrent
<1>3. CASE QuarantineAndDemote
  BY <1>3 DEF QuarantineAndDemote, Demotable, BeginLoop, UnmappedNow
<1>4. ASSUME NEW t \in Torrent, PickDemotion(t) PROVE TypeOK'
  BY <1>4 DEF PickDemotion, BeginDemote, Take, BulkTargetsFor, LayoutsOf
<1>5. CASE SetCold
  BY <1>5 DEF SetCold, NextTorrent
<1>6. CASE BeginReclaim
  BY <1>6 DEF BeginReclaim, BeginLoop
<1>7. ASSUME NEW t \in Torrent, KeepPending(t) PROVE TypeOK'
  BY <1>7 DEF KeepPending
<1>8. ASSUME NEW t \in Torrent, PickReclaim(t) PROVE TypeOK'
  BY <1>8 DEF PickReclaim, BeginRetarget, Take
<1>9. CASE Reclaimed
  BY <1>9 DEF Reclaimed, NextTorrent
<1>10. CASE BeginDisplace
  <2>1. CASE quarantined # {} /\ SuspendOnAnomaly
    BY <1>10, <2>1 DEF BeginDisplace, EndTick, NoWork, ForgetView
  <2>2. CASE ~(quarantined # {} /\ SuspendOnAnomaly)
    BY <1>10, <2>2 DEF BeginDisplace, Displaceable, BeginLoop
  <2> QED
    BY <2>1, <2>2
<1>11. CASE BeginPromotions
  BY <1>11 DEF BeginPromotions, Promotable, BeginLoop, Live
<1>12. ASSUME NEW t \in Torrent, PickPromotion(t) PROVE TypeOK'
  BY <1>12 DEF PickPromotion, BeginPromote, Take, LayoutsOf
<1>13. CASE SetHot
  BY <1>13 DEF SetHot, NextTorrent, LayoutsOf
<1>14. CASE EndPromotions
  BY <1>14 DEF EndPromotions, EndTick, NoWork, ForgetView
<1>15. CASE StopPromotions
  BY <1>15 DEF StopPromotions, EndTick, NoWork, ForgetView
<1> QED
  BY <1>1, <1>2, <1>3, <1>4, <1>5, <1>6, <1>7, <1>8, <1>9, <1>10, <1>11, <1>12, <1>13, <1>14, <1>15 DEF Loops

LEMMA TypeBulkWork == TypeOK /\ BulkWork => TypeOK'
<1> SUFFICES ASSUME TypeOK, BulkWork PROVE TypeOK'
  OBVIOUS
<1> USE LinksAssumption DEF TypeOK, Phases, Steps, bulkVars, ssdVars, dbVars, workVars, viewVars
<1>1. ASSUME NEW l \in Link, ToBulk(l) PROVE TypeOK'
  BY <1>1 DEF ToBulk
<1>2. CASE UnlinkEntry
  BY <1>2 DEF UnlinkEntry
<1>3. CASE RemoveDir
  BY <1>3 DEF RemoveDir
<1> QED
  BY <1>1, <1>2, <1>3 DEF BulkWork

LEMMA TypePromoteWork == TypeOK /\ PromoteWork => TypeOK'
<1> SUFFICES ASSUME TypeOK, PromoteWork PROVE TypeOK'
  OBVIOUS
<1> USE LinksAssumption DEF TypeOK, Phases, Steps, bulkVars, ssdVars, dbVars, workVars, viewVars
<1>1. ASSUME NEW p \in File, BeginCopy(p) PROVE TypeOK'
  BY <1>1 DEF BeginCopy, Wanted, LayoutsOf
<1>2. ASSUME NEW p \in File, FinishCopy(p) PROVE TypeOK'
  BY <1>2 DEF FinishCopy
<1>3. CASE CopiesDone
  BY <1>3 DEF CopiesDone
<1>4. CASE WriteMeta
  BY <1>4 DEF WriteMeta, LayoutsOf
<1>5. CASE ClearIntent
  BY <1>5 DEF ClearIntent
<1>6. ASSUME NEW l \in Link, Publish(l) PROVE TypeOK'
  BY <1>6 DEF Publish
<1> QED
  BY <1>1, <1>2, <1>3, <1>4, <1>5, <1>6 DEF PromoteWork

LEMMA TypeFailures == TypeOK /\ Failures => TypeOK'
<1> SUFFICES ASSUME TypeOK, Failures PROVE TypeOK'
  OBVIOUS
<1> USE LinksAssumption DEF TypeOK, Phases, Steps, bulkVars, ssdVars, dbVars, workVars, viewVars
<1>1. CASE BulkJobFails
  <2>1. budget' \in 0..MaxEvents
    BY <1>1, EventsAssumption DEF BulkJobFails, ToBulkRaises, RemoveRaises, Disturb
  <2>2. CASE phase \in DemotePhases /\ NextTorrent /\ UNCHANGED <<viewVars, halt>>
    BY <1>1, <2>1, <2>2 DEF BulkJobFails, NextTorrent
  <2>3. CASE EndTick
    BY <1>1, <2>1, <2>3 DEF BulkJobFails, EndTick, NoWork, ForgetView
  <2> QED
    BY <1>1, <2>2, <2>3 DEF BulkJobFails
<1>2. CASE PromotionFails
  <2>1. budget' \in 0..MaxEvents
    BY <1>2, EventsAssumption DEF PromotionFails, CopyRaises, MetaRaises, PublishRaises, Disturb
  <2> QED
    BY <1>2, <2>1 DEF PromotionFails, CopyRaises, NextTorrent
<1>3. CASE TierWriteFails
  <2>1. budget' \in 0..MaxEvents
    BY <1>3, EventsAssumption DEF TierWriteFails, Disturb
  <2> QED
    BY <1>3, <2>1 DEF TierWriteFails, EndTick, NoWork, ForgetView
<1>4. CASE ReconcileFails
  <2>1. budget' \in 0..MaxEvents
    BY <1>4, EventsAssumption DEF ReconcileFails, ToBulkRaises, Disturb
  <2> QED
    BY <1>4, <2>1 DEF ReconcileFails, ProcessDies, NoWork, ForgetView
<1> QED
  BY <1>1, <1>2, <1>3, <1>4 DEF Failures

LEMMA TypeReconciliation == TypeOK /\ Reconciliation => TypeOK'
<1> SUFFICES ASSUME TypeOK, Reconciliation PROVE TypeOK'
  OBVIOUS
<1> USE LinksAssumption DEF TypeOK, Phases, Steps, bulkVars, ssdVars, dbVars, workVars, viewVars
<1>1. CASE Start
  BY <1>1 DEF Start, BeginLoop
<1>2. ASSUME NEW t \in Torrent, ReconcileDir(t) PROVE TypeOK'
  BY <1>2 DEF ReconcileDir
<1>3. CASE BeginPassB
  BY <1>3 DEF BeginPassB, BeginLoop, HotTorrents
<1>4. ASSUME NEW t \in Torrent, PickMissing(t) PROVE TypeOK'
  BY <1>4 DEF PickMissing, BeginRetarget, Take
<1>5. CASE DropMissingRow
  BY <1>5 DEF DropMissingRow, NextTorrent
<1>6. CASE EndReconcile
  BY <1>6 DEF EndReconcile, EndTick, NoWork, ForgetView
<1> QED
  BY <1>1, <1>2, <1>3, <1>4, <1>5, <1>6 DEF Reconciliation

LEMMA TypeEnvironment == TypeOK /\ Environment => TypeOK'
<1> SUFFICES ASSUME TypeOK, Environment PROVE TypeOK'
  OBVIOUS
<1> USE LinksAssumption DEF TypeOK, Phases, Steps, bulkVars, ssdVars, dbVars, workVars, viewVars
<1>1. CASE Crash
  <2>1. budget' \in 0..MaxEvents
    BY <1>1, EventsAssumption DEF Crash, Disturb
  <2> QED
    BY <1>1, <2>1 DEF Crash, ProcessDies, NoWork, ForgetView
<1>2. CASE RequestStop
  <2>1. budget' \in 0..MaxEvents
    BY <1>2, EventsAssumption DEF RequestStop, Disturb
  <2> QED
    BY <1>2, <2>1 DEF RequestStop
<1>3. CASE LoseDb
  <2>1. budget' \in 0..MaxEvents
    BY <1>3, EventsAssumption DEF LoseDb, Disturb
  <2> QED
    BY <1>3, <2>1 DEF LoseDb, DownVars
<1>4. ASSUME NEW t \in Torrent, LoseDir(t) PROVE TypeOK'
  <2>1. budget' \in 0..MaxEvents
    BY <1>4, EventsAssumption DEF LoseDir, Disturb
  <2> QED
    BY <1>4, <2>1 DEF LoseDir, DownVars
<1>5. ASSUME NEW t \in Torrent, LoseSidecar(t) PROVE TypeOK'
  <2>1. budget' \in 0..MaxEvents
    BY <1>5, EventsAssumption DEF LoseSidecar, Disturb
  <2> QED
    BY <1>5, <2>1 DEF LoseSidecar, DownVars
<1>6. ASSUME NEW p \in File, LosePayload(p) PROVE TypeOK'
  <2>1. budget' \in 0..MaxEvents
    BY <1>6, EventsAssumption DEF LosePayload, Disturb
  <2> QED
    BY <1>6, <2>1 DEF LosePayload, DownVars
<1>7. ASSUME NEW l \in Link, Import(l) PROVE TypeOK'
  <2>1. budget' \in 0..MaxEvents
    BY <1>7, EventsAssumption DEF Import, Disturb
  <2> QED
    BY <1>7, <2>1 DEF Import, ProgramVars
<1>8. ASSUME NEW t \in Torrent, NEW i \in Instance, RemoveTorrent(t, i) PROVE TypeOK'
  <2>1. budget' \in 0..MaxEvents
    BY <1>8, EventsAssumption DEF RemoveTorrent, Disturb
  <2> QED
    BY <1>8, <2>1 DEF RemoveTorrent, ProgramVars
<1>9. ASSUME NEW l \in Link, NEW m \in Link, Relocate(l, m) PROVE TypeOK'
  <2>1. budget' \in 0..MaxEvents
    BY <1>9, EventsAssumption DEF Relocate, Disturb
  <2> QED
    BY <1>9, <2>1 DEF Relocate, ProgramVars
<1>10. CASE Unmount
  <2>1. budget' \in 0..MaxEvents
    BY <1>10, EventsAssumption DEF Unmount, Disturb
  <2> QED
    BY <1>10, <2>1 DEF Unmount, ProgramVars
<1>11. CASE Mount
  BY <1>11 DEF Mount, ProgramVars
<1>12. ASSUME NEW t \in Torrent, IntentExpires(t) PROVE TypeOK'
  BY <1>12 DEF IntentExpires
<1> QED
  BY <1>1, <1>2, <1>3, <1>4, <1>5, <1>6, <1>7, <1>8, <1>9, <1>10, <1>11, <1>12 DEF Environment

LEMMA TypePoll == TypeOK /\ PollTick => TypeOK'
<1> SUFFICES ASSUME TypeOK, NEW down \in SUBSET Instance,
                    NEW absent \in SUBSET (Torrent \X Instance), Poll(down, absent)
             PROVE TypeOK'
  BY DEF PollTick
<1> USE LinksAssumption DEF TypeOK, Phases, Steps, bulkVars, ssdVars
<1>1. budget' \in 0..MaxEvents
  BY EventsAssumption DEF Poll
<1>2. layouts' \subseteq Link /\ into' \subseteq Link /\ hotSeen' \subseteq Torrent
  <2>1. SeenLinks(down, absent) \subseteq Link
    BY DEF SeenLinks
  <2>2. Resolved(SeenLinks(down, absent)) \subseteq Link
    BY <2>1 DEF Resolved
  <2>3. \A l \in Link : TorrentOf[l] \in Torrent
    OBVIOUS
  <2>4. layouts' \subseteq Link /\ into' \subseteq Link
    BY <2>1, <2>2 DEF Poll, IntoSsd
  <2>5. hotSeen' \subseteq Torrent
    BY <2>2, <2>3 DEF Poll
  <2> QED
    BY <2>4, <2>5
<1>3. row' \in [Torrent -> {"none", "cold", "hot"}]
  <2>1. ASSUME NEW t, NEW ls PROVE BootstrapTier(t, ls) \in {"hot", "cold"}
    BY DEF BootstrapTier
  <2> QED
    BY <2>1 DEF Poll
<1>4. map' \in [Torrent -> SUBSET Link]
  BY DEF Poll, Resolved, SeenLinks
<1>5. pollOk' \in BOOLEAN /\ halt' \in BOOLEAN /\ mounted' \in BOOLEAN
  BY DEF Poll
<1>6. /\ phase' = "orphans" /\ step' = "pick" /\ cur' = None /\ rest' = {} /\ quarantined' = {}
      /\ todo' \subseteq Torrent
  BY DEF Poll, BeginLoop
<1> QED
  BY <1>1, <1>2, <1>3, <1>4, <1>5, <1>6 DEF Poll

LEMMA TypeExit == TypeOK /\ Exit => TypeOK'
BY DEF TypeOK, Phases, Steps, Exit, ProcessDies, NoWork, ForgetView, bulkVars, ssdVars, dbVars

LEMMA TypeStep == TypeOK /\ [Next]_vars => TypeOK'
<1> SUFFICES ASSUME TypeOK, [Next]_vars PROVE TypeOK'
  OBVIOUS
<1>1. CASE UNCHANGED vars
  BY <1>1 DEF TypeOK, vars, bulkVars, ssdVars, dbVars, workVars, viewVars
<1>2. CASE Daemon
  BY <1>2, TypePoll, TypeLoops, TypeBulkWork, TypePromoteWork, TypeFailures, TypeReconciliation, TypeExit DEF Daemon
<1>3. CASE Environment
  BY <1>3, TypeEnvironment
<1> QED
  BY <1>1, <1>2, <1>3 DEF Next

\* Every variable keeps its type, whatever the daemon and the world do.
THEOREM TypeCorrect == Spec => []TypeOK
<1>1. Init => TypeOK
  BY TypeInit
<1>2. TypeOK /\ [Next]_vars => TypeOK'
  BY TypeStep
<1> QED
  BY <1>1, <1>2, PTL DEF Spec

-----------------------------------------------------------------------------
(* The order of a promotion, under every fault.                            *)

LEMMA OrderLoops == TypeOK /\ PromotionOrder /\ Loops => PromotionOrder'
<1> SUFFICES ASSUME TypeOK, PromotionOrder, Loops PROVE PromotionOrder'
  OBVIOUS
<1> USE DEF PromotionOrder
<1>1. ASSUME NEW t \in Torrent, PickPromotion(t) PROVE PromotionOrder'
  BY <1>1 DEF PickPromotion, BeginPromote, Take, LayoutsOf, viewVars
<1>2. CASE \/ \E t \in Torrent : PickOrphan(t) \/ PickDemotion(t) \/ PickReclaim(t) \/ KeepPending(t)
  BY <1>2 DEF PickOrphan, PickDemotion, PickReclaim, KeepPending, BeginRetarget, BeginDemote, Take
<1>3. CASE DropOrphanRow \/ SetCold \/ Reclaimed \/ SetHot
  BY <1>3 DEF DropOrphanRow, SetCold, Reclaimed, SetHot, NextTorrent
<1>4. CASE QuarantineAndDemote \/ BeginReclaim \/ BeginPromotions
  BY <1>4 DEF QuarantineAndDemote, BeginReclaim, BeginPromotions, BeginLoop
<1>5. CASE BeginDisplace \/ EndPromotions \/ StopPromotions
  BY <1>5 DEF BeginDisplace, EndPromotions, StopPromotions, BeginLoop, EndTick, NoWork
<1> QED
  BY <1>1, <1>2, <1>3, <1>4, <1>5 DEF Loops

LEMMA OrderPromoteWork == TypeOK /\ PromotionOrder /\ PromoteWork => PromotionOrder'
<1> SUFFICES ASSUME TypeOK, PromotionOrder, PromoteWork PROVE PromotionOrder'
  OBVIOUS
<1> USE DEF PromotionOrder, workVars, viewVars
<1>1. ASSUME NEW p \in File, BeginCopy(p) \/ FinishCopy(p) PROVE PromotionOrder'
  BY <1>1 DEF BeginCopy, FinishCopy, LayoutsOf, Wanted
<1>2. CASE CopiesDone
  BY <1>2 DEF CopiesDone, ssdVars, LayoutsOf, Wanted
<1>3. CASE WriteMeta
  BY <1>3 DEF WriteMeta, TypeOK, LayoutsOf, Wanted
<1>4. CASE ClearIntent
  BY <1>4 DEF ClearIntent, LayoutsOf, Wanted
<1>5. ASSUME NEW l \in Link, Publish(l) PROVE PromotionOrder'
  BY <1>5 DEF Publish, ssdVars, LayoutsOf, Wanted
<1> QED
  BY <1>1, <1>2, <1>3, <1>4, <1>5 DEF PromoteWork

LEMMA OrderStep == TypeOK /\ PromotionOrder /\ [Next]_vars => PromotionOrder'
<1> SUFFICES ASSUME TypeOK, PromotionOrder, [Next]_vars PROVE PromotionOrder'
  OBVIOUS
<1> USE DEF PromotionOrder
<1>1. CASE UNCHANGED vars
  BY <1>1 DEF vars, ssdVars, workVars, viewVars, LayoutsOf, Wanted
<1>2. CASE PollTick
  BY <1>2 DEF PollTick, Poll, BeginLoop
<1>3. CASE BulkWork
  BY <1>3 DEF BulkWork, ToBulk, UnlinkEntry, RemoveDir, workVars
<1>4. CASE Failures
  BY <1>4 DEF Failures, BulkJobFails, PromotionFails, TierWriteFails, ReconcileFails, EndTick,
              ProcessDies, NoWork, NextTorrent
<1>5. CASE Reconciliation
  BY <1>5 DEF Reconciliation, Start, ReconcileDir, BeginPassB, PickMissing, DropMissingRow,
              EndReconcile, BeginLoop, BeginRetarget, Take, NextTorrent, EndTick, NoWork
<1>6. CASE Exit \/ Crash
  BY <1>6 DEF Exit, Crash, ProcessDies, NoWork
<1>7. CASE RequestStop \/ Unmount \/ Mount \/ \E l, m \in Link : Import(l) \/ Relocate(l, m)
  BY <1>7 DEF RequestStop, Unmount, Mount, Import, Relocate, ProgramVars, ssdVars, workVars, viewVars,
              LayoutsOf, Wanted
<1>8. CASE \E t \in Torrent, i \in Instance : RemoveTorrent(t, i)
  BY <1>8 DEF RemoveTorrent, ProgramVars, ssdVars, workVars, viewVars, LayoutsOf, Wanted
<1>9. CASE \/ LoseDb
           \/ \E t \in Torrent : LoseDir(t) \/ LoseSidecar(t)
           \/ \E p \in File : LosePayload(p)
  BY <1>9 DEF LoseDb, LoseDir, LoseSidecar, LosePayload, DownVars, workVars
<1>10. CASE \E t \in Torrent : IntentExpires(t)
  BY <1>10 DEF IntentExpires, workVars, viewVars, LayoutsOf, Wanted
<1> QED
  BY <1>1, <1>2, <1>3, <1>4, <1>5, <1>6, <1>7, <1>8, <1>9, <1>10, OrderLoops, OrderPromoteWork
  DEF Next, Daemon, Environment

\* Through every fault a promotion keeps its order: whole copies, then the
\* sidecar, then the links.
THEOREM PromotionOrdered == Spec => []PromotionOrder
<1>1. Init => PromotionOrder
  BY DEF Init, PromotionOrder
<1>2. TypeOK /\ PromotionOrder /\ [Next]_vars => PromotionOrder'
  BY OrderStep
<1> QED
  BY <1>1, <1>2, TypeCorrect, PTL DEF Spec

\* Only Publish leads a link from bulk into the SSD.
LEMMA OnlyPublish ==
  ASSUME TypeOK, Next, NEW l \in Link, link[l] = "bulk", link'[l] = "ssd"
  PROVE  Publish(l)
<1> USE DEF bulkVars
<1>1. CASE PollTick \/ Loops \/ Failures \/ Reconciliation \/ Exit
  <2>1. link' = link
    BY <1>1 DEF PollTick, Poll, Loops, PickOrphan, DropOrphanRow, QuarantineAndDemote, PickDemotion,
       SetCold, BeginReclaim, KeepPending, PickReclaim, Reclaimed, BeginDisplace, BeginPromotions,
       PickPromotion, SetHot, EndPromotions, StopPromotions, Failures, BulkJobFails, PromotionFails,
       TierWriteFails, ReconcileFails, Reconciliation, Start, ReconcileDir, BeginPassB, PickMissing,
       DropMissingRow, EndReconcile, Exit
  <2> QED
    BY <2>1
<1>2. CASE BulkWork
  BY <1>2 DEF BulkWork, ToBulk, UnlinkEntry, RemoveDir, TypeOK
<1>3. CASE PromoteWork
  BY <1>3 DEF PromoteWork, BeginCopy, FinishCopy, CopiesDone, WriteMeta, ClearIntent, Publish, TypeOK
<1>4. CASE Environment
  <2>1. CASE \E k, m \in Link : Import(k) \/ Relocate(k, m)
    BY <2>1 DEF Import, Relocate, TypeOK
  <2>2. CASE \E t \in Torrent, i \in Instance : RemoveTorrent(t, i)
    BY <2>2 DEF RemoveTorrent, TypeOK
  <2>3. CASE link' = link
    BY <2>3
  <2> QED
    BY <1>4, <2>1, <2>2, <2>3 DEF Environment, Crash, RequestStop, LoseDb, LoseDir, LoseSidecar,
       LosePayload, DownVars, Unmount, Mount, IntentExpires
<1> QED
  BY <1>1, <1>2, <1>3, <1>4 DEF Next, Daemon

LEMMA PublishStep == TypeOK /\ PromotionOrder /\ [Next]_vars => [PublishesInOrder]_vars
<1> SUFFICES ASSUME TypeOK, PromotionOrder, Next, NEW l \in Link,
                    link[l] = "bulk", link'[l] = "ssd"
             PROVE  FileOf[l] \in copies /\ l \in side[TorrentOf[l]]
  BY DEF PublishesInOrder
<1>1. Publish(l)
  BY OnlyPublish
<1>2. l \in LayoutsOf(cur) /\ side[cur] = LayoutsOf(cur) /\ Wanted(cur) \subseteq copies
  BY <1>1 DEF Publish, PromotionOrder
<1>3. TorrentOf[l] = cur /\ FileOf[l] \in Wanted(cur)
  BY <1>2 DEF LayoutsOf, LinksOf, Wanted
<1> QED
  BY <1>2, <1>3

\* No link is published before its copy is whole and its mapping on disk.
THEOREM WriteAheadHolds == Spec => WriteAhead
<1>1. TypeOK /\ PromotionOrder /\ [Next]_vars => [PublishesInOrder]_vars
  BY PublishStep
<1> QED
  BY <1>1, TypeCorrect, PromotionOrdered, PTL DEF Spec, WriteAhead

-----------------------------------------------------------------------------
(* Mappings, without the rough faults.                                     *)

\* None of the faults under which mappings can be lost occurs.
Gentle == Faults \cap RoughFaults = {}

\* The bulk filesystem stays, links change between ticks only, publication
\* and tier writes do not fail.
LEMMA GentleDisturb ==
  ASSUME Gentle, NEW k \in RoughFaults, Disturb(k)
  PROVE  FALSE
BY DEF Gentle, Disturb

-----------------------------------------------------------------------------
(* The view a poll establishes.                                            *)

LEMMA PollView ==
  ASSUME TypeOK, PollTick
  PROVE  /\ layouts' \subseteq {l \in Link : IsSymlink(l)}
         /\ \A l \in layouts' : link[l] = "bulk" \/ l \in HotMap(TorrentOf[l])
         /\ hotSeen' = {TorrentOf[l] : l \in layouts'} \cap HotTorrents
         /\ \A t \in Torrent : row'[t] = "hot" <=> row[t] = "hot"
         /\ \A t \in Torrent : row[t] = "hot" \/ row'[t] # "hot" => map'[t] = map[t]
<1> PICK down \in SUBSET Instance, absent \in SUBSET (Torrent \X Instance) : Poll(down, absent)
  BY DEF PollTick
<1> DEFINE seen == SeenLinks(down, absent)
           ls == Resolved(seen)
<1>1. seen \subseteq {l \in Link : IsSymlink(l)}
  BY DEF SeenLinks, TypeOK
<1>2. ls \subseteq seen /\ \A l \in ls : link[l] = "bulk" \/ l \in HotMap(TorrentOf[l])
  BY DEF Resolved
<1>3. layouts' = ls
  BY DEF Poll
<1>4. \A l \in Link : TorrentOf[l] \in Torrent
  BY LinksAssumption
<1>5. hotSeen' = {TorrentOf[l] : l \in ls} \cap HotTorrents
  BY <1>1, <1>2, <1>4 DEF Poll, HotTorrents
<1> DEFINE new == {t \in {TorrentOf[l] : l \in ls} : row[t] = "none"}
<1>6. \A t \in new : BootstrapTier(t, ls) = "cold"
  <2> TAKE t \in new
  <2>1. PICK l \in ls : TorrentOf[l] = t
    OBVIOUS
  <2>2. l \in LinksOf(t) /\ link[l] = "bulk"
    BY <1>1, <1>2, <2>1 DEF LinksOf, HotMap
  <2> QED
    BY <2>1, <2>2 DEF BootstrapTier
<1>7. row' = [t \in Torrent |-> IF t \in new THEN BootstrapTier(t, ls) ELSE row[t]]
  BY DEF Poll
<1>8. \A t \in Torrent : row'[t] = "hot" <=> row[t] = "hot"
  BY <1>6, <1>7
<1>9. map' = [t \in Torrent |-> IF t \in new /\ BootstrapTier(t, ls) = "hot"
                                THEN ls \cap LinksOf(t) ELSE map[t]]
  BY DEF Poll
<1>10. \A t \in Torrent : map'[t] = map[t]
  BY <1>6, <1>9
<1> QED
  BY <1>1, <1>2, <1>3, <1>5, <1>8, <1>10

-----------------------------------------------------------------------------
(* LoopInv.                                                                *)

LEMMA LoopLoops == ASSUME TypeOK, LoopInv, Loops PROVE LoopInv'
<1> USE DEF LoopInv, BulkPhases, DemotePhases, TickPhases, bulkVars, viewVars, Take, NextTorrent,
           BeginLoop, EndTick, NoWork, ForgetView
<1>1. CASE \E t \in Torrent : PickOrphan(t) \/ PickDemotion(t) \/ PickReclaim(t) \/ KeepPending(t)
  BY <1>1 DEF PickOrphan, PickDemotion, PickReclaim, KeepPending, BeginRetarget, BeginDemote
<1>2. CASE \E t \in Torrent : PickPromotion(t)
  BY <1>2 DEF PickPromotion, BeginPromote
<1>3. CASE DropOrphanRow \/ SetCold \/ Reclaimed \/ SetHot
  BY <1>3 DEF DropOrphanRow, SetCold, Reclaimed, SetHot
<1>4. CASE QuarantineAndDemote \/ BeginReclaim \/ BeginPromotions
  BY <1>4 DEF QuarantineAndDemote, BeginReclaim, BeginPromotions
<1>5. CASE BeginDisplace \/ EndPromotions \/ StopPromotions
  BY <1>5 DEF BeginDisplace, EndPromotions, StopPromotions
<1> QED
  BY <1>1, <1>2, <1>3, <1>4, <1>5 DEF Loops

LEMMA LoopWork == ASSUME TypeOK, LoopInv, BulkWork \/ PromoteWork PROVE LoopInv'
<1> USE DEF LoopInv, BulkPhases, DemotePhases, TickPhases, bulkVars, viewVars, workVars
<1>1. ASSUME NEW l \in Link, ToBulk(l) \/ Publish(l) PROVE LoopInv'
  BY <1>1 DEF ToBulk, Publish, TypeOK
<1>2. CASE UnlinkEntry \/ RemoveDir
  BY <1>2 DEF UnlinkEntry, RemoveDir
<1>3. CASE \E p \in File : BeginCopy(p) \/ FinishCopy(p)
  BY <1>3 DEF BeginCopy, FinishCopy
<1>4. CASE CopiesDone \/ WriteMeta \/ ClearIntent
  BY <1>4 DEF CopiesDone, WriteMeta, ClearIntent
<1> QED
  BY <1>1, <1>2, <1>3, <1>4 DEF BulkWork, PromoteWork

LEMMA LoopFailures == ASSUME TypeOK, LoopInv, Failures PROVE LoopInv'
<1> USE DEF LoopInv, BulkPhases, DemotePhases, TickPhases, bulkVars, viewVars, workVars, NextTorrent,
           EndTick, ProcessDies, NoWork, ForgetView
<1>1. CASE BulkJobFails
  BY <1>1 DEF BulkJobFails
<1>2. CASE PromotionFails
  BY <1>2 DEF PromotionFails
<1>3. CASE TierWriteFails \/ ReconcileFails
  BY <1>3 DEF TierWriteFails, ReconcileFails
<1> QED
  BY <1>1, <1>2, <1>3 DEF Failures

LEMMA LoopReconciliation == ASSUME TypeOK, LoopInv, Reconciliation \/ Exit PROVE LoopInv'
BY DEF LoopInv, BulkPhases, DemotePhases, TickPhases, bulkVars, viewVars, workVars, NextTorrent,
       BeginLoop, Take, EndTick, ProcessDies, NoWork, ForgetView, Reconciliation, Start, ReconcileDir,
       BeginPassB, PickMissing, BeginRetarget, DropMissingRow, EndReconcile, Exit

LEMMA LoopEnvironment == ASSUME Gentle, TypeOK, LoopInv, Environment PROVE LoopInv'
<1> USE DEF LoopInv, BulkPhases, TickPhases, bulkVars, viewVars, workVars
<1>1. CASE Crash \/ RequestStop \/ Mount
  BY <1>1 DEF Crash, RequestStop, Mount, ProcessDies, NoWork, ForgetView, ProgramVars
<1>2. CASE LoseDb \/ \E t \in Torrent : LoseDir(t) \/ LoseSidecar(t) \/ IntentExpires(t)
  BY <1>2 DEF LoseDb, LoseDir, LoseSidecar, IntentExpires, DownVars
<1>3. CASE \E p \in File : LosePayload(p)
  BY <1>3 DEF LosePayload, DownVars
<1>4. CASE Unmount \/ \E l, m \in Link : Relocate(l, m)
  BY <1>4, GentleDisturb DEF Unmount, Relocate, RoughFaults
<1>5. ASSUME NEW l \in Link, Import(l) PROVE LoopInv'
  BY <1>5, GentleDisturb DEF Import, ProgramVars, TypeOK
<1>6. ASSUME NEW t \in Torrent, NEW i \in Instance, RemoveTorrent(t, i) PROVE LoopInv'
  <2>1. phase \in {"down", "idle"}
    BY <1>6 DEF RemoveTorrent, Quiet, Gentle, RoughFaults
  <2>2. layouts = {}
    BY <2>1
  <2> QED
    BY <1>6, <2>2 DEF RemoveTorrent, ProgramVars
<1> QED
  BY <1>1, <1>2, <1>3, <1>4, <1>5, <1>6 DEF Environment

LEMMA LoopStep == ASSUME Gentle, TypeOK, LoopInv, [Next]_vars PROVE LoopInv'
<1>1. CASE UNCHANGED vars
  BY <1>1 DEF LoopInv, vars, bulkVars, viewVars, workVars
<1>2. CASE PollTick
  <2>1. \A l \in layouts' : link[l] # "none"
    BY <1>2, PollView DEF IsSymlink
  <2>2. mounted' = mounted /\ link' = link /\ phase' = "orphans" /\ step' = "pick"
    BY <1>2 DEF PollTick, Poll, bulkVars, BeginLoop
  <2> QED
    BY <2>1, <2>2 DEF LoopInv, TickPhases
<1> QED
  BY <1>1, <1>2, LoopLoops, LoopWork, LoopFailures, LoopReconciliation, LoopEnvironment DEF Next, Daemon

-----------------------------------------------------------------------------
(* VisitInv.                                                               *)

LEMMA VisitLoops == ASSUME TypeOK, PromotionOrder, LoopInv, VisitInv, Loops PROVE VisitInv'
<1> USE DEF VisitInv, HotTorrents, Live
<1>1. ASSUME NEW t \in Torrent, PickOrphan(t) \/ PickDemotion(t) \/ PickReclaim(t) \/ KeepPending(t)
      PROVE  VisitInv'
  BY <1>1 DEF PickOrphan, PickDemotion, PickReclaim, KeepPending, BeginRetarget, BeginDemote, Take,
              ssdVars, dbVars, viewVars, DemotePhases
<1>2. ASSUME NEW t \in Torrent, PickPromotion(t) PROVE VisitInv'
  BY <1>2 DEF PickPromotion, BeginPromote, Take, dbVars, viewVars
<1>3. CASE DropOrphanRow \/ SetCold
  BY <1>3 DEF DropOrphanRow, SetCold, NextTorrent, ssdVars, viewVars, DemotePhases, TypeOK
<1>4. CASE Reclaimed
  BY <1>4 DEF Reclaimed, NextTorrent, ssdVars, dbVars, viewVars
<1>5. CASE SetHot
  BY <1>5 DEF SetHot, NextTorrent, TypeOK
<1>6. CASE QuarantineAndDemote
  BY <1>6 DEF QuarantineAndDemote, BeginLoop, dbVars
<1>7. CASE BeginReclaim
  BY <1>7 DEF BeginReclaim, BeginLoop, InUse, dbVars, viewVars
<1>8. CASE BeginDisplace
  BY <1>8 DEF BeginDisplace, BeginLoop, EndTick, NoWork, dbVars, viewVars
<1>9. CASE BeginPromotions
  BY <1>9 DEF BeginPromotions, Promotable, BeginLoop, dbVars, viewVars
<1>10. CASE EndPromotions \/ StopPromotions
  BY <1>10 DEF EndPromotions, StopPromotions, EndTick, NoWork
<1> QED
  BY <1>1, <1>2, <1>3, <1>4, <1>5, <1>6, <1>7, <1>8, <1>9, <1>10 DEF Loops

LEMMA VisitWork ==
  ASSUME TypeOK, PromotionOrder, LoopInv, VisitInv, BulkWork \/ PromoteWork
  PROVE  VisitInv'
<1> USE DEF VisitInv, HotTorrents, Live, dbVars, viewVars, workVars
<1>1. ASSUME NEW l \in Link, ToBulk(l) \/ Publish(l) PROVE VisitInv'
  BY <1>1 DEF ToBulk, Publish, ssdVars
<1>2. CASE UnlinkEntry
  BY <1>2 DEF UnlinkEntry
<1>3. CASE RemoveDir
  BY <1>3 DEF RemoveDir, BulkPhases
<1>4. CASE \E p \in File : BeginCopy(p) \/ FinishCopy(p)
  BY <1>4 DEF BeginCopy, FinishCopy
<1>5. CASE CopiesDone \/ WriteMeta \/ ClearIntent
  BY <1>5 DEF CopiesDone, WriteMeta, ClearIntent, ssdVars, PromotionOrder
<1> QED
  BY <1>1, <1>2, <1>3, <1>4, <1>5 DEF BulkWork, PromoteWork

LEMMA VisitFailures == ASSUME TypeOK, PromotionOrder, LoopInv, VisitInv, Failures PROVE VisitInv'
<1> USE DEF VisitInv, HotTorrents, Live, ssdVars, dbVars, viewVars, NextTorrent, EndTick, ProcessDies, NoWork
<1>1. CASE BulkJobFails
  BY <1>1 DEF BulkJobFails, DemotePhases
<1>2. CASE PromotionFails
  BY <1>2 DEF PromotionFails
<1>3. CASE TierWriteFails \/ ReconcileFails
  BY <1>3 DEF TierWriteFails, ReconcileFails
<1> QED
  BY <1>1, <1>2, <1>3 DEF Failures

LEMMA VisitReconciliation ==
  ASSUME TypeOK, PromotionOrder, LoopInv, VisitInv, Reconciliation \/ Exit
  PROVE  VisitInv'
<1> USE DEF VisitInv, LoopInv, HotTorrents, ssdVars, dbVars, BeginLoop
<1>1. CASE Start
  BY <1>1 DEF Start
<1>2. ASSUME NEW t \in Torrent, ReconcileDir(t) PROVE VisitInv'
  BY <1>2 DEF ReconcileDir
<1>3. CASE BeginPassB
  BY <1>3 DEF BeginPassB
<1>4. ASSUME NEW t \in Torrent, PickMissing(t) PROVE VisitInv'
  BY <1>4 DEF PickMissing, BeginRetarget, Take
<1>5. CASE DropMissingRow
  BY <1>5 DEF DropMissingRow, NextTorrent
<1>6. CASE EndReconcile \/ Exit
  BY <1>6 DEF EndReconcile, Exit, EndTick, ProcessDies, NoWork
<1> QED
  BY <1>1, <1>2, <1>3, <1>4, <1>5, <1>6 DEF Reconciliation

LEMMA VisitEnvironment ==
  ASSUME Gentle, TypeOK, PromotionOrder, LoopInv, VisitInv, Environment
  PROVE  VisitInv'
<1> USE DEF VisitInv, HotTorrents, Live, ssdVars, dbVars, viewVars, workVars, ProgramVars, DownVars
<1>1. CASE Crash \/ RequestStop \/ Mount \/ Unmount
  BY <1>1 DEF Crash, RequestStop, Mount, Unmount, ProcessDies, NoWork
<1>2. CASE \/ LoseDb
           \/ \E t \in Torrent : LoseDir(t) \/ LoseSidecar(t)
           \/ \E p \in File : LosePayload(p)
  BY <1>2 DEF LoseDb, LoseDir, LoseSidecar, LosePayload
<1>3. CASE \/ \E t \in Torrent : IntentExpires(t)
           \/ \E l, m \in Link : Import(l) \/ Relocate(l, m)
           \/ \E t \in Torrent, i \in Instance : RemoveTorrent(t, i)
  BY <1>3 DEF IntentExpires, Import, Relocate, RemoveTorrent
<1> QED
  BY <1>1, <1>2, <1>3 DEF Environment

LEMMA VisitStep ==
  ASSUME Gentle, TypeOK, PromotionOrder, LoopInv, VisitInv, [Next]_vars
  PROVE  VisitInv'
<1>1. CASE UNCHANGED vars
  BY <1>1 DEF VisitInv, HotTorrents, Live, vars, ssdVars, dbVars, viewVars, workVars
<1>2. CASE PollTick
  <2>1. phase' = "orphans"
    BY <1>2 DEF PollTick, Poll, BeginLoop
  <2>2. Live' \cap HotTorrents' \subseteq hotSeen'
    BY <1>2, PollView DEF Live, HotTorrents
  <2> QED
    BY <2>1, <2>2 DEF VisitInv
<1> QED
  BY <1>1, <1>2, VisitLoops, VisitWork, VisitFailures, VisitReconciliation, VisitEnvironment
  DEF Next, Daemon

-----------------------------------------------------------------------------
(* RecordInv.                                                              *)

records == <<link, dir, side, row, map>>

\* The steps of the daemon that write no link and no record of a mapping.
LEMMA RecordFrame ==
  ASSUME Daemon
  PROVE  \/ UNCHANGED records
         \/ PollTick \/ DropOrphanRow \/ SetCold \/ SetHot \/ BulkWork
         \/ WriteMeta \/ DropMissingRow
         \/ \E t \in Torrent : PickPromotion(t) \/ ReconcileDir(t)
         \/ \E l \in Link : Publish(l)
<1> USE DEF records, bulkVars, ssdVars, dbVars
<1>1. CASE Loops
  BY <1>1 DEF Loops, PickOrphan, QuarantineAndDemote, PickDemotion, BeginReclaim, KeepPending,
     PickReclaim, Reclaimed, BeginDisplace, BeginPromotions, EndPromotions, StopPromotions
<1>2. CASE PromoteWork
  BY <1>2 DEF PromoteWork, BeginCopy, FinishCopy, CopiesDone, ClearIntent
<1>3. CASE Failures
  BY <1>3 DEF Failures, BulkJobFails, PromotionFails, TierWriteFails, ReconcileFails
<1>4. CASE Reconciliation \/ Exit
  BY <1>4 DEF Reconciliation, Start, BeginPassB, PickMissing, EndReconcile, Exit
<1> QED
  BY <1>1, <1>2, <1>3, <1>4 DEF Daemon

\* The same of the environment.
LEMMA EnvironmentFrame ==
  ASSUME Gentle, Environment
  PROVE  \/ UNCHANGED records
         \/ LoseDb
         \/ \E t \in Torrent : LoseDir(t) \/ LoseSidecar(t)
         \/ \E l \in Link : Import(l)
         \/ \E t \in Torrent, i \in Instance : RemoveTorrent(t, i)
<1> USE DEF records, bulkVars, ssdVars, dbVars, DownVars, ProgramVars
<1>1. CASE Crash \/ RequestStop \/ Unmount \/ Mount
  BY <1>1 DEF Crash, RequestStop, Unmount, Mount
<1>2. CASE (\E p \in File : LosePayload(p)) \/ \E t \in Torrent : IntentExpires(t)
  BY <1>2 DEF LosePayload, IntentExpires
<1>3. CASE \E l, m \in Link : Relocate(l, m)
  BY <1>3, GentleDisturb DEF Relocate, RoughFaults
<1> QED
  BY <1>1, <1>2, <1>3 DEF Environment

\* Events that change links never lead one into the SSD and leave all else.
LEMMA LinkEvents ==
  ASSUME TypeOK, \/ \E l \in Link : Import(l)
                 \/ \E t \in Torrent, i \in Instance : RemoveTorrent(t, i)
  PROVE  /\ \A l \in Link : link'[l] = "ssd" => link[l] = "ssd"
         /\ UNCHANGED <<ssdVars, dbVars, phase, workVars, layouts>>
<1>1. CASE \E l \in Link : Import(l)
  BY <1>1 DEF Import, ProgramVars, TypeOK, viewVars
<1>2. CASE \E t \in Torrent, i \in Instance : RemoveTorrent(t, i)
  BY <1>2 DEF RemoveTorrent, ProgramVars, TypeOK, viewVars
<1> QED
  BY <1>1, <1>2

LEMMA RecordDaemon ==
  ASSUME TypeOK, PromotionOrder, VisitInv, RecordInv, Daemon
  PROVE  RecordInv'
<1> USE LinksAssumption DEF RecordInv, OnSsd, HotMap, TypeOK
<1>1. CASE UNCHANGED records
  BY <1>1 DEF records
<1>2. CASE PollTick
  <2>1. link' = link /\ side' = side /\ dir' = dir
    BY <1>2 DEF PollTick, Poll, bulkVars, ssdVars
  <2>2. /\ \A t \in Torrent : row'[t] = "hot" <=> row[t] = "hot"
        /\ \A t \in Torrent : map'[t] = map[t]
    BY <1>2, PollView
  <2> QED
    BY <2>1, <2>2
<1>3. CASE DropOrphanRow \/ SetCold \/ DropMissingRow
  BY <1>3 DEF DropOrphanRow, SetCold, DropMissingRow, bulkVars, ssdVars
<1>4. CASE SetHot
  BY <1>4 DEF SetHot, bulkVars, ssdVars, PromotionOrder
<1>5. ASSUME NEW l \in Link, ToBulk(l) PROVE RecordInv'
  BY <1>5 DEF ToBulk, ssdVars, dbVars
<1>6. CASE UnlinkEntry
  BY <1>6 DEF UnlinkEntry, bulkVars, dbVars
<1>7. CASE RemoveDir
  BY <1>7 DEF RemoveDir, EmptyDir, bulkVars, dbVars
<1>8. CASE WriteMeta
  <2>1. row[cur] # "hot" /\ cur \in Torrent
    BY <1>8 DEF WriteMeta, PromotionOrder, VisitInv
  <2> QED
    BY <1>8, <2>1 DEF WriteMeta, bulkVars, dbVars
<1>9. ASSUME NEW l \in Link, Publish(l) PROVE RecordInv'
  <2>1. row[cur] # "hot" /\ TorrentOf[l] = cur
    BY <1>9 DEF Publish, PromotionOrder, VisitInv, LayoutsOf, LinksOf
  <2> QED
    BY <1>9, <2>1 DEF Publish, ssdVars, dbVars
<1>10. ASSUME NEW t \in Torrent, PickPromotion(t) PROVE RecordInv'
  BY <1>10 DEF PickPromotion, BeginPromote, bulkVars, dbVars
<1>11. ASSUME NEW t \in Torrent, ReconcileDir(t) PROVE RecordInv'
  <2>1. t \in dir
    BY <1>11 DEF ReconcileDir, VisitInv
  <2>2. CASE ForwardMigrates(t)
    <3>1. side' = [side EXCEPT ![t] = map[t]] /\ row' = row /\ map' = map
      BY <1>11, <2>2 DEF ReconcileDir, ForwardMigrates, Rebuilds
    <3> QED
      BY <1>11, <2>1, <3>1 DEF ReconcileDir, bulkVars
  <2>3. CASE ~ForwardMigrates(t)
    BY <1>11, <2>1, <2>3 DEF ReconcileDir, Rebuilds, bulkVars
  <2> QED
    BY <2>2, <2>3
<1> QED
  BY <1>1, <1>2, <1>3, <1>4, <1>5, <1>6, <1>7, <1>8, <1>9, <1>10, <1>11, RecordFrame DEF BulkWork

LEMMA RecordStep ==
  ASSUME Gentle, TypeOK, PromotionOrder, VisitInv, RecordInv, [Next]_vars
  PROVE  RecordInv'
<1>1. CASE UNCHANGED records \/ UNCHANGED vars
  BY <1>1 DEF RecordInv, OnSsd, HotMap, records, vars, bulkVars, ssdVars, dbVars
<1>2. CASE LoseDb
  BY <1>2, LinksAssumption DEF LoseDb, DownVars, bulkVars, ssdVars, RecordInv, HotMap, TypeOK
<1>3. ASSUME NEW t \in Torrent, LoseDir(t) \/ LoseSidecar(t) PROVE RecordInv'
  <2>1. /\ link' = link /\ row' = row /\ map' = map
        /\ side' = [side EXCEPT ![t] = {}]
        /\ dir' = dir \/ dir' = dir \ {t}
    BY <1>3 DEF LoseDir, LoseSidecar, DownVars, bulkVars, dbVars
  <2>2. \A u \in Torrent : side'[u] = IF u = t THEN {} ELSE side[u]
    BY <2>1 DEF TypeOK
  <2>3. \A u \in Torrent : side'[u] # {} => u \in dir'
    BY <2>1, <2>2 DEF RecordInv
  <2>4. \A l \in Link : l \in side'[TorrentOf[l]] => l \in side[TorrentOf[l]]
    BY <2>2, LinksAssumption
  <2> QED
    BY <2>1, <2>3, <2>4 DEF RecordInv, HotMap, OnSsd
<1>4. CASE \/ \E l \in Link : Import(l)
           \/ \E t \in Torrent, i \in Instance : RemoveTorrent(t, i)
  <2>1. /\ \A l \in Link : OnSsd(l)' => OnSsd(l)
        /\ UNCHANGED <<dir, side, row, map>>
    BY <1>4, LinkEvents DEF OnSsd, ssdVars, dbVars
  <2> QED
    BY <2>1 DEF RecordInv, HotMap
<1> QED
  BY <1>1, <1>2, <1>3, <1>4, RecordDaemon, EnvironmentFrame DEF Next

-----------------------------------------------------------------------------
(* WorkInv.                                                                *)

\* A map found in one of the records covers every recorded link into the SSD.
LEMMA TargetsCover ==
  ASSUME TypeOK, RecordInv, NEW t \in Torrent, NEW l \in LinksOf(t), OnSsd(l), Known(l)
  PROVE  l \in BulkTargetsFor(t)
<1>1. TorrentOf[l] = t /\ l \in Link
  BY DEF LinksOf
<1>2. CASE l \in HotMap(t)
  BY <1>2 DEF HotMap, BulkTargetsFor
<1>3. CASE l \in side[t] /\ map[t] # {}
  BY <1>1, <1>3 DEF RecordInv, HotMap, BulkTargetsFor
<1>4. CASE l \in side[t] /\ map[t] = {}
  BY <1>4 DEF BulkTargetsFor
<1> QED
  BY <1>1, <1>2, <1>3, <1>4 DEF Known

LEMMA WorkDaemon ==
  ASSUME TypeOK, PromotionOrder, LoopInv, VisitInv, RecordInv, WorkInv, Daemon
  PROVE  WorkInv'
<1>1. ASSUME step' \notin {"links", "remove"} PROVE WorkInv'
  BY <1>1 DEF WorkInv
<1>2. ASSUME NEW t \in Torrent, PickOrphan(t) \/ PickDemotion(t) PROVE WorkInv'
  <2>1. /\ cur' = t /\ step' = "links"
        /\ BulkTargetsFor(t) \subseteq rest'
        /\ UNCHANGED <<link, side, row, map>>
    BY <1>2 DEF PickOrphan, PickDemotion, BeginRetarget, BeginDemote, Take, bulkVars, ssdVars, dbVars
  <2>2. \A l \in LinksOf(t) : OnSsd(l) /\ Known(l) => l \in rest'
    BY <2>1, TargetsCover
  <2> QED
    BY <2>1, <2>2 DEF WorkInv, OnSsd, Known, HotMap
<1>3. ASSUME NEW t \in Torrent, PickReclaim(t) \/ PickMissing(t) PROVE WorkInv'
  <2>1. /\ cur' = t /\ step' = "links"
        /\ UNCHANGED <<link, side, row, map>>
    BY <1>3 DEF PickReclaim, PickMissing, BeginRetarget, Take, bulkVars, ssdVars, dbVars
  <2>2. HotMap(t) \cup side[t] \subseteq rest'
    <3>1. CASE PickReclaim(t)
      BY <3>1 DEF PickReclaim, BeginRetarget, Take, VisitInv, HotTorrents, HotMap
    <3>2. CASE PickMissing(t)
      BY <3>2 DEF PickMissing, BeginRetarget, Take, VisitInv, RecordInv, HotMap
    <3> QED
      BY <1>3, <3>1, <3>2
  <2> QED
    BY <2>1, <2>2 DEF WorkInv, OnSsd, Known, HotMap, LinksOf
<1>4. ASSUME NEW l \in Link, ToBulk(l) PROVE WorkInv'
  <2>1. step = "links" /\ step' = step /\ cur' = cur /\ rest' = rest \ {l}
    BY <1>4 DEF ToBulk
  <2>2. UNCHANGED <<side, row, map>>
    BY <1>4 DEF ToBulk, ssdVars, dbVars
  <2>3. link'[l] # "ssd" /\ \A m \in Link \ {l} : link'[m] = link[m]
    BY <1>4 DEF ToBulk, LeftAlone, IsSymlink, LoopInv, TypeOK
  <2> QED
    BY <2>1, <2>2, <2>3 DEF WorkInv, OnSsd, Known, HotMap, LinksOf
<1>5. CASE UnlinkEntry
  <2>1. /\ UNCHANGED <<link, row, map, step, cur, rest>>
        /\ \A t \in Torrent : side'[t] \subseteq side[t]
    BY <1>5 DEF UnlinkEntry, bulkVars, dbVars, workVars, TypeOK
  <2> QED
    BY <2>1, LinksAssumption DEF WorkInv, OnSsd, Known, HotMap, LinksOf
<1>6. CASE RemoveDir
  BY <1>6 DEF RemoveDir, bulkVars, dbVars, WorkInv, OnSsd, Known, HotMap
<1>7. ASSUME NEW t \in Torrent, KeepPending(t) \/ ReconcileDir(t) PROVE WorkInv'
  BY <1>7, <1>1 DEF KeepPending, ReconcileDir, LoopInv
<1>8. CASE PromoteWork
  BY <1>8, <1>1 DEF PromoteWork, BeginCopy, FinishCopy, CopiesDone, WriteMeta, ClearIntent, Publish,
                    workVars
<1>9. CASE PollTick \/ Failures \/ Exit
  BY <1>9, <1>1 DEF PollTick, Poll, Failures, BulkJobFails, PromotionFails, TierWriteFails,
                    ReconcileFails, Exit, BeginLoop, NextTorrent, EndTick, ProcessDies, NoWork
<1>10. CASE DropOrphanRow \/ SetCold \/ Reclaimed \/ SetHot \/ DropMissingRow
  BY <1>10, <1>1 DEF DropOrphanRow, SetCold, Reclaimed, SetHot, DropMissingRow, NextTorrent
<1>11. CASE QuarantineAndDemote \/ BeginReclaim \/ BeginDisplace \/ BeginPromotions \/ Start \/ BeginPassB
  BY <1>11, <1>1 DEF QuarantineAndDemote, BeginReclaim, BeginDisplace, BeginPromotions, Start,
                     BeginPassB, BeginLoop, EndTick, NoWork
<1>12. CASE EndPromotions \/ StopPromotions \/ EndReconcile \/ \E t \in Torrent : PickPromotion(t)
  BY <1>12, <1>1 DEF EndPromotions, StopPromotions, EndReconcile, PickPromotion, BeginPromote, Take,
                     EndTick, NoWork
<1> QED
  BY <1>2, <1>3, <1>4, <1>5, <1>6, <1>7, <1>8, <1>9, <1>10, <1>11, <1>12
  DEF Daemon, Loops, BulkWork, Reconciliation

LEMMA WorkStep ==
  ASSUME Gentle, TypeOK, PromotionOrder, LoopInv, VisitInv, RecordInv, WorkInv, [Next]_vars
  PROVE  WorkInv'
<1>1. ASSUME step' \notin {"links", "remove"} PROVE WorkInv'
  BY <1>1 DEF WorkInv
<1>2. CASE UNCHANGED vars
  BY <1>2 DEF WorkInv, OnSsd, Known, HotMap, LinksOf, vars, bulkVars, ssdVars, dbVars, workVars
<1>3. CASE Crash
  BY <1>3, <1>1 DEF Crash, ProcessDies, NoWork
<1>4. CASE \/ LoseDb
           \/ \E t \in Torrent : LoseDir(t) \/ LoseSidecar(t)
           \/ \E p \in File : LosePayload(p)
  BY <1>4, <1>1 DEF LoseDb, LoseDir, LoseSidecar, LosePayload, DownVars, workVars, LoopInv
<1>5. CASE \/ \E l \in Link : Import(l)
           \/ \E t \in Torrent, i \in Instance : RemoveTorrent(t, i)
  <2>1. /\ \A l \in Link : OnSsd(l)' => OnSsd(l)
        /\ UNCHANGED <<side, row, map, step, cur, rest>>
    BY <1>5, LinkEvents DEF OnSsd, ssdVars, dbVars, workVars
  <2> QED
    BY <2>1 DEF WorkInv, Known, HotMap, LinksOf
<1>6. CASE RequestStop \/ Mount \/ Unmount \/ \E t \in Torrent : IntentExpires(t)
  <2>1. UNCHANGED <<link, side, row, map, step, cur, rest>>
    BY <1>6 DEF RequestStop, Mount, Unmount, IntentExpires, ProgramVars, bulkVars, ssdVars, dbVars,
                workVars
  <2> QED
    BY <2>1 DEF WorkInv, OnSsd, Known, HotMap, LinksOf
<1>7. CASE \E l, m \in Link : Relocate(l, m)
  BY <1>7, GentleDisturb DEF Relocate, RoughFaults
<1> QED
  BY <1>2, <1>3, <1>4, <1>5, <1>6, <1>7, WorkDaemon DEF Next, Environment

\* When the directory of a torrent has been dealt with, nothing on record leads
\* there any more.
LEMMA RemovedIsFree ==
  ASSUME WorkInv, step = "remove" \/ (step = "links" /\ rest = {}), NEW l \in Link,
         TorrentOf[l] = cur, OnSsd(l)
  PROVE  ~Known(l)
BY DEF WorkInv, LinksOf

-----------------------------------------------------------------------------
(* HotInv and LayoutInv.                                                   *)

\* What a promotion publishes is there to be published.
LEMMA PublicationGoesOn ==
  ASSUME Gentle, TypeOK, PromotionOrder, LoopInv, PublishRaises
  PROVE  FALSE
<1>1. PICK l \in rest : ~IsSymlink(l) \/ Disturb("publish")
  BY DEF PublishRaises
<1>2. ~Disturb("publish")
  BY GentleDisturb DEF RoughFaults
<1>3. l \in layouts
  BY <1>1 DEF PublishRaises, PromotionOrder, LayoutsOf
<1> QED
  BY <1>1, <1>2, <1>3 DEF LoopInv, IsSymlink

\* A torrent being published stays so until it is hot or the process dies.
LEMMA PublishingEnds ==
  ASSUME Gentle, TypeOK, PromotionOrder, LoopInv, Next,
         NEW t \in Torrent, Publishing(t), ~Publishing(t)'
  PROVE  phase' = "down" \/ (SetHot /\ cur = t)
<1>1. step = "publish" /\ cur = t /\ phase = "promote"
  BY DEF Publishing, PromotionOrder
<1>2. ~UNCHANGED <<step, cur>>
  BY DEF Publishing
<1>3. CASE PollTick \/ Exit \/ Reconciliation
  BY <1>1, <1>3 DEF PollTick, Poll, Exit, Reconciliation, Start, ReconcileDir, BeginPassB, PickMissing,
     BeginRetarget, Take, DropMissingRow, EndReconcile
<1>4. CASE Loops
  BY <1>1, <1>4 DEF Loops, PickOrphan, DropOrphanRow, QuarantineAndDemote, PickDemotion, SetCold,
     BeginReclaim, KeepPending, PickReclaim, Reclaimed, BeginDisplace, BeginPromotions, PickPromotion,
     BeginRetarget, BeginDemote, BeginPromote, Take, EndPromotions, StopPromotions, CopyStopped
<1>5. CASE BulkWork
  BY <1>1, <1>5 DEF BulkWork, ToBulk, UnlinkEntry, RemoveDir
<1>6. CASE PromoteWork
  BY <1>1, <1>2, <1>6 DEF PromoteWork, BeginCopy, FinishCopy, CopiesDone, WriteMeta, ClearIntent, Publish,
     workVars
<1>7. CASE Failures
  <2>1. ~BulkJobFails /\ ~ReconcileFails
    BY <1>1 DEF BulkJobFails, ReconcileFails, ToBulkRaises, RemoveRaises
  <2>2. ~PromotionFails
    BY <1>1, PublicationGoesOn DEF PromotionFails, CopyRaises, MetaRaises
  <2>3. ~TierWriteFails
    BY GentleDisturb DEF TierWriteFails, RoughFaults
  <2> QED
    BY <1>7, <2>1, <2>2, <2>3 DEF Failures
<1>8. CASE Environment
  BY <1>1, <1>2, <1>8 DEF Environment, Crash, ProcessDies, RequestStop, LoseDb, LoseDir, LoseSidecar,
     LosePayload, Import, RemoveTorrent, Relocate, Unmount, Mount, IntentExpires, DownVars, ProgramVars,
     workVars
<1> QED
  BY <1>3, <1>4, <1>5, <1>6, <1>7, <1>8 DEF Next, Daemon

\* Only a publication leads a link into the SSD.
LEMMA LeadsIn ==
  ASSUME Gentle, TypeOK, Next, NEW l \in Link, ~OnSsd(l), OnSsd(l)'
  PROVE  Publish(l)
<1>1. link[l] # "ssd" /\ link'[l] = "ssd"
  BY DEF OnSsd
<1> SUFFICES ASSUME link[l] = "none" PROVE FALSE
  BY <1>1, OnlyPublish DEF TypeOK
<1>2. CASE UNCHANGED records
  BY <1>1, <1>2 DEF records
<1>3. CASE PollTick \/ DropOrphanRow \/ SetCold \/ SetHot \/ WriteMeta \/ DropMissingRow
  BY <1>1, <1>3 DEF PollTick, Poll, DropOrphanRow, SetCold, SetHot, WriteMeta, DropMissingRow, bulkVars
<1>4. CASE BulkWork
  BY <1>1, <1>4 DEF BulkWork, ToBulk, UnlinkEntry, RemoveDir, bulkVars, TypeOK
<1>5. CASE \E t \in Torrent : PickPromotion(t) \/ ReconcileDir(t)
  BY <1>1, <1>5 DEF PickPromotion, ReconcileDir, bulkVars
<1>6. CASE \E m \in Link : Publish(m)
  BY <1>1, <1>6 DEF Publish, IsSymlink, TypeOK
<1>7. CASE LoseDb \/ \E t \in Torrent : LoseDir(t) \/ LoseSidecar(t)
  BY <1>1, <1>7 DEF LoseDb, LoseDir, LoseSidecar, DownVars, bulkVars
<1>8. CASE \/ \E m \in Link : Import(m)
           \/ \E t \in Torrent, i \in Instance : RemoveTorrent(t, i)
  BY <1>1, <1>8, LinkEvents
<1> QED
  BY <1>2, <1>3, <1>4, <1>5, <1>6, <1>7, <1>8, RecordFrame, EnvironmentFrame DEF Next

\* Who changes a sidecar.
LEMMA SideChanges ==
  ASSUME Gentle, TypeOK, Next, NEW t \in Torrent, side'[t] # side[t]
  PROVE  \/ cur = t /\ WriteMeta
         \/ cur = t /\ UnlinkEntry /\ side'[t] = {}
         \/ side[t] = {} /\ row'[t] = "hot"
         \/ phase = "down" /\ phase' = "down" /\ side'[t] = {}
<1>1. CASE UNCHANGED records
  BY <1>1 DEF records
<1>2. CASE PollTick \/ DropOrphanRow \/ SetCold \/ SetHot \/ DropMissingRow
  BY <1>2 DEF PollTick, Poll, DropOrphanRow, SetCold, SetHot, DropMissingRow, ssdVars
<1>3. CASE WriteMeta
  BY <1>3 DEF WriteMeta, TypeOK
<1>4. CASE BulkWork
  BY <1>4 DEF BulkWork, ToBulk, UnlinkEntry, RemoveDir, ssdVars, TypeOK
<1>5. ASSUME NEW u \in Torrent, PickPromotion(u)
      PROVE  FALSE
  BY <1>5 DEF PickPromotion
<1>6. ASSUME NEW u \in Torrent, ReconcileDir(u)
      PROVE  side[t] = {} /\ row'[t] = "hot"
  BY <1>6 DEF ReconcileDir, ForwardMigrates, Rebuilds, HotMap, TypeOK
<1>7. CASE \E l \in Link : Publish(l)
  BY <1>7 DEF Publish, ssdVars
<1>8. CASE LoseDb \/ \E u \in Torrent : LoseDir(u) \/ LoseSidecar(u)
  BY <1>8 DEF LoseDb, LoseDir, LoseSidecar, DownVars, ssdVars, TypeOK
<1>9. CASE \/ \E l \in Link : Import(l)
           \/ \E u \in Torrent, i \in Instance : RemoveTorrent(u, i)
  BY <1>9, LinkEvents DEF ssdVars
<1> QED
  BY <1>1, <1>2, <1>3, <1>4, <1>5, <1>6, <1>7, <1>8, <1>9, RecordFrame, EnvironmentFrame DEF Next

\* Who changes a tier row, apart from a poll, which leaves hot rows alone.
LEMMA RowChanges ==
  ASSUME Gentle, TypeOK, Next, NEW t \in Torrent,
         HotMap(t)' # HotMap(t) \/ (row[t] = "hot" /\ row'[t] # "hot")
  PROVE  \/ cur = t /\ step = "remove"
         \/ cur = t /\ SetHot
         \/ HotMap(t) = {} /\ row'[t] = "hot"
         \/ phase = "down" /\ phase' = "down"
<1> USE DEF HotMap, TypeOK
<1>1. CASE UNCHANGED records
  BY <1>1 DEF records
<1>2. CASE PollTick
  BY <1>2, PollView
<1>3. CASE DropOrphanRow \/ SetCold \/ DropMissingRow
  BY <1>3 DEF DropOrphanRow, SetCold, DropMissingRow
<1>4. CASE SetHot
  BY <1>4 DEF SetHot
<1>5. CASE WriteMeta \/ \E l \in Link : Publish(l)
  BY <1>5 DEF WriteMeta, Publish, dbVars
<1>6. CASE BulkWork
  BY <1>6 DEF BulkWork, ToBulk, UnlinkEntry, RemoveDir, dbVars
<1>7. CASE \E u \in Torrent : PickPromotion(u)
  BY <1>7 DEF PickPromotion, dbVars
<1>8. ASSUME NEW u \in Torrent, ReconcileDir(u) PROVE HotMap(t) = {} /\ row'[t] = "hot"
  BY <1>8 DEF ReconcileDir, Rebuilds
<1>9. CASE LoseDb \/ \E u \in Torrent : LoseDir(u) \/ LoseSidecar(u)
  BY <1>9 DEF LoseDb, LoseDir, LoseSidecar, DownVars, dbVars
<1>10. CASE \/ \E l \in Link : Import(l)
            \/ \E u \in Torrent, i \in Instance : RemoveTorrent(u, i)
  BY <1>10, LinkEvents DEF dbVars
<1> QED
  BY <1>1, <1>2, <1>3, <1>4, <1>5, <1>6, <1>7, <1>8, <1>9, <1>10, RecordFrame, EnvironmentFrame DEF Next

\* From the start of the process on, pass A has every directory to visit.
LEMMA VisitsEach ==
  ASSUME TypeOK, Next, NEW t \in Torrent, t \in dir,
         phase = "down" \/ (phase = "reconA" /\ t \in todo)
  PROVE  phase' = "down" \/ (phase' = "reconA" /\ t \in todo') \/ ReconcileDir(t)
<1>1. CASE PollTick \/ Loops \/ BulkWork \/ PromoteWork \/ Failures \/ Exit
  <2>1. CASE PollTick \/ Exit
    BY <2>1 DEF PollTick, Poll, Exit
  <2>2. CASE Loops
    BY <2>2 DEF Loops, PickOrphan, DropOrphanRow, QuarantineAndDemote, PickDemotion, SetCold,
       BeginReclaim, KeepPending, PickReclaim, Reclaimed, BeginDisplace, BeginPromotions, PickPromotion,
       SetHot, EndPromotions, StopPromotions, DemotePhases
  <2>3. CASE BulkWork \/ PromoteWork
    BY <2>3 DEF BulkWork, ToBulk, UnlinkEntry, RemoveDir, PromoteWork, BeginCopy, FinishCopy, CopiesDone,
       WriteMeta, ClearIntent, Publish, workVars
  <2>4. CASE Failures
    BY <2>4 DEF Failures, BulkJobFails, PromotionFails, TierWriteFails, ReconcileFails, DemotePhases
  <2> QED
    BY <1>1, <2>1, <2>2, <2>3, <2>4
<1>2. CASE Reconciliation
  BY <1>2 DEF Reconciliation, Start, ReconcileDir, BeginPassB, PickMissing, DropMissingRow, EndReconcile,
     BeginLoop
<1>3. CASE Environment
  BY <1>3 DEF Environment, Crash, ProcessDies, RequestStop, LoseDb, LoseDir, LoseSidecar,
     LosePayload, Import, RemoveTorrent, Relocate, Unmount, Mount, IntentExpires, DownVars, ProgramVars,
     workVars
<1> QED
  BY <1>1, <1>2, <1>3 DEF Next, Daemon

LEMMA HotStep ==
  ASSUME Gentle, TypeOK, MappingInv, Next
  PROVE  HotInv'
<1> USE DEF MappingInv
<1> SUFFICES ASSUME NEW l \in Link, OnSsd(l)', l \in side'[TorrentOf[l]], row'[TorrentOf[l]] # "hot"
             PROVE  \/ phase' = "down"
                    \/ phase' = "reconA" /\ TorrentOf[l] \in todo'
                    \/ Publishing(TorrentOf[l])'
  BY DEF HotInv
<1> DEFINE t == TorrentOf[l]
<1>0. t \in Torrent
  BY LinksAssumption
<1>1. CASE ~OnSsd(l)
  <2>1. Publish(l)
    BY <1>1, LeadsIn
  <2>2. cur = t /\ step = "publish" /\ cur' = cur /\ step' = step
    BY <2>1 DEF Publish, PromotionOrder, LayoutsOf, LinksOf
  <2> QED
    BY <2>2 DEF Publishing
<1>2. CASE OnSsd(l) /\ l \notin side[t]
  <2>1. /\ side'[t] # side[t] /\ side'[t] # {}
        /\ row'[t] # "hot"
    BY <1>2
  <2>2. cur = t /\ WriteMeta
    BY <1>0, <2>1, SideChanges
  <2>3. l \in layouts /\ row[t] # "hot" /\ step = "meta"
    BY <1>0, <2>2, <1>2 DEF WriteMeta, LayoutsOf, TypeOK, PromotionOrder, VisitInv
  <2> QED
    BY <1>2, <2>3 DEF LayoutInv, HotMap, Publishing
<1>3. CASE OnSsd(l) /\ l \in side[t] /\ row[t] = "hot"
  <2>1. \/ cur = t /\ step = "remove"
        \/ cur = t /\ SetHot
        \/ phase' = "down"
    BY <1>0, <1>3, RowChanges
  <2>2. ~(cur = t /\ step = "remove")
    BY <1>3, RemovedIsFree DEF Known
  <2>3. ~(cur = t /\ SetHot)
    BY <1>0 DEF SetHot, TypeOK
  <2> QED
    BY <2>1, <2>2, <2>3
<1>4. CASE OnSsd(l) /\ l \in side[t] /\ row[t] # "hot"
  <2>1. CASE Publishing(t)
    <3>1. ~(SetHot /\ cur = t)
      BY <1>0 DEF SetHot, TypeOK
    <3> QED
      BY <1>0, <2>1, <3>1, PublishingEnds
  <2>2. CASE phase = "down" \/ (phase = "reconA" /\ t \in todo)
    <3>1. t \in dir
      BY <1>0, <1>4 DEF RecordInv
    <3>2. ~ReconcileDir(t)
      BY <1>0, <1>4 DEF ReconcileDir, Rebuilds, HotMap, TypeOK
    <3> QED
      BY <1>0, <2>2, <3>1, <3>2, VisitsEach
  <2> QED
    BY <1>4, <2>1, <2>2 DEF HotInv
<1> QED
  BY <1>1, <1>2, <1>3, <1>4

\* Only a poll begins a view; it lasts until the tick ends.
LEMMA ViewStays ==
  ASSUME Next, ~PollTick
  PROVE  layouts' = layouts \/ layouts' = {}
<1> USE DEF viewVars, EndTick, ProcessDies, ForgetView
<1>1. CASE Loops
  BY <1>1 DEF Loops, PickOrphan, DropOrphanRow, QuarantineAndDemote, PickDemotion, SetCold,
     BeginReclaim, KeepPending, PickReclaim, Reclaimed, BeginDisplace, BeginPromotions, PickPromotion,
     SetHot, EndPromotions, StopPromotions
<1>2. CASE BulkWork \/ PromoteWork
  BY <1>2 DEF BulkWork, ToBulk, UnlinkEntry, RemoveDir, PromoteWork, BeginCopy, FinishCopy, CopiesDone,
     WriteMeta, ClearIntent, Publish
<1>3. CASE Failures
  BY <1>3 DEF Failures, BulkJobFails, PromotionFails, TierWriteFails, ReconcileFails
<1>4. CASE Reconciliation \/ Exit
  BY <1>4 DEF Reconciliation, Start, ReconcileDir, BeginPassB, PickMissing, DropMissingRow,
     EndReconcile, Exit
<1>5. CASE Environment
  BY <1>5 DEF Environment, Crash, RequestStop, LoseDb, LoseDir, LoseSidecar,
     LosePayload, Import, RemoveTorrent, Relocate, Unmount, Mount, IntentExpires, DownVars, ProgramVars
<1> QED
  BY <1>1, <1>2, <1>3, <1>4, <1>5, ~PollTick DEF Next, Daemon

LEMMA LayoutStep ==
  ASSUME Gentle, TypeOK, MappingInv, LoopInv', Next
  PROVE  LayoutInv'
<1> USE DEF MappingInv
<1>1. CASE PollTick
  <2>1. \A l \in layouts' : l \in Link /\ (link[l] = "bulk" \/ l \in HotMap(TorrentOf[l]))
    BY <1>1, PollView
  <2>2. link' = link
    BY <1>1 DEF PollTick, Poll, bulkVars
  <2>3. \A t \in Torrent : row[t] = "hot" => row'[t] = "hot" /\ map'[t] = map[t]
    BY <1>1, PollView
  <2> QED
    BY <2>1, <2>2, <2>3, LinksAssumption DEF LayoutInv, OnSsd, HotMap
<1>2. CASE layouts' = {}
  BY <1>2 DEF LayoutInv
<1>3. CASE ~PollTick /\ layouts' = layouts /\ layouts' # {}
  <2> SUFFICES ASSUME NEW l \in layouts, OnSsd(l)'
               PROVE  l \in HotMap(TorrentOf[l])' \/ Publishing(TorrentOf[l])'
    BY <1>3 DEF LayoutInv
  <2> DEFINE t == TorrentOf[l]
  <2>0. l \in Link /\ t \in Torrent
    BY LinksAssumption DEF TypeOK
  <2>1. phase' # "down" /\ phase # "down"
    BY <1>3 DEF LoopInv, TickPhases
  <2>2. CASE ~OnSsd(l)
    <3>1. Publish(l)
      BY <2>0, <2>2, LeadsIn
    <3> QED
      BY <3>1 DEF Publish, PromotionOrder, LayoutsOf, LinksOf, Publishing
  <2>3. ASSUME SetHot, cur = t PROVE l \in HotMap(t)'
    BY <2>0, <2>3 DEF SetHot, HotMap, LayoutsOf, LinksOf, TypeOK
  <2>4. CASE OnSsd(l) /\ l \in HotMap(t)
    <3>1. HotMap(t) # {} /\ (HotMap(t)' # HotMap(t) => cur = t /\ (step = "remove" \/ SetHot))
      BY <2>0, <2>1, <2>4, RowChanges
    <3>2. ~(cur = t /\ step = "remove")
      BY <2>0, <2>4, RemovedIsFree DEF Known
    <3> QED
      BY <2>3, <2>4, <3>1, <3>2
  <2>5. CASE OnSsd(l) /\ Publishing(t)
    BY <2>0, <2>1, <2>3, <2>5, PublishingEnds
  <2> QED
    BY <2>2, <2>4, <2>5 DEF LayoutInv
<1> QED
  BY <1>1, <1>2, <1>3, ViewStays

-----------------------------------------------------------------------------
(* The inductive invariant and what follows from it.                       *)

LEMMA IndInit == Init => MappingInv
BY DEF Init, MappingInv, PromotionOrder, LoopInv, VisitInv, RecordInv, HotInv, LayoutInv, WorkInv, OnSsd

LEMMA IndStep ==
  ASSUME Gentle, TypeOK, MappingInv, [Next]_vars
  PROVE  MappingInv'
<1>1. PromotionOrder'
  BY OrderStep DEF MappingInv
<1>2. LoopInv'
  BY LoopStep DEF MappingInv
<1>3. VisitInv' /\ RecordInv' /\ WorkInv'
  BY VisitStep, RecordStep, WorkStep DEF MappingInv
<1>4. HotInv' /\ LayoutInv'
  <2>1. CASE Next
    BY <2>1, <1>2, HotStep, LayoutStep
  <2>2. CASE UNCHANGED vars
    BY <2>2 DEF MappingInv, HotInv, LayoutInv, OnSsd, HotMap, Publishing, vars, bulkVars, ssdVars, dbVars,
                workVars, viewVars
  <2> QED
    BY <2>1, <2>2
<1> QED
  BY <1>1, <1>2, <1>3, <1>4 DEF MappingInv

\* The records, the loops and the view of the tick stay consistent through
\* every crash, failed poll, loss of records while the daemon is down and
\* event in qBittorrent, unless one of RoughFaults occurs.
THEOREM Consistent ==
  ASSUME Gentle
  PROVE  Spec => []MappingInv
<1>1. Init => MappingInv
  BY IndInit
<1>2. TypeOK /\ MappingInv /\ [Next]_vars => MappingInv'
  BY IndStep
<1> QED
  BY <1>1, <1>2, TypeCorrect, PTL DEF Spec

\* Between startup reconciliation and a stop the database counts every torrent
\* with a recoverable link into the SSD as hot.
THEOREM HotAlwaysAccounted ==
  ASSUME Gentle
  PROVE  Spec => []HotAccounted
<1>1. MappingInv => HotAccounted
  <2> SUFFICES ASSUME MappingInv, phase \notin {"down", "reconA", "reconB"},
                      NEW l \in Link, link[l] = "ssd", Known(l)
               PROVE  row[TorrentOf[l]] = "hot" \/ (phase = "promote" /\ cur = TorrentOf[l])
    BY DEF HotAccounted
  <2> QED
    BY DEF MappingInv, HotInv, OnSsd, Known, HotMap, Publishing, PromotionOrder
<1> QED
  BY <1>1, Consistent, PTL

\* A step of the running daemon, or of the world around it, loses no mapping.
LEMMA MappingStep ==
  ASSUME Gentle, TypeOK, MappingInv, [Next]_vars
  PROVE  [KeepsMappings]_vars
<1> USE DEF MappingInv
<1> SUFFICES ASSUME Next, phase # "down",
                    NEW l \in Link, OnSsd(l)', ~Known(l)', OnSsd(l) => Known(l)
             PROVE  FALSE
  BY DEF KeepsMappings, Unmapped, OnSsd
<1> DEFINE t == TorrentOf[l]
<1>0. t \in Torrent
  BY LinksAssumption
<1>1. CASE ~OnSsd(l)
  <2>1. Publish(l)
    BY <1>1, LeadsIn
  <2>2. l \in side[t] /\ side' = side
    BY <2>1 DEF Publish, PromotionOrder, LayoutsOf, LinksOf, ssdVars
  <2> QED
    BY <2>2 DEF Known
<1>2. CASE OnSsd(l) /\ l \in side[t]
  <2>1. l \notin side'[t]
    BY DEF Known
  <2>2. cur = t /\ (WriteMeta \/ UnlinkEntry)
    BY <1>0, <1>2, <2>1, SideChanges
  <2>3. ~(cur = t /\ UnlinkEntry)
    BY <1>2, RemovedIsFree DEF UnlinkEntry, Known
  <2>4. ~(cur = t /\ WriteMeta)
    BY <1>2 DEF WriteMeta, PromotionOrder, VisitInv, HotInv, Publishing
  <2> QED
    BY <2>2, <2>3, <2>4
<1>3. CASE OnSsd(l) /\ l \in HotMap(t)
  <2>1. HotMap(t)' # HotMap(t) /\ HotMap(t) # {}
    BY <1>3 DEF Known
  <2>2. cur = t /\ (step = "remove" \/ SetHot)
    BY <1>0, <2>1, RowChanges
  <2>3. step # "remove"
    BY <1>3, <2>2, RemovedIsFree DEF Known
  <2>4. ~SetHot
    BY <2>1, <2>2 DEF SetHot, PromotionOrder, VisitInv, HotMap
  <2> QED
    BY <2>2, <2>3, <2>4
<1> QED
  BY <1>1, <1>2, <1>3 DEF Known

\* While the daemon runs, no link into the SSD loses the last record of its
\* bulk file, unless one of RoughFaults occurs.
THEOREM MappingsSurvive ==
  ASSUME Gentle
  PROVE  Spec => MappingSurvives
<1>1. TypeOK /\ MappingInv /\ [Next]_vars => [KeepsMappings]_vars
  BY MappingStep
<1> QED
  BY <1>1, TypeCorrect, Consistent, PTL DEF Spec, MappingSurvives
=============================================================================
