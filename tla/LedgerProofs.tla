----------------------------- MODULE LedgerProofs -----------------------------
(***************************************************************************)
(* The cache implements the ledger of LinkLedger, step by step, and what   *)
(* follows from it for the copies: SeedCacheProofs says that no mapping is *)
(* lost, this module that no copy goes while a mapped link needs it, and   *)
(* that nothing is removed on an incomplete view.                          *)
(***************************************************************************)
EXTENDS SeedCacheProofs

-----------------------------------------------------------------------------
(* Who does what: the frames of the three variables the ledger shows.      *)

\* Steps of the daemon that change no link.
LEMMA LinkDaemon ==
  ASSUME Daemon
  PROVE  link' = link \/ \E l \in Link : ToBulk(l) \/ Publish(l)
<1> USE DEF bulkVars
<1>1. CASE PollTick \/ Exit
  BY <1>1 DEF PollTick, Poll, Exit
<1>2. CASE Loops
  BY <1>2 DEF Loops, PickOrphan, DropOrphanRow, QuarantineAndDemote, PickDemotion, SetCold,
     BeginReclaim, KeepPending, PickReclaim, Reclaimed, BeginDisplace, BeginPromotions, PickPromotion,
     SetHot, EndPromotions, StopPromotions
<1>3. CASE BulkWork \/ PromoteWork
  BY <1>3 DEF BulkWork, UnlinkEntry, RemoveDir, PromoteWork, BeginCopy, FinishCopy, CopiesDone,
     WriteMeta, ClearIntent
<1>4. CASE Failures
  BY <1>4 DEF Failures, BulkJobFails, PromotionFails, TierWriteFails, ReconcileFails
<1>5. CASE Reconciliation
  BY <1>5 DEF Reconciliation, Start, ReconcileDir, BeginPassB, PickMissing, DropMissingRow,
     EndReconcile
<1> QED
  BY <1>1, <1>2, <1>3, <1>4, <1>5 DEF Daemon

\* Only a finished copy and the removal of a directory change the copies, as
\* far as the daemon is concerned.
LEMMA CopiesDaemon ==
  ASSUME Daemon
  PROVE  copies' = copies \/ UnlinkEntry \/ \E p \in File : FinishCopy(p)
<1> USE DEF ssdVars
<1>1. CASE PollTick \/ Exit
  BY <1>1 DEF PollTick, Poll, Exit
<1>2. CASE Loops
  BY <1>2 DEF Loops, PickOrphan, DropOrphanRow, QuarantineAndDemote, PickDemotion, SetCold,
     BeginReclaim, KeepPending, PickReclaim, Reclaimed, BeginDisplace, BeginPromotions, PickPromotion,
     SetHot, EndPromotions, StopPromotions
<1>3. CASE BulkWork \/ PromoteWork
  BY <1>3 DEF BulkWork, ToBulk, RemoveDir, PromoteWork, BeginCopy, CopiesDone, WriteMeta, ClearIntent,
     Publish
<1>4. CASE Failures
  BY <1>4 DEF Failures, BulkJobFails, PromotionFails, TierWriteFails, ReconcileFails
<1>5. CASE Reconciliation
  BY <1>5 DEF Reconciliation, Start, ReconcileDir, BeginPassB, PickMissing, DropMissingRow,
     EndReconcile
<1> QED
  BY <1>1, <1>2, <1>3, <1>4, <1>5 DEF Daemon

\* While the daemon runs the world around it removes no copy.
LEMMA CopiesEnvironment ==
  ASSUME Environment, phase # "down"
  PROVE  copies' = copies
BY DEF Environment, Crash, RequestStop, LoseDb, LoseDir, LoseSidecar, LosePayload, Import,
   RemoveTorrent, Relocate, Unmount, Mount, IntentExpires, ProgramVars, ssdVars

\* The running daemon goes down by an end of the process only.
LEMMA StaysUp ==
  ASSUME Next, phase # "down"
  PROVE  phase' # "down" \/ Exit \/ Crash \/ ReconcileFails
<1> USE DEF BeginLoop, NextTorrent, Take, EndTick, workVars
<1>1. CASE PollTick
  BY <1>1 DEF PollTick, Poll
<1>2. CASE Loops
  BY <1>2 DEF Loops, PickOrphan, DropOrphanRow, QuarantineAndDemote, PickDemotion, SetCold,
     BeginReclaim, KeepPending, PickReclaim, Reclaimed, BeginDisplace, BeginPromotions, PickPromotion,
     SetHot, EndPromotions, StopPromotions, BeginRetarget, BeginDemote, BeginPromote
<1>3. CASE BulkWork \/ PromoteWork
  BY <1>3 DEF BulkWork, ToBulk, UnlinkEntry, RemoveDir, PromoteWork, BeginCopy, FinishCopy, CopiesDone,
     WriteMeta, ClearIntent, Publish
<1>4. CASE Failures
  BY <1>4 DEF Failures, BulkJobFails, PromotionFails, TierWriteFails
<1>5. CASE Reconciliation
  BY <1>5 DEF Reconciliation, Start, ReconcileDir, BeginPassB, PickMissing, DropMissingRow,
     EndReconcile, BeginRetarget
<1>6. CASE Environment
  BY <1>6 DEF Environment, RequestStop, LoseDb, LoseDir, LoseSidecar, LosePayload, Import,
     RemoveTorrent, Relocate, Unmount, Mount, IntentExpires, ProgramVars
<1> QED
  BY <1>1, <1>2, <1>3, <1>4, <1>5, <1>6 DEF Next, Daemon

\* A daemon that is down does nothing but start.
LEMMA DownDoesNothing ==
  ASSUME LoopInv, Daemon, phase = "down"
  PROVE  Start
<1>1. step = "pick"
  BY DEF LoopInv
<1>2. ~PollTick /\ ~Exit
  BY DEF PollTick, Poll, Exit
<1>3. ~Loops
  BY DEF Loops, PickOrphan, DropOrphanRow, QuarantineAndDemote, PickDemotion, SetCold,
     BeginReclaim, KeepPending, PickReclaim, Reclaimed, BeginDisplace, BeginPromotions, PickPromotion,
     SetHot, EndPromotions, StopPromotions, DemotePhases
<1>4. ~BulkWork /\ ~PromoteWork
  BY <1>1 DEF BulkWork, ToBulk, UnlinkEntry, RemoveDir, PromoteWork, BeginCopy, FinishCopy, CopiesDone,
     WriteMeta, ClearIntent, Publish
<1>5. ~Failures
  BY <1>1 DEF Failures, BulkJobFails, PromotionFails, TierWriteFails, ReconcileFails, DemotePhases
<1>6. Reconciliation => Start
  BY DEF Reconciliation, ReconcileDir, BeginPassB, PickMissing, DropMissingRow, EndReconcile
<1> QED
  BY <1>2, <1>3, <1>4, <1>5, <1>6 DEF Daemon

-----------------------------------------------------------------------------
(* Every step is one of the ledger or leaves it alone.                     *)

\* A step that keeps the links and the copies rewrites the ledger at most.
LEMMA Records ==
  ASSUME KeepsMappings, phase # "down", phase' # "down", link' = link, copies' = copies
  PROVE  Ledger!Record
<1>1. Unmapped' \subseteq Unmapped
  BY DEF KeepsMappings
<1>2. ASSUME NEW l \in Link, Known(l), link[l] = "ssd"
      PROVE  Known(l)'
  BY <1>1, <1>2 DEF Unmapped
<1>3. {l \in Link : Known(l)'} \in SUBSET Link
  OBVIOUS
<1>4. {l \in Link : Known(l)} \cap {l \in Link : link[l] = "ssd"} \subseteq {l \in Link : Known(l)'}
  BY <1>2
<1>5. (phase' # "down") = (phase # "down")
  OBVIOUS
<1> QED
  BY <1>3, <1>4, <1>5 DEF Ledger!Record, Ledger!InStore

\* A copy is removed only when no mapped link uses it.
LEMMA CopyDrops ==
  ASSUME Gentle, TypeOK, MappingInv, UnlinkEntry, KeepsMappings
  PROVE  Ledger!LedgerNext
<1>1. phase # "down" /\ phase' = phase /\ link' = link /\ step = "links" /\ rest = {} /\ cur \in Torrent
  BY DEF UnlinkEntry, BulkPhases, bulkVars, TypeOK
<1>2. CASE copies' = copies
  BY <1>1, <1>2, Records DEF Ledger!LedgerNext
<1>3. CASE copies' # copies
  <2>1. PICK p \in copies \cap FilesOf(cur) :
           copies' = copies \ {p} /\ UNCHANGED <<partial, side, intent>>
    BY <1>3 DEF UnlinkEntry
  <2>2. p \in File /\ side' = side /\ row' = row /\ map' = map
    BY <2>1 DEF TypeOK, UnlinkEntry, dbVars
  <2>3. PICK m \in Link : TorrentOf[m] = cur /\ FileOf[m] = p
    BY <2>1 DEF FilesOf, LinksOf
  <2>4. ASSUME NEW l \in Link, link[l] = "ssd", Known(l), FileOf[l] = p
        PROVE  FALSE
    <3>1. TorrentOf[l] = cur
      BY <2>3, <2>4, LinksAssumption
    <3> QED
      BY <1>1, <2>4, <3>1, RemovedIsFree DEF MappingInv, OnSsd
  <2>5. {l \in Link : Known(l)'} = {l \in Link : Known(l)}
    BY <2>2 DEF Known, HotMap
  <2>6. \A l \in {k \in Link : link[k] = "ssd"} \cap {k \in Link : Known(k)} : FileOf[l] # p
    BY <2>4
  <2>7. Ledger!DropCopy(p)
    BY <1>1, <2>1, <2>5, <2>6 DEF Ledger!DropCopy, Ledger!InStore
  <2> QED
    BY <2>2, <2>7 DEF Ledger!LedgerNext
<1> QED
  BY <1>2, <1>3

\* The steps that move links lead them as the ledger allows.
LEMMA LinkMoves ==
  ASSUME TypeOK, PromotionOrder, NEW l \in Link, ToBulk(l) \/ Publish(l), phase # "down"
  PROVE  Ledger!LedgerNext \/ UNCHANGED Ledger!lvars
<1>1. phase' = phase /\ side' = side /\ row' = row /\ map' = map /\ copies' = copies
  BY DEF ToBulk, Publish, ssdVars, dbVars
<1>2. {k \in Link : Known(k)'} = {k \in Link : Known(k)}
  BY <1>1 DEF Known, HotMap
<1>3. CASE Publish(l)
  <2>1. l \in LayoutsOf(cur) /\ side[cur] = LayoutsOf(cur) /\ Wanted(cur) \subseteq copies
    BY <1>3 DEF Publish, PromotionOrder
  <2>2. Known(l) /\ FileOf[l] \in copies
    BY <2>1 DEF Known, LayoutsOf, LinksOf, Wanted
  <2>3. link' = [link EXCEPT ![l] = "ssd"]
    BY <1>3 DEF Publish
  <2>4. Ledger!LeadIn(l)
    BY <1>1, <1>2, <2>2, <2>3 DEF Ledger!LeadIn
  <2> QED
    BY <2>4 DEF Ledger!LedgerNext
<1>4. CASE ToBulk(l) /\ link' = link
  BY <1>1, <1>2, <1>4 DEF Ledger!lvars
<1>5. CASE ToBulk(l) /\ link' # link
  <2>1. link' = [link EXCEPT ![l] = "bulk"] /\ link[l] # "none"
    BY <1>5 DEF ToBulk, LeftAlone, IsSymlink
  <2>2. Ledger!LeadOut(l)
    BY <1>1, <1>2, <2>1 DEF Ledger!LeadOut
  <2> QED
    BY <2>2 DEF Ledger!LedgerNext
<1> QED
  BY <1>3, <1>4, <1>5

\* The owner's changes of links.
LEMMA OwnerMoves ==
  ASSUME TypeOK, TypeOK', \/ \E l \in Link : Import(l)
                          \/ \E t \in Torrent, i \in Instance : RemoveTorrent(t, i)
  PROVE  Ledger!LedgerNext
<1>1. /\ \A l \in Link : link'[l] = "ssd" => link[l] = "ssd"
      /\ UNCHANGED <<ssdVars, dbVars, phase, workVars, layouts>>
  BY LinkEvents
<1>2. link' \in [Link -> {"none", "bulk", "ssd"}]
  BY DEF TypeOK
<1>3. {l \in Link : Known(l)'} = {l \in Link : Known(l)} /\ copies' = copies /\ phase' = phase
  BY <1>1 DEF Known, HotMap, ssdVars, dbVars
<1>4. Ledger!Owner
  BY <1>1, <1>2, <1>3 DEF Ledger!Owner
<1> QED
  BY <1>4 DEF Ledger!LedgerNext

\* What happens while the daemon is down.
LEMMA DownMoves ==
  ASSUME Gentle, TypeOK, TypeOK', LoopInv, Next, phase = "down"
  PROVE  Ledger!LedgerNext \/ UNCHANGED Ledger!lvars
<1>1. CASE Start
  <2>1. phase' = "reconA" /\ link' = link /\ copies' = copies /\ side' = side /\ row' = row /\ map' = map
    BY <1>1 DEF Start, BeginLoop, bulkVars, ssdVars, dbVars
  <2>2. {l \in Link : Known(l)'} = {l \in Link : Known(l)}
    BY <2>1 DEF Known, HotMap
  <2>3. Ledger!Up
    BY <2>1, <2>2 DEF Ledger!Up
  <2> QED
    BY <2>3 DEF Ledger!LedgerNext
<1>2. CASE LoseDb \/ (\E t \in Torrent : LoseDir(t) \/ LoseSidecar(t)) \/ \E p \in File : LosePayload(p)
  <2>1. phase' = phase /\ link' = link /\ copies' \in SUBSET copies
    BY <1>2 DEF LoseDb, LoseDir, LoseSidecar, LosePayload, DownVars, bulkVars, ssdVars
  <2>2. \A t \in Torrent : side'[t] \subseteq side[t] /\ HotMap(t)' \subseteq HotMap(t)
    <3>1. CASE LoseDb
      BY <3>1 DEF LoseDb, HotMap, ssdVars
    <3>2. CASE \E t \in Torrent : LoseDir(t) \/ LoseSidecar(t)
      BY <3>2 DEF LoseDir, LoseSidecar, HotMap, dbVars, TypeOK
    <3>3. CASE \E p \in File : LosePayload(p)
      BY <3>3 DEF LosePayload, HotMap, dbVars
    <3> QED
      BY <1>2, <3>1, <3>2, <3>3
  <2>3. {l \in Link : Known(l)'} \in SUBSET {l \in Link : Known(l)}
    BY <2>2, LinksAssumption DEF Known
  <2>4. Ledger!Loss
    BY <2>1, <2>3 DEF Ledger!Loss
  <2> QED
    BY <2>4 DEF Ledger!LedgerNext
<1>3. CASE \/ \E l \in Link : Import(l)
           \/ \E t \in Torrent, i \in Instance : RemoveTorrent(t, i)
  BY <1>3, OwnerMoves
<1>4. CASE Mount \/ \E t \in Torrent : IntentExpires(t)
  <2>1. link' = link /\ copies' = copies /\ side' = side /\ row' = row /\ map' = map /\ phase' = phase
    BY <1>4 DEF Mount, IntentExpires, ProgramVars, bulkVars, ssdVars, dbVars
  <2>2. {l \in Link : Known(l)'} = {l \in Link : Known(l)}
    BY <2>1 DEF Known, HotMap
  <2> QED
    BY <2>1, <2>2 DEF Ledger!lvars
<1>5. ~Crash /\ ~RequestStop /\ ~Unmount /\ ~(\E l, m \in Link : Relocate(l, m))
  BY GentleDisturb DEF Crash, RequestStop, Unmount, Relocate, RoughFaults
<1> QED
  BY <1>1, <1>2, <1>3, <1>4, <1>5, DownDoesNothing DEF Next, Environment

\* The end of the process.
LEMMA GoesDown ==
  ASSUME phase # "down", Exit \/ Crash \/ ReconcileFails
  PROVE  Ledger!LedgerNext
<1>1. phase' = "down" /\ link' = link /\ copies' = copies /\ side' = side /\ row' = row /\ map' = map
  BY DEF Exit, Crash, ReconcileFails, ProcessDies, bulkVars, ssdVars, dbVars
<1>2. {l \in Link : Known(l)'} = {l \in Link : Known(l)}
  BY <1>1 DEF Known, HotMap
<1>3. Ledger!Down
  BY <1>1, <1>2 DEF Ledger!Down
<1> QED
  BY <1>3 DEF Ledger!LedgerNext

LEMMA LedgerStep ==
  ASSUME Gentle, TypeOK, MappingInv, [Next]_vars
  PROVE  [Ledger!LedgerNext]_(Ledger!lvars)
<1>1. CASE UNCHANGED vars
  <2>1. link' = link /\ copies' = copies /\ side' = side /\ row' = row /\ map' = map /\ phase' = phase
    BY <1>1 DEF vars, bulkVars, ssdVars, dbVars
  <2>2. {l \in Link : Known(l)'} = {l \in Link : Known(l)}
    BY <2>1 DEF Known, HotMap
  <2> QED
    BY <2>1, <2>2 DEF Ledger!lvars
<1>2. CASE Next /\ phase = "down"
  BY <1>2, TypeStep, DownMoves DEF MappingInv
<1>3. CASE Next /\ phase # "down"
  <2>1. TypeOK'
    BY TypeStep
  <2>2. KeepsMappings
    <3>1. [KeepsMappings]_vars
      BY MappingStep
    <3>2. CASE UNCHANGED vars
      <4>1. Unmapped' = Unmapped
        BY <3>2 DEF Unmapped, Known, HotMap, vars, bulkVars, ssdVars, dbVars
      <4> QED
        BY <4>1 DEF KeepsMappings
    <3> QED
      BY <3>1, <3>2
  <2>3. CASE Exit \/ Crash \/ ReconcileFails
    BY <1>3, <2>3, GoesDown
  <2>4. CASE UnlinkEntry
    BY <2>2, <2>4, CopyDrops
  <2>5. CASE \E p \in File : FinishCopy(p)
    <3>1. PICK p \in File : FinishCopy(p)
      BY <2>5
    <3>2. /\ phase' = phase /\ link' = link /\ side' = side /\ row' = row /\ map' = map
          /\ copies' = copies \cup {p}
      BY <3>1 DEF FinishCopy, bulkVars, dbVars
    <3>3. {l \in Link : Known(l)'} = {l \in Link : Known(l)}
      BY <3>2 DEF Known, HotMap
    <3>4. Ledger!StoreCopy(p)
      BY <1>3, <3>2, <3>3 DEF Ledger!StoreCopy
    <3> QED
      BY <3>4 DEF Ledger!LedgerNext
  <2>6. CASE \E l \in Link : ToBulk(l) \/ Publish(l)
    BY <1>3, <2>6, LinkMoves DEF MappingInv
  <2>7. CASE \/ \E l \in Link : Import(l)
             \/ \E t \in Torrent, i \in Instance : RemoveTorrent(t, i)
    BY <2>1, <2>7, OwnerMoves
  <2>8. CASE /\ phase' # "down" /\ link' = link /\ copies' = copies
    BY <1>3, <2>2, <2>8, Records DEF Ledger!LedgerNext
  <2>9. CASE Environment
    <3>1. copies' = copies
      BY <1>3, <2>9, CopiesEnvironment
    <3>2. \/ link' = link
          \/ \E l \in Link : Import(l)
          \/ \E t \in Torrent, i \in Instance : RemoveTorrent(t, i)
      BY <2>9, EnvironmentFrame DEF records, LoseDb, LoseDir, LoseSidecar, DownVars, bulkVars
    <3> QED
      BY <1>3, <2>3, <2>7, <2>8, <3>1, <3>2, StaysUp
  <2>10. CASE Daemon
    BY <1>3, <2>3, <2>4, <2>5, <2>6, <2>8, <2>10, LinkDaemon, CopiesDaemon, StaysUp
  <2> QED
    BY <1>3, <2>9, <2>10 DEF Next
<1> QED
  BY <1>1, <1>2, <1>3

\* The running daemon keeps the promise of the ledger through every crash,
\* failed poll, failed file operation and event in qBittorrent, unless one of
\* RoughFaults occurs: a link is led into the SSD only when its copy is whole
\* and its mapping recorded, its mapping is kept while it leads there, and a
\* copy goes only when no mapped link uses it.
THEOREM ImplementsLedger ==
  ASSUME Gentle
  PROVE  Spec => LedgerSpec
<1>1. Init => Ledger!LedgerInit
  <2> SUFFICES ASSUME Init PROVE Ledger!LedgerInit
    OBVIOUS
  <2>1. link \in [Link -> {"none", "bulk"}] /\ copies = {}
    BY DEF Init
  <2>2. (phase # "down") = FALSE
    BY DEF Init
  <2>3. {l \in Link : Known(l)} = {}
    BY LinksAssumption DEF Init, Known, HotMap
  <2> QED
    BY <2>1, <2>2, <2>3 DEF Ledger!LedgerInit
<1>2. TypeOK /\ MappingInv /\ [Next]_vars => [Ledger!LedgerNext]_(Ledger!lvars)
  BY LedgerStep
<1> QED
  BY <1>1, <1>2, TypeCorrect, Consistent, PTL DEF Spec, LedgerSpec, Ledger!LedgerSpec
-----------------------------------------------------------------------------
(* Whom the loops that remove copies may visit, under every fault.         *)

\* No step gives a torrent a link of another one.
LEMMA NotesStep ==
  ASSUME TypeOK, OwnNotes, Next
  PROVE  OwnNotes'
<1> USE DEF OwnNotes, TypeOK
<1>1. CASE UNCHANGED <<side, map>>
  BY <1>1 DEF LinksOf
<1>2. CASE PollTick
  BY <1>2 DEF PollTick, Poll, ssdVars, LinksOf
<1>3. CASE DropOrphanRow \/ SetCold \/ DropMissingRow
  BY <1>3 DEF DropOrphanRow, SetCold, DropMissingRow, ssdVars, LinksOf
<1>4. CASE SetHot \/ WriteMeta
  BY <1>4 DEF SetHot, WriteMeta, ssdVars, dbVars, LayoutsOf, LinksOf
<1>5. ASSUME NEW t \in Torrent, ReconcileDir(t) PROVE OwnNotes'
  BY <1>5 DEF ReconcileDir, LinksOf
<1>6. CASE UnlinkEntry
  BY <1>6 DEF UnlinkEntry, dbVars, LinksOf
<1>7. CASE LoseDb \/ \E t \in Torrent : LoseDir(t) \/ LoseSidecar(t)
  BY <1>7 DEF LoseDb, LoseDir, LoseSidecar, ssdVars, dbVars, LinksOf
<1> USE DEF ssdVars, dbVars, DownVars, ProgramVars
<1>8. CASE Loops
  BY <1>1, <1>3, <1>4, <1>8 DEF Loops, PickOrphan, QuarantineAndDemote, PickDemotion,
     BeginReclaim, KeepPending, PickReclaim, Reclaimed, BeginDisplace, BeginPromotions, PickPromotion,
     EndPromotions, StopPromotions
<1>9. CASE BulkWork \/ PromoteWork
  BY <1>1, <1>4, <1>6, <1>9 DEF BulkWork, ToBulk, RemoveDir, PromoteWork, BeginCopy, FinishCopy,
     CopiesDone, ClearIntent, Publish
<1>10. CASE Failures \/ Exit
  BY <1>1, <1>10 DEF Failures, BulkJobFails, PromotionFails, TierWriteFails, ReconcileFails, Exit
<1>11. CASE Reconciliation
  BY <1>1, <1>3, <1>5, <1>11 DEF Reconciliation, Start, BeginPassB, PickMissing, EndReconcile
<1>12. CASE Environment
  BY <1>1, <1>7, <1>12 DEF Environment, Crash, RequestStop, LosePayload, Import, RemoveTorrent,
     Relocate, Unmount, Mount, IntentExpires
<1> QED
  BY <1>2, <1>8, <1>9, <1>10, <1>11, <1>12 DEF Next, Daemon

\* Only the end of a removal reaches the stage behind it.
LEMMA NothingLeftStep ==
  ASSUME TypeOK, NothingLeft, Next
  PROVE  NothingLeft'
<1> USE DEF NothingLeft
<1>1. CASE PollTick \/ Exit
  BY <1>1 DEF PollTick, Poll, BeginLoop, Exit, ProcessDies, NoWork
<1>2. CASE Loops
  BY <1>2 DEF Loops, PickOrphan, DropOrphanRow, QuarantineAndDemote, PickDemotion, SetCold,
     BeginReclaim, KeepPending, PickReclaim, Reclaimed, BeginDisplace, BeginPromotions, PickPromotion,
     SetHot, EndPromotions, StopPromotions, BeginRetarget, BeginDemote, BeginPromote, Take, NextTorrent,
     BeginLoop, EndTick, NoWork, ssdVars
<1>3. CASE BulkWork
  BY <1>3 DEF BulkWork, ToBulk, UnlinkEntry, RemoveDir, workVars, ssdVars
<1>4. CASE PromoteWork
  BY <1>4 DEF PromoteWork, BeginCopy, FinishCopy, CopiesDone, WriteMeta, ClearIntent, Publish,
     workVars, ssdVars
<1>5. CASE Failures
  BY <1>5 DEF Failures, BulkJobFails, PromotionFails, TierWriteFails, ReconcileFails, EndTick,
     ProcessDies, NoWork, NextTorrent
<1>6. CASE Reconciliation
  BY <1>6 DEF Reconciliation, Start, ReconcileDir, BeginPassB, PickMissing, DropMissingRow,
     EndReconcile, BeginLoop, BeginRetarget, Take, NextTorrent, EndTick, NoWork, ssdVars
<1>7. CASE Environment
  BY <1>7 DEF Environment, Crash, RequestStop, LoseDb, LoseDir, LoseSidecar, LosePayload, Import,
     RemoveTorrent, Relocate, Unmount, Mount, IntentExpires, ProcessDies, NoWork, DownVars,
     ProgramVars, workVars, ssdVars
<1> QED
  BY <1>1, <1>2, <1>3, <1>4, <1>5, <1>6, <1>7 DEF Next, Daemon

\* A marker is written into a directory and goes with it.
LEMMA MarkerStep ==
  ASSUME TypeOK, MarkerInDir, Next
  PROVE  MarkerInDir'
<1> USE DEF MarkerInDir, TypeOK, ssdVars
<1>1. CASE PollTick \/ Exit
  BY <1>1 DEF PollTick, Poll, Exit
<1>2. ASSUME NEW t \in Torrent, PickPromotion(t) PROVE MarkerInDir'
  BY <1>2 DEF PickPromotion, BeginPromote
<1>3. CASE Loops /\ ~\E t \in Torrent : PickPromotion(t)
  BY <1>3 DEF Loops, PickOrphan, DropOrphanRow, QuarantineAndDemote, PickDemotion, SetCold,
     BeginReclaim, KeepPending, PickReclaim, Reclaimed, BeginDisplace, BeginPromotions,
     SetHot, EndPromotions, StopPromotions
<1>4. CASE UnlinkEntry \/ RemoveDir
  BY <1>4 DEF UnlinkEntry, RemoveDir, EmptyDir
<1>5. CASE PromoteWork \/ \E l \in Link : ToBulk(l)
  BY <1>5 DEF ToBulk, PromoteWork, BeginCopy, FinishCopy, CopiesDone, WriteMeta, ClearIntent, Publish
<1>6. CASE Failures \/ Reconciliation
  BY <1>6 DEF Failures, BulkJobFails, PromotionFails, TierWriteFails, ReconcileFails, Reconciliation,
     Start, ReconcileDir, BeginPassB, PickMissing, DropMissingRow, EndReconcile
<1>7. ASSUME NEW t \in Torrent, LoseDir(t) PROVE MarkerInDir'
  BY <1>7 DEF LoseDir
<1>8. CASE Environment /\ ~\E t \in Torrent : LoseDir(t)
  BY <1>8 DEF Environment, Crash, RequestStop, LoseDb, LoseSidecar, LosePayload, Import,
     RemoveTorrent, Relocate, Unmount, Mount, IntentExpires, DownVars, ProgramVars
<1> QED
  BY <1>1, <1>2, <1>3, <1>4, <1>5, <1>6, <1>7, <1>8 DEF Next, Daemon, BulkWork

\* Work begins on the links the notes and the view give it.
LEMMA OwnWorkStep ==
  ASSUME TypeOK, OwnNotes, OwnWork, Next
  PROVE  OwnWork'
<1> USE DEF OwnWork, LinksOf
<1>1. CASE PollTick \/ Exit
  BY <1>1 DEF PollTick, Poll, BeginLoop, Exit, ProcessDies, NoWork
<1>2. ASSUME NEW t \in Torrent, PickOrphan(t) \/ PickDemotion(t) \/ PickReclaim(t) \/ PickMissing(t)
      PROVE  OwnWork'
  BY <1>2 DEF PickOrphan, PickDemotion, PickReclaim, PickMissing, BeginRetarget, BeginDemote, Take,
     BulkTargetsFor, LayoutsOf, OwnNotes
<1>3. ASSUME NEW t \in Torrent, PickPromotion(t) PROVE OwnWork'
  BY <1>3 DEF PickPromotion, BeginPromote, Take, LayoutsOf
<1>4. CASE Loops /\ ~(\E t \in Torrent : PickOrphan(t) \/ PickDemotion(t) \/ PickReclaim(t) \/ PickPromotion(t))
  BY <1>4 DEF Loops, DropOrphanRow, QuarantineAndDemote, SetCold, BeginReclaim, KeepPending, Reclaimed,
     BeginDisplace, BeginPromotions, SetHot, EndPromotions, StopPromotions, NextTorrent, BeginLoop, EndTick,
     NoWork
<1>5. CASE BulkWork
  BY <1>5 DEF BulkWork, ToBulk, UnlinkEntry, RemoveDir, workVars
<1>6. CASE PromoteWork
  BY <1>6 DEF PromoteWork, BeginCopy, FinishCopy, CopiesDone, WriteMeta, ClearIntent, Publish, workVars
<1>7. CASE Failures
  BY <1>7 DEF Failures, BulkJobFails, PromotionFails, TierWriteFails, ReconcileFails, EndTick,
     ProcessDies, NoWork, NextTorrent
<1>8. CASE Reconciliation /\ ~(\E t \in Torrent : PickMissing(t))
  BY <1>8 DEF Reconciliation, Start, ReconcileDir, BeginPassB, DropMissingRow, EndReconcile, BeginLoop,
     NextTorrent, EndTick, NoWork
<1>9. CASE Environment
  BY <1>9 DEF Environment, Crash, RequestStop, LoseDb, LoseDir, LoseSidecar, LosePayload, Import,
     RemoveTorrent, Relocate, Unmount, Mount, IntentExpires, ProcessDies, NoWork, DownVars,
     ProgramVars, workVars
<1> QED
  BY <1>1, <1>2, <1>3, <1>4, <1>5, <1>6, <1>7, <1>8, <1>9 DEF Next, Daemon

\* A step within a loop visits nobody the loop did not begin with.
LEMMA VisitedFrame ==
  ASSUME VisitedInv, UNCHANGED <<phase, viewVars>>, Visited' \subseteq Visited
  PROVE  VisitedInv'
BY DEF VisitedInv, Live, Referenced, viewVars

\* A tick that is over, and a process that is dead, visit nobody.
LEMMA VisitedNobody ==
  ASSUME phase' \notin TickPhases \ {"promote"}, hotSeen' = {}
  PROVE  VisitedInv'
BY DEF VisitedInv, TickPhases, DemotePhases

LEMMA VisitedLoops ==
  ASSUME TypeOK, VisitedInv, Loops
  PROVE  VisitedInv'
<1>1. ASSUME NEW t \in Torrent, PickOrphan(t) \/ PickDemotion(t) \/ PickReclaim(t) \/ KeepPending(t)
      PROVE  VisitedInv'
  <2>1. Visited' \subseteq Visited
    BY <1>1 DEF Visited, PickOrphan, PickDemotion, PickReclaim, KeepPending, BeginRetarget, BeginDemote, Take
  <2>2. UNCHANGED <<phase, viewVars>>
    BY <1>1 DEF PickOrphan, PickDemotion, PickReclaim, KeepPending, BeginRetarget, BeginDemote, Take
  <2> QED
    BY <2>1, <2>2, VisitedFrame
<1>2. CASE DropOrphanRow \/ SetCold \/ Reclaimed
  <2>1. Visited' \subseteq Visited
    BY <1>2 DEF Visited, DropOrphanRow, SetCold, Reclaimed, NextTorrent
  <2>2. UNCHANGED <<phase, viewVars>>
    BY <1>2 DEF DropOrphanRow, SetCold, Reclaimed, NextTorrent
  <2> QED
    BY <2>1, <2>2, VisitedFrame
<1> USE DEF VisitedInv, Visited, TickPhases, DemotePhases, Live, Referenced, viewVars
<1>3. CASE QuarantineAndDemote
  BY <1>3 DEF QuarantineAndDemote, Demotable, BeginLoop
<1>4. CASE BeginReclaim
  BY <1>4 DEF BeginReclaim, BeginLoop, InUse
<1>5. CASE BeginDisplace
  BY <1>5 DEF BeginDisplace, Displaceable, BeginLoop, EndTick, NoWork, ForgetView
<1>6. CASE BeginPromotions \/ (\E t \in Torrent : PickPromotion(t)) \/ SetHot
  BY <1>6 DEF BeginPromotions, BeginLoop, PickPromotion, BeginPromote, Take, SetHot, NextTorrent
<1>7. CASE EndPromotions \/ StopPromotions
  BY <1>7 DEF EndPromotions, StopPromotions, EndTick, NoWork, ForgetView
<1> QED
  BY <1>1, <1>2, <1>3, <1>4, <1>5, <1>6, <1>7 DEF Loops

LEMMA VisitedWork ==
  ASSUME TypeOK, PromotionOrder, VisitedInv, BulkWork \/ PromoteWork
  PROVE  VisitedInv'
<1>1. UNCHANGED <<phase, viewVars, todo, cur>> /\ (step' = "pick" <=> step = "pick")
  BY DEF BulkWork, ToBulk, UnlinkEntry, RemoveDir, PromoteWork, BeginCopy, FinishCopy, CopiesDone,
     WriteMeta, ClearIntent, Publish, workVars
<1>2. Visited' = Visited
  BY <1>1 DEF Visited
<1> QED
  BY <1>1, <1>2, VisitedFrame

LEMMA VisitedFailures ==
  ASSUME TypeOK, VisitedInv, Failures
  PROVE  VisitedInv'
<1>1. CASE BulkJobFails /\ NextTorrent /\ UNCHANGED viewVars
  <2>1. Visited' \subseteq Visited /\ UNCHANGED <<phase, viewVars>>
    BY <1>1 DEF Visited, NextTorrent
  <2> QED
    BY <2>1, VisitedFrame
<1>2. CASE PromotionFails
  <2>1. Visited' \subseteq Visited /\ UNCHANGED <<phase, viewVars>>
    BY <1>2 DEF PromotionFails, Visited, NextTorrent
  <2> QED
    BY <2>1, VisitedFrame
<1>3. CASE EndTick \/ ReconcileFails
  BY <1>3, VisitedNobody DEF ReconcileFails, EndTick, ProcessDies, ForgetView, TickPhases
<1> QED
  BY <1>1, <1>2, <1>3 DEF Failures, BulkJobFails, TierWriteFails

LEMMA VisitedReconciliation ==
  ASSUME TypeOK, VisitedInv, Reconciliation \/ Exit
  PROVE  VisitedInv'
<1> USE DEF VisitedInv, TickPhases, DemotePhases, Live, viewVars
<1>1. CASE Start \/ BeginPassB
  BY <1>1 DEF Start, BeginPassB, BeginLoop
<1>2. ASSUME NEW t \in Torrent, ReconcileDir(t) \/ PickMissing(t) PROVE VisitedInv'
  BY <1>2 DEF ReconcileDir, PickMissing, BeginRetarget, Take
<1>3. CASE DropMissingRow
  BY <1>3 DEF DropMissingRow, NextTorrent
<1>4. CASE EndReconcile \/ Exit
  BY <1>4, VisitedNobody DEF EndReconcile, EndTick, Exit, ProcessDies, ForgetView
<1> QED
  BY <1>1, <1>2, <1>3, <1>4 DEF Reconciliation

LEMMA VisitedEnvironment ==
  ASSUME TypeOK, VisitedInv, Environment
  PROVE  VisitedInv'
<1>1. CASE Crash
  BY <1>1, VisitedNobody DEF Crash, ProcessDies, ForgetView, TickPhases
<1>2. CASE ~Crash
  <2>1. UNCHANGED <<phase, workVars, viewVars>>
    BY <1>2 DEF Environment, RequestStop, LoseDb, LoseDir, LoseSidecar, LosePayload, Import,
       RemoveTorrent, Relocate, Unmount, Mount, IntentExpires, DownVars, ProgramVars
  <2>2. Visited' = Visited
    BY <2>1 DEF Visited, workVars
  <2> QED
    BY <2>1, <2>2, VisitedFrame
<1> QED
  BY <1>1, <1>2

LEMMA VisitedPoll ==
  ASSUME TypeOK, PollTick
  PROVE  VisitedInv'
<1> PICK down \in SUBSET Instance, absent \in SUBSET (Torrent \X Instance) : Poll(down, absent)
  BY DEF PollTick
<1>1. phase' = "orphans" /\ step' = "pick" /\ (~pollOk' => todo' = {})
  BY DEF Poll, BeginLoop
<1>2. hotSeen' \subseteq {TorrentOf[l] : l \in layouts'}
  BY DEF Poll
<1> QED
  BY <1>1, <1>2 DEF VisitedInv, Visited, Live, DemotePhases

LEMMA VictimStep ==
  ASSUME TypeOK, PromotionOrder, VictimInv, [Next]_vars
  PROVE  VictimInv'
<1>1. CASE UNCHANGED vars
  <2>1. VisitedInv' /\ NothingLeft' /\ MarkerInDir'
    BY <1>1 DEF VictimInv, VisitedInv, NothingLeft, MarkerInDir, Visited, Live, Referenced, vars, viewVars, workVars, ssdVars
  <2>2. OwnNotes'
    BY <1>1 DEF VictimInv, OwnNotes, vars, ssdVars, dbVars
  <2>3. OwnWork'
    BY <1>1 DEF VictimInv, OwnWork, vars, workVars
  <2> QED
    BY <2>1, <2>2, <2>3 DEF VictimInv
<1>2. CASE Next
  <2>1. VisitedInv'
    BY <1>2, VisitedPoll, VisitedLoops, VisitedWork, VisitedFailures, VisitedReconciliation,
       VisitedEnvironment DEF VictimInv, Next, Daemon
  <2> QED
    BY <1>2, <2>1, NotesStep, NothingLeftStep, MarkerStep, OwnWorkStep DEF VictimInv
<1> QED
  BY <1>1, <1>2

\* Through every fault the loops keep to the torrents they may visit.
THEOREM VictimsChosen == Spec => []VictimInv
<1>1. Init => VictimInv
  BY DEF Init, VictimInv, VisitedInv, NothingLeft, MarkerInDir, OwnNotes, OwnWork, TickPhases, DemotePhases
<1>2. TypeOK /\ PromotionOrder /\ VictimInv /\ [Next]_vars => VictimInv'
  BY VictimStep
<1> QED
  BY <1>1, <1>2, TypeCorrect, PromotionOrdered, PTL DEF Spec

\* A tick in which an instance did not answer removes no copy, through every
\* fault: nothing it sees or fails to see makes it visit a torrent.
THEOREM UnseenStay == Spec => UnseenCopiesStay
<1>1. TypeOK /\ VictimInv /\ [Next]_vars => [phase # "down" /\ ~pollOk => copies \subseteq copies']_vars
  <2> SUFFICES ASSUME TypeOK, VictimInv, Next, phase # "down", ~pollOk
               PROVE  copies \subseteq copies'
    OBVIOUS
  <2>1. CASE UnlinkEntry
    <3>1. phase \in TickPhases \ {"promote"} /\ step = "links"
      BY <2>1 DEF UnlinkEntry, BulkPhases, TickPhases
    <3> QED
      BY <3>1 DEF VictimInv, VisitedInv, Visited
  <2>2. CASE \E p \in File : FinishCopy(p)
    BY <2>2 DEF FinishCopy
  <2>3. CASE copies' = copies
    BY <2>3
  <2> QED
    BY <2>1, <2>2, <2>3, CopiesDaemon, CopiesEnvironment DEF Next
<1> QED
  BY <1>1, TypeCorrect, VictimsChosen, PTL DEF Spec, UnseenCopiesStay

-----------------------------------------------------------------------------
(* The view of a complete poll, when no instance hides torrents it has.    *)

\* A tick goes on with the view of its poll.
LEMMA TickGoesOn ==
  ASSUME Next, ~PollTick, phase' \in TickPhases
  PROVE  /\ phase \in TickPhases
         /\ UNCHANGED <<layouts, into, pollOk, hotSeen>>
         /\ QuarantineAndDemote \/ (quarantined' = quarantined /\ (phase = "orphans" => phase' = "orphans"))
         /\ phase' = phase \/ phase = "orphans" \/ (phase' # "orphans" /\ step = "pick")
         /\ phase \in {"displace", "promote"} => phase' \in {"displace", "promote"}
         /\ phase = "reclaim" => phase' \in {"reclaim", "displace"}
<1> USE DEF viewVars, TickPhases, DemotePhases
<1>1. CASE Loops
  BY <1>1 DEF Loops, PickOrphan, DropOrphanRow, QuarantineAndDemote, PickDemotion, SetCold,
     BeginReclaim, KeepPending, PickReclaim, Reclaimed, BeginDisplace, BeginPromotions, PickPromotion,
     SetHot, EndPromotions, StopPromotions, BeginRetarget, BeginDemote, BeginPromote, Take, NextTorrent,
     BeginLoop, EndTick
<1>2. CASE BulkWork \/ PromoteWork
  BY <1>2 DEF BulkWork, ToBulk, UnlinkEntry, RemoveDir, PromoteWork, BeginCopy, FinishCopy, CopiesDone,
     WriteMeta, ClearIntent, Publish
<1>3. CASE Failures
  BY <1>3 DEF Failures, BulkJobFails, PromotionFails, TierWriteFails, ReconcileFails, EndTick,
     ProcessDies, NextTorrent
<1>4. CASE Reconciliation \/ Exit
  BY <1>4 DEF Reconciliation, Start, ReconcileDir, BeginPassB, PickMissing, DropMissingRow,
     EndReconcile, BeginLoop, BeginRetarget, Take, NextTorrent, EndTick, Exit, ProcessDies
<1>5. CASE Environment
  BY <1>5 DEF Environment, Crash, RequestStop, LoseDb, LoseDir, LoseSidecar, LosePayload, Import,
     RemoveTorrent, Relocate, Unmount, Mount, IntentExpires, ProcessDies, DownVars, ProgramVars
<1> QED
  BY <1>1, <1>2, <1>3, <1>4, <1>5 DEF Next, Daemon

\* During a tick only the daemon moves links, and nobody adds any.
LEMMA LinksInTick ==
  ASSUME Gentle, TypeOK, Next, phase \in TickPhases
  PROVE  listed' = listed /\ (link' = link \/ \E l \in Link : ToBulk(l) \/ Publish(l))
<1>1. CASE Daemon
  <2>1. listed' = listed
    BY <1>1 DEF Daemon, PollTick, Poll, Exit, Loops, PickOrphan, DropOrphanRow, QuarantineAndDemote,
       PickDemotion, SetCold, BeginReclaim, KeepPending, PickReclaim, Reclaimed, BeginDisplace,
       BeginPromotions, PickPromotion, SetHot, EndPromotions, StopPromotions, BulkWork, ToBulk,
       UnlinkEntry, RemoveDir, PromoteWork, BeginCopy, FinishCopy, CopiesDone, WriteMeta, ClearIntent,
       Publish, Failures, BulkJobFails, PromotionFails, TierWriteFails, ReconcileFails, Reconciliation,
       Start, ReconcileDir, BeginPassB, PickMissing, DropMissingRow, EndReconcile, bulkVars
  <2> QED
    BY <1>1, <2>1, LinkDaemon
<1>2. CASE Environment
  <2>1. ~Quiet
    BY DEF Quiet, TickPhases, Gentle, RoughFaults
  <2>2. listed' = listed /\ link' = link
    BY <1>2, <2>1 DEF Environment, Crash, RequestStop, LoseDb, LoseDir, LoseSidecar, LosePayload,
       Import, RemoveTorrent, Relocate, Unmount, Mount, IntentExpires, DownVars, ProgramVars, bulkVars
  <2> QED
    BY <2>2
<1> QED
  BY <1>1, <1>2 DEF Next

\* Directories are made by promotions only.
LEMMA DirsInTick ==
  ASSUME PromotionOrder, Next, phase # "promote"
  PROVE  dir' \subseteq dir
<1> USE DEF ssdVars, PromotionOrder
<1>1. CASE PollTick \/ Exit \/ Loops
  BY <1>1 DEF PollTick, Poll, Exit, Loops, PickOrphan, DropOrphanRow, QuarantineAndDemote,
     PickDemotion, SetCold, BeginReclaim, KeepPending, PickReclaim, Reclaimed, BeginDisplace,
     BeginPromotions, PickPromotion, SetHot, EndPromotions, StopPromotions
<1>2. CASE BulkWork \/ PromoteWork
  BY <1>2 DEF BulkWork, ToBulk, UnlinkEntry, RemoveDir, PromoteWork, BeginCopy, FinishCopy, CopiesDone,
     WriteMeta, ClearIntent, Publish
<1>3. CASE Failures \/ Reconciliation
  BY <1>3 DEF Failures, BulkJobFails, PromotionFails, TierWriteFails, ReconcileFails, Reconciliation,
     Start, ReconcileDir, BeginPassB, PickMissing, DropMissingRow, EndReconcile
<1>4. CASE Environment
  BY <1>4 DEF Environment, Crash, RequestStop, LoseDb, LoseDir, LoseSidecar, LosePayload,
     Import, RemoveTorrent, Relocate, Unmount, Mount, IntentExpires, DownVars, ProgramVars
<1> QED
  BY <1>1, <1>2, <1>3, <1>4 DEF Next, Daemon

\* A loop goes on with its torrent or with those left to visit; the orphan
\* clean-up leaves a torrent only when its directory is gone.
LEMMA LoopGoesOn ==
  ASSUME Next, phase \in {"orphans", "reclaim"}, phase' = phase, ~PollTick
  PROVE  /\ todo' \subseteq todo
         /\ phase = "orphans" /\ step # "pick" => (step' # "pick" /\ cur' = cur) \/ step = "remove"
<1> USE DEF workVars
<1>1. CASE Loops
  BY <1>1 DEF Loops, PickOrphan, DropOrphanRow, QuarantineAndDemote, PickDemotion, SetCold,
     BeginReclaim, KeepPending, PickReclaim, Reclaimed, BeginDisplace, BeginPromotions, PickPromotion,
     SetHot, EndPromotions, StopPromotions, BeginRetarget, BeginDemote, BeginPromote, Take, NextTorrent,
     BeginLoop, EndTick, DemotePhases
<1>2. CASE BulkWork \/ PromoteWork
  BY <1>2 DEF BulkWork, ToBulk, UnlinkEntry, RemoveDir, PromoteWork, BeginCopy, FinishCopy, CopiesDone,
     WriteMeta, ClearIntent, Publish
<1>3. CASE Failures
  BY <1>3 DEF Failures, BulkJobFails, PromotionFails, TierWriteFails, ReconcileFails, EndTick, DemotePhases
<1>4. CASE Reconciliation \/ Exit
  BY <1>4 DEF Reconciliation, Start, ReconcileDir, BeginPassB, PickMissing, DropMissingRow,
     EndReconcile, Exit
<1>5. CASE Environment
  BY <1>5 DEF Environment, Crash, RequestStop, LoseDb, LoseDir, LoseSidecar, LosePayload, Import,
     RemoveTorrent, Relocate, Unmount, Mount, IntentExpires, ProcessDies, DownVars, ProgramVars
<1> QED
  BY <1>1, <1>2, <1>3, <1>4, <1>5 DEF Next, Daemon

\* What a complete poll sees.
LEMMA ViewPoll ==
  ASSUME TypeOK, LoopInv, PollTick
  PROVE  ViewInv'
<1> SUFFICES ASSUME "absent" \notin Faults, pollOk', NEW l \in listed'
             PROVE  /\ l \in Unmapped' => l \in into'
                    /\ phase' = "orphans"
                    /\ link'[l] = "bulk" => TorrentOf[l] \in Live'
  BY DEF ViewInv
<1> PICK down \in SUBSET Instance, absent \in SUBSET (Torrent \X Instance) : Poll(down, absent)
  BY DEF PollTick
<1>1. down = {} /\ absent = {} /\ phase' = "orphans"
  BY DEF Poll, BeginLoop
<1>2. l \in listed /\ l \in Link /\ link' = link /\ side' = side
  BY DEF Poll, bulkVars, ssdVars, TypeOK
<1>3. link[l] # "none" => l \in SeenLinks(down, absent)
  BY <1>1, <1>2 DEF SeenLinks, IsSymlink, LoopInv
<1>4. into' = IntoSsd(SeenLinks(down, absent)) /\ layouts' = Resolved(SeenLinks(down, absent))
  BY DEF Poll
<1>5. l \in Unmapped' => l \in into'
  BY <1>2, <1>3, <1>4 DEF Unmapped, IntoSsd
<1>6. link'[l] = "bulk" => l \in layouts'
  BY <1>2, <1>3, <1>4 DEF Resolved
<1> QED
  BY <1>1, <1>5, <1>6 DEF Live

LEMMA ViewStep ==
  ASSUME Gentle, TypeOK, MappingInv, VictimInv, ViewInv, [Next]_vars
  PROVE  ViewInv'
<1>1. CASE UNCHANGED vars
  <2>1. Unmapped' = Unmapped
    BY <1>1 DEF Unmapped, Known, HotMap, vars, bulkVars, ssdVars, dbVars
  <2> QED
    BY <1>1, <2>1 DEF ViewInv, Retargeted, Live, vars, bulkVars, ssdVars, workVars, viewVars
<1>2. CASE PollTick
  BY <1>2, ViewPoll DEF MappingInv
<1>3. CASE Next /\ ~PollTick
  <2> SUFFICES ASSUME "absent" \notin Faults, pollOk', phase' \in TickPhases, NEW l \in listed'
               PROVE  /\ l \in Unmapped' => l \in into'
                      /\ l \in Unmapped' => phase' = "orphans" \/ TorrentOf[l] \in quarantined'
                      /\ phase' \in {"orphans", "demote", "reclaim"} /\ link'[l] = "bulk" =>
                           TorrentOf[l] \in Live' \/ Retargeted(TorrentOf[l])'
    BY DEF ViewInv
  <2> DEFINE t == TorrentOf[l]
  <2>1. /\ phase \in TickPhases /\ pollOk
        /\ layouts' = layouts /\ into' = into /\ Live' = Live
        /\ QuarantineAndDemote \/ (quarantined' = quarantined /\ (phase = "orphans" => phase' = "orphans"))
    BY <1>3, TickGoesOn DEF Live
  <2>2. l \in listed /\ l \in Link /\ (link' = link \/ \E k \in Link : ToBulk(k) \/ Publish(k))
    BY <1>3, <2>1, LinksInTick DEF TypeOK
  <2>3. l \in Unmapped' => l \in Unmapped
    <3>1. phase # "down"
      BY <2>1 DEF TickPhases
    <3> QED
      BY <1>3, <3>1, <1>1, MappingStep DEF KeepsMappings, Unmapped, Known, HotMap, vars, bulkVars, ssdVars, dbVars
  <2>4. l \in Unmapped' => l \in into'
    BY <2>1, <2>2, <2>3 DEF ViewInv
  <2>5. ASSUME l \in Unmapped' PROVE phase' = "orphans" \/ t \in quarantined'
    <3>1. CASE QuarantineAndDemote
      <4>1. l \in UnmappedNow
        BY <2>1, <2>2, <2>3, <2>5 DEF ViewInv, UnmappedNow, Unmapped, Known, IsSymlink, MappingInv, LoopInv
      <4> QED
        BY <3>1, <4>1 DEF QuarantineAndDemote
    <3>2. CASE quarantined' = quarantined /\ (phase = "orphans" => phase' = "orphans")
      BY <2>1, <2>2, <2>3, <2>5, <3>2 DEF ViewInv
    <3> QED
      BY <2>1, <3>1, <3>2
  <2>6. ASSUME phase' \in {"orphans", "demote", "reclaim"}, link'[l] = "bulk"
        PROVE  t \in Live \/ Retargeted(t)'
    <3>1. phase \in {"orphans", "demote", "reclaim"}
      BY <1>3, <2>1, <2>6, TickGoesOn DEF TickPhases
    <3>2. dir' \subseteq dir
      BY <1>3, <3>1, DirsInTick DEF MappingInv
    <3>3. CASE link[l] = "bulk"
      <4>1. t \in Live \/ Retargeted(t)
        BY <2>1, <2>2, <3>1, <3>3 DEF ViewInv
      <4>2. CASE t \notin dir
        BY <3>2, <4>2 DEF Retargeted
      <4>3. CASE phase = "orphans" /\ step # "pick" /\ cur = t
        <5>1. phase' = "orphans"
          BY <1>3, <2>1, <4>3 DEF QuarantineAndDemote
        <5>2. (step' # "pick" /\ cur' = cur) \/ step = "remove"
          BY <1>3, <4>3, <5>1, LoopGoesOn
        <5>3. step = "remove" => t \notin dir
          BY <4>3 DEF VictimInv, NothingLeft
        <5> QED
          BY <3>2, <4>3, <5>1, <5>2, <5>3 DEF Retargeted
      <4>4. CASE phase = "reclaim" /\ t \notin todo
        <5>1. phase' = "reclaim"
          BY <1>3, <2>6, <4>4, TickGoesOn DEF TickPhases
        <5> QED
          BY <1>3, <4>4, <5>1, LoopGoesOn DEF Retargeted
      <4> QED
        BY <4>1, <4>2, <4>3, <4>4 DEF Retargeted
    <3>4. CASE link[l] # "bulk"
      <4>1. ToBulk(l)
        BY <2>2, <2>6, <3>4 DEF ToBulk, Publish, TypeOK
      <4>2. step = "links" /\ step' = "links" /\ phase' = phase /\ cur' = cur /\ todo' = todo /\ l \in rest
        BY <4>1 DEF ToBulk
      <4>3. t = cur /\ cur \notin todo
        BY <4>2 DEF VictimInv, OwnWork, LinksOf
      <4>4. CASE phase \in {"orphans", "reclaim"}
        BY <4>2, <4>3, <4>4 DEF Retargeted
      <4>5. CASE phase = "demote"
        BY <4>2, <4>3, <4>5 DEF VictimInv, VisitedInv, Visited, DemotePhases
      <4> QED
        BY <3>1, <4>4, <4>5
    <3> QED
      BY <3>3, <3>4
  <2> QED
    BY <2>1, <2>4, <2>5, <2>6
<1> QED
  BY <1>1, <1>2, <1>3

\* The records, the loops, whom they visit and what they see stay consistent
\* through every disturbance that is not one of RoughFaults.
THEOREM CacheInvariant ==
  ASSUME Gentle
  PROVE  Spec => []IndInv
<1>1. Init => ViewInv
  BY DEF Init, ViewInv
<1>2. TypeOK /\ MappingInv /\ VictimInv /\ ViewInv /\ [Next]_vars => ViewInv'
  BY ViewStep
<1> QED
  BY <1>1, <1>2, TypeCorrect, Consistent, VictimsChosen, PTL DEF Spec, IndInv

-----------------------------------------------------------------------------
(* What the invariant says of the copies.                                  *)

\* Links enter the instances' lists as imports to bulk.
LEMMA ListedGrows ==
  ASSUME Gentle, TypeOK, Next, NEW l \in listed', link'[l] = "ssd"
  PROVE  l \in listed
<1>1. CASE listed' \subseteq listed
  BY <1>1
<1>2. CASE Daemon
  <2>1. listed' = listed
    BY <1>2 DEF Daemon, PollTick, Poll, Exit, Loops, PickOrphan, DropOrphanRow, QuarantineAndDemote,
       PickDemotion, SetCold, BeginReclaim, KeepPending, PickReclaim, Reclaimed, BeginDisplace,
       BeginPromotions, PickPromotion, SetHot, EndPromotions, StopPromotions, BulkWork, ToBulk,
       UnlinkEntry, RemoveDir, PromoteWork, BeginCopy, FinishCopy, CopiesDone, WriteMeta, ClearIntent,
       Publish, Failures, BulkJobFails, PromotionFails, TierWriteFails, ReconcileFails, Reconciliation,
       Start, ReconcileDir, BeginPassB, PickMissing, DropMissingRow, EndReconcile, bulkVars
  <2> QED
    BY <1>1, <2>1
<1>3. ASSUME NEW k \in Link, Import(k)
      PROVE  l \in listed
  BY <1>3 DEF Import, TypeOK
<1>4. ASSUME NEW k \in Link, NEW m \in Link, Relocate(k, m)
      PROVE  FALSE
  BY <1>4, GentleDisturb DEF Relocate, RoughFaults
<1>5. CASE Environment
  BY <1>1, <1>3, <1>4, <1>5 DEF Environment, Crash, RequestStop, LoseDb, LoseDir, LoseSidecar,
     LosePayload, RemoveTorrent, Unmount, Mount, IntentExpires, DownVars, ProgramVars, bulkVars
<1> QED
  BY <1>2, <1>5 DEF Next

\* The directory of a link whose mapping is lost is removed by the orphan
\* clean-up or not at all.
LEMMA LostIsQuarantined ==
  ASSUME "absent" \notin Faults, VictimInv, ViewInv, UnlinkEntry,
         NEW l \in listed, l \in Unmapped, TorrentOf[l] = cur
  PROVE  phase = "orphans"
<1> SUFFICES ASSUME phase \in {"demote", "reclaim", "displace"}
             PROVE  FALSE
  BY DEF UnlinkEntry, BulkPhases
<1>1. cur \in Visited
  BY DEF UnlinkEntry, Visited
<1>2. pollOk
  BY <1>1 DEF VictimInv, VisitedInv, TickPhases
<1>3. l \in into /\ cur \in quarantined
  BY <1>2 DEF ViewInv, TickPhases
<1>4. CASE phase = "reclaim"
  <2>1. cur \in Referenced
    BY <1>3 DEF Referenced
  <2> QED
    BY <1>1, <1>4, <2>1 DEF VictimInv, VisitedInv
<1>5. CASE phase \in DemotePhases
  BY <1>1, <1>3, <1>5 DEF VictimInv, VisitedInv
<1> QED
  BY <1>4, <1>5 DEF DemotePhases

\* A link that a step of the running daemon leaves dangling has lost its
\* mapping before, and its directory is being removed.
LEMMA DanglesByRemoval ==
  ASSUME Gentle, TypeOK, MappingInv, Next, phase # "down", NEW l \in Dangling', l \notin Dangling
  PROVE  UnlinkEntry /\ l \in listed /\ l \in Unmapped /\ TorrentOf[l] = cur
<1>1. l \in listed /\ l \in Link /\ link'[l] = "ssd" /\ FileOf[l] \notin copies'
  BY ListedGrows DEF Dangling, TypeOK
<1>2. CASE link[l] # "ssd"
  <2>1. Publish(l)
    BY <1>1, <1>2, LeadsIn DEF OnSsd
  <2>2. FileOf[l] \in copies /\ copies' = copies
    BY <2>1 DEF Publish, MappingInv, PromotionOrder, LayoutsOf, LinksOf, Wanted, ssdVars
  <2> QED
    BY <1>1, <2>2
<1>3. CASE link[l] = "ssd"
  <2>1. FileOf[l] \in copies
    BY <1>1, <1>3 DEF Dangling
  <2>2. UnlinkEntry
    BY <1>1, <2>1, CopiesDaemon, CopiesEnvironment DEF Next, FinishCopy
  <2>3. FileOf[l] \in FilesOf(cur)
    BY <1>1, <2>1, <2>2 DEF UnlinkEntry
  <2>4. TorrentOf[l] = cur
    BY <1>1, <2>3, LinksAssumption DEF FilesOf, LinksOf
  <2>5. ~Known(l)
    BY <1>1, <1>3, <2>2, <2>4, RemovedIsFree DEF MappingInv, UnlinkEntry, OnSsd
  <2> QED
    BY <1>1, <1>3, <2>2, <2>4, <2>5 DEF Unmapped
<1> QED
  BY <1>2, <1>3

\* While the daemon runs no seeded link is left without its copy, mapped or
\* not, but by the orphan clean-up, and there only one whose mapping is lost.
THEOREM QuarantineProtects ==
  ASSUME Gentle, "absent" \notin Faults
  PROVE  Spec => NoNewDangling
<1>1. TypeOK /\ IndInv /\ [Next]_vars => [DanglesNothing]_vars
  <2> SUFFICES ASSUME TypeOK, IndInv, Next, phase # "down", NEW l \in Dangling', l \notin Dangling
               PROVE  l \in Forsaken
    BY DEF DanglesNothing
  <2>1. UnlinkEntry /\ l \in listed /\ l \in Unmapped /\ TorrentOf[l] = cur
    BY DanglesByRemoval DEF IndInv
  <2>2. phase = "orphans"
    BY <2>1, LostIsQuarantined DEF IndInv
  <2> QED
    BY <2>1, <2>2 DEF Forsaken, Unmapped
<1> QED
  BY <1>1, TypeCorrect, CacheInvariant, PTL DEF Spec, NoNewDangling

\* No mapping is lost while every loss leaves one of its two records.
LEMMA NothingUnmapped ==
  ASSUME Gentle, "lastcopy" \notin Faults
  PROVE  Spec => [](Unmapped = {})
<1>1. Init => Unmapped = {}
  BY DEF Init, Unmapped
<1>2. TypeOK /\ MappingInv /\ Unmapped = {} /\ [Next]_vars => (Unmapped = {})'
  <2> SUFFICES ASSUME TypeOK, MappingInv, Unmapped = {}, [Next]_vars
               PROVE  Unmapped' \subseteq Unmapped
    OBVIOUS
  <2>1. CASE UNCHANGED vars
    BY <2>1 DEF Unmapped, Known, HotMap, vars, bulkVars, ssdVars, dbVars
  <2>2. CASE Next /\ phase # "down"
    BY <2>1, <2>2, MappingStep DEF KeepsMappings
  <2>3. CASE Next /\ phase = "down"
    <3>1. CASE LoseDb \/ \E t \in Torrent : LoseDir(t) \/ LoseSidecar(t)
      BY <3>1 DEF LoseDb, LoseDir, LoseSidecar, LeavesRecord
    <3>2. CASE \/ \E l \in Link : Import(l)
               \/ \E t \in Torrent, i \in Instance : RemoveTorrent(t, i)
      <4>1. /\ \A l \in Link : link'[l] = "ssd" => link[l] = "ssd"
            /\ side' = side /\ row' = row /\ map' = map
        BY <3>2, LinkEvents DEF ssdVars, dbVars
      <4> QED
        BY <4>1 DEF Unmapped, Known, HotMap
    <3>3. CASE UNCHANGED records
      BY <3>3 DEF Unmapped, Known, HotMap, records
    <3>4. CASE Start
      BY <3>3, <3>4 DEF Start, records, bulkVars, ssdVars, dbVars
    <3> QED
      BY <2>3, <3>1, <3>2, <3>3, <3>4, EnvironmentFrame, DownDoesNothing DEF Next, MappingInv
  <2> QED
    BY <2>1, <2>2, <2>3
<1> QED
  BY <1>1, <1>2, TypeCorrect, Consistent, PTL DEF Spec

\* As long as every loss leaves one of the two records of a mapping, no seeded
\* link is left without its copy at all, also when instances hide torrents.
THEOREM NothingDangles ==
  ASSUME Gentle, "lastcopy" \notin Faults
  PROVE  Spec => [][phase # "down" => Dangling' \subseteq Dangling]_vars
<1>1. TypeOK /\ MappingInv /\ Unmapped = {} /\ [Next]_vars => [phase # "down" => Dangling' \subseteq Dangling]_vars
  <2> SUFFICES ASSUME TypeOK, MappingInv, Unmapped = {}, Next, phase # "down",
                      NEW l \in Dangling', l \notin Dangling
               PROVE  FALSE
    OBVIOUS
  <2> QED
    BY DanglesByRemoval
<1> QED
  BY <1>1, TypeCorrect, Consistent, NothingUnmapped, PTL DEF Spec

\* Whoever gets to be worked on by the reclaim loop was picked by it.
LEMMA OnlyReclaimPicks ==
  ASSUME Next, phase = "reclaim", cur = None, NEW t \in Torrent, cur' = t
  PROVE  PickReclaim(t)
<1>0. cur' # None /\ cur' # cur
  BY NoneAssumption
<1> USE DEF workVars
<1>1. CASE PollTick \/ Exit \/ Reconciliation
  BY <1>0, <1>1 DEF PollTick, Poll, Exit, Reconciliation, Start, ReconcileDir, BeginPassB, PickMissing,
     DropMissingRow, EndReconcile
<1>2. CASE Loops
  BY <1>0, <1>2 DEF Loops, PickOrphan, DropOrphanRow, QuarantineAndDemote, PickDemotion, SetCold,
     BeginReclaim, KeepPending, PickReclaim, Reclaimed, BeginDisplace, BeginPromotions, PickPromotion,
     SetHot, EndPromotions, StopPromotions, BeginRetarget, Take, NextTorrent, BeginLoop, EndTick, NoWork,
     DemotePhases
<1>3. CASE BulkWork \/ PromoteWork
  BY <1>0, <1>3 DEF BulkWork, ToBulk, UnlinkEntry, RemoveDir, PromoteWork, BeginCopy, FinishCopy,
     CopiesDone, WriteMeta, ClearIntent, Publish
<1>4. CASE Failures
  BY <1>0, <1>4 DEF Failures, BulkJobFails, PromotionFails, TierWriteFails, ReconcileFails, EndTick,
     ProcessDies, NoWork, NextTorrent
<1>5. CASE Environment
  BY <1>0, <1>5 DEF Environment, Crash, RequestStop, LoseDb, LoseDir, LoseSidecar, LosePayload, Import,
     RemoveTorrent, Relocate, Unmount, Mount, IntentExpires, ProcessDies, NoWork, DownVars, ProgramVars
<1> QED
  BY <1>1, <1>2, <1>3, <1>4, <1>5 DEF Next, Daemon

\* Reclaiming never takes the directory of an interrupted promotion of a
\* torrent that is still there: a link on bulk was a layout of this tick, or
\* its directory is gone, or it was visited already.
THEOREM PendingStays ==
  ASSUME Gentle, "absent" \notin Faults
  PROVE  Spec => PendingKept
<1> DEFINE Keeps == \A t \in Torrent :
                      /\ phase = "reclaim"
                      /\ cur = None
                      /\ cur' = t
                      => ~(/\ intent[t] = "fresh"
                           /\ side[t] = {}
                           /\ \E l \in listed \cap LinksOf(t) : link[l] = "bulk")
<1>1. TypeOK /\ IndInv /\ [Next]_vars => [Keeps]_vars
  <2> SUFFICES ASSUME TypeOK, IndInv, Next, NEW t \in Torrent, phase = "reclaim", cur = None, cur' = t,
                      intent[t] = "fresh", side[t] = {},
                      NEW l \in listed \cap LinksOf(t), link[l] = "bulk"
               PROVE  FALSE
    OBVIOUS
  <2>1. PickReclaim(t)
    BY NoneAssumption, OnlyReclaimPicks
  <2>2. t \in todo /\ step = "pick" /\ t \notin Live
    BY <2>1 DEF PickReclaim, Pending, BeginRetarget, Take
  <2>3. pollOk /\ t \in dir
    BY <2>2 DEF IndInv, VictimInv, VisitedInv, Visited, MarkerInDir, TickPhases
  <2>4. Retargeted(t)
    BY <2>2, <2>3 DEF IndInv, ViewInv, LinksOf, TickPhases
  <2> QED
    BY <2>2, <2>3, <2>4 DEF Retargeted
<1> QED
  BY <1>1, TypeCorrect, CacheInvariant, PTL DEF Spec, PendingKept
=============================================================================
