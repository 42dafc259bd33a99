----------------------------- MODULE RepairProofs -----------------------------
(***************************************************************************)
(* The repair command and the marker, for every set of torrents, links,    *)
(* instances and files, every budget of disturbances and every subset of   *)
(* their kinds.                                                            *)
(***************************************************************************)
EXTENDS Repair, TLAPS

\* Nothing is found and nothing reported at first.
LEMMA InitInv == Init => FindingsInv
<1> SUFFICES ASSUME Init PROVE FindingsInv
  OBVIOUS
<1>1. TypeOK
  BY RepairAssumption DEF Init, TypeOK, Unread, Unnoted, Statuses
<1>2. DatedInv
  BY RepairAssumption DEF Init, DatedInv
<1>3. ScanInv /\ VerdictInv
  BY DEF Init, ScanInv, VerdictInv, Unnoted
<1> QED
  BY <1>1, <1>2, <1>3 DEF FindingsInv

\* Only the daemon's reports and starts, and nothing else, date the trouble.
LEMMA DatedStable == DatedInv /\ UNCHANGED reportVars => DatedInv'
BY DEF DatedInv, reportVars

\* The command's own notes, when another process moves.
LEMMA ScanStable == ScanInv /\ UNCHANGED runVars => ScanInv'
BY DEF ScanInv, runVars, scanVars

\* A disturbance is paid for.
LEMMA BudgetFalls == ASSUME TypeOK, NEW kind, Disturb(kind) PROVE budget' \in 0..MaxEvents
<1>1. MaxEvents \in Nat /\ budget \in 0..MaxEvents
  BY RepairAssumption DEF TypeOK
<1> QED
  BY <1>1 DEF Disturb

-----------------------------------------------------------------------------
(* The command.                                                            *)

LEMMA EndRunInv ==
  ASSUME FindingsInv, EndRun, budget' \in 0..MaxEvents
  PROVE  FindingsInv'
<1> USE DEF FindingsInv
<1>1. TypeOK'
  BY DEF EndRun, TypeOK, Unread, Unnoted, Statuses, diskVars, reportVars
<1>2. DatedInv'
  BY DatedStable DEF EndRun
<1>3. ScanInv' /\ VerdictInv'
  BY RepairAssumption DEF EndRun, ScanInv, VerdictInv, Unnoted
<1> QED
  BY <1>1, <1>2, <1>3

LEMMA StartScanInv == FindingsInv /\ StartScan => FindingsInv'
<1> SUFFICES ASSUME FindingsInv, StartScan PROVE FindingsInv'
  OBVIOUS
<1> USE DEF FindingsInv, StartScan
<1>1. TypeOK'
  BY DEF TypeOK, Known, diskVars, reportVars, ghosts
<1>2. DatedInv'
  BY DatedStable
<1>3. ScanInv' /\ VerdictInv'
  BY DEF ScanInv, VerdictInv, TypeOK, diskVars, ghosts
<1> QED
  BY <1>1, <1>2, <1>3

LEMMA ScanLinkInv == ASSUME NEW l \in Link, FindingsInv, ScanLink(l) PROVE FindingsInv'
<1> USE DEF FindingsInv, ScanLink
<1>0. KnownLinks(TorrentOf[l]) \subseteq Link /\ TorrentOf[l] \in Torrent
  BY RepairAssumption DEF KnownLinks, TypeOK, Known
<1>1. TypeOK'
  BY <1>0 DEF TypeOK, Statuses, diskVars, reportVars, ghosts
<1>2. DatedInv'
  BY DatedStable
<1>3. /\ \A m \in Link : status'[m] = status[m] \/ (m = l /\ status'[m] \in {"none", "hit"})
      /\ status[l] = "none"
  BY DEF TypeOK, ScanInv
<1>4. ScanInv'
  BY <1>3 DEF ScanInv, TypeOK
<1>5. VerdictInv'
  BY <1>3 DEF VerdictInv, TypeOK, diskVars, ghosts
<1> QED
  BY <1>1, <1>2, <1>4, <1>5

LEMMA NoteTargetInv == ASSUME NEW l \in Link, FindingsInv, NoteTarget(l) PROVE FindingsInv'
<1> USE DEF FindingsInv, NoteTarget
<1>1. TypeOK'
  BY DEF TypeOK, Statuses, diskVars, reportVars, ghosts
<1>2. DatedInv'
  BY DatedStable
<1>3. ScanInv'
  BY DEF ScanInv, TypeOK
<1>4. VerdictInv'
  BY DEF VerdictInv, ScanInv, TypeOK, diskVars, ghosts
<1> QED
  BY <1>1, <1>2, <1>3, <1>4

LEMMA IndexInv == FindingsInv /\ Index => FindingsInv'
<1> SUFFICES ASSUME FindingsInv, Index PROVE FindingsInv'
  OBVIOUS
<1> USE DEF FindingsInv, Index
<1>1. TypeOK'
  BY DEF TypeOK, Unread, diskVars, reportVars, ghosts
<1>2. DatedInv'
  BY DatedStable
<1>3. ScanInv' /\ VerdictInv'
  BY DEF ScanInv, VerdictInv, TypeOK, diskVars, ghosts
<1> QED
  BY <1>1, <1>2, <1>3

\* An answer of classify() is a file of the index with the torrent's content.
LEMMA AnswersMatch == \A l \in Link : Answers(l) \subseteq {f \in sized : holds[f] = Wants[l]}
BY DEF Answers, Matching

\* What is called verified has an answer.
LEMMA VerdictAnswered ==
  \A l \in Link : /\ Verdict(l) \in Statuses \ {"none", "hit", "noted"}
                  /\ Verdict(l) \in {"verified", "unmanaged"} => Answers(l) # {}
BY DEF Verdict, Statuses

LEMMA VerifyInv == FindingsInv /\ Verify => FindingsInv'
<1> SUFFICES ASSUME FindingsInv, Verify PROVE FindingsInv'
  OBVIOUS
<1> USE DEF FindingsInv
<1>1. status' \in [Link -> Statuses]
  BY VerdictAnswered DEF Verify, TypeOK
<1>2. ASSUME NEW l \in Link, status'[l] \in {"verified", "unmanaged"}
      PROVE  cand'[l] \in File /\ holds[cand'[l]] = Wants[l]
  <2>1. status[l] = "noted" /\ status'[l] = Verdict(l)
    BY <1>2 DEF Verify, ScanInv, TypeOK
  <2>2. Answers(l) # {}
    BY <1>2, <2>1, VerdictAnswered
  <2>3. cand'[l] \in Answers(l)
    BY <1>2, <2>2 DEF Verify
  <2> QED
    BY <2>3, AnswersMatch DEF TypeOK
<1>3. cand' \in [Link -> File \cup {None}]
  <2>1. cand' = [l \in Link |-> cand'[l]]
    BY DEF Verify
  <2>2. \A l \in Link : cand'[l] \in File \cup {None}
    BY <1>2 DEF Verify
  <2> QED
    BY <2>1, <2>2
<1>4. TypeOK'
  BY <1>1, <1>3 DEF Verify, TypeOK, diskVars, reportVars
<1>5. DatedInv'
  BY DatedStable DEF Verify
<1>6. ScanInv'
  BY <1>1 DEF Verify, ScanInv, TypeOK
<1>7. VerdictInv'
  <2>1. \A l \in Link : status'[l] = "verified" => cand'[l] \in File /\ holds'[cand'[l]] = Wants[l]
    BY <1>2 DEF Verify, diskVars
  <2>2. cur' = None
    BY DEF Verify, VerdictInv, ScanInv, TypeOK
  <2>3. \A l \in touched' : seen'[l] # None /\ target'[l] # seen'[l]
    BY DEF Verify, VerdictInv, TypeOK, diskVars
  <2> QED
    BY <2>1, <2>2, <2>3 DEF VerdictInv
<1> QED
  BY <1>4, <1>5, <1>6, <1>7

LEMMA CheckInv == ASSUME NEW l \in Link, FindingsInv, Check(l) PROVE FindingsInv'
<1> USE DEF FindingsInv, Check
<1>1. TypeOK'
  BY DEF TypeOK, Statuses, diskVars, reportVars, scanVars, ghosts
<1>2. DatedInv'
  BY DatedStable
<1>3. ScanInv'
  BY DEF ScanInv, TypeOK, scanVars
<1>4. VerdictInv'
  BY DEF VerdictInv, TypeOK, UnchangedSince, diskVars, scanVars, ghosts
<1> QED
  BY <1>1, <1>2, <1>3, <1>4

LEMMA RetargetInv == FindingsInv /\ Retarget => FindingsInv'
<1> SUFFICES ASSUME FindingsInv, Retarget PROVE FindingsInv'
  OBVIOUS
<1> USE DEF FindingsInv, Retarget
<1>0. /\ cur \in Link /\ status[cur] = "verified"
      /\ cand[cur] \in File /\ cur \notin touched
  BY DEF TypeOK, VerdictInv
<1>1. TypeOK'
  BY <1>0 DEF TypeOK, Statuses, reportVars, scanVars, ghosts
<1>2. DatedInv'
  BY DatedStable
<1>3. ScanInv'
  BY <1>0 DEF ScanInv, TypeOK, scanVars
<1>4. VerdictInv'
  BY <1>0 DEF VerdictInv, TypeOK, scanVars, ghosts
<1> QED
  BY <1>1, <1>2, <1>3, <1>4

LEMMA RetargetRaisesInv ==
  ASSUME FindingsInv, RetargetRaises, budget' \in 0..MaxEvents
  PROVE  FindingsInv'
<1> USE DEF FindingsInv, RetargetRaises
<1>0. cur \in Link /\ status[cur] = "verified"
  BY DEF TypeOK, VerdictInv
<1>1. TypeOK'
  BY <1>0 DEF TypeOK, Statuses, diskVars, reportVars, scanVars, ghosts
<1>2. DatedInv'
  BY DatedStable
<1>3. ScanInv'
  BY <1>0 DEF ScanInv, TypeOK, scanVars
<1>4. VerdictInv'
  BY <1>0 DEF VerdictInv, TypeOK, diskVars, scanVars, ghosts
<1> QED
  BY <1>1, <1>2, <1>3, <1>4

LEMMA EndApplyInv == FindingsInv /\ EndApply => FindingsInv'
<1> SUFFICES ASSUME FindingsInv, EndApply PROVE FindingsInv'
  OBVIOUS
<1> USE DEF FindingsInv, EndApply
<1>1. TypeOK'
  BY DEF TypeOK, Unnoted, diskVars, reportVars
<1>2. DatedInv'
  BY DatedStable
<1>3. ScanInv' /\ VerdictInv'
  BY DEF ScanInv, VerdictInv, TypeOK, Unnoted, diskVars
<1> QED
  BY <1>1, <1>2, <1>3

LEMMA RecheckInv == ASSUME NEW e \in Instance \X Torrent, FindingsInv, Recheck(e) PROVE FindingsInv'
<1> USE DEF FindingsInv, Recheck
<1>1. TypeOK'
  BY DEF TypeOK, diskVars, reportVars, scanVars, ghosts
<1>2. DatedInv'
  BY DatedStable
<1>3. ScanInv' /\ VerdictInv'
  BY DEF ScanInv, VerdictInv, TypeOK, diskVars, scanVars, ghosts
<1> QED
  BY <1>1, <1>2, <1>3

LEMMA CommandInv == FindingsInv /\ Command => FindingsInv'
<1> SUFFICES ASSUME FindingsInv, Command PROVE FindingsInv'
  OBVIOUS
<1>1. budget \in 0..MaxEvents
  BY DEF FindingsInv, TypeOK
<1>2. CASE \E l \in Link : ScanLink(l) \/ NoteTarget(l) \/ NoteRaises(l) \/ Check(l)
  <2> PICK l \in Link : ScanLink(l) \/ NoteTarget(l) \/ NoteRaises(l) \/ Check(l)
    BY <1>2
  <2>1. CASE NoteRaises(l)
    BY <1>1, <2>1, EndRunInv DEF NoteRaises
  <2> QED
    BY <2>1, ScanLinkInv, NoteTargetInv, CheckInv
<1>3. CASE \E e \in Instance \X Torrent : Recheck(e)
  BY <1>3, RecheckInv
<1>4. CASE RetargetRefused
  BY <1>1, <1>4, RetargetRaisesInv DEF RetargetRefused
<1>5. CASE Done
  BY <1>1, <1>5, EndRunInv DEF Done
<1> QED
  BY <1>2, <1>3, <1>4, <1>5, StartScanInv, IndexInv, VerifyInv, RetargetInv, EndApplyInv
     DEF Command

-----------------------------------------------------------------------------
(* The daemon.                                                             *)

\* The marker, as it is read and as it is written.
LEMMA MarkerFacts ==
  ASSUME TypeOK
  PROVE  /\ MarkerFirst \in {None} \cup 0..now
         /\ marker \notin {NoMarker, Blank} => MarkerFirst = marker.first /\ marker.first # None
         /\ \A ls \in SUBSET Link, n \in Nat : [links |-> ls, first |-> n] \notin {NoMarker, Blank}
         /\ NoMarker # Blank
<1>1. \A ls \in SUBSET Link, n \in Nat :
        [links |-> ls, first |-> n] \in [links : SUBSET Link, first : Nat]
  OBVIOUS
<1> QED
  BY <1>1, RepairAssumption DEF TypeOK, MarkerFirst

LEMMA ReportNoneInv ==
  ASSUME FindingsInv, ReportNone, UNCHANGED <<diskVars, up, runVars, ghosts>>
  PROVE  FindingsInv'
<1> USE DEF FindingsInv
<1>0. budget' \in 0..MaxEvents
  BY BudgetFalls DEF ReportNone, ClearMarker, TypeOK
<1>1. TypeOK'
  BY <1>0 DEF ReportNone, ClearMarker, TypeOK, diskVars, runVars, scanVars, ghosts
<1>2. DatedInv'
  BY RepairAssumption DEF ReportNone, ClearMarker, DatedInv
<1>3. ScanInv' /\ VerdictInv'
  BY ScanStable DEF VerdictInv, diskVars, runVars, scanVars, ghosts
<1> QED
  BY <1>1, <1>2, <1>3

LEMMA ReportSomeInv ==
  ASSUME FindingsInv, ReportSome, UNCHANGED <<diskVars, up, runVars, ghosts>>
  PROVE  FindingsInv'
<1> USE DEF FindingsInv
<1>1. /\ now' \in Nat /\ now <= now' /\ since' \in 0..now'
      /\ firstSeen' \in 0..now' /\ Unmapped \subseteq Link
  BY MarkerFacts, RepairAssumption DEF ReportSome, First, TypeOK, Unmapped
<1>2. /\ marker' \in {marker, Blank, [links |-> Unmapped, first |-> firstSeen']}
      /\ budget' \in 0..MaxEvents
  BY BudgetFalls DEF ReportSome, WriteMarker, TypeOK
<1>3. marker' \in {NoMarker, Blank} \cup [links : SUBSET Link, first : 0..now']
  <2>1. \A m \in [links : SUBSET Link, first : 0..now] : m \in [links : SUBSET Link, first : 0..now']
    BY <1>1 DEF TypeOK
  <2>2. [links |-> Unmapped, first |-> firstSeen'] \in [links : SUBSET Link, first : 0..now']
    BY <1>1
  <2> QED
    BY <1>2, <2>1, <2>2 DEF TypeOK
<1>4. TypeOK'
  BY <1>1, <1>2, <1>3 DEF ReportSome, TypeOK, diskVars, runVars, scanVars, ghosts
<1>5. ASSUME "marker" \notin Faults
      PROVE  /\ firstSeen' = since'
             /\ marker' # Blank /\ marker' # NoMarker
             /\ marker'.first = since'
  <2>1. firstSeen' = since'
    <3>1. CASE since = None
      <4>1. marker = NoMarker /\ firstSeen = None
        BY <1>5, <3>1, MarkerFacts DEF DatedInv
      <4> QED
        BY <3>1, <4>1 DEF ReportSome, First, MarkerFirst
    <3>2. CASE since # None
      BY <1>5, <3>2, MarkerFacts DEF DatedInv, ReportSome, First
    <3> QED
      BY <3>1, <3>2
  <2>2. CASE Outdated
    <3>1. marker' = [links |-> Unmapped, first |-> firstSeen']
      BY <1>5, <2>2 DEF ReportSome, WriteMarker, Disturb
    <3> QED
      BY <1>1, <2>1, <3>1, MarkerFacts
  <2>3. CASE ~Outdated
    <3>1. marker' = marker /\ marker # NoMarker
      BY <2>3 DEF ReportSome, Outdated
    <3>2. marker # Blank /\ marker.first = since /\ since # None
      BY <1>5, <3>1, MarkerFacts DEF DatedInv
    <3> QED
      BY <2>1, <3>1, <3>2 DEF ReportSome
  <2> QED
    BY <2>1, <2>2, <2>3
<1>6. DatedInv'
  BY <1>5 DEF DatedInv
<1>7. ScanInv' /\ VerdictInv'
  BY ScanStable DEF VerdictInv, diskVars, runVars, scanVars, ghosts
<1> QED
  BY <1>4, <1>6, <1>7

\* A step that moves links and leaves the command's notes alone, but forgets the
\* links that lead again where they were found.
LEMMA MoveInv ==
  ASSUME NEW t \in Torrent, FindingsInv, Promote(t) \/ Demote(t)
  PROVE  FindingsInv'
<1> USE DEF FindingsInv
<1>1. TypeOK'
  <2>1. CASE Promote(t)
    BY <2>1 DEF Promote, TypeOK, reportVars, runVars, scanVars
  <2>2. CASE Demote(t)
    <3>1. \A l \in LinksOf(t) : target[l] = Ssd => known[l] # None
      BY <2>2 DEF Demote, Quarantined, Unmapped, Known, LinksOf
    <3>2. target' \in [Link -> File \cup {Ssd, NoLink}]
      BY <2>2, <3>1 DEF Demote, TypeOK
    <3> QED
      BY <2>2, <3>2 DEF Demote, TypeOK, reportVars, runVars, scanVars
  <2> QED
    BY <2>1, <2>2
<1>2. DatedInv'
  BY DatedStable DEF Promote, Demote
<1>3. ScanInv'
  BY ScanStable DEF Promote, Demote
<1>4. /\ holds' = holds /\ replaced' = replaced /\ UNCHANGED runVars
      /\ touched' = {l \in touched : target'[l] # seen[l]}
  BY DEF Promote, Demote
<1>5. VerdictInv'
  BY <1>4 DEF VerdictInv, runVars, scanVars
<1> QED
  BY <1>1, <1>2, <1>3, <1>5

LEMMA StartInv == FindingsInv /\ Start => FindingsInv'
<1> SUFFICES ASSUME FindingsInv, Start PROVE FindingsInv'
  OBVIOUS
<1> USE DEF FindingsInv, Start
<1>0. \A m \in [links : SUBSET Link, first : 0..now] : m \in [links : SUBSET Link, first : 0..now']
  BY DEF TypeOK
<1>1. TypeOK'
  BY <1>0 DEF TypeOK, diskVars, runVars, scanVars, ghosts
<1>2. DatedInv'
  BY DEF DatedInv
<1>3. ScanInv' /\ VerdictInv'
  BY ScanStable DEF VerdictInv, diskVars, runVars, scanVars, ghosts
<1> QED
  BY <1>1, <1>2, <1>3

LEMMA DaemonInv == FindingsInv /\ Daemon => FindingsInv'
BY ReportNoneInv, ReportSomeInv, MoveInv, StartInv DEF Daemon, Report

-----------------------------------------------------------------------------
(* Everybody else.                                                         *)

LEMMA StopInv == FindingsInv /\ Stop => FindingsInv'
<1> SUFFICES ASSUME FindingsInv, Stop PROVE FindingsInv'
  OBVIOUS
<1> USE DEF FindingsInv, Stop
<1>1. TypeOK'
  BY BudgetFalls DEF TypeOK, diskVars, reportVars, runVars, scanVars, ghosts
<1>2. DatedInv' /\ ScanInv' /\ VerdictInv'
  BY DatedStable, ScanStable DEF VerdictInv, diskVars, runVars, scanVars, ghosts
<1> QED
  BY <1>1, <1>2

LEMMA LoseNotesInv == ASSUME NEW t \in Torrent, FindingsInv, LoseNotes(t) PROVE FindingsInv'
<1> USE DEF FindingsInv, LoseNotes
<1>1. TypeOK'
  BY BudgetFalls DEF TypeOK, LinksOf, reportVars, runVars, scanVars
<1>2. DatedInv' /\ ScanInv' /\ VerdictInv'
  BY DatedStable, ScanStable DEF VerdictInv, runVars, scanVars
<1> QED
  BY <1>1, <1>2

LEMMA RelinkInv ==
  ASSUME NEW l \in Link, NEW x \in File \cup {NoLink}, FindingsInv, Relink(l, x),
         budget' \in 0..MaxEvents
  PROVE  FindingsInv'
<1> USE DEF FindingsInv, Relink
<1>1. TypeOK'
  BY DEF TypeOK, reportVars, runVars, scanVars
<1>2. DatedInv' /\ ScanInv'
  BY DatedStable, ScanStable
<1>3. VerdictInv'
  BY DEF VerdictInv, TypeOK, runVars, scanVars
<1> QED
  BY <1>1, <1>2, <1>3

LEMMA ReplaceInv ==
  ASSUME NEW f \in File, NEW d \in Data \cup {Gone}, FindingsInv, Replace(f, d)
  PROVE  FindingsInv'
<1> USE DEF FindingsInv, Replace
<1>1. TypeOK'
  BY BudgetFalls DEF TypeOK, reportVars, runVars, scanVars
<1>2. DatedInv' /\ ScanInv'
  BY DatedStable, ScanStable
<1>3. \A l \in Link : status[l] = "verified" => cand # Unnoted
  BY RepairAssumption DEF VerdictInv, Unnoted, TypeOK
<1>4. VerdictInv'
  BY <1>3 DEF VerdictInv, TypeOK, runVars, scanVars
<1> QED
  BY <1>1, <1>2, <1>4

LEMMA EnvironmentInv == FindingsInv /\ Environment => FindingsInv'
<1> SUFFICES ASSUME FindingsInv, Environment PROVE FindingsInv'
  OBVIOUS
<1>2. \A kind : Disturb(kind) => budget' \in 0..MaxEvents
  BY BudgetFalls DEF FindingsInv
<1>3. CASE KillRepair
  BY <1>2, <1>3, EndRunInv DEF KillRepair
<1>4. CASE RetargetFails
  BY <1>2, <1>4, RetargetRaisesInv DEF RetargetFails
<1>5. CASE \E l \in Link : Unlink(l) \/ \E f \in File : Import(l, f)
  BY <1>2, <1>5, RelinkInv DEF Unlink, Import
<1> QED
  BY <1>3, <1>4, <1>5, StopInv, LoseNotesInv, ReplaceInv DEF Environment

-----------------------------------------------------------------------------
(* What a run passes over.                                                 *)

\* A step of another process, in which no link lost its mapping unnoted.
LEMMA MissedByOthers ==
  ASSUME NothingMissed, UNCHANGED runVars, pc # "idle" => Unmapped' \ lost' \subseteq Unmapped \ lost
  PROVE  NothingMissed'
BY DEF NothingMissed, runVars, scanVars, Unread

\* A promotion leads links to the SSD with their notes, and a demotion takes both
\* back: the links without a mapping stay what they were.
LEMMA MovesMapped ==
  ASSUME TypeOK, NEW t \in Torrent, Promote(t) \/ Demote(t)
  PROVE  Unmapped' \subseteq Unmapped
<1> SUFFICES ASSUME NEW l \in Link, target'[l] = Ssd, known'[l] = None
             PROVE  target[l] = Ssd /\ known[l] = None
  BY DEF Unmapped, Known
<1>1. CASE Promote(t)
  BY <1>1, RepairAssumption DEF Promote, TypeOK
<1>2. CASE Demote(t)
  <2>1. CASE l \in LinksOf(t)
    <3>1. target[l] = Ssd => known[l] \in File
      BY <1>2, <2>1 DEF Demote, Quarantined, Unmapped, Known, TypeOK
    <3>2. target'[l] = IF target[l] = Ssd THEN known[l] ELSE target[l]
      BY <1>2, <2>1 DEF Demote
    <3> QED
      BY <3>1, <3>2, RepairAssumption
  <2>2. CASE l \notin LinksOf(t)
    BY <1>2, <2>2 DEF Demote
  <2> QED
    BY <2>1, <2>2
<1> QED
  BY <1>1, <1>2

\* The daemon takes no mapping from a link that it leaves on the SSD.
LEMMA DaemonMissed == FindingsInv /\ NothingMissed /\ Daemon => NothingMissed'
<1> SUFFICES ASSUME FindingsInv, NothingMissed, Daemon PROVE NothingMissed'
  OBVIOUS
<1>1. CASE Report \/ Start
  <2>1. UNCHANGED <<target, known, runVars, lost>>
    BY <1>1 DEF Report, Start, diskVars, ghosts
  <2> QED
    BY <2>1, MissedByOthers DEF Unmapped, Known
<1>2. CASE \E t \in Torrent : Promote(t) \/ Demote(t)
  <2>1. UNCHANGED <<runVars, lost>>
    BY <1>2 DEF Promote, Demote
  <2>2. Unmapped' \subseteq Unmapped
    BY <1>2, MovesMapped DEF FindingsInv
  <2> QED
    BY <2>1, <2>2, MissedByOthers
<1> QED
  BY <1>1, <1>2 DEF Daemon

\* A run that is over remembers nothing.
LEMMA EndRunMissed == EndRun => NothingMissed'
BY DEF EndRun, NothingMissed

\* Notes that are lost in a run are noted; a link that others replace does not
\* lead to the SSD.
LEMMA EnvironmentMissed == FindingsInv /\ NothingMissed /\ Environment => NothingMissed'
<1> SUFFICES ASSUME FindingsInv, NothingMissed, Environment PROVE NothingMissed'
  OBVIOUS
<1>1. CASE Stop \/ \E f \in File, d \in Data \cup {Gone} : Replace(f, d)
  <2>1. UNCHANGED <<target, known, runVars, lost>>
    BY <1>1 DEF Stop, Replace, diskVars, ghosts
  <2> QED
    BY <2>1, MissedByOthers DEF Unmapped, Known
<1>2. CASE KillRepair
  BY <1>2, EndRunMissed DEF KillRepair
<1>3. CASE RetargetFails
  <2>1. /\ UNCHANGED <<target, known, pc, rows, cache, left, lost>> /\ pc = "apply" /\ cur # None
        /\ status' = [status EXCEPT ![cur] = "failed"]
    BY <1>3 DEF RetargetFails, RetargetRaises, diskVars, scanVars, ghosts
  <2>2. Unmapped' = Unmapped /\ Unmapped \subseteq Link
    BY <2>1 DEF Unmapped, Known
  <2> QED
    BY <2>1, <2>2 DEF NothingMissed, FindingsInv, TypeOK
<1>4. ASSUME NEW t \in Torrent, LoseNotes(t) PROVE NothingMissed'
  <2>1. pc # "idle" => lost' = lost \cup LinksOf(t)
    BY <1>4 DEF LoseNotes
  <2>2. UNCHANGED <<target, runVars>>
        /\ known' = [l \in Link |-> IF l \in LinksOf(t) THEN None ELSE known[l]]
    BY <1>4 DEF LoseNotes
  <2>3. Unmapped' \subseteq Unmapped \cup LinksOf(t)
    BY <2>2 DEF Unmapped, Known
  <2> QED
    BY <2>1, <2>2, <2>3, MissedByOthers
<1>5. CASE \E l \in Link : Unlink(l) \/ \E f \in File : Import(l, f)
  <2> PICK l \in Link, x \in File \cup {NoLink} : Relink(l, x)
    BY <1>5 DEF Unlink, Import
  <2>1. UNCHANGED <<known, runVars, lost>> /\ target' = [target EXCEPT ![l] = x] /\ x # Ssd
    BY RepairAssumption DEF Relink
  <2>2. Unmapped' \subseteq Unmapped
    BY <2>1 DEF Unmapped, Known, FindingsInv, TypeOK
  <2> QED
    BY <2>1, <2>2, MissedByOthers
<1> QED
  BY <1>1, <1>2, <1>3, <1>4, <1>5 DEF Environment

\* The command reads notes that do not know the links without a mapping, so it
\* finds those when it looks at them, and leads them away where it repairs them.
LEMMA CommandMissed == FindingsInv /\ NothingMissed /\ Command => NothingMissed'
<1> SUFFICES ASSUME FindingsInv, NothingMissed, Command PROVE NothingMissed'
  OBVIOUS
<1>0. Unmapped \subseteq Link /\ status \in [Link -> Statuses] /\ cache \in [Torrent -> {None} \cup SUBSET Link]
      /\ TorrentOf \in [Link -> Torrent]
  BY RepairAssumption DEF Unmapped, FindingsInv, TypeOK
<1>1. CASE StartScan
  <2>1. UNCHANGED <<target, known, cache, lost, status>> /\ rows' = Known /\ left' = Link
        /\ cache = Unread /\ \A l \in Link : status[l] = "none"
    BY <1>1 DEF StartScan, diskVars, ghosts, NothingMissed, FindingsInv, ScanInv
  <2>2. Unmapped' = Unmapped /\ Unmapped \cap Known = {}
    BY <2>1 DEF Unmapped, Known
  <2> QED
    BY <1>0, <1>1, <2>1, <2>2 DEF StartScan, NothingMissed, Unread
<1>2. ASSUME NEW l \in Link, ScanLink(l) PROVE NothingMissed'
  <2>1. /\ pc = "scan" /\ UNCHANGED <<target, known, pc, rows, lost>> /\ left' = left \ {l}
        /\ Unmapped' = Unmapped
    BY <1>2 DEF ScanLink, diskVars, ghosts, Unmapped, Known
  <2>2. CASE target[l] = Ssd
    <3>1. /\ cache' = [cache EXCEPT ![TorrentOf[l]] = KnownLinks(TorrentOf[l])]
          /\ status' = [status EXCEPT ![l] = IF l \in KnownLinks(TorrentOf[l]) THEN "none" ELSE "hit"]
      BY <1>2, <2>2 DEF ScanLink
    <3>2. \A m \in Unmapped \ lost : m \notin KnownLinks(TorrentOf[l])
      BY <1>0, <2>1 DEF KnownLinks, NothingMissed, Unmapped
    <3>3. \A m \in Unmapped \ lost :
            /\ m \notin rows' /\ \A t \in Torrent : cache'[t] # None => m \notin cache'[t]
            /\ status'[m] # "repaired" /\ (m \notin left' => status'[m] # "none")
      <4> TAKE m \in Unmapped \ lost
      <4>1. \A t \in Torrent : cache'[t] # None => m \notin cache'[t]
        BY <1>0, <2>1, <3>1, <3>2 DEF NothingMissed
      <4>2. status'[m] # "repaired" /\ (m \notin left' => status'[m] # "none")
        BY <1>0, <2>1, <3>1, <3>2 DEF NothingMissed
      <4> QED
        BY <2>1, <4>1, <4>2 DEF NothingMissed
    <3> QED
      BY <2>1, <3>3 DEF NothingMissed
  <2>3. CASE target[l] # Ssd
    <3>1. UNCHANGED <<cache, status>> /\ l \notin Unmapped
      BY <1>2, <2>3 DEF ScanLink, Unmapped
    <3> QED
      BY <2>1, <3>1 DEF NothingMissed
  <2> QED
    BY <2>2, <2>3
<1>3. ASSUME NEW l \in Link, NoteTarget(l) \/ Check(l) PROVE NothingMissed'
  <2>1. /\ pc # "idle" /\ UNCHANGED <<target, known, pc, rows, cache, left, lost>>
        /\ status' = status \/ \E s \in {"noted", "changed"} : status' = [status EXCEPT ![l] = s]
    BY <1>3 DEF NoteTarget, Check, diskVars, ghosts, scanVars
  <2>2. Unmapped' = Unmapped
    BY <2>1 DEF Unmapped, Known
  <2> QED
    BY <1>0, <2>1, <2>2 DEF NothingMissed
<1>4. CASE (\E l \in Link : NoteRaises(l)) \/ Done
  BY <1>4, EndRunMissed DEF NoteRaises, Done
<1>5. CASE Index
  <2>1. /\ pc = "scan" /\ pc' = "verify" /\ UNCHANGED <<target, known, status, left, lost>>
        /\ rows' = {} /\ cache' = Unread
    BY <1>5 DEF Index, diskVars, ghosts
  <2>2. Unmapped' = Unmapped
    BY <2>1 DEF Unmapped, Known
  <2> QED
    BY <2>1, <2>2 DEF NothingMissed, Unread
<1>6. CASE Verify
  <2>1. /\ pc = "verify" /\ pc' = "apply" /\ UNCHANGED <<target, known, rows, cache, left, lost>>
        /\ status' = [l \in Link |-> IF status[l] = "noted" THEN Verdict(l) ELSE status[l]]
    BY <1>6 DEF Verify, diskVars
  <2>2. Unmapped' = Unmapped
    BY <2>1 DEF Unmapped, Known
  <2>3. \A l \in Link : Verdict(l) \notin {"none", "repaired"}
    BY DEF Verdict
  <2>4. \A l \in Link : /\ status[l] # "none" => status'[l] # "none"
                        /\ status[l] # "repaired" => status'[l] # "repaired"
    BY <2>1, <2>3
  <2> QED
    BY <1>0, <2>1, <2>2, <2>4 DEF NothingMissed
<1>7. CASE Retarget
  <2>1. /\ pc # "idle" /\ UNCHANGED <<known, pc, rows, cache, left, lost>> /\ cur # None
        /\ status' = [status EXCEPT ![cur] = "repaired"] /\ target' = [target EXCEPT ![cur] = cand[cur]]
    BY <1>7 DEF Retarget, ghosts, scanVars
  <2>2. cur \in Link /\ cand[cur] # Ssd
    BY <2>1, RepairAssumption DEF FindingsInv, TypeOK, VerdictInv
  <2>3. Unmapped' = Unmapped \ {cur}
    BY <2>1, <2>2 DEF Unmapped, Known, FindingsInv, TypeOK
  <2> QED
    BY <1>0, <2>1, <2>3 DEF NothingMissed
<1>8. CASE RetargetRefused
  <2>1. /\ UNCHANGED <<target, known, pc, rows, cache, left, lost>> /\ pc = "apply" /\ cur # None
        /\ status' = [status EXCEPT ![cur] = "failed"]
    BY <1>8 DEF RetargetRefused, RetargetRaises, diskVars, scanVars, ghosts
  <2>2. Unmapped' = Unmapped
    BY <2>1 DEF Unmapped, Known
  <2> QED
    BY <1>0, <2>1, <2>2 DEF NothingMissed
<1>9. CASE EndApply \/ \E e \in Instance \X Torrent : Recheck(e)
  <2>1. /\ pc # "idle" /\ pc' # "idle" /\ UNCHANGED <<target, known, rows, cache, left, status, lost>>
    BY <1>9 DEF EndApply, Recheck, diskVars, scanVars, ghosts
  <2>2. Unmapped' = Unmapped
    BY <2>1 DEF Unmapped, Known
  <2> QED
    BY <2>1, <2>2 DEF NothingMissed
<1> QED
  BY <1>1, <1>2, <1>3, <1>4, <1>5, <1>6, <1>7, <1>8, <1>9 DEF Command

-----------------------------------------------------------------------------
(* The theorems.                                                           *)

\* The command's findings are in the order of its passes, a link it is about to
\* retarget is the one it found, and its file has the torrent's content unless
\* it was edited after its verification (repair.py:160-401).
THEOREM RepairInvariant == Spec => []IndInv
<1>1. FindingsInv /\ [Next]_vars => FindingsInv'
  <2> SUFFICES ASSUME FindingsInv, [Next]_vars PROVE FindingsInv'
    OBVIOUS
  <2>1. CASE UNCHANGED vars
    <3>1. UNCHANGED <<diskVars, up, reportVars, runVars, ghosts, budget>>
      BY <2>1 DEF vars
    <3>2. TypeOK'
      BY <3>1 DEF FindingsInv, TypeOK, diskVars, reportVars, runVars, scanVars, ghosts
    <3>3. DatedInv' /\ ScanInv' /\ VerdictInv'
      BY <3>1, DatedStable, ScanStable
      DEF FindingsInv, VerdictInv, diskVars, runVars, scanVars, ghosts
    <3> QED
      BY <3>2, <3>3 DEF FindingsInv
  <2> QED
    BY <2>1, CommandInv, DaemonInv, EnvironmentInv DEF Next
<1>2. IndInv /\ [Next]_vars => IndInv'
  <2> SUFFICES ASSUME FindingsInv, NothingMissed, [Next]_vars PROVE NothingMissed'
    BY <1>1 DEF IndInv
  <2>1. CASE UNCHANGED vars
    <3>1. UNCHANGED <<target, known, runVars, lost>>
      BY <2>1 DEF vars, diskVars, ghosts
    <3> QED
      BY <3>1, MissedByOthers DEF Unmapped, Known
  <2> QED
    BY <2>1, CommandMissed, DaemonMissed, EnvironmentMissed DEF Next
<1>3. Init => IndInv
  BY InitInv DEF Init, IndInv, NothingMissed
<1> QED
  BY <1>2, <1>3, PTL DEF Spec

\* Where no write of the marker fails, it dates the trouble from its first
\* report, over every restart of the daemon (anomaly.py:154-156).
THEOREM MarkerDated ==
  ASSUME "marker" \notin Faults
  PROVE  Spec => []FirstSeenKept
<1>1. IndInv => FirstSeenKept
  BY DEF IndInv, FindingsInv, DatedInv, FirstSeenKept
<1> QED
  BY <1>1, RepairInvariant, PTL

\* Nothing but Retarget repairs, and the file it writes is the one of its check.
LEMMA OnlyRetargetRepairs ==
  ASSUME TypeOK, ScanInv, [Next]_vars, NEW l \in Link,
         status[l] = "verified", status'[l] = "repaired"
  PROVE  Retarget /\ cur = l
<1>1. CASE UNCHANGED vars
  BY <1>1 DEF vars, runVars
<1>2. CASE Daemon
  BY <1>2 DEF Daemon, Report, Promote, Demote, Start, runVars
<1>3. CASE Environment
  BY <1>3 DEF Environment, Stop, KillRepair, EndRun, RetargetFails, RetargetRaises, LoseNotes,
              Unlink, Import, Relink, Replace, runVars, TypeOK
<1>4. CASE Command
  <2>1. CASE Verify
    BY <2>1 DEF Verify, ScanInv
  <2>2. CASE Retarget
    BY <2>2 DEF Retarget, TypeOK
  <2> QED
    BY <1>4, <2>1, <2>2
    DEF Command, StartScan, ScanLink, NoteTarget, NoteRaises, EndRun, Index, Check,
        RetargetRefused, RetargetRaises, EndApply, Recheck, Done, TypeOK
<1> QED
  BY <1>1, <1>2, <1>3, <1>4 DEF Next

\* Whatever others do to the library and the links meanwhile, a repaired link
\* leads to a file of its torrent's content, unless that file was edited after
\* its own verification (repair.py:340-392).
THEOREM RepairsAreRight == Spec => RepairIsRight
<1>1. IndInv /\ [Next]_vars
      => [\A l \in Link : status[l] = "verified" /\ status'[l] = "repaired" /\ target'[l] \notin replaced
            => holds[target'[l]] = Wants[l]]_vars
  <2> SUFFICES ASSUME IndInv, [Next]_vars, NEW l \in Link,
                      status[l] = "verified", status'[l] = "repaired",
                      target'[l] \notin replaced
               PROVE  holds[target'[l]] = Wants[l]
    OBVIOUS
  <2>1. Retarget /\ cur = l
    BY OnlyRetargetRepairs DEF IndInv, FindingsInv
  <2>2. target'[l] = cand[l]
    BY <2>1 DEF Retarget, IndInv, FindingsInv, TypeOK
  <2> QED
    BY <2>2 DEF IndInv, FindingsInv, VerdictInv
<1> QED
  BY <1>1, RepairInvariant, PTL DEF Spec, RepairIsRight

\* A link that another program replaced between the note of its target and its
\* check is not retargeted (repair.py:389).
THEOREM OthersLeftAlone == Spec => LeftAlone
<1>1. IndInv /\ [Next]_vars
      => [\A l \in Link : status[l] = "verified" /\ status'[l] = "repaired" => l \notin touched]_vars
  <2> SUFFICES ASSUME IndInv, [Next]_vars, NEW l \in Link,
                      status[l] = "verified", status'[l] = "repaired"
               PROVE  l \notin touched
    OBVIOUS
  <2>1. cur = l
    BY OnlyRetargetRepairs DEF IndInv, FindingsInv
  <2>2. cur # None
    BY <2>1, RepairAssumption
  <2> QED
    BY <2>1, <2>2 DEF IndInv, FindingsInv, VerdictInv
<1> QED
  BY <1>1, RepairInvariant, PTL DEF Spec, LeftAlone

\* qBittorrent is asked to recheck an entry only when none of its links is left
\* without a mapping, but for those that lost it during the run: whatever the
\* daemon moves, restores or forgets while the command scans, hashes and writes
\* (repair.py:404-430).
THEOREM RechecksWhole == Spec => RecheckComplete
<1>1. ASSUME IndInv, [Next]_vars, NEW e \in asked' \ asked
      PROVE  {l \in Unmapped : Entry(l) = e} \subseteq lost
  <2>1. Recheck(e)
    BY <1>1 DEF Next, Command, Daemon, Environment, StartScan, ScanLink, NoteTarget, NoteRaises, EndRun,
         Index, Verify, Check, Retarget, RetargetRefused, RetargetRaises, RetargetFails, EndApply,
         Recheck, Done, KillRepair, Report, Start, Promote, Demote, Stop, LoseNotes, Unlink, Import,
         Relink, Replace, runVars, vars
  <2>2. pc = "recheck" /\ left = {} /\ \A l \in FoundIn(e) : status[l] = "repaired"
    BY <1>1, <2>1 DEF Recheck, Complete, IndInv, FindingsInv, ScanInv
  <2> SUFFICES ASSUME NEW l \in Unmapped, Entry(l) = e, l \notin lost PROVE FALSE
    OBVIOUS
  <2>3. l \in Link /\ status[l] # "none" /\ status[l] # "repaired"
    BY <1>1, <2>2 DEF IndInv, NothingMissed, Unmapped
  <2> QED
    BY <2>2, <2>3 DEF FoundIn
<1>2. IndInv /\ [Next]_vars
      => [\A e \in asked' \ asked : {l \in Unmapped : Entry(l) = e} \subseteq lost]_vars
  BY <1>1
<1> QED
  BY <1>2, RepairInvariant, PTL DEF Spec, RecheckComplete
=============================================================================
