-------------------------------- MODULE Repair --------------------------------
(***************************************************************************)
(* Links into the SSD whose bulk file nobody remembers: the operator's     *)
(* `repair-dangling --apply --recheck` (repair.py), which finds that file  *)
(* again by its content, and the marker by which the daemon reports such   *)
(* links (anomaly.py).  The command is a process of its own: it shares     *)
(* only the disk with the daemon, which promotes and demotes meanwhile,    *)
(* with the import hook and with whoever edits the library.                *)
(*                                                                         *)
(* The daemon's own work is modelled in SeedCache; here a promotion or a   *)
(* demotion of a torrent is one step, and its two notes are one, `known`.  *)
(* A file's content is a member of Data; hashing sampled pieces tells      *)
(* contents apart.  A dry run is a run that ends before its first Check.   *)
(***************************************************************************)
EXTENDS Naturals, FiniteSets

CONSTANTS
  Torrent, Instance, Link, File,
  TorrentOf,           \* [Link -> Torrent]
  InstanceOf,          \* [Link -> Instance]
  Data,                \* contents of files, all of one size
  Wants,               \* [Link -> Data]: what the torrent's hashes describe
  Hashed,              \* links with a whole SHA-1 piece inside their file
  Library,             \* files outside every save directory of qBittorrent
  Managed,             \* files under managed_paths; the search covers File
  MaxCandidates,
  Home,                \* [Link -> File] and
  Contents,            \* [File -> Data]: the library at the start
  Ssd, NoLink, Gone, None, NoMarker, Blank,
  Faults,              \* the disturbances this instance of the model allows
  MaxEvents            \* how many of them a behaviour contains at most

ASSUME RepairAssumption ==
  /\ TorrentOf \in [Link -> Torrent] /\ InstanceOf \in [Link -> Instance]
  /\ Wants \in [Link -> Data] /\ Hashed \subseteq Link
  /\ Library \subseteq File /\ Managed \subseteq File
  /\ Home \in [Link -> File] /\ Contents \in [File -> Data]
  /\ {MaxCandidates, MaxEvents} \subseteq Nat
  /\ Faults \subseteq {"stop", "lose", "import", "unlink", "replace", "kill",
                       "rename", "marker", "clear"}
  /\ None \notin Nat \cup File \cup Link /\ Ssd \notin File \cup {NoLink}
  /\ {NoMarker, Blank} \cap [links : SUBSET Link, first : Nat] = {} /\ NoMarker # Blank

VARIABLES
  \* on the disks
  target,              \* [Link -> File \cup {Ssd, NoLink}]
  holds,               \* [File -> Data \cup {Gone}]
  known,               \* [Link -> File \cup {None}]: tier row and sidecar
  marker,              \* .qbsc-anomaly: NoMarker, Blank or [links, first]
  \* in the daemon
  up,
  lastKey,             \* the links of the last report, None = no report yet
  firstSeen,           \* its first_seen, None = to be read from the marker
  now,                 \* a clock that ticks when the daemon starts and when a
                       \* report is the first to find something
  \* in the command
  pc,                  \* "idle", "scan", "verify", "apply", "recheck"
  rows,                \* links of the hot rows, read at the start
  cache,               \* [Torrent -> SUBSET Link \cup {None}]: known_cache
  left,                \* links not looked at yet
  status,              \* [Link -> Statuses]
  seen,                \* [Link -> the target noted with the finding]
  sized,               \* candidates of the index
  cand,                \* [Link -> File \cup {None}]
  cur,                 \* the link that passed the check of --apply
  asked,               \* entries rechecked
  \* history
  since,               \* when the present trouble was first reported
  touched,             \* links replaced between the finding and its check
  replaced,            \* files replaced since their verification
  lost,                \* links whose notes were lost since the scan began
  budget

diskVars == <<target, holds, known>>
reportVars == <<marker, lastKey, firstSeen, now, since>>
scanVars == <<rows, cache, left, seen, sized>>
runVars == <<pc, scanVars, status, cand, cur, asked>>
ghosts == <<touched, replaced, lost>>
vars == <<diskVars, up, reportVars, runVars, ghosts, budget>>

Statuses == {"none", "hit", "noted", "no_candidate", "too_many_candidates", "unverifiable",
             "mismatch", "ambiguous", "unmanaged", "verified", "changed", "failed", "repaired"}
Entry(l) == <<InstanceOf[l], TorrentOf[l]>>
Known == {l \in Link : known[l] # None}
Unmapped == {l \in Link : target[l] = Ssd /\ l \notin Known}
FoundIn(e) == {l \in Link : Entry(l) = e /\ status[l] # "none"}

TypeOK ==
  /\ target \in [Link -> File \cup {Ssd, NoLink}]
  /\ holds \in [File -> Data \cup {Gone}]
  /\ known \in [Link -> File \cup {None}]
  /\ now \in Nat
  /\ marker \in {NoMarker, Blank} \cup [links : SUBSET Link, first : 0..now]
  /\ up \in BOOLEAN
  /\ lastKey \in {None} \cup SUBSET Link
  /\ firstSeen \in {None} \cup 0..now
  /\ since \in {None} \cup 0..now
  /\ pc \in {"idle", "scan", "verify", "apply", "recheck"}
  /\ rows \subseteq Link /\ left \subseteq Link /\ sized \subseteq File
  /\ cache \in [Torrent -> {None} \cup SUBSET Link]
  /\ status \in [Link -> Statuses]
  /\ seen \in [Link -> File \cup {Ssd, None}]
  /\ cand \in [Link -> File \cup {None}]
  /\ cur \in Link \cup {None} /\ asked \subseteq Instance \X Torrent
  /\ touched \subseteq Link /\ replaced \subseteq File /\ lost \subseteq Link
  /\ budget \in 0..MaxEvents

Unread == [t \in Torrent |-> None]
Unnoted == [l \in Link |-> None]

Init ==
  /\ target = Home /\ holds = Contents
  /\ known = [l \in Link |-> None]
  /\ marker = NoMarker /\ up = TRUE /\ lastKey = None /\ firstSeen = None
  /\ now = 0 /\ since = None
  /\ pc = "idle" /\ rows = {} /\ cache = Unread /\ left = {}
  /\ status = [l \in Link |-> "none"] /\ seen = Unnoted /\ cand = Unnoted
  /\ sized = {} /\ cur = None /\ asked = {}
  /\ touched = {} /\ replaced = {} /\ lost = {}
  /\ budget = MaxEvents

Disturb(kind) == kind \in Faults /\ budget > 0 /\ budget' = budget - 1

-----------------------------------------------------------------------------
(* scan(): one link at a time, the links of a torrent in an instance in    *)
(* turn; only then, two requests later, are the targets of its hits noted. *)

Settled == \A l \in Link : status[l] # "hit"
Begun(l) == {m \in Link \ left : Entry(m) = Entry(l)} # {}
NextEntry(l) == Begun(l) \/ (Settled /\ \A m \in left : ~Begun(m))

StartScan ==
  /\ pc = "idle"
  /\ pc' = "scan"
  /\ rows' = Known /\ left' = Link
  /\ UNCHANGED <<diskVars, up, reportVars, cache, status, seen, sized, cand, cur, asked, ghosts, budget>>

\* _known_links(): read once per torrent, for all instances.
KnownLinks(t) == IF cache[t] = None THEN {l \in rows \cup Known : TorrentOf[l] = t} ELSE cache[t]

ScanLink(l) ==
  /\ pc = "scan"
  /\ l \in left
  /\ NextEntry(l)
  /\ left' = left \ {l}
  /\ IF target[l] = Ssd
     THEN /\ cache' = [cache EXCEPT ![TorrentOf[l]] = KnownLinks(TorrentOf[l])]
          /\ status' = [status EXCEPT ![l] = IF l \in KnownLinks(TorrentOf[l]) THEN "none" ELSE "hit"]
     ELSE UNCHANGED <<cache, status>>
  /\ UNCHANGED <<diskVars, up, reportVars, pc, rows, seen, sized, cand, cur, asked, ghosts, budget>>

NoteTarget(l) ==
  /\ pc = "scan"
  /\ status[l] = "hit"
  /\ \A m \in left : Entry(m) # Entry(l)
  /\ target[l] # NoLink
  /\ status' = [status EXCEPT ![l] = "noted"]
  /\ seen' = [seen EXCEPT ![l] = target[l]]
  /\ UNCHANGED <<diskVars, up, reportVars, pc, rows, cache, left, sized, cand, cur, asked, ghosts, budget>>

EndRun ==
  /\ pc' = "idle" /\ rows' = {} /\ cache' = Unread /\ left' = {}
  /\ status' = [l \in Link |-> "none"] /\ seen' = Unnoted /\ cand' = Unnoted
  /\ sized' = {} /\ cur' = None /\ asked' = {}
  /\ touched' = {} /\ replaced' = {} /\ lost' = {}
  /\ UNCHANGED <<diskVars, up, reportVars>>

\* readlink() of a link that is gone by now raises, and nothing catches it.
NoteRaises(l) ==
  /\ pc = "scan"
  /\ status[l] = "hit" /\ target[l] = NoLink
  /\ \A m \in left : Entry(m) # Entry(l)
  /\ EndRun /\ UNCHANGED budget

-----------------------------------------------------------------------------
(* classify(): an index of the files by size, then the hashes.             *)

Index ==
  /\ pc = "scan"
  /\ left = {} /\ Settled
  /\ pc' = "verify"
  /\ sized' = IF seen = Unnoted THEN {} ELSE {f \in File : holds[f] # Gone}
  /\ rows' = {} /\ cache' = Unread
  /\ UNCHANGED <<diskVars, up, reportVars, left, seen, status, cand, cur, asked, ghosts, budget>>

\* Files of the index whose sampled pieces have the torrent's hashes now.
Matching(l) == {f \in sized : holds[f] = Wants[l]}

\* Mutant: a lone candidate in the library is not hashed.
AnswersUnhashed(l) ==
  IF Cardinality(sized \cap Library) = 1 THEN sized \cap Library ELSE Matching(l)

\* Mutant: identical copies are all the same to it.
AnswersAll(l) == Matching(l)

\* Identical copies: the one in the media library wins.
Answers(l) ==
  IF Cardinality(Matching(l)) > 1 /\ Cardinality(Matching(l) \cap Library) = 1
  THEN Matching(l) \cap Library ELSE Matching(l)

Verdict(l) ==
  IF sized = {} THEN "no_candidate"
  ELSE IF Cardinality(sized) > MaxCandidates THEN "too_many_candidates"
  ELSE IF l \notin Hashed THEN "unverifiable"
  ELSE IF Answers(l) = {} THEN "mismatch"
  ELSE IF Cardinality(Answers(l)) > 1 THEN "ambiguous"
  ELSE IF Answers(l) \subseteq Managed THEN "verified" ELSE "unmanaged"

Verify ==
  /\ pc = "verify"
  /\ pc' = "apply"
  /\ status' = [l \in Link |-> IF status[l] = "noted" THEN Verdict(l) ELSE status[l]]
  /\ cand' = [l \in Link |-> IF status'[l] \in {"verified", "unmanaged"}
                             THEN CHOOSE f \in Answers(l) : TRUE ELSE None]
  /\ seen' = [l \in Link |-> IF status'[l] = "verified" THEN seen[l] ELSE None]
  /\ sized' = {} /\ replaced' = {}
  /\ touched' = {l \in touched : status'[l] = "verified"}
  /\ UNCHANGED <<diskVars, up, reportVars, rows, cache, left, cur, asked, lost, budget>>

-----------------------------------------------------------------------------
(* apply_repairs(): look at the link, then replace it.                     *)

\* Mutant: it is enough that the link is still a symlink.
UnchangedIsLink(l) == target[l] # NoLink

UnchangedSince(l) == target[l] = seen[l]

Check(l) ==
  /\ pc = "apply"
  /\ cur = None
  /\ status[l] = "verified"
  /\ IF UnchangedSince(l) THEN cur' = l /\ UNCHANGED status
                          ELSE status' = [status EXCEPT ![l] = "changed"] /\ UNCHANGED cur
  /\ UNCHANGED <<diskVars, up, reportVars, pc, scanVars, cand, asked, ghosts, budget>>

Retarget ==
  /\ pc = "apply"
  /\ cur # None /\ target[cur] # NoLink
  /\ target' = [target EXCEPT ![cur] = cand[cur]]
  /\ status' = [status EXCEPT ![cur] = "repaired"]
  /\ cur' = None
  /\ UNCHANGED <<holds, known, up, reportVars, pc, scanVars, cand, asked, ghosts, budget>>

RetargetRaises ==
  /\ pc = "apply"
  /\ cur # None
  /\ status' = [status EXCEPT ![cur] = "failed"]
  /\ cur' = None
  /\ UNCHANGED <<diskVars, up, reportVars, pc, scanVars, cand, asked, ghosts>>

\* What is no symlink any more is not replaced; or the rename fails.
RetargetRefused == RetargetRaises /\ target[cur] = NoLink /\ UNCHANGED budget
RetargetFails == RetargetRaises /\ Disturb("rename")

EndApply ==
  /\ pc = "apply"
  /\ cur = None /\ \A l \in Link : status[l] # "verified"
  /\ pc' = "recheck"
  /\ seen' = Unnoted /\ cand' = Unnoted /\ touched' = {} /\ replaced' = {}
  /\ UNCHANGED <<diskVars, up, reportVars, rows, cache, left, sized, status, cur, asked, lost, budget>>

-----------------------------------------------------------------------------
(* recheck_repaired(): the entries whose findings were all repaired.       *)

\* Mutant: one repaired link is enough.
CompleteIfAny(e) == \E l \in FoundIn(e) : status[l] = "repaired"

Complete(e) == FoundIn(e) # {} /\ \A l \in FoundIn(e) : status[l] = "repaired"

Recheck(e) ==
  /\ pc = "recheck"
  /\ e \notin asked /\ Complete(e)
  /\ asked' = asked \cup {e}
  /\ UNCHANGED <<diskVars, up, reportVars, pc, scanVars, status, cand, cur, ghosts, budget>>

\* Without --recheck, or when qBittorrent does not answer, some are not asked.
Done == pc = "recheck" /\ EndRun /\ UNCHANGED budget

\* The command is killed, or qBittorrent fails to answer its scan.
KillRepair == pc # "idle" /\ Disturb("kill") /\ EndRun

Command ==
  \/ StartScan
  \/ \E l \in Link : ScanLink(l) \/ NoteTarget(l) \/ NoteRaises(l) \/ Check(l)
  \/ Index \/ Verify \/ Retarget \/ RetargetRefused \/ EndApply \/ Done
  \/ \E e \in Instance \X Torrent : Recheck(e)

-----------------------------------------------------------------------------
(* The daemon: the marker, and what it does to the torrents that have no   *)
(* such link (the others are quarantined).                                 *)

MarkerFirst == IF marker \in {NoMarker, Blank} THEN None ELSE marker.first

\* set_anomaly(): a failure is logged, and may have emptied the file.
WriteMarker(first) ==
  \/ marker' = [links |-> Unmapped, first |-> first] /\ UNCHANGED budget
  \/ marker' \in {marker, Blank} /\ Disturb("marker")

\* clear_anomaly(): a failure is logged.
ClearMarker ==
  \/ marker' = NoMarker /\ since' = None /\ UNCHANGED budget
  \/ marker # NoMarker /\ Disturb("clear") /\ UNCHANGED <<marker, since>>

ReportNone ==
  /\ Unmapped = {}
  /\ lastKey' = {} /\ firstSeen' = None
  /\ ClearMarker
  /\ UNCHANGED now

\* Mutant: a restarted daemon dates the trouble anew.
FirstAnew(tick) == IF firstSeen # None THEN firstSeen ELSE tick

\* _read_first_seen() of the marker, else the present.
First(tick) ==
  IF firstSeen # None THEN firstSeen
  ELSE IF MarkerFirst # None THEN MarkerFirst ELSE tick

\* Mutant: the marker is written when there is none.
OutdatedIfMissing == marker = NoMarker

Outdated == Unmapped # lastKey \/ marker = NoMarker

ReportSome ==
  /\ Unmapped # {}
  /\ now' = IF since = None THEN now + 1 ELSE now
  /\ since' = IF since = None THEN now' ELSE since
  /\ firstSeen' = First(now')
  /\ lastKey' = Unmapped
  /\ IF Outdated THEN WriteMarker(firstSeen') ELSE UNCHANGED <<marker, budget>>

\* AnomalyReporter.report(), at ticks whose poll is complete.
Report ==
  /\ up
  /\ ReportNone \/ ReportSome
  /\ UNCHANGED <<diskVars, up, runVars, ghosts>>

LinksOf(t) == {l \in Link : TorrentOf[l] = t}
\* Mutant: the daemon moves torrents with an unmapped link, too.
QuarantinedNever(t) == t \notin Torrent

Quarantined(t) == LinksOf(t) \cap Unmapped # {}

Promote(t) ==
  LET ls == {l \in LinksOf(t) : target[l] \in File}
  IN /\ up /\ ~Quarantined(t) /\ LinksOf(t) \cap Known = {}
     /\ ls # {} /\ \A l \in ls : holds[target[l]] # Gone
     /\ known' = [l \in Link |-> IF l \in ls THEN target[l] ELSE known[l]]
     /\ target' = [l \in Link |-> IF l \in ls THEN Ssd ELSE target[l]]
     /\ touched' = {l \in touched : target'[l] # seen[l]}
     /\ UNCHANGED <<holds, up, reportVars, runVars, replaced, lost, budget>>

Demote(t) ==
  /\ up /\ ~Quarantined(t) /\ LinksOf(t) \cap Known # {}
  /\ target' = [l \in Link |-> IF l \in LinksOf(t) /\ target[l] = Ssd THEN known[l] ELSE target[l]]
  /\ known' = [l \in Link |-> IF l \in LinksOf(t) THEN None ELSE known[l]]
  /\ touched' = {l \in touched : target'[l] # seen[l]}
  /\ UNCHANGED <<holds, up, reportVars, runVars, replaced, lost, budget>>

Start ==
  /\ ~up
  /\ up' = TRUE
  /\ lastKey' = None /\ firstSeen' = None
  /\ now' = now + 1
  /\ UNCHANGED <<diskVars, marker, since, runVars, ghosts, budget>>

-----------------------------------------------------------------------------
(* Everybody else.                                                         *)

Stop ==
  /\ up
  /\ Disturb("stop")
  /\ up' = FALSE
  /\ UNCHANGED <<diskVars, reportVars, runVars, ghosts>>

\* Both notes of a torrent are lost: a fresh database, a deleted directory.
LoseNotes(t) ==
  /\ ~up
  /\ LinksOf(t) \cap Known # {}
  /\ Disturb("lose")
  /\ known' = [l \in Link |-> IF l \in LinksOf(t) THEN None ELSE known[l]]
  /\ lost' = IF pc = "idle" THEN {} ELSE lost \cup LinksOf(t)
  /\ UNCHANGED <<target, holds, up, reportVars, runVars, touched, replaced>>

\* The link becomes x; of interest if --apply still has to check it.
Relink(l, x) ==
  /\ target' = [target EXCEPT ![l] = x]
  /\ touched' = IF seen[l] \in {None, x} \/ cur = l THEN touched \ {l} ELSE touched \cup {l}
  /\ UNCHANGED <<holds, known, up, reportVars, runVars, replaced, lost>>

Import(l, f) == f \in Library /\ holds[f] # Gone /\ target[l] # f /\ Disturb("import") /\ Relink(l, f)

Unlink(l) == target[l] # NoLink /\ Disturb("unlink") /\ Relink(l, NoLink)

Replace(f, d) ==
  /\ d # holds[f]
  /\ Disturb("replace")
  /\ holds' = [holds EXCEPT ![f] = d]
  /\ replaced' = IF cand = Unnoted THEN {} ELSE replaced \cup {f}
  /\ UNCHANGED <<target, known, up, reportVars, runVars, touched, lost>>

-----------------------------------------------------------------------------
Daemon == Report \/ Start \/ \E t \in Torrent : Promote(t) \/ Demote(t)

Environment ==
  \/ Stop \/ KillRepair \/ RetargetFails
  \/ \E t \in Torrent : LoseNotes(t)
  \/ \E l \in Link : Unlink(l) \/ \E f \in File : Import(l, f)
  \/ \E f \in File, d \in Data \cup {Gone} : Replace(f, d)

Next == Command \/ Daemon \/ Environment

Spec == Init /\ [][Next]_vars

\* The daemon comes back and goes on ticking; the operator runs the command
\* again and again.
FairSpec == Spec /\ WF_vars(Start) /\ WF_vars(Report) /\ WF_vars(Command)

-----------------------------------------------------------------------------
(* Properties.                                                             *)

\* However often the daemon was restarted and the set of links changed, the
\* marker dates the trouble from the first report of it (anomaly.py:154-156).
FirstSeenKept == marker \notin {NoMarker, Blank} => marker.first = since

\* As long as marker writes succeed, what dates the present trouble is on disk.
DatedInv ==
  "marker" \notin Faults =>
    /\ marker # Blank
    /\ since # None => marker # NoMarker
    /\ marker # NoMarker => marker.first = since
    /\ firstSeen # None => firstSeen = since

\* The findings of a run grow in the order of its passes.
ScanInv ==
  /\ pc = "idle" => \A l \in Link : status[l] = "none"
  /\ pc \in {"scan", "verify"} => \A l \in Link : status[l] \in {"none", "hit", "noted"}
  /\ \A l \in left : pc = "scan" /\ status[l] = "none"
  /\ \A l \in Link : status[l] \in {"none", "hit"} => seen[l] = None

\* What the command is about to write is right, and what it checked unchanged.
VerdictInv ==
  /\ \A l \in Link : status[l] = "verified" =>
       cand[l] \in File /\ (cand[l] \notin replaced => holds[cand[l]] = Wants[l])
  /\ cur # None => status[cur] = "verified" /\ cur \notin touched
  /\ \A l \in touched : seen[l] # None /\ target[l] # seen[l]

FindingsInv == TypeOK /\ DatedInv /\ ScanInv /\ VerdictInv

\* A run passes over no link that was without a mapping when it began and still
\* is: whatever it has read of the daemon's notes, at whatever time, it is not
\* among the links they know.
NothingMissed ==
  /\ pc = "idle" => cache = Unread
  /\ pc # "idle" => \A l \in Unmapped \ lost :
       /\ l \notin rows /\ \A t \in Torrent : cache[t] # None => l \notin cache[t]
       /\ status[l] # "repaired" /\ (l \notin left => status[l] # "none")

\* The inductive invariant.
IndInv == FindingsInv /\ NothingMissed

\* A repaired link leads to the file of its torrent, whoever edited the library
\* during the scan, the index and the other repairs; only a file edited after
\* its own verification is taken unseen (repair.py:340-375, 392).
RepairIsRight ==
  [][\A l \in Link : status[l] = "verified" /\ status'[l] = "repaired" /\ target'[l] \notin replaced
       => holds[target'[l]] = Wants[l]]_vars

\* A link that another program replaced after the command had noted its target
\* and before it was its turn is not retargeted (repair.py:389).
LeftAlone ==
  [][\A l \in Link : status[l] = "verified" /\ status'[l] = "repaired" => l \notin touched]_vars

\* qBittorrent is asked to recheck an entry only when none of its links is left
\* without a mapping, but for links that lost it during the run (repair.py:404).
RecheckComplete ==
  [][\A e \in asked' \ asked : {l \in Unmapped : Entry(l) = e} \subseteq lost]_vars

\* Once the disturbances are over the marker comes to list exactly the links
\* that are lost, and goes when there are none (anomaly.py:144-161).
MarkerFollows ==
  <>[](IF Unmapped = {} THEN marker = NoMarker
                        ELSE MarkerFirst # None /\ marker.links = Unmapped)

\* A lost link whose file can be told is repaired by running the command again
\* and again, whatever interrupted it before (repair.py:455).
Tellable(l) ==
  LET fs == {f \in File : holds[f] = Wants[l]}
  IN /\ l \in Unmapped \cap Hashed
     /\ Cardinality({f \in File : holds[f] # Gone}) <= MaxCandidates
     /\ \/ Cardinality(fs) = 1 /\ fs \subseteq Managed
        \/ Cardinality(fs \cap Library) = 1 /\ fs \cap Library \subseteq Managed
LostIsRepaired == \A l \in Link : []<>~Tellable(l)
=============================================================================
