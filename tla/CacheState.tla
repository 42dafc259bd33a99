----------------------------- MODULE CacheState -----------------------------
(***************************************************************************)
(* State of the qbittorrent-seed-cache daemon and the readers of it that   *)
(* every other module uses.                                                *)
(*                                                                         *)
(* A torrent owns links (one symlink per file and qBittorrent instance)    *)
(* and files (one SSD copy per file, shared by the instances).  A path, a  *)
(* byte count and a timestamp are abstracted to what decides the control   *)
(* flow: where a link points, whether a copy is whole, whether the         *)
(* promotion intent is younger than PROMOTION_RESUME_TTL_SEC.              *)
(***************************************************************************)
EXTENDS Naturals, FiniteSets

CONSTANTS
  Torrent,             \* infohashes
  Instance,            \* configured qBittorrent instances
  Link,                \* torrents/<release>/<file> paths of all instances
  File,                \* payload files, one SSD destination each
  TorrentOf,           \* [Link -> Torrent]
  InstanceOf,          \* [Link -> Instance]
  FileOf,              \* [Link -> File]
  None,                \* "no torrent in progress"
  SuspendOnAnomaly,    \* config.suspend_promotions_on_anomaly
  Faults,              \* the disturbances this instance of the model allows
  MaxEvents            \* how many disturbances a behaviour contains at most

FaultKind ==
  { "crash",           \* the daemon process dies between two steps
    "stop",            \* SIGTERM
    "poll",            \* an instance does not answer a poll
    "absent",          \* an instance answers without some of its torrents
    "dbloss",          \* the database is replaced by a fresh one
    "ssdloss",         \* an <infohash>/ directory is deleted by hand
    "sideloss",        \* a sidecar is deleted or damaged
    "fileloss",        \* payload is deleted, the directory stays
    "lastcopy",        \* the losses above may hit the last record of a mapping
    "oserror",         \* a copy, a rename to bulk or a removal fails
    "publish",         \* the rename of a link to the SSD fails
    "dberror",         \* SQLite rejects the write of a tier row
    "import",          \* a download is imported (again) as a symlink
    "remove",          \* a torrent is removed from an instance
    "midtick",         \* removals and imports also happen during a tick
    "move",            \* a hot link is moved to another save path
    "unmount" }        \* the bulk filesystem is unmounted

ASSUME LinksAssumption ==
  /\ TorrentOf \in [Link -> Torrent]
  /\ InstanceOf \in [Link -> Instance]
  /\ FileOf \in [Link -> File]
  /\ \A l, m \in Link : FileOf[l] = FileOf[m] => TorrentOf[l] = TorrentOf[m]

ASSUME NoneAssumption == None \notin Torrent

ASSUME FaultsAssumption == Faults \subseteq FaultKind

ASSUME EventsAssumption == MaxEvents \in Nat

ASSUME SuspendAssumption == SuspendOnAnomaly \in BOOLEAN

LinksOf(t) == {l \in Link : TorrentOf[l] = t}
FilesOf(t) == {FileOf[l] : l \in LinksOf(t)}

VARIABLES
  \* on the bulk filesystem
  link,                \* [Link -> {"none", "bulk", "ssd"}]: where a symlink points
  mounted,             \* the bulk filesystem is there
  listed,              \* links of the torrents the instances hold
  \* on the SSD, under <ssd_cache_dir>/<infohash>/
  dir,                 \* torrents that have a directory
  copies,              \* files whose destination exists, whole
  partial,             \* files with a .qbsc-partial
  side,                \* [Torrent -> SUBSET Link]: links of the sidecar, {} = unusable
  intent,              \* [Torrent -> {"none", "fresh", "stale"}]: the promotion marker
  \* in the database
  row,                 \* [Torrent -> {"none", "cold", "hot"}]: the tier row
  map,                 \* [Torrent -> SUBSET Link]: its bulk_targets, {} = NULL
  \* in the memory of the process
  phase,               \* what the daemon is doing
  step,                \* where it is in the work on one torrent
  todo,                \* torrents the running loop has still to visit
  cur,                 \* the torrent it works on
  rest,                \* links of cur still to retarget
  layouts,             \* links this tick resolved to a layout
  into,                \* links that pointed into the SSD at the poll (into_ssd)
  pollOk,              \* every instance answered
  hotSeen,             \* candidates whose current_tier was "hot"
  quarantined,         \* torrents with an unmapped link
  halt,                \* a stop was requested
  \* bound on the disturbances
  budget

bulkVars == <<link, mounted, listed>>
ssdVars  == <<dir, copies, partial, side, intent>>
dbVars   == <<row, map>>
workVars == <<step, todo, cur, rest>>
viewVars == <<layouts, into, pollOk, hotSeen, quarantined>>
vars == <<bulkVars, ssdVars, dbVars, phase, workVars, viewVars, halt, budget>>

Phases == {"down", "reconA", "reconB", "idle",
           "orphans", "demote", "reclaim", "displace", "promote"}
Steps  == {"pick", "links", "remove", "copy", "meta", "clear", "publish"}

TypeOK ==
  /\ link \in [Link -> {"none", "bulk", "ssd"}]
  /\ mounted \in BOOLEAN
  /\ listed \subseteq Link
  /\ dir \subseteq Torrent
  /\ copies \subseteq File
  /\ partial \subseteq File
  /\ side \in [Torrent -> SUBSET Link]
  /\ intent \in [Torrent -> {"none", "fresh", "stale"}]
  /\ row \in [Torrent -> {"none", "cold", "hot"}]
  /\ map \in [Torrent -> SUBSET Link]
  /\ phase \in Phases
  /\ step \in Steps
  /\ todo \subseteq Torrent
  /\ cur \in Torrent \cup {None}
  /\ step # "pick" => cur \in Torrent
  /\ rest \subseteq Link
  /\ layouts \subseteq Link
  /\ into \subseteq Link
  /\ pollOk \in BOOLEAN
  /\ hotSeen \subseteq Torrent
  /\ quarantined \subseteq Torrent
  /\ halt \in BOOLEAN
  /\ budget \in 0..MaxEvents

-----------------------------------------------------------------------------
(* Readers of the durable state.                                           *)

IsSymlink(l) == mounted /\ link[l] # "none"
HasPayload(t) == FilesOf(t) \cap (copies \cup partial) # {}
HotTorrents == {t \in Torrent : row[t] = "hot"}
HotMap(t) == IF row[t] = "hot" THEN map[t] ELSE {}

\* The {link: bulk} map of a torrent about to lose its copy: the tier row's,
\* else the sidecar's.
BulkTargetsFor(t) == IF map[t] # {} THEN map[t] ELSE side[t]

\* The part of the tick's view that belongs to torrent t.
LayoutsOf(t) == layouts \cap LinksOf(t)
Wanted(t) == {FileOf[l] : l \in LayoutsOf(t)}
Live == {TorrentOf[l] : l \in layouts}
Referenced == {TorrentOf[l] : l \in into}

-----------------------------------------------------------------------------
(* A disturbance of a kind this model allows; it uses up one event.        *)

Disturb(kind) ==
  /\ kind \in Faults
  /\ budget > 0
  /\ budget' = budget - 1

\* The process forgets everything it kept in memory about a tick.
ForgetView ==
  /\ layouts' = {}
  /\ into' = {}
  /\ pollOk' = FALSE
  /\ hotSeen' = {}
  /\ quarantined' = {}

NoWork ==
  /\ step' = "pick"
  /\ todo' = {}
  /\ cur' = None
  /\ rest' = {}

EndTick == phase' = "idle" /\ NoWork /\ ForgetView /\ UNCHANGED halt
ProcessDies == phase' = "down" /\ NoWork /\ ForgetView /\ halt' = FALSE

\* The loop goes to phase p and will visit the torrents of ts.
BeginLoop(p, ts) ==
  /\ phase' = p
  /\ step' = "pick"
  /\ todo' = ts
  /\ cur' = None
  /\ rest' = {}

\* The loop of the current phase is done with cur.
NextTorrent == step' = "pick" /\ cur' = None /\ rest' = {} /\ UNCHANGED <<phase, todo>>

\* The loop takes torrent t and starts with step s on the links ls.
Take(t, s, ls) ==
  /\ step = "pick"
  /\ t \in todo
  /\ todo' = todo \ {t}
  /\ cur' = t
  /\ step' = s
  /\ rest' = ls
  /\ UNCHANGED phase
=============================================================================
