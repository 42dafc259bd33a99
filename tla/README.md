# A model of qbittorrent-seed-cache

The daemon caches the files of popular torrents on an SSD. qBittorrent seeds
through symlinks; *promoting* a torrent copies its files to
`<ssd_cache_dir>/<infohash>/` and points the links there, *demoting* it points
them back at the bulk files and removes the copies. Nothing else records where
the bulk file of a promoted link is than two notes the daemon keeps itself: the
`bulk_targets` of the tier row in SQLite and the sidecar `.qbsc-meta.json` in the
torrent's directory. Losing both, or removing a copy while a link leads to it,
takes a file away from a seed. That is what this project is about.

## 1. The system

| Component | State | Operations | Modelled in |
|---|---|---|---|
| tick (`daemon.py`) | the view of one poll | poll, bootstrap, orphan rows, quarantine, demote, reclaim, displace, promote | `Tick` (links and notes), `TickBudget` (bytes and choices) |
| process (`daemon.py: run_daemon`) | stop flag | start, loop, exit | `Reconcile`, `World` |
| mover (`mover.py`) | links, copies | promote, demote, retarget_to_bulk | `Mover` |
| file operations (`symlinks.py`) | a partial copy and its note | safe_copy, atomic_retarget, remove_tree | `Mover`, `SafeCopy`, `AtomicCopy` |
| recovery (`recovery.py`) | sidecar, promotion intent, anomaly marker | write, read, clear | `CacheState`, `Mover`, `Repair` |
| reconciliation (`reconcile.py`) | - | pass A (directories to rows), pass B (rows to links) | `Reconcile` |
| resolver (`resolver.py`) | - | resolve, ssd_links, aggregate | `Tick` |
| quarantine (`anomaly.py`) | last report, first_seen | find_unmapped_links, AnomalyReporter.report | `Tick`, `Repair` |
| state store (`state.py`) | tier rows | set/delete/get tier, bytes and maps of hot rows | `CacheState`, `TickBudget` |
| state store (`state.py`) | snapshots | record, history, prune, thin | `History` |
| hotness (`hotness.py`) | - | score of a history | `History` |
| selector (`selector.py`) | - | demotions, displacements, promotions | `Selector` |
| repair-dangling (`repair.py`) | findings of one run | scan, classify, verify, apply, recheck | `Repair` |
| quota.py | - | used by no module of the repository; the daemon has its own `_free_ssd_bytes` | - |
| liveness (`daemon.py`, `recovery.py`, `healthcheck.py`) | heartbeat, the container's health | beat, check, restart of what is unhealthy | `Heartbeat` |
| paths, config, client, CLI, tools | settings | - | see section 8 |

The daemon is one process and one loop. Before the first tick it reconciles the
database with the SSD. Then, every `poll_interval_sec`, a tick polls all
instances, works from what they answered until it is over, and asks nobody again:
the view may be incomplete when the poll ends and stale at any time after. Work
on files happens one system call at a time, so the process can die, or a call
fail, between any two. qBittorrent, the import hook of the *arr programs and the
operator change links and files independently; so does `repair-dangling`, which
the operator runs as a process of its own beside the daemon.

What is hard here, and which property is about it, is the list `hazards` of
`PROJECT.json`. In short: two notes that are rewritten at different moments of a
job that can stop anywhere; a poll that is complete in form and incomplete in
fact; loops in which one failure goes on to the next torrent and another aborts
the tick; retries that must neither start from zero nor last for ever; a budget
computed from what is booked and spent on what is there; a command that looks at
a link now and replaces it much later; a deadline that must be longer than any
work and shorter than anybody's patience.

## 2. Modules

```
CacheState   state, readers of it, disturbances
  Mover      the work on one torrent: retarget + rm, copy + sidecar + publish
    Tick       the stages of a tick and their loops
    Reconcile  start and the two passes
  World      crash, stop, losses, imports, removals, moves, mounts
SeedCache    Tick + Reconcile + World: Spec, FairSpec, the properties
LinkLedger   what the cache promises of links and copies, abstractly
Selector     the three selections, as functions
TickBudget   the tick again, with bytes, ages and scores and Selector's choices
History      one series of snapshots, thinned, beside the same series kept whole
AtomicCopy   what a copy promises
SafeCopy     the copy of one file, chunk by chunk, with its partial and its note
Repair       repair-dangling and the anomaly marker beside a daemon
Heartbeat    beats, stages and health checks in time
MCSeedCache, MCTickBudget, MCHistory, MCSafeCopy, MCRepair   small instances
SeedCacheProofs < LedgerProofs
             theorems on SeedCache, the second module on the first
SafeCopyProofs, RepairProofs, HeartbeatProofs
             theorems on the modules they are named after
FoldProofs < BudgetProofs, HistoryProofs
             loops and sums, and the theorems on TickBudget and on History
             that rest on them
```

The system is modelled at five grains, each fine where its hazards are. What one
model does in a step another shows in detail: the copy of a file is two steps in
`Mover` and a module of its own in `SafeCopy`; a promotion is a dozen steps in
`Mover` and one, with the same outcomes, in `TickBudget` and `Repair`; a
selection is any admitted subset in `Tick` and the real one in `Selector`; what
all this takes in time is in `Heartbeat`.

### SeedCache: links, copies and notes

*Variables.* A *link* is the path of one file of one torrent in one instance; a
*file* is one SSD destination, which the instances share. A path and a time are
reduced to what decides the control flow: a link is absent, leads to bulk or
leads into the SSD; a copy is absent, partial or whole; an intent is absent,
younger or older than `PROMOTION_RESUME_TTL_SEC`. `side[t] = {}` is a sidecar
that is absent or that `read_meta` rejects; `map[t] = {}` is `bulk_targets` NULL.
`phase` is the stage of the tick or of reconciliation, `todo`/`cur` its loop,
`step`/`rest` where the mover is with the current torrent.

*Actions.* Each file-system call and each database write is a step (`ToBulk`,
`UnlinkEntry`, `RemoveDir`, `BeginCopy`, `FinishCopy`, `WriteMeta`,
`ClearIntent`, `Publish`, `SetHot`, `SetCold`, ...). `Poll` is steps 1 to 5 of
`_tick` in one action: it reads, and writes only tier rows of torrents that had
none. A pass over one directory in `ReconcileDir` is one action because it makes
one write. A failure ends the job (`BulkJobFails`, `PromotionFails`) with the
effect its caller gives it: demotions, displacements and promotions are guarded
per torrent, orphan clean-up, reclaiming and the tier writes abort the tick,
pass B ends the process.

The selections may return any subset of the torrents that their filters admit,
so this model contains the code's choice for every score, size and budget.

### Selector and TickBudget: bytes, ages, scores

*Selector* writes `select_demotions`, `select_displacements` and
`select_promotions` as folds over sorted sequences. Torrents are numbered in the
order in which the tick aggregates them, which breaks ties as Python's stable
sort does; a sorted sequence has each torrent at the place that the number of
those before it says (`InOrder`). The search for victims is a set: the numbers
of further victims that would make the target fit, of which the code's loop
finds the least.

*TickBudget* is a tick around them. `tier` and `age` are the row, `disk[t]` the
bytes of the directory (less than the size after an interrupted job), `pend` the
intents young enough to be kept, `lost` the torrents whose notes are both lost
while their links still lead in. A promotion that ended behind its sidecar
leaves what the next start will book: `side` is the age of such a sidecar while
the row is not hot, and `linked` says whether a link was published, so that the
directory stays in use whatever the row says. `view` is what the tick read of
all this at its poll, `avail` the headroom it computed last. `Demote`, `Displace`
and `Promote` take one torrent each; `HalfDemoted` and `HalfPromoted` are the
places in `Mover` where the same job may end early, by an error (`DemoteFails`,
`PromoteFails`) or with the process (`Interrupt`, after which `phase` is "down").
`Start` is reconciliation: it makes a hot row of every sidecar there is, and
drops rows whose directory is gone. `trouble`, `room`, `evicted` and `gained` are
ghosts that the properties about a tick read, `failed` is the ghost of torrents
whose last promotion failed behind its sidecar.

### History: snapshots and their score

One series, because `state.py` treats each `(instance, infohash)` alone. `Tick`
is what a tick does to it: record, prune by age, thin when maintenance is due.
`full` is a ghost, the same rows never thinned, each with the bytes really
uploaded up to it. `Score` is the sum of `hotness.py`, written over pairs of
neighbouring rows.

### AtomicCopy and SafeCopy: one file

A content is the version it is a prefix of and its length in chunks; `Mixed` is
what is a prefix of none. `safe_copy()` becomes the steps `Begin`, `Discard`,
`WriteNote`, `Open`, `ReadChunk`, `EndOfFile`, `Publish`, `Cleanup`. `ident` is
the version whose size and mtime the copy noted at its start, `reading` the
version behind its descriptor: a replaced file keeps being read, a rewritten one
changes under the reader. A reboot may shorten the partial, leave blocks without
their data in it, or lose a note. `AtomicCopy` has three variables:
a destination is absent or one whole version, unless the source changed in a way
its size does not show (`Unseen`).

### Repair: finding lost bulk files again

The command's run is `pc` and its findings: `status`, `seen` (where a link led
when it was noted), `cand` (the file it will be pointed to). It reads the rows
once (`StartScan`), the links one by one and in two moments (`ScanLink`,
`NoteTarget`: the decision that a link is lost and the `readlink` that is later
compared), the index of sizes (`Index`), the hashes (`Verify`), and then checks
and replaces link by link (`Check`, `Retarget`: two steps, so that something can
happen between them), and asks for rechecks (`Recheck`). `Verify` is one step
because nothing the command does depends on when a file was hashed but through
`replaced`, the ghost of files edited since. `touched` is the ghost of links
that somebody changed since they were noted, `lost` of links whose notes
disappeared during the run. The daemon's part is `AnomalyReporter` in full
(`Report`, with `lastKey`, `firstSeen` and the marker) and `Promote`/`Demote` in
one step. Here contents are values and each link has its own bulk file.

### Heartbeat: time

`age` is how long ago the heartbeat on the SSD was written, which is all that a
deadline and a clock say. `stage` is what the process is at: reconciliation,
steps 1 to 8 of a tick (`work`), a promotion between its copies (`settle`), one
chunk of a copy, the wait. `Pass` lets a unit of time go by, for all clocks
together, and not past the longest time of a stage that goes on, a pending health
check or the runtime's patience with a stop: so a stage may end at any time up
to its longest. `sinceBeat` is the `last_beat` of `_copy_progress`, a new one for
each promotion. `Hang` is a call that does not return, for as long as it likes.
`Check` is the container's health check with the interval, start period and
retries of the `Dockerfile`; `Autoheal` the watcher that healthcheck.py:14 warns
of. `stuck` is the ghost of a hang, or of a beat that could not be written, since
the last one that was. The module has small values for its constants in the
`.cfg` files and needs no MC module.

## 3. Disturbances and bounds

`Faults` names the kinds of disturbance an instance of a model allows
(`CacheState.FaultKind`, `TickBudget.FaultKind`, `RepairAssumption` and
`TimeAssumption` list them), and a behaviour contains at most `MaxEvents` of
them. That bound, the sizes of the sets, the horizon of `History` and the
durations of `Heartbeat` are the only ones; between disturbances the daemon runs
any number of ticks and restarts. Every violation
of section 6 is found within its run's bound; the passing runs allow 3 to 5
events, so a fault meets the remains of earlier ones (a crash during the
recovery from a lost database, say).

- `grid`: two torrents, one of two files, each a link of another instance, so
  that links are published and withdrawn in any order and a loop goes on after a
  failure; three events of ten kinds. `lastcopy` is among them: a loss while the
  daemon is down may then take *both* notes of a mapping. No program survives
  that, and what must hold then is the quarantine.
- `storm`: one file under two save paths of one instance and in a second one;
  three events of all seventeen kinds; `SuspendOnAnomaly` on.
- `liveness`: one file in two instances, one of which may be hidden from a poll;
  five events of ten kinds.
- `budget`: torrents of 1, 2 and 3 units under a quota of 3 on a disk of 5 with a
  reserve of 1: the largest competes with the other two together, and other data
  can make the headroom negative. Scores move between cold, equal density,
  exactly `Factor` times and more.
- `history`: window 6, buckets of 3, maintenance every 2 polls, 8 polls: rows are
  thinned several times and leave the window; two restarts of qBittorrent, two
  troubles.
- `copy`: three versions of 3, 2 and 2 chunks, so that a change keeps the size,
  changes it, or brings it back; four faults. Changes of the source are bounded
  by the number of versions.
- `repair`: three links (two of them the same file of a torrent in two
  instances, the third one that cannot be hashed) and three bulk files, one a
  copy of another that an instance keeps; three events of eight kinds. The ninth,
  `marker`, is left to `marker_unwritten`.

- `heartbeat`: times are small numbers, chosen tight. A poll interval of 2, work
  of 2, a chunk and a settling of 1 each, a beat every 2, two promotions: the
  slowest tick with the wait after it uses up the grace of 9 to the last unit
  that `GraceSuffices` admits (with a `Slack` of 2 in place of 3 TLC finds
  `NoFalseAlarm` violated). A reconciliation of 5 ends before the third check
  could count the second failure behind a start period of 3. A stop is waited
  for 2 units. Five events of five kinds. `age` stops growing one unit past the
  grace, `uptime` at the end of the start period, `streak` at `Retries`: nothing
  depends on more.

No symmetry is used: links are told apart by their torrent, file and instance.

## 4. Runs

| Run | Shows |
|---|---|
| `grid` | the inductive invariant of the proofs; `HotAccounted`, `MappingSurvives`, `NoNewDangling`, `PendingKept`; that the daemon implements `LinkLedger` |
| `storm` | all kinds of disturbance: `TypeOK`, `PromotionOrder`, `WriteAhead`, and `UnseenCopiesStay` (an incomplete poll costs no copy) |
| `liveness` | `OrphansReclaimed`, `LostDirHealed`, `NoPartialPinned`; with incomplete torrent lists also `LedgerSpec` |
| `budget` | `QuotaInv`, `QuotaHonest`, `ReserveKept`, `EvictionsPay`, `Settles` |
| `history` | `SumsInv`, `EdgeWithinBucket`, `NeverOverstates`, `HistoryBounded` |
| `copy` | the inductive invariant, `TrustedIsPrefix`, `ReadOnce`, `Completes`, and that `SafeCopy` implements `AtomicCopy` |
| `repair` | the inductive invariant, `FirstSeenKept`, `RepairIsRight`, `LeftAlone`, `RecheckComplete`, `MarkerFollows`, `LostIsRepaired` |
| `heartbeat` | the inductive invariant, `NoFalseAlarm`, `StopInTime`, `UnhealthyMeansStuck`, `HungIsEnded` |
| `half_published`, `bulk_unmounted`, `evict_for_nothing`, `marker_unwritten` | four sentences of the documentation that the code does not keep, section 6 |

Deadlock is checked but in `history`, whose time ends, and `copy`, whose copy may
be done with nothing left to happen.

The properties of links and notes:

- `MappingSurvives`: while the daemon runs no link into the SSD loses the last
  note of its bulk file. It crosses every job: a promotion overwrites the
  sidecar, a demotion deletes it with the directory and then resets the row,
  reconciliation copies one note to the other.
- `NoNewDangling`: while it runs, no seeded link is left leading to a copy that
  is not there, not even one whose mapping is lost; but for the orphan clean-up
  of a torrent of which the tick resolved nothing (`Forsaken`, section 6).
- `HotAccounted`: after reconciliation every torrent with a recoverable link into
  the SSD is booked hot, but for the one being published; the quota is computed
  from the rows.
- `WriteAhead`: a link is published only when its copy is whole and its bulk file
  is in the sidecar, also over the remains of earlier promotions.
- `PendingKept` and `NoPartialPinned`: an interrupted promotion can be resumed,
  and one that keeps failing does not hold its space for ever.
- `UnseenCopiesStay`: what the daemon must not do with an incomplete view.
- `OrphansReclaimed`, `LostDirHealed`: directories of removed torrents go away,
  links into a deleted directory get back to bulk.
- `LedgerSpec`: `LinkLedger` says what the cache promises in three variables: a
  copy goes only when no recorded link leads to it, a link leads in only when it
  is recorded and its copy is there, entries of links that lead in are kept.
  `SeedCache!Ledger` is the refinement mapping; a link counts as recorded when
  it is in a hot row or in the sidecar.

Of bytes and scores:

- `WithinQuota` (checked with its inductive strengthening, as `QuotaInv`): what
  the rows book, and what the next start will book from sidecars, stays within
  the quota, but for torrents whose promotion failed behind its sidecar. The
  exception is the code's (section 6); `failed` names exactly those torrents,
  and a crash in a promotion, whose sidecar the next start books as well, is
  not among them: its room was kept.
- `QuotaHonest`: no *promotion* takes the bookings beyond the quota, not even
  where a start has booked such failed promotions too; and in a tick with a
  complete poll not even when copies with lost notes are counted.
- `ReserveKept`: promotions leave `min_free_gb` free. The headroom is computed
  once from rows and once from the filesystem, and torrents that fail, are
  demoted twice, or are booked only at the next start all pass through it.
- `EvictionsPay`: a plan of displacements pays, although `select_promotions` is
  not told of it: when nothing else happened in the tick more is promoted than
  would have fitted before. Its preconditions are those TLC showed to be needed.
- `Settles`: with constant scores no two torrents displace each other for ever.
- `SumsExact` (with what makes it inductive, as `SumsInv`), `EdgeWithinBucket`,
  `NeverOverstates`, `HistoryBounded`: thinning again and again at a moving
  border changes no sum but at the edge of the window, and keeps the history
  small.

Of copies and repairs:

- `AtomicSpec`, `TrustedIsPrefix`: the destination is absent or one version of
  the source; what would be resumed is a prefix of the present one.
- `ReadOnce`, `Completes`: stopped and killed copies go on where they were, and
  finish.
- `RepairIsRight`, `LeftAlone`, `RecheckComplete`: a repaired link leads to what
  its torrent's hashes describe; a link that somebody changed in the meantime is
  left alone; qBittorrent is asked to recheck only entries without lost links.
- `FirstSeenKept`, `MarkerFollows`, `LostIsRepaired`: the marker keeps its date
  over restarts and comes to list the lost links; the command, run again, ends
  the trouble it can end.

Of time:

- `NoFalseAlarm`: once the first tick has begun, a stale heartbeat is one of a
  daemon that hung or could not write it. A copy of any length, a row of
  promotions each too short to beat, a tick that fails where its last promotion
  is booked and the wait behind it all add to the same age.
- `UnhealthyMeansStuck`: no container is restarted for nothing, also while a
  process starts with the stale heartbeat of an earlier one.
- `HungIsEnded`: a daemon that hangs in whatever call is noticed and restarted.
- `StopInTime`: a stop that finds a copy running is over before the kill.

`HotAccounted`, `MappingSurvives` and `NoNewDangling` do not hold under every
disturbance. The *rough* ones (`RoughFaults`) are the failed rename of a
publication, a rejected tier write, removals and imports in the middle of a
tick, moved torrents and the unmounted bulk filesystem. The passing runs of
those properties leave them out, the runs of section 6 show what happens with
two of them, and `storm` contains all of them.

Every property of a passing run has a mutant in `PROJECT.json`: a change of one
definition, of the kind a slip in the code would be, under which TLC finds the
property violated.

## 5. Fairness

A daemon that can go on does: the loop catches every exception of a tick and
waits a bounded time, and a dead process is started again by the container's
policy (`restart: unless-stopped`, docker-compose.example.yaml:86). This is weak
fairness of `Daemon`, of which `Start` is a part, in `SeedCache!FairSpec` and
`TickBudget!Spec`, and of `Start` and `Report` in `Repair!FairSpec`. `SeedCache!FairSpec` has besides the
passing of the intent's time.

`SafeCopy!Spec` has weak fairness of `Copier`: a promotion that failed is tried
again while the torrent is wanted. `Repair!FairSpec` has it of `Command`: the
operator runs `repair-dangling` again while the marker lists links, which is
what README.md of the program asks for.

`Heartbeat!Spec` has weak fairness of `Clockwork` and `Autoheal`: time passes and
checks are made, and somebody restarts what is unhealthy. It assumes nothing of
the daemon, which may hang for ever: that is what the check is for.

It is *not* assumed that a particular torrent is ever promoted, demoted or
displaced. Disturbances and polls that fail are not fair and are bounded: the
liveness properties say what happens when the world is quiet for long enough.
`liveness` leaves out `oserror`, under which `NoPartialPinned` is false (see the
end of section 6).

## 6. Where the code and its documentation differ

1. `half_published` (a bug): the rename of the second link fails after the first
   was published. The row stays cold; the next poll resolves only the second
   link; promoting again *replaces* the sidecar by that link alone
   (mover.py:203-218) and the published one has no note left.
2. `bulk_unmounted`: "Existing hot torrents keep seeding from SSD ... should
   refuse to operate" (docs/architecture.md:161). Every poll succeeds, nothing
   resolves, every hot torrent is cleaned up, before the quarantine is computed.
3. `evict_for_nothing`: "we never evict for nothing" (selector.py:174). A torrent
   demoted in step 7 is still a hot candidate in step 8: its bytes are counted a
   second time, another torrent is evicted with it, and the target does not fit.
4. `marker_unwritten` (a bug): a failed write of the marker is logged, leaves an
   empty file, and is never made up for while the set of links stays the same
   (anomaly.py:157-177).

Met on the way and not kept as runs, because the repository says nothing
definite of them, the case is remote, or another run shows the same lines:

- "better than misclassifying the torrent as orphan" (resolver.py:138): the
  layouts of a torrent with a new save path are empty too, so `_cleanup_orphans`
  takes it for one, by the same lines as `bulk_unmounted` shows.
- "A stale heartbeat means the daemon is hung" (recovery.py:54): behind a downtime
  longer than the grace it means that the daemon reconciles. Its first beat comes
  after that (daemon.py:707), and the file of the process before is still there.
  `NoFalseAlarm` therefore speaks of the time after reconciliation, and
  `UnhealthyMeansStuck` of a reconciliation that is over before the checks that
  count are.
- An instance that answers with an incomplete list, together with a lost
  mapping, makes a directory in use look unreferenced, and it is reclaimed
  (daemon.py:378 says that "deleting it cannot dangle a seed").
- "If there is no remaining qbit_file_path mapping on the SSD we simply remove
  the dir" (daemon.py:350), although the daemon cannot safely touch the SSD
  directory of a torrent whose mapping is lost (anomaly.py:5) and
  docs/architecture.md:123 counts such torrents as protected. The clean-up runs
  before the quarantine (daemon.py:528 and 537), and what keeps a lost torrent
  from it is only that nothing of it is hot. It can be: both notes of a torrent
  with two links are lost, one link is imported again, an instance that hides
  the other one lets the torrent be promoted anew, with a row and a sidecar of
  the one link, and that link's instance removes it. The next complete poll
  resolves nothing of a hot torrent, and the directory goes under the lost link.
  It takes six disturbances, three more than `grid` allows, and came to light
  where the proof of `NoNewDangling` failed; the property excepts this one case.
- A hot row whose files and sidecar were removed is skipped by both passes of
  reconciliation while its links dangle (reconcile.py:89-91).
- A promotion killed over an old sidecar is booked hot at the next start
  (reconcile.py:113), and then no rule looks at its partial (recovery.py:310).
- A demotion that crashes before `set_tier` leaves a hot row, so the directory is
  not reclaimed until the torrent is selected again; a promotion that crashes
  half-published is booked hot at restart with some links on bulk; the
  quarantine of a tick does not see links of an instance that did not answer.
- The bookings can exceed the quota. A promotion fails behind its sidecar (a
  rename, mover.py:231); the error is logged and the row stays cold
  (daemon.py:669). The directory stays, because a published link uses it or
  because no complete poll lets anything be reclaimed, but the headroom counts
  hot rows and quarantined directories only (daemon.py:448), so others fill the
  quota. The next start books the torrent all the same (reconcile.py:113). In
  `TickBudget` with a quota of 3: a torrent of 3 behind its sidecar, one of 1
  promoted, four booked after `Start`. From then on the headroom is zero, and
  `QuotaHonest` says that nothing is promoted until there is room. It is no run
  because the documents call the quota soft (README.md:23 of the program).
- `quota.py` says of an overbooked cache that the next tick rebalances; the
  daemon clamps its headroom and demotes only what is cold.
- A source rewritten in place without a change of size gives a mixed copy
  (symlinks.py promises a whole destination); `AtomicCopy` names the exception.
- In `repair-dangling` a file is not hashed again before its link is changed, and
  between the check of a link and its replacement lies a moment nobody guards.
  Nor does anybody guard the one between the decision that a link is lost
  (repair.py:204) and the `readlink` two requests later (repair.py:224): a link
  moved in between is noted where it leads now, and passes the check.
  `LeftAlone` speaks of changes after the note. An entry some of whose links
  lost their notes during the run may be rechecked with these still lost;
  `RecheckComplete` excepts them.
- A `clear_anomaly()` that fails is logged, and the old marker stays. If the next
  trouble comes before the next complete poll without one, it gets the old
  marker's date; `FirstSeenKept` takes an uncleared trouble for the same one.
  An error of `stat` on one file of the index ends the whole command.

## 7. Proofs

`tlapm` checks every theorem for any sets and any number of disturbances, from
the assumptions of the modules: `LinksAssumption`, `NoneAssumption` and
`EventsAssumption` (`CacheState`: each link has one torrent, instance and file,
a file belongs to one torrent), `CopyAssumption` and `BootIdAssumption`
(`SafeCopy`), `RepairAssumption` (`Repair`), `TimeAssumption` (`Heartbeat`),
`SelectorAssumption` and `BudgetAssumption` (`Selector`, `TickBudget`),
`HistoryAssumption` (`History`). They only type the constants and keep special
values apart. `GraceSuffices`, `StopSuffices` and `StartSuffices` (`Heartbeat`)
say more, see below. Each inductive invariant is also an invariant of a run:
`grid`, `copy`, `repair`, `heartbeat`, `budget`, `history`.

`SeedCacheProofs`, under every disturbance:

- `TypeCorrect`: `Spec => []TypeOK`.
- `PromotionOrdered`: `Spec => []PromotionOrder`. It is inductive with `TypeOK`:
  while a promotion runs nothing else changes the view, the sidecar of its
  torrent or its copies.
- `WriteAheadHolds`: `Spec => WriteAhead`. Only `Publish` turns a link into the
  SSD (`OnlyPublish`), and it does so in the last stage, where `PromotionOrder`
  gives the copies and the sidecar.

`SeedCacheProofs`, under the assumption `Gentle` (none of the rough disturbances):

- `Consistent`: `Spec => []MappingInv`. `MappingSurvives` is not inductive by
  itself: whether `WriteMeta` may drop an entry depends on what the poll saw,
  and whether `RemoveDir` may depends on what was retargeted. The strengthening
  has one conjunct per dependence. `RecordInv`: a sidecar lies in a directory,
  only hot rows have maps, a map covers the published links of the sidecar.
  `HotInv`: outside of reconciliation a published and recorded link has a hot
  row, or is being published now. `LayoutInv`: a resolved link into the SSD is
  in the map of its row; so what a promotion of a *cold* torrent resolves
  contains no published link whose note it could drop. `WorkInv`: the links
  still to retarget contain every recorded link of the torrent that leads into
  the SSD, and none is left when the `rm` is through. `LoopInv` and `VisitInv`
  say in which state each loop meets a torrent.
- `HotAlwaysAccounted`: `Spec => []HotAccounted`, from `HotInv` and `RecordInv`.
- `MappingsSurvive`: `Spec => MappingSurvives`: a step that removes a note
  (`UnlinkEntry`, `SetCold`, `DropOrphanRow`, `DropMissingRow`, `WriteMeta`,
  `ReconcileDir`) is taken where `MappingInv` says that no link needs it.

`LedgerProofs` goes on from the notes to the copies:

- `ImplementsLedger` (`Gentle`): `Spec => LedgerSpec`, the refinement. The
  initial states map, and each of the daemon's and the world's steps maps to one
  step of `LinkLedger` or to a stutter (`LedgerStep`). The frames come first:
  the daemon changes links only in `ToBulk` and `Publish` (`LinkDaemon`), copies
  only in `FinishCopy` and `UnlinkEntry` (`CopiesDaemon`). A copy goes with
  `UnlinkEntry`, where `WorkInv` says that no recorded link leads to it; the
  ledger's record of a link, which is in two notes here, is followed over the
  moves between them (`Records`).
- `VictimsChosen`: `Spec => []VictimInv`, under *every* disturbance. `VisitedInv`
  says whom each loop of a tick visits, given what the poll answered;
  `NothingLeft`, `MarkerInDir`, `OwnNotes` and `OwnWork` what it finds there.
- `UnseenStay`: `Spec => UnseenCopiesStay`, also under every disturbance. Where
  an instance did not answer `VisitedInv` leaves no loop that removes anything.
- `CacheInvariant` (`Gentle`): `Spec => []IndInv`. Beside the two before it has
  `ViewInv`: as long as no instance hides torrents, a complete poll saw each link
  that has no mapping leading into the SSD, so its torrent is quarantined from
  the demotions on, and each link on bulk is a layout of the tick or one that the
  daemon retargeted since.
- `QuarantineProtects` (`Gentle`, without `absent`): `Spec => NoNewDangling`. A
  link can only be left dangling by `UnlinkEntry` (`DanglesByRemoval`). If it has
  a note, `WorkInv` excludes that; if not, `ViewInv` has its torrent in the
  quarantine, and `VisitedInv` no loop that visits it but the orphan clean-up.
- `NothingDangles` (`Gentle`, without `lastcopy`): no link dangles at all, hidden
  torrents or not, because then every link has a note (`NothingUnmapped`).
- `PendingStays` (`Gentle`, without `absent`): `Spec => PendingKept`: a torrent
  with an intent is never among the directories to reclaim (`OnlyReclaimPicks`).

`SafeCopyProofs`, for versions of any sizes, with or without a boot id:

- `CopyInvariant`: `Spec => []IndInv`. That the destination is whole depends on
  two things no single step sees. `NotesTrue`: if the note beside a partial
  names the present source and the present boot, the partial is a prefix of it;
  it is what a kill in any step leaves for the next process. `SourceKnown`: what
  the running copy may conclude from the number of changes since its start, which
  is why one change that alters the size is caught by the final comparison
  and two need not be. `PublishesWhole` is what both are for.
- `ResumesPrefix`: `Spec => []TrustedIsPrefix`, from `NotesTrue`.
- `CopyIsAtomic`: `Spec => AtomicSpec`, the refinement: `Publish` maps to the
  abstract one by `PublishesWhole`, `Reboot` and `RemoveFile` to `Remove` or a
  stutter, every change of the source to `Change`.
- `ReadsOnce`: `Spec => []ReadOnce`. `ReadsKept` relates the chunks read to where
  they are now: in the partial that the next process would trust, or behind the
  descriptor of the running one.

`RepairProofs`:

- `RepairInvariant`: `Spec => []IndInv`. `VerdictInv` carries a finding from
  `Verify` to its `Retarget` past everything others do: a verified candidate
  holds what its link wants unless it was edited since, a checked link is
  untouched, a touched link no longer leads where it did. `ScanInv` says which
  findings a stage can have, so that no stage meets another's. `DatedInv`
  relates the marker, the reporter's memory and the date of the trouble.
  These four are `FindingsInv`. `NothingMissed` says that a link which is lost,
  and was so when the run began, is in none of the notes the run has read, at
  whatever time it read them, and has a finding once the scan is past it.
- `MarkerDated`: without the fault `marker`, `Spec => []FirstSeenKept`, from
  `DatedInv`.
- `RepairsAreRight`, `OthersLeftAlone`: `Spec => RepairIsRight` and
  `Spec => LeftAlone`. Only `Retarget` repairs (`OnlyRetargetRepairs`), and it
  does so to a checked link, where `VerdictInv` gives both.
- `RechecksWhole`: `Spec => RecheckComplete`, from `NothingMissed`.

`HeartbeatProofs`, for all durations and numbers of promotions:

- `HeartbeatInvariant`: `Spec => []IndInv`. `AgeInv` bounds the age at each point
  of a tick. In a promotion it is the work before, one `Lap` for each promotion
  that is over, and `sinceBeat`; `sinceBeat` in turn is less than `BeatEvery`
  where a chunk ends, so it grows by one settling and one chunk at most before
  it is looked at again. A failed tick leaves its age to the wait.
  `StartingInv` counts the failures that a start with an old heartbeat can
  collect, `StoppingInv` what is left of the runtime's patience with a stop.
- `FalseAlarmsNever`: `Spec => []NoFalseAlarm`, from `AgeInv` and
  `GraceSuffices`. That assumption is the content of "room for a few slow ticks"
  (daemon.py:114). With a beat every 30 s and a grace of 1500 s (a poll interval
  of 300 s, one promotion) it means that steps 1 to 8, the parts of a promotion
  that do not copy chunks (the `fsync` of a whole file, above all) and one chunk
  may together take about 19 minutes where the tick fails at its end, and 24
  where it does not.
- `UnhealthyOnlyStuck`: `Spec => UnhealthyMeansStuck`, from `StartingInv` and
  `StartSuffices`: a reconciliation is shorter than the checks it takes to be
  unhealthy, the ones the start period forgives included. With the values of
  Dockerfile:38 (one a minute, 30 s, three) that is three minutes.
- `StopsInTime`: `Spec => []StopInTime`, from `StoppingInv` and `StopSuffices`: a
  chunk, and what is between two copies, take less than the runtime waits
  (daemon.py:100).

`FoldProofs` has what the library states of folds and sums only by definition: a
`FoldLeft` over a sequence is a loop whose k-th value follows from the one before
(`FoldLoop`), a sum over a set is independent of the order in which it is taken
(`SumMember`), grows with the set (`SumPart`) and changes with one weight by as
much (`SumChange`). Functions by recursion over the subsets of a finite set
(`RecursionOverSubsets`) and induction over numbers and subsets are derived from
the existence of least numbers, since the library's own induction theorems have
an operator as a parameter.

`BudgetProofs`, for any torrents, sizes, scores, thresholds and disturbances:

- `BudgetInvariant`: `Spec => []QuotaInv`. That what is booked, now or
  by the next start, stays within the quota depends on a promise made steps
  before: what `select_promotions` returned fits, together, into what was
  measured. `PlanInv` carries that promise over the promotions that succeed or
  fail half-way, and still has the room of the one that a crash leaves behind its
  sidecar (`InterruptedFits`); that none of them is hot already needs what the
  view knows of hot torrents. `SideInv` says that nothing else has a sidecar
  without a hot row while the daemon runs, so that a start books only promotions
  that failed and the one that was cut short. `ViewInv` says that the quarantine
  it counts is the present one. The promise itself is `PromotionsFit`: the greedy loop takes each torrent once
  and what it took and what is left are always what it began with (`Taken`). It
  needs that a sort by density gives each candidate once (`InOrderEnumerates`),
  for which densities, compared by products, must be a transitive order
  (`DensityOrder`).
- `HonestQuota`: `Spec => QuotaHonest`, and `FreeReserve`: `Spec => ReserveKept`.
  Only `Promote` gains bytes (`OnlyPromotions`), and `PlanGoesOn` says what it
  leaves of the quota and of the filesystem.
- `DisplacementPays`: `Spec => []EvictionsPay`, from `PayInv`: in a tick in which
  nothing went wrong the headroom measured behind the displacements is the one
  before and the victims' sizes (`RoomOfVictim`), and with it the greedy loop
  takes more than would have fitted. The last is `DisplacementsPay`, on the two
  selections alone. `Follows` goes through the candidates with both at once: until
  the plan takes its first victims both have chosen the same, and the greedy
  loop has the plan's room and that of all the victims; where they part, for
  whatever reason, the greedy loop is ahead and stays so.

`HistoryProofs`, for any window, bucket, resolution and gains, any number of
restarts, missed polls and failed maintenance, up to any horizon:

- `HistoryInvariant`: `Spec => []SumsInv`. `SumsExact` speaks of sums over parts
  of the full series; the proof has one function in their place that says for
  each row how much was counted up to it (`Counts`). A sum between two rows is a
  difference of it (`ScoreBetween`), and the sums of the kept rows are exact just
  when one such function explains the steps of both series (`ExactIsShared`).
  What happens to a series is then about steps: a poll adds one (`Appended`),
  which needs that the last row is always kept; pruning takes steps away
  (`Pruned`); thinning joins some (`ThinnedCounts`), between whose ends nothing
  was reset, because both rows of a reset are kept, and the ends of the thinned
  part meet the rest at a row that is kept (`CompactCounts`).
- `WindowEdge`: `Spec => []EdgeWithinBucket`. `Dense` carries the bucket: each row
  of the window is followed by a kept row in its bucket, since thinning keeps
  the last one (`CompactDense`) and pruning only takes earlier ones.
- `ScoreIsHonest`: `Spec => []NeverOverstates`. `Covered` bounds each step of the
  full series by what was uploaded, and so also what the next poll will find
  when the counter started over since, or did and has overtaken its old value
  (`SeedReaches`).
- `HistoryStaysSmall`: `Spec => []HistoryBounded`, from `Thinned`: an old row is the
  first, the last of its bucket, or next to a reset. The first row is the only
  exception there has to be: if a pruned row took the reset of its neighbour
  with it, that neighbour begins the series (`PruneSpare`).

So every invariant and every action property of the passing runs is proved, and
so are both refinements. Only model-checked are the liveness properties
(`OrphansReclaimed`, `LostDirHealed`, `NoPartialPinned`, `Settles`, `Completes`,
`MarkerFollows`, `LostIsRepaired`, `HungIsEnded`): liveness under fairness and
ENABLED are out of the prover's reach. No module declares a RECURSIVE operator.

## 8. Not modelled

- *Inside a tick*: `dry_run`; a failing write of the promotion intent (the
  promotion fails before it did anything); a failing bootstrap write (the tick
  is over before it did anything else). Errors that never go away: a link that
  can never be retargeted aborts each tick at the same place by design.
- *Power loss* across files: `SafeCopy` loses what one copy did not sync, but
  no model persists the rename of a link before that of its sidecar. The crashes
  of `SeedCache` are deaths of the process.
- *A sidecar that is JSON but no object*, on which `read_meta` raises; nothing in
  the repository writes one.
- *The moment between `rm` and `ln`* of the import hook, in which a link is
  missing; a link that is missing is in the model (`RemoveTorrent`).
- *One library target per link* in `SeedCache`: two imports of a link lead to the
  same "bulk". `Repair` has different ones, but there a demotion is one step.
- *A rejected tier write* in `TickBudget` (`Tick` has it): the torrent is then in
  the state of a promotion that failed behind its sidecar, or still booked.
- *Hotness*: the division of the sum by the span of the history (the rates are
  inputs of `TickBudget`) and `last_activity_ts`, which no decision uses.
- *Resolver*: `managed_paths`, and that `ssd_links` recognises links lexically.
- *Repair*: `--infohash`, the wording of findings, the files that one hash
  cannot tell apart; each link is of a file whose size all candidates share.
- *Health check*: that the SSD directory is there and writable, and
  `QBSC_HEALTHCHECK_FAIL_ON_ANOMALY`. Clocks that jump: a heartbeat's age is time
  passed, in the code it is the difference of two wall clock readings, so a step
  of the clock can make it stale, or fresh, at once.
- `quota.py`, used by nothing; configuration, path mapping, the HTTP client, the
  command line, logging and the one-time tools: parsing, I/O and formatting,
  with no state of their own.

## 9. Plan

Done: the models above, in the order links and notes, budget, copy, history,
repair and heartbeat. Left, in this order:

1. Distinct bulk files per link in `SeedCache`, for `retarget_to_bulk` after a
   new import (mover.py:119).
2. A persistent error, for the progress of the other torrents (daemon.py:359).
3. The theorems under `Gentle` with fewer assumptions: for each of the rough
   disturbances, which conjuncts of `MappingInv` survive it.
4. For the liveness properties, the safety half as theorems: what a step of a
   fair action makes smaller, and that no other step makes it larger.
