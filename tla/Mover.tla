-------------------------------- MODULE Mover --------------------------------
(***************************************************************************)
(* The work on one torrent (mover.py, symlinks.py): retargeting its links  *)
(* to bulk and removing its SSD directory, or copying its files to the SSD *)
(* and publishing them.  Every file-system call is a step of its own, so   *)
(* that a crash, a failure or an event in qBittorrent can come between any *)
(* two.  What follows a finished or failed job is the caller's business    *)
(* (modules Tick and Reconcile).                                           *)
(***************************************************************************)
EXTENDS CacheState

BulkPhases == {"orphans", "demote", "reclaim", "displace", "reconB"}
DemotePhases == {"demote", "displace"}

-----------------------------------------------------------------------------
(* demote() and retarget_to_bulk(): back to bulk, then rm -rf.             *)

\* Mutant: the persisted links are forgotten.
BeginDemoteLayoutsOnly(t) == Take(t, "links", LayoutsOf(t))

\* demote() begins: its live layouts and the persisted links they miss.
BeginDemote(t) == Take(t, "links", LayoutsOf(t) \cup BulkTargetsFor(t))

\* retarget_to_bulk() begins: the persisted links only.
BeginRetarget(t, ls) == Take(t, "links", ls)

\* demote() treats a live layout's link unconditionally; a persisted one, and
\* every link of retarget_to_bulk(), only when there is something to do.
Covered(l) == phase \in DemotePhases /\ l \in layouts
LeftAlone(l) ==
  IF phase \in DemotePhases THEN ~IsSymlink(l) \/ link[l] # "ssd"
                            ELSE ~IsSymlink(l)

\* One link of the loop. demote() goes through the layouts first.
ToBulk(l) ==
  /\ phase \in BulkPhases
  /\ step = "links"
  /\ l \in rest
  /\ Covered(l) \/ rest \cap layouts = {} \/ phase \notin DemotePhases
  /\ Covered(l) => IsSymlink(l)
  /\ rest' = rest \ {l}
  /\ link' = IF Covered(l) \/ ~LeftAlone(l) THEN [link EXCEPT ![l] = "bulk"] ELSE link
  /\ UNCHANGED <<mounted, listed, ssdVars, dbVars, phase, step, todo, cur, viewVars, halt, budget>>

\* atomic_retarget() raises: the link is no symlink any more, or the OS says no.
ToBulkRaises ==
  /\ phase \in BulkPhases
  /\ step = "links"
  /\ \E l \in rest :
       \/ Covered(l) /\ ~IsSymlink(l) /\ UNCHANGED budget
       \/ (Covered(l) \/ ~LeftAlone(l)) /\ Disturb("oserror")

\* remove_tree(): shutil.rmtree() unlinks the entries one by one.
UnlinkEntry ==
  /\ phase \in BulkPhases \ {"reconB"}
  /\ step = "links"
  /\ rest = {}
  /\ cur \in dir
  /\ \/ \E f \in copies \cap FilesOf(cur) :
          copies' = copies \ {f} /\ UNCHANGED <<partial, side, intent>>
     \/ \E f \in partial \cap FilesOf(cur) :
          partial' = partial \ {f} /\ UNCHANGED <<copies, side, intent>>
     \/ side[cur] # {} /\ side' = [side EXCEPT ![cur] = {}] /\ UNCHANGED <<copies, partial, intent>>
     \/ intent[cur] # "none" /\ intent' = [intent EXCEPT ![cur] = "none"]
                             /\ UNCHANGED <<copies, partial, side>>
  /\ UNCHANGED <<bulkVars, dir, dbVars, phase, workVars, viewVars, halt, budget>>

EmptyDir(t) ==
  /\ FilesOf(t) \cap (copies \cup partial) = {}
  /\ side[t] = {}
  /\ intent[t] = "none"

\* ... and the directory last. Startup pass B has no directory to remove.
RemoveDir ==
  /\ phase \in BulkPhases
  /\ step = "links"
  /\ rest = {}
  /\ phase = "reconB" \/ cur \notin dir \/ EmptyDir(cur)
  /\ step' = "remove"
  /\ dir' = IF phase = "reconB" THEN dir ELSE dir \ {cur}
  /\ UNCHANGED <<bulkVars, copies, partial, side, intent, dbVars, phase, todo, cur, rest,
                 viewVars, halt, budget>>

RemoveRaises ==
  /\ phase \in BulkPhases \ {"reconB"}
  /\ step = "links"
  /\ rest = {}
  /\ cur \in dir
  /\ Disturb("oserror")

-----------------------------------------------------------------------------
(* promote(): intent, copies, sidecar, publication.                        *)

\* An intent that is already there keeps its age.
BeginPromote(t) ==
  /\ Take(t, "copy", LayoutsOf(t))
  /\ dir' = dir \cup {t}
  /\ intent' = [intent EXCEPT ![t] = IF @ = "none" THEN "fresh" ELSE @]

\* safe_copy() opens the partial file, or resumes the one that is there.
BeginCopy(f) ==
  /\ step = "copy"
  /\ f \in Wanted(cur) \ copies
  /\ partial \cap Wanted(cur) = {}
  /\ mounted
  /\ partial' = partial \cup {f}
  /\ UNCHANGED <<bulkVars, dir, copies, side, intent, dbVars, phase, workVars, viewVars, halt, budget>>

\* The partial is complete, synced and renamed over the destination.
FinishCopy(f) ==
  /\ step = "copy"
  /\ f \in Wanted(cur) \cap partial
  /\ f \notin copies
  /\ mounted
  /\ partial' = partial \ {f}
  /\ copies' = copies \cup {f}
  /\ UNCHANGED <<bulkVars, dir, side, intent, dbVars, phase, workVars, viewVars, halt, budget>>

\* The source is gone (stat raises, the partial stays) or reading, writing or
\* the size check fails (the partial is discarded).
CopyRaises ==
  /\ step = "copy"
  /\ \/ ~mounted /\ UNCHANGED budget
     \/ Disturb("oserror")
  /\ partial' \in {partial, partial \ Wanted(cur)}

\* CopyInterrupted: the stop event is set, a file is still to copy.
CopyStopped ==
  /\ step = "copy"
  /\ halt
  /\ Wanted(cur) \ copies # {}

\* Mutant: links are published before the sidecar is written.
CopiesDoneNoMeta ==
  /\ step = "copy"
  /\ Wanted(cur) \subseteq copies
  /\ mounted
  /\ step' = "publish"
  /\ UNCHANGED <<bulkVars, ssdVars, dbVars, phase, todo, cur, rest, viewVars, halt, budget>>

\* Every destination is there with the size of its source.
CopiesDone ==
  /\ step = "copy"
  /\ Wanted(cur) \subseteq copies
  /\ mounted
  /\ step' = "meta"
  /\ UNCHANGED <<bulkVars, ssdVars, dbVars, phase, todo, cur, rest, viewVars, halt, budget>>

\* write_meta(): tmp + rename, whatever the sidecar said before.
WriteMeta ==
  /\ step = "meta"
  /\ side' = [side EXCEPT ![cur] = LayoutsOf(cur)]
  /\ dir' = dir \cup {cur}
  /\ step' = "clear"
  /\ UNCHANGED <<bulkVars, copies, partial, intent, dbVars, phase, todo, cur, rest, viewVars, halt, budget>>

ClearIntent ==
  /\ step = "clear"
  /\ intent' = [intent EXCEPT ![cur] = "none"]
  /\ step' = "publish"
  /\ UNCHANGED <<bulkVars, dir, copies, partial, side, dbVars, phase, todo, cur, rest, viewVars, halt, budget>>

MetaRaises == step \in {"meta", "clear"} /\ Disturb("oserror")

\* atomic_retarget() of one layout's link to its SSD destination.
Publish(l) ==
  /\ step = "publish"
  /\ l \in rest
  /\ IsSymlink(l)
  /\ link' = [link EXCEPT ![l] = "ssd"]
  /\ rest' = rest \ {l}
  /\ UNCHANGED <<mounted, listed, ssdVars, dbVars, phase, step, todo, cur, viewVars, halt, budget>>

PublishRaises ==
  /\ step = "publish"
  /\ \E l \in rest :
       \/ ~IsSymlink(l) /\ UNCHANGED budget
       \/ Disturb("publish")
=============================================================================
