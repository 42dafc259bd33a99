-------------------------------- MODULE World --------------------------------
(***************************************************************************)
(* What happens to the daemon from outside: crashes and stops, losses of   *)
(* durable state while it is down, and qBittorrent or the operator         *)
(* changing links.  Every event is one of the kinds in Faults.             *)
(***************************************************************************)
EXTENDS CacheState

-----------------------------------------------------------------------------
(* The process.                                                            *)

Crash ==
  /\ phase # "down"
  /\ Disturb("crash")
  /\ ProcessDies
  /\ UNCHANGED <<bulkVars, ssdVars, dbVars>>

\* The handlers are installed after reconciliation; before it SIGTERM kills.
RequestStop ==
  /\ phase \notin {"down", "reconA", "reconB"}
  /\ ~halt
  /\ Disturb("stop")
  /\ halt' = TRUE
  /\ UNCHANGED <<bulkVars, ssdVars, dbVars, phase, workVars, viewVars>>

\* The loop ends between two ticks.
Exit ==
  /\ phase = "idle"
  /\ halt
  /\ ProcessDies
  /\ UNCHANGED <<bulkVars, ssdVars, dbVars, budget>>

-----------------------------------------------------------------------------
(* Losses while the daemon is down.                                        *)

\* A link into the SSD whose mapping is in a hot row or a sidecar.
Known(l) == l \in HotMap(TorrentOf[l]) \cup side[TorrentOf[l]]
Unmapped == {l \in Link : link[l] = "ssd" /\ ~Known(l)}

\* Without "lastcopy" a loss leaves one of the two records of every mapping.
LeavesRecord == "lastcopy" \in Faults \/ Unmapped' \subseteq Unmapped

DownVars == <<bulkVars, phase, workVars, viewVars, halt>>

LoseDb ==
  /\ phase = "down"
  /\ Disturb("dbloss")
  /\ row' = [t \in Torrent |-> "none"]
  /\ map' = [t \in Torrent |-> {}]
  /\ UNCHANGED <<ssdVars, DownVars>>
  /\ LeavesRecord

LoseDir(t) ==
  /\ phase = "down"
  /\ t \in dir
  /\ Disturb("ssdloss")
  /\ dir' = dir \ {t}
  /\ copies' = copies \ FilesOf(t)
  /\ partial' = partial \ FilesOf(t)
  /\ side' = [side EXCEPT ![t] = {}]
  /\ intent' = [intent EXCEPT ![t] = "none"]
  /\ UNCHANGED <<dbVars, DownVars>>
  /\ LeavesRecord

LoseSidecar(t) ==
  /\ phase = "down"
  /\ side[t] # {}
  /\ Disturb("sideloss")
  /\ side' = [side EXCEPT ![t] = {}]
  /\ UNCHANGED <<dir, copies, partial, intent, dbVars, DownVars>>
  /\ LeavesRecord

LosePayload(f) ==
  /\ phase = "down"
  /\ f \in copies
  /\ Disturb("fileloss")
  /\ copies' = copies \ {f}
  /\ UNCHANGED <<dir, partial, side, intent, dbVars, DownVars>>

-----------------------------------------------------------------------------
(* qBittorrent, the import hook and the bulk filesystem.                   *)

Quiet == phase \in {"down", "idle"} \/ "midtick" \in Faults
ProgramVars == <<ssdVars, dbVars, phase, workVars, viewVars, halt>>

\* post-import.sh: rm the path and link it to the library file.
Import(l) ==
  /\ Quiet
  /\ mounted
  /\ l \notin listed \/ link[l] = "ssd"
  /\ Disturb("import")
  /\ link' = [link EXCEPT ![l] = "bulk"]
  /\ listed' = listed \cup {l}
  /\ UNCHANGED <<mounted, ProgramVars>>

\* An instance drops a torrent, with or without its files.
RemoveTorrent(t, i) ==
  LET entry == {l \in listed : TorrentOf[l] = t /\ InstanceOf[l] = i}
  IN /\ Quiet
     /\ mounted
     /\ entry # {}
     /\ Disturb("remove")
     /\ listed' = listed \ entry
     /\ \/ link' = [l \in Link |-> IF l \in entry THEN "none" ELSE link[l]]
        \/ UNCHANGED link
     /\ UNCHANGED <<mounted, ProgramVars>>

\* A torrent's save path changes: the link is renamed and still points into
\* the SSD, whose path is absolute.
Relocate(l, m) ==
  /\ Quiet
  /\ mounted
  /\ FileOf[l] = FileOf[m] /\ InstanceOf[l] = InstanceOf[m] /\ l # m
  /\ l \in listed /\ link[l] = "ssd"
  /\ m \notin listed /\ link[m] = "none"
  /\ Disturb("move")
  /\ link' = [link EXCEPT ![l] = "none", ![m] = "ssd"]
  /\ listed' = (listed \ {l}) \cup {m}
  /\ UNCHANGED <<mounted, ProgramVars>>

Unmount ==
  /\ mounted
  /\ Disturb("unmount")
  /\ mounted' = FALSE
  /\ UNCHANGED <<link, listed, ProgramVars>>

Mount ==
  /\ ~mounted
  /\ mounted' = TRUE
  /\ UNCHANGED <<link, listed, ProgramVars, budget>>

\* PROMOTION_RESUME_TTL_SEC passes.
IntentExpires(t) ==
  /\ intent[t] = "fresh"
  /\ intent' = [intent EXCEPT ![t] = "stale"]
  /\ UNCHANGED <<bulkVars, dir, copies, partial, side, dbVars, phase, workVars, viewVars, halt, budget>>
=============================================================================
