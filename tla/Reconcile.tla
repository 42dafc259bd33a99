------------------------------ MODULE Reconcile ------------------------------
(***************************************************************************)
(* Start of the daemon and startup reconciliation (run_daemon(),           *)
(* reconcile.py): pass A rebuilds tier rows and sidecars from what is on   *)
(* the SSD, pass B drops hot rows whose directory is gone.                 *)
(***************************************************************************)
EXTENDS Mover

Start ==
  /\ phase = "down"
  /\ BeginLoop("reconA", dir)
  /\ UNCHANGED <<bulkVars, ssdVars, dbVars, viewVars, halt, budget>>

-----------------------------------------------------------------------------
(* Pass A.                                                                 *)

\* No usable sidecar, payload, and a hot row with a mapping: write the sidecar.
ForwardMigrates(t) == side[t] = {} /\ HasPayload(t) /\ HotMap(t) # {}

\* Mutant: a row that says cold is believed.
RebuildsUnknown(t) == side[t] # {} /\ row[t] = "none"

\* A sidecar, and no hot row with a mapping: rebuild the row.
Rebuilds(t) == side[t] # {} /\ HotMap(t) = {}

ReconcileDir(t) ==
  /\ phase = "reconA"
  /\ t \in todo
  /\ todo' = todo \ {t}
  /\ side' = IF ForwardMigrates(t) THEN [side EXCEPT ![t] = map[t]] ELSE side
  /\ row' = IF Rebuilds(t) THEN [row EXCEPT ![t] = "hot"] ELSE row
  /\ map' = IF Rebuilds(t) THEN [map EXCEPT ![t] = side[t]] ELSE map
  /\ UNCHANGED <<bulkVars, dir, copies, partial, intent, phase, step, cur, rest,
                 viewVars, halt, budget>>

-----------------------------------------------------------------------------
(* Pass B.                                                                 *)

BeginPassB ==
  /\ phase = "reconA"
  /\ todo = {}
  /\ BeginLoop("reconB", HotTorrents \ dir)
  /\ UNCHANGED <<bulkVars, ssdVars, dbVars, viewVars, halt, budget>>

\* Mutant: the row is dropped and the links stay.
PickMissingRowOnly(t) ==
  /\ phase = "reconB"
  /\ BeginRetarget(t, {})
  /\ UNCHANGED <<bulkVars, ssdVars, dbVars, viewVars, halt, budget>>

\* Without a mapping there is nothing to retarget and the row just goes.
PickMissing(t) ==
  /\ phase = "reconB"
  /\ BeginRetarget(t, map[t])
  /\ UNCHANGED <<bulkVars, ssdVars, dbVars, viewVars, halt, budget>>

DropMissingRow ==
  /\ phase = "reconB"
  /\ step = "remove"
  /\ row' = [row EXCEPT ![cur] = "none"]
  /\ map' = [map EXCEPT ![cur] = {}]
  /\ NextTorrent
  /\ UNCHANGED <<bulkVars, ssdVars, viewVars, halt, budget>>

EndReconcile ==
  /\ phase = "reconB"
  /\ step = "pick"
  /\ todo = {}
  /\ EndTick
  /\ UNCHANGED <<bulkVars, ssdVars, dbVars, budget>>

\* Nothing catches an exception of reconcile_startup(): the process exits and
\* the container's restart policy starts it again.
ReconcileFails ==
  /\ phase = "reconB"
  /\ ToBulkRaises
  /\ ProcessDies
  /\ UNCHANGED <<bulkVars, ssdVars, dbVars>>
=============================================================================
