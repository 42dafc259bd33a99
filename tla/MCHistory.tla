------------------------------ MODULE MCHistory ------------------------------
(***************************************************************************)
(* Eight polls with a window of six, buckets of three and full resolution  *)
(* for the last one: rows are thinned several times and leave the window.  *)
(***************************************************************************)
EXTENDS History

MCWindow  == 6
MCHorizon == MCWindow + 8
=============================================================================
