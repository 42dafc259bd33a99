----------------------------- MODULE MCSafeCopy -----------------------------
(***************************************************************************)
(* Three versions, the first of three chunks, the others of two: a change   *)
(* can keep the size, grow or shrink the file, or bring its size back.      *)
(***************************************************************************)
EXTENDS SafeCopy, TLC

CONSTANTS v1, v2, v3

MCSize == v1 :> 3 @@ v2 :> 2 @@ v3 :> 2
=============================================================================
