------------------------------ MODULE LinkLedger ------------------------------
(***************************************************************************)
(* What the cache promises about one set of links, without saying how: a   *)
(* ledger records where the bulk file of a link is, a store holds copies,  *)
(* and a link leads into the store only while both can bring it back.      *)
(* The promise binds the daemon while it is up; what happens to the store  *)
(* and the ledger while it is down is not its doing.                       *)
(***************************************************************************)
CONSTANTS Link, File, FileOf

VARIABLES
  up,                  \* the daemon runs
  where,               \* [Link -> {"none", "bulk", "ssd"}]
  recorded,            \* links whose bulk file is known
  stored               \* files with a whole copy

lvars == <<up, where, recorded, stored>>

InStore == {l \in Link : where[l] = "ssd"}

LedgerInit ==
  /\ up = FALSE
  /\ where \in [Link -> {"none", "bulk"}]
  /\ recorded = {}
  /\ stored = {}

Up == ~up /\ up' = TRUE /\ UNCHANGED <<where, recorded, stored>>

\* The ledger is rewritten, keeping the entry of every link that needs it.
Record ==
  /\ up
  /\ recorded' \in SUBSET Link
  /\ recorded \cap InStore \subseteq recorded'
  /\ UNCHANGED <<up, where, stored>>

StoreCopy(f) == up /\ stored' = stored \cup {f} /\ UNCHANGED <<up, where, recorded>>

\* A copy goes only when no recorded link leads to it.
DropCopy(f) ==
  /\ up
  /\ \A l \in InStore \cap recorded : FileOf[l] # f
  /\ stored' = stored \ {f}
  /\ UNCHANGED <<up, where, recorded>>

LeadIn(l) ==
  /\ up
  /\ l \in recorded
  /\ FileOf[l] \in stored
  /\ where' = [where EXCEPT ![l] = "ssd"]
  /\ UNCHANGED <<up, recorded, stored>>

LeadOut(l) ==
  /\ up
  /\ where[l] # "none"
  /\ where' = [where EXCEPT ![l] = "bulk"]
  /\ UNCHANGED <<up, recorded, stored>>

\* The owner of the links creates and removes them at any time.
Owner ==
  /\ where' \in [Link -> {"none", "bulk", "ssd"}]
  /\ \A l \in Link : where'[l] = "ssd" => where[l] = "ssd"
  /\ UNCHANGED <<up, recorded, stored>>

Down == up /\ up' = FALSE /\ UNCHANGED <<where, recorded, stored>>

\* While the daemon is down copies and entries are lost.
Loss ==
  /\ ~up
  /\ recorded' \in SUBSET recorded
  /\ stored' \in SUBSET stored
  /\ UNCHANGED <<up, where>>

LedgerNext ==
  \/ Up
  \/ Record
  \/ \E f \in File : StoreCopy(f) \/ DropCopy(f)
  \/ \E l \in Link : LeadIn(l) \/ LeadOut(l)
  \/ Owner
  \/ Down
  \/ Loss

LedgerSpec == LedgerInit /\ [][LedgerNext]_lvars
=============================================================================
