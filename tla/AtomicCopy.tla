------------------------------ MODULE AtomicCopy ------------------------------
(***************************************************************************)
(* What safe_copy() promises: the destination is absent or one whole       *)
(* version of the source. A source that is rewritten in place while it is  *)
(* read, so that its size does not give it away, is out of its reach.      *)
(***************************************************************************)
EXTENDS Integers

CONSTANTS
  Version,   \* versions of the source file
  Size,      \* their sizes, in chunks
  Mixed,     \* content that is no single version
  NoFile

VARIABLES
  versions,   \* versions the source has had
  unseen,     \* the source was changed under the copy, in a way its size hides
  dest

\* A content: the version it is a prefix of, and its length.
Content == [of : Version \cup {Mixed}, len : Nat]
Whole(v) == [of |-> v, len |-> Size[v]]

Init == versions \in SUBSET Version /\ unseen = FALSE /\ dest = NoFile

Change == dest' = dest

Publish ==
  \/ \E v \in versions : dest' = Whole(v)
  \/ unseen /\ dest' \in Content

Remove == dest' = NoFile

Next ==
  /\ versions \subseteq versions' /\ versions' \subseteq Version
  /\ unseen' \in BOOLEAN
  /\ Change \/ Publish \/ Remove

Spec == Init /\ [][Next]_<<versions, unseen, dest>>
=============================================================================
