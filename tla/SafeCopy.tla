------------------------------- MODULE SafeCopy -------------------------------
(***************************************************************************)
(* Copying one file of a promotion to the SSD (symlinks.py, mover.py), with *)
(* a partial that is resumed after a stop or a kill. The file is read chunk *)
(* by chunk while others may replace it (rename) or rewrite it in place;    *)
(* every version has its own modification time. Files are what the page     *)
(* cache shows; a reboot may lose what was not synced.                      *)
(***************************************************************************)
EXTENDS Integers

CONSTANTS
  Version, Size, Mixed, NoFile,   \* see AtomicCopy
  HasBootId,                      \* current_boot_id() is available
  MaxEvents                       \* bound on the number of faults

ASSUME CopyAssumption ==
  /\ Size \in [Version -> Nat \ {0}]
  /\ Mixed \notin Version
  /\ NoFile \notin [of : Version \cup {Mixed}, len : Nat]
  /\ NoFile \notin [version : Version, boot : Nat]
  /\ MaxEvents \in Nat
ASSUME BootIdAssumption == HasBootId \in BOOLEAN

VARIABLES
  src,        \* version now at the path of the source
  versions,   \* versions that were there
  pc,         \* where safe_copy() is
  ident,      \* version it found at its start
  reading,    \* version behind its file descriptor
  part,       \* the .qbsc-partial file
  meta,       \* its .json: version and boot
  dest,
  boot,
  changes,    \* ghost: changes of what is read since the start
  reads,      \* ghost: chunks read of this version in this boot
  budget

copyVars == <<pc, ident, reading, changes>>
sourceVars == <<src, versions>>
vars == <<src, versions, pc, ident, reading, part, meta, dest, boot, changes, reads, budget>>

Unseen == changes > 1 \/ (changes = 1 /\ Size[reading] = Size[ident])

Atomic == INSTANCE AtomicCopy WITH unseen <- Unseen

Content == Atomic!Content
Note == [version : Version, boot : Nat]

TypeOK ==
  /\ src \in Version /\ versions \subseteq Version /\ src \in versions
  /\ pc \in {"idle", "discard", "note", "open", "read", "publish", "cleanup"}
  /\ ident \in versions /\ reading \in versions
  /\ part \in Content \cup {NoFile}
  /\ meta \in Note \cup {NoFile}
  /\ dest \in Content \cup {NoFile}
  /\ pc \in {"read", "publish"} => part # NoFile
  /\ boot \in Nat /\ changes \in Nat /\ reads \in Nat /\ budget \in Nat

Init ==
  /\ src \in Version /\ versions = {src}
  /\ pc = "idle" /\ ident = src /\ reading = src
  /\ part = NoFile /\ meta = NoFile /\ dest = NoFile
  /\ boot = 0 /\ changes = 0 /\ reads = 0 /\ budget = MaxEvents

-----------------------------------------------------------------------------
(* safe_copy().                                                            *)

\* Mutant: any destination counts as done.
DoneIfThere == dest # NoFile

\* promote() skips a destination of the size of its source.
Done == dest # NoFile /\ dest.len = Size[src]

\* Mutant: the boot is not compared.
ResumableInAnyBoot == part # NoFile /\ meta # NoFile /\ meta.version = src /\ part.len > 0 /\ part.len <= Size[src]

\* _resume_offset()
Resumable ==
  /\ HasBootId
  /\ part # NoFile /\ meta # NoFile
  /\ meta.version = src /\ meta.boot = boot
  /\ part.len > 0 /\ part.len <= Size[src]

Begin ==
  /\ pc = "idle" /\ ~Done
  /\ ident' = src /\ changes' = 0
  /\ pc' = IF Resumable THEN "open" ELSE "discard"
  /\ UNCHANGED <<sourceVars, reading, part, meta, dest, boot, reads, budget>>

Discard ==
  /\ pc = "discard"
  /\ part' = NoFile
  /\ pc' = "note"
  /\ UNCHANGED <<sourceVars, ident, reading, changes, meta, dest, boot, reads, budget>>

WriteNote ==
  /\ pc = "note"
  /\ meta' = IF HasBootId THEN [version |-> ident, boot |-> boot] ELSE NoFile
  /\ pc' = "open"
  /\ UNCHANGED <<sourceVars, ident, reading, changes, part, dest, boot, reads, budget>>

\* A new partial is empty; one that is resumed is continued at its end.
Open ==
  /\ pc = "open"
  /\ reading' = src
  /\ part' = IF part = NoFile THEN [of |-> src, len |-> 0] ELSE part
  /\ pc' = "read"
  /\ UNCHANGED <<sourceVars, ident, changes, meta, dest, boot, reads, budget>>

Appended ==
  [of  |-> IF part.len = 0 \/ part.of = reading THEN reading ELSE Mixed,
   len |-> part.len + 1]

ReadChunk ==
  /\ pc = "read" /\ part.len < Size[reading]
  /\ part' = Appended
  /\ reads' = IF ident = src /\ reading = src THEN reads + 1 ELSE reads
  /\ UNCHANGED <<sourceVars, copyVars, meta, dest, boot, budget>>

DropPartial == part' = NoFile /\ meta' = NoFile /\ pc' = "idle" /\ reads' = 0

\* Mutant: the end of the file is taken for the end of the copy.
EndOfFileUnchecked ==
  /\ pc = "read" /\ part.len >= Size[reading]
  /\ pc' = "publish"
  /\ UNCHANGED <<sourceVars, ident, reading, changes, part, meta, dest, boot, reads, budget>>

\* Mutant: the partial is dropped, but nothing raised.
EndOfFileNoRaise ==
  /\ pc = "read" /\ part.len >= Size[reading]
  /\ pc' = "publish"
  /\ IF part.len = Size[ident] THEN UNCHANGED <<part, meta>> ELSE part' = NoFile /\ meta' = NoFile
  /\ UNCHANGED <<sourceVars, ident, reading, changes, dest, boot, reads, budget>>

\* fsync(), then the comparison with the size found at the start.
EndOfFile ==
  /\ pc = "read" /\ part.len >= Size[reading]
  /\ \/ part.len = Size[ident] /\ pc' = "publish" /\ UNCHANGED <<part, meta, reads>>
     \/ part.len # Size[ident] /\ DropPartial
  /\ UNCHANGED <<sourceVars, ident, reading, changes, dest, boot, budget>>

Publish ==
  /\ pc = "publish"
  /\ dest' = part /\ part' = NoFile
  /\ pc' = "cleanup"
  /\ UNCHANGED <<sourceVars, ident, reading, changes, meta, boot, reads, budget>>

Cleanup ==
  /\ pc = "cleanup"
  /\ meta' = NoFile
  /\ pc' = "idle"
  /\ UNCHANGED <<sourceVars, ident, reading, changes, part, dest, boot, reads, budget>>

-----------------------------------------------------------------------------
(* Stops, errors, kills, reboots, and what others do to the files.         *)

Fault == budget > 0 /\ budget' = budget - 1

\* Mutant: a stop is an error like any other.
StopDiscards ==
  /\ pc = "read" /\ Fault
  /\ part' = NoFile /\ meta' = NoFile /\ pc' = "idle"
  /\ UNCHANGED <<sourceVars, ident, reading, changes, dest, boot, reads>>

\* SIGTERM, seen between two chunks.
Stop ==
  /\ pc = "read" /\ Fault
  /\ pc' = "idle"
  /\ UNCHANGED <<sourceVars, ident, reading, changes, part, meta, dest, boot, reads>>

CopyFails ==
  /\ pc \in {"open", "read", "publish"} /\ Fault
  /\ DropPartial
  /\ UNCHANGED <<sourceVars, ident, reading, changes, dest, boot>>

\* A kill, or an error outside the try; the note may be half written.
Kill ==
  /\ pc # "idle" /\ Fault
  /\ pc' = "idle"
  /\ meta' \in IF pc = "note" THEN {meta, NoFile} ELSE {meta}
  /\ UNCHANGED <<sourceVars, ident, reading, changes, part, dest, boot, reads>>

\* Of the partial any part may have reached the disk, or blocks without their
\* data; renames and new files may be lost.
Reboot ==
  /\ Fault
  /\ boot' = boot + 1
  /\ pc' = "idle" /\ reads' = 0
  /\ part' \in {part, NoFile} \cup
               (IF part = NoFile THEN {}
                ELSE {[of |-> o, len |-> n] : o \in {part.of, Mixed}, n \in 0..part.len})
  /\ meta' \in {meta, NoFile}
  /\ dest' \in {dest, NoFile}
  /\ UNCHANGED <<sourceVars, ident, reading, changes>>

\* Between two attempts: a reclaim or a demotion, whole or interrupted.
RemoveFile ==
  /\ pc = "idle" /\ Fault
  /\ \/ part' = NoFile /\ UNCHANGED <<meta, dest>>
     \/ meta' = NoFile /\ UNCHANGED <<part, dest>>
     \/ dest' = NoFile /\ UNCHANGED <<part, meta>>
  /\ reads' = 0
  /\ UNCHANGED <<sourceVars, copyVars, boot>>

NewVersion(v) ==
  /\ v \in Version \ versions
  /\ src' = v /\ versions' = versions \cup {v}
  /\ reads' = 0

BeforeOpen == pc \in {"discard", "note", "open"}

\* Another file takes the name; the old one stays behind its descriptor.
Replace(v) ==
  /\ NewVersion(v)
  /\ changes' = IF BeforeOpen THEN changes + 1 ELSE changes
  /\ UNCHANGED <<pc, ident, reading, part, meta, dest, boot, budget>>

\* The file is rewritten in place, under whoever reads it.
Rewrite(v) ==
  /\ NewVersion(v)
  /\ reading' = IF pc = "read" /\ reading = src THEN v ELSE reading
  /\ changes' = IF BeforeOpen \/ (pc = "read" /\ reading = src) THEN changes + 1 ELSE changes
  /\ UNCHANGED <<pc, ident, part, meta, dest, boot, budget>>

Copier ==
  \/ Begin \/ Discard \/ WriteNote \/ Open \/ ReadChunk \/ EndOfFile \/ Publish \/ Cleanup

Environment ==
  \/ Stop \/ CopyFails \/ Kill \/ Reboot \/ RemoveFile
  \/ \E v \in Version : Replace(v) \/ Rewrite(v)

Next == Copier \/ Environment

\* The promotion is tried again as long as the torrent is wanted.
Spec == Init /\ [][Next]_vars /\ WF_vars(Copier)

-----------------------------------------------------------------------------
(* Properties.                                                             *)

\* The destination is absent or one whole version of the source, through stops,
\* kills, reboots that lose the tail of the partial, and changes of the source
\* (symlinks.py:104), unless the source changed more than once in one copy, or
\* once without changing its size.
AtomicSpec == Atomic!Spec

\* What a note says of the partial beside it.
NotesTrue ==
  /\ meta # NoFile => meta.version \in versions /\ meta.boot <= boot
  /\ meta # NoFile /\ pc \in {"open", "read"} => meta = [version |-> ident, boot |-> boot]
  /\ (meta # NoFile /\ meta.version = src /\ meta.boot = boot /\ part # NoFile) => part.of = src
  /\ pc = "note" => part = NoFile

\* What the copy knows of the file it reads.
SourceKnown ==
  /\ changes = 0 /\ BeforeOpen => src = ident
  /\ pc = "open" /\ part # NoFile => part.of = ident /\ part.len <= Size[ident]
  /\ pc = "read" /\ src = ident => reading = src
  /\ pc = "read" /\ changes = 0 => reading = ident /\ part.of = ident
  /\ (pc = "read" /\ changes <= 1 /\ part.len > Size[reading])
       => part.of = ident /\ part.len <= Size[ident]

\* What is about to be published.
PublishesWhole == pc = "publish" => Unseen \/ part = Atomic!Whole(ident)

\* What has been read of this version in this boot is in a partial that the next
\* attempt resumes, in the one being written, or in the destination.
ReadsKept ==
  HasBootId =>
    /\ pc \in {"open", "read", "publish"} => meta = [version |-> ident, boot |-> boot]
    /\ reads > 0 =>
         /\ reads <= Size[src]
         /\ pc \notin {"discard", "note"}
         /\ pc = "idle" => Done \/ (Resumable /\ reads <= part.len)
         /\ pc \in {"open", "read", "publish"} =>
              ident = src /\ part # NoFile /\ reads <= part.len /\ part.len <= Size[src]
         /\ pc = "read" => reading = src
         /\ pc = "publish" => part.len = Size[src]
         /\ pc = "cleanup" => Done

\* What AtomicSpec needs: through every fault a note tells the truth about its
\* partial, and what is published was read from one version unless the source
\* changed unseen.
CopyInv == TypeOK /\ NotesTrue /\ SourceKnown /\ PublishesWhole

\* The inductive invariant behind AtomicSpec and ReadOnce.
IndInv == CopyInv /\ ReadsKept

\* A partial that would be resumed is a prefix of what the source is now.
TrustedIsPrefix == Resumable => part.of = src

\* No chunk of a version is read twice in one boot, however often the copy is
\* stopped or killed, unless an error or a removal took the partial away.
ReadOnce == HasBootId => reads <= Size[src]

\* Once the faults end the copy is there, with the size of the source.
Completes == <>[](dest # NoFile /\ dest.len = Size[src])
=============================================================================
