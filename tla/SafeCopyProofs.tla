---------------------------- MODULE SafeCopyProofs ----------------------------
(***************************************************************************)
(* SafeCopy implements AtomicCopy, for every set of versions of every size, *)
(* with or without a boot id, and for every number of faults.              *)
(***************************************************************************)
EXTENDS SafeCopy, TLAPS

\* The copy starts without files.
LEMMA InitInv == Init => CopyInv
<1> SUFFICES ASSUME Init PROVE CopyInv
  OBVIOUS
<1>1. TypeOK
  BY CopyAssumption DEF Init, TypeOK
<1>2. NotesTrue /\ SourceKnown /\ PublishesWhole
  BY DEF Init, NotesTrue, SourceKnown, PublishesWhole, BeforeOpen
<1> QED
  BY <1>1, <1>2 DEF CopyInv

\* The steps of safe_copy() itself.
LEMMA CopierInv == CopyInv /\ Copier => CopyInv'
<1> SUFFICES ASSUME CopyInv, Copier PROVE CopyInv'
  OBVIOUS
<1> USE CopyAssumption DEF CopyInv, TypeOK, NotesTrue, SourceKnown, PublishesWhole, BeforeOpen,
        Unseen, Content, Note, Atomic!Content, Atomic!Whole, sourceVars, copyVars
<1>1. CASE Begin
  BY <1>1 DEF Begin, Resumable
<1>2. CASE Discard
  BY <1>2 DEF Discard
<1>3. CASE WriteNote
  BY <1>3 DEF WriteNote
<1>4. CASE Open
  <2>1. TypeOK'
    BY <1>4 DEF Open
  <2>2. NotesTrue'
    BY <1>4 DEF Open
  <2>3. SourceKnown'
    BY <1>4 DEF Open
  <2>4. PublishesWhole'
    BY <1>4 DEF Open
  <2> QED
    BY <2>1, <2>2, <2>3, <2>4
<1>5. CASE ReadChunk
  <2>1. TypeOK'
    BY <1>5 DEF ReadChunk, Appended
  <2>2. NotesTrue'
    BY <1>5 DEF ReadChunk, Appended
  <2>3. SourceKnown'
    BY <1>5 DEF ReadChunk, Appended
  <2>4. PublishesWhole'
    BY <1>5 DEF ReadChunk, Appended
  <2> QED
    BY <2>1, <2>2, <2>3, <2>4
<1>6. CASE EndOfFile
  <2>1. TypeOK'
    BY <1>6 DEF EndOfFile, DropPartial
  <2>2. NotesTrue'
    BY <1>6 DEF EndOfFile, DropPartial
  <2>3. SourceKnown'
    BY <1>6 DEF EndOfFile, DropPartial
  <2>4. PublishesWhole'
    BY <1>6 DEF EndOfFile, DropPartial
  <2> QED
    BY <2>1, <2>2, <2>3, <2>4
<1>7. CASE Publish
  BY <1>7 DEF Publish
<1>8. CASE Cleanup
  BY <1>8 DEF Cleanup
<1> QED
  BY <1>1, <1>2, <1>3, <1>4, <1>5, <1>6, <1>7, <1>8 DEF Copier

\* Faults, and what others do to the files.
LEMMA EnvironmentInv == CopyInv /\ Environment => CopyInv'
<1> SUFFICES ASSUME CopyInv, Environment PROVE CopyInv'
  OBVIOUS
<1> USE CopyAssumption DEF CopyInv, TypeOK, NotesTrue, SourceKnown, PublishesWhole, BeforeOpen,
        Unseen, Content, Note, Atomic!Content, Atomic!Whole, sourceVars, copyVars
<1>1. CASE Stop
  BY <1>1 DEF Stop, Fault
<1>2. CASE CopyFails
  BY <1>2 DEF CopyFails, Fault, DropPartial
<1>3. CASE Kill
  BY <1>3 DEF Kill, Fault
<1>4. CASE Reboot
  BY <1>4 DEF Reboot, Fault
<1>5. CASE RemoveFile
  BY <1>5 DEF RemoveFile, Fault
<1>6. ASSUME NEW v \in Version, Replace(v) PROVE CopyInv'
  BY <1>6 DEF Replace, NewVersion
<1>7. ASSUME NEW v \in Version, Rewrite(v) PROVE CopyInv'
  <2>1. TypeOK'
    BY <1>7 DEF Rewrite, NewVersion
  <2>2. NotesTrue'
    BY <1>7 DEF Rewrite, NewVersion
  <2>3. SourceKnown'
    BY <1>7 DEF Rewrite, NewVersion
  <2>4. PublishesWhole'
    BY <1>7 DEF Rewrite, NewVersion
  <2> QED
    BY <2>1, <2>2, <2>3, <2>4
<1> QED
  BY <1>1, <1>2, <1>3, <1>4, <1>5, <1>6, <1>7 DEF Environment

\* Nothing has been read at the start.
LEMMA InitReads == Init => ReadsKept
BY DEF Init, ReadsKept

\* A step of the copy counts a chunk only where it appends it to the partial that
\* its note describes, and moves no partial but to the destination.
LEMMA CopierReads == CopyInv /\ ReadsKept /\ Copier => ReadsKept'
<1> SUFFICES ASSUME CopyInv, ReadsKept, Copier, HasBootId PROVE ReadsKept'
  BY DEF ReadsKept
<1> USE CopyAssumption DEF CopyInv, TypeOK, ReadsKept, Content, Note, Atomic!Content, sourceVars, copyVars
<1>1. CASE Begin
  BY <1>1 DEF Begin, Resumable, NotesTrue
<1>2. CASE Discard
  BY <1>2 DEF Discard
<1>3. CASE WriteNote
  BY <1>3 DEF WriteNote
<1>4. CASE Open
  BY <1>4 DEF Open
<1>5. CASE ReadChunk
  BY <1>5 DEF ReadChunk, Appended
<1>6. CASE EndOfFile
  BY <1>6 DEF EndOfFile, DropPartial
<1>7. CASE Publish
  BY <1>7 DEF Publish, Done
<1>8. CASE Cleanup
  BY <1>8 DEF Cleanup, Done
<1> QED
  BY <1>1, <1>2, <1>3, <1>4, <1>5, <1>6, <1>7, <1>8 DEF Copier

\* A stop or a kill leaves the partial for the next attempt; whatever takes a
\* partial or a destination away begins a new count, and so does a new version.
LEMMA EnvironmentReads == CopyInv /\ ReadsKept /\ Environment => ReadsKept'
<1> SUFFICES ASSUME CopyInv, ReadsKept, Environment, HasBootId PROVE ReadsKept'
  BY DEF ReadsKept
<1> USE CopyAssumption DEF CopyInv, TypeOK, ReadsKept, Content, Note, Atomic!Content, sourceVars, copyVars
<1>1. CASE Stop
  BY <1>1 DEF Stop, Fault, Resumable
<1>2. CASE CopyFails
  BY <1>2 DEF CopyFails, Fault, DropPartial
<1>3. CASE Kill
  BY <1>3 DEF Kill, Fault, Resumable, Done
<1>4. CASE Reboot
  BY <1>4 DEF Reboot, Fault
<1>5. CASE RemoveFile
  BY <1>5 DEF RemoveFile, Fault
<1>6. ASSUME NEW v \in Version, Replace(v) PROVE ReadsKept'
  BY <1>6 DEF Replace, NewVersion
<1>7. ASSUME NEW v \in Version, Rewrite(v) PROVE ReadsKept'
  BY <1>7 DEF Rewrite, NewVersion
<1> QED
  BY <1>1, <1>2, <1>3, <1>4, <1>5, <1>6, <1>7 DEF Environment

\* The inductive invariant holds in every reachable state: a note tells the truth
\* about its partial and nothing but a whole version is about to be published,
\* unless the source changed unseen (symlinks.py:60-155).
THEOREM CopyInvariant == Spec => []IndInv
<1>1. IndInv /\ [Next]_vars => IndInv'
  <2> SUFFICES ASSUME IndInv, [Next]_vars PROVE IndInv'
    OBVIOUS
  <2>1. CASE Copier
    BY <2>1, CopierInv, CopierReads DEF IndInv
  <2>2. CASE Environment
    BY <2>2, EnvironmentInv, EnvironmentReads DEF IndInv
  <2>3. CASE UNCHANGED vars
    <3> USE <2>3 DEF vars, IndInv, CopyInv, TypeOK, BeforeOpen
    <3>1. CopyInv'
      BY DEF NotesTrue, SourceKnown, PublishesWhole, Unseen, Content, Note, Atomic!Content,
             Atomic!Whole
    <3>2. ReadsKept'
      BY DEF ReadsKept, Done, Resumable
    <3> QED
      BY <3>1, <3>2
  <2> QED
    BY <2>1, <2>2, <2>3 DEF Next
<1> QED
  <2>1. Init => IndInv
    BY InitInv, InitReads DEF IndInv
  <2> QED
    BY <2>1, <1>1, PTL DEF Spec

\* A partial that a new attempt would resume is a prefix of what the source is
\* now, after every kill, reboot and change (symlinks.py:60-87).
THEOREM ResumesPrefix == Spec => []TrustedIsPrefix
<1>1. IndInv => TrustedIsPrefix
  BY DEF IndInv, CopyInv, NotesTrue, TrustedIsPrefix, Resumable
<1> QED
  BY <1>1, CopyInvariant, PTL

\* No chunk of a version is read twice in one boot, however often the copy is
\* stopped or killed and tried again (symlinks.py:60-87, 104-155).
THEOREM ReadsOnce == Spec => []ReadOnce
<1>1. IndInv => ReadOnce
  BY CopyAssumption DEF IndInv, CopyInv, TypeOK, ReadsKept, ReadOnce
<1> QED
  BY <1>1, CopyInvariant, PTL

\* Every step publishes a whole version, removes the destination, leaves it
\* alone, or follows an unseen change.
LEMMA StepAtomic == IndInv /\ IndInv' /\ [Next]_vars => [Atomic!Next]_<<versions, Unseen, dest>>
<1> SUFFICES ASSUME IndInv, IndInv', [Next]_vars
             PROVE  [Atomic!Next]_<<versions, Unseen, dest>>
  OBVIOUS
<1> USE DEF Atomic!Next, Atomic!Change, Atomic!Publish, Atomic!Remove
<1>1. versions \subseteq versions' /\ versions' \subseteq Version
  BY DEF IndInv, CopyInv, TypeOK, Next, Copier, Environment, Begin, Discard, WriteNote, Open, ReadChunk,
         EndOfFile, Publish, Cleanup, Stop, CopyFails, Kill, Reboot, RemoveFile, Replace, Rewrite,
         NewVersion, sourceVars, vars
<1>2. Unseen' \in BOOLEAN
  BY DEF Unseen
<1>3. CASE dest' = dest \/ dest' = NoFile
  BY <1>1, <1>2, <1>3
<1>4. CASE Publish
  <2>1. part \in Content /\ ident \in versions /\ dest' = part
    BY <1>4 DEF Publish, IndInv, CopyInv, TypeOK
  <2>2. CASE Unseen
    BY <1>1, <1>2, <2>1, <2>2 DEF Content
  <2>3. CASE part = Atomic!Whole(ident)
    BY <1>1, <1>2, <2>1, <2>3
  <2> QED
    BY <1>4, <2>2, <2>3 DEF Publish, IndInv, CopyInv, PublishesWhole
<1>5. Publish \/ dest' = dest \/ dest' = NoFile
  BY DEF Next, Copier, Environment, Begin, Discard, WriteNote, Open, ReadChunk, EndOfFile, Cleanup,
         Stop, CopyFails, Kill, Reboot, RemoveFile, Replace, Rewrite, vars
<1> QED
  BY <1>3, <1>4, <1>5

\* SafeCopy implements AtomicCopy: the destination is absent or one whole version
\* of the source, unless the source changed unseen (symlinks.py:104).
THEOREM CopyIsAtomic == Spec => AtomicSpec
<1>1. Init => Atomic!Init
  BY CopyAssumption DEF Init, Atomic!Init, Unseen
<1>2. [][Next]_vars /\ []IndInv => [][Atomic!Next]_<<versions, Unseen, dest>>
  BY StepAtomic, PTL
<1> QED
  BY <1>1, <1>2, CopyInvariant, PTL DEF Spec, AtomicSpec, Atomic!Spec
=============================================================================
