-------------------------------- MODULE History --------------------------------
(***************************************************************************)
(* The upload history of one torrent in one instance (state.py) and the    *)
(* score drawn from it (hotness.py). Series do not influence each other.   *)
(*                                                                         *)
(* A tick records the counter of the qBittorrent session, prunes the rows  *)
(* that left the window, thins the old ones once per maintenance interval  *)
(* and scores what is left. Beside the kept rows goes a ghost: all rows of *)
(* the window, as if they had never been thinned, each with the bytes      *)
(* really uploaded up to it.                                               *)
(***************************************************************************)
EXTENDS Integers, FiniteSetsExt, Functions

CONSTANTS
  Window,       \* window_days
  FullRes,      \* snapshot_full_resolution_hours; 0 disables thinning
  Bucket,       \* snapshot_bucket_minutes
  Interval,     \* DB_MAINTENANCE_INTERVAL_SEC
  Gains,        \* what may be uploaded between two polls
  MaxRestarts,  \* bound on the restarts of qBittorrent
  MaxTrouble,   \* bound on polls not answered, failed maintenance, new processes
  Horizon       \* bound on the time

ASSUME HistoryAssumption ==
  /\ Window \in Nat \ {0} /\ FullRes \in Nat /\ Bucket \in Nat \ {0} /\ Interval \in Nat
  /\ Gains \subseteq Nat /\ MaxRestarts \in Nat /\ MaxTrouble \in Nat /\ Horizon \in Nat

VARIABLES
  now,
  uploaded,     \* uploaded_session as qBittorrent reports it
  total,        \* ghost: what it really uploaded, ever
  restarts,     \* restarts of qBittorrent so far
  trouble,      \* troubles so far
  rows,         \* the snapshots table
  full,         \* ghost: the rows of the window, never thinned
  maintained,   \* last_db_maintenance_ts of this process
  thinned       \* ghost: rows older than this were thinned

vars == <<now, uploaded, total, restarts, trouble, rows, full, maintained, thinned>>

Row == [ts : Nat, up : Nat, total : Nat]

TypeOK ==
  /\ now \in Nat /\ uploaded \in Nat /\ total \in Nat /\ restarts \in 0..MaxRestarts
  /\ trouble \in 0..MaxTrouble
  /\ rows \subseteq full /\ full \subseteq Row
  /\ maintained \in 0..now /\ thinned \in Int

-----------------------------------------------------------------------------
(* Series: sets of rows, no two with the same time.                        *)

First(R) == CHOOSE r \in R : \A q \in R : r.ts <= q.ts
Last(R)  == CHOOSE r \in R : \A q \in R : q.ts <= r.ts
After(R, r)  == {q \in R : q.ts > r.ts}
Since(R, ts) == {r \in R : r.ts >= ts}
Between(R, p, q) == {r \in R : p.ts <= r.ts /\ r.ts <= q.ts}

\* Pairs of rows next to each other.
Steps(R) == {s \in R \X R : s[1].ts < s[2].ts /\ ~\E r \in R : s[1].ts < r.ts /\ r.ts < s[2].ts}

IsReset(s) == s[2].up < s[1].up

\* Mutant: a counter that stood still counts as reset.
GrowthStrict(s) == IF s[2].up <= s[1].up THEN s[2].up ELSE s[2].up - s[1].up

\* Bytes between two rows; after a reset the new value counts from zero.
Growth(s) == IF IsReset(s) THEN s[2].up ELSE s[2].up - s[1].up

\* score(): upload_bytes_in_window.
Score(R) == SumFunctionOnSet([s \in Steps(R) |-> Growth(s)], Steps(R))

\* Mutant: only the row before a reset is kept.
RowsToKeepBeforeReset(R) ==
  {r \in R : \/ r \in {First(R), Last(R)}
             \/ \E s \in Steps(R) : s[1] = r /\ (IsReset(s) \/ r.ts \div Bucket # s[2].ts \div Bucket)}

\* Mutant: the first row of a bucket is kept, not the last.
RowsToKeepFirstOfBucket(R) ==
  {r \in R : \/ r \in {First(R), Last(R)}
             \/ \E s \in Steps(R) : r \in {s[1], s[2]} /\ IsReset(s)
             \/ \E s \in Steps(R) : s[2] = r /\ s[1].ts \div Bucket # r.ts \div Bucket}

\* _thin(): the ends, both rows around a reset, the last row of a bucket.
RowsToKeep(R) ==
  {r \in R : \/ r \in {First(R), Last(R)}
             \/ \E s \in Steps(R) : r \in {s[1], s[2]} /\ IsReset(s)
             \/ \E s \in Steps(R) : s[1] = r /\ r.ts \div Bucket # s[2].ts \div Bucket}

\* Mutant: the rows of the last day are thinned, the old ones kept.
CompactRecent(R, before) == (R \ Since(R, before)) \cup RowsToKeep(Since(R, before))

\* compact_snapshots()
Compact(R, before) == Since(R, before) \cup RowsToKeep(R \ Since(R, before))

-----------------------------------------------------------------------------

\* What an answer of the instance says at this time.
Current == [ts |-> now, up |-> uploaded, total |-> total]

Init ==
  /\ now = Window /\ uploaded = 0 /\ total = 0 /\ restarts = 0 /\ trouble = 0
  /\ rows = {} /\ full = {}
  /\ maintained = 0 /\ thinned = 0

\* A poll interval passes and bytes are uploaded. What was uploaded between the
\* last poll and a restart is left out: it would only add to the total.
Seed ==
  \E g \in Gains :
    /\ now < Horizon
    /\ now' = now + 1
    /\ total' = total + g
    /\ \/ uploaded' = uploaded + g /\ UNCHANGED restarts
       \/ restarts < MaxRestarts /\ restarts' = restarts + 1 /\ uploaded' = g

\* prune()
Prune(R) == Since(R, now' - Window)

\* Maintenance, when due; when it fails it is not tried before the next time.
Maintain(R, works) ==
  LET due == now' - maintained >= Interval
      thins == due /\ works /\ FullRes > 0
  IN /\ maintained' = IF due THEN now' ELSE maintained
     /\ rows' = IF thins THEN Compact(R, now' - FullRes) ELSE R
     /\ thinned' = IF thins THEN now' - FullRes ELSE thinned

\* Steps 2 to 4 of a tick; without an answer of the instance nothing is recorded.
Tick(answered, works) ==
  /\ Seed
  /\ trouble' = trouble + (IF answered THEN 0 ELSE 1) + (IF works THEN 0 ELSE 1)
  /\ trouble' <= MaxTrouble
  /\ LET recorded == IF answered THEN {Current'} ELSE {}
     IN full' = Since(full \cup recorded, now' - Window) /\ Maintain(Prune(rows \cup recorded), works)

\* A new process does its maintenance in its first tick.
RestartDaemon ==
  /\ maintained # 0
  /\ trouble < MaxTrouble /\ trouble' = trouble + 1
  /\ maintained' = 0
  /\ UNCHANGED <<now, uploaded, total, restarts, rows, full, thinned>>

Next == (\E answered, works \in BOOLEAN : Tick(answered, works)) \/ RestartDaemon

Spec == Init /\ [][Next]_vars

-----------------------------------------------------------------------------
(* Properties.                                                             *)

\* However often the series is thinned, with an ever later border and resets
\* on either side of it, the bytes between neighbouring kept rows, hence between
\* any two of them, are exactly those of the full history (state.py:136).
SumsExact == \A s \in Steps(rows) : Growth(s) = Score(Between(full, s[1], s[2]))

\* Rows are told apart by their times, which lie in the past, and the last row
\* recorded is never thinned away.
Ordered ==
  /\ IsFiniteSet(full)
  /\ \A p, q \in full : p.ts = q.ts => p = q
  /\ \A r \in full : r.ts <= now
  /\ full # {} => Last(full) \in rows
  /\ thinned <= now

\* The growth between two polls was uploaded between them, and so was what the
\* next poll would find.
Covered ==
  /\ \A s \in Steps(full) : Growth(s) <= s[2].total - s[1].total
  /\ full # {} => Growth(<<Last(full), Current>>) <= total - Last(full).total

\* Some row that was kept follows each row of the window in its bucket.
Dense == \A r \in full : \E k \in rows : r.ts <= k.ts /\ r.ts \div Bucket = k.ts \div Bucket

\* An old row that was kept is the first of all, or the last of its bucket, or
\* next to a reset.
Thinned ==
  \A r \in rows \ Since(rows, thinned) :
    \/ r = First(rows)
    \/ \A q \in rows \ Since(rows, thinned) : r.ts < q.ts => r.ts \div Bucket # q.ts \div Bucket
    \/ \E s \in Steps(rows) : r \in {s[1], s[2]} /\ IsReset(s)

\* Thinning and pruning keep the sums (state.py:139): with what that rests on,
\* inductive.
SumsInv == TypeOK /\ Ordered /\ SumsExact /\ Covered /\ Dense /\ Thinned

\* The score is that of the full history but for the edge of the window: what
\* is missing was uploaded before the first kept row, which lies in the bucket
\* of the first row of the window (docs/architecture.md:141).
EdgeWithinBucket ==
  full # {} =>
    /\ rows # {}
    /\ First(rows).ts \div Bucket = First(full).ts \div Bucket
    /\ Score(rows) = Score(full) - Score(Between(full, First(full), First(rows)))

\* The score never claims more than was really uploaded between the first and
\* the last row it looks at, whatever restarts happened between two polls.
NeverOverstates ==
  rows # {} => Score(rows) <= Last(rows).total - First(rows).total

\* The thinned part of the history stays small for ever: one row per bucket, two
\* per reset, and the row the window begins with.
HistoryBounded ==
  LET old == rows \ Since(rows, thinned)
  IN Cardinality(old) <= Cardinality({r.ts \div Bucket : r \in old})
                         + 2 * Cardinality({s \in Steps(rows) : IsReset(s)}) + 1
=============================================================================
