------------------------------- MODULE Heartbeat -------------------------------
(***************************************************************************)
(* Is the daemon alive?  It leaves a heartbeat with a deadline on the SSD   *)
(* (daemon.py, recovery.py), the container's health check compares it with  *)
(* the clock (healthcheck.py), and a watcher restarts a container that      *)
(* fails the check too often.                                               *)
(*                                                                         *)
(* There is no clock: a heartbeat has an age, a stage a duration so far,    *)
(* and when time passes they grow, up to where nothing depends on more.     *)
(* What a stage does is modelled elsewhere, here it takes time.             *)
(***************************************************************************)
EXTENDS Naturals

CONSTANTS
  PollInterval,     \* poll_interval_sec
  Slack,            \* the 600 s of the deadline
  BeatEvery,        \* _PROGRESS_BEAT_SEC
  MaxPromotions,    \* max_concurrent_promotions
  ReconcileTime,    \* the longest reconciliation,
  WorkTime,         \* steps 1 to 8 of a tick,
  ChunkTime,        \* one read and write of a copy,
  SettleTime,       \* what a promotion does before, between and after its copies
  CheckEvery, Retries, StartPeriod,   \* HEALTHCHECK of the Dockerfile
  StopTimeout,      \* the container runtime's patience with a stop
  NoBeat, NotAsked,
  Faults, MaxEvents

Grace == 3 * PollInterval + Slack

\* What a promotion may add to the age of a heartbeat.
Lap == (BeatEvery - 1) + SettleTime + ChunkTime

ASSUME TimeAssumption ==
  /\ {PollInterval, BeatEvery, MaxPromotions, CheckEvery, Retries, StopTimeout} \subseteq Nat \ {0}
  /\ {Slack, ReconcileTime, WorkTime, ChunkTime, SettleTime, StartPeriod,
      MaxEvents} \subseteq Nat
  /\ NoBeat \notin Nat /\ NotAsked \notin Nat
  /\ Faults \subseteq {"hang", "error", "beat", "crash", "stop"}

\* "The deadline leaves room for a few slow ticks" (daemon.py:114): for the
\* slowest one with its promotions, or one that fails where the last of them is
\* booked and the wait after it.
ASSUME GraceSuffices ==
  /\ WorkTime + MaxPromotions * Lap <= Grace
  /\ WorkTime + MaxPromotions * Lap + PollInterval <= Grace + ChunkTime

\* A copy notices a stop between two chunks, "so shutdown completes within
\* Docker's stop timeout" (daemon.py:100).
ASSUME StopSuffices == ChunkTime < StopTimeout /\ SettleTime < StopTimeout

\* Failed health checks of a process that starts that are not counted for sure.
Forgiven == IF CheckEvery < StartPeriod THEN 1 ELSE 0

\* Reconciliation, which copies nothing, is over before the checks that find
\* the heartbeat of an earlier process make it unhealthy (Dockerfile:38).
ASSUME StartSuffices == ReconcileTime < (Retries + Forgiven) * CheckEvery

VARIABLES
  age,        \* of the heartbeat on the SSD; NoBeat: there is none
  stage,      \* "down", "reconcile", "work", "settle", "chunk", "wait"
  elapsed,    \* time this stage has taken
  hung,       \* it is in a call that does not return
  sinceBeat,  \* since the last_beat of _copy_progress()
  todo,       \* promotions of this tick, the present one included
  stopping,   \* time since a stop was asked for
  uptime, nextCheck, streak,   \* of the container: age, health checks
  stuck,      \* ghost: hung, or failed to write a beat, since the last beat
  inCopy,     \* ghost: the stop was asked for in a promotion
  budget

healthVars == <<uptime, nextCheck, streak>>
copyVars == <<sinceBeat, todo>>
stopVars == <<stopping, inCopy>>
vars == <<age, stage, elapsed, hung, copyVars, stopVars, healthVars, stuck, budget>>

Copying == stage \in {"settle", "chunk"}
Longest == [down |-> 0, reconcile |-> ReconcileTime, work |-> WorkTime, settle |-> SettleTime,
            chunk |-> ChunkTime, wait |-> PollInterval]

CountsOK ==
  /\ age \in 0..(Grace + 1) \cup {NoBeat}
  /\ elapsed \in Nat
  /\ sinceBeat \in 0..Lap /\ todo \in 0..MaxPromotions
  /\ stopping \in 0..StopTimeout \cup {NotAsked}
  /\ uptime \in 0..StartPeriod /\ nextCheck \in 0..CheckEvery /\ streak \in 0..Retries
  /\ budget \in 0..MaxEvents

FlagsOK ==
  /\ stage \in {"down", "reconcile", "work", "settle", "chunk", "wait"}
  /\ hung \in BOOLEAN /\ stuck \in BOOLEAN /\ inCopy \in BOOLEAN

TypeOK == CountsOK /\ FlagsOK

Init ==
  /\ age = NoBeat
  /\ stage = "down" /\ elapsed = 0 /\ hung = FALSE
  /\ sinceBeat = 0 /\ todo = 0
  /\ stopping = NotAsked /\ inCopy = FALSE
  /\ uptime = 0 /\ nextCheck = CheckEvery /\ streak = 0
  /\ stuck = FALSE
  /\ budget = MaxEvents

Disturb(kind) == kind \in Faults /\ budget > 0 /\ budget' = budget - 1

-----------------------------------------------------------------------------
(* The daemon.                                                             *)

Enter(s) == stage' = s /\ elapsed' = 0
Running(s) == stage = s /\ ~hung

\* write_heartbeat() never raises.
Written == age' = 0 /\ UNCHANGED budget
Unwritten == Disturb("beat") /\ UNCHANGED age

Beat == (Written /\ stuck' = FALSE) \/ (Unwritten /\ stuck' = TRUE)

NoBeatNow == UNCHANGED <<age, stuck, budget>>

Start ==
  /\ stage = "down"
  /\ Enter("reconcile")
  /\ uptime' = 0 /\ nextCheck' = CheckEvery /\ streak' = 0
  /\ NoBeatNow
  /\ UNCHANGED <<hung, copyVars, stopVars>>

\* The process ends, whatever it was at; the heartbeat stays on the SSD.
Down ==
  /\ Enter("down")
  /\ hung' = FALSE /\ stuck' = FALSE
  /\ sinceBeat' = 0 /\ todo' = 0
  /\ stopping' = NotAsked /\ inCopy' = FALSE
  /\ uptime' = 0 /\ nextCheck' = CheckEvery /\ streak' = 0

\* The beat behind reconcile_startup() and that of the first tick, at once.
EndReconcile ==
  /\ Running("reconcile")
  /\ Enter("work")
  /\ Beat
  /\ UNCHANGED <<hung, copyVars, stopVars, healthVars>>

\* run_daemon() ends with the tick when it was asked to stop.
AfterTick ==
  IF stopping # NotAsked
  THEN Down
  ELSE Enter("wait") /\ sinceBeat' = 0 /\ todo' = 0 /\ UNCHANGED <<hung, stopVars, healthVars, stuck>>

BeginTick ==
  /\ Running("wait") /\ elapsed = PollInterval
  /\ Enter("work")
  /\ Beat
  /\ UNCHANGED <<hung, copyVars, stopVars, healthVars>>

\* The final beat; with promotions suspended it comes early.
BeatAndEnd ==
  IF stopping # NotAsked
  THEN Down /\ (Written \/ Unwritten)
  ELSE /\ Beat
       /\ Enter("wait") /\ sinceBeat' = 0 /\ todo' = 0
       /\ UNCHANGED <<hung, stopVars, healthVars>>

NothingToPromote == Running("work") /\ BeatAndEnd

\* The loop looks for a stop before each promotion.
BeginPromotions ==
  /\ Running("work") /\ stopping = NotAsked
  /\ todo' \in 1..MaxPromotions
  /\ Enter("settle") /\ sinceBeat' = 0
  /\ NoBeatNow
  /\ UNCHANGED <<hung, stopVars, healthVars>>

\* What is not caught in the loops ends the tick without its last beat.
TickFails ==
  /\ Running("work") \/ Running("settle")
  /\ Disturb("error")
  /\ AfterTick
  /\ UNCHANGED age

\* A file has to be copied: safe_copy() looks for a stop first.
BeginCopy ==
  /\ Running("settle") /\ stopping = NotAsked
  /\ Enter("chunk")
  /\ NoBeatNow
  /\ UNCHANGED <<hung, copyVars, stopVars, healthVars>>

\* Mutant: a copy does not beat.
ProgressNever == NoBeatNow /\ UNCHANGED sinceBeat

\* on_progress()
Progress ==
  IF sinceBeat >= BeatEvery THEN Beat /\ sinceBeat' = 0
                            ELSE NoBeatNow /\ UNCHANGED sinceBeat

\* Mutant: a stop is not looked for between chunks.
NextChunkAnyway ==
  /\ Running("chunk")
  /\ Progress
  /\ Enter("chunk") \/ Enter("settle")
  /\ UNCHANGED <<hung, todo, stopVars, healthVars>>

\* One chunk further, or the end of the file.
NextChunk ==
  /\ Running("chunk") /\ stopping = NotAsked
  /\ Progress
  /\ Enter("chunk") \/ Enter("settle")
  /\ UNCHANGED <<hung, todo, stopVars, healthVars>>

\* CopyInterrupted leaves the loop of promotions.
Interrupted == (Running("chunk") \/ Running("settle")) /\ stopping # NotAsked /\ BeatAndEnd

\* Mutant: the loop goes one too far.
NextPromotionPast ==
  /\ stopping = NotAsked
  /\ todo' = todo - 1
  /\ Enter("settle") /\ sinceBeat' = 0
  /\ NoBeatNow
  /\ UNCHANGED <<hung, stopVars, healthVars>>

\* Whether the promotion succeeded makes no difference here.
NextPromotion ==
  IF todo = 1
  THEN BeatAndEnd
  ELSE /\ stopping = NotAsked
       /\ todo' = todo - 1
       /\ Enter("settle") /\ sinceBeat' = 0
       /\ NoBeatNow
       /\ UNCHANGED <<hung, stopVars, healthVars>>

PromotionEnds == (Running("settle") \/ Running("chunk")) /\ NextPromotion

-----------------------------------------------------------------------------
(* Time, and what goes wrong in it.                                        *)

Capped(n, cap) == IF n < cap THEN n + 1 ELSE n

\* No stage that goes on takes longer than its longest time.
Pass ==
  /\ nextCheck > 0
  /\ stage = "down" \/ hung \/ elapsed < Longest[stage]
  /\ stopping # StopTimeout
  /\ age' = IF age = NoBeat THEN NoBeat ELSE Capped(age, Grace + 1)
  /\ elapsed' = IF stage = "down" \/ hung THEN elapsed ELSE elapsed + 1
  /\ sinceBeat' = IF Copying THEN Capped(sinceBeat, Lap) ELSE sinceBeat
  /\ stopping' = IF stopping = NotAsked THEN NotAsked ELSE stopping + 1
  /\ uptime' = IF stage = "down" THEN uptime ELSE Capped(uptime, StartPeriod)
  /\ nextCheck' = IF stage = "down" THEN nextCheck ELSE nextCheck - 1
  /\ UNCHANGED <<stage, hung, todo, streak, stuck, inCopy, budget>>

Hang ==
  /\ ~hung /\ stage \notin {"down", "wait"}
  /\ Disturb("hang")
  /\ hung' = TRUE /\ stuck' = TRUE
  /\ UNCHANGED <<age, stage, elapsed, copyVars, stopVars, healthVars, inCopy>>

Resume ==
  /\ hung
  /\ hung' = FALSE
  /\ UNCHANGED <<age, stage, elapsed, copyVars, stopVars, healthVars, stuck, budget>>

\* A kill, or an exception in reconciliation.
Crash == stage # "down" /\ Disturb("crash") /\ Down /\ UNCHANGED age

\* SIGTERM, with handlers from the first tick on; a wait ends at once.
Stop ==
  /\ stage \notin {"down", "reconcile"} /\ stopping = NotAsked
  /\ Disturb("stop")
  /\ IF stage = "wait"
     THEN Down
     ELSE /\ stopping' = 0 /\ inCopy' = Copying
          /\ UNCHANGED <<stage, elapsed, hung, copyVars, healthVars, stuck>>
  /\ UNCHANGED age

StopTimesOut == stopping = StopTimeout /\ Down /\ UNCHANGED <<age, budget>>

-----------------------------------------------------------------------------
(* The container: its health check and a watcher of it.                    *)

\* Mutant: a heartbeat is stale at one moment only.
StaleOnTheDot == age = Grace

Stale == age # NoBeat /\ age > Grace

\* Mutant: the start period is not granted.
CountedFromStart(n) == Capped(n, Retries)

\* In the start period failures do not count.
Counted(n) == IF uptime < StartPeriod THEN n ELSE Capped(n, Retries)

Check ==
  /\ stage # "down" /\ nextCheck = 0
  /\ nextCheck' = CheckEvery
  /\ IF Stale THEN streak' = Counted(streak) /\ UNCHANGED uptime
              ELSE streak' = 0 /\ uptime' = StartPeriod
  /\ UNCHANGED <<age, stage, elapsed, hung, copyVars, stopVars, stuck, budget>>

\* An autoheal-style sidecar restarts what is unhealthy.
Autoheal == stage # "down" /\ streak = Retries /\ Down /\ UNCHANGED <<age, budget>>

Daemon ==
  \/ Start \/ EndReconcile \/ BeginTick \/ NothingToPromote \/ BeginPromotions
  \/ BeginCopy \/ NextChunk \/ Interrupted \/ PromotionEnds \/ TickFails

Clockwork == Pass \/ Check \/ StopTimesOut

Next == Daemon \/ Clockwork \/ Autoheal \/ Hang \/ Resume \/ Crash \/ Stop

\* Time passes, checks are made, and there is a watcher.
Spec == Init /\ [][Next]_vars /\ WF_vars(Clockwork) /\ WF_vars(Autoheal)

-----------------------------------------------------------------------------
(* Properties.                                                             *)

\* How old the heartbeat of a daemon that never got stuck is at most: one tick
\* without its last beat and the wait after it. A promotion starts its own
\* measure of BeatEvery without a beat, so each may add a Lap.
AgeInv ==
  (~stuck /\ stage \notin {"down", "reconcile"}) =>
    /\ age # NoBeat
    /\ stage = "work" => age <= elapsed
    /\ Copying => age <= WorkTime + (MaxPromotions - todo) * Lap + sinceBeat
    /\ stage = "settle" => sinceBeat <= (BeatEvery - 1) + elapsed
    /\ stage = "chunk" => sinceBeat <= (BeatEvery - 1) + SettleTime + elapsed
    /\ stage = "wait" => age + ChunkTime <= WorkTime + MaxPromotions * Lap + elapsed

\* The stages keep their times, and a promotion is one of those begun.
StageInv == elapsed <= Longest[stage] /\ (hung => stuck) /\ (Copying => todo > 0)

TimeInv == TypeOK /\ StageInv /\ AgeInv

\* Where a process is with its health checks that has not beaten yet: its first
\* is due, with an uptime no shorter than its own, or behind it, and each that
\* counted took its time.
SinceCheck == CheckEvery - nextCheck
StartingInv ==
  (stage = "reconcile" /\ ~stuck) =>
    /\ \/ elapsed = SinceCheck /\ uptime <= elapsed /\ streak = 0
       \/ elapsed >= CheckEvery + SinceCheck
    /\ streak > 0 => (streak + Forgiven) * CheckEvery + SinceCheck <= elapsed

\* A promotion that was asked to stop is in the stage it was in then.
StoppingInv ==
  inCopy => stopping \in Nat /\ Copying /\ (~stuck => stopping <= elapsed)

\* The inductive invariant.
IndInv == TimeInv /\ StartingInv /\ StoppingInv

\* Once the first tick has begun the heartbeat is stale only if the daemon hung
\* or could not write it: not in a copy of any length, a tick that fails or
\* a row of promotions too short to beat (daemon.py:111, recovery.py:52).
NoFalseAlarm == Stale /\ stage \notin {"down", "reconcile"} => stuck

\* A container gets unhealthy only when the daemon was stuck, also while it
\* starts with the heartbeat of an earlier process (Dockerfile:38).
UnhealthyMeansStuck ==
  [][streak # Retries /\ streak' = Retries => stuck]_vars

\* A stop asked for in a copy is over before the runtime kills (daemon.py:100).
StopInTime == inCopy /\ ~stuck => stopping # StopTimeout

\* A hung daemon is noticed and restarted, in whatever call it hangs, if there
\* has ever been a heartbeat (docs/architecture.md:157).
HungIsEnded == (hung /\ age # NoBeat) ~> ~hung

=============================================================================
