---------------------------- MODULE HeartbeatProofs ----------------------------
(***************************************************************************)
(* No false alarms, none at a start either, and stops in time: for all      *)
(* durations that GraceSuffices, StartSuffices and StopSuffices admit, any  *)
(* number of promotions in a tick and any number of disturbances.           *)
(***************************************************************************)
EXTENDS Heartbeat, TLAPS

\* The constants that are added and compared.
LEMMA Numbers ==
  /\ PollInterval \in Nat \ {0} /\ BeatEvery \in Nat \ {0} /\ MaxPromotions \in Nat \ {0}
  /\ CheckEvery \in Nat /\ Retries \in Nat /\ StopTimeout \in Nat /\ Slack \in Nat
  /\ ReconcileTime \in Nat /\ WorkTime \in Nat /\ ChunkTime \in Nat /\ SettleTime \in Nat
  /\ StartPeriod \in Nat /\ MaxEvents \in Nat
  /\ Lap \in Nat /\ Lap >= ChunkTime /\ Grace \in Nat
BY TimeAssumption DEF Lap, Grace

\* How long a stage may take.
LEMMA LongestTimes ==
  /\ Longest["down"] = 0 /\ Longest["reconcile"] = ReconcileTime /\ Longest["work"] = WorkTime
  /\ Longest["settle"] = SettleTime /\ Longest["chunk"] = ChunkTime /\ Longest["wait"] = PollInterval
BY DEF Longest

\* One promotion more is one lap more.
LEMMA LapMore == ASSUME NEW n \in Nat PROVE n * Lap \in Nat /\ (n + 1) * Lap = n * Lap + Lap
BY Numbers

\* The first promotions of a tick take no more than all of them.
LEMMA LapsGrow == ASSUME NEW m \in Nat, NEW n \in Nat, m <= n PROVE m * Lap <= n * Lap
BY Numbers

\* Where a tick is with its promotions: the present one is not over yet.
LEMMA LapsLeft ==
  ASSUME NEW k \in 1..MaxPromotions
  PROVE  /\ (MaxPromotions - k) * Lap \in Nat
         /\ (MaxPromotions - k) * Lap + Lap <= MaxPromotions * Lap
<1>1. MaxPromotions - k \in Nat /\ (MaxPromotions - k) + 1 \in Nat
      /\ (MaxPromotions - k) + 1 <= MaxPromotions /\ MaxPromotions \in Nat
  BY Numbers
<1>2. /\ (MaxPromotions - k) * Lap \in Nat
      /\ ((MaxPromotions - k) + 1) * Lap = (MaxPromotions - k) * Lap + Lap
  BY <1>1, LapMore
<1>3. ((MaxPromotions - k) + 1) * Lap <= MaxPromotions * Lap
  BY <1>1, LapsGrow
<1> QED
  BY <1>2, <1>3

-----------------------------------------------------------------------------
(* The invariant.                                                          *)

\* A daemon that is down has no heartbeat to answer for.
LEMMA InitInv == Init => TimeInv
<1> SUFFICES ASSUME Init PROVE TimeInv
  OBVIOUS
<1>1. CountsOK
  BY Numbers DEF Init, CountsOK
<1>2. FlagsOK
  BY DEF Init, FlagsOK
<1>3. StageInv
  BY LongestTimes DEF Init, StageInv, Copying
<1>4. AgeInv
  BY DEF Init, AgeInv
<1> QED
  BY <1>1, <1>2, <1>3, <1>4 DEF TimeInv, TypeOK

\* A disturbance is paid for.
LEMMA BudgetFalls == ASSUME CountsOK, NEW kind, Disturb(kind) PROVE budget' \in 0..MaxEvents
BY Numbers DEF CountsOK, Disturb

\* A write of the heartbeat makes it new, or fails.
LEMMA WriteResult ==
  ASSUME CountsOK, Written \/ Unwritten
  PROVE  age' \in 0..(Grace + 1) \cup {NoBeat} /\ budget' \in 0..MaxEvents
<1>1. CASE Written
  BY <1>1, Numbers DEF Written, CountsOK
<1>2. CASE Unwritten
  BY <1>2, BudgetFalls DEF Unwritten, CountsOK
<1> QED
  BY <1>1, <1>2

\* The end of the process.
LEMMA DownInv ==
  ASSUME TypeOK, Down, age' \in 0..(Grace + 1) \cup {NoBeat}, budget' \in 0..MaxEvents
  PROVE  TimeInv'
<1>1. CountsOK'
  BY Numbers DEF Down, Enter, CountsOK
<1>2. FlagsOK'
  BY DEF Down, Enter, FlagsOK
<1>3. StageInv'
  BY LongestTimes DEF Down, Enter, StageInv, Copying
<1>4. AgeInv'
  BY DEF Down, Enter, AgeInv
<1> QED
  BY <1>1, <1>2, <1>3, <1>4 DEF TimeInv, TypeOK

\* Entering a stage with a beat.
LEMMA EnterWithBeat ==
  ASSUME TimeInv, Beat, NEW s \in {"work", "wait"}, Enter(s), ~hung,
         UNCHANGED <<hung, stopVars, healthVars>>,
         sinceBeat' \in 0..Lap, todo' \in 0..MaxPromotions
  PROVE  TimeInv'
<1>1. CountsOK'
  BY WriteResult DEF Beat, Enter, TimeInv, TypeOK, CountsOK, stopVars, healthVars
<1>2. FlagsOK'
  BY DEF Beat, Enter, TimeInv, TypeOK, FlagsOK, stopVars
<1>3. StageInv'
  BY LongestTimes, Numbers DEF Enter, StageInv, Copying
<1>4. AgeInv'
  <2>1. ChunkTime <= MaxPromotions * Lap /\ MaxPromotions * Lap \in Nat
    <3>1. 1 * Lap <= MaxPromotions * Lap /\ 1 * Lap = Lap
      BY LapsGrow, Numbers
    <3> QED
      BY <3>1, LapMore, Numbers
  <2>2. age' = 0 => age' <= elapsed' /\ age' + ChunkTime <= WorkTime + MaxPromotions * Lap + elapsed'
    BY <2>1, Numbers DEF Enter
  <2>3. ~stuck' => age' = 0
    BY DEF Beat, Written
  <2> QED
    BY <2>2, <2>3, TimeAssumption DEF AgeInv, Copying, Enter
<1> QED
  BY <1>1, <1>2, <1>3, <1>4 DEF TimeInv, TypeOK

\* The last beat of a tick.
LEMMA BeatAndEndInv ==
  ASSUME TimeInv, BeatAndEnd, ~hung
  PROVE  TimeInv'
<1>1. CASE stopping # NotAsked
  <2>1. Down /\ (Written \/ Unwritten)
    BY <1>1 DEF BeatAndEnd
  <2> QED
    BY <2>1, DownInv, WriteResult DEF TimeInv, TypeOK
<1>2. CASE stopping = NotAsked
  <2>1. Beat /\ Enter("wait") /\ UNCHANGED <<hung, stopVars, healthVars>>
        /\ sinceBeat' \in 0..Lap /\ todo' \in 0..MaxPromotions
    BY <1>2, Numbers DEF BeatAndEnd
  <2> QED
    BY <2>1, EnterWithBeat
<1> QED
  BY <1>1, <1>2

\* What the age of the heartbeat can be in a promotion, and behind it.
LEMMA AgeInPromotion ==
  ASSUME TimeInv, Copying
  PROVE  /\ sinceBeat \in 0..Lap /\ todo \in 1..MaxPromotions
         /\ (MaxPromotions - todo) * Lap \in Nat
         /\ (MaxPromotions - todo) * Lap + Lap <= MaxPromotions * Lap
         /\ ~stuck => age \in Nat /\ age <= WorkTime + (MaxPromotions - todo) * Lap + sinceBeat
<1>1. sinceBeat \in 0..Lap /\ todo \in 1..MaxPromotions
  BY Numbers DEF TimeInv, TypeOK, CountsOK, StageInv
<1>2. age \in Nat \cup {NoBeat}
  BY Numbers DEF TimeInv, TypeOK, CountsOK
<1>3. ~stuck => age \in Nat /\ age <= WorkTime + (MaxPromotions - todo) * Lap + sinceBeat
  BY <1>2 DEF TimeInv, AgeInv, Copying
<1> QED
  BY <1>1, <1>3, LapsLeft

-----------------------------------------------------------------------------
(* The steps of the daemon.                                                *)

\* A promotion begins: nothing has beaten, the measure is set back.
LEMMA EnterPromotion ==
  ASSUME TimeInv, Enter("settle"), sinceBeat' = 0, NoBeatNow, todo' \in 1..MaxPromotions, ~hung,
         UNCHANGED <<hung, stopVars, healthVars>>,
         ~stuck => age \in Nat /\ age <= WorkTime + (MaxPromotions - todo') * Lap
  PROVE  TimeInv'
<1>1. CountsOK'
  BY Numbers DEF Enter, NoBeatNow, TimeInv, TypeOK, CountsOK, stopVars, healthVars
<1>2. FlagsOK'
  BY DEF Enter, NoBeatNow, TimeInv, TypeOK, FlagsOK, stopVars
<1>3. StageInv'
  BY LongestTimes, Numbers DEF Enter, StageInv, Copying
<1>4. AgeInv'
  <2>1. (MaxPromotions - todo') * Lap \in Nat
    BY LapsLeft
  <2>2. ~stuck => /\ age # NoBeat
                  /\ age <= WorkTime + (MaxPromotions - todo') * Lap + 0
                  /\ 0 <= (BeatEvery - 1) + 0
    BY <2>1, Numbers, TimeAssumption
  <2> QED
    BY <2>2 DEF AgeInv, Copying, Enter, NoBeatNow
<1> QED
  BY <1>1, <1>2, <1>3, <1>4 DEF TimeInv, TypeOK

\* The first promotion: the beat of the tick is as old as its other steps.
LEMMA BeginPromotionsInv == TimeInv /\ BeginPromotions => TimeInv'
<1> SUFFICES ASSUME TimeInv, BeginPromotions PROVE TimeInv'
  OBVIOUS
<1> USE DEF BeginPromotions, Running
<1>1. todo' \in 1..MaxPromotions /\ (MaxPromotions - todo') * Lap \in Nat
  BY LapsLeft
<1>2. elapsed <= WorkTime /\ elapsed \in Nat
  BY LongestTimes DEF TimeInv, TypeOK, CountsOK, StageInv
<1>3. ~stuck => age \in Nat /\ age <= elapsed
  BY Numbers DEF TimeInv, TypeOK, CountsOK, AgeInv
<1>4. ~stuck => age \in Nat /\ age <= WorkTime + (MaxPromotions - todo') * Lap
  BY <1>1, <1>2, <1>3, Numbers
<1> QED
  BY <1>1, <1>4, EnterPromotion

\* Behind a promotion comes the next, a lap later, or the last beat.
LEMMA PromotionEndsInv == TimeInv /\ PromotionEnds => TimeInv'
<1> SUFFICES ASSUME TimeInv, PromotionEnds PROVE TimeInv'
  OBVIOUS
<1>0. Copying /\ ~hung
  BY DEF PromotionEnds, Running, Copying
<1>1. CASE todo = 1
  BY <1>0, <1>1, BeatAndEndInv DEF PromotionEnds, NextPromotion
<1>2. CASE todo # 1
  <2>1. /\ Enter("settle") /\ sinceBeat' = 0 /\ NoBeatNow /\ todo' = todo - 1
        /\ UNCHANGED <<hung, stopVars, healthVars>>
    BY <1>2 DEF PromotionEnds, NextPromotion
  <2>2. todo' \in 1..MaxPromotions
    BY <1>0, <1>2, <2>1, AgeInPromotion, Numbers
  <2>3. (MaxPromotions - todo') * Lap = (MaxPromotions - todo) * Lap + Lap
    <3>1. MaxPromotions - todo \in Nat /\ MaxPromotions - todo' = (MaxPromotions - todo) + 1
      BY <1>0, <2>1, AgeInPromotion, Numbers
    <3> QED
      BY <3>1, LapMore
  <2>4. ~stuck => age \in Nat /\ age <= WorkTime + (MaxPromotions - todo') * Lap
    BY <1>0, <2>3, AgeInPromotion, Numbers
  <2> QED
    BY <1>0, <2>1, <2>2, <2>4, EnterPromotion
<1> QED
  BY <1>1, <1>2

\* A chunk begins where the settling is over.
LEMMA BeginCopyInv == TimeInv /\ BeginCopy => TimeInv'
<1> SUFFICES ASSUME TimeInv, BeginCopy PROVE TimeInv'
  OBVIOUS
<1> USE DEF BeginCopy, Running, Enter, NoBeatNow
<1>0. Copying
  BY DEF Copying
<1>1. CountsOK'
  BY DEF TimeInv, TypeOK, CountsOK, copyVars, stopVars, healthVars
<1>2. FlagsOK'
  BY DEF TimeInv, TypeOK, FlagsOK, stopVars
<1>3. StageInv'
  BY LongestTimes, Numbers DEF TimeInv, StageInv, Copying, copyVars
<1>4. AgeInv'
  <2>1. ~stuck => sinceBeat <= (BeatEvery - 1) + SettleTime + 0
    <3>1. elapsed \in Nat /\ elapsed <= SettleTime /\ sinceBeat \in Nat
      BY LongestTimes, Numbers DEF TimeInv, TypeOK, CountsOK, StageInv
    <3>2. ~stuck => sinceBeat <= (BeatEvery - 1) + elapsed
      BY DEF TimeInv, AgeInv
    <3> QED
      BY <3>1, <3>2, Numbers
  <2>2. ~stuck => age # NoBeat /\ age <= WorkTime + (MaxPromotions - todo) * Lap + sinceBeat
    BY <1>0 DEF TimeInv, AgeInv
  <2> QED
    BY <2>1, <2>2 DEF AgeInv, Copying, copyVars
<1> QED
  BY <1>1, <1>2, <1>3, <1>4 DEF TimeInv, TypeOK

\* A chunk ends with a beat when one is due; what it does not report is less
\* than BeatEvery.
LEMMA NextChunkInv == TimeInv /\ NextChunk => TimeInv'
<1> SUFFICES ASSUME TimeInv, NextChunk PROVE TimeInv'
  OBVIOUS
<1> USE DEF NextChunk, Running
<1>0. Copying /\ ~hung /\ stage' \in {"chunk", "settle"} /\ elapsed' = 0
  BY DEF Copying, Enter
<1>1. \/ Beat /\ sinceBeat' = 0
      \/ NoBeatNow /\ sinceBeat < BeatEvery /\ UNCHANGED sinceBeat
  BY Numbers DEF Progress, TimeInv, TypeOK, CountsOK
<1>2. CountsOK'
  BY <1>0, <1>1, WriteResult, Numbers
     DEF Beat, NoBeatNow, TimeInv, TypeOK, CountsOK, stopVars, healthVars
<1>3. FlagsOK'
  BY <1>0, <1>1 DEF Beat, NoBeatNow, TimeInv, TypeOK, FlagsOK, stopVars
<1>4. StageInv'
  BY <1>0, LongestTimes, Numbers DEF TimeInv, StageInv, Copying
<1>5. AgeInv'
  <2>0. sinceBeat \in 0..Lap /\ (MaxPromotions - todo) * Lap \in Nat
    BY <1>0, AgeInPromotion
  <2>1. CASE Beat /\ sinceBeat' = 0
    <3>1. /\ 0 <= WorkTime + (MaxPromotions - todo) * Lap + 0
          /\ 0 <= (BeatEvery - 1) + 0 /\ 0 <= (BeatEvery - 1) + SettleTime + 0
      BY <2>0, Numbers
    <3>2. ~stuck' => age' = 0 /\ 0 # NoBeat
      BY <2>1, TimeAssumption DEF Beat, Written
    <3> QED
      BY <1>0, <2>1, <3>1, <3>2 DEF AgeInv, Copying
  <2>2. CASE NoBeatNow /\ sinceBeat < BeatEvery /\ UNCHANGED sinceBeat
    <3>1. sinceBeat <= (BeatEvery - 1) + 0 /\ sinceBeat <= (BeatEvery - 1) + SettleTime + 0
      BY <2>0, <2>2, Numbers
    <3>2. ~stuck => age # NoBeat /\ age <= WorkTime + (MaxPromotions - todo) * Lap + sinceBeat
      BY <1>0 DEF TimeInv, AgeInv
    <3> QED
      BY <1>0, <2>2, <3>1, <3>2 DEF AgeInv, Copying, NoBeatNow
  <2> QED
    BY <1>1, <2>1, <2>2
<1> QED
  BY <1>2, <1>3, <1>4, <1>5 DEF TimeInv, TypeOK

\* Entering a stage of a process that has nothing to answer for yet.
LEMMA StartInv == TimeInv /\ Start => TimeInv'
<1> SUFFICES ASSUME TimeInv, Start PROVE TimeInv'
  OBVIOUS
<1> USE DEF Start, Enter, NoBeatNow
<1>1. CountsOK'
  BY Numbers DEF TimeInv, TypeOK, CountsOK, copyVars, stopVars
<1>2. FlagsOK'
  BY DEF TimeInv, TypeOK, FlagsOK, stopVars
<1>3. StageInv'
  BY LongestTimes, Numbers DEF TimeInv, StageInv, Copying
<1>4. AgeInv'
  BY DEF AgeInv
<1> QED
  BY <1>1, <1>2, <1>3, <1>4 DEF TimeInv, TypeOK

\* A tick begins, behind reconciliation or a wait, with a beat.
LEMMA TickBeginsInv == TimeInv /\ (EndReconcile \/ BeginTick) => TimeInv'
<1> SUFFICES ASSUME TimeInv, EndReconcile \/ BeginTick PROVE TimeInv'
  OBVIOUS
<1>1. ~hung /\ Enter("work") /\ Beat /\ UNCHANGED <<hung, copyVars, stopVars, healthVars>>
  BY DEF EndReconcile, BeginTick, Running
<1>2. sinceBeat' \in 0..Lap /\ todo' \in 0..MaxPromotions
  BY <1>1 DEF TimeInv, TypeOK, CountsOK, copyVars
<1> QED
  BY <1>1, <1>2, EnterWithBeat

\* A tick ends with its last beat where there is nothing more to promote.
LEMMA TickEndsInv == TimeInv /\ (NothingToPromote \/ Interrupted) => TimeInv'
BY BeatAndEndInv DEF NothingToPromote, Interrupted, Running

\* The age of the heartbeat at the end of a tick without a last beat: no chunk
\* is being copied, so there is the time of one left.
LEMMA AgeAtFailure ==
  ASSUME TimeInv, stage \in {"work", "settle"}, ~stuck
  PROVE  age \in Nat /\ MaxPromotions * Lap \in Nat
         /\ age + ChunkTime <= WorkTime + MaxPromotions * Lap
<1>1. CASE stage = "work"
  <2>1. 1 * Lap <= MaxPromotions * Lap /\ 1 * Lap = Lap /\ MaxPromotions * Lap \in Nat
    BY LapsGrow, LapMore, Numbers
  <2>2. age \in Nat /\ elapsed \in Nat /\ age <= elapsed /\ elapsed <= WorkTime
    BY <1>1, Numbers, LongestTimes DEF TimeInv, TypeOK, CountsOK, StageInv, AgeInv
  <2> QED
    BY <2>1, <2>2, Numbers
<1>2. CASE stage = "settle"
  <2>1. Copying
    BY <1>2 DEF Copying
  <2>2. elapsed \in Nat /\ elapsed <= SettleTime /\ sinceBeat <= (BeatEvery - 1) + elapsed
    BY <1>2, LongestTimes DEF TimeInv, TypeOK, CountsOK, StageInv, AgeInv
  <2>3. sinceBeat + ChunkTime <= Lap
    BY <2>1, <2>2, AgeInPromotion, Numbers DEF Lap
  <2>4. MaxPromotions * Lap \in Nat
    BY LapMore, Numbers
  <2> QED
    BY <2>1, <2>3, <2>4, AgeInPromotion, Numbers
<1> QED
  BY <1>1, <1>2

\* A tick that fails leaves the heartbeat of its beginning, or of its copies.
LEMMA TickFailsInv == TimeInv /\ TickFails => TimeInv'
<1> SUFFICES ASSUME TimeInv, TickFails PROVE TimeInv'
  OBVIOUS
<1>1. ~hung /\ stage \in {"work", "settle"} /\ age' = age /\ AfterTick /\ budget' \in 0..MaxEvents
  BY BudgetFalls DEF TickFails, Running, TimeInv, TypeOK
<1>2. CASE stopping # NotAsked
  BY <1>1, <1>2, DownInv DEF AfterTick, TimeInv, TypeOK, CountsOK
<1>3. CASE stopping = NotAsked
  <2>1. /\ stage' = "wait" /\ elapsed' = 0 /\ sinceBeat' = 0 /\ todo' = 0
        /\ UNCHANGED <<hung, stopVars, healthVars, stuck>>
    BY <1>1, <1>3 DEF AfterTick, Enter
  <2>2. CountsOK'
    BY <1>1, <2>1, Numbers DEF TimeInv, TypeOK, CountsOK, stopVars, healthVars
  <2>3. FlagsOK'
    BY <2>1 DEF TimeInv, TypeOK, FlagsOK, stopVars
  <2>4. StageInv'
    BY <1>1, <2>1, LongestTimes, Numbers DEF StageInv, Copying
  <2>5. AgeInv'
    <3>1. ~stuck => age # NoBeat /\ age + ChunkTime <= WorkTime + MaxPromotions * Lap + 0
      BY <1>1, AgeAtFailure, Numbers, TimeAssumption
    <3> QED
      BY <1>1, <2>1, <3>1 DEF AgeInv, Copying
  <2> QED
    BY <2>2, <2>3, <2>4, <2>5 DEF TimeInv, TypeOK
<1> QED
  BY <1>2, <1>3

-----------------------------------------------------------------------------
(* Time, and what goes wrong in it.                                        *)

\* A number grows up to its cap.
LEMMA CappedStays ==
  ASSUME NEW cap \in Nat, NEW n \in 0..cap
  PROVE  Capped(n, cap) \in 0..cap /\ Capped(n, cap) <= n + 1
BY DEF Capped

\* As time passes the age and what bounds it grow alike, and the stage has not
\* had its longest time.
LEMMA PassInv == TimeInv /\ Pass => TimeInv'
<1> SUFFICES ASSUME TimeInv, Pass PROVE TimeInv'
  OBVIOUS
<1>1. CountsOK'
  <2>1. age' \in 0..(Grace + 1) \cup {NoBeat}
    BY CappedStays, Numbers DEF Pass, TimeInv, TypeOK, CountsOK
  <2>2. sinceBeat' \in 0..Lap
    BY CappedStays, Numbers DEF Pass, TimeInv, TypeOK, CountsOK
  <2>3. stopping' \in 0..StopTimeout \cup {NotAsked}
    BY Numbers DEF Pass, TimeInv, TypeOK, CountsOK
  <2>4. uptime' \in 0..StartPeriod
    BY CappedStays, Numbers DEF Pass, TimeInv, TypeOK, CountsOK
  <2>5. nextCheck' \in 0..CheckEvery /\ elapsed' \in Nat
    BY Numbers DEF Pass, TimeInv, TypeOK, CountsOK
  <2> QED
    BY <2>1, <2>2, <2>3, <2>4, <2>5 DEF Pass, TimeInv, TypeOK, CountsOK
<1>2. FlagsOK'
  BY DEF Pass, TimeInv, TypeOK, FlagsOK
<1>3. StageInv'
  <2>1. Longest[stage] \in Nat /\ elapsed \in Nat /\ elapsed <= Longest[stage]
    BY LongestTimes, Numbers DEF TimeInv, TypeOK, CountsOK, FlagsOK, StageInv
  <2>2. elapsed' <= Longest[stage]
    BY <2>1 DEF Pass
  <2> QED
    BY <2>2 DEF Pass, TimeInv, StageInv, Copying, Longest
<1>4. AgeInv'
  <2> SUFFICES ASSUME ~stuck, stage \notin {"down", "reconcile"} PROVE AgeInv'
    BY DEF Pass, AgeInv
  <2>1. /\ ~hung /\ elapsed < Longest[stage] /\ elapsed' = elapsed + 1 /\ elapsed \in Nat
        /\ UNCHANGED <<stage, stuck, todo>>
    BY DEF Pass, TimeInv, TypeOK, CountsOK, StageInv
  <2>2. age \in Nat /\ age' \in Nat /\ age' <= age + 1 /\ age' # NoBeat
    <3>1. age \in 0..(Grace + 1)
      BY DEF TimeInv, TypeOK, CountsOK, AgeInv
    <3>2. age' = Capped(age, Grace + 1)
      BY <3>1, TimeAssumption DEF Pass
    <3> QED
      BY <3>1, <3>2, CappedStays, Numbers, TimeAssumption
  <2>3. CASE stage = "work"
    <3>1. age' <= elapsed'
      BY <2>1, <2>2, <2>3 DEF TimeInv, AgeInv
    <3> QED
      BY <2>1, <2>2, <2>3, <3>1 DEF AgeInv, Copying
  <2>4. CASE stage = "wait"
    <3>1. MaxPromotions * Lap \in Nat
      BY LapMore, Numbers
    <3>2. age' + ChunkTime <= WorkTime + MaxPromotions * Lap + elapsed'
      <4>1. age + ChunkTime <= WorkTime + MaxPromotions * Lap + elapsed
        BY <2>4 DEF TimeInv, AgeInv
      <4>2. elapsed' = elapsed + 1 /\ elapsed \in Nat /\ age \in Nat /\ age' \in Nat /\ age' <= age + 1
        BY <2>1, <2>2
      <4>3. ChunkTime \in Nat /\ WorkTime \in Nat
        BY Numbers
      <4> QED
        BY <3>1, <4>1, <4>2, <4>3
    <3> QED
      BY <2>1, <2>2, <2>4, <3>2 DEF AgeInv, Copying
  <2>5. CASE Copying
    <3>1. stage \in {"settle", "chunk"} /\ sinceBeat \in Nat
      BY <2>5, AgeInPromotion DEF Copying
    <3>2. stage = "settle" => sinceBeat <= (BeatEvery - 1) + elapsed /\ elapsed < SettleTime
      BY <2>1, LongestTimes DEF TimeInv, AgeInv
    <3>3. stage = "chunk" => /\ sinceBeat <= (BeatEvery - 1) + SettleTime + elapsed
                             /\ elapsed < ChunkTime
      BY <2>1, LongestTimes DEF TimeInv, AgeInv
    <3>4. sinceBeat < Lap
      BY <2>1, <3>1, <3>2, <3>3, Numbers DEF Lap
    <3>5. sinceBeat' = sinceBeat + 1
      BY <2>5, <3>4 DEF Pass, Capped
    <3>6. age' <= WorkTime + (MaxPromotions - todo) * Lap + sinceBeat'
      BY <2>2, <2>5, <3>1, <3>5, AgeInPromotion, Numbers
    <3>7. /\ stage = "settle" => sinceBeat' <= (BeatEvery - 1) + elapsed'
          /\ stage = "chunk" => sinceBeat' <= (BeatEvery - 1) + SettleTime + elapsed'
      BY <2>1, <3>1, <3>2, <3>3, <3>5, Numbers
    <3> QED
      BY <2>1, <2>2, <3>1, <3>6, <3>7 DEF AgeInv, Copying
  <2> QED
    BY <2>3, <2>4, <2>5 DEF TimeInv, TypeOK, FlagsOK, Copying
<1> QED
  BY <1>1, <1>2, <1>3, <1>4 DEF TimeInv, TypeOK

\* Where a process hangs or goes on nothing is due.
LEMMA HangInv == TimeInv /\ (Hang \/ Resume) => TimeInv'
<1> SUFFICES ASSUME TimeInv, Hang \/ Resume PROVE TimeInv'
  OBVIOUS
<1>1. /\ UNCHANGED <<age, stage, elapsed, copyVars, stopVars, healthVars>>
      /\ hung' \in BOOLEAN /\ stuck' \in BOOLEAN /\ (hung' => stuck') /\ (~stuck' => ~stuck)
      /\ budget' \in 0..MaxEvents
  BY BudgetFalls DEF Hang, Resume, TimeInv, TypeOK, CountsOK, FlagsOK
<1>2. CountsOK'
  BY <1>1 DEF TimeInv, TypeOK, CountsOK, copyVars, stopVars, healthVars
<1>3. FlagsOK'
  BY <1>1 DEF TimeInv, TypeOK, FlagsOK, stopVars
<1>4. StageInv'
  BY <1>1 DEF TimeInv, StageInv, Copying, Longest, copyVars
<1>5. AgeInv'
  BY <1>1 DEF TimeInv, AgeInv, Copying, copyVars
<1> QED
  BY <1>2, <1>3, <1>4, <1>5 DEF TimeInv, TypeOK

\* The ends of a process that it does not choose.
LEMMA EndsInv == TimeInv /\ (Crash \/ StopTimesOut \/ Autoheal) => TimeInv'
<1> SUFFICES ASSUME TimeInv, Crash \/ StopTimesOut \/ Autoheal PROVE TimeInv'
  OBVIOUS
<1>1. Down /\ age' = age /\ budget' \in 0..MaxEvents
  BY BudgetFalls DEF Crash, StopTimesOut, Autoheal, TimeInv, TypeOK, CountsOK
<1> QED
  BY <1>1, DownInv DEF TimeInv, TypeOK, CountsOK

\* A stop ends a wait; anything else takes note of it.
LEMMA StopInv == TimeInv /\ Stop => TimeInv'
<1> SUFFICES ASSUME TimeInv, Stop PROVE TimeInv'
  OBVIOUS
<1>1. age' = age /\ budget' \in 0..MaxEvents
  BY BudgetFalls DEF Stop, TimeInv, TypeOK
<1>2. CASE stage = "wait"
  BY <1>1, <1>2, DownInv DEF Stop, TimeInv, TypeOK, CountsOK
<1>3. CASE stage # "wait"
  <2>1. /\ stopping' = 0 /\ inCopy' = Copying
        /\ UNCHANGED <<stage, elapsed, hung, copyVars, healthVars, stuck>>
    BY <1>3 DEF Stop
  <2>2. CountsOK'
    BY <1>1, <2>1, Numbers DEF TimeInv, TypeOK, CountsOK, copyVars, healthVars
  <2>3. FlagsOK'
    BY <2>1 DEF TimeInv, TypeOK, FlagsOK, Copying
  <2>4. StageInv'
    BY <2>1 DEF TimeInv, StageInv, Copying, Longest, copyVars
  <2>5. AgeInv'
    BY <1>1, <2>1 DEF TimeInv, AgeInv, Copying, copyVars
  <2> QED
    BY <2>2, <2>3, <2>4, <2>5 DEF TimeInv, TypeOK
<1> QED
  BY <1>2, <1>3

\* A health check reads the heartbeat and counts.
LEMMA CheckInv == TimeInv /\ Check => TimeInv'
<1> SUFFICES ASSUME TimeInv, Check PROVE TimeInv'
  OBVIOUS
<1>1. UNCHANGED <<age, stage, elapsed, hung, copyVars, stopVars, stuck, budget>>
  BY DEF Check
<1>2. CountsOK'
  <2>1. uptime' \in 0..StartPeriod /\ nextCheck' \in 0..CheckEvery
    BY Numbers DEF Check, TimeInv, TypeOK, CountsOK
  <2>2. Counted(streak) \in 0..Retries
    BY CappedStays, Numbers DEF Counted, TimeInv, TypeOK, CountsOK
  <2>3. streak' \in 0..Retries
    BY <2>2, Numbers DEF Check
  <2> QED
    BY <1>1, <2>1, <2>3 DEF TimeInv, TypeOK, CountsOK, copyVars, stopVars
<1>3. FlagsOK'
  BY <1>1 DEF TimeInv, TypeOK, FlagsOK, stopVars
<1>4. StageInv'
  BY <1>1 DEF TimeInv, StageInv, Copying, Longest, copyVars
<1>5. AgeInv'
  BY <1>1 DEF TimeInv, AgeInv, Copying, copyVars
<1> QED
  BY <1>2, <1>3, <1>4, <1>5 DEF TimeInv, TypeOK

\* A step that changes nothing.
LEMMA StutterInv == TimeInv /\ UNCHANGED vars => TimeInv'
<1> SUFFICES ASSUME TimeInv, UNCHANGED vars PROVE TimeInv'
  OBVIOUS
<1> USE DEF vars, copyVars, stopVars, healthVars
<1>1. CountsOK'
  BY DEF TimeInv, TypeOK, CountsOK
<1>2. FlagsOK'
  BY DEF TimeInv, TypeOK, FlagsOK
<1>3. StageInv'
  BY DEF TimeInv, StageInv, Copying, Longest
<1>4. AgeInv'
  BY DEF TimeInv, AgeInv, Copying
<1> QED
  BY <1>1, <1>2, <1>3, <1>4 DEF TimeInv, TypeOK

-----------------------------------------------------------------------------
(* A process that starts, and one that is asked to stop.                   *)

\* One check more is one interval more.
LEMMA ChecksMore ==
  ASSUME NEW n \in Nat PROVE n * CheckEvery \in Nat /\ (n + 1) * CheckEvery = n * CheckEvery + CheckEvery
BY Numbers

\* More checks take longer.
LEMMA ChecksGrow ==
  ASSUME NEW m \in Nat, NEW n \in Nat, m <= n PROVE m * CheckEvery <= n * CheckEvery
BY Numbers

\* A check of a process that is reconciling and has not hung: the first is not
\* counted if the start period is longer, and the second is due no earlier than
\* two intervals from its start.
LEMMA CheckStarting == TimeInv /\ StartingInv /\ Check => StartingInv'
<1> SUFFICES ASSUME TimeInv, StartingInv, Check, stage = "reconcile", ~stuck
             PROVE  StartingInv'
  BY DEF StartingInv, Check
<1>1. /\ nextCheck = 0 /\ nextCheck' = CheckEvery /\ elapsed' = elapsed
      /\ CheckEvery \in Nat \ {0} /\ elapsed \in Nat /\ streak \in Nat /\ uptime \in Nat
      /\ StartPeriod \in Nat /\ Retries \in Nat
  BY TimeAssumption DEF Check, TimeInv, TypeOK, CountsOK
<1>2. SinceCheck = CheckEvery /\ SinceCheck' = 0
  BY <1>1 DEF SinceCheck
<1>3. elapsed' >= CheckEvery + SinceCheck'
  BY <1>1, <1>2 DEF StartingInv
<1>4. ASSUME streak' > 0
      PROVE  (streak' + Forgiven) * CheckEvery + SinceCheck' <= elapsed'
  <2>1. ~(uptime < StartPeriod /\ streak = 0) /\ streak' \in {streak, streak + 1}
    BY <1>1, <1>4 DEF Check, Counted, Capped
  <2>2. Forgiven \in {0, 1} /\ streak + Forgiven \in Nat
    BY <1>1 DEF Forgiven
  <2>3. CASE streak > 0
    <3>1. /\ (streak + Forgiven) * CheckEvery \in Nat
          /\ (streak + Forgiven + 1) * CheckEvery = (streak + Forgiven) * CheckEvery + CheckEvery
      BY <2>2, ChecksMore
    <3>2. (streak + Forgiven) * CheckEvery + CheckEvery <= elapsed
      BY <1>2, <2>3 DEF StartingInv
    <3>3. streak' + Forgiven = streak + Forgiven \/ streak' + Forgiven = streak + Forgiven + 1
      <4>1. streak \in Nat /\ Forgiven \in Nat /\ (streak' = streak \/ streak' = streak + 1)
        BY <1>1, <2>1, <2>2
      <4> QED
        BY <4>1
    <3>4. (streak' + Forgiven) * CheckEvery <= (streak + Forgiven) * CheckEvery + CheckEvery
      <4> DEFINE counted == (streak + Forgiven) * CheckEvery
      <4>1. (streak' + Forgiven) * CheckEvery \in {counted, counted + CheckEvery}
        BY <3>1, <3>3
      <4> QED
        BY <1>1, <3>1, <4>1
    <3>5. (streak' + Forgiven) * CheckEvery \in Nat
      BY <2>2, <3>3, ChecksMore
    <3> QED
      BY <1>1, <1>2, <3>1, <3>2, <3>4, <3>5
  <2>4. CASE streak = 0
    <3>1. streak' = 1 /\ uptime >= StartPeriod
      BY <1>1, <1>4, <2>1, <2>4
    <3>2. CASE CheckEvery < StartPeriod
      <4>1. streak' + Forgiven = 2
        BY <3>1, <3>2 DEF Forgiven
      <4>2. elapsed >= CheckEvery + CheckEvery
        BY <1>1, <1>2, <3>1, <3>2 DEF StartingInv
      <4> QED
        BY <1>1, <1>2, <4>1, <4>2
    <3>3. CASE ~(CheckEvery < StartPeriod)
      <4>1. streak' + Forgiven = 1
        BY <3>1, <3>3 DEF Forgiven
      <4> QED
        BY <1>1, <1>2, <1>3, <4>1
    <3> QED
      BY <3>2, <3>3
  <2> QED
    BY <1>1, <2>3, <2>4
<1> QED
  BY <1>3, <1>4 DEF StartingInv

\* Reconciliation is entered by Start and left by EndReconcile; time goes on
\* alike for the stage, the container and its next check.
LEMMA StepStarting == TimeInv /\ StartingInv /\ [Next]_vars => StartingInv'
<1> SUFFICES ASSUME TimeInv, StartingInv, [Next]_vars, stage' = "reconcile", ~stuck'
             PROVE  StartingInv'
  BY DEF StartingInv
<1>1. CASE Start
  <2>1. elapsed' = 0 /\ uptime' = 0 /\ streak' = 0 /\ SinceCheck' = 0
    BY <1>1, Numbers DEF Start, Enter, SinceCheck
  <2> QED
    BY <2>1 DEF StartingInv
<1>2. CASE Pass
  <2>1. /\ stage = "reconcile" /\ ~stuck /\ ~hung /\ streak' = streak
        /\ elapsed' = elapsed + 1 /\ nextCheck' = nextCheck - 1 /\ nextCheck > 0
        /\ uptime' <= uptime + 1
    BY <1>2, CappedStays, Numbers DEF Pass, TimeInv, TypeOK, CountsOK, StageInv
  <2>2. /\ elapsed \in Nat /\ nextCheck \in Nat /\ uptime \in Nat /\ uptime' \in Nat /\ streak \in Nat
        /\ Forgiven \in {0, 1} /\ CheckEvery \in Nat
    BY <1>2, CappedStays, Numbers DEF Pass, TimeInv, TypeOK, CountsOK, Forgiven
  <2>3. SinceCheck' = SinceCheck + 1 /\ SinceCheck \in Nat
    BY <2>1, <2>2 DEF SinceCheck, TimeInv, TypeOK, CountsOK
  <2>4. \/ elapsed' = SinceCheck' /\ uptime' <= elapsed' /\ streak' = 0
        \/ elapsed' >= CheckEvery + SinceCheck'
    BY <2>1, <2>2, <2>3 DEF StartingInv
  <2>5. streak' > 0 => (streak' + Forgiven) * CheckEvery + SinceCheck' <= elapsed'
    <3>1. (streak + Forgiven) * CheckEvery \in Nat
      BY <2>2, ChecksMore
    <3>2. streak > 0 => (streak + Forgiven) * CheckEvery + SinceCheck <= elapsed
      BY <2>1 DEF StartingInv
    <3>3. Forgiven' = Forgiven
      BY DEF Forgiven
    <3> QED
      BY <2>1, <2>2, <2>3, <3>1, <3>2, <3>3
  <2> QED
    BY <2>4, <2>5 DEF StartingInv
<1>3. CASE Check
  BY <1>3, CheckStarting
<1>4. CASE UNCHANGED <<stage, elapsed, uptime, nextCheck, streak>> /\ (stuck => stuck')
  <2>1. stage = "reconcile" /\ ~stuck
    BY <1>4
  <2> QED
    BY <1>4, <2>1 DEF StartingInv, SinceCheck
<1>5. CASE Hang \/ Resume \/ Stop \/ UNCHANGED vars
  <2>1. UNCHANGED <<stage, elapsed, uptime, nextCheck, streak>> /\ (stuck => stuck')
    BY <1>5 DEF Hang, Resume, Stop, Down, Enter, vars, healthVars
  <2> QED
    BY <2>1, <1>4
<1>6. CASE Crash \/ StopTimesOut \/ Autoheal
  BY <1>6 DEF Crash, StopTimesOut, Autoheal, Down, Enter
<1>7. CASE Daemon /\ ~Start
  BY <1>7 DEF Daemon, EndReconcile, BeginTick, NothingToPromote, BeginPromotions, BeginCopy,
       NextChunk, Interrupted, PromotionEnds, NextPromotion, TickFails, AfterTick, BeatAndEnd,
       Down, Enter
<1> QED
  BY <1>1, <1>2, <1>3, <1>5, <1>6, <1>7 DEF Next, Clockwork

\* A promotion that was asked to stop goes on to no other stage.
LEMMA StepStopping == TimeInv /\ StoppingInv /\ [Next]_vars => StoppingInv'
<1> SUFFICES ASSUME TimeInv, StoppingInv, [Next]_vars PROVE StoppingInv'
  OBVIOUS
<1>0. NotAsked \notin Nat /\ elapsed \in Nat
  BY TimeAssumption DEF TimeInv, TypeOK, CountsOK
<1>1. CASE Pass
  <2>1. inCopy => /\ stage' = stage /\ stuck' = stuck /\ stopping' = stopping + 1
                  /\ (~stuck => elapsed' = elapsed + 1)
    BY <1>0, <1>1 DEF Pass, StoppingInv, TimeInv, StageInv, Copying
  <2> QED
    BY <1>0, <1>1, <2>1 DEF Pass, StoppingInv, Copying
<1>2. CASE Stop
  <2>1. CASE stage = "wait"
    BY <1>2, <2>1 DEF Stop, Down, StoppingInv
  <2>2. CASE stage # "wait"
    <3>1. stopping' = 0 /\ inCopy' = Copying /\ UNCHANGED <<stage, elapsed, stuck>>
      BY <1>2, <2>2 DEF Stop
    <3>2. inCopy' => Copying'
      BY <3>1 DEF Copying
    <3> QED
      BY <1>0, <3>1, <3>2 DEF StoppingInv
  <2> QED
    BY <2>1, <2>2
<1>3. CASE Hang \/ Resume \/ Check \/ UNCHANGED vars
  BY <1>3 DEF Hang, Resume, Check, StoppingInv, Copying, vars, stopVars
<1>4. CASE Crash \/ StopTimesOut \/ Autoheal
  BY <1>4 DEF Crash, StopTimesOut, Autoheal, Down, StoppingInv
<1>5. CASE Daemon
  <2>1. stopping # NotAsked => ~Copying \/ inCopy' = FALSE
    BY <1>5 DEF Daemon, Start, EndReconcile, BeginTick, NothingToPromote, BeginPromotions, BeginCopy,
       NextChunk, Interrupted, PromotionEnds, NextPromotion, TickFails, AfterTick, BeatAndEnd,
       Down, Running, Copying
  <2>2. inCopy' \in {inCopy, FALSE}
    BY <1>5 DEF Daemon, Start, EndReconcile, BeginTick, NothingToPromote, BeginPromotions, BeginCopy,
       NextChunk, Interrupted, PromotionEnds, NextPromotion, TickFails, AfterTick, BeatAndEnd,
       Down, stopVars
  <2> QED
    BY <1>0, <2>1, <2>2 DEF StoppingInv
<1> QED
  BY <1>1, <1>2, <1>3, <1>4, <1>5 DEF Next, Clockwork

-----------------------------------------------------------------------------
(* The theorems.                                                           *)

\* How old the heartbeat of a daemon can be that never got stuck: in its
\* steps, its promotions and its waits, whatever fails in a tick and whenever
\* it is stopped, killed or checked (daemon.py:111, 153).
THEOREM HeartbeatInvariant == Spec => []IndInv
<1>1. TimeInv /\ [Next]_vars => TimeInv'
  <2> SUFFICES ASSUME TimeInv, [Next]_vars PROVE TimeInv'
    OBVIOUS
  <2>1. CASE Daemon
    BY <2>1, StartInv, TickBeginsInv, TickEndsInv, BeginPromotionsInv, BeginCopyInv,
       NextChunkInv, PromotionEndsInv, TickFailsInv DEF Daemon
  <2>2. CASE Clockwork
    BY <2>2, PassInv, CheckInv, EndsInv DEF Clockwork
  <2>3. CASE Autoheal \/ Crash
    BY <2>3, EndsInv
  <2>4. CASE Hang \/ Resume
    BY <2>4, HangInv
  <2>5. CASE Stop
    BY <2>5, StopInv
  <2>6. CASE UNCHANGED vars
    BY <2>6, StutterInv
  <2> QED
    BY <2>1, <2>2, <2>3, <2>4, <2>5, <2>6 DEF Next
<1>2. Init => IndInv
  BY InitInv DEF IndInv, Init, StartingInv, StoppingInv
<1>3. IndInv /\ [Next]_vars => IndInv'
  BY <1>1, StepStarting, StepStopping DEF IndInv
<1> QED
  BY <1>2, <1>3, PTL DEF Spec

\* The heartbeat of a daemon that is not stuck is not too old.
LEMMA AtWorkIsFresh == TimeInv => NoFalseAlarm
<1> SUFFICES ASSUME TimeInv, ~stuck, stage \notin {"down", "reconcile"} PROVE ~Stale
  BY DEF NoFalseAlarm
<1>0. age \in Nat /\ elapsed \in Nat /\ MaxPromotions * Lap \in Nat
  BY LapMore, Numbers DEF TimeInv, TypeOK, CountsOK, AgeInv
<1>1. CASE stage = "work"
  <2>1. age <= elapsed /\ elapsed <= WorkTime
    BY <1>1, LongestTimes DEF TimeInv, StageInv, AgeInv
  <2> QED
    BY <1>0, <2>1, GraceSuffices, Numbers DEF Stale
<1>2. CASE Copying
  <2>1. /\ age <= WorkTime + (MaxPromotions - todo) * Lap + sinceBeat
        /\ (MaxPromotions - todo) * Lap \in Nat /\ sinceBeat \in 0..Lap
        /\ (MaxPromotions - todo) * Lap + Lap <= MaxPromotions * Lap
    BY <1>2, AgeInPromotion
  <2> QED
    BY <1>0, <2>1, GraceSuffices, Numbers DEF Stale
<1>3. CASE stage = "wait"
  <2>1. /\ age + ChunkTime <= WorkTime + MaxPromotions * Lap + elapsed
        /\ elapsed <= PollInterval
    BY <1>3, LongestTimes DEF TimeInv, StageInv, AgeInv
  <2> QED
    BY <1>0, <2>1, GraceSuffices, Numbers DEF Stale
<1> QED
  BY <1>1, <1>2, <1>3 DEF TimeInv, TypeOK, FlagsOK, Copying

\* A heartbeat that can be too old by GraceSuffices is one of a daemon that is
\* stuck: the health check never fails on a daemon at work (daemon.py:114).
THEOREM FalseAlarmsNever == Spec => []NoFalseAlarm
<1>1. IndInv => NoFalseAlarm
  BY AtWorkIsFresh DEF IndInv
<1> QED
  BY <1>1, HeartbeatInvariant, PTL

\* Only a check counts failures, and only of a heartbeat that is too old.
LEMMA OnlyChecksCount ==
  ASSUME [Next]_vars, streak # Retries, streak' = Retries
  PROVE  Check /\ Stale
<1>1. Retries # 0
  BY TimeAssumption
<1> QED
  BY <1>1 DEF Next, Daemon, Clockwork, Start, EndReconcile, BeginTick, NothingToPromote,
      BeginPromotions, BeginCopy, NextChunk, Interrupted, PromotionEnds, NextPromotion, TickFails,
      AfterTick, BeatAndEnd, Pass, Check, StopTimesOut, Autoheal, Hang, Resume, Crash, Stop, Down,
      vars, healthVars

\* A container becomes unhealthy only when the daemon was stuck, also where it
\* starts beside the heartbeat of an earlier process (Dockerfile:38).
THEOREM UnhealthyOnlyStuck == Spec => UnhealthyMeansStuck
<1>1. IndInv /\ IndInv' /\ [Next]_vars => [streak # Retries /\ streak' = Retries => stuck]_vars
  <2> SUFFICES ASSUME IndInv, IndInv', [Next]_vars, streak # Retries, streak' = Retries, ~stuck
               PROVE  FALSE
    OBVIOUS
  <2>1. Check /\ Stale
    BY OnlyChecksCount
  <2>2. stage = "reconcile"
    BY <2>1, AtWorkIsFresh DEF IndInv, NoFalseAlarm, Check
  <2>3. stage' = "reconcile" /\ ~stuck' /\ elapsed' \in Nat /\ elapsed' <= ReconcileTime
    BY <2>1, <2>2, LongestTimes DEF IndInv, TimeInv, TypeOK, CountsOK, StageInv, Check
  <2>4. (Retries + Forgiven) * CheckEvery + SinceCheck' <= elapsed'
    <3>1. Retries > 0 /\ Forgiven' = Forgiven
      BY TimeAssumption DEF Forgiven
    <3> QED
      BY <2>3, <3>1 DEF IndInv, StartingInv
  <2>5. SinceCheck' = 0
    BY <2>1, Numbers DEF Check, SinceCheck
  <2>6. (Retries + Forgiven) * CheckEvery \in Nat
    BY ChecksMore, Numbers DEF Forgiven
  <2> QED
    BY <2>3, <2>4, <2>5, <2>6, StartSuffices, Numbers
<1> QED
  BY <1>1, HeartbeatInvariant, PTL DEF Spec, UnhealthyMeansStuck

\* A stop asked for in a copy is over before the runtime kills (daemon.py:100),
\* whatever is left to copy and to promote.
THEOREM StopsInTime == Spec => []StopInTime
<1>1. IndInv => StopInTime
  <2> SUFFICES ASSUME IndInv, inCopy, ~stuck PROVE stopping # StopTimeout
    BY DEF StopInTime
  <2>1. /\ stopping \in Nat /\ elapsed \in Nat /\ stopping <= elapsed
        /\ elapsed <= ChunkTime \/ elapsed <= SettleTime
    BY LongestTimes DEF IndInv, TimeInv, TypeOK, CountsOK, StageInv, StoppingInv, Copying
  <2> QED
    BY <2>1, StopSuffices, Numbers
<1> QED
  BY <1>1, HeartbeatInvariant, PTL
=============================================================================
