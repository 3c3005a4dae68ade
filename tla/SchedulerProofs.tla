--------------------------- MODULE SchedulerProofs ---------------------------
(***************************************************************************)
(* What the scheduler promises (scheduler.rs).  The poll task, for every   *)
(* set of cadences and Retry-Afters, every ceiling, either credential      *)
(* source and every bound: PollTask.  Account re-discovery, for any number  *)
(* of logins, config loads and starts: Discovery.                          *)
(***************************************************************************)
EXTENDS PollTask, Discovery, TLAPS

-----------------------------------------------------------------------------
(* Arithmetic of the waits.                                                *)

\* The clamped exponent keeps the multiplier a natural number.
LEMMA PowerNat == ASSUME NEW d \in 0..31 PROVE BACKOFF_FACTOR^d \in Nat
<1>1. /\ 2^0 \in Nat /\ 2^1 \in Nat /\ 2^2 \in Nat /\ 2^3 \in Nat
      /\ 2^4 \in Nat /\ 2^5 \in Nat /\ 2^6 \in Nat /\ 2^7 \in Nat
      /\ 2^8 \in Nat /\ 2^9 \in Nat /\ 2^10 \in Nat /\ 2^11 \in Nat
      /\ 2^12 \in Nat /\ 2^13 \in Nat /\ 2^14 \in Nat /\ 2^15 \in Nat
  OBVIOUS
<1>2. /\ 2^16 \in Nat /\ 2^17 \in Nat /\ 2^18 \in Nat /\ 2^19 \in Nat
      /\ 2^20 \in Nat /\ 2^21 \in Nat /\ 2^22 \in Nat /\ 2^23 \in Nat
      /\ 2^24 \in Nat /\ 2^25 \in Nat /\ 2^26 \in Nat /\ 2^27 \in Nat
      /\ 2^28 \in Nat /\ 2^29 \in Nat /\ 2^30 \in Nat /\ 2^31 \in Nat
  OBVIOUS
<1>3. \/ d = 0 \/ d = 1 \/ d = 2 \/ d = 3 \/ d = 4 \/ d = 5 \/ d = 6 \/ d = 7
      \/ d = 8 \/ d = 9 \/ d = 10 \/ d = 11 \/ d = 12 \/ d = 13 \/ d = 14
      \/ d = 15 \/ d = 16 \/ d = 17 \/ d = 18 \/ d = 19 \/ d = 20 \/ d = 21
      \/ d = 22 \/ d = 23 \/ d = 24 \/ d = 25 \/ d = 26 \/ d = 27 \/ d = 28
      \/ d = 29 \/ d = 30 \/ d = 31
  OBVIOUS
<1>4. QED BY <1>1, <1>2, <1>3, Zenon DEF BACKOFF_FACTOR

Throttles == [strikes : Nat, retry_after : Nat]

\* Throttle::delay never polls more often than the configured cadence, and
\* never earlier than the Retry-After of the rate limit it is answering.
THEOREM DelayBounds ==
  ASSUME NEW t \in Throttles, NEW base \in Nat
  PROVE  /\ Delay(t, base) \in Nat
         /\ Delay(t, base) >= base
         /\ t.strikes > 0 => Delay(t, base) >= t.retry_after
<1>1. CASE t.strikes = 0
  BY <1>1 DEF Delay, Throttles
<1>2. CASE t.strikes # 0
  <2> DEFINE d == AtMost(t.strikes - 1, 31)
             p == BACKOFF_FACTOR^d
             scaled == AtLeast(AtMost(base * p, MAX_BACKOFF), base)
  <2>1. d \in 0..31
    BY <1>2 DEF AtMost, Throttles
  <2>2. p \in Nat
    BY <2>1, PowerNat
  <2>3. base * p \in Nat
    <3> HIDE DEF p
    <3> QED BY <2>2
  <2>4. scaled \in Nat /\ scaled >= base
    <3> HIDE DEF p
    <3> QED BY <2>3, PollTaskAssumption DEF AtMost, AtLeast
  <2>5. Delay(t, base) = AtLeast(scaled, t.retry_after)
    BY <1>2 DEF Delay
  <2> HIDE DEF scaled
  <2>6. QED
    BY <2>4, <2>5 DEF AtLeast, Throttles
<1>3. QED BY <1>1, <1>2

\* `jittered` subtracts without wrapping and stays within a tenth, rounded, of
\* its base.
THEOREM JitterBounds ==
  ASSUME NEW base \in Nat, NEW s \in Jittered(base)
  PROVE  s \in Nat /\ 10 * s >= 9 * base /\ 10 * s <= 11 * base + 10
BY DEF Jittered, AtLeast

-----------------------------------------------------------------------------
(* The inductive invariant.                                                *)

Gates == [throttle : Throttles, credential_stale : BOOLEAN]

\* The throttle remembers exactly the provider's last word.
Agrees(throttle, said) ==
  /\ (throttle.strikes > 0) = (said.strikes > 0)
  /\ throttle.retry_after = said.retry_after
  /\ said.strikes = 0 => said.retry_after = 0

\* A disabled provider reports no cadence, also before its task has parked.
DisabledReportsZero == ~config.enabled => published = 0

\* Only a poll begun against a disabled provider counts, and the task cannot be
\* waiting for another one afterwards without having re-read the schedule.
LateInv ==
  /\ late <= 1
  /\ config.enabled => late = 0
  /\ at \in {"start", "wait", "recheck", "resolving"} => late = 0

\* The timer of a settled wait is a jittered form of the cadence reported for it.
TimerInv == at = "wait" /\ ~changed => sleep \in Jittered(published)

IInv ==
  /\ TypeOK
  /\ DisabledReportsZero
  /\ CadenceIsTruthful
  /\ TimerInv
  /\ Agrees(gate.throttle, verdict)
  /\ PauseClockMatchesGate
  /\ LateInv

\* What a pass through the loop re-establishes.
LoopDone ==
  /\ changed \in BOOLEAN /\ published \in Nat /\ at \in Places
  /\ sleep \in Nat /\ poll_immediately \in BOOLEAN /\ gate \in Gates
  /\ paused_since \in BOOLEAN /\ verdict \in Throttles /\ late \in Nat
  /\ DisabledReportsZero
  /\ CadenceIsTruthful
  /\ TimerInv
  /\ Agrees(gate.throttle, verdict)
  /\ PauseClockMatchesGate
  /\ LateInv

LEMMA InitIInv == Init => IInv
<1> SUFFICES ASSUME Init PROVE IInv
  OBVIOUS
<1>1. TypeOK
  BY PollTaskAssumption
  DEF Init, TypeOK, Schedules, Places, DefaultGate, NoThrottle, Reported
<1>2. DisabledReportsZero /\ CadenceIsTruthful /\ TimerInv /\ LateInv
  BY DEF Init, DisabledReportsZero, CadenceIsTruthful, TimerInv, LateInv, Waits, Reported
<1>3. Agrees(gate.throttle, verdict) /\ PauseClockMatchesGate
  BY DEF Init, Agrees, PauseClockMatchesGate, DefaultGate, NoThrottle
<1>4. QED BY <1>1, <1>2, <1>3 DEF IInv

\* One pass through the loop, whatever locals it is entered with.
LEMMA LoopPreserves ==
  ASSUME IInv, NEW g \in Gates, NEW at_once \in BOOLEAN,
         NEW since \in BOOLEAN, NEW said \in Throttles,
         Agrees(g.throttle, said), since = g.credential_stale,
         Loop(g, at_once, since, said), UNCHANGED config
  PROVE  LoopDone'
<1> DEFINE step == NextStep(g, config, at_once)
<1>0. /\ config \in Schedules /\ config.interval \in Nat
      /\ config.enabled \in BOOLEAN
  BY PollTaskAssumption DEF IInv, TypeOK, Schedules
<1>1. changed' = FALSE
  BY DEF Loop
<1>2. CASE step = "park" /\ Park
  <2>1. ~config.enabled
    BY <1>0, <1>2 DEF NextStep
  <2>2. published = 0 /\ late \in Nat /\ late <= 1
    BY <2>1 DEF IInv, DisabledReportsZero, LateInv, TypeOK
  <2>3. QED
    BY <1>0, <1>1, <1>2, <2>1, <2>2
    DEF Park, LoopDone, DisabledReportsZero, CadenceIsTruthful, TimerInv, Agrees,
        PauseClockMatchesGate, LateInv, DefaultGate, NoThrottle, Gates,
        Throttles, Places, Waits
<1>3. CASE step = "poll_now" /\ PollNowStep(g, since, said)
  <2>1. config.enabled
    BY <1>0, <1>3 DEF NextStep
  <2>2. late = 0
    BY <2>1 DEF IInv, LateInv
  <2>3. Delay(g.throttle, config.interval) \in Nat
    BY <1>0, DelayBounds DEF Gates
  <2>4. /\ published' = Delay(g.throttle, config.interval) /\ sleep' = 0
        /\ poll_immediately' = FALSE /\ gate' = g /\ paused_since' = since
        /\ verdict' = said /\ at' = "credential" /\ late' = 0
    BY <1>3, <2>1, <2>2 DEF PollNowStep, BeginPoll
  <2>5. Agrees(gate.throttle, verdict)'
    BY <2>4 DEF Agrees
  <2>6. (DisabledReportsZero /\ CadenceIsTruthful /\ TimerInv /\ LateInv)'
    BY <1>0, <2>1, <2>4 DEF DisabledReportsZero, CadenceIsTruthful, TimerInv, LateInv, Waits
  <2>7. PauseClockMatchesGate'
    BY <2>4 DEF PauseClockMatchesGate
  <2>8. QED
    BY <1>1, <2>3, <2>4, <2>5, <2>6, <2>7 DEF LoopDone, Places, InFlight
<1>4. CASE step \in {"recheck", "wait"}
             /\ WaitStep(step, g, at_once, since, said)
  <2>1. config.enabled
    BY <1>0, <1>4 DEF NextStep
  <2>2. late = 0
    BY <2>1 DEF IInv, LateInv
  <2>3. Delay(g.throttle, config.interval) \in Nat
    BY <1>0, DelayBounds DEF Gates
  <2> DEFINE after == IF step = "recheck"
                      THEN AtMost(config.interval, CREDENTIAL_RECHECK_MAX)
                      ELSE Delay(g.throttle, config.interval)
  <2>4. after \in Nat
    BY <1>0, <2>3, PollTaskAssumption DEF AtMost
  <2>5. sleep' \in Jittered(after)
    BY <1>4 DEF WaitStep
  <2>6. sleep' \in Nat
    <3> HIDE DEF after
    <3> QED BY <2>4, <2>5, JitterBounds
  <2>7. at' = step /\ published' = IF step = "recheck" THEN 0 ELSE after
    BY <1>4 DEF WaitStep
  <2>8. /\ poll_immediately' = at_once /\ gate' = g /\ paused_since' = since
        /\ verdict' = said /\ late' = late
    BY <1>4 DEF WaitStep
  <2>9. Agrees(gate.throttle, verdict)'
    BY <2>8 DEF Agrees
  <2>10. (DisabledReportsZero /\ CadenceIsTruthful /\ TimerInv /\ LateInv)'
    <3> HIDE DEF step
    <3>1. (DisabledReportsZero /\ CadenceIsTruthful /\ LateInv)'
      BY <1>0, <1>4, <2>1, <2>2, <2>7, <2>8
      DEF DisabledReportsZero, CadenceIsTruthful, LateInv, Waits
    <3>2. TimerInv'
      <4> HIDE DEF after
      <4> QED BY <2>5, <2>7 DEF TimerInv
    <3>3. QED BY <3>1, <3>2
  <2>11. PauseClockMatchesGate'
    BY <2>8 DEF PauseClockMatchesGate
  <2>12. published' \in Nat /\ at' \in Places /\ late' \in Nat
    <3> HIDE DEF step, after
    <3> QED BY <1>4, <2>2, <2>4, <2>7, <2>8 DEF Places, Waits
  <2>13. QED
    BY <1>1, <2>6, <2>8, <2>9, <2>10, <2>11, <2>12 DEF LoopDone
<1>5. QED BY <1>2, <1>3, <1>4 DEF Loop

\* A pass through the loop that leaves everybody else's variables well typed.
LEMMA LoopSuffices ==
  ASSUME IInv, LoopDone', UNCHANGED config, triggers' \in Nat,
         credential' \in BOOLEAN, wake' \in BOOLEAN, cadence' \in Nat,
         shutdown' \in BOOLEAN, edits' \in Nat
  PROVE  IInv'
BY DEF IInv, LoopDone, TypeOK, Gates, Throttles

\* The end of a poll, whatever its outcome.
LEMMA PollEndsPreserves ==
  ASSUME IInv, NEW r \in Nat, NEW limited \in BOOLEAN,
         NEW stage \in {"Credential", "Provider"},
         PollEnds([stage |-> stage, limited |-> limited, retry_after |-> r])
  PROVE  IInv'
<1> DEFINE polled == [stage |-> stage, limited |-> limited, retry_after |-> r]
           g      == Record(gate, polled)
           said   == IF polled.stage = "Credential" THEN verdict
                     ELSE IF polled.limited
                     THEN [strikes |-> 1, retry_after |-> polled.retry_after]
                     ELSE NoThrottle
           since  == LogTransition(gate, g, paused_since)
<1>1. gate \in Gates /\ verdict \in Throttles /\ paused_since \in BOOLEAN
  BY DEF IInv, TypeOK, Gates, Throttles
<1>2. g \in Gates /\ said \in Throttles /\ since \in BOOLEAN
  <2>1. said \in Throttles /\ NoThrottle \in Throttles
    BY <1>1 DEF NoThrottle, Throttles
  <2>2. Limited(gate.throttle, r) \in Throttles
    BY <1>1 DEF Limited, Gates, Throttles
  <2>3. gate.throttle \in Throttles
    BY <1>1 DEF Gates
  <2>4. g \in Gates
    BY <2>1, <2>2, <2>3 DEF Record, Gates
  <2>5. since \in BOOLEAN
    BY <1>1 DEF LogTransition
  <2>6. QED BY <2>1, <2>4, <2>5
<1>3. Agrees(g.throttle, said)
  <2>1. CASE stage = "Credential"
    BY <2>1, <1>1 DEF IInv, Record
  <2>2. CASE stage = "Provider" /\ limited
    <3>1. g.throttle = Limited(gate.throttle, r)
      BY <2>2 DEF Record
    <3>2. g.throttle.strikes > 0 /\ g.throttle.retry_after = r
      BY <3>1, <1>1, PollTaskAssumption DEF Limited, Gates, Throttles
    <3>3. said = [strikes |-> 1, retry_after |-> r]
      BY <2>2
    <3>4. QED BY <3>2, <3>3 DEF Agrees
  <2>3. CASE stage = "Provider" /\ ~limited
    BY <2>3 DEF Record, Agrees, NoThrottle
  <2>4. QED BY <2>1, <2>2, <2>3
<1>4. since = g.credential_stale
  BY <1>1 DEF IInv, PauseClockMatchesGate, LogTransition, Record, Gates
<1>5. /\ Loop(g, poll_immediately, since, said) /\ wake' = TRUE
      /\ UNCHANGED <<config, triggers, credential, cadence, shutdown, edits>>
  BY Zenon DEF PollEnds
<1>6. LoopDone'
  <2> HIDE DEF g, said, since
  <2> QED BY <1>2, <1>3, <1>4, <1>5, LoopPreserves DEF IInv, TypeOK
<1>7. QED
  BY <1>5, <1>6, LoopSuffices DEF IInv, TypeOK

LEMMA NextIInv == IInv /\ [Next]_vars => IInv'
<1> SUFFICES ASSUME IInv, [Next]_vars PROVE IInv'
  OBVIOUS
<1>0. /\ gate \in Gates /\ verdict \in Throttles /\ paused_since \in BOOLEAN
      /\ poll_immediately \in BOOLEAN /\ paused_since = gate.credential_stale
      /\ Agrees(gate.throttle, verdict)
  BY DEF IInv, TypeOK, Gates, Throttles, PauseClockMatchesGate
<1>1. CASE Start \/ TakeSchedule
  <2>1. /\ Loop(gate, poll_immediately, paused_since, verdict)
        /\ UNCHANGED <<config, triggers, credential, wake, cadence, shutdown,
                       edits>>
    BY <1>1 DEF Start, TakeSchedule
  <2>2. LoopDone'
    BY <1>0, <2>1, LoopPreserves
  <2>3. QED
    BY <2>1, <2>2, LoopSuffices DEF IInv, TypeOK
<1>2. CASE TimerFires
  BY <1>2 DEF TimerFires, BeginPoll, IInv, TypeOK, DisabledReportsZero,
              CadenceIsTruthful, TimerInv, Agrees, PauseClockMatchesGate, LateInv,
              Places, Waits, InFlight
<1>3. CASE TakeTrigger
  BY <1>3 DEF TakeTrigger, BeginPoll, IInv, TypeOK, DisabledReportsZero,
              CadenceIsTruthful, TimerInv, Agrees, PauseClockMatchesGate, LateInv,
              Places, Waits, InFlight
<1>4. CASE TakeShutdown
  BY <1>4 DEF TakeShutdown, IInv, TypeOK, DisabledReportsZero,
              CadenceIsTruthful, TimerInv, Agrees, PauseClockMatchesGate, LateInv,
              Places, Waits
<1>5. CASE RecheckDone
  <2>1. UNCHANGED <<config, triggers, credential, wake, cadence, shutdown,
                    edits>>
    BY <1>5 DEF RecheckDone
  <2>2. CASE credential
    <3> DEFINE g == [gate EXCEPT !.credential_stale = FALSE]
    <3>1. g \in Gates /\ g.throttle = gate.throttle /\ ~g.credential_stale
      BY <1>0 DEF Gates
    <3>2. LogTransition(gate, g, paused_since) = FALSE
      BY <1>0, <3>1 DEF LogTransition, Gates
    <3>3. Loop(g, TRUE, FALSE, verdict)
      BY <1>5, <2>2, <3>2 DEF RecheckDone
    <3>4. LoopDone'
      <4> HIDE DEF g
      <4>1. g.credential_stale = FALSE
        BY <3>1 DEF Gates
      <4>2. Agrees(g.throttle, verdict)
        BY <1>0, <3>1
      <4>3. QED BY <1>0, <2>1, <3>1, <4>1, <4>2, <3>3, LoopPreserves
    <3>5. QED
      BY <2>1, <3>4, LoopSuffices DEF IInv, TypeOK
  <2>3. CASE ~credential
    <3>1. Loop(gate, poll_immediately, paused_since, verdict)
      BY <1>5, <2>3 DEF RecheckDone
    <3>2. LoopDone'
      BY <1>0, <2>1, <3>1, LoopPreserves
    <3>3. QED
      BY <2>1, <3>2, LoopSuffices DEF IInv, TypeOK
  <2>4. QED BY <2>2, <2>3
<1>6. CASE CredentialFails
  BY <1>6, PollEndsPreserves DEF CredentialFails
<1>7. CASE CredentialResolves
  BY <1>7 DEF CredentialResolves, IInv, TypeOK, DisabledReportsZero,
              CadenceIsTruthful, TimerInv, Agrees, PauseClockMatchesGate, LateInv,
              Places, Waits, InFlight
<1>8. CASE Answer
  <2>1. CASE ProviderAnswers
    BY <2>1, PollEndsPreserves DEF ProviderAnswers
  <2>2. ASSUME NEW r \in RetryAfters, ProviderLimits(r) PROVE IInv'
    <3>1. r \in Nat
      BY PollTaskAssumption
    <3>2. QED BY <2>2, <3>1, PollEndsPreserves DEF ProviderLimits
  <2>3. QED BY <1>8, <2>1, <2>2 DEF Answer
<1>9. ASSUME NEW s \in Schedules, InstallConfig(s) PROVE IInv'
  BY <1>9, PollTaskAssumption
  DEF InstallConfig, Reported, IInv, TypeOK, Schedules, DisabledReportsZero,
      CadenceIsTruthful, TimerInv, Agrees, PauseClockMatchesGate, LateInv
<1>10. CASE PollNow \/ Refresh \/ Shutdown
  <2>1. /\ triggers' \in Nat /\ wake' \in BOOLEAN /\ cadence' \in Nat
        /\ shutdown' \in BOOLEAN
    <3>1. CASE PollNow
      BY <3>1 DEF PollNow, IInv, TypeOK
    <3>2. CASE Refresh
      BY <3>2 DEF Refresh, IInv, TypeOK
    <3>3. CASE Shutdown
      BY <3>3 DEF Shutdown, IInv, TypeOK
    <3>4. QED BY <1>10, <3>1, <3>2, <3>3
  <2>2. UNCHANGED <<config, changed, published, at, sleep, poll_immediately,
                    gate, paused_since, credential, edits, verdict, late>>
    BY <1>10 DEF PollNow, Refresh, Shutdown
  <2>3. QED
    BY <2>1, <2>2 DEF IInv, TypeOK, DisabledReportsZero, CadenceIsTruthful, TimerInv,
                      Agrees, PauseClockMatchesGate, LateInv
<1>12. CASE LoginChanges
  <2>1. credential' \in BOOLEAN
    BY <1>12, Zenon DEF LoginChanges
  <2>2. UNCHANGED <<config, changed, published, at, sleep, poll_immediately,
                    gate, paused_since, triggers, wake, cadence, shutdown,
                    edits, verdict, late>>
    BY <1>12 DEF LoginChanges
  <2>3. QED
    BY <2>1, <2>2 DEF IInv, TypeOK, DisabledReportsZero, CadenceIsTruthful, TimerInv,
                      Agrees, PauseClockMatchesGate, LateInv
<1>11. CASE UNCHANGED vars
  BY <1>11 DEF vars, IInv, TypeOK, DisabledReportsZero, CadenceIsTruthful, TimerInv,
               Agrees, PauseClockMatchesGate, LateInv
<1> QED
  BY <1>1, <1>2, <1>3, <1>4, <1>5, <1>6, <1>7, <1>8, <1>9, <1>10, <1>11,
     <1>12
  DEF Next, Task, Environment

LEMMA SpecIInv == Spec => []IInv
BY InitIInv, NextIInv, PTL DEF Spec

-----------------------------------------------------------------------------
(* The theorems.                                                           *)

\* Every variable of the poll task keeps its type; in particular the trigger
\* count never goes below zero and a jittered sleep never wraps.
THEOREM TypeCorrect == Spec => []TypeOK
BY SpecIInv, PTL DEF IInv

\* The cadence Status reports is the one a settled task is waiting for.
THEOREM CadenceCorrect == Spec => []CadenceIsTruthful
BY SpecIInv, PTL DEF IInv

\* A provider switched off in the config is polled at most once more.
THEOREM LatePollBound == Spec => []AtMostOneLatePoll
<1>1. IInv => AtMostOneLatePoll
  BY DEF IInv, LateInv, AtMostOneLatePoll
<1>2. QED BY SpecIInv, <1>1, PTL

\* Every pause that is opened in the log is closed.
THEOREM PauseClockCorrect == Spec => []PauseClockMatchesGate
BY SpecIInv, PTL DEF IInv

\* A backoff survives everything but the provider's own next word and parking:
\* the timer that is armed is at most a tenth shorter than the Retry-After and
\* than the configured cadence.
THEOREM BackoffCorrect == Spec => []BackoffHonoured
<1>1. IInv => BackoffHonoured
  <2> SUFFICES ASSUME IInv PROVE BackoffHonoured
    OBVIOUS
  <2>1. /\ gate.throttle \in Throttles /\ config.interval \in Nat
        /\ verdict \in Throttles /\ Agrees(gate.throttle, verdict)
        /\ published \in Nat /\ sleep \in Nat
    BY PollTaskAssumption DEF IInv, TypeOK, Throttles, Schedules
  <2>2. ASSUME at = "wait", ~changed
        PROVE  /\ 10 * sleep >= 9 * verdict.retry_after
               /\ 10 * sleep >= 9 * config.interval
    <3>1. published = Delay(gate.throttle, config.interval)
      BY <2>2 DEF IInv, CadenceIsTruthful, Waits
    <3>2. published >= verdict.retry_after /\ published >= config.interval
      <4>1. CASE gate.throttle.strikes > 0
        BY <2>1, <3>1, <4>1, DelayBounds DEF Agrees
      <4>2. CASE ~(gate.throttle.strikes > 0)
        <5>1. verdict.retry_after = 0
          BY <2>1, <4>2 DEF Agrees, Throttles
        <5>2. published >= config.interval
          BY <2>1, <3>1, DelayBounds
        <5>3. QED BY <2>1, <5>1, <5>2
      <4>3. QED BY <4>1, <4>2
    <3>3. 10 * sleep >= 9 * published
      BY <2>1, <2>2, JitterBounds DEF IInv, TimerInv
    <3>4. verdict.retry_after \in Nat
      BY <2>1 DEF Throttles
    <3>5. QED BY <2>1, <3>2, <3>3, <3>4
  <2>3. QED BY <2>1, <2>2 DEF BackoffHonoured, Agrees
<1>2. QED BY SpecIInv, <1>1, PTL
-----------------------------------------------------------------------------
(* Polls are spaced.                                                       *)

\* The demand for an immediate poll is spent by the poll it starts: it is up
\* only in a task that has not polled since it started or was unparked.
DemandInv ==
  /\ at \in {"wait", "recheck", "resolving"} \cup InFlight => ~poll_immediately
  /\ at = "start" => poll_immediately

\* Where a pass through the loop leaves the task, by the demand it came with.
LEMMA LoopPlaces ==
  ASSUME config \in Schedules, NEW g, g.credential_stale \in BOOLEAN,
         NEW at_once \in BOOLEAN, NEW since, NEW said,
         Loop(g, at_once, since, said)
  PROVE  /\ at' \in Waits \cup {"credential"}
         /\ at' = "park" => ~config.enabled /\ UNCHANGED published
         /\ at' # "park" => config.enabled /\ ~poll_immediately'
         /\ at' = "credential" => at_once
         /\ at' = "recheck" => g.credential_stale /\ gate' = g /\ published' = 0
         /\ at' \in {"recheck", "wait"} => ~at_once
<1> DEFINE step == NextStep(g, config, at_once)
<1>0. config.enabled \in BOOLEAN
  BY DEF Schedules
<1>1. CASE step = "park" /\ Park
  BY <1>0, <1>1 DEF NextStep, Park, Waits
<1>2. CASE step = "poll_now" /\ PollNowStep(g, since, said)
  BY <1>0, <1>2 DEF NextStep, PollNowStep, BeginPoll, Waits
<1>3. CASE step \in {"recheck", "wait"}
             /\ WaitStep(step, g, at_once, since, said)
  <2>1. config.enabled /\ ~at_once
    BY <1>0, <1>3 DEF NextStep
  <2>2. step = "recheck" => g.credential_stale
    BY <1>0, <2>1 DEF NextStep
  <2>3. /\ at' = step /\ poll_immediately' = at_once /\ gate' = g
        /\ step = "recheck" => published' = 0
    BY <1>3 DEF WaitStep
  <2>4. QED
    <3> HIDE DEF step
    <3> QED BY <1>3, <2>1, <2>2, <2>3 DEF Waits
<1>4. QED BY <1>1, <1>2, <1>3 DEF Loop

\* The loop, with the locals each of its callers brings.
LEMMA LoopEntered ==
  ASSUME IInv,
         \/ Start \/ TakeSchedule \/ RecheckDone
         \/ CredentialFails \/ Answer
  PROVE  \E g, since, said :
           \E at_once \in BOOLEAN :
             /\ g.credential_stale \in BOOLEAN
             /\ Loop(g, at_once, since, said)
             /\ UNCHANGED <<config, credential, cadence>>
             /\ \/ /\ at \in InFlight /\ wake' = TRUE
                   /\ at_once = poll_immediately
                \/ /\ at = "resolving" /\ UNCHANGED wake /\ credential
                   /\ at_once = TRUE
                \/ /\ at \in Waits \cup {"start", "resolving"} /\ UNCHANGED wake
                   /\ at = "resolving" => ~credential
                   /\ at \in Waits => changed
                   /\ at_once = poll_immediately /\ g = gate
<1>0. poll_immediately \in BOOLEAN /\ gate.credential_stale \in BOOLEAN
  BY DEF IInv, TypeOK
<1>1. CASE Start \/ TakeSchedule
  <2>1. /\ Loop(gate, poll_immediately, paused_since, verdict)
        /\ UNCHANGED <<config, credential, cadence>> /\ UNCHANGED wake
        /\ at \in Waits \cup {"start", "resolving"} /\ at # "resolving"
        /\ at \in Waits => changed
    BY <1>1 DEF Start, TakeSchedule, Waits
  <2>2. QED BY <1>0, <2>1, Zenon
<1>2. CASE RecheckDone /\ credential
  <2> DEFINE g == [gate EXCEPT !.credential_stale = FALSE]
  <2>1. g.credential_stale \in BOOLEAN
    BY DEF IInv, TypeOK
  <2>2. /\ Loop(g, TRUE, LogTransition(gate, g, paused_since), verdict)
        /\ UNCHANGED <<config, credential, cadence>> /\ UNCHANGED wake
        /\ at = "resolving"
    BY <1>2 DEF RecheckDone
  <2> HIDE DEF g
  <2>3. QED BY <1>2, <2>1, <2>2, Zenon
<1>3. CASE RecheckDone /\ ~credential
  <2>1. /\ Loop(gate, poll_immediately, paused_since, verdict)
        /\ UNCHANGED <<config, credential, cadence>> /\ UNCHANGED wake
        /\ at \in Waits \cup {"start", "resolving"} /\ at \notin Waits
    BY <1>3 DEF RecheckDone, Waits
  <2>2. QED BY <1>0, <1>3, <2>1, Zenon
<1>4. ASSUME NEW polled, PollEnds(polled), at \in InFlight
      PROVE  \E g, since, said :
               \E at_once \in BOOLEAN :
                 /\ g.credential_stale \in BOOLEAN
                 /\ Loop(g, at_once, since, said)
                 /\ UNCHANGED <<config, credential, cadence>>
                 /\ at \in InFlight /\ wake' = TRUE
                 /\ at_once = poll_immediately
  <2>1. Record(gate, polled).credential_stale \in BOOLEAN
    BY DEF Record
  <2>2. /\ wake' = TRUE /\ UNCHANGED <<config, credential, cadence>>
        /\ \E since, said :
             Loop(Record(gate, polled), poll_immediately, since, said)
    BY <1>4, Zenon DEF PollEnds
  <2>3. QED BY <1>0, <1>4, <2>1, <2>2, Zenon
<1>5. CASE CredentialFails
  <2>1. at \in InFlight
    BY <1>5 DEF CredentialFails, InFlight
  <2>2. \E polled : PollEnds(polled)
    BY <1>5, Zenon DEF CredentialFails
  <2>3. QED BY <1>4, <2>1, <2>2, Zenon
<1>6. CASE Answer
  <2>1. at \in InFlight
    BY <1>6 DEF Answer, ProviderAnswers, ProviderLimits, InFlight
  <2>2. \E polled : PollEnds(polled)
    BY <1>6, Zenon DEF Answer, ProviderAnswers, ProviderLimits
  <2>3. QED BY <1>4, <2>1, <2>2, Zenon
<1>7. QED BY <1>1, <1>2, <1>3, <1>5, <1>6

LEMMA DemandNext == IInv /\ DemandInv /\ [Next]_vars => DemandInv'
<1> SUFFICES ASSUME IInv, DemandInv, [Next]_vars PROVE DemandInv'
  OBVIOUS
<1>0. config \in Schedules
  BY DEF IInv, TypeOK
<1>1. CASE Start \/ TakeSchedule \/ RecheckDone \/ CredentialFails \/ Answer
  <2>1. PICK g, since, said :
          \E at_once \in BOOLEAN :
            /\ g.credential_stale \in BOOLEAN
            /\ Loop(g, at_once, since, said)
    BY <1>1, LoopEntered, Zenon
  <2>2. /\ at' \in Waits \cup {"credential"}
        /\ at' # "park" => ~poll_immediately'
    BY <1>0, <2>1, LoopPlaces
  <2>3. QED BY <2>2 DEF DemandInv, Waits, InFlight
<1>2. CASE TimerFires \/ TakeTrigger \/ TakeShutdown \/ CredentialResolves
  BY <1>2 DEF TimerFires, TakeTrigger, TakeShutdown, CredentialResolves,
              BeginPoll, DemandInv, Waits, InFlight
<1>3. CASE Environment \/ UNCHANGED vars
  <2>1. UNCHANGED <<at, poll_immediately>>
    BY <1>3 DEF Environment, InstallConfig, PollNow, Refresh, LoginChanges,
                Shutdown, vars
  <2>2. QED BY <2>1 DEF DemandInv
<1>4. QED BY <1>1, <1>2, <1>3 DEF Next, Task

\* A poll that ends is followed by a wait, never directly by another poll.
THEOREM PollsSpaced == Spec => PollsAreSpaced
<1>1. Init => DemandInv
  BY DEF Init, DemandInv, InFlight
<1>2. ASSUME IInv, DemandInv, [Next]_vars, at' # at,
             at = "probe" \/ (at = "credential" /\ at' # "probe")
      PROVE  wake' /\ at' \in Waits
  <2>1. at \in InFlight
    BY <1>2 DEF InFlight
  <2>2. CredentialFails \/ Answer
    BY <1>2 DEF Next, Task, Environment, Start, TimerFires, TakeTrigger,
                TakeSchedule, TakeShutdown, RecheckDone, CredentialResolves,
                InstallConfig, PollNow, Refresh, LoginChanges, Shutdown,
                Waits, vars
  <2>3. PICK g, since, said :
          \E at_once \in BOOLEAN :
            /\ g.credential_stale \in BOOLEAN
            /\ Loop(g, at_once, since, said)
            /\ \/ /\ at \in InFlight /\ wake' = TRUE
                  /\ at_once = poll_immediately
               \/ at \notin InFlight
    <3>1. at # "resolving" /\ at \notin Waits \cup {"start", "resolving"}
      BY <2>1 DEF InFlight, Waits
    <3>2. QED BY <1>2, <2>1, <2>2, <3>1, LoopEntered, Zenon
  <2>4. wake'
    BY <2>1, <2>3, Zenon
  <2>5. ~poll_immediately
    BY <1>2, <2>1 DEF DemandInv
  <2>6. config \in Schedules
    BY <1>2 DEF IInv, TypeOK
  <2>7. PICK at_once \in BOOLEAN :
          /\ g.credential_stale \in BOOLEAN
          /\ Loop(g, at_once, since, said)
          /\ ~at_once
    BY <2>1, <2>3, <2>5, Zenon
  <2>8. /\ at' \in Waits \cup {"credential"}
        /\ at' = "credential" => at_once
    BY <2>6, <2>7, LoopPlaces
  <2>9. QED BY <2>4, <2>7, <2>8
<1>3. IInv /\ DemandInv /\ [Next]_vars
        => [(at' # at /\ (at = "probe" \/ (at = "credential" /\ at' # "probe")))
              => (wake' /\ at' \in Waits)]_vars
  BY <1>2
<1>4. QED BY <1>1, <1>3, SpecIInv, DemandNext, PTL DEF Spec, PollsAreSpaced

-----------------------------------------------------------------------------
(* The client is not misled, when the credential is read from a file.      *)

\* An unseen schedule keeps a wake-up on its way until the task has looked at
\* it, and a client with none on its way shows what is published.  A re-check
\* that fails publishes what was published before it.
ClientInv ==
  /\ at \in Waits \cup {"resolving", "start"} /\ ~wake => cadence = published
  /\ changed /\ at \in Waits \cup {"resolving"} => wake
  /\ at \in {"recheck", "resolving"} /\ ~changed =>
       config.enabled /\ gate.credential_stale /\ published = 0

LEMMA ClientNext ==
  ASSUME CredentialSource = "file"
  PROVE  IInv /\ DemandInv /\ ClientInv /\ [Next]_vars => ClientInv'
<1> SUFFICES ASSUME IInv, DemandInv, ClientInv, [Next]_vars PROVE ClientInv'
  OBVIOUS
<1>0. config \in Schedules /\ changed \in BOOLEAN /\ wake \in BOOLEAN
  BY DEF IInv, TypeOK
<1>1. CASE Start \/ TakeSchedule \/ RecheckDone \/ CredentialFails \/ Answer
  <2>1. PICK g, since, said :
          \E at_once \in BOOLEAN :
             /\ g.credential_stale \in BOOLEAN
             /\ Loop(g, at_once, since, said)
             /\ UNCHANGED <<config, credential, cadence>>
             /\ \/ /\ at \in InFlight /\ wake' = TRUE
                   /\ at_once = poll_immediately
                \/ /\ at = "resolving" /\ UNCHANGED wake /\ credential
                   /\ at_once = TRUE
                \/ /\ at \in Waits \cup {"start", "resolving"} /\ UNCHANGED wake
                   /\ at = "resolving" => ~credential
                   /\ at \in Waits => changed
                   /\ at_once = poll_immediately /\ g = gate
    BY <1>1, LoopEntered
  <2>2. PICK at_once \in BOOLEAN :
             /\ g.credential_stale \in BOOLEAN
             /\ Loop(g, at_once, since, said)
             /\ UNCHANGED <<config, credential, cadence>>
             /\ \/ /\ at \in InFlight /\ wake' = TRUE
                   /\ at_once = poll_immediately
                \/ /\ at = "resolving" /\ UNCHANGED wake /\ credential
                   /\ at_once = TRUE
                \/ /\ at \in Waits \cup {"start", "resolving"} /\ UNCHANGED wake
                   /\ at = "resolving" => ~credential
                   /\ at \in Waits => changed
                   /\ at_once = poll_immediately /\ g = gate
    BY <2>1
  <2>3. /\ at' \in Waits \cup {"credential"}
        /\ at' = "park" => ~config.enabled /\ UNCHANGED published
        /\ at' # "park" => config.enabled
        /\ at' = "recheck" => g.credential_stale /\ gate' = g /\ published' = 0
        /\ at' \in {"recheck", "wait"} => ~at_once
    BY <1>0, <2>2, LoopPlaces
  <2>4. ~changed' /\ (at' = "wait" => ~g.credential_stale)
    <3>1. changed' = FALSE
      BY <2>2 DEF Loop
    <3>2. at' = "wait" => ~g.credential_stale
      BY <1>0, <2>2 DEF Loop, NextStep, Park, PollNowStep, BeginPoll, WaitStep,
                        Schedules
    <3>3. QED BY <3>1, <3>2
  <2>5. ASSUME at' \in Waits, ~wake' PROVE cadence' = published'
    <3>1. ~wake /\ UNCHANGED cadence
            /\ at \in Waits \cup {"start", "resolving"}
      BY <2>2, <2>3, <2>5
    <3>2. CASE at' = "park"
      BY <2>3, <3>1, <3>2 DEF ClientInv
    <3>3. CASE at' # "park"
      <4>1. config.enabled /\ ~at_once
        BY <2>3, <2>5, <3>3 DEF Waits
      <4>2. at = "resolving" /\ ~changed /\ g = gate
        BY <2>2, <2>5, <3>1, <4>1 DEF ClientInv, DemandInv, InFlight, Waits
      <4>3. gate.credential_stale /\ published = 0 /\ cadence = published
        BY <3>1, <4>2 DEF ClientInv
      <4>4. QED BY <2>3, <2>4, <2>5, <3>1, <3>3, <4>2, <4>3 DEF Waits
    <3>4. QED BY <3>2, <3>3
  <2>6. QED BY <2>3, <2>4, <2>5, <2>2 DEF ClientInv, Waits
<1>2. CASE TimerFires \/ TakeTrigger \/ TakeShutdown \/ CredentialResolves
  BY <1>2 DEF TimerFires, TakeTrigger, TakeShutdown, CredentialResolves,
              BeginPoll, ClientInv, Waits, InFlight
<1>3. ASSUME NEW s \in Schedules, InstallConfig(s) PROVE ClientInv'
  BY <1>3 DEF InstallConfig, ClientInv
<1>4. CASE PollNow \/ Shutdown \/ LoginChanges \/ UNCHANGED vars
  <2>1. UNCHANGED <<config, changed, published, at, gate, wake, cadence>>
    BY <1>4 DEF PollNow, Shutdown, LoginChanges, vars
  <2>2. QED BY <2>1 DEF ClientInv
<1>5. CASE Refresh
  BY <1>5 DEF Refresh, Yielded, ClientInv, Waits
<1>6. QED BY <1>1, <1>2, <1>3, <1>4, <1>5 DEF Next, Task, Environment

\* What a settled client shows is what Status would tell it, for a credential
\* that is read from a file.  (For one that is awaited it is not so:
\* PollTaskKeychainStale.cfg has a counterexample.)
THEOREM ClientCorrect ==
  ASSUME CredentialSource = "file"
  PROVE  Spec => []ClientNotMisled
<1>1. Init => DemandInv /\ ClientInv
  BY DEF Init, DemandInv, ClientInv, InFlight, Waits
<1>2. ClientInv => ClientNotMisled
  BY DEF ClientInv, ClientNotMisled
<1>3. IInv /\ DemandInv /\ ClientInv /\ [Next]_vars => ClientInv'
  BY ClientNext
<1>4. QED BY <1>1, <1>2, <1>3, SpecIInv, DemandNext, PTL DEF Spec

-----------------------------------------------------------------------------
(* Account re-discovery: Discovery, for any number of logins, config loads *)
(* and starts, with and without a Keychain.                                *)

Starting == task \in {"starting", "starting_keychain"}
Trying   == task \in {"parked", "sleeping", "keychain"}

\* Where the discovery stands says what has been started and what is shown:
\* nothing while the first attempt runs, the reason of the latest attempt while
\* the task tries again, one account once it has ended.
Stands ==
  /\ task # "none"
  /\ Starting => accounts = 0 /\ error = NoError
  /\ Trying => accounts = 0 /\ error = last /\ error # NoError
  /\ task = "ended" => accounts = 1 /\ error = NoError

DInv == DiscoveryTypeOK /\ accounts \in {0, 1} /\ (up => Stands)

LEMMA InitDInv ==
  ASSUME DiscoveryInit
  PROVE  DInv
<1> USE DiscoveryAssumption
<1>1. FlagsOK /\ ~up
  BY Zenon DEF DiscoveryInit, FlagsOK
<1>2. ValuesOK /\ accounts \in {0, 1}
  BY SMT
     DEF DiscoveryAssumption, DiscoveryInit, ValuesOK, Tasks, Results,
         NoError
<1> QED
  BY <1>1, <1>2 DEF DInv, DiscoveryTypeOK

LEMMA ReadingResults ==
  ASSUME DiscoveryTypeOK
  PROVE  LoadFile \in Results /\ KeychainAnswers \subseteq Results
BY DEF DiscoveryTypeOK, ValuesOK, LoadFile, KeychainAnswers,
       ParseCredentials, Results, Contents

\* A pass of the loop, after an attempt that failed or without one.
LEMMA PassPreserves ==
  ASSUME DInv, up, RediscoveryLoop, accounts = 0, accounts' = accounts,
         error' \in Results \ {NoError}, last' = error',
         seen' \in {seen, generation},
         UNCHANGED <<file, keychain, up, enabled, generation, changes,
                     starts>>
  PROVE  DInv'
<1>1. FlagsOK'
  BY Zenon DEF DInv, DiscoveryTypeOK, FlagsOK, RediscoveryLoop
<1>2. task' \in {"parked", "sleeping"}
  BY Zenon DEF RediscoveryLoop
<1>3. ValuesOK' /\ accounts' \in {0, 1} /\ Stands'
  BY <1>2, SMT
     DEF DInv, DiscoveryTypeOK, ValuesOK, Tasks, Stands, Starting, Trying
<1> QED
  BY <1>1, <1>3 DEF DInv, DiscoveryTypeOK

\* A login that is found.
LEMMA FoundPreserves ==
  ASSUME DInv, up, StartAccount, accounts = 0, task' = "ended",
         error' = NoError, last' = NoError, seen' \in {seen, generation},
         UNCHANGED <<file, keychain, up, enabled, generation, immediately,
                     changes, starts>>
  PROVE  DInv'
<1>1. FlagsOK'
  BY Zenon DEF DInv, DiscoveryTypeOK, FlagsOK
<1>2. ValuesOK' /\ accounts' \in {0, 1} /\ Stands'
  BY SMT DEF DInv, DiscoveryTypeOK, ValuesOK, Tasks, Stands, Starting, Trying,
             StartAccount, Results
<1> QED
  BY <1>1, <1>2 DEF DInv, DiscoveryTypeOK

\* The first attempt leaves one account or a reason.
LEMMA StartupPreserves ==
  ASSUME DInv, up, Starting, NEW result \in Results, StartupEnds(result)
  PROVE  DInv'
<1>1. accounts = 0 /\ error = NoError
  BY DEF DInv, Stands
<1>2. CASE result = NoError
  BY <1>1, <1>2, FoundPreserves DEF StartupEnds
<1>3. CASE result # NoError
  BY <1>1, <1>3, PassPreserves DEF StartupEnds
<1> QED
  BY <1>2, <1>3

\* So does every later one.
LEMMA AttemptPreserves ==
  ASSUME DInv, up, Trying, NEW result \in Results, AttemptEnds(result),
         seen' \in {seen, generation},
         UNCHANGED <<file, keychain, up, enabled, generation, changes,
                     starts>>
  PROVE  DInv'
<1>1. accounts = 0
  BY DEF DInv, Stands
<1>2. CASE result = NoError
  BY <1>1, <1>2, FoundPreserves DEF AttemptEnds
<1>3. CASE result # NoError
  BY <1>1, <1>3, PassPreserves DEF AttemptEnds
<1> QED
  BY <1>2, <1>3

LEMMA BeginningPreserves ==
  ASSUME DInv, up, Trying, Attempt, seen' \in {seen, generation},
         UNCHANGED <<file, keychain, up, enabled, generation, changes,
                     starts>>
  PROVE  DInv'
<1>1. CASE ReadsKeychain
  <2>1. FlagsOK'
    BY <1>1, Zenon DEF Attempt, DInv, DiscoveryTypeOK, FlagsOK
  <2>2. task' = "keychain" /\ UNCHANGED <<accounts, error, last>>
    BY <1>1 DEF Attempt
  <2>3. ValuesOK' /\ accounts' \in {0, 1} /\ Stands'
    BY <2>2, SMT
       DEF DInv, DiscoveryTypeOK, ValuesOK, Tasks, Stands, Starting, Trying
  <2> QED
    BY <2>1, <2>3 DEF DInv, DiscoveryTypeOK
<1>2. CASE ~ReadsKeychain
  BY <1>2, AttemptPreserves, ReadingResults DEF Attempt, DInv
<1> QED
  BY <1>1, <1>2

LEMMA NextDInv ==
  ASSUME DInv, [DiscoveryNext]_discoveryVars
  PROVE  DInv'
<1> USE DiscoveryAssumption
<1>1. ASSUME NEW on \in BOOLEAN, StartDaemon(on) PROVE DInv'
  <2>1. FlagsOK'
    BY <1>1, Zenon DEF StartDaemon, DInv, DiscoveryTypeOK, FlagsOK
  <2>2. task' \in {"starting", "starting_keychain"}
    BY <1>1 DEF StartDaemon
  <2>3. ValuesOK' /\ accounts' \in {0, 1} /\ Stands'
    BY <1>1, <2>2, SMT
       DEF DiscoveryAssumption, StartDaemon, DInv, DiscoveryTypeOK, ValuesOK,
           Tasks, Results, NoError, Stands,
           Starting, Trying
  <2> QED
    BY <2>1, <2>3 DEF DInv, DiscoveryTypeOK
<1>2. ASSUME NEW on \in BOOLEAN, LoadConfig(on) PROVE DInv'
  <2>1. FlagsOK'
    BY <1>2, Zenon DEF LoadConfig, DInv, DiscoveryTypeOK, FlagsOK
  <2>2. ValuesOK' /\ accounts' \in {0, 1} /\ (up' => Stands')
    BY <1>2, SMT
       DEF DiscoveryAssumption, LoadConfig, DInv, DiscoveryTypeOK, ValuesOK,
           Stands, Starting, Trying
  <2> QED
    BY <2>1, <2>2 DEF DInv, DiscoveryTypeOK
<1>3. CASE StartupReadsFile
  BY <1>3, StartupPreserves, ReadingResults
     DEF StartupReadsFile, Starting, DInv
<1>4. CASE StartupReadsKeychain
  BY <1>4, StartupPreserves, ReadingResults
     DEF StartupReadsKeychain, Starting, DInv
<1>5. CASE SleepElapses
  BY <1>5, BeginningPreserves DEF SleepElapses, Trying
<1>6. CASE AttemptReadsKeychain
  BY <1>6, AttemptPreserves, ReadingResults
     DEF AttemptReadsKeychain, Trying, DInv
<1>7. CASE Wake
  <2>1. up /\ Trying /\ seen' = generation
    BY <1>7 DEF Wake, WakesByConfig, Trying
  <2>2. CASE Attempt
    BY <1>7, <2>1, <2>2, BeginningPreserves DEF Wake
  <2>3. CASE RediscoveryLoop /\ UNCHANGED <<accounts, error, last>>
    <3>1. accounts = 0 /\ error = last /\ error \in Results \ {NoError}
      BY <2>1 DEF DInv, Stands, DiscoveryTypeOK, ValuesOK
    <3> QED
      BY <1>7, <2>1, <2>3, <3>1, PassPreserves DEF Wake
  <2> QED
    BY <1>7, <2>2, <2>3 DEF Wake, WakesByConfig
<1>8. CASE ChangeLogin
  <2>1. FlagsOK'
    BY <1>8, Zenon DEF ChangeLogin, DInv, DiscoveryTypeOK, FlagsOK
  <2>2. ValuesOK' /\ accounts' \in {0, 1} /\ (up' => Stands')
    BY <1>8, SMT
       DEF DiscoveryAssumption, ChangeLogin, DInv, DiscoveryTypeOK, ValuesOK,
           Stands, Starting, Trying
  <2> QED
    BY <2>1, <2>2 DEF DInv, DiscoveryTypeOK
<1>9. CASE Stop
  <2>1. FlagsOK' /\ ~up'
    BY <1>9, Zenon DEF Stop, DInv, DiscoveryTypeOK, FlagsOK
  <2>2. ValuesOK' /\ accounts' \in {0, 1}
    BY <1>9, SMT DEF Stop, DInv, DiscoveryTypeOK, ValuesOK, Tasks
  <2> QED
    BY <2>1, <2>2 DEF DInv, DiscoveryTypeOK
<1>10. CASE UNCHANGED discoveryVars
  BY <1>10
     DEF discoveryVars, DInv, DiscoveryTypeOK, FlagsOK, ValuesOK, Stands, Starting,
         Trying
<1> QED
  BY <1>1, <1>2, <1>3, <1>4, <1>5, <1>6, <1>7, <1>8, <1>9, <1>10 DEF DiscoveryNext

LEMMA AlwaysDInv ==
  DiscoverySpec => []DInv
<1>1. DiscoveryInit => DInv
  BY InitDInv
<1>2. DInv /\ [DiscoveryNext]_discoveryVars => DInv'
  BY NextDInv
<1> QED
  BY <1>1, <1>2, PTL DEF DiscoverySpec

\* An account is brought into service once, by `run` or by spawn_rediscovery,
\* however often logins, settings and the Keychain's child process interleave.
THEOREM AccountStartedOnce ==
  DiscoverySpec => []StartedOnce
<1>1. DInv => StartedOnce
  BY SMT DEF DInv, StartedOnce
<1> QED
  BY <1>1, AlwaysDInv, PTL

\* A daemon that serves has an account or the reason of its latest attempt to
\* find one, never both and never neither (discovery_errors, provider_health).
THEOREM EmptinessAlwaysExplained ==
  DiscoverySpec => []EmptinessExplained
<1>1. DInv => EmptinessExplained
  <2> SUFFICES ASSUME DInv, Serving PROVE EmptinessExplained
    BY DEF EmptinessExplained
  <2>1. Trying \/ task = "ended"
    BY DEF DInv, DiscoveryTypeOK, ValuesOK, Stands, Tasks, Serving, Trying
  <2> DEFINE row == [accounts |-> accounts, discovery_error |-> error]
  <2>2. /\ accounts = 0 <=> error # NoError
        /\ accounts = 0 => error = last
    BY <2>1 DEF DInv, Serving, Stands
  <2>3. row \in ProviderHealth
    BY <2>2 DEF ProviderHealth
  <2>4. row.accounts = accounts /\ row.discovery_error = error
    OBVIOUS
  <2> QED
    BY <2>2, <2>3, <2>4, Zenon DEF EmptinessExplained
<1> QED
  BY <1>1, AlwaysDInv, PTL

=============================================================================
