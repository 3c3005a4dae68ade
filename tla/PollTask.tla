------------------------------ MODULE PollTask ------------------------------
(***************************************************************************)
(* The poll task of one (provider, account), crates/teiryod/src/           *)
(* scheduler.rs: `spawn_poller` and the `Gate`, `Throttle` and jitter it   *)
(* decides with, together with everybody who touches the same state:       *)
(*                                                                         *)
(*   - `Daemon::install_config` (state.rs), which republishes the schedule *)
(*     and overwrites the cadence clients are shown;                       *)
(*   - the `PollNow` handler (server.rs), which queues a manual trigger;   *)
(*   - a client, which refetches `Status` whenever its long-poll is woken  *)
(*     and shows the cadence it got until the next wake-up;                *)
(*   - the user's login, which comes and goes.                             *)
(*                                                                         *)
(* The runtime is single-threaded, so a step is everything the task does   *)
(* between two points where it really yields.  `at` names the point it is  *)
(* suspended at.  Time is not counted: a timer that is armed may fire.     *)
(***************************************************************************)
EXTENDS Integers

CONSTANTS
  Intervals,               \* cadences a config may ask for
  RetryAfters,             \* Retry-After values a 429 may carry; 0 = absent
  MAX_BACKOFF,             \* ceiling on a backed-off interval
  CREDENTIAL_RECHECK_MAX,  \* ceiling on the wait between re-checks
  StrikesMax,              \* where the strike counter saturates (u32::MAX)
  CredentialSource,        \* "file": read without yielding; "keychain": awaited
  MaxEdits,                \* bound: config loads in one behaviour
  MaxTriggers              \* bound: manual triggers queued at once

ASSUME PollTaskAssumption ==
  /\ Intervals \subseteq Nat \ {0}
  /\ RetryAfters \subseteq Nat
  /\ MAX_BACKOFF \in Nat
  /\ CREDENTIAL_RECHECK_MAX \in Nat
  /\ StrikesMax \in Nat \ {0}
  /\ CredentialSource \in {"file", "keychain"}
  /\ MaxEdits \in Nat
  /\ MaxTriggers \in Nat

VARIABLES
  config,            \* the schedule in the account's watch channel
  changed,           \* the channel holds a value the task has not seen
  published,         \* poll_intervals[account]: the cadence Status reports
  at,                \* where the task is suspended
  sleep,             \* the jittered timer of the wait it is suspended in
  poll_immediately,
  gate,              \* [throttle: [strikes, retry_after], credential_stale]
  paused_since,      \* whether the pause clock is running
  triggers,          \* manual triggers queued in the mpsc channel
  credential,        \* environment: would the local credential resolve?
  wake,              \* a long-poll answer is on its way to the client
  cadence,           \* the cadence the client shows
  shutdown,          \* the shutdown channel has fired
  edits,             \* bound: config loads so far
  verdict,           \* history: the provider's last word since unparking
  late               \* history: polls begun since the provider was disabled

vars == <<config, changed, published, at, sleep, poll_immediately, gate,
          paused_since, triggers, credential, wake, cadence, shutdown, edits,
          verdict, late>>

Schedules == [enabled : BOOLEAN, interval : Intervals]
Waits     == {"park", "recheck", "wait"}
InFlight  == {"credential", "probe"}
Places    == {"start", "resolving", "done"} \cup Waits \cup InFlight

-----------------------------------------------------------------------------
(* Throttle, Gate and the arithmetic of waiting.                           *)

BACKOFF_FACTOR == 2

NoThrottle  == [strikes |-> 0, retry_after |-> 0]
DefaultGate == [throttle |-> NoThrottle, credential_stale |-> FALSE]

\* Throttle::record for a poll that reached the provider.
Limited(throttle, retry_after) ==
  [strikes     |-> IF throttle.strikes < StrikesMax
                   THEN throttle.strikes + 1 ELSE throttle.strikes,
   retry_after |-> retry_after]

AtLeast(a, b) == IF a < b THEN b ELSE a
AtMost(a, b)  == IF a < b THEN a ELSE b

\* Throttle::delay, the exponent clamped at 31.
Delay(throttle, base) ==
  IF throttle.strikes = 0
  THEN base
  ELSE LET doublings == AtMost(throttle.strikes - 1, 31)
           scaled    == AtLeast(AtMost(base * BACKOFF_FACTOR^doublings,
                                       MAX_BACKOFF),
                                base)
       IN AtLeast(scaled, throttle.retry_after)

\* jittered: the waits it can return, a band of a fifth around the base.
Jittered(base) ==
  LET spread == AtLeast(base \div 5, 1)
      low    == base - spread \div 2
  IN low .. (low + spread - 1)

\* Mutant of Record: a poll that never reached the provider clears the strikes.
RecordForgetsBackoff(g, polled) ==
  [throttle |-> IF polled.limited THEN Limited(g.throttle, polled.retry_after)
                ELSE NoThrottle,
   credential_stale |-> polled.stage = "Credential"]

\* Throttle::record: a poll that stopped at the credential leaves the throttle
\* alone, a rate limit adds a strike, anything else clears it.  Gate::record
\* adds that the credential is stale exactly when the poll stopped there.
Record(g, polled) ==
  [throttle |->
     IF polled.stage = "Credential" THEN g.throttle
     ELSE IF polled.limited THEN Limited(g.throttle, polled.retry_after)
     ELSE NoThrottle,
   credential_stale |-> polled.stage = "Credential"]

\* The pause clock: started by the Paused edge, taken by the Resumed edge.
LogTransition(before, after, since) ==
  IF ~before.credential_stale /\ after.credential_stale THEN TRUE
  ELSE IF before.credential_stale /\ ~after.credential_stale THEN FALSE
  ELSE since

\* Mutant of Reported: a disabled provider keeps reporting its interval.
ReportedAlways(schedule) == schedule.interval

\* state.rs `reported`: the cadence a schedule shows, 0 when disabled.
Reported(schedule) == IF schedule.enabled THEN schedule.interval ELSE 0

\* Mutant of NextStep: the forced poll is considered before `enabled`.
NextStepPollFirst(g, schedule, immediately) ==
  CASE immediately                         -> "poll_now"
    [] ~immediately /\ ~schedule.enabled   -> "park"
    [] schedule.enabled /\ ~immediately /\ g.credential_stale  -> "recheck"
    [] schedule.enabled /\ ~immediately /\ ~g.credential_stale -> "wait"

\* Gate::next_step; the order of the tests is the code's.
NextStep(g, schedule, immediately) ==
  CASE ~schedule.enabled                   -> "park"
    [] schedule.enabled /\ immediately     -> "poll_now"
    [] schedule.enabled /\ ~immediately /\ g.credential_stale  -> "recheck"
    [] schedule.enabled /\ ~immediately /\ ~g.credential_stale -> "wait"

-----------------------------------------------------------------------------
(* The loop body from its top to the first point where it yields, entered  *)
(* with the locals the previous iteration left behind.                     *)

BeginPoll ==
  /\ at' = "credential"
  /\ sleep' = 0
  /\ late' = IF config.enabled THEN late ELSE late + 1

Park ==
  /\ at' = "park"
  /\ poll_immediately' = TRUE
  /\ gate' = DefaultGate
  /\ paused_since' = FALSE
  /\ sleep' = 0
  /\ verdict' = NoThrottle
  /\ UNCHANGED <<published, late>>

\* Mutant of PollNowStep: poll_immediately is not reset.
PollNowStepSticky(g, since, said) ==
  /\ published' = Delay(g.throttle, config.interval)
  /\ poll_immediately' = TRUE
  /\ gate' = g
  /\ paused_since' = since
  /\ verdict' = said
  /\ BeginPoll

PollNowStep(g, since, said) ==
  /\ published' = Delay(g.throttle, config.interval)
  /\ poll_immediately' = FALSE
  /\ gate' = g
  /\ paused_since' = since
  /\ verdict' = said
  /\ BeginPoll

\* Both waits arm a jittered timer and publish what a client may count down
\* to: nothing while re-checking, the wait itself otherwise.
WaitStep(step, g, immediately, since, said) ==
  LET after == IF step = "recheck"
               THEN AtMost(config.interval, CREDENTIAL_RECHECK_MAX)
               ELSE Delay(g.throttle, config.interval)
  IN /\ at' = step
     /\ published' = IF step = "recheck" THEN 0 ELSE after
     /\ sleep' \in Jittered(after)
     /\ poll_immediately' = immediately
     /\ gate' = g
     /\ paused_since' = since
     /\ verdict' = said
     /\ late' = late

Loop(g, immediately, since, said) ==
  LET step == NextStep(g, config, immediately)
  IN /\ changed' = FALSE
     /\ \/ step = "park" /\ Park
        \/ step = "poll_now" /\ PollNowStep(g, since, said)
        \/ step \in {"recheck", "wait"}
             /\ WaitStep(step, g, immediately, since, said)

-----------------------------------------------------------------------------
(* The task's steps.                                                       *)

\* The task is polled for the first time after `start_account` spawned it.
Start ==
  /\ at = "start"
  /\ Loop(gate, poll_immediately, paused_since, verdict)
  /\ UNCHANGED <<config, triggers, credential, wake, cadence, shutdown, edits>>

\* The timer arm of either select.
TimerFires ==
  /\ \/ /\ at = "wait"
        /\ BeginPoll
     \/ /\ at = "recheck"
        /\ at' = "resolving"
        /\ sleep' = 0
        /\ UNCHANGED late
  /\ UNCHANGED <<config, changed, published, poll_immediately, gate,
                 paused_since, triggers, credential, wake, cadence, shutdown,
                 edits, verdict>>

\* Mutant of TakeTrigger: the pause has no trigger arm.
TakeTriggerUnlessPaused ==
  /\ at = "wait"
  /\ triggers > 0
  /\ triggers' = triggers - 1
  /\ BeginPoll
  /\ UNCHANGED <<config, changed, published, poll_immediately, gate,
                 paused_since, credential, wake, cadence, shutdown, edits,
                 verdict>>

\* The trigger arm, which a parked task does not have.
TakeTrigger ==
  /\ at \in {"wait", "recheck"}
  /\ triggers > 0
  /\ triggers' = triggers - 1
  /\ BeginPoll
  /\ UNCHANGED <<config, changed, published, poll_immediately, gate,
                 paused_since, credential, wake, cadence, shutdown, edits,
                 verdict>>

\* The schedule arm of all three selects.
TakeSchedule ==
  /\ at \in Waits
  /\ changed
  /\ Loop(gate, poll_immediately, paused_since, verdict)
  /\ UNCHANGED <<config, triggers, credential, wake, cadence, shutdown, edits>>

\* The shutdown arm of all three selects.
TakeShutdown ==
  /\ at \in Waits
  /\ shutdown
  /\ at' = "done"
  /\ sleep' = 0
  /\ UNCHANGED <<config, changed, published, poll_immediately, gate,
                 paused_since, triggers, credential, wake, cadence, shutdown,
                 edits, verdict, late>>

\* Mutant of RecheckDone: the answer of the re-check is dropped.
RecheckIgnored ==
  /\ at = "resolving"
  /\ Loop(gate, poll_immediately, paused_since, verdict)
  /\ UNCHANGED <<config, triggers, credential, wake, cadence, shutdown, edits>>

\* The re-check's `credential_for` returns.
RecheckDone ==
  /\ at = "resolving"
  /\ IF credential
     THEN LET g == [gate EXCEPT !.credential_stale = FALSE]
          IN Loop(g, TRUE, LogTransition(gate, g, paused_since), verdict)
     ELSE Loop(gate, poll_immediately, paused_since, verdict)
  /\ UNCHANGED <<config, triggers, credential, wake, cadence, shutdown, edits>>

\* `poll_once` ends: record_event wakes the long-polls, the gate folds the
\* result in, and the loop comes round, all without yielding.
PollEnds(polled) ==
  LET g    == Record(gate, polled)
      said == IF polled.stage = "Credential" THEN verdict
              ELSE IF polled.limited
                   THEN [strikes |-> 1, retry_after |-> polled.retry_after]
                   ELSE NoThrottle
  IN /\ wake' = TRUE
     /\ Loop(g, poll_immediately, LogTransition(gate, g, paused_since), said)
     /\ UNCHANGED <<config, triggers, credential, cadence, shutdown, edits>>

\* poll_outcome's first await: without a credential nothing is sent.
CredentialFails ==
  /\ at = "credential"
  /\ ~credential
  /\ PollEnds([stage |-> "Credential", limited |-> FALSE, retry_after |-> 0])

CredentialResolves ==
  /\ at = "credential"
  /\ credential
  /\ at' = "probe"
  /\ UNCHANGED <<config, changed, published, sleep, poll_immediately, gate,
                 paused_since, triggers, credential, wake, cadence, shutdown,
                 edits, verdict, late>>

\* The provider answers, or the request fails on the way: the scheduler only
\* tells a rate limit from everything else.
ProviderLimits(retry_after) ==
  /\ at = "probe"
  /\ PollEnds([stage |-> "Provider", limited |-> TRUE,
               retry_after |-> retry_after])

ProviderAnswers ==
  /\ at = "probe"
  /\ PollEnds([stage |-> "Provider", limited |-> FALSE, retry_after |-> 0])

-----------------------------------------------------------------------------
(* Everybody else.                                                         *)

\* Whether other tasks can run: a credential read from a file is a plain
\* blocking read, so the task does not yield while it resolves one.
Yielded == CredentialSource = "file" => at \notin {"credential", "resolving"}

\* Mutant of InstallConfig: the long-polls are not woken.
InstallConfigSilently(schedule) ==
  /\ Yielded
  /\ ~shutdown
  /\ edits < MaxEdits
  /\ edits' = edits + 1
  /\ config' = schedule
  /\ changed' = TRUE
  /\ published' = Reported(schedule)
  /\ late' = IF schedule.enabled THEN 0 ELSE late
  /\ UNCHANGED <<at, sleep, poll_immediately, gate, paused_since, triggers,
                 credential, wake, cadence, shutdown, verdict>>

\* install_config, applied or rejected (the same schedule again): overwrite
\* the cadence, republish the schedule, wake the long-polls.
InstallConfig(schedule) ==
  /\ Yielded
  /\ ~shutdown
  /\ edits < MaxEdits
  /\ edits' = edits + 1
  /\ config' = schedule
  /\ changed' = TRUE
  /\ published' = Reported(schedule)
  /\ wake' = TRUE
  /\ late' = IF schedule.enabled THEN 0 ELSE late
  /\ UNCHANGED <<at, sleep, poll_immediately, gate, paused_since, triggers,
                 credential, cadence, shutdown, verdict>>

\* PollNow: a disabled provider is refused, otherwise a trigger is queued.
PollNow ==
  /\ Yielded
  /\ ~shutdown
  /\ config.enabled
  /\ triggers < MaxTriggers
  /\ triggers' = triggers + 1
  /\ UNCHANGED <<config, changed, published, at, sleep, poll_immediately, gate,
                 paused_since, credential, wake, cadence, shutdown, edits,
                 verdict, late>>

\* A woken client asks for Status.  The request comes in over a socket, so a
\* task that the same wake-up made runnable has already run by then.
Refresh ==
  /\ Yielded
  /\ wake
  /\ ~(changed /\ at \in Waits)
  /\ wake' = FALSE
  /\ cadence' = published
  /\ UNCHANGED <<config, changed, published, at, sleep, poll_immediately, gate,
                 paused_since, triggers, credential, shutdown, edits, verdict,
                 late>>

\* The login expires, or the user logs in again.
LoginChanges ==
  /\ credential' = ~credential
  /\ UNCHANGED <<config, changed, published, at, sleep, poll_immediately, gate,
                 paused_since, triggers, wake, cadence, shutdown, edits,
                 verdict, late>>

Shutdown ==
  /\ Yielded
  /\ ~shutdown
  /\ shutdown' = TRUE
  /\ UNCHANGED <<config, changed, published, at, sleep, poll_immediately, gate,
                 paused_since, triggers, credential, wake, cadence, edits,
                 verdict, late>>

-----------------------------------------------------------------------------
Init ==
  /\ config \in Schedules
  /\ changed = FALSE
  /\ published = Reported(config)
  /\ at = "start"
  /\ sleep = 0
  /\ poll_immediately = TRUE
  /\ gate = DefaultGate
  /\ paused_since = FALSE
  /\ triggers = 0
  /\ credential \in BOOLEAN
  /\ wake = FALSE
  /\ cadence = Reported(config)
  /\ shutdown = FALSE
  /\ edits = 0
  /\ verdict = NoThrottle
  /\ late = 0

Answer == ProviderAnswers \/ \E r \in RetryAfters : ProviderLimits(r)

Task ==
  \/ Start
  \/ TimerFires
  \/ TakeTrigger
  \/ TakeSchedule
  \/ TakeShutdown
  \/ RecheckDone
  \/ CredentialFails
  \/ CredentialResolves
  \/ Answer

Environment ==
  \/ \E s \in Schedules : InstallConfig(s)
  \/ PollNow
  \/ Refresh
  \/ LoginChanges
  \/ Shutdown

Next == Task \/ Environment

Spec == Init /\ [][Next]_vars

\* What the runtime guarantees: a runnable task runs, an armed timer fires
\* unless the wait ends first, an HTTP request or a credential read ends (both
\* have timeouts), and a select that is entered with a trigger queued time and
\* again takes it (its arms are tried in random order).  Nothing is assumed of
\* the user, of the config file or of the login.
Fairness ==
  /\ WF_vars(Start)
  /\ WF_vars(TimerFires)
  /\ SF_vars(TakeTrigger)
  /\ WF_vars(TakeSchedule)
  /\ WF_vars(RecheckDone)
  /\ WF_vars(CredentialFails \/ CredentialResolves)
  /\ WF_vars(Answer)
  /\ WF_vars(Refresh)

FairSpec == Spec /\ Fairness

-----------------------------------------------------------------------------
(* Properties.                                                             *)

\* Types; in particular no wait `jittered` returns is negative, which in the
\* code would be an underflow of unsigned milliseconds.
TypeOK ==
  /\ config \in Schedules
  /\ changed \in BOOLEAN
  /\ published \in Nat
  /\ at \in Places
  /\ sleep \in Nat
  /\ poll_immediately \in BOOLEAN
  /\ gate \in [throttle : [strikes : Nat, retry_after : Nat],
               credential_stale : BOOLEAN]
  /\ paused_since \in BOOLEAN
  /\ triggers \in Nat
  /\ credential \in BOOLEAN
  /\ wake \in BOOLEAN
  /\ cadence \in Nat
  /\ shutdown \in BOOLEAN
  /\ edits \in Nat
  /\ verdict \in [strikes : Nat, retry_after : Nat]
  /\ late \in Nat

\* The cadence Status reports is the one the task is really waiting for:
\* whenever it is settled in a wait, a paused or parked account reports 0 and
\* a polling one reports its own backed-off delay, although every config load
\* overwrites the value with the configured one behind the task's back
\* (scheduler.rs `reported_interval`, state.rs `install_config`).
CadenceIsTruthful ==
  at \in Waits /\ ~changed =>
    published = IF at = "wait" THEN Delay(gate.throttle, config.interval)
                ELSE 0

\* A backoff is never lost: while the provider's last word was a 429, the timer
\* the task really arms is at most a tenth shorter than the Retry-After it came
\* with and than the configured cadence (the tenth is `jittered`'s), whatever
\* credential failures, config loads or manual polls happened in between
\* (scheduler.rs `Throttle::record`, `Step::Wait`).
BackoffHonoured ==
  /\ (gate.throttle.strikes > 0) = (verdict.strikes > 0)
  /\ at = "wait" /\ ~changed =>
       /\ 10 * sleep >= 9 * verdict.retry_after
       /\ 10 * sleep >= 9 * config.interval

\* The stronger form, which `Throttle::delay` states ("never shorter than a
\* `Retry-After` the provider sent", scheduler.rs:105-107) and the wait does not
\* keep: `jittered` is applied to the delay afterwards (scheduler.rs:415), so
\* the next poll may go out before the provider's own time.
RetryAfterRespected ==
  at = "wait" /\ ~changed => sleep >= verdict.retry_after

\* A provider that is switched off in the config is polled at most once more:
\* the timer or a trigger may win the select against the schedule, but the
\* loop then re-reads the schedule and parks.
AtMostOneLatePoll == late <= 1

\* The pause clock runs exactly while the credential is stale, so every
\* "pausing probes" line in the log gets exactly one closing line, also when
\* the pause ends by disabling the provider.
PauseClockMatchesGate == paused_since = gate.credential_stale

\* What a settled client shows is what Status would tell it: no change of the
\* cadence goes unannounced, because a client has no timer of its own and
\* would show the old one until the next poll.
ClientNotMisled ==
  at \in Waits /\ ~changed /\ ~wake => cadence = published

\* A poll that ends is followed by a wait, never directly by another poll:
\* recovery is triggered by the credential coming back, not by it being good.
PollsAreSpaced ==
  [][(at' # at /\ (at = "probe" \/ (at = "credential" /\ at' # "probe")))
       => (wake' /\ at' \in Waits)]_vars

\* Probing resumes by itself: with the provider enabled and the login usable
\* for good, requests keep going out.
ProbingResumes ==
  <>[](config.enabled /\ credential /\ ~shutdown) => []<>(at = "probe")

\* An accepted PollNow is carried out unless the provider is switched off or
\* the daemon stops: neither a backoff nor a pause holds it back.
TriggersAreServed ==
  triggers > 0 ~> (triggers = 0 \/ ~config.enabled \/ shutdown)

=============================================================================
