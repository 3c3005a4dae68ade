------------------------------ MODULE Recording ------------------------------
(***************************************************************************)
(* What the daemon remembers of one account, and what of it survives: each *)
(* poll is compared with the last successful one, stored and cached        *)
(* (crates/teiryod/src/state.rs `record_event`, crates/teiryo-core/src/    *)
(* rollover.rs, storage.rs), and a daemon that starts rebuilds the cache   *)
(* from the database (`hydrate_account`).                                  *)
(*                                                                         *)
(* A window's accounting restarts at the provider, out of sight; the       *)
(* daemon infers it from two readings that straddle it.  The model has     *)
(* both: the provider's windows and the daemon's conclusions.  Usage is in *)
(* percent and `now` in units of RESET_TOLERANCE.                          *)
(***************************************************************************)
EXTENDS Integers, FiniteSets

CONSTANTS
  Windows,          \* window ids
  Span,             \* the length of each window
  Levels,           \* usages a window can rise to
  RESET_TOLERANCE,
  MIN_RESET_DROP,
  ANCHOR_LOOKBACK,
  MaxTime,          \* bound: the clock
  MaxRestarts,      \* bound: restarts of windows
  CORRECTION,       \* how far the provider corrects a usage down at once
  MaxTroubles       \* bound: crashes, failing writes and queries, corrections
                    \* and retractions, all together

Unset == -1

ASSUME RecordingAssumption ==
  /\ IsFiniteSet(Windows)
  /\ Span \in [Windows -> Nat \ {0}]
  /\ Levels \subseteq 0 .. 100
  /\ RESET_TOLERANCE \in Nat
  /\ MIN_RESET_DROP \in Nat \ {0}
  /\ ANCHOR_LOOKBACK \in Nat /\ \A w \in Windows : Span[w] < ANCHOR_LOOKBACK
  /\ {MaxTime, MaxRestarts, MaxTroubles} \subseteq Nat
  \* corrections are told from restarts by their size
  /\ CORRECTION \in Nat /\ CORRECTION * MaxTroubles < MIN_RESET_DROP

VARIABLES
  now,
  \* the provider
  quota,           \* per window: [used, reset]; no reset while it is idle
  restarts,        \* history: what really happened, [window, at, kind]
  \* the daemon
  up,
  latest_poll,
  latest_success,
  observed_starts, \* the anchors of the windows that have one
  health,          \* [failures, error]
  \* the database
  poll_event,
  window_rollover,
  hidden,          \* history: windows that a stored success lacked
  spent            \* bound

provider == <<quota, restarts>>
cache    == <<latest_poll, latest_success, observed_starts, health>>
database == <<poll_event, window_rollover, hidden>>
vars     == <<now, provider, up, cache, database, spent>>

Troubles == spent.crashes + spent.writes + spent.reads + spent.corrections
              + spent.retractions

Trouble(what) ==
  /\ Troubles < MaxTroubles
  /\ spent' = [spent EXCEPT ![what] = @ + 1]

CountRestart ==
  /\ spent.restarts < MaxRestarts
  /\ spent' = [spent EXCEPT !.restarts = @ + 1]

Empty == [w \in {} |-> 0]

NoPoll == [id |-> 0, ts |-> 0, ok |-> TRUE, windows |-> Empty]

Healthy == [failures |-> 0, error |-> FALSE]

-----------------------------------------------------------------------------
(* rollover.rs.                                                            *)

\* Utilizations are percentages here, and the ratio is a half.
IsCollapse(prev, new) == prev - new >= MIN_RESET_DROP /\ 2 * new <= prev

Classify(before, after, observed_at) ==
  LET published == before.reset # Unset /\ after.reset # Unset
  IN  CASE published /\ after.reset > before.reset + RESET_TOLERANCE ->
             IF before.reset > observed_at + RESET_TOLERANCE THEN "early"
             ELSE "scheduled"
        [] published /\ after.reset < before.reset - RESET_TOLERANCE ->
             "retracted"
        [] OTHER ->
             IF IsCollapse(before.used, after.used) THEN "unannounced"
             ELSE "none"

\* Windows in only one of the two payloads are skipped.
Detect(prev, event) ==
  {r \in {[window |-> w, poll |-> event.id, observed_at |-> event.ts,
           prev_observed_at |-> prev.ts,
           prev_used |-> prev.windows[w].used,
           new_used |-> event.windows[w].used,
           kind |-> Classify(prev.windows[w], event.windows[w], event.ts)] :
             w \in DOMAIN prev.windows \cap DOMAIN event.windows} :
     r.kind # "none"}

FromRollover(r) ==
  [not_before |-> r.prev_observed_at, not_after |-> r.observed_at]

Estimate(start) ==
  start.not_before + (start.not_after - start.not_before) \div 2

-----------------------------------------------------------------------------
(* state.rs.                                                               *)

\* The anchors that a later restart of windows leaves in place.
Retain(starts, kept) == [w \in DOMAIN starts \cap kept |-> starts[w]]

\* A window that is missing from the payload is not judged.
PruneAnchors(starts, windows, at) ==
  Retain(starts, {w \in Windows :
    w \in DOMAIN windows /\ w \in DOMAIN starts
      => at - Estimate(starts[w]) <= Span[w]})

\* An unannounced rollover anchors its window, an announced one retires the
\* anchor.
Anchor(starts, rollovers) ==
  LET silent == {r \in rollovers : r.kind = "unannounced"}
      rolled == {r.window : r \in rollovers}
      kept   == DOMAIN starts \ rolled
  IN  [w \in kept \cup {r.window : r \in silent} |->
         IF w \in kept THEN starts[w]
         ELSE FromRollover(CHOOSE r \in silent : r.window = w)]

\* No query of the hydration looks past the newest success, so the polls
\* before it are left out.
Insert(event) ==
  /\ poll_event' = {event} \cup (IF event.ok THEN {} ELSE poll_event)
  /\ hidden' = IF event.ok THEN hidden \cup (Windows \ DOMAIN event.windows)
               ELSE hidden

\* record_poll is one transaction; its failure is logged and nothing else.
Persist(event, rollovers) ==
  \/ /\ Insert(event)
     /\ window_rollover' = window_rollover \cup rollovers
     /\ UNCHANGED spent
  \/ UNCHANGED database /\ Trouble("writes")

\* Mutant of Judge: a success leaves the error in place.
JudgeKeepingError(event) ==
  health' = IF event.ok THEN [health EXCEPT !.failures = 0]
            ELSE [failures |-> health.failures + 1, error |-> TRUE]

Judge(event) ==
  health' = IF event.ok THEN Healthy
            ELSE [failures |-> health.failures + 1, error |-> TRUE]

RecordEvent(event) ==
  LET rollovers == Detect(latest_success, event)
  IN  /\ observed_starts' = PruneAnchors(Anchor(observed_starts, rollovers),
                                         event.windows, event.ts)
      /\ Persist(event, rollovers)
      /\ Judge(event)
      /\ latest_success' = IF event.ok THEN event ELSE latest_success
      /\ latest_poll' = event

-----------------------------------------------------------------------------
(* hydrate_account.                                                        *)

Latest(events) ==
  IF events = {} THEN NoPoll
  ELSE CHOOSE e \in events : \A f \in events : f.id <= e.id

StoredSuccesses == {e \in poll_event : e.ok}

\* consecutive_failures_for.
StoredFailures ==
  Cardinality({e \in poll_event : ~e.ok /\ e.id > Latest(StoredSuccesses).id})

\* Mutant of ReplaysAsAReset: the row is taken at its word.
ReplaysUnjudged(r, windows) == r.kind = "unannounced"

\* A stored row is judged again, on the scale of the newest payload.
ReplaysAsAReset(r, windows) ==
  /\ r.kind = "unannounced"
  /\ r.window \in DOMAIN windows
  /\ IsCollapse(r.prev_used, r.new_used)

\* Mutant of Replayed: announced rollovers do not retire anchors.
ReplayedWithoutRetiring(rows, windows) ==
  {r \in rows : ReplaysAsAReset(r, windows)}

\* The rows the replay acts on; the others are skipped.
Replayed(rows, windows) ==
  {r \in rows : ReplaysAsAReset(r, windows) \/ r.kind # "unannounced"}

\* Rows are replayed oldest first, so the last one of a window decides.
Replay(rows, windows) ==
  LET acting == Replayed(rows, windows)
      last(w) == CHOOSE r \in acting :
                   /\ r.window = w
                   /\ \A o \in acting : o.window = w
                                         => o.observed_at <= r.observed_at
      anchored == {w \in {r.window : r \in acting} :
                     last(w).kind = "unannounced"}
  IN  [w \in anchored |-> FromRollover(last(w))]

StoredStarts(success) ==
  PruneAnchors(
    Replay({r \in window_rollover : /\ now - ANCHOR_LOOKBACK <= r.observed_at
                                    /\ r.observed_at <= now},
           success.windows),
    success.windows, now)

\* What a daemon that starts now would know; `failed` are the queries that
\* fail, each of which is logged and leaves its part empty.
Hydrated(failed) ==
  LET poll    == IF "poll" \in failed THEN NoPoll ELSE Latest(poll_event)
      success == IF "success" \in failed THEN NoPoll
                 ELSE Latest(StoredSuccesses)
  IN  [poll    |-> poll,
       success |-> success,
       starts  |-> IF "rollovers" \in failed THEN Empty
                   ELSE StoredStarts(success),
       health  |-> [failures |-> IF "failures" \in failed THEN 0
                                 ELSE StoredFailures,
                    error    |-> ~poll.ok]]

-----------------------------------------------------------------------------
(* The daemon's steps.                                                     *)

\* Polls of one account are a request apart, and the clock does not step back.
ClockMovedOn == \A e \in poll_event \cup {latest_poll} : e.ts < now

\* The provider recomputes a reset per request, so it drifts.
Drift == (now % 2) * RESET_TOLERANCE

\* The poll finds what `quota` says of the windows the payload carries.
PollSucceeds(carried) ==
  /\ up /\ ClockMovedOn
  /\ RecordEvent([id |-> now, ts |-> now, ok |-> TRUE,
                  windows |-> [w \in carried |->
                    [quota[w] EXCEPT !.reset = IF @ = Unset THEN Unset
                                               ELSE @ + Drift]]])
  /\ UNCHANGED <<now, provider, up>>

PollFails ==
  /\ up /\ ClockMovedOn
  /\ RecordEvent([id |-> now, ts |-> now, ok |-> FALSE,
                  windows |-> Empty])
  /\ UNCHANGED <<now, provider, up>>

Crash ==
  /\ up
  /\ Trouble("crashes")
  /\ up' = FALSE
  /\ latest_poll' = NoPoll
  /\ latest_success' = NoPoll
  /\ observed_starts' = Empty
  /\ health' = Healthy
  /\ UNCHANGED <<now, provider, database>>

Start(failed) ==
  /\ ~up
  /\ Troubles + Cardinality(failed) <= MaxTroubles
  /\ spent' = [spent EXCEPT !.reads = @ + Cardinality(failed)]
  /\ up' = TRUE
  /\ latest_poll' = Hydrated(failed).poll
  /\ latest_success' = Hydrated(failed).success
  /\ observed_starts' = Hydrated(failed).starts
  /\ health' = Hydrated(failed).health
  /\ UNCHANGED <<now, provider, database>>

-----------------------------------------------------------------------------
(* The provider.                                                           *)

Happens(w, kind) ==
  restarts' = restarts \cup {[window |-> w, at |-> now, kind |-> kind]}

\* The first use of an idle window opens it.
Use(w, level) ==
  /\ level > quota[w].used
  /\ IF quota[w].reset = Unset
     THEN /\ quota' = [quota EXCEPT ![w] = [used |-> level,
                                            reset |-> now + Span[w]]]
          /\ Happens(w, "opened")
     ELSE /\ quota' = [quota EXCEPT ![w].used = level]
          /\ UNCHANGED restarts
  /\ UNCHANGED <<now, up, cache, database, spent>>

\* The window rolls over when it is due or before; it is then idle or, being
\* in use, runs to a new reset.
RollOver(w, idle) ==
  /\ quota[w].reset # Unset
  /\ CountRestart
  /\ quota' = [quota EXCEPT ![w] = [used |-> 0,
                                    reset |-> IF idle THEN Unset
                                              ELSE now + Span[w]]]
  /\ Happens(w, "announced")
  /\ UNCHANGED <<now, up, cache, database>>

RestartSilently(w) ==
  /\ quota[w].used > 0
  /\ CountRestart
  /\ quota' = [quota EXCEPT ![w].used = 0]
  /\ Happens(w, "silent")
  /\ UNCHANGED <<now, up, cache, database>>

Correct(w) ==
  /\ quota[w].used >= CORRECTION
  /\ Trouble("corrections")
  /\ quota' = [quota EXCEPT ![w].used = @ - CORRECTION]
  /\ UNCHANGED <<now, restarts, up, cache, database>>

Retract(w) ==
  /\ quota[w].reset > now + RESET_TOLERANCE
  /\ Trouble("retractions")
  /\ quota' = [quota EXCEPT ![w].reset = @ - RESET_TOLERANCE - 1]
  /\ UNCHANGED <<now, restarts, up, cache, database>>

Tick ==
  /\ now < MaxTime
  /\ now' = now + 1
  /\ UNCHANGED <<provider, up, cache, database, spent>>

-----------------------------------------------------------------------------
\* A poll that an earlier daemon stored, and the rollover it came with.
OldPoll(w, used) ==
  [id |-> 1, ts |-> 1, ok |-> TRUE,
   windows |-> [v \in {w} |-> [used |-> used, reset |-> Span[w]]]]

OldRow(w, prev_used, new_used) ==
  [window |-> w, poll |-> 1, observed_at |-> 1, prev_observed_at |-> 0,
   prev_used |-> prev_used, new_used |-> new_used, kind |-> "unannounced"]

OldDatabase(w, prev_used, new_used) ==
  /\ poll_event = {OldPoll(w, new_used)}
  /\ window_rollover = {OldRow(w, prev_used, new_used)}
  /\ quota = [v \in Windows |->
                IF v = w THEN OldPoll(w, new_used).windows[w]
                ELSE [used |-> 0, reset |-> Unset]]

\* The daemon is started on a database that is new, that has a row of a
\* restart, or that has what an older rule made of a correction.
Init ==
  /\ now = 1
  /\ hidden = {}
  /\ up = FALSE
  /\ latest_poll = NoPoll
  /\ latest_success = NoPoll
  /\ observed_starts = Empty
  /\ health = Healthy
  /\ \/ /\ poll_event = {} /\ window_rollover = {}
        /\ quota = [w \in Windows |-> [used |-> 0, reset |-> Unset]]
        /\ restarts = {}
     \/ \E w \in Windows :
          /\ OldDatabase(w, 60, 0)
          /\ restarts = {[window |-> w, at |-> 0, kind |-> "silent"]}
     \/ \E w \in Windows :
          /\ OldDatabase(w, 90, 60)
          /\ restarts = {}
  /\ spent = [crashes |-> 0, writes |-> 0, reads |-> 0, restarts |-> 0,
              corrections |-> 0, retractions |-> 0]

Queries == {"poll", "success", "rollovers", "failures"}

Daemon ==
  \/ \E carried \in SUBSET Windows : PollSucceeds(carried)
  \/ PollFails
  \/ Crash
  \/ \E failed \in SUBSET Queries : Start(failed)

Provider ==
  \E w \in Windows :
    \/ \E level \in Levels : Use(w, level)
    \/ \E idle \in BOOLEAN : RollOver(w, idle)
    \/ RestartSilently(w)
    \/ Correct(w)
    \/ Retract(w)

Next == Daemon \/ Provider \/ Tick

Spec == Init /\ [][Next]_vars

-----------------------------------------------------------------------------
(* What a client computes from it: teiryo/src/metrics.rs.                  *)

\* Mutant of InForce: an anchor is used whatever the provider says.
InForceAlways(w) ==
  LET start == observed_starts[w]
  IN  Estimate(start) < latest_success.windows[w].reset
        /\ start.not_after <= now

\* effective_window: whether the anchor of a window with a reset is used.
InForce(w) ==
  LET start == observed_starts[w]
      reset == latest_success.windows[w].reset
  IN  /\ Estimate(start) > reset - Span[w]
      /\ Estimate(start) < reset
      /\ start.not_after <= now

-----------------------------------------------------------------------------
(* Properties.                                                             *)

Served == DOMAIN latest_success.windows \cap DOMAIN observed_starts

Readings == [used : 0 .. 100, reset : Int]

IsEvent(e) ==
  /\ e.id \in Nat /\ e.ts \in Nat /\ e.ok \in BOOLEAN
  /\ DOMAIN e.windows \subseteq Windows
  /\ \A w \in DOMAIN e.windows : e.windows[w] \in Readings

\* Types; the two ends of a bracket are in order, so that its midpoint is
\* inside (rollover.rs `ObservedStart`).
TypeOK ==
  /\ now \in Nat /\ up \in BOOLEAN
  /\ quota \in [Windows -> Readings]
  /\ IsEvent(latest_poll) /\ IsEvent(latest_success)
  /\ \A e \in poll_event : IsEvent(e)
  /\ DOMAIN observed_starts \subseteq Windows /\ hidden \subseteq Windows
  /\ \A w \in DOMAIN observed_starts :
       LET start == observed_starts[w]
       IN  start.not_before \in Nat /\ start.not_before <= start.not_after
  /\ health \in [failures : Nat, error : BOOLEAN]
  /\ \A r \in window_rollover :
       r.kind \in {"scheduled", "early", "retracted", "unannounced"}

\* A restart of the daemon is invisible as long as the database works: what
\* Status and Providers report is what a daemon started now would report.
\* Anchors that have expired are not compared, nor is an anchor looked for
\* that an earlier start could not restore because the window was missing
\* from the newest payload (state.rs `hydrate_account`).
RestartInvisible ==
  up /\ spent.writes = 0 /\ spent.reads = 0 =>
    LET fresh == Hydrated({})
        live  == PruneAnchors(observed_starts, latest_success.windows, now)
    IN  /\ fresh.poll = latest_poll
        /\ fresh.success = latest_success
        /\ fresh.health = health
        /\ \A w \in DOMAIN latest_success.windows :
             /\ w \in DOMAIN live =>
                  w \in DOMAIN fresh.starts /\ fresh.starts[w] = live[w]
             /\ w \in DOMAIN fresh.starts /\ w \notin hidden =>
                  w \in DOMAIN live

\* No false reset: an anchor brackets a moment at which the window really
\* restarted, whatever polls failed, were lost or were replayed in between,
\* and whatever older rules wrote (rollover.rs `is_collapse`, state.rs
\* `replays_as_a_reset`).
AnchorIsReal ==
  \A w \in DOMAIN observed_starts :
    \E r \in restarts :
      /\ r.window = w /\ r.kind # "opened"
      /\ observed_starts[w].not_before <= r.at
      /\ r.at <= observed_starts[w].not_after

\* The start a pace is measured from is never that of a window that ended:
\* an anchor in force is not older than the last announced beginning, also
\* when a payload without the window hid it from the detection (metrics.rs
\* `effective_window`).  A reset that is pulled in says the opposite.
PaceFromCurrentWindow ==
  up /\ spent.retractions = 0 =>
    \A w \in Served :
      latest_success.windows[w].reset # Unset /\ InForce(w) =>
        \A r \in restarts :
          r.window = w /\ r.kind # "silent" /\ r.at < latest_success.ts
            => r.at <= observed_starts[w].not_after

\* The error and the counter describe the same stretch of failures, or
\* neither is set (state.rs `hydrate_account`), lost writes included.
HealthAgrees ==
  spent.reads = 0 => (health.failures > 0) = health.error

=============================================================================
