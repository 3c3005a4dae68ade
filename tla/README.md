# Teiryo in TLA+

Teiryo shows how much of an AI subscription's quota is used. `teiryod`, a
single-threaded tokio daemon, polls each provider account on a schedule, stores
every poll in SQLite and serves it over a Unix socket; `teiryo`, a terminal
dashboard, connects to that socket (or to one on another host through ssh),
starts the daemon when it is not running and keeps itself current with a
long-poll.

This directory is a specification of the parts of that system in which order
matters: TLA+ modules translated from the source, TLC configurations that check
them on small instances, and TLAPS proofs for all instances.

    tlc -workers 2 -config MCPollTask.cfg MCPollTask      # a run
    tlapm SchedulerProofs.tla                              # a proof

`PROJECT.json` lists the runs, which lines each definition stands for, the
mutants that show each property can fail, the hazards and the theorems.

## 1. The system

| component | state | operations | interacts with |
|---|---|---|---|
| Poll task, one per account (`teiryod/src/scheduler.rs`) | `Gate` (throttle strikes, Retry-After, stale credential), pause clock, `poll_immediately`, a timer | wait, re-check the credential, probe, park | the schedule's watch channel, the trigger queue, `poll_intervals`, the credential store, the provider's API |
| Config (`config.rs`, `watch.rs`, `server.rs` `set_config`, `state.rs` `install_config`) | `config.toml`, the watcher's `seen` text, `ConfigState` (settings, warnings, error, generation) | load at startup, reload on a file event, edit for a client | editors of the file, poll tasks (schedules), clients (long-poll) |
| Single instance (`paths.rs`, `main.rs`, `protocol/transport.rs`, `scripts/install.sh`) | the socket's name and inode, the flock, the guard | lock, bind, probe debris, listen, guard, unlink; connect or spawn | several daemons, clients, the installer, older builds |
| Live updates (`server.rs` `await_update`, `teiryo/src/client.rs`, `teiryo/src/main.rs`) | the daemon's slot with the newest poll, the config generation; the TUI's two connections, its message queue, what it shows | long-poll, refetch, reconnect | poll tasks publish, config loads bump the generation |
| Recording and hydration (`state.rs`, `storage.rs`, `rollover.rs`) | `latest_poll`, window anchors, health counters, database rows | `record_event`, `hydrate_account`, rollover detection | poll tasks, `Status`, restarts |
| Re-discovery (`lib.rs` `run`, `scheduler.rs` `spawn_rediscovery`, `claude/credentials.rs`) | the discovery errors, the accounts, a sleep, the load last seen | read the file, read the Keychain, start the account's task, sleep, park | logins, config loads, poll tasks |
| Handshake and version (`protocol/handshake.rs`, `client.rs` `reconnect_loop`) | the first bytes of a connection | hello, verdict, what old versions leave out, timeout, retry | client and server |
| ssh transport and bridge (`protocol/ssh.rs`, `bridge.rs`) | two byte streams | relay in both directions, end | the handshake, live updates |
| Storage (`storage.rs`) | tables of polls, windows, rollovers | append, prune, history reduced to a number of points | recording, `History` |
| Claude payload (`claude/parser.rs`) | none | buckets and rows to windows | poll tasks, recording |
| TUI application state (`app.rs`) | tabs, selection, pan, pages of history, chart and log cursors, scrolling, overlays, spinners | a handler per key, press and update | live updates, storage's pages |
| Quota metrics (`metrics.rs`) | none | pace, rate, projection, boundaries | what the provider reports, the TUI |
| TUI rendering (`ui/`) | what it measured, written back into the state | which fields, charts, bars and rules there is room for; what a press hits | application state, metrics |
| Codec (`protocol/codec.rs`, `wire.rs`) | none | length-prefixed frames | both ends |

What is hard here, and hard to test:

* **Interleavings at awaits.** The daemon is single-threaded, so races are
  between awaits: a config load while a poll task is inside a credential read;
  a save between the watcher's event and its read; a poll or a load between two
  requests of one handler of the TUI.
* **Two writers of one value.** `install_config` overwrites the cadence a poll
  task published; `SetConfig` and an editor write one file; two daemons bind one
  name.
* **Newest-only channels.** Watch channels and the poll slot forget all but the
  last value; who reads late must still end up right.
* **Old versions and cut connections.** Each version of the handshake sends a
  few bytes more than the one before; the end of a stream can overtake what was
  said on it.
* **Boundaries.** Rounded readings, holes, restarts and the edge of a bucket, a
  chart or a ladder of intervals.
* **Crashes.** `kill -9` leaves a socket name behind and may hit between the
  temporary file and the rename.
* **Time.** Backoff, jitter, settle timer, connect retries, reconnect backoff.

## 2. Modules

Every module is one component with its environment. A step is what the code
does between two points where another actor can get in: an await that really
yields (daemon, TUI), or a system call (single instance).

### PollTask

`at` is the await the task is suspended in; `gate`, `paused_since`,
`poll_immediately` and `triggers` are the code's. `Loop` is one pass through
the loop of `spawn_poller` up to the next await, with `NextStep` deciding as
`Gate::next_step` does, and it is a part of every action that ends a wait:
`TimerFires`, `TakeTrigger`, `TakeSchedule`, `RecheckDone`, `PollEnds`.
`InstallConfig`, `PollNow`, `Refresh` (a client's `Status` after its long-poll
woke it), `LoginChanges` and `Shutdown` are the environment. Whether a
credential read yields depends on where the credential is
(`CredentialSource`): a file is read synchronously, the Keychain through an
awaited subprocess (`Yielded`). Time is not counted; `Jittered(base)` is the set
of all waits the random jitter can produce, with the code's integer arithmetic.
`verdict` (the provider's last word) and `late` (polls begun since disabling)
are history variables.

### SingleInstance

One action per system call of `bind_socket`, the startup around it,
`SocketGuard::drop`, `connect_or_spawn` and the installer. An inode is free to
be handed out again as soon as no name and no open socket holds it, so the
guard's comparison of inode numbers is not safe for free. Daemons are process
slots, started by a client that found no one or from a shell (`Launch`);
`Crash` takes one down at any step. `legacy` is a daemon from a build without
the lock.

### ConfigReload

A text is a record of what the parser can tell apart: its form, the two
intervals, the enabled flag, an unknown key. `Parses`, `Settings`,
`PollInterval`, `ValidateEdit` and `ApplyEdit` are `parse`, the merge, and the
edit functions. The editor saves by rename or by truncating and writing
(`SaveInPlace`, `FinishSave`); the file may become unreadable (`Outage`), the
daemon may crash, also inside `SetConfig`. `QuietStart` says that nobody touches
the file while the daemon starts.

### LiveUpdates

The daemon is reduced to what it publishes (slot, latest poll per account,
stored ids, config generation). The TUI's handlers are sequences of awaited
requests: `todo` holds those the running handler has left, and the daemon may do
anything between two of them. `loops` are the long-poll tasks, `owned` the one
the event loop would abort. `LandSkewed` is a poll whose ULID sorts before an
earlier one.

### Recording

Two sides that never meet: the provider, whose windows are used, roll over, are
restarted silently, corrected or retracted (`quota`, with `restarts` as the
history of what really happened), and the daemon, which infers that from
readings. `RecordEvent` is `record_event`: `Detect`, `Anchor`, `PruneAnchors`,
the transaction (`Persist`, which may fail) and the health counters (`Judge`).
`Start` is `hydrate_account`, with any of its four queries failing; `Hydrated`
is what it would produce now, so `RestartInvisible` compares a running daemon
with one that would start at this very moment. `InForce` is the choice the
client makes between an anchor and the provider's arithmetic.

Usage is in whole percent and time in units of the reset tolerance. One account
is modelled, since the caches and the queries are keyed by account. Of the
stored polls only the newest success and what follows it are kept, because no
query of a hydration looks further back. The published reset drifts by the
tolerance from one poll to the next, as a provider that recomputes it does. The
clock does not step back, so that poll ids are in the order of time (what
happens otherwise is in LiveUpdates). Initially the database is empty, holds a
restart, or holds a correction that an older rule wrote down as one.

### Handshake, Verdict

`Verdict` is what the handshake promises: the daemon alone decides, by equality
of the versions; a client learns that decision or none; only who learned none
tries again. `Handshake` is the code: items on two streams (`near`, the client's
end of ssh; `far`, the daemon's socket), one action per read or write of
`client_handshake` and `server_handshake`, the two copies of `relay` and their
ends (`CopyUp`, `UpEnds`, `CopyDown`, `BridgeEnds`), an ssh that ends by itself
(`SshEnds`), `HANDSHAKE_TIMEOUT` and the reconnect loop's judgement (`Retry`).
Versions before 8 do not say their version with a reject, versions before 9 send
no commit. `Promise == INSTANCE Verdict` maps the daemon's verdict to `said` and
the client to its outcome, or to "waiting".

### Discovery

How an account comes into service: the attempt of `run` at startup, then the task
of `spawn_rediscovery`. A credentials file is read at once, the Keychain by a
child process (`StartupReadsKeychain`, `AttemptReadsKeychain`), during which the
login may change (`ChangeLogin`), a config load may disable the provider (`LoadConfig`)
and the daemon may stop. `RediscoveryLoop` decides between parking, an immediate attempt and a
sleep, as the loop's head does. `last` is the history of how the last attempt
ended.

### TrendPane, ActivityLog

The state of the TUI, split by what interacts. A method of `App` is an operator
from the record of its fields to the record it leaves; a handler that awaits
requests is split at them (`todo`), so that polls land, windows come and go and
updates are pushed in between.

`TrendPane` has the quota list, the selection, the four ranges and the pan, the
pages of history with those for other views, and the chart cursor.
`ActivityLog` has the log's cursor, the Details pane, scrolling of both and of
Health, the overlays and the settings editor, and what drawing a frame writes
back into the state (`Render` is part of every action). The pan is `TrendPane`'s: that
Home on the Activity tab refetches the log when the chart was panned is a choice of
`EndKey` there.

### Metrics, Charts, QuotaRow, UsageParser, HistoryQuery, SettingsEditor

Calculations without state, as operators. `Calculations` asks them: a state is
one question (`asked`), an action enumerates the inputs of one of 13 topics, and
each invariant compares the answer with a statement of what it should be, or the
answers of two places that show the same thing.

* `Metrics` (`metrics.rs`): windows, pace, the fit of a rate with its widening
  lookback, projections, boundaries, series. The code computes in `f64`; here
  time is in ticks, usage in tenths of a percent, a rate is a fraction of
  integers, and a half-width, which the code takes from a square root, is rounded
  down (`Isqrt`). A comparison is by cross-multiplication, so the model has none
  of the code's rounding: what is checked is the arithmetic, not its precision.
* `Charts` (`ui/charts.rs`, `app.rs`): axes, cells and presses, lines that break,
  bars, the hours of the burn chart, the projection's cone.
* `QuotaRow` (`ui/dashboard.rs`): which derived fields a row has room for. The widths
  of the fields, typical of their wording, are there because `WarningsAgree` says that
  a row fits its pane and shows the pace once, on narrow panes too.
* `UsageParser` (`claude/parser.rs`): a payload is the set of its buckets and
  rows, a name is a sequence of its parts.
* `HistoryQuery` (`storage.rs`): the page of a `History`, `downsample` and
  `reduce_series`.
* `SettingsEditor` (`app.rs`): the ladder of intervals and what a key edits.

## 3. Runs

All figures are for two workers.

| run | instance | what it shows |
|---|---|---|
| `poll_task` | 2 cadences, Retry-After 0 or 60, 3 strikes, 3 config loads, a manual poll, file credential; 129,000 states | the reported cadence is the one that is waited for; no backoff is lost, but for the jitter's tenth; at most one poll after disabling; a client at rest shows the right cadence; a poll is always followed by a wait; probing resumes; accepted triggers are served |
| `single_instance` | 3 daemons, 2 clients, 4 inodes, 3 disruptions; 359,000 states | the socket of a live daemon is never taken; one server; no debris; every client ends up connected |
| `config_reload` | 4 texts, 3 edits, 2 saves, a `SetConfig`, an outage, a crash, a spurious event; 923,000 states | no save is overlooked; while an editor is the only one who has touched the file, a watcher at rest has put it into effect, and it takes effect eventually |
| `live_updates` | 2 accounts (symmetric), 2 polls, a load, a restart, possibly into an incompatible daemon, a key; 2.3 M states | a settled dashboard shows every newest poll; long-poll tasks do not pile up |
| `live_updates_live` | 1 account, 2 polls, one of them with an id out of order, a restart, a lost connection; 405,000 states | the dashboard recovers |
| `recording` | a window of 3 units, 5 units of time, a restart of the window besides the one a database may begin with, 2 troubles (crash, lost write, failed query, correction or retraction); 3.0 M states | a restart of the daemon is invisible; no anchor without a restart; no pace from a window that has ended; error and counter agree |
| `handshake` | versions 7, 8 and 9 on both sides, socket and ssh, 2 retries; 1,600 states | the handshake implements `Verdict`; a reject is not taken for a failure; nobody waits for bytes that do not come |
| `discovery` | file and Keychain, 2 changes of the login, 3 loads, 2 starts; 15,500 states | one task per account; an empty dashboard says why; logging in is enough |
| `trend_pane` | readings at both ends of 4 ticks and one tick more, one or two accounts listed, one with a window that publishes no reset, 2 keys, 2 pushes, 2 changes of what is listed; 627,000 states | a page that arrives leaves the chart cursor on a reading, and only a new list takes it off one; the view never scrolls past the history there is |
| `activity` | a log of 3, a screen of 2, 4 polls, 6 keys; 114,000 states | a key that moves the cursor leaves it on screen |
| `calculations` | the questions below; 308,000 states | see below |
| `live_two_loops` | 2 restarts; violated | the first long-poll task survives a reconnect |

What `calculations` says of the pure parts:

| property | statement |
|---|---|
| `SteadyRateMeasured` | a quota burnt at one rate, read in whole quanta with readings missing, is measured at that rate: the true rate is inside the interval, and the lookback widens until it is readable |
| `SeriesAgreesWithRow` | row and chart agree as far as their inputs do. The row reads two days at the account's own tolerance for holes (`RowPoints`, `RowRate`), the chart its range, reduced to the range's points, at a tolerance widened to the bucket (`Drawn`). Every drawn reading of the window in progress has a point; where both have the same readings up to it and no hole lies between the two tolerances (`SameInputs`), its rate is what the row showed from that poll on until it went stale; the newest reading of the range is on both pages; the title has a figure exactly where a line is drawn |
| `LinesBridgeNothing` | where windows follow one another, the rate and forecast lines join no two readings across a hole, another window or a fall. The all-windows line joins nothing across a reading without a value, leaves out no other, and joins nothing across a change of the published reset; it does cross holes and restarts that move no reset (`AllWindowsDescent`, below), and the usage line crosses holes too: it draws readings, not what happened between them |
| `WarningsAgree` | runway, projection and warning of one row tell one story, and a row fits the width and the height of its pane |
| `CapIdentityStable`, `NoCapLost` | a cap has one id, whichever way a payload reports it, and no cap of a payload is dropped for a name that resembles another |
| `PageIsFaithful` | a page holds nothing that was not asked for, and of every window with a reading in the range asked for, within the budget, always the newest, and for each reading one as high or the newest within a bucket's width: no series is lost |
| `PressPicksWhatIsDrawn` | what a press on a cell selects is what that cell shows, to a tick where cells are no whole number of ticks; no reading, rule or bar is drawn where it cannot be read; a rollover is shown in one way |
| `BurnPlaced` | no hour is credited with more than was used in it or in the hour before its readings, and with every poll made nothing is missing |
| `EditsDoWhatTheySay` | a key moves an interval in its own direction, by a rung, or to the end of the ladder where there is none |

Bounds. `MaxEdits`, `MaxSaves`, `MaxRequests`, `MaxDisruptions`, `MaxPolls`,
`MaxLoads`, `MaxRestarts`, `MaxMismatches`, `MaxBreaks`, `MaxSkews`, `MaxKeys`,
`MaxQueued`, `MaxTriggers`, `MaxNoise`, `MaxOutages`, `MaxCrashes`, `MaxTime`,
`MaxTroubles`, `MaxAttempts`, `MaxChanges`, `MaxStarts`, `MaxPushes` and
`MaxDropped` cap what the environment does, never what the modelled code does,
with one exception: `MaxQueued`, the messages the TUI's tasks may have queued for
its event loop, also makes those tasks wait for room in a queue that the code
leaves unbounded; the theorems of LiveUpdatesProofs hold for every value of it.
They let every pair of environment actions, and for most modules every triple,
fall between any two steps of the code; each hazard listed needs two or three. In
`poll_task` the strikes saturate at 3 where the code uses `u32::MAX`, with
`MAX_BACKOFF` chosen so that the exponential wait crosses both the ceiling and
the Retry-After, and one cadence lies above the ceiling. The proofs remove all of
these bounds for the invariants and action properties of every component with
state, and the bounds on the inputs of the calculations; for liveness they stand. In `recording` the clock outlasts a window and
the lookback, so that an anchor can expire and a row become too old, and the
corrections together stay below `MIN_RESET_DROP`: a larger correction cannot be
told from a restart, by the code's own account. In `activity` more polls land than
the log holds and the log holds more than the screen shows.

In `calculations` the code's constants are scaled with the histories, keeping
their order: `MIN_SAMPLE` and `LOOK_MIN` 1 tick and `LOOK_MAX` 3 against
histories of 8 ticks, `WeekSpan` 42, `MAX_HISTORY_POINTS` 4 against pages of up
to 5 readings of each window, charts of 40 ticks on 5 and on 7 columns, intervals
below, on, between and beyond the rungs. The series are of two windows, with
readings around a hole (`SeriesTimes`) and resets that stay, drift, move, vanish
and come back (`ResetTimes`); the row's page (`RECENT_SPAN` 7) just misses the
oldest reading, and of the ranges (`SeriesRanges`) one is at the rows' tolerance, one
at a wider one, one is reduced to two readings and one begins within the hole.
Usage is in tenths of a percent (`FULL = 1000`), so that
readings rounded to a percent, to half of one and not at all occur.

Deadlock is not checked where the system may stop for good: a poll task that
has seen the shutdown, a client that is connected or knows it never will be, a
discovery that has ended, a spent environment, the end of the clock, a question
that has been asked.

### Where the code and its comments disagree

`live_two_loops` (`OneUpdateLoop`): the first long-poll task is held by `run`, not
by the event loop, and survives a reconnect.

Ten more are reproduced by `tlc -config <file>.cfg <module>`, which reports the
named property violated:

| configuration, module | property | what happens |
|---|---|---|
| `PollTaskKeychainStale`, `MCPollTask` | `ClientNotMisled` | with the credential in the Keychain, a config load during a re-check is not seen by the task; the client the load woke fetches the configured cadence of an account that is paused, and the 0 the task publishes later wakes nobody |
| `PollTaskRetryAfterCut`, `MCPollTask` | `RetryAfterRespected` | the wait after a 429 is to be "never shorter than a `Retry-After` the provider sent" (`scheduler.rs:105`), but the jitter is applied to it afterwards (`scheduler.rs:415`) and may cut off a tenth, so the next poll goes out before the provider's own time |
| `ConfigReloadRestored`, `MCConfigReload` | `InEffect` | `SetConfig` does not tell the watcher which text it wrote; an editor that restores the previous text before the watcher reads is skipped as already seen |
| `ConfigReloadRejected`, `MCConfigReload` | `RejectedWriteLeavesFile` | in a file that is invalid for a reason the edit does not touch, the edit is renamed into place and then answered with an error |
| `LiveUpdatesSettings`, `MCLiveUpdates` | `SettingsShown` | a config load between `Status` and `GetConfig` on connecting leaves the old cadence on screen |
| `ActivityCursorJumps`, `MCActivityLog` | `CursorKeepsPlace` | "the cursor stays at that position" (`app.rs:540`), but the position is only noted by `select_activity`, not when polls push the cursor down: once its poll falls off the log the cursor jumps back to where a key last put it |
| `TrendCursorOnNothing`, `MCTrendRelisted` | `CursorOnReading` | the chart cursor is to be kept "on a reading the charts still draw" (`app.rs:847`), but only pages snap it: when, with the split chart, the weekly window it is on leaves the list and comes back, `set_statuses` (`app.rs:657`) makes that window the sibling of the selection, drawn from the page loaded earlier, which may lack the reading |
| `AffordStart`, `Calculations` | `UnmarkedIgnoresStart` | the affordable pace is left unmarked because it "never touches" the window's start (`metrics.rs:123`), but its remaining fraction is of a span that begins there (`metrics.rs:219`) |
| `BoundaryTwice`, `Calculations` | `BoundaryDrawnOnce` | the rollover that began the window and the window's start are drawn as two rules when they are further apart than the tolerance (`metrics.rs:778`) |
| `AllWindowsDescent`, `Calculations` | `ResetNotDrawnAsDescent` | each line of the all-windows chart is to be "broken at its rollovers so no reset is drawn as a descent" (`charts.rs:1014`), but it breaks only where the published reset moved: a window restarted without that is drawn falling |

Breaking `CursorOnReading` takes more steps than the bounds of `trend_pane` allow; the
attempt to prove it found the case. What does hold is `CursorFollowsPages`.

Others were met while modelling and are in the models, without a
configuration of their own:

* a `PollNow` accepted just before its provider is disabled waits in the parked
  task and fires on re-enabling (`server.rs:221`, `docs/architecture.md:37`);
* `NeverBound` is documented as "it died on startup", but the spawned daemon may
  have left because the lock was held (`transport.rs:46`);
* the watch is registered after account discovery has been awaited: a save in
  between waits for the next one (`lib.rs:35`, `lib.rs:71`), hence `QuietStart`;
* an outage that changes nothing leaves the read error in place (`watch.rs:103`,
  `watch.rs:119`), hence `OnlyTheEditor` in `SavesTakeEffect`;
* the watcher installs what `SetConfig` has just installed (`watch.rs:87`);
* the settle timer of one save can expire inside the next, so that a truncated
  file is parsed (`watch.rs:16`, `watch.rs:75`);
* of two manual polls that land together only the second is announced, and the
  first account's spinner stays (`app.rs:2045`, `server.rs:199`);
* a poll whose ULID sorts before an earlier one is not announced
  (`domain.rs:53`, `storage.rs:467`), hence `MaxSkews = 0` for `PollsShown`;
* a window missing from a payload keeps its anchor in a running daemon, as the
  comment on `prune_anchors` asks, but a daemon that is restarted then does not
  restore it (`state.rs:123`, `state.rs:516`), and the start of the window is
  lost until the next restart: `RestartInvisible` leaves out windows the newest
  payload lacks, and anchors such a start did not restore;
* "both describe the stretch of failures since the last success, or neither is
  set" fails when one of the two queries of a hydration fails
  (`state.rs:544-553`), hence `spent.reads = 0` in `HealthAgrees`;
* `set_trend` pins the pan anew only when the page, fetched with the old pan, has
  arrived; `set_statuses` moves the selection without resetting pan and cursor;
  a Config event refreshes the status and not the detail: `PanWithinHistory`
  holds all the same, the page may be the wrong one for a moment;
* `+` on an interval above the ladder goes down to its top, although
  `step_interval` is documented to move "rather than snapping backwards"
  (`app.rs:334`): `EditsDoWhatTheySay` asks for the end of the ladder there;
* the burn chart does not show the late hours in a plot of fewer than 47 columns;
  a wider pane can lose a derived field, because a longer wording of an earlier
  one now fits; the projection's cone starts past the axis when the chart ends
  before now; a rollover just inside the left edge whose start is just outside is
  drawn by neither of the two rules that could draw it;
* a rollover hidden by such a payload leaves the anchor of the ended window in
  the map; `effective_window` ignores it, until a retraction pulls the reset in
  far enough to put it in force again, hence no retraction in
  `PaceFromCurrentWindow`.

## 4. Fairness

* PollTask: weak fairness of the task's own steps: a runnable task runs, timers
  fire, requests and credential reads end because both have timeouts. Strong
  fairness of `TakeTrigger`, because `select!` tries its ready arms in random
  order, so a trigger that is there each time is taken. Nothing is assumed of
  the user, the file or the login; `ProbingResumes` itself says from when on
  they hold still.
* SingleInstance: weak fairness of each process, and of the installer once it
  holds the lock.
* ConfigReload: weak fairness of the daemon and of an in-place save that has
  begun.
* LiveUpdates: weak fairness of handlers, long-poll and reconnect tasks; strong
  fairness of taking a message and of the tick, which are arms of one `select!`.
  The restart is fair because whoever reconnects spawns the daemon.
  `Recovers` assumes that the daemon stays up and that the TUI is used: a lost
  command connection is noticed by the next request only.
* Handshake: weak fairness of the two sides and the bridge together: they keep
  running. No timeout, no end of ssh and no retry is assumed, so `AttemptEnds`
  does not rest on the timeout.
* Discovery: weak fairness of the reads (the child process is killed after five
  seconds), of the sleep and of the wake-up by a load. `LoginNoticed` says from
  when on the login and the settings hold still.
* Recording, TrendPane, ActivityLog and Calculations claim no liveness.

## 5. Proofs

TLAPS proves, for every value of the constants that satisfies the modules'
ASSUMEs:

* **SchedulerProofs.** Of PollTask `TypeCorrect`, `CadenceCorrect`, `BackoffCorrect`,
  `LatePollBound`, `PauseClockCorrect`, `PollsSpaced`, and for a credential in a
  file `ClientCorrect`. The inductive invariant `IInv` adds to
  the properties that a disabled account reports 0 even while a load is
  unseen (`DisabledReportsZero`), that throttle and last verdict agree
  (`Agrees`), and where a late poll can still be ahead (`LateInv`). Every action
  of the task ends in `Loop`, so one lemma (`LoopPreserves`) about a pass of the
  loop carries most of the proof; `DelayBounds` and `JitterBounds` are about the
  arithmetic, for all strikes and waits: `BackoffCorrect` is about the timer that is
  really armed, jitter included, which is why it leaves a tenth. `ClientCorrect` assumes
  `CredentialSource = "file"`, without which the property fails (section 3): then no
  credential read is ever awaited, so a client that refreshes finds the task's word
  or is woken again.
  Of Discovery `AccountStartedOnce` and `EmptinessAlwaysExplained`. `DInv` says
  what has been started and what is shown at each place a discovery can be:
  nothing during the first attempt, the reason of the latest attempt while the
  task tries again, one account and no reason once it has ended. The pass of the
  loop and the end of an attempt are lemmas, since startup and the task share
  them.
* **SingleInstanceProofs.** `TypeCorrect`, `SocketNeverStolen`, `ServerIsUnique`,
  `LegacySafe`, `NoDebris`. `IInv` says who holds the lock (`LockInv`), how far
  others get while an old daemon serves (`LegacyInv`), that the name leads to
  its owner from bind to unlink (`OwnerInv`), and that a daemon past its unlink
  no longer owns the name (`GuardInv`). It needs no freshness of inodes beyond
  what a file system gives.
* **ConfigReloadProofs.** `TypeCorrect`, `WarningsCorrect`, `LimitsCorrect` from
  `SInv`; `WatcherCaughtUp`, for a quiet start, from `CInv`: at rest with no
  event pending the text compared last is the text on disk;
  `EditorSavesTakeEffect`, for a quiet start, from `EInv`: as long as only the
  editor has touched the file (no `SetConfig` and no outage so far), the status
  reflects the text seen last. The conditions are exactly the ones the
  disagreements above show to be needed.
* **HandshakeProofs.** `HandshakeImplementsVerdict`, the refinement, for every set
  of versions: initial states map to initial states, and every step to one of
  Verdict's or to a stutter. It needs `HInv`: the streams carry only what this
  client and this daemon sent, nothing comes down before the verdict, the verdict
  follows from the versions, and a client that has read it has read the daemon's.
  `RejectAlwaysArrives` adds `RInv`: a reject that is not yet read is on its way, in a
  stream that has not ended, and a bridge ends only with ssh or after a daemon that
  closed.
* **LiveUpdatesProofs.** `LiveTypeCorrect`, `LoopsBoundedCorrect`, `PollsShownCorrect`.
  The first two are from `TInv`: at most one long-poll task is the event loop's own
  and at most one is not (`LoopsInv`), and everything queued or left to do refers to
  connections and polls that existed. `PollsShownCorrect` assumes `MaxSkews = 0`, that
  ids sort in the order of time, without which the property fails (section 3). Its
  `PInv` says why an announcement of the last poll alone is enough: what a dashboard
  lacks is newer than all it shows (`ShownInv`), and what a task has seen is shown or
  about to be asked for (`SeenInv`), whatever the daemon publishes between two
  requests of a handler.
* **RecordingProofs.** `RecordingTypeCorrect` from `BaseInv`; `HealthCorrect`;
  `AnchorCorrect` from `RealInv`: usage below any remembered or stored reading is
  explained by the corrections so far, unless the window restarted since
  (`Explained`), so a drop of `MIN_RESET_DROP` proves a restart, now and when it is
  replayed from the database; `PaceCorrect` from `PaceInv`: a published reset is a
  span past every announced beginning; `RestartCorrect` from `RestartInv`: the
  database decides every anchor by itself (`StoredInv`), and the caches hold what it
  decides (`CachedInv`), which has to be said of all stored polls and rollovers a
  later hydration may look at. The assumptions are those of the module: the lookback
  outlasts every window, and all corrections together stay below `MIN_RESET_DROP`.
  Of ActivityLog `CursorAlwaysShown`, the action property of that run, for a log and
  screens of any size: `LInv` says that the log holds numbered polls and that the
  scrolling and the remembered row are natural numbers (`LogOK`); then the cursor's row
  is one of the log's (`IndexInLog`), and the frame drawn after a key that moved the
  cursor scrolls it into view (`ActivityFrame`).
* **TrendPaneProofs.** `PanCorrect` and `CursorCorrect`, from `PanInv`. The pan is
  within the history of the series that is loaded, also while the selection is
  another's (`Sound`): a list moves the selection without touching the pan, and may
  move it back. A method is `Calm` when it keeps that and the cursor on its reading;
  each method of `App` is shown calm by one of three lemmas (the cursor is untouched,
  put away, or put on a reading), and a page puts it on one whatever was there
  (`ResnapPutsOnReading`). `NearestIsOne` says that the nearest reading is unique.
* **CalculationsProofs.** The calculations, for every input and not only the ones
  `Calculations` enumerates. Each theorem assumes that `asked` is a question of its
  kind (`EditQuestions`, `ChartQuestions`, ...), any at all unless the list says so:
  * `EditsCorrect`: every config whose intervals the parser accepts;
  * `PageCorrect`: any finite set of stored rows, any range and budget. Readings fall
    into buckets no wider than span/budget (`BucketIsNarrow`), each of which keeps its
    highest (`PickIsBest`), and the windows do not share them (`WindowsReducedApart`), so
    no window that was selected is missing;
  * `BarsAndRulesCorrect`, `ChartsCorrect`: bars of any number and plot in which they
    have a cell each; pages with any rollovers, at most one at an instant; charts of any
    readings, range and width, at least as many ticks long as they are columns wide.
    `MiddleOfCell` bounds the rounding of `instant_at` against that of
    the coverage strip; `NoHoleWithinRate` says that the reading before a cell and the
    one after it are neighbours in the stretch a rate is fitted to;
  * `SeriesCorrect`, `LinesCorrect`: any stored history, with one reading of a window
    at an instant, any window in progress or none, any cadence, range and budget, any
    `RECENT_SPAN` and `RECENT_MAX_POINTS`. A chart tolerates at least the row's holes
    (`ChartToleratesMore`), so where no hole lies between the two tolerances both walk
    back over the same stretch (`SameStretch`) and fit the same rate (`RowAndChart`). A
    stretch has no reading missing within it (`StretchIsContiguous`), so what a line
    joins are neighbours (`NothingBetween`, `BrokenBetween`). That the windows come one
    after the other (`Consecutive`) is a hypothesis of the rate lines within
    `LinesBridgeNothing`: a provider that went back and forth between two resets would
    have its lines interleave;
  * `WarningsCorrect`, `RowsFit`: any window that has opened, with any usage and rate;
    panes of any width, of at least three lines;
  * `SteadyCorrect`: any rate, phase and rounding, any missed polls that leave no hole
    beyond the gap tolerance;
  * `BurnCorrect`: any length of time, use, restart and set of polls. Each step that is
    placed is what was used between its readings (`StepIsUsed`), the stretches of
    different steps are apart, and a sum by hours is a sum (`SumByClass`);
  * `CapsKeepTheirIds`, `EveryCapReported`: payloads with any number of rows; the first
    for models called anything, the second for the names the run uses, since whether two
    names are one model depends on their words. Each row has a reading of its own, so
    that caps can be told apart.

  `AnswersAlwaysRight` connects them with the specification: the invariant `Covered`,
  that what is asked is within the hypotheses of the theorem about it, is inductive, so
  `Spec` implies all of the invariants of the run.

  Induction over data is by a least counterexample: a least step at which a loop goes
  wrong (`Throughout`), a smallest subset whose sum does (`SmallestSubset`). That the
  recursive functions the model defines (`Widen`'s widths, `Cells`, the slug of a name,
  the library's folds) exist at all is proved the same way (`LoopExists`, `SumsExist`);
  a `CHOOSE` yields what it describes only once something is known to satisfy it.

A proof module may be about two components, whose specifications then have names of
their own (`DiscoverySpec`, `LogSpec`).

`TypeCorrect` (three times), `LiveTypeCorrect`, `RecordingTypeCorrect`,
`PauseClockCorrect`, `LegacySafe`, and `WarningsCorrect` and `LimitsCorrect` of
ConfigReloadProofs state definitions that no run lists: they were checked with TLC on
the way to the proofs, which say more.

Only model-checked: every liveness property, since the prover has no rule for fairness
and none for ENABLED; and the violation of `live_two_loops`.

## 6. Not modelled

* The wire codec, derived from the types; the framing loop of `handle_conn`.
* Paths, environment variables, logging. Of the warning about orphaned windows, which
  ids it names is modelled (`UsageParser` `OrphanedIds`), the text and the log are not.
* The SQLite schema, its migration and the encoding of rows; the HTTP request.
* The command line of ssh and the capture of its stderr.
* Wording, colours, the header, and the precision of floating point.

Hazards that no property covers:

* a trigger accepted just before its provider is disabled (`server.rs:236`) waits and
  fires later, which is what the model shows and nobody promises otherwise;
* an editor's save between `write_edit`'s read and its rename is overwritten
  (`config.rs:289`), and a file may be replaced between the check of an edit and its
  parse (`server.rs:192`): no protocol with the editor could prevent it;
* a request on the command connection has no timeout (`client.rs:300`): a daemon that
  hangs freezes the event loop, hence the fairness of `Run`;
* config loads arriving faster than the interval re-arm the sleep each time
  (`scheduler.rs:435`): the loads are bounded, so the model does not show it;
* a save before the watch is registered (`lib.rs:71`), excluded by `QuietStart`;
* events of the daemon's own reads (`watch.rs:43`): `MaxNoise` lets them happen and they
  are harmless, but that they stop is not shown.

## 7. Plan

Done: PollTask, SingleInstance, ConfigReload, LiveUpdates, Recording; then
Handshake with Verdict, Discovery, TrendPane, ActivityLog and the calculations.
The scheduler came first, because everything else shows or stores what it does;
then the socket, the two paths by which clients and the daemon agree, what is
remembered, and what is shown.

Every invariant and action property that a run checks is now a theorem. Left:

1. An abstract log that a crash does not change, implemented by Recording: today
   `RestartInvisible` says as much of the states, not of the steps.
2. `EveryCapReported` for models called anything, from a condition on their words
   instead of the list of names.
