----------------------------- MODULE LiveUpdates -----------------------------
(***************************************************************************)
(* How a dashboard stays current.  The daemon publishes each poll and each *)
(* config load in a slot that holds only the newest (server.rs             *)
(* `await_update`, state.rs); the TUI keeps one long-poll open against     *)
(* both slots (crates/teiryo/src/client.rs `spawn_update_loop`) and        *)
(* refetches what it shows when it resolves (crates/teiryo/src/main.rs     *)
(* `drive`), reconnecting in the background when a connection is lost.     *)
(*                                                                         *)
(* The TUI handles one event at a time, but its handlers await a request   *)
(* per step; `todo` holds the steps a handler has left.  Polls, loads and  *)
(* restarts of the daemon happen between any two of them.                  *)
(***************************************************************************)
EXTENDS Integers, Sequences, FiniteSets, FiniteSetsExt

CONSTANTS
  Accounts,
  MaxPolls,      \* bound: polls that land
  MaxLoads,      \* bound: config loads
  MaxRestarts,   \* bound: times the daemon stops
  MaxMismatches, \* bound: restarts into a daemon of another protocol version
  MaxBreaks,     \* bound: connections lost alone (ssh); 0 for a local daemon
  MaxSkews,      \* bound: polls whose id does not sort after the newest one
  MaxKeys,       \* bound: polls and config edits the user asks for
  MaxQueued      \* bound: messages in net_rx when a task adds one

ASSUME LiveUpdatesAssumption ==
  /\ IsFiniteSet(Accounts) /\ Accounts # {}
  /\ {MaxPolls, MaxLoads, MaxRestarts, MaxMismatches, MaxBreaks, MaxSkews,
      MaxKeys, MaxQueued} \subseteq Nat

VARIABLES
  \* the daemon
  epoch,         \* which incarnation; its connections carry the number
  up,
  compatible,    \* whether it speaks the client's protocol version
  slot,          \* watch_tx: the poll published last, <<id, account>> or <<>>
  latest,        \* latest_poll: the id Status shows per account
  stored,        \* poll ids in the database, per account
  gen,           \* config generation
  triggered,     \* accounts that owe a poll to an accepted PollNow
  \* the TUI
  cmd,           \* the incarnation its command connection leads to; 0 = none
  loops,         \* the long-poll tasks that run
  owned,         \* the one in the event loop's `update_task`; 0 = none
  queue,         \* net_rx
  todo,          \* requests the running handler has left
  shown,         \* the last Status: [polls, gen]
  known,         \* app.config: the generation of the settings it shows
  polling,       \* accounts with a spinner
  disconnected,
  incompatible,
  reconnecting,  \* the background reconnect task runs
  spent          \* bound

daemonVars == <<epoch, up, compatible, slot, latest, stored, gen, triggered>>
tuiVars    == <<cmd, loops, owned, queue, todo, shown, known, polling,
                disconnected, incompatible, reconnecting>>
vars       == <<daemonVars, tuiVars, spent>>

Alive(conn) == up /\ conn = epoch

Spend(what, limit) ==
  /\ spent[what] < limit
  /\ spent' = [spent EXCEPT ![what] = @ + 1]

Issued == UNION {stored[a] : a \in Accounts}

\* Ids are issued with gaps, so that one can be issued out of order.
Newest == Max(Issued \cup {0})

-----------------------------------------------------------------------------
(* The daemon.                                                             *)

\* record_event: the newest poll replaces whatever the slot held.
Publish(a, id) ==
  /\ up
  /\ latest' = [latest EXCEPT ![a] = id]
  /\ stored' = [stored EXCEPT ![a] = @ \cup {id}]
  /\ slot' = <<id, a>>
  /\ triggered' = triggered \ {a}
  /\ UNCHANGED <<epoch, up, compatible, gen, tuiVars>>

Land(a) == Spend("polls", MaxPolls) /\ Publish(a, Newest + 2)

\* Ulid::new is random within a millisecond and follows the wall clock, so an
\* id can sort before one issued earlier.
LandSkewed(a) ==
  /\ Spend("skews", MaxSkews)
  /\ \E id \in (1 .. Newest) \ Issued : Publish(a, id)

\* install_config.
Load ==
  /\ up
  /\ Spend("loads", MaxLoads)
  /\ gen' = gen + 1
  /\ UNCHANGED <<epoch, up, compatible, slot, latest, stored, triggered,
                 tuiVars>>

\* The daemon stops; everything it had not stored is gone.
Stop ==
  /\ up
  /\ Spend("restarts", MaxRestarts)
  /\ up' = FALSE
  /\ slot' = <<>>
  /\ triggered' = {}
  /\ UNCHANGED <<epoch, compatible, latest, stored, gen, tuiVars>>

\* Somebody starts it again: `load_initial` makes generation 1, and
\* `hydrate_account` serves each account's stored poll with the highest id.
Restart(compat) ==
  /\ ~up
  /\ IF compat THEN UNCHANGED spent ELSE Spend("mismatches", MaxMismatches)
  /\ up' = TRUE
  /\ compatible' = compat
  /\ epoch' = epoch + 1
  /\ gen' = 1
  /\ latest' = [a \in Accounts |-> Max(stored[a] \cup {0})]
  /\ UNCHANGED <<slot, stored, triggered, tuiVars>>

-----------------------------------------------------------------------------
(* The long-poll: await_update on one side, spawn_update_loop on the other.*)

\* A task: its id, its connection, and what it has seen.
NewLoop(id, since) == [id |-> id, conn |-> epoch, since |-> since, gen |-> known]

Step(l, next) == loops' = (loops \ {l}) \cup {next}

Higher(a, b) == IF a < b THEN b ELSE a

PollNewer(l) == slot # <<>> /\ slot[1] > l.since
LoadNewer(l) == gen > l.gen

\* await_update finds something newer, polls before config loads; the task
\* forwards the answer and asks again.  A NoUpdate asks the same again and is
\* no step here.  An answer on its way to the task is not told apart from one
\* in the queue.
Answer(l) ==
  /\ Alive(l.conn) /\ Len(queue) < MaxQueued
  /\ \/ /\ PollNewer(l)
        /\ queue' = Append(queue, <<"update", slot>>)
        /\ Step(l, [l EXCEPT !.since = Higher(l.since, slot[1])])
     \/ /\ ~PollNewer(l) /\ LoadNewer(l)
        /\ queue' = Append(queue, <<"config", gen>>)
        /\ Step(l, [l EXCEPT !.gen = Higher(l.gen, gen)])
  /\ UNCHANGED <<daemonVars, cmd, owned, todo, shown, known, polling,
                 disconnected, incompatible, reconnecting, spent>>

\* The connection is gone: the task says so and ends.
LoopEnds(l) ==
  /\ ~Alive(l.conn)
  /\ loops' = loops \ {l}
  /\ queue' = Append(queue, <<"disconnected">>)
  /\ UNCHANGED <<daemonVars, cmd, owned, todo, shown, known, polling,
                 disconnected, incompatible, reconnecting, spent>>

-----------------------------------------------------------------------------
(* The event loop.                                                         *)

Ready == todo = <<>>

Refetch == <<"status", "detail">>

\* Mutant of TakeUpdate: only the row that was polled is settled, nothing is
\* fetched.
TakeUpdateLazily ==
  /\ Ready /\ queue # <<>> /\ Head(queue)[1] = "update"
  /\ queue' = Tail(queue)
  /\ disconnected' = FALSE
  /\ polling' = polling \ {Head(queue)[2][2]}
  /\ UNCHANGED <<daemonVars, cmd, loops, owned, todo, shown, known,
                 incompatible, reconnecting, spent>>

TakeUpdate ==
  /\ Ready /\ queue # <<>> /\ Head(queue)[1] = "update"
  /\ queue' = Tail(queue)
  /\ disconnected' = FALSE
  /\ polling' = polling \ {Head(queue)[2][2]}
  /\ todo' = Refetch
  /\ UNCHANGED <<daemonVars, cmd, loops, owned, shown, known, incompatible,
                 reconnecting, spent>>

TakeConfig ==
  /\ Ready /\ queue # <<>> /\ Head(queue)[1] = "config"
  /\ queue' = Tail(queue)
  /\ disconnected' = FALSE
  /\ known' = Head(queue)[2]
  /\ todo' = Refetch
  /\ UNCHANGED <<daemonVars, cmd, loops, owned, shown, polling, incompatible,
                 reconnecting, spent>>

TakeFailure ==
  /\ Ready /\ queue # <<>>
  /\ Head(queue)[1] \in {"disconnected", "reconnect_failed", "incompatible"}
  /\ queue' = Tail(queue)
  /\ disconnected' = (disconnected \/ Head(queue)[1] # "reconnect_failed")
  /\ incompatible' = (incompatible \/ Head(queue)[1] = "incompatible")
  /\ UNCHANGED <<daemonVars, cmd, loops, owned, todo, shown, known, polling,
                 reconnecting, spent>>

TakeReconnected ==
  /\ Ready /\ queue # <<>> /\ Head(queue)[1] = "reconnected"
  /\ queue' = Tail(queue)
  /\ cmd' = Head(queue)[2]
  /\ disconnected' = FALSE
  /\ todo' = Refetch \o <<"config", "loop">>
  /\ UNCHANGED <<daemonVars, loops, owned, shown, known, polling, incompatible,
                 reconnecting, spent>>

\* One awaited request of the running handler.  A failed one flags the
\* disconnection and the handler goes on with the next.
Fetch(what) ==
  /\ todo # <<>> /\ Head(todo) = what
  /\ todo' = Tail(todo)
  /\ disconnected' = (disconnected \/ ~Alive(cmd))

FetchStatus ==
  /\ Fetch("status")
  /\ shown' = IF Alive(cmd) THEN [polls |-> latest, gen |-> gen] ELSE shown
  /\ UNCHANGED <<daemonVars, cmd, loops, owned, queue, known, polling,
                 incompatible, reconnecting, spent>>

\* refresh_recent and reload_detail.
FetchDetail ==
  /\ Fetch("detail")
  /\ UNCHANGED <<daemonVars, cmd, loops, owned, queue, shown, known, polling,
                 incompatible, reconnecting, spent>>

FetchConfig ==
  /\ Fetch("config")
  /\ known' = IF Alive(cmd) THEN gen ELSE known
  /\ UNCHANGED <<daemonVars, cmd, loops, owned, queue, shown, polling,
                 incompatible, reconnecting, spent>>

\* newest_poll_id of what is shown.
Since == Max({shown.polls[a] : a \in Accounts})

FreshId(others) ==
  Min((1 .. Cardinality(others) + 1) \ {l.id : l \in others})

\* Mutant of StartLoop: the task that is replaced is not aborted.
StartLoopKeepingOld ==
  /\ todo # <<>> /\ Head(todo) = "loop"
  /\ todo' = Tail(todo)
  /\ \/ /\ up /\ compatible
        /\ loops' = loops \cup {NewLoop(FreshId(loops), Since)}
        /\ owned' = FreshId(loops)
        /\ UNCHANGED queue
     \/ /\ ~(up /\ compatible)
        /\ owned' = 0
        /\ queue' = Append(queue, <<"disconnected">>)
        /\ UNCHANGED loops
  /\ UNCHANGED <<daemonVars, cmd, shown, known, polling, disconnected,
                 incompatible, reconnecting, spent>>

\* start_update_loop on a connection of its own.  The task it replaces is
\* aborted, if it is the one in `update_task`: the first one is not.
StartLoop ==
  /\ todo # <<>> /\ Head(todo) = "loop"
  /\ todo' = Tail(todo)
  /\ LET kept == {l \in loops : l.id # owned}
     IN \/ /\ up /\ compatible
           /\ loops' = kept \cup {NewLoop(FreshId(kept), Since)}
           /\ owned' = FreshId(kept)
           /\ UNCHANGED queue
        \/ /\ ~(up /\ compatible)
           /\ loops' = kept
           /\ owned' = 0
           /\ queue' = Append(queue, <<"disconnected">>)
  /\ UNCHANGED <<daemonVars, cmd, shown, known, polling, disconnected,
                 incompatible, reconnecting, spent>>

\* Mutant of Tick: a finished reconnect task counts as one that runs.
TickOnce ==
  /\ Ready /\ disconnected /\ ~incompatible /\ ~reconnecting
  /\ owned = 0
  /\ reconnecting' = TRUE
  /\ UNCHANGED <<daemonVars, cmd, loops, owned, queue, todo, shown, known,
                 polling, disconnected, incompatible, spent>>

\* The tick starts a reconnect task when one is needed and none runs.
Tick ==
  /\ Ready /\ disconnected /\ ~incompatible /\ ~reconnecting
  /\ reconnecting' = TRUE
  /\ UNCHANGED <<daemonVars, cmd, loops, owned, queue, todo, shown, known,
                 polling, disconnected, incompatible, spent>>

\* reconnect_loop: connected; a daemon of another version; or a failure,
\* after which it tries again.
Reconnect ==
  /\ reconnecting /\ Len(queue) < MaxQueued
  /\ up
  /\ reconnecting' = FALSE
  /\ queue' = Append(queue, IF compatible THEN <<"reconnected", epoch>>
                            ELSE <<"incompatible">>)
  /\ UNCHANGED <<daemonVars, cmd, loops, owned, todo, shown, known, polling,
                 disconnected, incompatible, spent>>

ReconnectFails ==
  /\ reconnecting /\ Len(queue) < MaxQueued
  /\ ~up
  /\ queue' = Append(queue, <<"reconnect_failed">>)
  /\ UNCHANGED <<daemonVars, cmd, loops, owned, todo, shown, known, polling,
                 disconnected, incompatible, reconnecting, spent>>

-----------------------------------------------------------------------------
(* The user and the network.                                               *)

\* `r`: the spinner starts, PollNow is sent.  A refusal stops the spinner.
PressPoll(a) ==
  /\ Ready
  /\ Spend("keys", MaxKeys)
  /\ \/ /\ Alive(cmd)
        /\ \/ polling' = polling \cup {a} /\ triggered' = triggered \cup {a}
           \/ polling' = polling \ {a} /\ UNCHANGED triggered
        /\ UNCHANGED disconnected
     \/ /\ ~Alive(cmd)
        /\ polling' = polling \cup {a}
        /\ disconnected' = TRUE
        /\ UNCHANGED triggered
  /\ UNCHANGED <<epoch, up, compatible, slot, latest, stored, gen, cmd, loops,
                 owned, queue, todo, shown, known, incompatible, reconnecting>>

\* A settings edit: SetConfig loads, and Status is refetched on success.
PressEdit ==
  /\ Ready
  /\ Spend("keys", MaxKeys)
  /\ IF Alive(cmd)
     THEN /\ gen' = gen + 1
          /\ known' = gen + 1
          /\ todo' = <<"status">>
          /\ UNCHANGED disconnected
     ELSE /\ disconnected' = TRUE
          /\ UNCHANGED <<gen, known, todo>>
  /\ UNCHANGED <<epoch, up, compatible, slot, latest, stored, triggered, cmd,
                 loops, owned, queue, shown, polling, incompatible,
                 reconnecting>>

\* A tab or a window is selected, or the settings are opened: what the pane
\* needs is fetched.
Browse ==
  /\ Ready
  /\ todo' \in {<<"detail">>, <<"config">>}
  /\ UNCHANGED <<daemonVars, cmd, loops, owned, queue, shown, known, polling,
                 disconnected, incompatible, reconnecting, spent>>

\* One ssh of several dies.
BreakCommand ==
  /\ Alive(cmd)
  /\ Spend("breaks", MaxBreaks)
  /\ cmd' = 0
  /\ UNCHANGED <<daemonVars, loops, owned, queue, todo, shown, known, polling,
                 disconnected, incompatible, reconnecting>>

BreakLoop(l) ==
  /\ Alive(l.conn)
  /\ Spend("breaks", MaxBreaks)
  /\ Step(l, [l EXCEPT !.conn = 0])
  /\ UNCHANGED <<daemonVars, cmd, owned, queue, todo, shown, known, polling,
                 disconnected, incompatible, reconnecting>>

-----------------------------------------------------------------------------
\* `run` has connected and goes through the same requests; the task it starts
\* is its own, not the event loop's.
Init ==
  /\ epoch = 1 /\ up = TRUE /\ compatible = TRUE
  /\ slot = <<>>
  /\ latest = [a \in Accounts |-> 0]
  /\ stored = [a \in Accounts |-> {}]
  /\ gen = 1
  /\ triggered = {}
  /\ cmd = 1
  /\ loops = {}
  /\ owned = 0
  /\ queue = <<>>
  /\ todo = Refetch \o <<"config", "first">>
  /\ shown = [polls |-> [a \in Accounts |-> 0], gen |-> 0]
  /\ known = 0
  /\ polling = {}
  /\ disconnected = FALSE
  /\ incompatible = FALSE
  /\ reconnecting = FALSE
  /\ spent = [polls |-> 0, loads |-> 0, restarts |-> 0, mismatches |-> 0,
              breaks |-> 0, skews |-> 0, keys |-> 0]

StartFirstLoop ==
  /\ todo # <<>> /\ Head(todo) = "first"
  /\ todo' = Tail(todo)
  /\ \/ /\ up /\ compatible
        /\ loops' = {NewLoop(1, Since)}
        /\ UNCHANGED queue
     \/ /\ ~(up /\ compatible)
        /\ queue' = Append(queue, <<"disconnected">>)
        /\ UNCHANGED loops
  /\ UNCHANGED <<daemonVars, cmd, owned, shown, known, polling, disconnected,
                 incompatible, reconnecting, spent>>

Take == TakeUpdate \/ TakeConfig \/ TakeFailure \/ TakeReconnected

Run == FetchStatus \/ FetchDetail \/ FetchConfig \/ StartLoop
         \/ StartFirstLoop

LoopStep == \E l \in loops : Answer(l) \/ LoopEnds(l)

Tui == Take \/ Run \/ LoopStep \/ Tick \/ Reconnect \/ ReconnectFails

Daemon ==
  \/ \E a \in Accounts : Land(a) \/ LandSkewed(a)
  \/ Load
  \/ Stop
  \/ \E compat \in BOOLEAN : Restart(compat)

Outside ==
  \/ \E a \in Accounts : PressPoll(a)
  \/ PressEdit
  \/ Browse
  \/ BreakCommand
  \/ \E l \in loops : BreakLoop(l)

Next == Daemon \/ Tui \/ Outside

Spec == Init /\ [][Next]_vars

\* The tasks of the TUI and of the daemon's connections run, and a select that
\* keeps finding a message or a due tick takes it.  The daemon is started
\* again by whoever reconnects.
FairSpec ==
  /\ Spec
  /\ SF_vars(Take)
  /\ WF_vars(Run)
  /\ WF_vars(LoopStep)
  /\ SF_vars(Tick)
  /\ WF_vars(Reconnect)
  /\ WF_vars(Restart(TRUE))

-----------------------------------------------------------------------------
(* Properties.                                                             *)

\* Types.  A long-poll asks for what is newer than a poll that exists
\* (client.rs `spawn_update_loop`).
TypeOK ==
  /\ epoch \in Nat /\ up \in BOOLEAN /\ compatible \in BOOLEAN
  /\ slot = <<>> \/ slot \in Nat \X Accounts
  /\ latest \in [Accounts -> Nat]
  /\ \A a \in Accounts : stored[a] \subseteq Nat
  /\ gen \in Nat
  /\ triggered \subseteq Accounts
  /\ cmd \in 0 .. epoch
  /\ \A l \in loops : /\ l.conn \in 0 .. epoch
                      /\ l.since \in Issued \cup {0}
                      /\ l.gen \in Nat
  /\ owned \in Nat
  /\ todo \in Seq({"status", "detail", "config", "loop", "first"})
  /\ shown \in [polls : [Accounts -> Nat], gen : Nat]
  /\ known \in Nat
  /\ polling \subseteq Accounts
  /\ disconnected \in BOOLEAN /\ incompatible \in BOOLEAN
  /\ reconnecting \in BOOLEAN

\* The TUI has nothing left to do and its connections are up.
Settled ==
  /\ Ready /\ queue = <<>> /\ Alive(cmd)
  /\ \E l \in loops : Alive(l.conn)
  /\ \A l \in loops : ~PollNewer(l) /\ ~LoadNewer(l)

\* The dashboard is live: once nothing is on its way, every account shows its
\* newest poll, although the daemon's slot only ever announced the last of
\* several, and across restarts and reconnects (server.rs `await_update`,
\* client.rs `newest_poll_id`).
PollsShown == Settled => shown.polls = latest

\* The same for the settings: the cadences and the settings overlay are those
\* of the last load.
SettingsShown == Settled => shown.gen = gen /\ known = gen

\* A reconnect replaces both connections (main.rs `drive`): there is one
\* long-poll at a time.
OneUpdateLoop == Cardinality({l \in loops : Alive(l.conn)}) <= 1

\* Only the first long-poll is ever left behind, however often connections
\* are lost: the tasks do not pile up.
LoopsBounded == Cardinality(loops) <= 2

\* Both connections lead to the daemon that runs now.
Connected ==
  Alive(cmd) /\ ~disconnected /\ \E l \in loops : Alive(l.conn)

\* The dashboard recovers (main.rs `drive`, client.rs `reconnect_loop`): when
\* the daemon stays up and compatible and the TUI keeps being used, it ends up
\* with both connections on that daemon, unless it was told that the daemon is
\* incompatible, which is final.  A lost command connection alone is noticed
\* by the next request only, hence the use.
Recovers ==
  (<>[](up /\ compatible) /\ []<>(todo # <<>>))
    => <>[](incompatible \/ Connected)

=============================================================================
