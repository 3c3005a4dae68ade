---------------------------- MODULE ConfigReload ----------------------------
(***************************************************************************)
(* How the text of config.toml becomes the settings the daemon runs on.    *)
(* Three paths install a config (crates/teiryod/src/watch.rs, config.rs,   *)
(* server.rs `set_config`, state.rs `install_config`):                     *)
(*                                                                         *)
(*   - `load_initial`, which reads the file twice at startup;              *)
(*   - the watcher, which lets a burst of events settle, re-reads the file *)
(*     and compares the text with the one it saw last;                     *)
(*   - `SetConfig`, which reads, edits and replaces the file and installs  *)
(*     the result itself.                                                  *)
(*                                                                         *)
(* The daemon is single-threaded, but the file is not its own: an editor   *)
(* saves between any two of its system calls, by renaming a new file into  *)
(* place or by truncating the old one and writing it again.  A text is the *)
(* record of what the parser can tell about it; a file that is missing     *)
(* reads as the empty text on every path.                                  *)
(***************************************************************************)
EXTENDS Integers

CONSTANTS
  Texts,                   \* file texts that can occur
  Edits,                   \* edits a client may ask for
  MIN_POLL_INTERVAL_SECS,
  MAX_POLL_INTERVAL_SECS,
  DEFAULT_POLL_INTERVAL,
  QuietStart,              \* nobody touches the file while the daemon starts
  MaxSaves,                \* bound: saves by the editor
  MaxRequests,             \* bound: SetConfig requests
  MaxOutages,              \* bound: times the file becomes unreadable
  MaxCrashes,              \* bound: daemon crashes
  MaxNoise                 \* bound: events that are no change of the file

Unset == -1

TextType == [form     : {"good", "not_toml", "providers_not_table"},
             global   : Int,      \* poll_interval_secs
             provider : Int,      \* providers.<id>.poll_interval_secs
             enabled  : {Unset, 0, 1},
             unknown  : BOOLEAN]  \* has a key nobody knows

EditType == [key : {"global", "provider"}, value : Int]
              \cup [key : {"enabled"}, value : {0, 1}]

Empty == [form |-> "good", global |-> Unset, provider |-> Unset,
          enabled |-> Unset, unknown |-> FALSE]

Broken == [Empty EXCEPT !.form = "not_toml"]

ASSUME ConfigReloadAssumption ==
  /\ Texts \subseteq TextType
  /\ Edits \subseteq EditType
  /\ MIN_POLL_INTERVAL_SECS \in Nat
  /\ MAX_POLL_INTERVAL_SECS \in Nat
  /\ DEFAULT_POLL_INTERVAL \in MIN_POLL_INTERVAL_SECS .. MAX_POLL_INTERVAL_SECS
  /\ QuietStart \in BOOLEAN
  /\ MaxSaves \in Nat
  /\ MaxRequests \in Nat
  /\ MaxOutages \in Nat
  /\ MaxCrashes \in Nat
  /\ MaxNoise \in Nat

VARIABLES
  file,        \* the text on disk
  readable,    \* whether reading it succeeds
  editor,      \* "idle", "truncated", or "orphaned": its inode was replaced
  draft,       \* the text an in-place save is about to finish writing
  overlap,     \* a settle timer was running when the file was truncated
  daemon,      \* where the daemon is: starting, serving, or inside SetConfig
  out,         \* the edited text SetConfig is about to rename into place
  watch,       \* the watcher task
  pending,     \* its channel holds an event
  seen,        \* the text it compares against
  config,      \* the settings in effect
  warnings,    \* ConfigState.warnings: unknown keys were ignored
  error,       \* ConfigState.error
  generation,  \* ConfigState.generation
  reply,       \* the last answer to a SetConfig
  accepted,    \* history: the text the settings in effect came from
  spent        \* bound: what the environment has done so far

vars == <<file, readable, editor, draft, overlap, daemon, out, watch, pending,
          seen, config, warnings, error, generation, reply, accepted,
          spent>>

disk   == <<file, readable, editor, draft, overlap>>
status == <<config, warnings, error, generation, accepted>>

Stages      == {"boot", "seen", "discovering", "serving", "writing"}
WatchStates == {"off", "idle", "settling", "reading"}

-----------------------------------------------------------------------------
(* What the parser makes of a text.                                        *)

\* config.rs `interval`: the accepted range, for a key that is set.
InRange(secs) ==
  secs # Unset =>
    MIN_POLL_INTERVAL_SECS <= secs /\ secs <= MAX_POLL_INTERVAL_SECS

\* config.rs `parse`.
Parses(text) ==
  /\ text.form = "good"
  /\ InRange(text.global)
  /\ InRange(text.provider)

Settings(text) ==
  [global |-> text.global, provider |-> text.provider,
   enabled |-> text.enabled]

\* Config::poll_interval: the provider's own, the global one, the default.
PollInterval(c) ==
  IF c.provider # Unset THEN c.provider
  ELSE IF c.global # Unset THEN c.global
  ELSE DEFAULT_POLL_INTERVAL

\* config.rs `validate_edit` and `apply_edit`.
ValidEdit(edit) == edit.key = "enabled" \/ InRange(edit.value)

EditApplies(text, edit) ==
  /\ text.form # "not_toml"
  /\ edit.key # "global" => text.form = "good"

ApplyEdit(text, edit) == [text EXCEPT ![edit.key] = edit.value]

-----------------------------------------------------------------------------
(* Installing a config: the only place the settings in effect change.      *)

\* Daemon::apply_config.
ApplyConfig(text) ==
  /\ config' = Settings(text)
  /\ warnings' = text.unknown
  /\ error' = "none"
  /\ generation' = generation + 1
  /\ accepted' = text

\* Daemon::reject_config: settings and warnings stay.
RejectConfig(why) ==
  /\ error' = why
  /\ generation' = generation + 1
  /\ UNCHANGED <<config, warnings, accepted>>

Install(text) ==
  \/ Parses(text) /\ ApplyConfig(text)
  \/ ~Parses(text) /\ RejectConfig("invalid")

-----------------------------------------------------------------------------
(* Startup.                                                                *)

\* load_initial's own read: an unreadable file counts as empty.
ReadSeen ==
  /\ daemon = "boot"
  /\ daemon' = "seen"
  /\ seen' = IF readable THEN file ELSE Empty
  /\ UNCHANGED <<disk, status, out, watch, pending, reply, spent>>

\* config::load reads again.
LoadInitial ==
  /\ daemon = "seen"
  /\ daemon' = "discovering"
  /\ \/ readable /\ Install(file)
     \/ ~readable /\ RejectConfig("unreadable")
  /\ UNCHANGED <<disk, out, watch, pending, seen, reply, spent>>

\* Discovery is over; the watcher registers, or cannot.
StartWatching(state) ==
  /\ daemon = "discovering"
  /\ daemon' = "serving"
  /\ watch' = state
  /\ pending' = FALSE
  /\ UNCHANGED <<disk, status, out, seen, reply, spent>>

-----------------------------------------------------------------------------
(* The watcher.                                                            *)

Idle == daemon = "serving" /\ watch # "reading"

\* Mutant of Notify: the watch is on the file and not on its directory, so
\* that a rename over it is not heard.
NotifyInPlaceOnly ==
  pending' = (pending \/ (watch # "off" /\ editor = "truncated"))

\* An event about the file reaches the watcher's channel once it is registered.
Notify == pending' = (pending \/ watch # "off")

WatchEvent ==
  /\ daemon = "serving"
  /\ watch = "idle"
  /\ pending
  /\ pending' = FALSE
  /\ watch' = "settling"
  /\ UNCHANGED <<disk, status, daemon, out, seen, reply, spent>>

\* SETTLE has passed.  An in-place save takes less than that, so only a timer
\* that was running when the save began can fire in the middle of it.
Settled ==
  /\ daemon = "serving"
  /\ watch = "settling"
  /\ editor = "truncated" => overlap
  /\ watch' = "reading"
  /\ pending' = FALSE
  /\ overlap' = FALSE
  /\ UNCHANGED <<file, readable, editor, draft, status, daemon, out, seen,
                 reply, spent>>

\* Mutant of Reload: the text is recorded only when it was applied.
ReloadKeepsSeen ==
  /\ watch = "reading"
  /\ watch' = "idle"
  /\ \/ readable /\ file = seen /\ UNCHANGED <<status, seen>>
     \/ /\ readable /\ file # seen
        /\ Install(file)
        /\ seen' = IF Parses(file) THEN file ELSE seen
     \/ /\ ~readable
        /\ RejectConfig("unreadable")
        /\ UNCHANGED seen
  /\ UNCHANGED <<disk, daemon, out, pending, reply, spent>>

\* reload: a read error is reported, the text seen last is skipped, and
\* anything else is installed and remembered, accepted or not.
Reload ==
  /\ watch = "reading"
  /\ watch' = "idle"
  /\ \/ readable /\ file = seen /\ UNCHANGED <<status, seen>>
     \/ /\ readable /\ file # seen
        /\ Install(file)
        /\ seen' = file
     \/ /\ ~readable
        /\ RejectConfig("unreadable")
        /\ UNCHANGED seen
  /\ UNCHANGED <<disk, daemon, out, pending, reply, spent>>

-----------------------------------------------------------------------------
(* SetConfig.                                                              *)

Spend(what) == spent' = [spent EXCEPT ![what] = @ + 1]

\* write_edit up to its write: validate, read, parse as TOML, edit.  Any
\* failure is answered at once.
SetConfig(edit) ==
  /\ Idle
  /\ spent.requests < MaxRequests
  /\ Spend("requests")
  /\ \/ /\ ValidEdit(edit) /\ readable /\ EditApplies(file, edit)
        /\ daemon' = "writing"
        /\ out' = ApplyEdit(file, edit)
        /\ UNCHANGED reply
     \/ /\ ~(ValidEdit(edit) /\ readable /\ EditApplies(file, edit))
        /\ reply' = "err"
        /\ UNCHANGED <<daemon, out>>
  /\ UNCHANGED <<disk, status, watch, pending, seen>>

\* atomic_write renames, then set_config installs the text it wrote.
WriteDone ==
  /\ daemon = "writing"
  /\ daemon' = "serving"
  /\ file' = out
  /\ readable' = TRUE
  /\ editor' = IF editor = "truncated" THEN "orphaned" ELSE editor
  /\ Notify
  /\ Install(out)
  /\ reply' = IF Parses(out) THEN "config" ELSE "err"
  /\ UNCHANGED <<draft, overlap, out, watch, seen, spent>>

\* The temp file cannot be written or renamed.
WriteFails ==
  /\ daemon = "writing"
  /\ daemon' = "serving"
  /\ reply' = "err"
  /\ UNCHANGED <<disk, status, out, watch, pending, seen, spent>>

-----------------------------------------------------------------------------
(* Everybody else.                                                         *)

\* With QuietStart the file is left alone until the watcher is registered.
Touchable == QuietStart => daemon \in {"serving", "writing"}

\* Writing a new file and renaming it into place; removing the file is the
\* same with the empty text.
SaveByRename(text) ==
  /\ Touchable
  /\ editor = "idle"
  /\ spent.saves < MaxSaves
  /\ Spend("saves")
  /\ file' = text
  /\ readable' = TRUE
  /\ Notify
  /\ UNCHANGED <<editor, draft, overlap, status, daemon, out, watch, seen,
                 reply>>

\* Truncating the file, some of the text perhaps written already ...
SaveInPlace(text, torn) ==
  /\ Touchable
  /\ readable
  /\ editor = "idle"
  /\ spent.saves < MaxSaves
  /\ Spend("saves")
  /\ editor' = "truncated"
  /\ draft' = text
  /\ overlap' = (watch = "settling")
  /\ file' = torn
  /\ Notify
  /\ UNCHANGED <<readable, status, daemon, out, watch, seen, reply>>

\* ... and writing the rest, into the file or into the inode SetConfig's
\* rename has taken out of the directory.
FinishSave ==
  /\ Touchable
  /\ editor # "idle"
  /\ editor' = "idle"
  /\ overlap' = FALSE
  /\ \/ editor = "truncated" /\ file' = draft /\ Notify
     \/ editor = "orphaned" /\ UNCHANGED <<file, pending>>
  /\ UNCHANGED <<readable, draft, status, daemon, out, watch, seen, reply,
                 spent>>

\* The file's permissions are taken away, and given back.
Outage ==
  /\ Touchable
  /\ readable
  /\ spent.outages < MaxOutages
  /\ Spend("outages")
  /\ readable' = FALSE
  /\ Notify
  /\ UNCHANGED <<file, editor, draft, overlap, status, daemon, out, watch,
                 seen, reply>>

OutageEnds ==
  /\ Touchable
  /\ ~readable
  /\ readable' = TRUE
  /\ Notify
  /\ UNCHANGED <<file, editor, draft, overlap, status, daemon, out, watch,
                 seen, reply, spent>>

\* An event that names the file and changed nothing: a no-op save, a read.
Noise ==
  /\ watch # "off"
  /\ spent.noise < MaxNoise
  /\ Spend("noise")
  /\ Notify
  /\ UNCHANGED <<disk, status, daemon, out, watch, seen, reply>>

\* The daemon dies anywhere, also between SetConfig's temp file and its
\* rename, and is started again.
Crash ==
  /\ spent.crashes < MaxCrashes
  /\ Spend("crashes")
  /\ daemon' = "boot"
  /\ watch' = "off"
  /\ pending' = FALSE
  /\ overlap' = FALSE
  /\ seen' = Empty
  /\ config' = Settings(Empty)
  /\ warnings' = FALSE
  /\ error' = "none"
  /\ generation' = 0
  /\ reply' = "none"
  /\ accepted' = Empty
  /\ UNCHANGED <<file, readable, editor, draft, out>>

-----------------------------------------------------------------------------
Init ==
  /\ file \in Texts
  /\ readable = TRUE
  /\ editor = "idle"
  /\ draft = Empty
  /\ overlap = FALSE
  /\ daemon = "boot"
  /\ out = Empty
  /\ watch = "off"
  /\ pending = FALSE
  /\ seen = Empty
  /\ config = Settings(Empty)
  /\ warnings = FALSE
  /\ error = "none"
  /\ generation = 0
  /\ reply = "none"
  /\ accepted = Empty
  /\ spent = [saves |-> 0, requests |-> 0, outages |-> 0, crashes |-> 0,
              noise |-> 0]

Daemon ==
  \/ ReadSeen
  \/ LoadInitial
  \/ \E state \in {"idle", "off"} : StartWatching(state)
  \/ WatchEvent
  \/ Settled
  \/ Reload
  \/ WriteDone
  \/ WriteFails

Environment ==
  \/ \E edit \in Edits : SetConfig(edit)
  \/ \E text \in Texts : SaveByRename(text)
  \/ \E text \in Texts, torn \in {Empty, Broken} : SaveInPlace(text, torn)
  \/ FinishSave
  \/ Outage
  \/ OutageEnds
  \/ Noise
  \/ Crash

Next == Daemon \/ Environment

Spec == Init /\ [][Next]_vars

\* The daemon keeps running: its next step, whichever it is, is taken.  The
\* settle timer of a save that is under way waits for it, so the save is
\* assumed to end.
FairSpec == Spec /\ WF_vars(Daemon) /\ WF_vars(FinishSave)

-----------------------------------------------------------------------------
(* Properties.                                                             *)

Accepted == {Unset} \cup MIN_POLL_INTERVAL_SECS .. MAX_POLL_INTERVAL_SECS

\* Types; the settings in effect hold only intervals `parse` accepts.
TypeOK ==
  /\ file \in TextType
  /\ readable \in BOOLEAN
  /\ editor \in {"idle", "truncated", "orphaned"}
  /\ draft \in TextType
  /\ overlap \in BOOLEAN
  /\ daemon \in Stages
  /\ out \in TextType
  /\ watch \in WatchStates
  /\ pending \in BOOLEAN
  /\ seen \in TextType
  /\ config \in [global : Accepted, provider : Accepted, enabled : {Unset, 0, 1}]
  /\ warnings \in BOOLEAN
  /\ error \in {"none", "unreadable", "invalid"}
  /\ generation \in Nat
  /\ reply \in {"none", "config", "err"}
  /\ accepted \in TextType
  /\ spent \in [saves : Nat, requests : Nat, outages : Nat, crashes : Nat,
                noise : Nat]

\* The watcher has nothing left to do.
Quiescent == daemon = "serving" /\ watch = "idle" /\ ~pending

\* No save is overlooked: a watcher with nothing left to do has compared the
\* very text that is in the file now, whatever saves, SetConfig writes and
\* outages hit it between its event, its drain and its read (watch.rs
\* `watch_config`).
CaughtUp == Quiescent /\ readable => seen = file

\* Every valid edit is put into effect (watch.rs): a watcher with nothing left
\* to do runs the settings of the file, or reports that the file is invalid.
InEffect ==
  Quiescent /\ readable =>
    IF Parses(file) THEN config = Settings(file) /\ error = "none"
    ELSE error # "none"

\* Nothing but an editor has touched the file so far.
OnlyTheEditor == spent.requests = 0 /\ spent.outages = 0

\* The same of a file that only an editor writes, whatever way it saves.
SavesTakeEffect == OnlyTheEditor => InEffect

\* No path to the settings, not even a provider's override edited by a client
\* into a file that is already invalid, makes the daemon poll faster or slower
\* than the accepted range (config.rs `interval`, `validate_edit`).
IntervalWithinLimits ==
  PollInterval(config) \in MIN_POLL_INTERVAL_SECS .. MAX_POLL_INTERVAL_SECS

\* The settings and the warnings shown next to them come from one and the same
\* file text, however many rejected texts came after it (state.rs
\* `install_config`).
WarningsMatchSettings ==
  /\ config = Settings(accepted)
  /\ warnings = accepted.unknown

\* A rejected write leaves config.toml exactly as it was (the comment on
\* config.rs `validate_edit`).
RejectedWriteLeavesFile ==
  [][(daemon = "writing" /\ daemon' = "serving" /\ reply' = "err")
       => file' = file]_vars

\* What the file ends up saying is what the daemon ends up running: once
\* nobody touches the file any more, its settings are in effect, or its error
\* is reported, for good.
FileTakesEffect ==
  \A text \in Texts :
    <>[](/\ file = text /\ editor = "idle" /\ OnlyTheEditor
         /\ ~(daemon = "serving" /\ watch = "off"))
      => <>[](IF Parses(text) THEN config = Settings(text) /\ error = "none"
              ELSE error = "invalid")

=============================================================================
