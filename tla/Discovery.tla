----------------------------- MODULE Discovery -----------------------------
(***************************************************************************)
(* How an account comes into service: discovery when the daemon starts     *)
(* (lib.rs `run`), and the task that repeats it until a login is found     *)
(* (scheduler.rs `spawn_rediscovery`), for the Claude adapter              *)
(* (claude/mod.rs, credentials.rs).                                        *)
(*                                                                         *)
(* The daemon is single-threaded: a step is what runs between two awaits.  *)
(* A credentials file is read at once; the Keychain is read by a child     *)
(* process, and the login and the settings may change while it runs.       *)
(***************************************************************************)
EXTENDS Integers

CONSTANTS
  KeychainFallback, \* keychain_fallback: macOS, and no path was named
  MaxChanges,       \* bound: changes of the login
  MaxLoads,         \* bound: config loads
  MaxStarts         \* bound: starts of the daemon

ASSUME DiscoveryAssumption ==
  /\ KeychainFallback \in BOOLEAN
  /\ MaxChanges \in Nat /\ MaxLoads \in Nat /\ MaxStarts \in Nat

VARIABLES
  file,        \* ~/.claude/.credentials.json
  keychain,    \* the Keychain item
  up,
  enabled,     \* the provider, by the config in effect
  generation,  \* config_tx: how many loads
  seen,        \* the task's config_rx: the load it has seen
  task,        \* where the discovery stands
  immediately,
  accounts,    \* how many poll tasks serve the one account
  error,       \* discovery_errors
  last,        \* history: how the last attempt ended
  changes,
  starts

discoveryVars == <<file, keychain, up, enabled, generation, seen, task, immediately,
          accounts, error, last, changes, starts>>

NoError == "none"

\* What a store may hold: nothing, something that is not the JSON, JSON with no
\* token, or a token.
Contents == {"missing", "garbled", "no_token", "token"}

\* `starting` is the attempt of `run`; the others are the task's.
Tasks == {"none", "starting", "starting_keychain", "parked", "sleeping",
          "keychain", "ended"}

\* How an attempt may end.
Results == {NoError, "not_logged_in", "store"}

FlagsOK == up \in BOOLEAN /\ enabled \in BOOLEAN /\ immediately \in BOOLEAN

ValuesOK ==
  /\ file \in Contents /\ keychain \in Contents
  /\ generation \in 0 .. MaxLoads /\ seen \in 0 .. generation
  /\ task \in Tasks
  /\ accounts \in Nat
  /\ error \in Results /\ last \in Results
  /\ changes \in 0 .. MaxChanges /\ starts \in 0 .. MaxStarts

DiscoveryTypeOK == FlagsOK /\ ValuesOK

-----------------------------------------------------------------------------
(* Credentials.                                                            *)

\* The error of what was read, NoError for a token.
ParseCredentials(content) ==
  CASE content = "token"    -> NoError
    [] content = "no_token" -> "not_logged_in"
    [] OTHER                -> "store"

\* load.
LoadFile ==
  IF file = "missing" THEN "not_logged_in" ELSE ParseCredentials(file)

\* run_reader and interpret: the reader answers, or it times out or fails.
KeychainAnswers ==
  {IF keychain = "missing" THEN "not_logged_in" ELSE ParseCredentials(keychain),
   "store"}

ReadsKeychain == KeychainFallback /\ file = "missing"

-----------------------------------------------------------------------------
(* Starting.                                                               *)

DiscoveryInit ==
  /\ file \in Contents /\ keychain \in Contents
  /\ up = FALSE /\ enabled = TRUE
  /\ generation = 0 /\ seen = 0
  /\ task = "none" /\ immediately = FALSE
  /\ accounts = 0 /\ error = NoError /\ last = NoError
  /\ changes = 0 /\ starts = 0

\* Daemon::new and load_initial: a fresh state, and whatever the file says.
StartDaemon(on) ==
  /\ ~up /\ starts < MaxStarts
  /\ up' = TRUE /\ starts' = starts + 1
  /\ enabled' = on
  /\ generation' = 0 /\ seen' = 0
  /\ task' = IF ReadsKeychain THEN "starting_keychain" ELSE "starting"
  /\ immediately' = FALSE
  /\ accounts' = 0 /\ error' = NoError /\ last' = NoError
  /\ UNCHANGED <<file, keychain, changes>>

\* start_account, the one path into the scheduler.
StartAccount == accounts' = accounts + 1

\* The top of the task's loop when no attempt is due at once.
RediscoveryLoop ==
  IF enabled THEN task' = "sleeping" /\ immediately' = FALSE
  ELSE task' = "parked" /\ immediately' = TRUE

\* How an attempt of `run` ends: polls, or a task that tries again.
StartupEnds(result) ==
  /\ last' = result
  /\ IF result = NoError
     THEN StartAccount /\ task' = "ended" /\ UNCHANGED <<error, immediately>>
     ELSE /\ error' = result
          /\ RediscoveryLoop
          /\ UNCHANGED accounts
  /\ seen' = generation
  /\ UNCHANGED <<file, keychain, up, enabled, generation, changes, starts>>

StartupReadsFile ==
  up /\ task = "starting" /\ StartupEnds(LoadFile)

StartupReadsKeychain ==
  /\ up /\ task = "starting_keychain"
  /\ \E result \in KeychainAnswers : StartupEnds(result)

-----------------------------------------------------------------------------
(* Trying again.                                                           *)

\* Mutant of AttemptEnds: the reason of an earlier attempt is left in place.
AttemptEndsKeepingError(result) ==
  /\ last' = result
  /\ IF result = NoError
     THEN StartAccount /\ task' = "ended" /\ UNCHANGED <<error, immediately>>
     ELSE error' = result /\ RediscoveryLoop /\ UNCHANGED accounts

\* Mutant of AttemptEnds: the task goes on after it has found the login.
AttemptEndsLooping(result) ==
  /\ last' = result
  /\ error' = result
  /\ IF result = NoError THEN StartAccount ELSE UNCHANGED accounts
  /\ RediscoveryLoop

\* Either way the reason is the newest one; a login ends the task.
AttemptEnds(result) ==
  /\ last' = result
  /\ error' = result
  /\ IF result = NoError
     THEN StartAccount /\ task' = "ended" /\ UNCHANGED immediately
     ELSE RediscoveryLoop /\ UNCHANGED accounts

\* An attempt begins: the file is read within the step.
Attempt ==
  IF ReadsKeychain
  THEN /\ task' = "keychain" /\ immediately' = FALSE
       /\ UNCHANGED <<accounts, error, last>>
  ELSE AttemptEnds(LoadFile)

SleepElapses ==
  /\ up /\ task = "sleeping"
  /\ Attempt
  /\ UNCHANGED <<file, keychain, up, enabled, generation, seen, changes, starts>>

AttemptReadsKeychain ==
  /\ up /\ task = "keychain"
  /\ \E result \in KeychainAnswers : AttemptEnds(result)
  /\ UNCHANGED <<file, keychain, up, enabled, generation, seen, changes, starts>>

\* Mutant of WakesByConfig: a parked task sees the load and stays parked.
WakesByConfigParked ==
  /\ up /\ seen < generation
  /\ seen' = generation
  /\ task \in {"parked", "sleeping"}
  /\ UNCHANGED <<task, immediately, accounts, error, last>>

\* changed() resolves for any load the task has not seen.
WakesByConfig ==
  /\ up /\ seen < generation
  /\ seen' = generation
  /\ task \in {"parked", "sleeping"}
  /\ IF enabled /\ immediately THEN Attempt
     ELSE RediscoveryLoop /\ UNCHANGED <<accounts, error, last>>

Wake ==
  /\ WakesByConfig
  /\ UNCHANGED <<file, keychain, up, enabled, generation, changes, starts>>

-----------------------------------------------------------------------------
(* The user.                                                               *)

\* The watcher or a SetConfig; both only run once the server does.
LoadConfig(on) ==
  /\ up /\ task \notin {"starting", "starting_keychain"}
  /\ generation < MaxLoads
  /\ generation' = generation + 1
  /\ enabled' = on
  /\ UNCHANGED <<file, keychain, up, seen, task, immediately, accounts, error,
                 last, changes, starts>>

ChangeLogin ==
  /\ changes < MaxChanges
  /\ changes' = changes + 1
  /\ \/ file' \in Contents \ {file} /\ UNCHANGED keychain
     \/ keychain' \in Contents \ {keychain} /\ UNCHANGED file
  /\ UNCHANGED <<up, enabled, generation, seen, task, immediately, accounts,
                 error, last, starts>>

\* Shutdown, or a crash.
Stop ==
  /\ up
  /\ up' = FALSE /\ task' = "none"
  /\ UNCHANGED <<file, keychain, enabled, generation, seen, immediately,
                 accounts, error, last, changes, starts>>

DiscoveryNext ==
  \/ \E on \in BOOLEAN : StartDaemon(on) \/ LoadConfig(on)
  \/ StartupReadsFile \/ StartupReadsKeychain
  \/ SleepElapses \/ AttemptReadsKeychain \/ Wake
  \/ ChangeLogin \/ Stop

\* The runtime polls every task that is ready, and the reader is killed when its
\* five seconds are over; which of a ready sleep and a ready load is taken is
\* chance, and a Keychain that keeps failing is not ruled out.
DiscoveryFairness ==
  /\ WF_discoveryVars(StartupReadsFile) /\ WF_discoveryVars(StartupReadsKeychain)
  /\ WF_discoveryVars(SleepElapses) /\ WF_discoveryVars(AttemptReadsKeychain)
  /\ WF_discoveryVars(Wake)

DiscoverySpec == DiscoveryInit /\ [][DiscoveryNext]_discoveryVars /\ DiscoveryFairness

-----------------------------------------------------------------------------
(* Properties.                                                             *)

Serving == up /\ task \notin {"starting", "starting_keychain"}

\* One account, one poll task: startup and re-discovery never both bring an
\* account into service, and a found login is not started again (run,
\* spawn_rediscovery, start_account).
StartedOnce == accounts <= 1

\* What `Providers` answers for the provider: a row once it has an account or
\* discovery failed.
ProviderHealth ==
  IF accounts = 0 /\ error = NoError THEN {}
  ELSE {[accounts |-> accounts, discovery_error |-> error]}

\* An empty dashboard says why: once the daemon serves, `Providers` has a row,
\* which carries a discovery error exactly while there is no account, and
\* then it is the reason of the latest attempt (discovery_errors,
\* provider_health).
EmptinessExplained ==
  Serving =>
    \E row \in ProviderHealth :
      /\ row.accounts = 0 <=> row.discovery_error # NoError
      /\ row.accounts = 0 => row.discovery_error = last

\* Logging in is enough: if from some time on the daemon runs, the provider is
\* enabled and the adapter would find a login in the file, the account is
\* served, without a restart (spawn_rediscovery).
LoginNoticed ==
  <>[](up /\ enabled /\ file = "token") => <>[](accounts > 0)

=============================================================================
