--------------------------- MODULE SingleInstance ---------------------------
(***************************************************************************)
(* Who owns the daemon's socket: `bind_socket` and `SocketGuard`           *)
(* (crates/teiryod/src/paths.rs), the life of the process around them      *)
(* (crates/teiryod/src/main.rs), the clients that spawn daemons on demand  *)
(* (crates/teiryo-core/src/protocol/transport.rs and the TUI's reconnect   *)
(* loop), the installer, which takes the same lock (scripts/install.sh),   *)
(* and a daemon from a build that had no lock.                             *)
(*                                                                         *)
(* Every system call is a step of its own: that is where two daemons       *)
(* started together, a crash and a shutdown can interleave.  An inode that *)
(* nobody holds open and no name leads to is free to be handed out again,  *)
(* as a file system does, so the guard's comparison is not trivially safe. *)
(***************************************************************************)
EXTENDS Naturals, FiniteSets

CONSTANTS
  Daemons,           \* process slots; a slot that is down can be spawned again
  Clients,           \* TUIs
  Inodes,            \* inode numbers of the socket's file system
  Legacy,            \* the inode of a daemon without the lock
  Installer,         \* the install script, as a holder of the lock
  None,
  CONNECT_ATTEMPTS,  \* connects after a spawn, before giving up
  MaxDisruptions     \* bound: crashes, stops, failures and installs

ASSUME SingleInstanceAssumption ==
  /\ Installer \notin Daemons /\ None \notin Daemons
  /\ Installer # None
  /\ None \notin Inodes /\ Legacy \in Inodes
  /\ CONNECT_ATTEMPTS \in Nat /\ MaxDisruptions \in Nat

VARIABLES
  path,         \* the inode the socket's name leads to
  lock,         \* holder of the flock on the lock file
  pc,           \* where each daemon process is
  sock,         \* inode of the socket each process has open
  guard,        \* inode recorded in each process's SocketGuard
  legacy,       \* whether the daemon without the lock is up
  installing,   \* whether the install script holds the lock
  cpc,          \* where each client is in connect_or_spawn
  tries,        \* connects each client has made since it spawned
  conn,         \* the daemon each client is connected to
  disruptions   \* bound

daemonVars == <<path, lock, pc, sock, guard, legacy>>
clientVars == <<cpc, tries, conn>>
vars == <<daemonVars, installing, clientVars, disruptions>>

PCs == {"down", "start", "locked", "probe", "stale", "rebind", "bound",
        "listening", "guarded", "serving", "dropping", "matched", "unlinked",
        "exiting"}

\* The process has called listen(2) and not closed the socket.
Listens(d) == /\ sock[d] # None
              /\ pc[d] \notin {"bound", "down"}

\* connect(2) on the socket's name finds somebody to answer.
Answers(i) == \/ legacy /\ i = Legacy
              \/ \E d \in Daemons : Listens(d) /\ sock[d] = i

\* Inodes that cannot be handed out: a name or an open socket holds them.
InUse == {path} \cup {sock[d] : d \in Daemons}
           \cup (IF legacy THEN {Legacy} ELSE {})

\* Everything a process held goes with it, in particular the lock and its
\* connections; only the name of the socket stays.
Ends(d) ==
  /\ pc' = [pc EXCEPT ![d] = "down"]
  /\ sock' = [sock EXCEPT ![d] = None]
  /\ guard' = [guard EXCEPT ![d] = None]
  /\ lock' = IF lock = d THEN None ELSE lock

\* The clients of a daemon whose connections close go back to reconnecting.
Disconnect(d) ==
  /\ conn' = [c \in Clients |-> IF conn[c] = d THEN None ELSE conn[c]]
  /\ cpc' = [c \in Clients |-> IF conn[c] = d THEN "idle" ELSE cpc[c]]
  /\ UNCHANGED tries

Goto(d, from, to) == pc[d] = from /\ pc' = [pc EXCEPT ![d] = to]

Disrupts == disruptions < MaxDisruptions /\ disruptions' = disruptions + 1

-----------------------------------------------------------------------------
(* bind_socket.                                                            *)

\* Mutant of AcquireLock: a shared lock.
AcquireLockShared(d) ==
  /\ pc[d] = "start"
  /\ lock' = d
  /\ Goto(d, "start", "locked")
  /\ UNCHANGED <<path, sock, guard, legacy, installing, clientVars,
                 disruptions>>

AcquireLock(d) ==
  /\ pc[d] = "start"
  /\ \/ /\ lock = None
        /\ lock' = d
        /\ Goto(d, "start", "locked")
        /\ UNCHANGED <<sock, guard>>
     \/ /\ lock # None
        /\ Ends(d)
  /\ UNCHANGED <<path, legacy, installing, clientVars, disruptions>>

\* bind(2) creates the name; nobody answers on it until listen(2).
BindTo(d, i) ==
  /\ i \notin InUse
  /\ path' = i
  /\ sock' = [sock EXCEPT ![d] = i]
  /\ UNCHANGED <<lock, guard>>

Bind(d) ==
  /\ \/ /\ path = None
        /\ Goto(d, "locked", "bound")
        /\ \E i \in Inodes : BindTo(d, i)
     \/ /\ path # None
        /\ Goto(d, "locked", "probe")
        /\ UNCHANGED <<path, lock, sock, guard>>
  /\ UNCHANGED <<legacy, installing, clientVars, disruptions>>

Listen(d) ==
  /\ Goto(d, "bound", "listening")
  /\ UNCHANGED <<path, lock, sock, guard, legacy, installing, clientVars,
                 disruptions>>

\* EADDRINUSE: connect as a client.  An answer is a daemon without the lock;
\* a refusal is debris; anything else is an error.
Probe(d) ==
  /\ pc[d] = "probe"
  /\ \/ /\ path # None /\ Answers(path)
        /\ Ends(d)
     \/ /\ path # None /\ ~Answers(path)
        /\ Goto(d, "probe", "stale")
        /\ UNCHANGED <<lock, sock, guard>>
     \/ /\ path = None
        /\ Ends(d)
  /\ UNCHANGED <<path, legacy, installing, clientVars, disruptions>>

Unlink(d) ==
  /\ pc[d] = "stale"
  /\ path # None
  /\ path' = None
  /\ Goto(d, "stale", "rebind")
  /\ UNCHANGED <<lock, sock, guard, legacy, installing, clientVars,
                 disruptions>>

Rebind(d) ==
  /\ path = None
  /\ Goto(d, "rebind", "bound")
  /\ \E i \in Inodes : BindTo(d, i)
  /\ UNCHANGED <<legacy, installing, clientVars, disruptions>>

\* symlink_metadata by name: what the name leads to now is what the guard
\* will unlink later.
MakeGuard(d) ==
  /\ path # None
  /\ Goto(d, "listening", "guarded")
  /\ guard' = [guard EXCEPT ![d] = path]
  /\ UNCHANGED <<path, lock, sock, legacy, installing, clientVars,
                 disruptions>>

-----------------------------------------------------------------------------
(* The life of the process around it.                                      *)

\* chmod, the database and the registration with the runtime succeed.
Serve(d) ==
  /\ Goto(d, "guarded", "serving")
  /\ UNCHANGED <<path, lock, sock, guard, legacy, installing, clientVars,
                 disruptions>>

\* One of them fails: the guard is dropped before the listener.
FailStartup(d) ==
  /\ Disrupts
  /\ Goto(d, "guarded", "dropping")
  /\ UNCHANGED <<path, lock, sock, guard, legacy, installing, clientVars>>

\* A signal or a Shutdown request: the runtime's tasks and the listener go
\* first, the guard when `main` returns.
Stop(d) ==
  /\ Disrupts
  /\ Goto(d, "serving", "dropping")
  /\ sock' = [sock EXCEPT ![d] = None]
  /\ Disconnect(d)
  /\ UNCHANGED <<path, lock, guard, legacy, installing>>

\* Mutant of CompareGuard: the lock goes before the unlink.
CompareGuardUnlocked(d) ==
  /\ IF path = guard[d]
     THEN Goto(d, "dropping", "matched")
     ELSE Goto(d, "dropping", "unlinked")
  /\ lock' = IF lock = d THEN None ELSE lock
  /\ UNCHANGED <<path, sock, guard, legacy, installing, clientVars,
                 disruptions>>

\* SocketGuard::drop compares what the name leads to, then unlinks by name.
CompareGuard(d) ==
  /\ IF path = guard[d]
     THEN Goto(d, "dropping", "matched")
     ELSE Goto(d, "dropping", "unlinked")
  /\ UNCHANGED <<path, lock, sock, guard, legacy, installing, clientVars,
                 disruptions>>

\* Mutant of GuardUnlinks: the socket is left to the next daemon's clean-up.
GuardUnlinksNothing(d) ==
  /\ Goto(d, "matched", "unlinked")
  /\ UNCHANGED <<path, lock, sock, guard, legacy, installing, clientVars,
                 disruptions>>

GuardUnlinks(d) ==
  /\ Goto(d, "matched", "unlinked")
  /\ path' = None
  /\ UNCHANGED <<lock, sock, guard, legacy, installing, clientVars,
                 disruptions>>

\* Mutant of ReleaseLock: the lock is leaked to the next instance.
ReleaseNothing(d) ==
  /\ Goto(d, "unlinked", "exiting")
  /\ guard' = [guard EXCEPT ![d] = None]
  /\ UNCHANGED <<path, lock, sock, legacy, installing, clientVars,
                 disruptions>>

ReleaseLock(d) ==
  /\ Goto(d, "unlinked", "exiting")
  /\ lock' = IF lock = d THEN None ELSE lock
  /\ guard' = [guard EXCEPT ![d] = None]
  /\ UNCHANGED <<path, sock, legacy, installing, clientVars, disruptions>>

Exit(d) ==
  /\ pc[d] = "exiting"
  /\ pc' = [pc EXCEPT ![d] = "down"]
  /\ sock' = [sock EXCEPT ![d] = None]
  /\ Disconnect(d)
  /\ UNCHANGED <<path, lock, guard, legacy, installing, disruptions>>

\* kill -9, at any point.
Crash(d) ==
  /\ Disrupts
  /\ pc[d] # "down"
  /\ Ends(d)
  /\ Disconnect(d)
  /\ UNCHANGED <<path, legacy, installing>>

-----------------------------------------------------------------------------
(* The others.                                                             *)

\* The daemon without the lock stops and unlinks its socket, or dies and
\* leaves it behind.
LegacyEnds ==
  /\ legacy
  /\ Disrupts
  /\ legacy' = FALSE
  /\ path' \in {path, None}
  /\ UNCHANGED <<lock, pc, sock, guard, installing, clientVars>>

\* The install script, once it has stopped the daemons it found: take the
\* lock, remove the name, let go.
InstallerLocks ==
  /\ lock = None /\ ~legacy
  /\ Disrupts
  /\ lock' = Installer
  /\ installing' = TRUE
  /\ UNCHANGED <<path, pc, sock, guard, legacy, clientVars>>

InstallerUnlinks ==
  /\ installing
  /\ path' = None
  /\ lock' = None
  /\ installing' = FALSE
  /\ UNCHANGED <<pc, sock, guard, legacy, clientVars, disruptions>>

\* connect_or_spawn's first, straight connect, and the retries after a spawn.
Connect(c) ==
  /\ cpc[c] \in {"idle", "retrying"}
  /\ path # None
  /\ \E d \in Daemons :
       /\ Listens(d) /\ sock[d] = path
       /\ conn' = [conn EXCEPT ![c] = d]
       /\ cpc' = [cpc EXCEPT ![c] = "connected"]
  /\ tries' = [tries EXCEPT ![c] = 0]
  /\ UNCHANGED <<daemonVars, installing, disruptions>>

\* Nobody answers: spawn the daemon, once.
Spawn(c) ==
  /\ cpc[c] = "idle"
  /\ path = None \/ ~Answers(path)
  /\ \E d \in Daemons : Goto(d, "down", "start")
  /\ cpc' = [cpc EXCEPT ![c] = "retrying"]
  /\ tries' = [tries EXCEPT ![c] = 0]
  /\ UNCHANGED <<path, lock, sock, guard, legacy, installing, conn,
                 disruptions>>

\* Somebody starts the daemon by hand, whoever is running already.
Launch(d) ==
  /\ Disrupts
  /\ Goto(d, "down", "start")
  /\ UNCHANGED <<path, lock, sock, guard, legacy, installing, clientVars>>

ConnectFails(c) ==
  /\ cpc[c] = "retrying"
  /\ path = None \/ ~Answers(path)
  /\ tries[c] < CONNECT_ATTEMPTS
  /\ tries' = [tries EXCEPT ![c] = @ + 1]
  /\ cpc' = [cpc EXCEPT ![c] = IF tries[c] + 1 = CONNECT_ATTEMPTS
                               THEN "never_bound" ELSE "retrying"]
  /\ UNCHANGED <<daemonVars, installing, conn, disruptions>>

\* The reconnect loop waits out its backoff and starts over.
Reconnect(c) ==
  /\ cpc[c] = "never_bound"
  /\ cpc' = [cpc EXCEPT ![c] = "idle"]
  /\ tries' = [tries EXCEPT ![c] = 0]
  /\ UNCHANGED <<daemonVars, installing, conn, disruptions>>

-----------------------------------------------------------------------------
\* A host on which nothing ran, on which a daemon was killed, or on which a
\* daemon without the lock is serving.
Init ==
  /\ path \in {None, Legacy}
  /\ legacy \in BOOLEAN /\ (legacy => path = Legacy)
  /\ lock = None
  /\ pc = [d \in Daemons |-> "down"]
  /\ sock = [d \in Daemons |-> None]
  /\ guard = [d \in Daemons |-> None]
  /\ installing = FALSE
  /\ cpc = [c \in Clients |-> "idle"]
  /\ tries = [c \in Clients |-> 0]
  /\ conn = [c \in Clients |-> None]
  /\ disruptions = 0

DaemonStep(d) ==
  \/ AcquireLock(d) \/ Bind(d) \/ Listen(d) \/ Probe(d) \/ Unlink(d)
  \/ Rebind(d) \/ MakeGuard(d) \/ Serve(d) \/ CompareGuard(d)
  \/ GuardUnlinks(d) \/ ReleaseLock(d) \/ Exit(d)

ClientStep(c) == Connect(c) \/ Spawn(c) \/ ConnectFails(c) \/ Reconnect(c)

Disruption ==
  \/ \E d \in Daemons : FailStartup(d) \/ Stop(d) \/ Crash(d) \/ Launch(d)
  \/ LegacyEnds
  \/ InstallerLocks

Next ==
  \/ \E d \in Daemons : DaemonStep(d)
  \/ \E c \in Clients : ClientStep(c)
  \/ InstallerUnlinks
  \/ Disruption

Spec == Init /\ [][Next]_vars

\* Processes run, and the kernel schedules them all; nothing is assumed of
\* whoever stops, kills or installs.
Fairness ==
  /\ \A d \in Daemons : WF_vars(DaemonStep(d))
  /\ \A c \in Clients : WF_vars(ClientStep(c))
  /\ WF_vars(InstallerUnlinks)

FairSpec == Spec /\ Fairness

-----------------------------------------------------------------------------
(* Properties.                                                             *)

Holders == {"locked", "probe", "stale", "rebind", "bound", "listening",
            "guarded", "serving", "dropping", "matched", "unlinked"}

\* Types; a client never counts past the attempts connect_or_spawn makes.
TypeOK ==
  /\ path \in Inodes \cup {None}
  /\ lock \in Daemons \cup {Installer, None}
  /\ pc \in [Daemons -> PCs]
  /\ sock \in [Daemons -> Inodes \cup {None}]
  /\ guard \in [Daemons -> Inodes \cup {None}]
  /\ legacy \in BOOLEAN
  /\ installing \in BOOLEAN
  /\ cpc \in [Clients -> {"idle", "retrying", "never_bound", "connected"}]
  /\ tries \in [Clients -> 0..CONNECT_ATTEMPTS]
  /\ conn \in [Clients -> Daemons \cup {None}]
  /\ disruptions \in Nat

\* A live daemon's socket is never taken from under it: from its bind until it
\* gives the socket up itself, the socket's name leads to it, whoever else
\* starts, crashes, stops or installs meanwhile (paths.rs `bind_socket`).
LiveSocketReachable ==
  \A d \in Daemons :
    pc[d] \in {"bound", "listening", "guarded", "serving"} => path = sock[d]

\* A daemon from a build without the lock is left alone while it answers.
LegacyLeftAlone == legacy => path = Legacy

\* Two daemons never serve at once, one of them without the lock included.
OneServer ==
  \A d \in Daemons :
    pc[d] = "serving" =>
      ~legacy /\ \A e \in Daemons : pc[e] = "serving" => e = d

\* A stop or a failed start leaves no debris: when the lock is let go, the
\* socket's name does not lead to the inode this daemon bound.
CleanExit ==
  [][\A d \in Daemons :
       (pc[d] = "unlinked" /\ pc'[d] = "exiting") => path # guard[d]]_vars

\* Once the disruptions are over, every client ends up connected, although a
\* daemon it spawned may lose the lock to one that was just going away.
ClientsGetServed ==
  \A c \in Clients : <>[](legacy \/ cpc[c] = "connected")

=============================================================================
