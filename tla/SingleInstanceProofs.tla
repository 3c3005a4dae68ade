------------------------ MODULE SingleInstanceProofs ------------------------
(***************************************************************************)
(* The single-instance protocol for any number of daemons, clients and     *)
(* inodes and any number of crashes, stops, failures and installs.         *)
(***************************************************************************)
EXTENDS SingleInstance, TLAPS

\* Places in which the socket's name is this daemon's.
Owners == {"bound", "listening", "guarded", "serving"}

\* The lock's holder is the only process inside bind_socket and beyond.
LockInv ==
  /\ \A d \in Daemons : pc[d] \in Holders => lock = d
  /\ installing => lock = Installer /\ ~legacy

\* The daemon without the lock keeps its name, and keeps every other daemon
\* from getting past the probe.
LegacyInv ==
  legacy => /\ path = Legacy
            /\ \A d \in Daemons : pc[d] \in {"down", "start", "locked", "probe"}

\* The name leads to its owner.
OwnerInv ==
  \A d \in Daemons : pc[d] \in Owners => path = sock[d] /\ path # None

\* A daemon on its way out has taken its own name down.
GuardInv ==
  \A d \in Daemons :
    /\ pc[d] \in {"guarded", "serving", "dropping", "matched", "unlinked"}
         => guard[d] # None
    /\ pc[d] = "unlinked" => path # guard[d]

IInv == TypeOK /\ LockInv /\ LegacyInv /\ OwnerInv /\ GuardInv

LEMMA InitIInv == Init => IInv
<1> SUFFICES ASSUME Init PROVE IInv
  OBVIOUS
<1>1. TypeOK
  <2>1. legacy \in BOOLEAN /\ installing \in BOOLEAN
    BY DEF Init
  <2>2. /\ path \in Inodes \cup {None}
        /\ lock \in Daemons \cup {Installer, None}
        /\ disruptions \in Nat
    BY SingleInstanceAssumption DEF Init
  <2>3. /\ pc \in [Daemons -> PCs]
        /\ sock \in [Daemons -> Inodes \cup {None}]
        /\ guard \in [Daemons -> Inodes \cup {None}]
    BY DEF Init, PCs
  <2>4. /\ cpc \in [Clients -> {"idle", "retrying", "never_bound", "connected"}]
        /\ tries \in [Clients -> 0..CONNECT_ATTEMPTS]
        /\ conn \in [Clients -> Daemons \cup {None}]
    BY SingleInstanceAssumption DEF Init
  <2>5. QED BY <2>1, <2>2, <2>3, <2>4 DEF TypeOK
<1>2. LockInv /\ OwnerInv /\ GuardInv
  BY DEF Init, LockInv, OwnerInv, GuardInv, Holders, Owners
<1>3. LegacyInv
  BY DEF Init, LegacyInv
<1>4. QED BY <1>1, <1>2, <1>3 DEF IInv

LEMMA TypeStep == ASSUME TypeOK, [Next]_vars PROVE TypeOK'
<1> USE SingleInstanceAssumption DEF TypeOK, PCs
<1>1. ASSUME NEW d \in Daemons, DaemonStep(d) PROVE TypeOK'
  <2>1. CASE AcquireLock(d)
    BY <2>1 DEF AcquireLock, Goto, Ends, clientVars
  <2>2. CASE Bind(d)
    BY <2>2 DEF Bind, BindTo, Goto, clientVars
  <2>3. CASE Listen(d) \/ Serve(d)
    BY <2>3 DEF Listen, Serve, Goto, clientVars
  <2>4. CASE Probe(d)
    BY <2>4 DEF Probe, Goto, Ends, clientVars
  <2>5. CASE Unlink(d) \/ GuardUnlinks(d)
    BY <2>5 DEF Unlink, GuardUnlinks, Goto, clientVars
  <2>6. CASE Rebind(d)
    BY <2>6 DEF Rebind, BindTo, Goto, clientVars
  <2>7. CASE MakeGuard(d)
    BY <2>7 DEF MakeGuard, Goto, clientVars
  <2>8. CASE CompareGuard(d)
    BY <2>8 DEF CompareGuard, Goto, clientVars
  <2>9. CASE ReleaseLock(d)
    BY <2>9 DEF ReleaseLock, Goto, clientVars
  <2>10. CASE Exit(d)
    BY <2>10 DEF Exit, Disconnect
  <2>11. QED
    BY <1>1, <2>1, <2>2, <2>3, <2>4, <2>5, <2>6, <2>7, <2>8, <2>9, <2>10
    DEF DaemonStep
<1>2. ASSUME NEW c \in Clients, ClientStep(c) PROVE TypeOK'
  <2>1. CASE Connect(c)
    BY <2>1 DEF Connect, daemonVars
  <2>2. CASE Spawn(c)
    BY <2>2 DEF Spawn, Goto
  <2>3. CASE ConnectFails(c)
    BY <2>3 DEF ConnectFails, daemonVars
  <2>4. CASE Reconnect(c)
    BY <2>4 DEF Reconnect, daemonVars
  <2>5. QED BY <1>2, <2>1, <2>2, <2>3, <2>4 DEF ClientStep
<1>3. ASSUME NEW d \in Daemons, FailStartup(d) \/ Stop(d) \/ Crash(d) \/ Launch(d)
      PROVE  TypeOK'
  <2>1. CASE FailStartup(d)
    BY <2>1 DEF FailStartup, Disrupts, Goto, clientVars
  <2>2. CASE Stop(d)
    BY <2>2 DEF Stop, Disrupts, Goto, Disconnect
  <2>3. CASE Crash(d)
    BY <2>3 DEF Crash, Disrupts, Ends, Disconnect
  <2>4. CASE Launch(d)
    BY <2>4 DEF Launch, Disrupts, Goto, clientVars
  <2>5. QED BY <1>3, <2>1, <2>2, <2>3, <2>4
<1>4. CASE LegacyEnds
  <2>1. legacy' = FALSE /\ path' \in {path, None} /\ disruptions' \in Nat
    BY <1>4 DEF LegacyEnds, Disrupts
  <2>2. UNCHANGED <<lock, pc, sock, guard, installing, clientVars>>
    BY <1>4 DEF LegacyEnds
  <2>3. QED BY <2>1, <2>2 DEF clientVars
<1>5. CASE InstallerLocks \/ InstallerUnlinks
  <2>1. /\ installing' \in BOOLEAN /\ disruptions' \in Nat
        /\ path' \in {path, None} /\ lock' \in {Installer, None}
    <3>1. CASE InstallerLocks
      BY <3>1 DEF InstallerLocks, Disrupts
    <3>2. CASE InstallerUnlinks
      BY <3>2 DEF InstallerUnlinks
    <3>3. QED BY <1>5, <3>1, <3>2
  <2>2. UNCHANGED <<pc, sock, guard, legacy, clientVars>>
    BY <1>5 DEF InstallerLocks, InstallerUnlinks
  <2>3. QED BY <2>1, <2>2 DEF clientVars
<1>6. CASE UNCHANGED vars
  BY <1>6 DEF vars, daemonVars, clientVars
<1>7. QED
  BY <1>1, <1>2, <1>3, <1>4, <1>5, <1>6 DEF Next, Disruption

LEMMA NextIInv == IInv /\ [Next]_vars => IInv'
<1> SUFFICES ASSUME IInv, [Next]_vars PROVE IInv'
  OBVIOUS
<1> USE SingleInstanceAssumption
<1>0. TypeOK /\ TypeOK'
  BY TypeStep DEF IInv
<1>1. ASSUME NEW d \in Daemons, DaemonStep(d) PROVE IInv'
  <2> USE <1>0 DEF IInv, TypeOK, LockInv, LegacyInv, OwnerInv, GuardInv,
                   Holders, Owners
  <2>1. CASE AcquireLock(d)
    BY <2>1 DEF AcquireLock, Goto, Ends
  <2>2. CASE Bind(d)
    BY <2>2 DEF Bind, BindTo, Goto
  <2>3. CASE Listen(d) \/ Serve(d)
    BY <2>3 DEF Listen, Serve, Goto
  <2>4. CASE Probe(d)
    BY <2>4 DEF Probe, Goto, Ends, Answers
  <2>5. CASE Unlink(d) \/ GuardUnlinks(d)
    BY <2>5 DEF Unlink, GuardUnlinks, Goto
  <2>6. CASE Rebind(d)
    BY <2>6 DEF Rebind, BindTo, Goto
  <2>7. CASE MakeGuard(d)
    BY <2>7 DEF MakeGuard, Goto
  <2>8. CASE CompareGuard(d)
    BY <2>8 DEF CompareGuard, Goto
  <2>9. CASE ReleaseLock(d)
    BY <2>9 DEF ReleaseLock, Goto
  <2>10. CASE Exit(d)
    BY <2>10 DEF Exit
  <2>11. QED
    BY <1>1, <2>1, <2>2, <2>3, <2>4, <2>5, <2>6, <2>7, <2>8, <2>9, <2>10
    DEF DaemonStep
<1>2. ASSUME NEW c \in Clients, ClientStep(c) PROVE IInv'
  <2>1. CASE Connect(c) \/ ConnectFails(c) \/ Reconnect(c)
    <3>1. UNCHANGED daemonVars /\ UNCHANGED installing
      BY <2>1 DEF Connect, ConnectFails, Reconnect
    <3>2. QED
      BY <1>0, <3>1
      DEF daemonVars, IInv, LockInv, LegacyInv, OwnerInv, GuardInv
  <2>2. CASE Spawn(c)
    BY <1>0, <2>2
    DEF Spawn, Goto, IInv, TypeOK, LockInv, LegacyInv, OwnerInv, GuardInv,
        Holders, Owners
  <2>3. QED BY <1>2, <2>1, <2>2 DEF ClientStep
<1>3. ASSUME NEW d \in Daemons, FailStartup(d) \/ Stop(d) \/ Crash(d) \/ Launch(d)
      PROVE  IInv'
  <2> USE <1>0 DEF IInv, TypeOK, LockInv, LegacyInv, OwnerInv, GuardInv,
                   Holders, Owners
  <2>1. CASE FailStartup(d)
    BY <2>1 DEF FailStartup, Goto
  <2>2. CASE Stop(d)
    BY <2>2 DEF Stop, Goto
  <2>3. CASE Crash(d)
    BY <2>3 DEF Crash, Ends
  <2>4. CASE Launch(d)
    BY <2>4 DEF Launch, Goto
  <2>5. QED BY <1>3, <2>1, <2>2, <2>3, <2>4
<1>4. CASE LegacyEnds
  BY <1>0, <1>4
  DEF LegacyEnds, IInv, TypeOK, LockInv, LegacyInv, OwnerInv, GuardInv,
      Holders, Owners
<1>5. CASE InstallerLocks
  BY <1>0, <1>5
  DEF InstallerLocks, IInv, TypeOK, LockInv, LegacyInv, OwnerInv, GuardInv
<1>6. CASE InstallerUnlinks
  BY <1>0, <1>6
  DEF InstallerUnlinks, IInv, TypeOK, LockInv, LegacyInv, OwnerInv, GuardInv,
      Holders, Owners
<1>7. CASE UNCHANGED vars
  BY <1>0, <1>7
  DEF vars, daemonVars, IInv, LockInv, LegacyInv, OwnerInv, GuardInv
<1>8. QED
  BY <1>1, <1>2, <1>3, <1>4, <1>5, <1>6, <1>7 DEF Next, Disruption

LEMMA SpecIInv == Spec => []IInv
BY InitIInv, NextIInv, PTL DEF Spec

-----------------------------------------------------------------------------
(* The theorems.                                                           *)

\* Every variable of the single-instance protocol keeps its type.
THEOREM TypeCorrect == Spec => []TypeOK
BY SpecIInv, PTL DEF IInv

\* No daemon's socket is taken from under it (`bind_socket`, `SocketGuard`).
THEOREM SocketNeverStolen == Spec => []LiveSocketReachable
<1>1. IInv => LiveSocketReachable
  BY DEF IInv, OwnerInv, Owners, LiveSocketReachable
<1>2. QED BY SpecIInv, <1>1, PTL

\* Two daemons never serve at once, also across the upgrade to the lock.
THEOREM ServerIsUnique == Spec => []OneServer
<1>1. IInv => OneServer
  <2> SUFFICES ASSUME IInv, NEW d \in Daemons, pc[d] = "serving"
               PROVE ~legacy /\ \A e \in Daemons : pc[e] = "serving" => e = d
    BY DEF OneServer
  <2>1. ~legacy
    BY DEF IInv, LegacyInv
  <2>2. ASSUME NEW e \in Daemons, pc[e] = "serving" PROVE e = d
    <3>1. lock = d /\ lock = e
      BY <2>2 DEF IInv, LockInv, Holders
    <3>2. QED BY <3>1
  <2>3. QED BY <2>1, <2>2
<1>2. QED BY SpecIInv, <1>1, PTL

\* A daemon without the lock is left alone while it answers.
THEOREM LegacySafe == Spec => []LegacyLeftAlone
<1>1. IInv => LegacyLeftAlone
  BY DEF IInv, LegacyInv, LegacyLeftAlone
<1>2. QED BY SpecIInv, <1>1, PTL

\* The lock is only ever let go with the socket's name taken down.
THEOREM NoDebris == Spec => CleanExit
<1>1. IInv /\ [Next]_vars =>
        [\A d \in Daemons :
           (pc[d] = "unlinked" /\ pc'[d] = "exiting") => path # guard[d]]_vars
  BY DEF IInv, GuardInv
<1>2. QED BY SpecIInv, <1>1, PTL DEF Spec, CleanExit
=============================================================================
