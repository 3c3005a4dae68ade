-------------------------- MODULE LiveUpdatesProofs --------------------------
(***************************************************************************)
(* What LiveUpdates promises for every set of accounts and every bound: the *)
(* long-poll tasks do not pile up, and a dashboard that has nothing on its  *)
(* way shows every account's newest poll.                                   *)
(***************************************************************************)
EXTENDS LiveUpdates, SequenceTheorems, FiniteSetTheorems, WellFoundedInduction,
        TLAPS

-----------------------------------------------------------------------------
(* Sets of numbers, and sequences.                                         *)

\* A nonempty set of naturals has a least element.
LEMMA LeastExists ==
  ASSUME NEW S, S \subseteq Nat, S # {}
  PROVE  \E x \in S : \A y \in S : x <= y
<1> DEFINE R == OpToRel(<, Nat)
<1>1. \E x \in S : \A y \in S : ~(<<y, x>> \in R)
  <2>1. IsWellFoundedOn(R, Nat)
    BY NatLessThanWellFounded, Zenon
  <2> HIDE DEF R
  <2>2. QED BY <2>1, WFMin, Zenon
<1>2. \A x, y \in Nat : <<y, x>> \notin R => x <= y
  BY DEF OpToRel
<1> HIDE DEF R
<1>3. QED BY <1>1, <1>2

\* A nonempty bounded one has a greatest.
LEMMA GreatestExists ==
  ASSUME NEW S, S \subseteq Nat, S # {}, NEW m \in Nat, \A x \in S : x <= m
  PROVE  \E x \in S : \A y \in S : x >= y
<1> DEFINE T == {m - x : x \in S}
<1>1. T \subseteq Nat /\ T # {}
  <2>1. \A x \in S : m - x \in Nat
    OBVIOUS
  <2>2. QED BY <2>1, Zenon
<1>2. PICK t \in T : \A u \in T : t <= u
  <2> HIDE DEF T
  <2> QED BY <1>1, LeastExists
<1>3. PICK x \in S : t = m - x
  BY <1>2
<1>4. \A y \in S : m - x <= m - y
  BY <1>2, <1>3
<1>5. QED BY <1>4

\* The maximum of such a set is what its definition says.
LEMMA MaxProperties ==
  ASSUME NEW S, S \subseteq Nat, S # {}, NEW m \in Nat, \A x \in S : x <= m
  PROVE  Max(S) \in S /\ \A y \in S : Max(S) >= y
<1>1. \E x \in S : \A y \in S : x >= y
  BY GreatestExists
<1>2. QED BY <1>1, Zenon DEF Max

LEMMA MinProperties ==
  ASSUME NEW S, S \subseteq Nat, S # {}
  PROVE  Min(S) \in S /\ \A y \in S : Min(S) <= y
<1>1. \E x \in S : \A y \in S : x <= y
  BY LeastExists
<1>2. QED BY <1>1, Zenon DEF Min

-----------------------------------------------------------------------------
(* The long-poll tasks.                                                    *)

\* A task is a record, so that a step of it keeps its id.
IsLoop(l) ==
  /\ l = [id |-> l.id, conn |-> l.conn, since |-> l.since, gen |-> l.gen]
  /\ l.id \in Nat \ {0}

\* At most one task is the event loop's own and at most one is not.
LoopsInv ==
  /\ owned \in Nat
  /\ \A l \in loops : IsLoop(l)
  /\ \A l, m \in loops : (l.id = owned <=> m.id = owned) => l = m

\* A step of one task replaces it by one with the same id.
LEMMA LoopsStep ==
  ASSUME LoopsInv, NEW l \in loops, NEW n, IsLoop(n), n.id = l.id,
         Step(l, n), UNCHANGED owned
  PROVE  LoopsInv'
BY DEF LoopsInv, Step

LEMMA LoopsFewer ==
  ASSUME LoopsInv, loops' \subseteq loops, UNCHANGED owned
  PROVE  LoopsInv'
BY DEF LoopsInv

\* The id of a new task is not that of a task that is kept.
LEMMA FreshIdIsFresh ==
  ASSUME NEW kept, \A l \in kept : IsLoop(l), \A l, m \in kept : l = m
  PROVE  FreshId(kept) \in Nat \ {0} /\ \A l \in kept : l.id # FreshId(kept)
<1> DEFINE S == (1 .. Cardinality(kept) + 1) \ {l.id : l \in kept}
<1>1. S \subseteq Nat \ {0} /\ S # {}
  <2>1. CASE kept = {}
    <3>1. Cardinality(kept) = 0
      BY <2>1, FS_EmptySet
    <3>2. 1 \in S /\ S \subseteq Nat \ {0}
      BY <2>1, <3>1
    <3> HIDE DEF S
    <3>3. QED BY <3>2
  <2>2. CASE kept # {}
    <3>1. PICK k : kept = {k}
      BY <2>2
    <3>2. Cardinality(kept) = 1
      BY <3>1, FS_Singleton
    <3>3. 1 \in S \/ 2 \in S
      BY <3>1, <3>2
    <3>4. S \subseteq Nat \ {0}
      BY <3>2
    <3> HIDE DEF S
    <3>5. QED BY <3>3, <3>4
  <2>3. QED BY <2>1, <2>2
<1>2. Min(S) \in S
  <2> HIDE DEF S
  <2> QED BY <1>1, MinProperties
<1>3. QED BY <1>1, <1>2 DEF FreshId

LEMMA LoopsNext == LoopsInv /\ [Next]_vars => LoopsInv'
<1> SUFFICES ASSUME LoopsInv, [Next]_vars PROVE LoopsInv'
  OBVIOUS
<1>1. ASSUME NEW l \in loops, Answer(l) PROVE LoopsInv'
  <2>1. IsLoop(l)
    BY DEF LoopsInv
  <2>2. \A v : /\ IsLoop([l EXCEPT !.since = v])
               /\ IsLoop([l EXCEPT !.gen = v])
               /\ [l EXCEPT !.since = v].id = l.id
               /\ [l EXCEPT !.gen = v].id = l.id
    BY <2>1 DEF IsLoop
  <2>3. \E n : IsLoop(n) /\ n.id = l.id /\ Step(l, n)
    BY <1>1, <2>2, Zenon DEF Answer
  <2>4. UNCHANGED owned
    BY <1>1 DEF Answer
  <2>5. QED BY <2>3, <2>4, LoopsStep
<1>2. ASSUME NEW l \in loops, BreakLoop(l) PROVE LoopsInv'
  <2>1. IsLoop(l)
    BY DEF LoopsInv
  <2> DEFINE n == [l EXCEPT !.conn = 0]
  <2>2. IsLoop(n) /\ n.id = l.id
    BY <2>1 DEF IsLoop
  <2>3. QED BY <1>2, <2>2, LoopsStep DEF BreakLoop
<1>3. ASSUME NEW l \in loops, LoopEnds(l) PROVE LoopsInv'
  BY <1>3, LoopsFewer DEF LoopEnds
<1>4. CASE StartLoop
  <2> DEFINE kept == {l \in loops : l.id # owned}
             n    == NewLoop(FreshId(kept), Since)
  <2>1. (\A l \in kept : IsLoop(l)) /\ \A l, m \in kept : l = m
    BY DEF LoopsInv
  <2>2. FreshId(kept) \in Nat \ {0} /\ \A l \in kept : l.id # FreshId(kept)
    <3> HIDE DEF kept
    <3> QED BY <2>1, FreshIdIsFresh
  <2>3. \/ loops' = kept \cup {n} /\ owned' = FreshId(kept)
        \/ loops' = kept /\ owned' = 0
    BY <1>4 DEF StartLoop
  <2>4. IsLoop(n) /\ n.id = FreshId(kept)
    <3> HIDE DEF kept
    <3> QED BY <2>2 DEF IsLoop, NewLoop
  <2> HIDE DEF kept, n
  <2>5. QED BY <2>1, <2>2, <2>3, <2>4 DEF LoopsInv, IsLoop
<1>5. CASE StartFirstLoop
  <2>1. IsLoop(NewLoop(1, Since))
    BY DEF IsLoop, NewLoop
  <2>2. loops' = {NewLoop(1, Since)} \/ loops' = loops
    BY <1>5 DEF StartFirstLoop
  <2>3. UNCHANGED owned
    BY <1>5 DEF StartFirstLoop
  <2>4. QED BY <2>1, <2>2, <2>3 DEF LoopsInv
<1>6. CASE UNCHANGED <<loops, owned>>
  BY <1>6 DEF LoopsInv
<1>7. QED
  <2>1. \/ StartLoop \/ StartFirstLoop \/ UNCHANGED <<loops, owned>>
        \/ \E l \in loops : Answer(l) \/ LoopEnds(l) \/ BreakLoop(l)
    BY DEF Next, Daemon, Tui, Outside, Take, Run, LoopStep, Land, LandSkewed,
           Publish, Load, Stop, Restart, TakeUpdate, TakeConfig, TakeFailure,
           TakeReconnected, FetchStatus, FetchDetail, FetchConfig, Tick,
           Reconnect, ReconnectFails, PressPoll, PressEdit, Browse,
           BreakCommand, vars, tuiVars
  <2>2. QED BY <1>1, <1>2, <1>3, <1>4, <1>5, <1>6, <2>1

\* Only the first long-poll is ever left behind: the tasks do not pile up.
THEOREM LoopsBoundedCorrect == Spec => []LoopsBounded
<1>1. Init => LoopsInv
  BY DEF Init, LoopsInv
<1>2. LoopsInv => LoopsBounded
  <2> SUFFICES ASSUME LoopsInv PROVE Cardinality(loops) <= 2
    BY DEF LoopsBounded
  <2>1. CASE loops = {}
    BY <2>1, FS_EmptySet
  <2>2. CASE loops # {}
    <3>1. PICK x, y \in loops : loops = {x} \cup {y}
      BY <2>2 DEF LoopsInv
    <3>2. IsFiniteSet({x}) /\ Cardinality({x}) = 1
      BY FS_Singleton
    <3>3. Cardinality({x} \cup {y}) <= 2
      BY <3>2, FS_AddElement
    <3>4. QED BY <3>1, <3>3
  <2>3. QED BY <2>1, <2>2
<1>3. QED BY <1>1, <1>2, LoopsNext, PTL DEF Spec

-----------------------------------------------------------------------------
(* Types.                                                                  *)

Messages ==
  {<<"update", s>> : s \in Nat \X Accounts} \cup {<<"config", g>> : g \in Nat}
    \cup {<<"reconnected", e>> : e \in Nat}
    \cup {<<"disconnected">>, <<"reconnect_failed">>, <<"incompatible">>}

Bounds == [polls : Nat, loads : Nat, restarts : Nat, mismatches : Nat,
           breaks : Nat, skews : Nat, keys : Nat]

\* The polls issued so far have a newest one, which every account's is one of.
DaemonInv ==
  /\ epoch \in Nat /\ epoch >= 1 /\ up \in BOOLEAN /\ compatible \in BOOLEAN
  /\ slot = <<>> \/ slot \in Nat \X Accounts
  /\ slot # <<>> => slot[1] \in Issued
  /\ latest \in [Accounts -> Nat]
  /\ stored \in [Accounts -> SUBSET Nat]
  /\ gen \in Nat
  /\ triggered \subseteq Accounts
  /\ \E m \in Issued \cup {0} : \A x \in Issued \cup {0} : m >= x
  /\ \A a \in Accounts : latest[a] \in stored[a] \cup {0}
  /\ spent \in Bounds

\* Whatever a task has seen was issued, by a daemon that was.
TasksInv ==
  \A l \in loops : /\ l.conn \in 0 .. epoch
                   /\ l.since \in Issued \cup {0}
                   /\ l.gen \in Nat

QueueInv ==
  /\ queue \in Seq(Messages)
  /\ \A i \in 1 .. Len(queue) :
       queue[i][1] = "reconnected" => queue[i][2] <= epoch

Requests == {"status", "detail", "config", "loop", "first"}

HandlerInv ==
  /\ cmd \in 0 .. epoch
  /\ todo \in Seq(Requests)
  /\ shown \in [polls : [Accounts -> Nat], gen : Nat]
  /\ \A a \in Accounts : shown.polls[a] \in Issued \cup {0}
  /\ known \in Nat
  /\ polling \subseteq Accounts
  /\ disconnected \in BOOLEAN /\ incompatible \in BOOLEAN
  /\ reconnecting \in BOOLEAN

TInv == LoopsInv /\ DaemonInv /\ TasksInv /\ QueueInv /\ HandlerInv

LEMMA TInvTypeOK == TInv => TypeOK
BY DEF TInv, TypeOK, LoopsInv, DaemonInv, TasksInv, QueueInv, HandlerInv, Requests

LEMMA SpendTypes ==
  ASSUME spent \in Bounds, NEW limit,
         NEW what \in {"polls", "loads", "restarts", "mismatches", "breaks",
                       "skews", "keys"},
         Spend(what, limit)
  PROVE  spent' \in Bounds
BY DEF Spend, Bounds

LEMMA QueueAppends ==
  ASSUME QueueInv, NEW m \in Messages, m[1] = "reconnected" => m[2] <= epoch,
         queue' = Append(queue, m), UNCHANGED epoch
  PROVE  QueueInv'
BY AppendProperties DEF QueueInv

LEMMA QueueTakes ==
  ASSUME QueueInv, queue # <<>>
  PROVE  /\ Head(queue) \in Messages
         /\ Head(queue)[1] = "reconnected" => Head(queue)[2] <= epoch
         /\ queue' = Tail(queue) /\ UNCHANGED epoch => QueueInv'
<1>1. /\ Head(queue) \in Messages /\ Tail(queue) \in Seq(Messages)
      /\ Len(queue) \in Nat \ {0} /\ Head(queue) = queue[1]
      /\ Len(Tail(queue)) = Len(queue) - 1
      /\ \A i \in 1 .. Len(Tail(queue)) : Tail(queue)[i] = queue[i + 1]
  BY HeadTailProperties, EmptySeq DEF QueueInv
<1>2. QED BY <1>1 DEF QueueInv

LEMMA MessageTypes ==
  /\ <<"disconnected">> \in Messages /\ <<"reconnect_failed">> \in Messages
  /\ <<"incompatible">> \in Messages
  /\ \A n \in Nat : <<"config", n>> \in Messages /\ <<"reconnected", n>> \in Messages
  /\ \A s \in Nat \X Accounts : <<"update", s>> \in Messages
  /\ \A m \in Messages : /\ m[1] \in {"config", "reconnected"} => m[2] \in Nat
                         /\ m[1] = "update" => m[2] \in Nat \X Accounts
BY DEF Messages

LEMMA TodoTypes ==
  /\ Refetch \in Seq(Requests)
  /\ Refetch \o <<"config", "loop">> \in Seq(Requests)
  /\ Refetch \o <<"config", "first">> \in Seq(Requests)
  /\ <<"status">> \in Seq(Requests) /\ <<"detail">> \in Seq(Requests)
  /\ <<"config">> \in Seq(Requests)
  /\ Head(Refetch) = "status" /\ Refetch # <<>>
  /\ Refetch \o <<"config", "loop">> # <<>>
  /\ Head(Refetch \o <<"config", "loop">>) = "status"
BY DEF Refetch, Requests

\* What is newest among the polls, and among those the dashboard shows.
LEMMA NewestProperties ==
  ASSUME DaemonInv
  PROVE  Newest \in Nat /\ \A a \in Accounts : \A x \in stored[a] : x <= Newest
<1>1. Issued \cup {0} \subseteq Nat
  BY DEF DaemonInv, Issued
<1>2. Newest \in Issued \cup {0} /\ \A y \in Issued \cup {0} : Newest >= y
  BY <1>1, MaxProperties DEF DaemonInv, Newest
<1>3. \A a \in Accounts : stored[a] \subseteq Issued
  BY DEF Issued
<1>4. QED BY <1>1, <1>2, <1>3

LEMMA SinceProperties ==
  ASSUME DaemonInv, HandlerInv
  PROVE  /\ Since \in Issued \cup {0} /\ Since \in Nat
         /\ \A a \in Accounts : shown.polls[a] <= Since
<1> DEFINE S == {shown.polls[a] : a \in Accounts}
<1>1. S \subseteq Issued \cup {0} /\ S # {}
  BY LiveUpdatesAssumption DEF HandlerInv
<1>2. Issued \cup {0} \subseteq Nat
  BY DEF DaemonInv, Issued
<1>3. Max(S) \in S /\ \A y \in S : Max(S) >= y
  <2>1. PICK m \in Issued \cup {0} : \A x \in Issued \cup {0} : m >= x
    BY DEF DaemonInv
  <2> HIDE DEF S
  <2>2. QED BY <1>1, <1>2, <2>1, MaxProperties
<1>4. Since = Max(S)
  BY DEF Since
<1>5. QED BY <1>1, <1>2, <1>3, <1>4

\* The TUI's side of the invariant survives what the daemon does: incarnations
\* and issued polls only grow.
LEMMA TuiKept ==
  ASSUME TInv, UNCHANGED tuiVars, epoch' \in Nat, epoch <= epoch',
         \A a \in Accounts : stored[a] \subseteq stored'[a]
  PROVE  (TasksInv /\ QueueInv /\ HandlerInv)'
<1>1. Issued \subseteq Issued'
  BY DEF Issued
<1>2. epoch \in Nat
  BY DEF TInv, DaemonInv
<1>3. TasksInv'
  BY <1>1, <1>2 DEF TInv, TasksInv, tuiVars
<1>4. QueueInv'
  <2>1. \A i \in 1 .. Len(queue) : queue[i] \in Messages
    BY ElementOfSeq DEF TInv, QueueInv
  <2>2. QED BY <1>2, <2>1, MessageTypes DEF TInv, QueueInv, tuiVars
<1>5. HandlerInv'
  BY <1>1, <1>2 DEF TInv, HandlerInv, tuiVars
<1>6. QED BY <1>3, <1>4, <1>5

\* A poll that is published, in or out of order.
LEMMA PublishTypes ==
  ASSUME TInv, NEW a \in Accounts, NEW id \in Nat, Publish(a, id),
         spent' \in Bounds
  PROVE  (DaemonInv /\ TasksInv /\ QueueInv /\ HandlerInv)'
<1>1. /\ latest' = [latest EXCEPT ![a] = id] /\ slot' = <<id, a>>
      /\ stored' = [stored EXCEPT ![a] = @ \cup {id}]
      /\ triggered' = triggered \ {a}
      /\ UNCHANGED <<epoch, up, compatible, gen>> /\ UNCHANGED tuiVars
  BY DEF Publish
<1>2. /\ stored \in [Accounts -> SUBSET Nat] /\ epoch \in Nat
      /\ latest \in [Accounts -> Nat]
  BY DEF TInv, DaemonInv
<1>3. \A b \in Accounts : stored[b] \subseteq stored'[b]
  BY <1>1, <1>2
<1>4. (TasksInv /\ QueueInv /\ HandlerInv)'
  BY <1>1, <1>2, <1>3, TuiKept
<1>5. Issued' = Issued \cup {id}
  <2>1. \A b \in Accounts : stored'[b] = IF b = a THEN stored[b] \cup {id} ELSE stored[b]
    BY <1>1, <1>2
  <2>2. QED BY <2>1 DEF Issued
<1>6. (\E m \in Issued \cup {0} : \A x \in Issued \cup {0} : m >= x)'
  <2>1. PICK m \in Issued \cup {0} : \A x \in Issued \cup {0} : m >= x
    BY DEF TInv, DaemonInv
  <2>2. Issued \cup {0} \subseteq Nat
    BY <1>2 DEF Issued
  <2> DEFINE n == IF id <= m THEN m ELSE id
  <2>3. n \in Issued' \cup {0} /\ \A x \in Issued' \cup {0} : n >= x
    BY <1>5, <2>1, <2>2
  <2> HIDE DEF n
  <2>4. QED BY <2>3
<1>7. (\A b \in Accounts : latest[b] \in stored[b] \cup {0})'
  BY <1>1, <1>2 DEF TInv, DaemonInv
<1>8. DaemonInv'
  BY <1>1, <1>2, <1>5, <1>6, <1>7 DEF TInv, DaemonInv
<1>9. QED BY <1>4, <1>8

LEMMA DaemonTypes ==
  ASSUME TInv, Daemon
  PROVE  (DaemonInv /\ TasksInv /\ QueueInv /\ HandlerInv)'
<1>0. spent \in Bounds /\ Newest \in Nat /\ epoch \in Nat
  BY NewestProperties DEF TInv, DaemonInv
<1>1. ASSUME NEW a \in Accounts, Land(a)
      PROVE  (DaemonInv /\ TasksInv /\ QueueInv /\ HandlerInv)'
  <2>1. spent' \in Bounds
    BY <1>0, <1>1, SpendTypes DEF Land
  <2>2. QED BY <1>0, <1>1, <2>1, PublishTypes DEF Land
<1>2. ASSUME NEW a \in Accounts, LandSkewed(a)
      PROVE  (DaemonInv /\ TasksInv /\ QueueInv /\ HandlerInv)'
  <2>1. spent' \in Bounds
    BY <1>0, <1>2, SpendTypes DEF LandSkewed
  <2>2. QED BY <1>0, <1>2, <2>1, PublishTypes DEF LandSkewed
<1>3. CASE Load \/ Stop
  <2>1. spent' \in Bounds
    BY <1>0, <1>3, SpendTypes DEF Load, Stop
  <2>2. (TasksInv /\ QueueInv /\ HandlerInv)'
    BY <1>0, <1>3, TuiKept DEF Load, Stop
  <2>3. /\ up' \in BOOLEAN /\ UNCHANGED <<epoch, compatible, latest, stored>>
        /\ gen' \in Nat /\ slot' \in {slot, <<>>} /\ triggered' \in {triggered, {}}
    <3>1. CASE Load
      BY <3>1 DEF Load, TInv, DaemonInv
    <3>2. CASE Stop
      <4>1. up' \in BOOLEAN
        BY <3>2, Zenon DEF Stop
      <4>2. QED BY <3>2, <4>1 DEF Stop, TInv, DaemonInv
    <3>3. QED BY <1>3, <3>1, <3>2
  <2>4. Issued' = Issued
    BY <2>3 DEF Issued
  <2>5. QED BY <2>1, <2>2, <2>3, <2>4 DEF TInv, DaemonInv
<1>4. ASSUME NEW compat \in BOOLEAN, Restart(compat)
      PROVE  (DaemonInv /\ TasksInv /\ QueueInv /\ HandlerInv)'
  <2>1. spent' \in Bounds
    BY <1>0, <1>4, SpendTypes DEF Restart
  <2>2. (TasksInv /\ QueueInv /\ HandlerInv)'
    BY <1>0, <1>4, TuiKept DEF Restart
  <2>3. \A a \in Accounts : Max(stored[a] \cup {0}) \in stored[a] \cup {0}
    <3> TAKE a \in Accounts
    <3>1. stored[a] \cup {0} \subseteq Nat /\ \A x \in stored[a] \cup {0} : x <= Newest
      BY <1>0, NewestProperties DEF TInv, DaemonInv
    <3>2. QED BY <1>0, <3>1, MaxProperties
  <2>4. /\ up' \in BOOLEAN /\ compatible' \in BOOLEAN /\ epoch' = epoch + 1
        /\ gen' = 1 /\ UNCHANGED <<slot, stored, triggered>>
        /\ latest' = [a \in Accounts |-> Max(stored[a] \cup {0})]
    BY <1>4 DEF Restart
  <2>5. Issued' = Issued
    BY <2>4 DEF Issued
  <2>6. latest' \in [Accounts -> Nat]
    BY <2>3, <2>4 DEF TInv, DaemonInv
  <2>7. QED BY <2>1, <2>2, <2>3, <2>4, <2>5, <2>6 DEF TInv, DaemonInv
<1>5. QED BY <1>1, <1>2, <1>3, <1>4 DEF Daemon

\* The daemon's side survives what the TUI does.
LEMMA DaemonKept ==
  ASSUME DaemonInv, UNCHANGED <<epoch, up, compatible, slot, latest, stored>>,
         gen' \in Nat, triggered' \subseteq Accounts, spent' \in Bounds
  PROVE  DaemonInv' /\ Issued' = Issued
<1>1. Issued' = Issued
  BY DEF Issued
<1>2. QED BY <1>1 DEF DaemonInv

LEMMA LoopStepTypes ==
  ASSUME TInv, NEW l \in loops, Answer(l) \/ LoopEnds(l)
  PROVE  (DaemonInv /\ TasksInv /\ QueueInv /\ HandlerInv)'
<1>0. UNCHANGED <<daemonVars, spent, cmd, todo, shown, known, polling,
                  disconnected, incompatible, reconnecting>>
  BY DEF Answer, LoopEnds
<1>1. DaemonInv' /\ Issued' = Issued
  BY <1>0, DaemonKept DEF TInv, DaemonInv, daemonVars
<1>2. HandlerInv'
  BY <1>0, <1>1 DEF TInv, HandlerInv, daemonVars
<1>3. IsLoop(l) /\ l.conn \in 0 .. epoch /\ l.since \in Issued \cup {0} /\ l.gen \in Nat
  BY DEF TInv, LoopsInv, TasksInv
<1>4. QueueInv'
  <2>1. \A m \in Messages : m[1] # "reconnected" /\ queue' = Append(queue, m) => QueueInv'
    BY <1>0, QueueAppends DEF TInv, daemonVars
  <2>2. \E m \in Messages : m[1] # "reconnected" /\ queue' = Append(queue, m)
    <3>1. CASE LoopEnds(l)
      BY <3>1, MessageTypes DEF LoopEnds
    <3>2. CASE Answer(l)
      <4>1. \/ slot # <<>> /\ queue' = Append(queue, <<"update", slot>>)
            \/ queue' = Append(queue, <<"config", gen>>)
        BY <3>2 DEF Answer, PollNewer
      <4>2. QED BY <4>1, MessageTypes DEF TInv, DaemonInv
    <3>3. QED BY <3>1, <3>2
  <2>3. QED BY <2>1, <2>2
<1>5. TasksInv'
  <2>1. CASE LoopEnds(l)
    BY <1>0, <1>1, <2>1 DEF LoopEnds, TInv, TasksInv, daemonVars
  <2>2. CASE Answer(l)
    <3>1. \/ /\ slot # <<>> /\ slot[1] > l.since
             /\ Step(l, [l EXCEPT !.since = Higher(l.since, slot[1])])
          \/ Step(l, [l EXCEPT !.gen = Higher(l.gen, gen)])
      BY <2>2 DEF Answer, PollNewer
    <3>2. ASSUME slot # <<>>, slot[1] > l.since
          PROVE  Higher(l.since, slot[1]) \in Issued \cup {0}
      BY <1>3, <3>2 DEF Higher, TInv, DaemonInv
    <3>3. Higher(l.gen, gen) \in Nat
      BY <1>3 DEF Higher, TInv, DaemonInv
    <3>4. PICK n : /\ Step(l, n) /\ n.conn \in 0 .. epoch
                   /\ n.since \in Issued \cup {0} /\ n.gen \in Nat
      <4>1. \A v : /\ [l EXCEPT !.since = v].conn = l.conn
                   /\ [l EXCEPT !.since = v].since = v
                   /\ [l EXCEPT !.since = v].gen = l.gen
                   /\ [l EXCEPT !.gen = v].conn = l.conn
                   /\ [l EXCEPT !.gen = v].since = l.since
                   /\ [l EXCEPT !.gen = v].gen = v
        BY <1>3 DEF IsLoop
      <4>2. CASE /\ slot # <<>> /\ slot[1] > l.since
                 /\ Step(l, [l EXCEPT !.since = Higher(l.since, slot[1])])
        <5> DEFINE n == [l EXCEPT !.since = Higher(l.since, slot[1])]
        <5>1. /\ n.conn = l.conn /\ n.gen = l.gen
              /\ n.since = Higher(l.since, slot[1])
          BY <4>1, Zenon
        <5>2. Step(l, n)
          BY <4>2
        <5> HIDE DEF n
        <5>3. QED BY <1>3, <3>2, <4>2, <5>1, <5>2
      <4>3. CASE Step(l, [l EXCEPT !.gen = Higher(l.gen, gen)])
        <5> DEFINE n == [l EXCEPT !.gen = Higher(l.gen, gen)]
        <5>1. n.conn = l.conn /\ n.since = l.since /\ n.gen = Higher(l.gen, gen)
          BY <4>1, Zenon
        <5>2. Step(l, n)
          BY <4>3
        <5> HIDE DEF n
        <5>3. QED BY <1>3, <3>3, <5>1, <5>2
      <4>4. QED BY <3>1, <4>2, <4>3
    <3>5. QED BY <1>0, <1>1, <3>4 DEF Step, TInv, TasksInv, daemonVars
  <2>3. QED BY <2>1, <2>2
<1>6. QED BY <1>1, <1>2, <1>4, <1>5

LEMMA TakeTypes ==
  ASSUME TInv, Take
  PROVE  (DaemonInv /\ TasksInv /\ QueueInv /\ HandlerInv)'
<1>0. /\ UNCHANGED <<daemonVars, spent, loops, owned, shown, reconnecting>>
      /\ queue # <<>> /\ queue' = Tail(queue)
  BY DEF Take, TakeUpdate, TakeConfig, TakeFailure, TakeReconnected
<1>1. DaemonInv' /\ Issued' = Issued
  BY <1>0, DaemonKept DEF TInv, DaemonInv, daemonVars
<1>2. TasksInv'
  BY <1>0, <1>1 DEF TInv, TasksInv, daemonVars
<1>3. QueueInv'
  BY <1>0, QueueTakes DEF TInv, daemonVars
<1>4. /\ Head(queue)[1] = "config" => Head(queue)[2] \in Nat
      /\ Head(queue)[1] = "reconnected" => Head(queue)[2] \in 0 .. epoch
  BY <1>0, QueueTakes, MessageTypes DEF TInv, DaemonInv
<1>5. disconnected' \in BOOLEAN /\ incompatible' \in BOOLEAN
  <2>1. disconnected \in BOOLEAN /\ incompatible \in BOOLEAN
    BY DEF TInv, HandlerInv
  <2>2. QED BY <2>1, Zenon DEF Take, TakeUpdate, TakeConfig, TakeFailure,
                               TakeReconnected
<1>6. /\ cmd' \in 0 .. epoch /\ known' \in Nat /\ polling' \subseteq polling
      /\ todo' \in Seq(Requests)
  BY <1>4, TodoTypes DEF Take, TakeUpdate, TakeConfig, TakeFailure,
                         TakeReconnected, TInv, HandlerInv
<1>7. HandlerInv'
  BY <1>0, <1>1, <1>5, <1>6 DEF TInv, HandlerInv, daemonVars
<1>8. QED BY <1>1, <1>2, <1>3, <1>7

\* One request less.
LEMMA TodoTakes ==
  ASSUME TInv, todo # <<>>
  PROVE  Tail(todo) \in Seq(Requests)
BY HeadTailProperties DEF TInv, HandlerInv

LEMMA RunTypes ==
  ASSUME TInv, Run
  PROVE  (DaemonInv /\ TasksInv /\ QueueInv /\ HandlerInv)'
<1>0. /\ UNCHANGED <<daemonVars, spent, cmd, polling, incompatible, reconnecting>>
      /\ todo' \in Seq(Requests)
  BY TodoTakes DEF Run, Fetch, FetchStatus, FetchDetail, FetchConfig, StartLoop,
                   StartFirstLoop
<1>1. DaemonInv' /\ Issued' = Issued
  BY <1>0, DaemonKept DEF TInv, DaemonInv, daemonVars
<1>2. CASE FetchStatus \/ FetchDetail \/ FetchConfig
  <2>1. disconnected' \in BOOLEAN
    <3>1. disconnected \in BOOLEAN
      BY DEF TInv, HandlerInv
    <3>2. QED BY <1>2, <3>1, Zenon DEF FetchStatus, FetchDetail, FetchConfig, Fetch
  <2>2. UNCHANGED <<loops, queue>> /\ known' \in Nat
    BY <1>2 DEF FetchStatus, FetchDetail, FetchConfig, TInv, HandlerInv, DaemonInv
  <2>3. /\ shown' \in [polls : [Accounts -> Nat], gen : Nat]
        /\ \A a \in Accounts : shown'.polls[a] \in Issued \cup {0}
    <3>1. shown' \in {shown, [polls |-> latest, gen |-> gen]}
      BY <1>2 DEF FetchStatus, FetchDetail, FetchConfig
    <3>2. \A a \in Accounts : latest[a] \in Issued \cup {0}
      BY DEF TInv, DaemonInv, Issued
    <3>3. QED BY <3>1, <3>2 DEF TInv, DaemonInv, HandlerInv
  <2>4. HandlerInv'
    BY <1>0, <1>1, <2>1, <2>2, <2>3 DEF TInv, HandlerInv, daemonVars
  <2>5. TasksInv' /\ QueueInv'
    BY <1>0, <1>1, <2>2 DEF TInv, TasksInv, QueueInv, daemonVars
  <2>6. QED BY <1>1, <2>4, <2>5
<1>3. CASE StartLoop \/ StartFirstLoop
  <2>1. UNCHANGED <<shown, known, disconnected>>
    BY <1>3 DEF StartLoop, StartFirstLoop
  <2>2. HandlerInv'
    BY <1>0, <1>1, <2>1 DEF TInv, HandlerInv, daemonVars
  <2>3. QueueInv'
    <3>1. queue' = queue \/ queue' = Append(queue, <<"disconnected">>)
      BY <1>3 DEF StartLoop, StartFirstLoop
    <3>2. CASE queue' = queue
      BY <1>0, <3>2 DEF TInv, QueueInv, daemonVars
    <3>3. CASE queue' = Append(queue, <<"disconnected">>)
      BY <1>0, <3>3, MessageTypes, QueueAppends DEF TInv, daemonVars
    <3>4. QED BY <3>1, <3>2, <3>3
  <2>4. TasksInv'
    <3>1. \A l \in loops' : l \in loops \/ \E id : l = NewLoop(id, Since)
      BY <1>3 DEF StartLoop, StartFirstLoop
    <3>2. Since \in Issued \cup {0} /\ known \in Nat /\ epoch \in Nat
      BY SinceProperties DEF TInv, HandlerInv, DaemonInv
    <3>3. QED BY <1>0, <1>1, <3>1, <3>2 DEF NewLoop, TInv, TasksInv, daemonVars
  <2>5. QED BY <1>1, <2>2, <2>3, <2>4
<1>4. QED BY <1>2, <1>3 DEF Run

LEMMA ReconnectTypes ==
  ASSUME TInv, Tick \/ Reconnect \/ ReconnectFails
  PROVE  (DaemonInv /\ TasksInv /\ QueueInv /\ HandlerInv)'
<1>0. UNCHANGED <<daemonVars, spent, cmd, loops, todo, shown, known, polling,
                  disconnected, incompatible>>
  BY DEF Tick, Reconnect, ReconnectFails
<1>1. DaemonInv' /\ Issued' = Issued
  BY <1>0, DaemonKept DEF TInv, DaemonInv, daemonVars
<1>2. TasksInv'
  BY <1>0, <1>1 DEF TInv, TasksInv, daemonVars
<1>3. reconnecting' \in BOOLEAN
  <2>1. reconnecting \in BOOLEAN
    BY DEF TInv, HandlerInv
  <2>2. QED BY <2>1, Zenon DEF Tick, Reconnect, ReconnectFails
<1>4. HandlerInv'
  BY <1>0, <1>1, <1>3 DEF TInv, HandlerInv, daemonVars
<1>5. QueueInv'
  <2>1. CASE queue' = queue
    BY <1>0, <2>1 DEF TInv, QueueInv, daemonVars
  <2>2. ASSUME NEW m \in {<<"reconnected", epoch>>, <<"incompatible">>,
                          <<"reconnect_failed">>},
               queue' = Append(queue, m)
        PROVE  QueueInv'
    <3>1. m \in Messages /\ (m[1] = "reconnected" => m[2] <= epoch)
      <4>0. epoch \in Nat
        BY DEF TInv, DaemonInv
      <4>1. CASE m = <<"reconnected", epoch>>
        <5>1. m \in Messages
          BY <4>0, <4>1, MessageTypes, Zenon
        <5>2. m[2] <= epoch
          BY <4>0, <4>1
        <5>3. QED BY <5>1, <5>2
      <4>2. CASE m \in {<<"incompatible">>, <<"reconnect_failed">>}
        BY <4>2, MessageTypes
      <4>3. QED BY <4>1, <4>2
    <3>2. QED BY <1>0, <2>2, <3>1, QueueAppends DEF TInv, daemonVars
  <2>3. QED BY <2>1, <2>2 DEF Tick, Reconnect, ReconnectFails
<1>6. QED BY <1>1, <1>2, <1>4, <1>5

LEMMA OutsideTypes ==
  ASSUME TInv, Outside
  PROVE  (DaemonInv /\ TasksInv /\ QueueInv /\ HandlerInv)'
<1>0. spent' \in Bounds
  <2>1. spent \in Bounds
    BY DEF TInv, DaemonInv
  <2>2. QED BY <2>1, SpendTypes DEF Outside, PressPoll, PressEdit, Browse,
                                    BreakCommand, BreakLoop
<1>1. /\ UNCHANGED <<epoch, up, compatible, slot, latest, stored, queue, shown,
                     incompatible, reconnecting>>
      /\ gen' \in Nat /\ triggered' \subseteq Accounts
  <2>0. gen \in Nat /\ triggered \subseteq Accounts
    BY DEF TInv, DaemonInv
  <2>1. ASSUME NEW a \in Accounts, PressPoll(a)
        PROVE  gen' \in Nat /\ triggered' \subseteq Accounts
    BY <2>0, <2>1 DEF PressPoll
  <2>2. CASE PressEdit
    BY <2>0, <2>2 DEF PressEdit
  <2>3. CASE Browse \/ BreakCommand \/ \E l \in loops : BreakLoop(l)
    BY <2>0, <2>3 DEF Browse, BreakCommand, BreakLoop, daemonVars
  <2>4. UNCHANGED <<epoch, up, compatible, slot, latest, stored, queue, shown,
                    incompatible, reconnecting>>
    BY DEF Outside, PressPoll, PressEdit, Browse, BreakCommand, BreakLoop,
           daemonVars
  <2>5. QED BY <2>1, <2>2, <2>3, <2>4 DEF Outside
<1>2. DaemonInv' /\ Issued' = Issued
  BY <1>0, <1>1, DaemonKept DEF TInv
<1>3. QueueInv'
  BY <1>1 DEF TInv, QueueInv
<1>4. disconnected' \in BOOLEAN
  <2>1. disconnected \in BOOLEAN
    BY DEF TInv, HandlerInv
  <2>2. QED BY <2>1, Zenon DEF Outside, PressPoll, PressEdit, Browse,
                               BreakCommand, BreakLoop
<1>5. /\ cmd' \in 0 .. epoch /\ known' \in Nat /\ polling' \subseteq Accounts
      /\ todo' \in Seq(Requests)
  <2>0. /\ cmd \in 0 .. epoch /\ known \in Nat /\ polling \subseteq Accounts
        /\ todo \in Seq(Requests) /\ gen \in Nat /\ epoch \in Nat
    BY DEF TInv, HandlerInv, DaemonInv
  <2>1. ASSUME NEW a \in Accounts, PressPoll(a)
        PROVE  /\ polling' \subseteq Accounts /\ UNCHANGED <<cmd, known, todo>>
    BY <2>0, <2>1 DEF PressPoll
  <2>2. CASE PressEdit
    <3>1. todo' \in Seq(Requests)
      BY <2>0, <2>2, TodoTypes, Zenon DEF PressEdit
    <3>2. QED BY <2>0, <2>2, <3>1 DEF PressEdit
  <2>3. CASE Browse \/ BreakCommand \/ \E l \in loops : BreakLoop(l)
    <3>1. todo' \in Seq(Requests)
      <4>1. todo' \in {todo, <<"detail">>, <<"config">>}
        BY <2>3 DEF Browse, BreakCommand, BreakLoop
      <4>2. QED BY <2>0, <4>1, TodoTypes, Zenon
    <3>2. cmd' \in {cmd, 0} /\ UNCHANGED <<known, polling>>
      BY <2>3 DEF Browse, BreakCommand, BreakLoop
    <3>3. QED BY <2>0, <3>1, <3>2
  <2>4. QED BY <2>0, <2>1, <2>2, <2>3 DEF Outside
<1>6. HandlerInv'
  BY <1>1, <1>2, <1>4, <1>5 DEF TInv, HandlerInv
<1>7. TasksInv'
  <2>1. CASE loops' = loops
    BY <1>1, <1>2, <2>1 DEF TInv, TasksInv
  <2>2. ASSUME NEW l \in loops, BreakLoop(l) PROVE TasksInv'
    <3> DEFINE n == [l EXCEPT !.conn = 0]
    <3>1. /\ IsLoop(l) /\ l.since \in Issued \cup {0} /\ l.gen \in Nat
          /\ epoch \in Nat
      BY DEF TInv, LoopsInv, TasksInv, DaemonInv
    <3>2. n.conn = 0 /\ n.since = l.since /\ n.gen = l.gen
      BY <3>1 DEF IsLoop
    <3>3. loops' = (loops \ {l}) \cup {n}
      BY <2>2 DEF BreakLoop, Step
    <3> HIDE DEF n
    <3>4. QED BY <1>1, <1>2, <3>1, <3>2, <3>3 DEF TInv, TasksInv
  <2>3. QED BY <2>1, <2>2 DEF Outside, PressPoll, PressEdit, Browse, BreakCommand
<1>8. QED BY <1>2, <1>3, <1>6, <1>7

LEMMA TNext == TInv /\ [Next]_vars => TInv'
<1> SUFFICES ASSUME TInv, [Next]_vars PROVE TInv'
  OBVIOUS
<1>1. LoopsInv'
  BY LoopsNext DEF TInv
<1>2. (DaemonInv /\ TasksInv /\ QueueInv /\ HandlerInv)'
  <2>1. CASE UNCHANGED vars
    <3>1. Issued' = Issued
      BY <2>1 DEF vars, daemonVars, Issued
    <3>2. QED BY <2>1, <3>1 DEF vars, daemonVars, tuiVars, TInv, DaemonInv,
                                TasksInv, QueueInv, HandlerInv
  <2>2. QED BY <2>1, DaemonTypes, TakeTypes, RunTypes, LoopStepTypes,
               ReconnectTypes, OutsideTypes DEF Next, Tui, LoopStep
<1>3. QED BY <1>1, <1>2 DEF TInv

LEMMA TInit == Init => TInv
<1> SUFFICES ASSUME Init PROVE TInv
  OBVIOUS
<1>1. stored = [a \in Accounts |-> {}] /\ Issued = {}
  BY DEF Init, Issued
<1>2. LoopsInv /\ TasksInv /\ QueueInv
  BY DEF Init, LoopsInv, TasksInv, QueueInv
<1>3. DaemonInv
  BY <1>1 DEF Init, DaemonInv, Bounds
<1>4. HandlerInv
  <2>1. /\ disconnected \in BOOLEAN /\ incompatible \in BOOLEAN
        /\ reconnecting \in BOOLEAN
    BY Zenon DEF Init
  <2>2. todo \in Seq(Requests)
    BY TodoTypes DEF Init
  <2>3. /\ cmd \in 0 .. epoch /\ known \in Nat /\ polling \subseteq Accounts
        /\ shown \in [polls : [Accounts -> Nat], gen : Nat]
        /\ \A a \in Accounts : shown.polls[a] = 0
    BY DEF Init
  <2>4. QED BY <2>1, <2>2, <2>3 DEF HandlerInv
<1>5. QED BY <1>2, <1>3, <1>4 DEF TInv

LEMMA SpecTInv == Spec => []TInv
BY TInit, TNext, PTL DEF Spec

\* Every variable keeps its type, out-of-order ids included: no connection
\* leads to a daemon that was never started, and no long-poll asks for what is
\* newer than a poll nobody issued.
THEOREM LiveTypeCorrect == Spec => []TypeOK
BY SpecTInv, TInvTypeOK, PTL

-----------------------------------------------------------------------------
(* Polls shown.                                                            *)

StatusDue == todo # <<>> /\ Head(todo) = "status"

UpdateQueued == \E i \in 1 .. Len(queue) : queue[i][1] = "update"

\* Ids sort in the order they are issued in.
InOrder ==
  /\ \A a \in Accounts : \A x \in stored[a] : x <= latest[a]
  /\ slot # <<>> => \A a \in Accounts : latest[a] <= slot[1]

\* A connected dashboard that is not about to ask for Status lacks only polls
\* that are newer than all it shows, and none while the slot is empty.
ShownInv ==
  Alive(cmd) /\ ~StatusDue =>
    /\ slot = <<>> => shown.polls = latest
    /\ \A a \in Accounts : shown.polls[a] = latest[a] \/ latest[a] > Since

\* What a task has seen is shown, or about to be.
SeenInv ==
  \A l \in loops :
    Alive(cmd) /\ Alive(l.conn) =>
      \/ StatusDue
      \/ UpdateQueued
      \/ \A a \in Accounts : latest[a] <= l.since => shown.polls[a] = latest[a]

PInv == InOrder /\ ShownInv /\ SeenInv

LEMMA LatestIsNewest ==
  ASSUME TInv, InOrder, NEW a \in Accounts
  PROVE  Max(stored[a] \cup {0}) = latest[a]
<1>1. /\ stored[a] \cup {0} \subseteq Nat /\ latest[a] \in stored[a] \cup {0}
      /\ \A x \in stored[a] \cup {0} : x <= latest[a]
  BY DEF TInv, DaemonInv, InOrder
<1>2. Max(stored[a] \cup {0}) \in stored[a] \cup {0}
  BY <1>1, MaxProperties
<1>3. latest[a] <= Max(stored[a] \cup {0})
  BY <1>1, MaxProperties
<1>4. QED BY <1>1, <1>2, <1>3

\* The daemon: a poll is newer than anything anybody has seen, and a daemon
\* that stops or starts is one nobody is connected to.
LEMMA DaemonShown ==
  ASSUME MaxSkews = 0, TInv, PInv, Daemon
  PROVE  PInv'
<1>1. ASSUME NEW a \in Accounts, Land(a) PROVE PInv'
  <2>1. /\ latest' = [latest EXCEPT ![a] = Newest + 2]
        /\ stored' = [stored EXCEPT ![a] = @ \cup {Newest + 2}]
        /\ slot' = <<Newest + 2, a>>
        /\ UNCHANGED <<epoch, up>> /\ UNCHANGED tuiVars
    BY <1>1 DEF Land, Publish
  <2>2. /\ latest \in [Accounts -> Nat] /\ stored \in [Accounts -> SUBSET Nat]
        /\ Newest \in Nat
        /\ \A b \in Accounts : \A x \in stored[b] : x <= Newest
        /\ \A b \in Accounts : latest[b] <= Newest
    BY NewestProperties DEF TInv, DaemonInv
  <2>3. \A x \in Issued \cup {0} : x \in Nat /\ x <= Newest
    BY <2>2 DEF Issued
  <2>4. Since \in Nat /\ Since <= Newest
    BY <2>3, SinceProperties DEF TInv
  <2>5. InOrder'
    BY <2>1, <2>2 DEF PInv, InOrder
  <2>6. Since' = Since /\ StatusDue' = StatusDue /\ UpdateQueued' = UpdateQueued
    BY <2>1 DEF Since, StatusDue, UpdateQueued, tuiVars
  <2>7. \A b \in Accounts : latest'[b] = IF b = a THEN Newest + 2 ELSE latest[b]
    BY <2>1, <2>2
  <2>8. ShownInv'
    <3>1. slot' # <<>>
      BY <2>1
    <3>2. UNCHANGED <<cmd, up, epoch, shown>>
      BY <2>1 DEF tuiVars
    <3>3. QED BY <2>2, <2>4, <2>6, <2>7, <3>1, <3>2 DEF PInv, ShownInv, Alive
  <2>9. SeenInv'
    <3>1. UNCHANGED <<cmd, up, epoch, shown, loops>>
      BY <2>1 DEF tuiVars
    <3>2. \A l \in loops : l.since \in Nat /\ l.since <= Newest
      BY <2>3 DEF TInv, TasksInv
    <3>3. QED BY <2>2, <2>6, <2>7, <3>1, <3>2 DEF PInv, SeenInv, Alive
  <2>10. QED BY <2>5, <2>8, <2>9 DEF PInv
<1>2. ASSUME NEW a \in Accounts, LandSkewed(a) PROVE FALSE
  BY <1>2 DEF LandSkewed, Spend, TInv, DaemonInv, Bounds
<1>3. CASE Load
  <2>1. /\ UNCHANGED <<epoch, up, slot, latest, stored, cmd, shown, loops, todo>>
        /\ UNCHANGED queue
    BY <1>3 DEF Load, tuiVars
  <2>2. Since' = Since /\ StatusDue' = StatusDue /\ UpdateQueued' = UpdateQueued
    BY <2>1 DEF Since, StatusDue, UpdateQueued
  <2>3. QED BY <2>1, <2>2 DEF PInv, InOrder, ShownInv, SeenInv, Alive
<1>4. CASE Stop
  BY <1>4 DEF Stop, PInv, InOrder, ShownInv, SeenInv, Alive
<1>5. ASSUME NEW compat \in BOOLEAN, Restart(compat) PROVE PInv'
  <2>1. /\ latest' = [a \in Accounts |-> Max(stored[a] \cup {0})]
        /\ UNCHANGED <<slot, stored, cmd>> /\ epoch' = epoch + 1
    BY <1>5 DEF Restart, tuiVars
  <2>2. \A a \in Accounts : latest'[a] = latest[a]
    BY <2>1, LatestIsNewest DEF PInv
  <2>3. ~Alive(cmd)'
    BY <2>1 DEF Alive, TInv, HandlerInv, DaemonInv
  <2>4. QED BY <2>1, <2>2, <2>3 DEF PInv, InOrder, ShownInv, SeenInv
<1>6. QED BY <1>1, <1>2, <1>3, <1>4, <1>5 DEF Daemon

LEMMA QueueAppended ==
  ASSUME TInv, NEW m \in Messages, queue' = Append(queue, m)
  PROVE  UpdateQueued' <=> (UpdateQueued \/ m[1] = "update")
<1>1. /\ queue \in Seq(Messages) /\ Len(queue) \in Nat
      /\ Len(queue') = Len(queue) + 1 /\ queue'[Len(queue) + 1] = m
      /\ \A i \in 1 .. Len(queue) : queue'[i] = queue[i]
  BY AppendProperties, LenProperties DEF TInv, QueueInv
<1>2. QED BY <1>1 DEF UpdateQueued

LEMMA QueueTaken ==
  ASSUME TInv, queue # <<>>, queue' = Tail(queue), UpdateQueued,
         Head(queue)[1] # "update"
  PROVE  UpdateQueued'
<1>1. /\ Len(queue) \in Nat \ {0} /\ Head(queue) = queue[1]
      /\ Len(Tail(queue)) = Len(queue) - 1
      /\ \A i \in 1 .. Len(Tail(queue)) : Tail(queue)[i] = queue[i + 1]
  BY HeadTailProperties, EmptySeq DEF TInv, QueueInv
<1>2. PICK i \in 1 .. Len(queue) : queue[i][1] = "update"
  BY DEF UpdateQueued
<1>3. i - 1 \in 1 .. Len(queue') /\ queue'[i - 1][1] = "update"
  BY <1>1, <1>2
<1>4. QED BY <1>3 DEF UpdateQueued

\* A step after which Status is due, whatever else it did.
LEMMA DueShown ==
  ASSUME PInv, UNCHANGED <<latest, stored, slot>>, StatusDue'
  PROVE  PInv'
BY DEF PInv, InOrder, ShownInv, SeenInv

\* A step of the TUI that leaves the Status it shows alone: what it has to
\* account for is the messages it took and the long-polls it started.
LEMMA OtherShown ==
  ASSUME TInv, PInv, UNCHANGED <<epoch, up, latest, stored, slot, shown, cmd>>,
         ~StatusDue, UpdateQueued => UpdateQueued',
         \A l \in loops' :
           \/ ~Alive(l.conn)
           \/ UpdateQueued'
           \/ \E k \in loops : k.conn = l.conn /\ k.since = l.since
           \/ l.since = Since
  PROVE  PInv'
<1>1. Since' = Since
  BY DEF Since
<1>2. InOrder' /\ ShownInv'
  BY <1>1 DEF PInv, InOrder, ShownInv, Alive
<1>3. SeenInv'
  <2> SUFFICES ASSUME NEW l \in loops', Alive(cmd), Alive(l.conn),
                      ~UpdateQueued', NEW a \in Accounts, latest[a] <= l.since
               PROVE  shown.polls[a] = latest[a]
    BY DEF SeenInv, Alive
  <2>1. CASE l.since = Since
    <3>1. Since \in Nat /\ latest[a] \in Nat
      BY SinceProperties DEF TInv, DaemonInv
    <3>2. QED BY <2>1, <3>1 DEF PInv, ShownInv
  <2>2. CASE \E k \in loops : k.conn = l.conn /\ k.since = l.since
    BY <2>2 DEF PInv, SeenInv
  <2>3. QED BY <2>1, <2>2
<1>4. QED BY <1>2, <1>3 DEF PInv

\* A task that answers has announced what it has now seen.
LEMMA LoopStepShown ==
  ASSUME TInv, PInv, NEW l \in loops, Answer(l) \/ LoopEnds(l)
  PROVE  PInv'
<1>0. UNCHANGED <<epoch, up, latest, stored, slot, shown, cmd, todo>>
  BY DEF Answer, LoopEnds, daemonVars
<1>1. CASE StatusDue
  BY <1>0, <1>1, DueShown DEF StatusDue
<1>2. CASE ~StatusDue
  <2>1. CASE LoopEnds(l)
    <3>1. UpdateQueued => UpdateQueued'
      BY <2>1, MessageTypes, QueueAppended DEF LoopEnds
    <3>2. QED BY <1>0, <1>2, <2>1, <3>1, OtherShown DEF LoopEnds
  <2>2. CASE Answer(l) /\ PollNewer(l)
    <3>1. slot \in Nat \X Accounts /\ queue' = Append(queue, <<"update", slot>>)
      BY <2>2 DEF Answer, PollNewer, TInv, DaemonInv
    <3>2. <<"update", slot>> \in Messages
      BY <3>1, MessageTypes, Zenon
    <3>3. UpdateQueued'
      BY <3>1, <3>2, QueueAppended
    <3>4. QED BY <1>0, <1>2, <3>3, OtherShown
  <2>3. CASE Answer(l) /\ ~PollNewer(l)
    <3>1. /\ queue' = Append(queue, <<"config", gen>>)
          /\ Step(l, [l EXCEPT !.gen = Higher(l.gen, gen)])
      BY <2>3 DEF Answer
    <3>2. <<"config", gen>> \in Messages
      BY MessageTypes, Zenon DEF TInv, DaemonInv
    <3>3. UpdateQueued => UpdateQueued'
      BY <3>1, <3>2, QueueAppended
    <3> DEFINE n == [l EXCEPT !.gen = Higher(l.gen, gen)]
    <3>4. IsLoop(l)
      BY DEF TInv, LoopsInv
    <3>5. n.conn = l.conn /\ n.since = l.since
      BY <3>4 DEF IsLoop
    <3>6. loops' = (loops \ {l}) \cup {n}
      BY <3>1 DEF Step
    <3> HIDE DEF n
    <3>7. QED BY <1>0, <1>2, <3>3, <3>5, <3>6, OtherShown
  <2>4. QED BY <2>1, <2>2, <2>3
<1>3. QED BY <1>1, <1>2

LEMMA TakeShown ==
  ASSUME TInv, PInv, Take
  PROVE  PInv'
<1>0. UNCHANGED <<epoch, up, latest, stored, slot, shown, loops>>
  BY DEF Take, TakeUpdate, TakeConfig, TakeFailure, TakeReconnected, daemonVars
<1>1. CASE TakeUpdate \/ TakeConfig \/ TakeReconnected
  <2>1. todo' \in {Refetch, Refetch \o <<"config", "loop">>}
    BY <1>1 DEF TakeUpdate, TakeConfig, TakeReconnected
  <2>2. StatusDue'
    BY <2>1, TodoTypes, Zenon DEF StatusDue
  <2>3. QED BY <1>0, <2>2, DueShown
<1>2. CASE TakeFailure
  <2>1. ~StatusDue
    BY <1>2 DEF TakeFailure, Ready, StatusDue
  <2>2. UpdateQueued => UpdateQueued'
    BY <1>2, QueueTaken DEF TakeFailure
  <2>3. UNCHANGED cmd
    BY <1>2 DEF TakeFailure
  <2>4. QED BY <1>0, <2>1, <2>2, <2>3, OtherShown
<1>3. QED BY <1>1, <1>2 DEF Take

LEMMA RunShown ==
  ASSUME TInv, PInv, Run
  PROVE  PInv'
<1>0. UNCHANGED <<epoch, up, latest, stored, slot, cmd>>
  BY DEF Run, FetchStatus, FetchDetail, FetchConfig, StartLoop, StartFirstLoop,
         daemonVars
<1>1. CASE FetchStatus /\ Alive(cmd)
  <2>1. shown' = [polls |-> latest, gen |-> gen]
    BY <1>1 DEF FetchStatus
  <2>2. shown'.polls = latest'
    BY <1>0, <2>1
  <2>3. QED BY <1>0, <2>2 DEF PInv, InOrder, ShownInv, SeenInv
<1>2. CASE FetchStatus /\ ~Alive(cmd)
  BY <1>0, <1>2 DEF PInv, InOrder, ShownInv, SeenInv, Alive
<1>3. CASE FetchDetail \/ FetchConfig
  <2>1. ~StatusDue
    BY <1>3 DEF FetchDetail, FetchConfig, Fetch, StatusDue
  <2>2. UNCHANGED <<queue, loops, shown>>
    BY <1>3 DEF FetchDetail, FetchConfig
  <2>3. UpdateQueued' = UpdateQueued
    BY <2>2 DEF UpdateQueued
  <2>4. QED BY <1>0, <2>1, <2>2, <2>3, OtherShown
<1>4. CASE StartLoop \/ StartFirstLoop
  <2>1. ~StatusDue
    BY <1>4 DEF StartLoop, StartFirstLoop, StatusDue
  <2>2. UNCHANGED shown
    BY <1>4 DEF StartLoop, StartFirstLoop
  <2>3. UpdateQueued => UpdateQueued'
    <3>1. queue' = queue \/ queue' = Append(queue, <<"disconnected">>)
      BY <1>4 DEF StartLoop, StartFirstLoop
    <3>2. CASE queue' = queue
      BY <3>2 DEF UpdateQueued
    <3>3. CASE queue' = Append(queue, <<"disconnected">>)
      BY <3>3, MessageTypes, QueueAppended
    <3>4. QED BY <3>1, <3>2, <3>3
  <2>4. \A l \in loops' : l \in loops \/ l.since = Since
    BY <1>4 DEF StartLoop, StartFirstLoop, NewLoop
  <2>5. QED BY <1>0, <2>1, <2>2, <2>3, <2>4, OtherShown
<1>5. QED BY <1>1, <1>2, <1>3, <1>4 DEF Run

LEMMA RestShown ==
  ASSUME TInv, PInv, Tick \/ Reconnect \/ ReconnectFails \/ Outside \/ UNCHANGED vars
  PROVE  PInv'
<1>0. UNCHANGED <<epoch, up, latest, stored, slot, shown>>
  BY DEF Tick, Reconnect, ReconnectFails, Outside, PressPoll, PressEdit, Browse,
         BreakCommand, BreakLoop, daemonVars, tuiVars, vars
<1>1. UpdateQueued => UpdateQueued'
  <2>1. CASE queue' = queue
    BY <2>1 DEF UpdateQueued
  <2>2. ASSUME NEW m \in {<<"reconnected", epoch>>, <<"incompatible">>,
                          <<"reconnect_failed">>},
               queue' = Append(queue, m)
        PROVE  UpdateQueued => UpdateQueued'
    <3>1. epoch \in Nat
      BY DEF TInv, DaemonInv
    <3>2. m \in Messages
      BY <3>1, MessageTypes, Zenon
    <3>3. QED BY <2>2, <3>2, QueueAppended
  <2>3. QED BY <2>1, <2>2 DEF Tick, Reconnect, ReconnectFails, Outside,
                PressPoll, PressEdit, Browse, BreakCommand, BreakLoop, tuiVars, vars
<1>2. CASE StatusDue'
  BY <1>0, <1>2, DueShown
<1>3. CASE ~StatusDue'
  <2>1. ~StatusDue
    BY <1>3 DEF Tick, Reconnect, ReconnectFails, Outside, PressPoll, PressEdit,
                Browse, BreakCommand, BreakLoop, tuiVars, vars, Ready, StatusDue
  <2>2. CASE UNCHANGED <<cmd, loops>>
    BY <1>0, <1>1, <2>1, <2>2, OtherShown
  <2>3. CASE BreakCommand
    <3>1. ~Alive(cmd)'
      BY <1>0, <2>3 DEF BreakCommand, Alive, TInv, DaemonInv
    <3>2. QED BY <1>0, <3>1 DEF PInv, InOrder, ShownInv, SeenInv
  <2>4. ASSUME NEW l \in loops, BreakLoop(l) PROVE PInv'
    <3> DEFINE n == [l EXCEPT !.conn = 0]
    <3>1. IsLoop(l)
      BY DEF TInv, LoopsInv
    <3>2. n.conn = 0 /\ ~Alive(n.conn)
      BY <3>1 DEF IsLoop, Alive, TInv, DaemonInv
    <3>3. loops' = (loops \ {l}) \cup {n} /\ UNCHANGED cmd
      BY <2>4 DEF BreakLoop, Step
    <3> HIDE DEF n
    <3>4. QED BY <1>0, <1>1, <2>1, <3>2, <3>3, OtherShown
  <2>5. QED BY <2>2, <2>3, <2>4 DEF Tick, Reconnect, ReconnectFails, Outside,
                PressPoll, PressEdit, Browse, tuiVars, vars
<1>4. QED BY <1>2, <1>3

\* Once nothing is on its way, every account shows its newest poll, across
\* restarts, lost connections and reconnects, however many polls the one slot
\* swallowed: provided that ids sort in the order they are issued in.
THEOREM PollsShownCorrect ==
  ASSUME MaxSkews = 0
  PROVE  Spec => []PollsShown
<1>1. Init => PInv
  <2>1. Init => StatusDue
    BY DEF Init, StatusDue, Refetch
  <2>2. Init => InOrder
    BY DEF Init, InOrder
  <2>3. QED BY <2>1, <2>2 DEF PInv, ShownInv, SeenInv
<1>2. TInv /\ PInv /\ [Next]_vars => PInv'
  BY DaemonShown, LoopStepShown, TakeShown, RunShown, RestShown
  DEF Next, Tui, LoopStep
<1>3. TInv /\ PInv => PollsShown
  <2> SUFFICES ASSUME TInv, PInv, Settled PROVE shown.polls = latest
    BY DEF PollsShown
  <2>1. PICK l \in loops : Alive(l.conn) /\ ~PollNewer(l)
    BY DEF Settled
  <2>2. ~StatusDue /\ ~UpdateQueued /\ Alive(cmd)
    BY DEF Settled, Ready, StatusDue, UpdateQueued
  <2>3. CASE slot = <<>>
    BY <2>2, <2>3 DEF PInv, ShownInv
  <2>4. CASE slot # <<>>
    <3>1. slot[1] \in Nat /\ l.since \in Nat /\ slot[1] <= l.since
      <4>1. slot[1] \in Nat
        BY <2>4 DEF TInv, DaemonInv
      <4>2. l.since \in Nat
        BY DEF TInv, TasksInv, DaemonInv, Issued
      <4>3. QED BY <2>1, <2>4, <4>1, <4>2 DEF PollNewer
    <3>2. /\ latest \in [Accounts -> Nat] /\ shown.polls \in [Accounts -> Nat]
          /\ \A a \in Accounts : latest[a] <= slot[1]
      BY <2>4 DEF TInv, DaemonInv, HandlerInv, PInv, InOrder
    <3>3. \A a \in Accounts : shown.polls[a] = latest[a]
      BY <2>1, <2>2, <3>1, <3>2 DEF PInv, SeenInv
    <3>4. QED BY <3>2, <3>3
  <2>5. QED BY <2>3, <2>4
<1>4. QED BY <1>1, <1>2, <1>3, SpecTInv, PTL DEF Spec

=============================================================================
