-------------------------- MODULE HandshakeProofs --------------------------
(***************************************************************************)
(* The handshake implements Verdict, and a reject is not lost, for every   *)
(* set of protocol versions and any number of attempts.                    *)
(***************************************************************************)
EXTENDS Handshake, SequenceTheorems, TLAPS

\* What may be on its way to a daemon from a client of version v, and what a
\* daemon that has given this verdict may have on its way back.
UpItems(v) == [kind : {"hello", "commit"}, v : {v}]

DownItems(verdict) ==
  [kind : IF verdict = "accept" THEN {"accept", "commit"} ELSE {"reject", "version"},
   v    : Nat]

\* One end of a connection.
Ends(up, down) == [up : Seq(up), down : Seq(down)]

\* The streams carry what one client of this version and this daemon sent.
StreamsOK ==
  /\ near \in Ends(UpItems(ours), DownItems(said))
  /\ far  \in Ends(UpItems(ours), DownItems(said))

\* The daemon has given a verdict or reads on, and the verdict follows from the
\* versions.
VerdictOK ==
  /\ ours \in Versions /\ theirs \in Versions
  /\ said \in {"waiting", "accept", "reject"}
  /\ server \in {"hello", "commit", "serving", "closed"}
  /\ said # "waiting" => server \in {"serving", "closed"}
  /\ server = "commit" => ours = theirs
  /\ said = "accept" => ours = theirs
  /\ said = "reject" => ours # theirs
  /\ said = "waiting" => near.down = <<>> /\ far.down = <<>>

\* A client that has read a verdict has read the daemon's.
ClientOK ==
  /\ client \in {"start", "reply", "commit", "version"} \cup Outcomes
  /\ client = "commit" => said = "accept"
  /\ client = "version" => said = "reject"

HInv == StreamsOK /\ VerdictOK /\ ClientOK

LEMMA EmptyEnds ==
  ASSUME NEW up, NEW down
  PROVE  Empty \in Ends(up, down) /\ Empty.up = <<>> /\ Empty.down = <<>>
BY DEF Empty, Ends

LEMMA InitHInv == Init => HInv
<1> SUFFICES ASSUME Init PROVE HInv
  OBVIOUS
<1>1. StreamsOK
  BY EmptyEnds DEF Init, StreamsOK
<1>2. VerdictOK
  BY EmptyEnds DEF Init, VerdictOK
<1>3. ClientOK
  BY DEF Init, ClientOK
<1> QED
  BY <1>1, <1>2, <1>3 DEF HInv

LEMMA HelloItems ==
  ASSUME NEW v
  PROVE  Hello(v) \in Seq(UpItems(v))
<1>1. Item("hello", v) \in UpItems(v) /\ Item("commit", v) \in UpItems(v)
  BY DEF Item, UpItems
<1> QED
  BY <1>1 DEF Hello

\* What the operations on one end leave: an item is added, or taken.
LEMMA SentUp ==
  ASSUME NEW U, NEW D, NEW e \in Ends(U, D), NEW items \in Seq(U)
  PROVE  [e EXCEPT !.up = @ \o items] \in Ends(U, D)
<1>1. e.up \o items \in Seq(U)
  BY ConcatProperties DEF Ends
<1> QED
  BY <1>1 DEF Ends

LEMMA TakenDown ==
  ASSUME NEW U, NEW D, NEW e \in Ends(U, D), e.down # <<>>
  PROVE  /\ [e EXCEPT !.down = Tail(@)] \in Ends(U, D)
         /\ Head(e.down) \in D
<1>1. e.down \in Seq(D)
  BY DEF Ends
<1>2. Tail(e.down) \in Seq(D) /\ Head(e.down) \in D
  BY <1>1, HeadTailProperties
<1> QED
  BY <1>2 DEF Ends

LEMMA TakenUp ==
  ASSUME NEW U, NEW D, NEW e \in Ends(U, D), e.up # <<>>
  PROVE  /\ [e EXCEPT !.up = Tail(@)] \in Ends(U, D)
         /\ Tail(e.up) \in Seq(U)
         /\ Head(e.up) \in U
<1>1. e.up \in Seq(U)
  BY DEF Ends
<1>2. Tail(e.up) \in Seq(U) /\ Head(e.up) \in U
  BY <1>1, HeadTailProperties
<1> QED
  BY <1>2 DEF Ends

LEMMA AddedUp ==
  ASSUME NEW U, NEW D, NEW e \in Ends(U, D), NEW item \in U
  PROVE  [e EXCEPT !.up = Append(@, item)] \in Ends(U, D)
<1>1. Append(e.up, item) \in Seq(U)
  BY AppendProperties DEF Ends
<1> QED
  BY <1>1 DEF Ends

LEMMA AddedDown ==
  ASSUME NEW U, NEW D, NEW e \in Ends(U, D), NEW item \in D
  PROVE  [e EXCEPT !.down = Append(@, item)] \in Ends(U, D)
<1>1. Append(e.down, item) \in Seq(D)
  BY AppendProperties DEF Ends
<1> QED
  BY <1>1 DEF Ends

LEMMA DroppedDown ==
  ASSUME NEW U, NEW D, NEW e \in Ends(U, D)
  PROVE  /\ [e EXCEPT !.down = <<>>] \in Ends(U, D)
         /\ [e EXCEPT !.down = <<>>].down = <<>>
<1>1. <<>> \in Seq(D)
  OBVIOUS
<1> QED
  BY <1>1 DEF Ends

\* An end that has nothing on its way down may belong to any verdict.
LEMMA NothingDown ==
  ASSUME NEW U, NEW D, NEW e \in Ends(U, D), e.down = <<>>, NEW items, NEW E,
         items \in Seq(E)
  PROVE  /\ e \in Ends(U, E)
         /\ e.down \o items \in Seq(E)
<1>1. e = [up |-> e.up, down |-> e.down] /\ e.up \in Seq(U) /\ <<>> \in Seq(E)
  BY DEF Ends
<1>2. <<>> \o items \in Seq(E)
  BY <1>1, ConcatProperties
<1> QED
  BY <1>1, <1>2 DEF Ends

LEMMA VerdictItems ==
  ASSUME theirs \in Nat
  PROVE  /\ <<Item("accept", 0)>> \in Seq(DownItems("accept"))
         /\ <<Item("accept", 0), Item("commit", theirs)>> \in Seq(DownItems("accept"))
         /\ (<<Item("reject", 0)>> \o
              (IF SaysVersion(theirs) THEN <<Item("version", theirs)>> ELSE <<>>))
               \in Seq(DownItems("reject"))
<1>1. /\ Item("accept", 0) \in DownItems("accept")
      /\ Item("commit", theirs) \in DownItems("accept")
  BY DEF Item, DownItems
<1>2. /\ Item("reject", 0) \in DownItems("reject")
      /\ Item("version", theirs) \in DownItems("reject")
  BY DEF Item, DownItems
<1>3. /\ <<Item("accept", 0)>> \in Seq(DownItems("accept"))
      /\ <<Item("accept", 0), Item("commit", theirs)>> \in Seq(DownItems("accept"))
  BY <1>1
<1>4. /\ <<Item("reject", 0)>> \in Seq(DownItems("reject"))
      /\ <<Item("version", theirs)>> \in Seq(DownItems("reject"))
      /\ <<>> \in Seq(DownItems("reject"))
  BY <1>2
<1> QED
  BY <1>3, <1>4, ConcatProperties

-----------------------------------------------------------------------------
(* The invariant is kept by every step.                                    *)

\* Steps that leave the versions and the verdict alone.
LEMMA QuietKeeps ==
  ASSUME HInv, UNCHANGED <<ours, theirs, said, server>>, StreamsOK',
         near'.down = <<>> \/ said # "waiting", far'.down = <<>> \/ said # "waiting",
         ClientOK'
  PROVE  HInv'
BY DEF HInv, VerdictOK

LEMMA ReadingKeeps ==
  ASSUME HInv, Incoming # <<>>, TakeIncoming, UNCHANGED <<ours, theirs, ssh, said, server>>
  PROVE  /\ StreamsOK'
         /\ said # "waiting"
         /\ Head(Incoming) \in DownItems(said)
<1>1. CASE ssh
  BY <1>1, TakenDown DEF HInv, StreamsOK, VerdictOK, Incoming, TakeIncoming
<1>2. CASE ~ssh
  BY <1>2, TakenDown DEF HInv, StreamsOK, VerdictOK, Incoming, TakeIncoming
<1> QED
  BY <1>1, <1>2

\* The daemon's verdict, with what it sends.
LEMMA SayKeeps ==
  ASSUME HInv, said = "waiting", far.up # <<>>,
         NEW verdict \in {"accept", "reject"}, NEW items \in Seq(DownItems(verdict)),
         Say(verdict, items), server' \in {"serving", "closed"},
         (verdict = "accept") <=> (ours = theirs),
         UNCHANGED <<ours, theirs, near, client>>
  PROVE  HInv'
<1> DEFINE U == UpItems(ours)
           D == DownItems(said)
<1>1. near \in Ends(U, D) /\ far \in Ends(U, D)
  BY DEF HInv, StreamsOK
<1>2. near.down = <<>> /\ far.down = <<>>
  BY DEF HInv, VerdictOK
<1> HIDE DEF U, D
<1>3. /\ near \in Ends(U, DownItems(verdict))
      /\ far.down \o items \in Seq(DownItems(verdict))
  BY <1>1, <1>2, NothingDown
<1>4. Tail(far.up) \in Seq(U)
  BY <1>1, TakenUp
<1>5. [up |-> Tail(far.up), down |-> far.down \o items] \in Ends(U, DownItems(verdict))
  BY <1>3, <1>4 DEF Ends
<1>6. StreamsOK'
  BY <1>3, <1>5 DEF StreamsOK, Say, U
<1>7. VerdictOK'
  BY DEF HInv, VerdictOK, Say
<1>8. ClientOK'
  BY DEF HInv, ClientOK, Say
<1> QED
  BY <1>6, <1>7, <1>8 DEF HInv

LEMMA NextHInv == HInv /\ [Next]_vars => HInv'
<1> SUFFICES ASSUME HInv, [Next]_vars PROVE HInv'
  OBVIOUS
<1> USE DEF versions
<1>1. CASE SendHello
  <2>1. StreamsOK'
    <3>1. Hello(ours) \in Seq(UpItems(ours))
      BY HelloItems
    <3>2. /\ [near EXCEPT !.up = @ \o Hello(ours)] \in Ends(UpItems(ours), DownItems(said))
          /\ [far EXCEPT !.up = @ \o Hello(ours)] \in Ends(UpItems(ours), DownItems(said))
      BY <3>1, SentUp DEF HInv, StreamsOK
    <3> QED
      BY <1>1, <3>2, Zenon DEF SendHello, HInv, StreamsOK
  <2>2. near'.down = near.down /\ far'.down = far.down
    <3>1. CASE ssh
      BY <1>1, <3>1 DEF SendHello, HInv, StreamsOK, Ends
    <3>2. CASE ~ssh
      BY <1>1, <3>2 DEF SendHello, HInv, StreamsOK, Ends
    <3> QED
      BY <3>1, <3>2
  <2> QED
    BY <1>1, <2>1, <2>2 DEF SendHello, HInv, VerdictOK, ClientOK
<1>2. CASE ReadVerdict
  <2>1. StreamsOK' /\ said # "waiting" /\ Head(Incoming) \in DownItems(said)
    BY <1>2, ReadingKeeps DEF ReadVerdict
  <2>2. Head(Incoming).kind = "accept" => said = "accept"
    BY <2>1 DEF DownItems
  <2>3. Head(Incoming).kind = "reject" => said = "reject"
    BY <2>1 DEF DownItems, HInv, VerdictOK
  <2>4. ClientOK'
    BY <1>2, <2>2, <2>3 DEF ReadVerdict, ClientOK, Outcomes
  <2> QED
    BY <1>2, <2>1, <2>4, QuietKeeps DEF ReadVerdict
<1>3. CASE ReadRest
  <2>1. StreamsOK' /\ said # "waiting"
    BY <1>3, ReadingKeeps DEF ReadRest
  <2>2. ClientOK'
    BY <1>3 DEF ReadRest, ClientOK, Outcomes
  <2> QED
    BY <1>3, <2>1, <2>2, QuietKeeps DEF ReadRest
<1>4. CASE StreamEnds \/ TimesOut
  <2>1. client' \in Outcomes
    BY <1>4 DEF StreamEnds, TimesOut, Failures, Outcomes
  <2> QED
    BY <1>4, <2>1
       DEF StreamEnds, TimesOut, HInv, StreamsOK, VerdictOK, ClientOK, Outcomes
<1>5. CASE ReadHello
  <2>1. said = "waiting" /\ near.down = <<>> /\ far.down = <<>> /\ theirs \in Nat
    BY <1>5, HandshakeAssumption DEF ReadHello, HInv, VerdictOK
  <2>2. Head(far.up) \in UpItems(ours)
    BY <1>5, TakenUp DEF ReadHello, HInv, StreamsOK
  <2>3. Head(far.up).v = ours
    BY <2>2 DEF UpItems
  <2>4. CASE ours = theirs /\ SendsCommit(theirs)
    <3>1. /\ server' = "commit" /\ UNCHANGED <<said, near, ours, theirs, client>>
          /\ far' = [far EXCEPT !.up = Tail(@)]
      BY <1>5, <2>3, <2>4 DEF ReadHello
    <3>2. StreamsOK'
      BY <1>5, <3>1, TakenUp DEF ReadHello, HInv, StreamsOK
    <3>3. far'.down = far.down
      BY <3>1 DEF HInv, StreamsOK, Ends
    <3> QED
      BY <2>1, <2>4, <3>1, <3>2, <3>3 DEF HInv, VerdictOK, ClientOK
  <2>5. CASE ours = theirs /\ ~SendsCommit(theirs)
    <3>1. Say("accept", <<Item("accept", 0)>>) /\ server' = "serving"
      BY <1>5, <2>3, <2>5 DEF ReadHello
    <3> QED
      BY <1>5, <2>1, <2>5, <3>1, VerdictItems, SayKeeps DEF ReadHello
  <2>6. CASE ours # theirs
    <3>1. /\ Say("reject", <<Item("reject", 0)>> \o
                 (IF SaysVersion(theirs) THEN <<Item("version", theirs)>> ELSE <<>>))
          /\ server' = "closed"
      BY <1>5, <2>3, <2>6 DEF ReadHello
    <3> QED
      BY <1>5, <2>1, <2>6, <3>1, VerdictItems, SayKeeps DEF ReadHello
  <2> QED
    BY <2>4, <2>5, <2>6
<1>6. CASE ReadCommit
  <2>1. said = "waiting" /\ ours = theirs /\ theirs \in Nat
    BY <1>6, HandshakeAssumption DEF ReadCommit, HInv, VerdictOK
  <2> QED
    BY <1>6, <2>1, VerdictItems, SayKeeps DEF ReadCommit
<1>7. CASE ServerGivesUp \/ UpEnds \/ BridgeEnds
  BY <1>7 DEF ServerGivesUp, UpEnds, BridgeEnds, HInv, StreamsOK, VerdictOK, ClientOK
<1>8. CASE CopyUp
  <2>1. StreamsOK'
    BY <1>8, TakenUp, AddedUp DEF CopyUp, HInv, StreamsOK
  <2>2. near'.down = near.down /\ far'.down = far.down
    BY <1>8 DEF CopyUp, HInv, StreamsOK, Ends
  <2> QED
    BY <1>8, <2>1, <2>2 DEF CopyUp, HInv, VerdictOK, ClientOK
<1>9. CASE CopyDown
  <2>1. StreamsOK'
    BY <1>9, TakenDown, AddedDown DEF CopyDown, HInv, StreamsOK
  <2>2. said # "waiting"
    BY <1>9 DEF CopyDown, HInv, VerdictOK
  <2> QED
    BY <1>9, <2>1, <2>2 DEF CopyDown, HInv, VerdictOK, ClientOK
<1>10. CASE \E word \in {"lost", "no bridge"} : SshEnds(word)
  <2>1. near' = [near EXCEPT !.down = <<>>] /\ UNCHANGED <<ours, said, far>>
    BY <1>10 DEF SshEnds
  <2>2. near'.down = <<>> /\ near' \in Ends(UpItems(ours), DownItems(said))
    BY <2>1, DroppedDown DEF HInv, StreamsOK
  <2>3. StreamsOK'
    BY <2>1, <2>2 DEF HInv, StreamsOK
  <2> QED
    BY <1>10, <2>2, <2>3 DEF SshEnds, HInv, VerdictOK, ClientOK
<1>11. CASE Retry
  <2>1. StreamsOK' /\ near'.down = <<>> /\ far'.down = <<>>
    BY <1>11, EmptyEnds DEF Retry, StreamsOK
  <2> QED
    BY <1>11, <2>1 DEF Retry, HInv, VerdictOK, ClientOK
<1>12. CASE UNCHANGED vars
  BY <1>12 DEF vars, HInv, StreamsOK, VerdictOK, ClientOK
<1> QED
  BY <1>1, <1>2, <1>3, <1>4, <1>5, <1>6, <1>7, <1>8, <1>9, <1>10, <1>11, <1>12
     DEF Next

LEMMA AlwaysHInv == Spec => []HInv
BY InitHInv, NextHInv, PTL DEF Spec

-----------------------------------------------------------------------------
(* The handshake implements Verdict.                                       *)

\* The client as Verdict sees it.
Seen == IF client \in Outcomes THEN client ELSE "waiting"

LEMMA InitVerdict == Init => Promise!Init
BY DEF Init, Promise!Init, Outcomes

\* A step that neither decides nor ends an attempt is none of Verdict's.
LEMMA Stutters ==
  ASSUME UNCHANGED <<ours, theirs, said>>, Seen' = Seen
  PROVE  UNCHANGED Promise!vars
BY DEF Promise!vars, Seen

\* A client learns the verdict, or that it will not.
LEMMA ClientStep ==
  ASSUME HInv, UNCHANGED <<ours, theirs, said>>,
         client \in {"reply", "commit", "version"},
         \/ client' \in {"commit", "version", "failed", "hopeless"}
         \/ client' = "accepted" /\ said = "accept"
         \/ client' = "rejected" /\ said = "reject"
  PROVE  [Promise!Next]_(Promise!vars)
<1>1. CASE client' \in {"commit", "version"}
  BY <1>1, Stutters DEF Seen, Outcomes
<1>2. CASE client' \in {"failed", "hopeless"}
  BY <1>2 DEF Promise!Next, Promise!GiveUp, Outcomes
<1>3. CASE client' \in {"accepted", "rejected"}
  BY <1>3 DEF Promise!Next, Promise!Learn, Outcomes
<1> QED
  BY <1>1, <1>2, <1>3

LEMMA DecideStep ==
  ASSUME said = "waiting", UNCHANGED <<ours, theirs, client>>,
         said' = IF ours = theirs THEN "accept" ELSE "reject"
  PROVE  Promise!Next
BY DEF Promise!Next, Promise!Decide

LEMMA NextVerdict == HInv /\ [Next]_vars => [Promise!Next]_(Promise!vars)
<1> SUFFICES ASSUME HInv, [Next]_vars PROVE [Promise!Next]_(Promise!vars)
  OBVIOUS
<1> USE DEF versions
<1>1. CASE SendHello
  BY <1>1, Stutters DEF SendHello, Seen, Outcomes
<1>2. CASE ReadVerdict
  <2>1. Head(Incoming) \in DownItems(said) /\ said \in {"accept", "reject"}
    BY <1>2, ReadingKeeps DEF ReadVerdict, HInv, VerdictOK
  <2>2. /\ Head(Incoming).kind = "accept" => said = "accept"
        /\ Head(Incoming).kind = "reject" => said = "reject"
    BY <2>1 DEF DownItems
  <2> QED
    BY <1>2, <2>2, ClientStep DEF ReadVerdict
<1>3. CASE ReadRest
  BY <1>3, ClientStep DEF ReadRest, HInv, ClientOK
<1>4. CASE StreamEnds
  BY <1>4, ClientStep DEF StreamEnds, Failures, HInv, ClientOK
<1>5. CASE TimesOut
  BY <1>5, ClientStep DEF TimesOut, Failures
<1>6. CASE ReadHello
  <2>1. said = "waiting" /\ Head(far.up) \in UpItems(ours)
    BY <1>6, TakenUp DEF ReadHello, HInv, StreamsOK, VerdictOK
  <2>2. Head(far.up).v = ours
    BY <2>1 DEF UpItems
  <2>3. CASE UNCHANGED said
    BY <1>6, <2>3, Stutters DEF ReadHello, Seen
  <2>4. CASE said' = IF ours = theirs THEN "accept" ELSE "reject"
    BY <1>6, <2>1, <2>4, DecideStep DEF ReadHello
  <2> QED
    BY <1>6, <2>2, <2>3, <2>4 DEF ReadHello, Say
<1>7. CASE ReadCommit
  BY <1>7, DecideStep DEF ReadCommit, Say, HInv, VerdictOK
<1>8. CASE ServerGivesUp \/ UpEnds \/ BridgeEnds \/ CopyUp \/ CopyDown
           \/ \E word \in {"lost", "no bridge"} : SshEnds(word)
  BY <1>8, Stutters
     DEF ServerGivesUp, UpEnds, BridgeEnds, CopyUp, CopyDown, SshEnds, Seen
<1>9. CASE Retry
  <2>1. client = "failed"
    BY <1>9 DEF Retry, WorthRetrying, Outcomes
  <2> QED
    BY <1>9, <2>1 DEF Retry, Promise!Next, Promise!Retry, Outcomes
<1>10. CASE UNCHANGED vars
  BY <1>10, Stutters DEF vars, Seen
<1> QED
  BY <1>1, <1>2, <1>3, <1>4, <1>5, <1>6, <1>7, <1>8, <1>9, <1>10 DEF Next

\* Client and daemon never disagree about whether they speak the same version,
\* over the socket and through the bridge: the daemon decides by exact equality,
\* a client learns that decision or none, and tries again only when it learned
\* none (handshake.rs, client.rs `reconnect_loop`).
THEOREM HandshakeImplementsVerdict == Spec => ImplementsVerdict
BY InitVerdict, NextVerdict, AlwaysHInv, PTL
   DEF Spec, ImplementsVerdict, Promise!Spec

-----------------------------------------------------------------------------
(* A reject is not lost.                                                   *)

\* A client that has not spoken has not been answered, an ssh without a bridge
\* never reached the daemon, a bridge ends with ssh or after the daemon.
QuietOK ==
  /\ client = "start" => said = "waiting" /\ near.up = <<>> /\ far.up = <<>>
  /\ why = "no bridge" => ssh /\ said = "waiting" /\ far.up = <<>> /\ bridge = "end"
  /\ bridge = "end" => why \in {"lost", "no bridge"} \/ server = "closed"

\* A reject the client has not read is on its way, in a stream not yet at its
\* end.
RejectOnItsWay ==
  said = "reject" /\ why # "lost" /\ client = "reply"
    => IF ssh THEN near.down # <<>> \/ (far.down # <<>> /\ bridge # "end")
       ELSE far.down # <<>>

RInv == QuietOK /\ RejectOnItsWay

LEMMA InitRInv == Init => RInv
BY EmptyEnds DEF Init, RInv, QuietOK, RejectOnItsWay

\* A verdict is never sent without its first item.
LEMMA SomethingSent ==
  ASSUME NEW D, NEW s \in Seq(D), NEW items \in Seq(D), NEW first \in D
  PROVE  s \o (<<first>> \o items) # <<>>
<1>1. <<first>> \in Seq(D)
  OBVIOUS
<1>2. <<first>> \o items \in Seq(D) /\ Len(<<first>> \o items) = 1 + Len(items)
  BY <1>1, ConcatProperties
<1>3. Len(s \o (<<first>> \o items)) = Len(s) + 1 + Len(items)
  BY <1>2, ConcatProperties, LenProperties
<1> QED
  BY <1>3, LenProperties, EmptySeq

\* What is copied has arrived.
LEMMA CopyArrives ==
  ASSUME NEW U, NEW D, NEW e \in Ends(U, D), NEW item \in D
  PROVE  [e EXCEPT !.down = Append(@, item)].down # <<>>
<1>1. e.down \in Seq(D)
  BY DEF Ends
<1>2. Append(e.down, item) # <<>>
  BY <1>1, AppendProperties
<1> QED
  BY <1>2 DEF Ends

LEMMA NextRInv == HInv /\ RInv /\ [Next]_vars => RInv'
<1> SUFFICES ASSUME HInv, RInv, [Next]_vars PROVE RInv'
  OBVIOUS
<1> USE DEF versions
<1>0. QuietOK /\ RejectOnItsWay
  BY DEF RInv
<1>1. CASE SendHello
  <2>1. said = "waiting" /\ client' = "reply" /\ UNCHANGED <<ssh, said, why, bridge, server>>
    BY <1>0, <1>1 DEF SendHello, QuietOK
  <2>2. why = "no bridge" => far' = far
    BY <1>0, <1>1 DEF SendHello, QuietOK
  <2>3. QuietOK'
    BY <1>0, <2>1, <2>2 DEF QuietOK
  <2> QED
    BY <2>1, <2>3 DEF RInv, RejectOnItsWay
<1>2. CASE ReadVerdict \/ ReadRest
  <2>1. client' \notin {"start", "reply"} /\ UNCHANGED <<ssh, said, why, bridge, server>>
    BY <1>2 DEF ReadVerdict, ReadRest
  <2>2. why = "no bridge" => far' = far
    BY <1>0, <1>2 DEF ReadVerdict, ReadRest, TakeIncoming, QuietOK
  <2> QED
    BY <1>0, <2>1, <2>2 DEF RInv, QuietOK, RejectOnItsWay
<1>3. CASE StreamEnds \/ TimesOut
  <2>1. client' \in Outcomes /\ UNCHANGED <<ssh, said, why, bridge, server, near, far>>
    BY <1>3 DEF StreamEnds, TimesOut, Failures, Outcomes
  <2> QED
    BY <1>0, <2>1 DEF RInv, QuietOK, RejectOnItsWay, Outcomes
<1>4. CASE ReadHello
  <2>1. /\ far.up # <<>> /\ server = "hello" /\ said = "waiting"
        /\ UNCHANGED <<ssh, why, bridge, client, near>>
    BY <1>4 DEF ReadHello, HInv, VerdictOK
  <2>2. client # "start" /\ why # "no bridge" /\ (bridge = "end" => why = "lost")
    BY <1>0, <2>1 DEF QuietOK
  <2>3. QuietOK'
    BY <2>1, <2>2 DEF QuietOK
  <2>4. CASE said' # "reject"
    BY <2>3, <2>4 DEF RInv, RejectOnItsWay
  <2>5. CASE said' = "reject"
    <3> DEFINE rest == IF SaysVersion(theirs) THEN <<Item("version", theirs)>> ELSE <<>>
    <3>1. Say("reject", <<Item("reject", 0)>> \o rest)
      BY <1>4, <2>1, <2>5 DEF ReadHello, Say
    <3>2. far'.down = far.down \o (<<Item("reject", 0)>> \o rest)
      BY <3>1 DEF Say
    <3>3. theirs \in Nat /\ far.down = <<>>
      BY <2>1, HandshakeAssumption DEF HInv, VerdictOK
    <3>4. Item("reject", 0) \in DownItems("reject") /\ rest \in Seq(DownItems("reject"))
      <4>1. /\ Item("reject", 0) \in DownItems("reject")
            /\ Item("version", theirs) \in DownItems("reject")
        BY <3>3 DEF Item, DownItems
      <4> QED
        BY <4>1
    <3>5. far.down \in Seq(DownItems("reject"))
      BY <3>3
    <3> HIDE DEF rest
    <3>6. far'.down # <<>>
      BY <3>2, <3>4, <3>5, SomethingSent
    <3> QED
      BY <2>1, <2>2, <2>3, <3>6 DEF RInv, RejectOnItsWay
  <2> QED
    BY <2>4, <2>5
<1>5. CASE ReadCommit
  <2>1. far.up # <<>> /\ server = "commit" /\ said' = "accept"
        /\ UNCHANGED <<ssh, why, bridge, client, near>>
    BY <1>5 DEF ReadCommit, Say
  <2>2. client # "start" /\ why # "no bridge" /\ (bridge = "end" => why = "lost")
    BY <1>0, <2>1 DEF QuietOK
  <2> QED
    BY <2>1, <2>2 DEF RInv, QuietOK, RejectOnItsWay
<1>6. CASE ServerGivesUp
  BY <1>0, <1>6 DEF ServerGivesUp, RInv, QuietOK, RejectOnItsWay
<1>7. CASE UpEnds
  BY <1>0, <1>7 DEF UpEnds, RInv, QuietOK, RejectOnItsWay
<1>8. CASE BridgeEnds
  BY <1>0, <1>8 DEF BridgeEnds, RInv, QuietOK, RejectOnItsWay
<1>9. CASE CopyUp
  <2>1. near'.down = near.down /\ far'.down = far.down
    BY <1>9 DEF CopyUp, HInv, StreamsOK, Ends
  <2>2. bridge = "run" /\ near.up # <<>>
        /\ UNCHANGED <<ssh, why, bridge, client, said, server>>
    BY <1>9 DEF CopyUp
  <2> QED
    BY <1>0, <2>1, <2>2 DEF RInv, QuietOK, RejectOnItsWay
<1>10. CASE CopyDown
  <2>1. ssh /\ bridge # "end" /\ UNCHANGED <<ssh, why, bridge, client, said, server>>
    BY <1>10 DEF CopyDown
  <2>2. near'.down # <<>>
    BY <1>10, TakenDown, CopyArrives DEF CopyDown, HInv, StreamsOK
  <2>3. near'.up = near.up /\ far'.up = far.up
    BY <1>10 DEF CopyDown, HInv, StreamsOK, Ends
  <2> QED
    BY <1>0, <2>1, <2>2, <2>3 DEF RInv, QuietOK, RejectOnItsWay
<1>11. CASE \E word \in {"lost", "no bridge"} : SshEnds(word)
  <2> PICK word \in {"lost", "no bridge"} : SshEnds(word)
    BY <1>11
  <2>1. ssh /\ bridge' = "end" /\ why' = word /\ UNCHANGED <<ssh, far, server, said, client>>
    BY DEF SshEnds
  <2>2. near'.up = near.up
    BY DEF SshEnds, HInv, StreamsOK, Ends
  <2>3. word = "no bridge" => said = "waiting" /\ far.up = <<>>
    BY EmptyEnds DEF SshEnds, HInv, VerdictOK
  <2> QED
    BY <1>0, <2>1, <2>2, <2>3 DEF RInv, QuietOK, RejectOnItsWay
<1>12. CASE Retry
  BY <1>12, EmptyEnds DEF Retry, RInv, QuietOK, RejectOnItsWay
<1>13. CASE UNCHANGED vars
  BY <1>0, <1>13 DEF vars, RInv, QuietOK, RejectOnItsWay
<1> QED
  BY <1>1, <1>2, <1>3, <1>4, <1>5, <1>6, <1>7, <1>8, <1>9, <1>10, <1>11, <1>12, <1>13
     DEF Next

LEMMA NotLost == RInv => RejectNotLost
BY DEF RInv, QuietOK, RejectOnItsWay, RejectNotLost, Incoming, Ended

\* A daemon that rejects a client closes at once, with the client's commit
\* unread: a client that waits still finds the reject before the end of its
\* stream, through the bridge too, unless ssh itself is cut off.
THEOREM RejectAlwaysArrives == Spec => []RejectNotLost
BY InitHInv, NextHInv, InitRInv, NextRInv, NotLost, PTL DEF Spec

=============================================================================
