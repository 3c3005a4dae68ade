------------------------------ MODULE Handshake ------------------------------
(***************************************************************************)
(* One client connecting until it succeeds or knows it never will: the     *)
(* handshake of both sides (crates/teiryo-core/src/protocol/handshake.rs), *)
(* over the daemon's socket or over ssh and `teiryod bridge`               *)
(* (crates/teiryod/src/bridge.rs, protocol/ssh.rs), and the reconnect loop *)
(* that judges the outcome (crates/teiryo/src/client.rs).                  *)
(*                                                                         *)
(* The bytes of the hello, of a commit, of a verdict and of a version are  *)
(* one item each on a stream; each can be read before the next arrives.    *)
(* `near` is what the client's end of ssh carries, `far` the daemon's      *)
(* socket; a local client is at `far` itself.                              *)
(***************************************************************************)
EXTENDS Integers, Sequences

CONSTANTS
  Versions,      \* protocol versions installed here or there
  MaxAttempts    \* bound: connection attempts

ASSUME HandshakeAssumption == Versions \subseteq Nat /\ MaxAttempts \in Nat

VARIABLES
  ours, theirs,  \* the versions of the client and of the daemon it reaches
  ssh,           \* whether this target is reached over ssh
  near, far,     \* [up, down]: items on their way to and from the daemon
  bridge,        \* "run", "up done" (it only copies down), "end"
  why,           \* ssh's last word once it ended early: "", "lost", "no bridge"
  server,        \* "hello", "commit", "serving", "closed"
  said,          \* the daemon's verdict, "waiting" before it
  client,        \* "start", "reply", "commit", "version" or an outcome
  attempt

vars == <<ours, theirs, ssh, near, far, bridge, why, server, said, client, attempt>>
versions == <<ours, theirs, ssh, attempt>>

\* The commit follows the hello and the accept since v9, the daemon's version
\* follows its reject since v8.
SendsCommit(v) == v >= 9
SaysVersion(v) == v >= 8

Empty == [up |-> <<>>, down |-> <<>>]
Item(kind, v) == [kind |-> kind, v |-> v]

Outcomes == {"accepted", "rejected", "failed", "hopeless"}

-----------------------------------------------------------------------------
Init ==
  /\ ours \in Versions /\ theirs \in Versions /\ ssh \in BOOLEAN
  /\ near = Empty /\ far = Empty
  /\ bridge = "run" /\ why = ""
  /\ server = "hello" /\ said = "waiting" /\ client = "start"
  /\ attempt = 0

-----------------------------------------------------------------------------
(* The client.                                                             *)

\* hello_message.
Hello(v) ==
  <<Item("hello", v)>> \o (IF SendsCommit(v) THEN <<Item("commit", v)>> ELSE <<>>)

SendHello ==
  /\ client = "start"
  /\ client' = "reply"
  /\ IF ssh THEN near' = [near EXCEPT !.up = @ \o Hello(ours)] /\ UNCHANGED far
            ELSE far' = [far EXCEPT !.up = @ \o Hello(ours)] /\ UNCHANGED near
  /\ UNCHANGED <<versions, bridge, why, server, said>>

\* What the client can read next, and whether its stream has ended.
Incoming == IF ssh THEN near.down ELSE far.down
Ended == IF ssh THEN bridge = "end" ELSE server = "closed"

TakeIncoming ==
  IF ssh THEN near' = [near EXCEPT !.down = Tail(@)] /\ UNCHANGED far
         ELSE far' = [far EXCEPT !.down = Tail(@)] /\ UNCHANGED near

\* client_handshake: the verdict byte, then what the version sends after it.
ReadVerdict ==
  /\ client = "reply" /\ Incoming # <<>>
  /\ TakeIncoming
  /\ \/ /\ Head(Incoming).kind = "accept"
        /\ client' = IF SendsCommit(ours) THEN "commit" ELSE "accepted"
     \/ /\ Head(Incoming).kind = "reject"
        /\ client' = IF SaysVersion(ours) THEN "version" ELSE "rejected"
  /\ UNCHANGED <<versions, bridge, why, server, said>>

\* read_commit, read_daemon_version.
ReadRest ==
  /\ client \in {"commit", "version"} /\ Incoming # <<>>
  /\ TakeIncoming
  /\ client' = IF client = "commit" THEN "accepted" ELSE "rejected"
  /\ UNCHANGED <<versions, bridge, why, server, said>>

\* A failure is final only when ssh says that the remote install has no
\* bridge; ssh may not have exited in time to say so.
Failures == {"failed"} \cup (IF ssh /\ why = "no bridge" THEN {"hopeless"} ELSE {})

\* The end of the stream: a rejecting daemon older than v8 does not say its
\* version, so there it still is a reject.
StreamEnds ==
  /\ client \in {"reply", "commit", "version"} /\ Incoming = <<>> /\ Ended
  /\ client' \in (IF client = "version" THEN {"rejected"} ELSE Failures)
  /\ UNCHANGED <<versions, near, far, bridge, why, server, said>>

\* HANDSHAKE_TIMEOUT, at any time before the verdict: the daemon may not have
\* reached its accept loop.
TimesOut ==
  /\ client \in {"reply", "commit", "version"}
  /\ client' \in Failures
  /\ UNCHANGED <<versions, near, far, bridge, why, server, said>>

-----------------------------------------------------------------------------
(* The daemon: server_handshake.                                           *)

Say(verdict, items) ==
  /\ said' = verdict
  /\ far' = [up |-> Tail(far.up), down |-> far.down \o items]

\* Mutant of ReadHello: a daemon that serves clients of older versions too.
ReadHelloLenient ==
  /\ server = "hello" /\ far.up # <<>>
  /\ IF Head(far.up).v <= theirs
     THEN IF SendsCommit(theirs)
          THEN /\ server' = "commit" /\ UNCHANGED said
               /\ far' = [far EXCEPT !.up = Tail(@)]
          ELSE Say("accept", <<Item("accept", 0)>>) /\ server' = "serving"
     ELSE /\ Say("reject", <<Item("reject", 0)>> \o
                   (IF SaysVersion(theirs) THEN <<Item("version", theirs)>> ELSE <<>>))
          /\ server' = "closed"
  /\ UNCHANGED <<versions, near, bridge, why, client>>

ReadHello ==
  /\ server = "hello" /\ far.up # <<>>
  /\ IF Head(far.up).v = theirs
     THEN IF SendsCommit(theirs)
          THEN /\ server' = "commit" /\ UNCHANGED said
               /\ far' = [far EXCEPT !.up = Tail(@)]
          ELSE Say("accept", <<Item("accept", 0)>>) /\ server' = "serving"
     ELSE /\ Say("reject", <<Item("reject", 0)>> \o
                   (IF SaysVersion(theirs) THEN <<Item("version", theirs)>> ELSE <<>>))
          /\ server' = "closed"
  /\ UNCHANGED <<versions, near, bridge, why, client>>

\* Mutant of ReadCommit: the accept is not followed by a commit.
ReadCommitBare ==
  /\ server = "commit" /\ far.up # <<>>
  /\ Say("accept", <<Item("accept", 0)>>)
  /\ server' = "serving"
  /\ UNCHANGED <<versions, near, bridge, why, client>>

\* The client's commit is read only once its version matched.
ReadCommit ==
  /\ server = "commit" /\ far.up # <<>>
  /\ Say("accept", <<Item("accept", 0), Item("commit", theirs)>>)
  /\ server' = "serving"
  /\ UNCHANGED <<versions, near, bridge, why, client>>

\* The client, or the bridge in front of it, is gone: read_exact fails.
Hangup == IF ssh THEN bridge # "run" ELSE client \in Outcomes \ {"accepted"}

ServerGivesUp ==
  /\ server \in {"hello", "commit"} /\ far.up = <<>> /\ Hangup
  /\ server' = "closed"
  /\ UNCHANGED <<versions, near, far, bridge, why, said, client>>

-----------------------------------------------------------------------------
(* The bridge: `relay`, and the ssh around it.                             *)

CopyUp ==
  /\ ssh /\ bridge = "run" /\ near.up # <<>> /\ server # "closed"
  /\ near' = [near EXCEPT !.up = Tail(@)]
  /\ far' = [far EXCEPT !.up = Append(@, Head(near.up))]
  /\ UNCHANGED <<versions, bridge, why, server, said, client>>

\* Mutant of UpEnds: the bridge ends with its upward copy.
UpEndsAll ==
  /\ ssh /\ bridge = "run"
  /\ \/ near.up # <<>> /\ server = "closed"
     \/ near.up = <<>> /\ client \in Outcomes \ {"accepted"}
  /\ bridge' = "end"
  /\ UNCHANGED <<versions, near, far, why, server, said, client>>

\* The client closed, or the daemon did and a write to it fails: what the
\* daemon still sends is delivered before the bridge ends.
UpEnds ==
  /\ ssh /\ bridge = "run"
  /\ \/ near.up # <<>> /\ server = "closed"
     \/ near.up = <<>> /\ client \in Outcomes \ {"accepted"}
  /\ bridge' = "up done"
  /\ UNCHANGED <<versions, near, far, why, server, said, client>>

CopyDown ==
  /\ ssh /\ bridge # "end" /\ far.down # <<>>
  /\ far' = [far EXCEPT !.down = Tail(@)]
  /\ near' = [near EXCEPT !.down = Append(@, Head(far.down))]
  /\ UNCHANGED <<versions, bridge, why, server, said, client>>

\* End of stream, or the reset of a daemon that closed with the commit unread:
\* both come after everything it sent.
BridgeEnds ==
  /\ ssh /\ bridge # "end" /\ far.down = <<>> /\ server = "closed"
  /\ bridge' = "end"
  /\ UNCHANGED <<versions, near, far, why, server, said, client>>

\* ssh ends early: the network, a refused key, or a remote teiryod that does
\* not know the command, in which case nothing has reached a daemon.
SshEnds(word) ==
  /\ ssh /\ bridge # "end" /\ client \notin Outcomes
  /\ word = "no bridge" => server = "hello" /\ far = Empty /\ near.down = <<>>
  /\ bridge' = "end" /\ why' = word
  /\ near' = [near EXCEPT !.down = <<>>]
  /\ UNCHANGED <<versions, far, server, said, client>>

-----------------------------------------------------------------------------
(* reconnect_loop: an attempt that failed is repeated, against whichever   *)
(* daemon is there by then; a reject and a missing bridge end it.          *)

\* incompatible_message: only the user can replace a daemon of another version.
WorthRetrying == client \notin {"rejected", "hopeless"}

Retry ==
  /\ client \in Outcomes \ {"accepted"} /\ WorthRetrying
  /\ attempt < MaxAttempts
  /\ attempt' = attempt + 1
  /\ theirs' \in Versions
  /\ near' = Empty /\ far' = Empty /\ bridge' = "run" /\ why' = ""
  /\ server' = "hello" /\ said' = "waiting" /\ client' = "start"
  /\ UNCHANGED <<ours, ssh>>

Next ==
  \/ SendHello \/ ReadVerdict \/ ReadRest \/ StreamEnds \/ TimesOut
  \/ ReadHello \/ ReadCommit \/ ServerGivesUp
  \/ CopyUp \/ UpEnds \/ CopyDown \/ BridgeEnds
  \/ \E word \in {"lost", "no bridge"} : SshEnds(word)
  \/ Retry

Steps ==
  \/ SendHello \/ ReadVerdict \/ ReadRest \/ StreamEnds \/ ReadHello \/ ReadCommit
  \/ CopyUp \/ UpEnds \/ CopyDown \/ BridgeEnds

\* Both processes and the bridge keep running; nothing makes a timeout, an
\* early end of ssh or a retry happen.
Spec == Init /\ [][Next]_vars /\ WF_vars(Steps)

-----------------------------------------------------------------------------
(* Properties.                                                             *)

\* Two sides never disagree: the handshake of the code implements Verdict,
\* over a socket and through the bridge, whatever is lost on the way.
Promise == INSTANCE Verdict WITH daemon <- said,
             client <- IF client \in Outcomes THEN client ELSE "waiting"

\* Only a client of the daemon's own version is ever served, and a client
\* that takes itself to be connected is being served (handshake.rs
\* `server_handshake`, client.rs `connect_ssh`).
ImplementsVerdict == Promise!Spec

\* "the reject must reach it all the same" (handshake.rs): unless ssh ended
\* early, a client that waits for a reject never finds its stream at its end,
\* which would make the reject a failure worth retrying, although the daemon
\* closes with the commit unread and the bridge's upward copy fails on it.
RejectNotLost ==
  said = "reject" /\ why # "lost" /\ client = "reply"
    => ~(Incoming = <<>> /\ Ended)

\* A connection attempt that nothing disturbs ends: no side waits for bytes
\* that the other does not send, at any pair of versions.
AttemptEnds == [](client = "start" => <>(client \in Outcomes))
=============================================================================
