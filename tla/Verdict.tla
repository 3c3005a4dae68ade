------------------------------- MODULE Verdict -------------------------------
(***************************************************************************)
(* What the connection handshake promises (crates/teiryo-core/src/protocol *)
(* handshake.rs): the daemon alone decides, by exact equality of the       *)
(* protocol versions; a client learns that decision or none; and a client  *)
(* that learned it does not try again, while one that did not may.         *)
(***************************************************************************)
CONSTANT Versions

VARIABLES ours, theirs, daemon, client

vars == <<ours, theirs, daemon, client>>

Init ==
  /\ ours \in Versions /\ theirs \in Versions
  /\ daemon = "waiting" /\ client = "waiting"

Decide ==
  /\ daemon = "waiting"
  /\ daemon' = IF ours = theirs THEN "accept" ELSE "reject"
  /\ UNCHANGED <<ours, theirs, client>>

Learn ==
  /\ client = "waiting"
  /\ \/ daemon = "accept" /\ client' = "accepted"
     \/ daemon = "reject" /\ client' = "rejected"
  /\ UNCHANGED <<ours, theirs, daemon>>

\* The connection, or the install behind it, fails the client.
GiveUp ==
  /\ client = "waiting"
  /\ client' \in {"failed", "hopeless"}
  /\ UNCHANGED <<ours, theirs, daemon>>

\* A new attempt may meet another daemon.
Retry ==
  /\ client = "failed"
  /\ client' = "waiting" /\ daemon' = "waiting"
  /\ theirs' \in Versions
  /\ UNCHANGED ours

Next == Decide \/ Learn \/ GiveUp \/ Retry

Spec == Init /\ [][Next]_vars
=============================================================================
