----------------------------- MODULE MCHandshake -----------------------------
(***************************************************************************)
(* The current version, the one before the commit and the one before the   *)
(* version in a reject.                                                    *)
(***************************************************************************)
EXTENDS Handshake

MCVersions == {7, 8, 9}
=============================================================================
