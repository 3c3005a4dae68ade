----------------------------- MODULE MCPollTask -----------------------------
(***************************************************************************)
(* Small instances of PollTask for TLC.                                    *)
(***************************************************************************)
EXTENDS PollTask
=============================================================================
