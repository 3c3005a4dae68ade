----------------------------- MODULE MCRecording -----------------------------
(***************************************************************************)
(* Small instances of Recording for TLC.                                   *)
(***************************************************************************)
EXTENDS Recording

MCSpan == [w \in Windows |-> 3]

=============================================================================
