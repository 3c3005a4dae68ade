---------------------------- MODULE MCLiveUpdates ----------------------------
(***************************************************************************)
(* Small instances of LiveUpdates for TLC.  Accounts are interchangeable.  *)
(***************************************************************************)
EXTENDS LiveUpdates, TLC

Symmetry == Permutations(Accounts)

=============================================================================
