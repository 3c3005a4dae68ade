---------------------------- MODULE MCActivityLog ----------------------------
(***************************************************************************)
(* A log one row taller than the screen, so that a cursor can leave the    *)
(* view at either edge and a poll can fall off the end.                    *)
(***************************************************************************)
EXTENDS ActivityLog

MCLongPolls == {1, 3}
MCConfigs == {1, 2}
=============================================================================
