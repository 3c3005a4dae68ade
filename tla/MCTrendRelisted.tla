-------------------------- MODULE MCTrendRelisted --------------------------
(***************************************************************************)
(* A weekly window that leaves the list and comes back.                    *)
(***************************************************************************)
EXTENDS TrendPane

MCStart == <<[account |-> "b", windows |-> <<"5h", "7d">>, resets |-> {"5h", "7d"}]>>
MCLayouts == {MCStart, <<[account |-> "b", windows |-> <<"5h">>, resets |-> {"5h"}]>>}
MCSessions == {"5h"}
MCHistory == {0, 4}
MCSpan == <<1, 2, 3, 4>>

\* The steps that matter to the cursor here; every behaviour is one of Spec.
Relisted ==
  \/ Tick \/ Relist \/ Poll("b") \/ ConfigLoaded
  \/ SplitKey \/ MoveKey(1) \/ StepKey(1)
  \/ RefreshStatus \/ StartReload \/ Answered \/ Fails

SpecRelisted == Init /\ [][Relisted]_vars
=============================================================================
