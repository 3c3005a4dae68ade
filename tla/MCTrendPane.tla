----------------------------- MODULE MCTrendPane -----------------------------
(***************************************************************************)
(* A session and a weekly window on one account, and a list in which the   *)
(* account has only one of them and another account stands first, whose    *)
(* session has not begun and publishes no reset.                           *)
(***************************************************************************)
EXTENDS TrendPane

MCStart == <<[account |-> "b", windows |-> <<"5h", "7d">>, resets |-> {"5h", "7d"}]>>
MCLayouts ==
  {MCStart,
   <<[account |-> "a", windows |-> <<"7d", "5h">>, resets |-> {"7d"}],
     [account |-> "b", windows |-> <<"5h">>, resets |-> {"5h"}]>>}
MCSessions == {"5h"}
MCHistory == {0, 4}
MCSpan == <<1, 2, 3, 4>>
=============================================================================
