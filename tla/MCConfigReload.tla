--------------------------- MODULE MCConfigReload ---------------------------
(***************************************************************************)
(* Instance of ConfigReload: an empty file, a slow cadence, one that is    *)
(* out of range, and one that is no TOML; edits that the limits reject,    *)
(* that repair the file that was out of range, and that leave it invalid.  *)
(***************************************************************************)
EXTENDS ConfigReload

Slow    == [Empty EXCEPT !.global = 60, !.unknown = TRUE]
TooFast == [Empty EXCEPT !.provider = 1]

MCTexts == {Empty, Slow, TooFast, Broken}

MCEdits ==
  {[key |-> "global", value |-> 1], [key |-> "provider", value |-> 60],
   [key |-> "enabled", value |-> 0]}

Repairs == {[key |-> "global", value |-> 30], [key |-> "enabled", value |-> 0]}

=============================================================================
