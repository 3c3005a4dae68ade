--------------------------- MODULE SettingsEditor ---------------------------
(***************************************************************************)
(* The settings overlay's proposals (crates/teiryo/src/app.rs              *)
(* edit_settings, clear_setting) from what the daemon shows of its config  *)
(* (teiryod config.rs Config::view), for the global interval and one       *)
(* provider.                                                               *)
(***************************************************************************)
EXTENDS Integers, Sequences, FiniteSetsExt

DEFAULT_POLL_INTERVAL  == 180
MIN_POLL_INTERVAL_SECS == 10

NoSetting == 0
NoEdit    == [edit |-> "none"]

SettingsRows == {"global", "enabled", "interval"}

\* Config::view: what is set, and what is in effect.
ConfigView(config) ==
  LET global == IF config.global = NoSetting THEN DEFAULT_POLL_INTERVAL
                ELSE config.global
  IN  [global |-> global, default |-> DEFAULT_POLL_INTERVAL,
       enabled |-> config.enabled, override |-> config.override,
       effective |-> IF config.override = NoSetting THEN global
                     ELSE config.override]

INTERVAL_RUNGS == <<10, 15, 30, 60, 120, 300, 600, 900, 1800, 3600>>
Rungs          == {INTERVAL_RUNGS[i] : i \in DOMAIN INTERVAL_RUNGS}
FirstRung      == INTERVAL_RUNGS[1]
LastRung       == INTERVAL_RUNGS[Len(INTERVAL_RUNGS)]

Rung(i) ==
  INTERVAL_RUNGS[Min({Max({i, 1}), Len(INTERVAL_RUNGS)})]

AtOrAfter(current) == {i \in DOMAIN INTERVAL_RUNGS : INTERVAL_RUNGS[i] >= current}

\* Mutant of StepInterval: a value between two rungs is taken for the upper one.
StepIntervalSnapping(current, delta) ==
  IF AtOrAfter(current) = {} THEN LastRung ELSE Rung(Min(AtOrAfter(current)) + delta)

\* Between rungs, up goes to the next one above and down to the one below.
StepInterval(current, delta) ==
  LET i == Min(AtOrAfter(current))
  IN  IF AtOrAfter(current) = {} THEN LastRung
      ELSE IF INTERVAL_RUNGS[i] = current THEN Rung(i + delta)
      ELSE IF delta > 0 THEN Rung(i)
      ELSE Rung(i - 1)

EditSettings(view, row, delta) ==
  CASE row = "global"   -> [edit |-> "global", secs |-> StepInterval(view.global, delta)]
    [] row = "interval" -> [edit |-> "interval",
                            secs |-> StepInterval(view.effective, delta)]
    [] row = "enabled"  -> [edit |-> "enabled", enabled |-> ~view.enabled]

\* The enabled flag has nothing to fall back to.
ClearSetting(row) ==
  IF row = "enabled" THEN NoEdit ELSE [edit |-> row, secs |-> NoSetting]

\* validate_edit.
ValidEdit(edit) ==
  edit.edit = "enabled" \/ edit.secs = NoSetting \/ edit.secs >= MIN_POLL_INTERVAL_SECS

\* apply_edit, and the load that follows it.
Applied(config, edit) ==
  CASE edit.edit = "global"   -> [config EXCEPT !.global = edit.secs]
    [] edit.edit = "interval" -> [config EXCEPT !.override = edit.secs]
    [] edit.edit = "enabled"  -> [config EXCEPT !.enabled = edit.enabled]
    [] OTHER                  -> config

=============================================================================
