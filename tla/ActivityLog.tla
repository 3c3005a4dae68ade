----------------------------- MODULE ActivityLog -----------------------------
(***************************************************************************)
(* The rest of the dashboard's view state (crates/teiryo/src/app.rs): the  *)
(* Activity tab's cursor, its Details pane and their scrolling, the Health *)
(* tab's scrolling, and the overlays with the settings editor, together    *)
(* with what the renderer writes back into the state on every frame        *)
(* (ui/mod.rs `render`, ui/detail.rs).                                     *)
(*                                                                         *)
(* Polls are numbered as they land; the log a fetch returns is the newest  *)
(* `Limit` of them, newest first.  A screen is as many rows as the pane    *)
(* shows, and columns work as rows do and are left out.  Handlers await    *)
(* their one fetch before the next event is taken, so a key and the fetch  *)
(* it causes are one step here.                                            *)
(***************************************************************************)
EXTENDS Integers, Sequences, SequencesExt, FiniteSetsExt

CONSTANTS
  Limit,        \* RECENT_POLL_LIMIT
  Screen,       \* rows of the log that fit
  Page,         \* DETAIL_PAGE
  LongPolls,    \* polls whose details overrun the Details pane by a row
  HealthRows,   \* lines of the Health tab
  Configs,      \* how many providers the daemon's settings may list
  MaxPolls,     \* bound: polls that land
  MaxKeys       \* bound: keys, clicks, resizes and pushed settings

ASSUME ActivityLogAssumption ==
  /\ {Limit, Screen, Page} \subseteq Nat \ {0}
  /\ {HealthRows, MaxPolls, MaxKeys} \subseteq Nat
  /\ Configs \subseteq Nat

VARIABLES
  polls,   \* how many have landed
  term,    \* the terminal: "wide", "narrow" (no room for two panes) or "short"
  app,
  keys

logVars == <<polls, term, app, keys>>

Clamp(x, lo, hi) == IF x < lo THEN lo ELSE IF x > hi THEN hi ELSE x
Least(x, y) == IF x < y THEN x ELSE y
Over(x) == IF x > 0 THEN x ELSE 0     \* saturating subtraction

Log(n) == [i \in 1 .. Least(n, Limit) |-> n + 1 - i]

-----------------------------------------------------------------------------
(* The cursor is kept by poll id; rows count from 0, -1 is no row.         *)

ActivityIndex(a) ==
  IF a.cursor = 0 \/ a.log = <<>> THEN -1
  ELSE IF Contains(a.log, a.cursor)
       THEN (CHOOSE i \in DOMAIN a.log : a.log[i] = a.cursor) - 1
       ELSE Least(a.cursorIndex, Len(a.log) - 1)

SelectActivity(a, row) ==
  IF a.log = <<>> THEN a
  ELSE LET index == Least(row, Len(a.log) - 1)
       IN  [a EXCEPT !.cursor = a.log[index + 1], !.cursorIndex = index,
                     !.follow = TRUE,
                     !.detailsScroll = IF index = ActivityIndex(a) THEN @ ELSE 0]

MoveActivityCursor(a, d) ==
  SelectActivity(a, IF ActivityIndex(a) = -1 THEN 0 ELSE Over(ActivityIndex(a) + d))

ToggleDetails(a) ==
  LET b == IF ActivityIndex(a) = -1 THEN SelectActivity(a, 0) ELSE a
  IN  [b EXCEPT !.details = ~@ /\ ActivityIndex(b) # -1, !.detailsScroll = 0]

ScrollRows(a, d) == [a EXCEPT !.scroll = Clamp(@ + d, 0, a.scrollMax)]

SetDetailBounds(a, rows) == [a EXCEPT !.scrollMax = rows, !.scroll = Least(@, rows)]

SetDetailsBounds(a, rows) ==
  [a EXCEPT !.detailsMax = rows, !.detailsScroll = Least(@, rows)]

SetTab(a, tab) ==
  [a EXCEPT !.detail = tab, !.scroll = 0, !.scrollMax = 0, !.visible = TRUE]

DetailFocused(a) == a.focus = "detail" /\ a.visible

-----------------------------------------------------------------------------
(* The renderer.                                                           *)

Shown(a, t) == a.visible /\ t # "short"

DetailsDrawn(a, t) ==
  Shown(a, t) /\ a.detail = "activity" /\ a.details /\ ActivityIndex(a) # -1

\* The log gives way to its details on a narrow terminal.
ListDrawn(a, t) ==
  /\ Shown(a, t) /\ a.detail = "activity" /\ a.log # <<>>
  /\ DetailsDrawn(a, t) => t = "wide"

\* Mutant of Follow: one row short of the bottom edge.
FollowShort(a) ==
  LET i == ActivityIndex(a)
  IN  IF ~a.follow \/ i = -1 THEN a
      ELSE IF i < a.scroll THEN [a EXCEPT !.scroll = i]
      ELSE IF i > a.scroll + Screen THEN [a EXCEPT !.scroll = i + 1 - Screen]
      ELSE a

\* Bring a cursor that moved back into view: just inside whichever edge it
\* left by.
Follow(a) ==
  LET i == ActivityIndex(a)
  IN  IF ~a.follow \/ i = -1 THEN a
      ELSE IF i < a.scroll THEN [a EXCEPT !.scroll = i]
      ELSE IF i >= a.scroll + Screen THEN [a EXCEPT !.scroll = i + 1 - Screen]
      ELSE a

RenderActivity(a, t) ==
  IF a.log = <<>> THEN SetDetailBounds(a, 0)
  ELSE LET list == IF ListDrawn(a, t)
                   THEN SetDetailBounds(Follow(a), Over(Len(a.log) - Screen)) ELSE a
           done == [list EXCEPT !.follow = FALSE]
           poll == a.log[ActivityIndex(a) + 1]
       IN  IF DetailsDrawn(a, t)
           THEN SetDetailsBounds(done, IF poll \in LongPolls THEN 1 ELSE 0)
           ELSE done

Render(a, t) ==
  IF ~Shown(a, t) THEN [a EXCEPT !.focus = "list"]
  ELSE CASE a.detail = "trend" -> SetDetailBounds(a, 0)
         [] a.detail = "activity" -> RenderActivity(a, t)
         [] OTHER -> SetDetailBounds(a, Over(HealthRows - Screen))

-----------------------------------------------------------------------------
(* The settings overlay.                                                   *)

\* settings_rows: the global interval, then two rows per provider; none until
\* the settings have arrived.
SettingsRows(a) == IF a.config = -1 THEN 0 ELSE 1 + 2 * a.config

\* settings_row: the row under the cursor, from 0; -1 for none.
SettingsRow(a) ==
  IF SettingsRows(a) = 0 THEN -1 ELSE Least(a.settingsCursor, SettingsRows(a) - 1)

MoveSettingsCursor(a, d) ==
  IF SettingsRows(a) = 0 THEN a
  ELSE [a EXCEPT !.settingsCursor = Clamp(@ + d, 0, SettingsRows(a) - 1)]

-----------------------------------------------------------------------------
LogInit ==
  /\ polls = 0
  /\ term \in {"wide", "narrow", "short"}
  /\ app = [overlay |-> "none", detail |-> "trend", visible |-> TRUE,
            focus |-> "list", log |-> <<>>, cursor |-> 0, cursorIndex |-> 0,
            follow |-> FALSE, details |-> FALSE, scroll |-> 0, scrollMax |-> 0,
            detailsScroll |-> 0, detailsMax |-> 0, config |-> -1,
            settingsCursor |-> 0]
  /\ keys = 0

\* Every event ends with a frame.
Handle(next) ==
  /\ keys < MaxKeys /\ keys' = keys + 1
  /\ app' = Render(next, term)
  /\ UNCHANGED <<polls, term>>

\* ReloadDetail on the Activity tab; the request may fail.
Fetched(a, ok) ==
  IF ok /\ a.detail = "activity" THEN [a EXCEPT !.log = Log(polls)] ELSE a

Dashboard == app.overlay = "none"

-----------------------------------------------------------------------------
(* Keys on the dashboard.                                                  *)

CursorKey(d) ==
  /\ Dashboard /\ DetailFocused(app) /\ app.detail = "activity"
  /\ Handle(MoveActivityCursor(app, d))

PageKey(d) ==
  /\ Dashboard
  /\ Handle(IF app.detail = "activity" THEN MoveActivityCursor(app, d * Page)
            ELSE ScrollRows(app, d * Page))

\* Home also takes the chart back to the present: the tab is fetched again if
\* the chart was panned (reset_detail_scroll).  The pan is TrendPane's, so `ok`
\* says that it was and that the fetch succeeded.
EndKey(last, ok) ==
  /\ Dashboard /\ DetailFocused(app) /\ app.detail = "activity"
  /\ Handle(IF last THEN SelectActivity(app, Limit)
            ELSE Fetched(SelectActivity(app, 0), ok))

EnterKey ==
  /\ Dashboard /\ DetailFocused(app) /\ app.detail = "activity"
  /\ Handle(ToggleDetails(app))

EscKey ==
  /\ Dashboard
  /\ Handle(CASE app.details /\ app.detail = "activity" -> [app EXCEPT !.details = FALSE]
              [] OTHER -> IF app.focus = "detail" THEN [app EXCEPT !.focus = "list"]
                          ELSE [app EXCEPT !.visible = FALSE])

TabKey(tab, ok) == Dashboard /\ Handle(Fetched(SetTab(app, tab), ok))

FocusKey(pane, ok) ==
  /\ Dashboard
  /\ Handle(LET a == [app EXCEPT !.focus = pane, !.visible = @ \/ pane = "detail"]
            IN  IF app.visible THEN a ELSE Fetched(a, ok))

ShowKey(ok) ==
  /\ Dashboard
  /\ Handle(IF app.visible THEN [app EXCEPT !.visible = FALSE, !.focus = "list"]
            ELSE Fetched([app EXCEPT !.visible = TRUE], ok))

OverlayKey(o) ==
  /\ Dashboard
  /\ \E c \in Configs \cup {app.config} :
       Handle(IF o = "settings"
              THEN [app EXCEPT !.overlay = o, !.settingsCursor = 0, !.config = c]
              ELSE [app EXCEPT !.overlay = o])

-----------------------------------------------------------------------------
(* Keys on an overlay.                                                     *)

\* Any key closes the help, any but `y` the confirmation, and Esc, `q` or `s`
\* the settings.  `y` stops the daemon and ends the TUI.
CloseKey == ~Dashboard /\ Handle([app EXCEPT !.overlay = "none"])

SettingsMoveKey(d) ==
  /\ app.overlay = "settings"
  /\ Handle(MoveSettingsCursor(app, d))

\* `+`, `-`, Enter and Backspace edit the row, `r` reloads; the reply carries
\* the resulting settings, and an edit never changes which rows there are.
ReloadKey ==
  /\ app.overlay = "settings"
  /\ \E c \in Configs : Handle([app EXCEPT !.config = c])

-----------------------------------------------------------------------------
(* The mouse.                                                              *)

Clickable == Dashboard /\ Shown(app, term)

WheelLog(d) ==
  /\ Clickable /\ app.detail # "trend"
  /\ Handle(ScrollRows([app EXCEPT !.focus = "detail"], d))

WheelDetails(d) ==
  /\ Clickable /\ DetailsDrawn(app, term)
  /\ Handle([app EXCEPT !.focus = "detail",
                        !.detailsScroll = Clamp(@ + d, 0, app.detailsMax)])

WheelQuotas == Dashboard /\ Handle([app EXCEPT !.focus = "list"])

\* click_activity: a row selects it, the selected row toggles its details.
ClickRow(row) ==
  /\ Clickable /\ ListDrawn(app, term)
  /\ LET index == app.scroll + row
         a == [app EXCEPT !.focus = "detail"]
     IN  Handle(IF index >= Len(app.log) THEN a
                ELSE IF index = ActivityIndex(a) THEN ToggleDetails(a)
                ELSE [SelectActivity(a, index) EXCEPT !.follow = FALSE])

Resize ==
  /\ keys < MaxKeys /\ keys' = keys + 1
  /\ term' \in {"wide", "narrow", "short"} \ {term}
  /\ app' = Render(app, term')
  /\ UNCHANGED polls

-----------------------------------------------------------------------------
(* What the daemon pushes, on or under an overlay.                         *)

\* A poll lands; the update makes the event loop reload the pane.
PollLands(ok) ==
  /\ polls < MaxPolls /\ polls' = polls + 1
  /\ app' = Render(IF ok /\ app.detail = "activity"
                   THEN [app EXCEPT !.log = Log(polls')] ELSE app, term)
  /\ UNCHANGED <<term, keys>>

\* Somebody else edits config.toml: a provider named only there comes or goes.
ConfigPushed == \E c \in Configs : Handle([app EXCEPT !.config = c])

-----------------------------------------------------------------------------
Dirs == {-1, 1}

CursorMoves ==
  \/ \E d \in Dirs : CursorKey(d) \/ (app.detail = "activity" /\ PageKey(d))
  \/ \E last, ok \in BOOLEAN : EndKey(last, ok)

Press ==
  \/ CursorMoves
  \/ \E d \in Dirs : (app.detail # "activity" /\ PageKey(d)) \/ SettingsMoveKey(d)
  \/ EnterKey \/ EscKey \/ CloseKey \/ ReloadKey
  \/ \E ok \in BOOLEAN :
       \/ \E tab \in {"trend", "activity", "health"} : TabKey(tab, ok)
       \/ \E pane \in {"list", "detail"} : FocusKey(pane, ok)
       \/ ShowKey(ok)
  \/ \E o \in {"help", "confirm", "settings"} : OverlayKey(o)

Point ==
  \/ \E d \in Dirs : WheelLog(d) \/ WheelDetails(d)
  \/ WheelQuotas
  \/ \E row \in 0 .. Screen - 1 : ClickRow(row)

LogNext ==
  \/ Press \/ Point \/ Resize \/ ConfigPushed
  \/ \E ok \in BOOLEAN : PollLands(ok)

LogSpec == LogInit /\ [][LogNext]_logVars

-----------------------------------------------------------------------------
(* Properties.                                                             *)

InView(a) == ActivityIndex(a) \in a.scroll .. a.scroll + Screen - 1

\* A key that moves the Activity cursor leaves it on screen (ui/detail.rs
\* `render_activity`), wherever the wheel had taken the view, however many
\* polls have landed above it and whatever the pane measured on other tabs.
\* An empty log has no cursor to move, and what a fetch then brings has none.
CursorShownAfterKey ==
  [][CursorMoves /\ app.log # <<>> /\ ListDrawn(app', term') => InView(app')]_logVars

\* "the cursor stays at that position rather than vanishing" (app.rs,
\* `activity_cursor_index`): a poll that falls off the end of the log leaves
\* the cursor where it was last shown.
CursorKeepsPlace ==
  [][(\E ok \in BOOLEAN : PollLands(ok)) /\ app.cursor # 0
     /\ Contains(app.log, app.cursor) /\ ~Contains(app'.log, app.cursor)
       => ActivityIndex(app') >= ActivityIndex(app)]_logVars

=============================================================================
