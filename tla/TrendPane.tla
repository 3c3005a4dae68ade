------------------------------ MODULE TrendPane ------------------------------
(***************************************************************************)
(* The dashboard's quota list and its Trend tab (crates/teiryo/src/app.rs):*)
(* what is selected, how far the chart is panned back, which series are    *)
(* loaded and where the chart cursor is.                                   *)
(*                                                                         *)
(* The event loop (main.rs `drive`) handles one event at a time, but a     *)
(* handler awaits a request per step and the daemon moves on meanwhile:    *)
(* `todo` holds the steps the running handler has left.  The fields of     *)
(* `App` are one record, and each method of `App` is an operator from the  *)
(* record to the record it leaves behind.  Windows are drawn from one      *)
(* frame to the next; a page of history is the set of times at which each  *)
(* of its windows was read.                                                *)
(***************************************************************************)
EXTENDS Integers, Sequences, FiniteSets, SequencesExt, FiniteSetsExt

CONSTANTS
  StartLayout, \* what Status lists when the TUI starts
  Layouts,     \* what Status may list: sequences of [account, windows, resets]
  Sessions,    \* window ids whose span is a day or less
  Span,        \* the four time ranges, in ticks of the clock
  SlowTtl,     \* SLOW_EXTRA_TTL
  Header,      \* the "window" of an account's header row
  History,     \* when the windows were read before the TUI starts
  StartTime,   \* the clock when it starts
  MaxTime,     \* bound: the clock
  MaxChanges,  \* bound: polls that land and changes to what Status lists
  MaxDropped,  \* bound: readings of one page lost to downsampling
  MaxKeys,     \* bound: keys, clicks and resizes
  MaxPushes    \* bound: updates pushed by the daemon

ASSUME TrendPaneAssumption ==
  /\ Len(Span) = 4 /\ \A i \in 1 .. 4 : Span[i] \in Nat \ {0}
  /\ \A i \in 1 .. 3 : Span[i] < Span[i + 1]
  /\ {SlowTtl, StartTime, MaxTime, MaxChanges, MaxDropped, MaxKeys,
      MaxPushes} \subseteq Nat
  /\ StartTime <= MaxTime
  /\ StartLayout \in Layouts
  /\ History \subseteq 0 .. StartTime

VARIABLES
  now,
  stored,      \* the daemon's database: when each window was read
  layout,      \* what the daemon would list now
  short,       \* the terminal is too short for the detail pane
  app,
  todo,
  changes,
  events

vars == <<now, stored, layout, short, app, todo, changes, events>>
daemon == <<now, stored, layout, changes>>

-----------------------------------------------------------------------------
(* The enums of app.rs and their cyclic or clamped shifts.                 *)

Tabs  == <<"trend", "activity", "health">>
Views == <<"usage", "forecast", "all", "history">>
Purposes == {"sibling", "all", "outcomes", "burn"}

Cycle(seq, x, d) ==
  LET i == CHOOSE j \in DOMAIN seq : seq[j] = x
  IN  seq[((i - 1 + d) % Len(seq)) + 1]

Clamp(x, lo, hi) == IF x < lo THEN lo ELSE IF x > hi THEN hi ELSE x

ShiftRange(r, d) == Clamp(r + d, 1, Len(Span))

None == <<>>

\* Steps of a handler; the other kinds are queries, named by their purpose.
Refresh == <<[kind |-> "status"]>>
Reload  == <<[kind |-> "reload"]>>

-----------------------------------------------------------------------------
(* The list: rows, and a selection kept by identity.                       *)

Rows == [list \in Layouts \cup {<<>>} |->
  FoldLeft(LAMBDA rows, s : rows \o <<[account |-> s.account, window |-> Header]>>
             \o [i \in 1 .. Len(s.windows) |->
                   [account |-> s.account, window |-> s.windows[i]]],
           <<>>, list)]

RowsOf(a) == Rows[a.statuses]

\* selected_index, from 1; 0 when the selection does not resolve.
SelectedIndex(a) ==
  LET at == {i \in DOMAIN RowsOf(a) : RowsOf(a)[i] = a.selection}
  IN  IF at = {} THEN 0 ELSE Min(at)

\* selection_at, `None` past the end.
RowAt(a, i) == IF i \in DOMAIN RowsOf(a) THEN RowsOf(a)[i] ELSE None

FirstWindowRow(a) ==
  LET at == {i \in DOMAIN RowsOf(a) : RowsOf(a)[i].window # Header}
  IN  IF at = {} THEN 1 ELSE Min(at)

SetStatuses(a, list) ==
  LET b == [a EXCEPT !.statuses = list]
      len == Len(RowsOf(b))
      row == CASE ~a.userMoved -> FirstWindowRow(b)
               [] a.userMoved /\ SelectedIndex(b) # 0 -> SelectedIndex(b)
               [] OTHER -> Clamp(SelectedIndex(a), 1, len)
  IN  [b EXCEPT !.selection = RowAt(b, row)]

Select(a, i) ==
  LET target == RowAt(a, i)
      b == IF target = a.selection THEN a
           ELSE [a EXCEPT !.pan = 0, !.inspect = None]
  IN  [b EXCEPT !.selection = target, !.userMoved = TRUE]

MoveSelection(a, d) ==
  IF RowsOf(a) = <<>> THEN a
  ELSE Select(a, Clamp(Max({SelectedIndex(a), 1}) + d, 1, Len(RowsOf(a))))

\* selected_window: the selected row when it is a window's.
OnWindow(a) == SelectedIndex(a) # 0 /\ a.selection.window # Header

-----------------------------------------------------------------------------
(* What is loaded, and what of it may be drawn.                            *)

IfHolds(page, key) ==
  IF page # None /\ key # None /\ page.account = key.account /\ page.window = key.window
  THEN page ELSE None

WindowKey(a) == IF OnWindow(a) THEN a.selection ELSE None

\* charted_trend.
Charted(a) == IfHolds(a.trend, WindowKey(a))

\* sibling_window: the first window of the other family on the same account
\* that publishes a reset; `resets` holds the ones that do.
SiblingIn(s, w) ==
  LET others == {i \in DOMAIN s.windows :
                   /\ s.windows[i] \in s.resets
                   /\ (s.windows[i] \in Sessions) # (w \in Sessions)}
  IN  IF others = {} THEN None
      ELSE [account |-> s.account, window |-> s.windows[Min(others)]]

Sibling(a) ==
  IF ~OnWindow(a) THEN None
  ELSE SiblingIn(a.statuses[CHOOSE i \in DOMAIN a.statuses :
                              a.statuses[i].account = a.selection.account],
                 a.selection.window)

ExtraTarget(a, purpose) == IF purpose = "sibling" THEN Sibling(a) ELSE WindowKey(a)

Extra(a, purpose) == IfHolds(a.extras[purpose], ExtraTarget(a, purpose))

\* charted_series: the one series the current view draws w's readings from.
FirstOf(own, sibling, w) ==
  IF own # None /\ own.window = w THEN own
  ELSE IF sibling # None /\ sibling.window = w THEN sibling ELSE None

ChartedSeries(a, w) ==
  CASE a.view = "all" -> Extra(a, "all")
    [] a.view \in {"usage", "forecast"} -> FirstOf(Charted(a), Extra(a, "sibling"), w)
    [] OTHER -> None

TimesIn(series, w) ==
  IF series = None \/ w \notin DOMAIN series.times THEN {} ELSE series.times[w]

ReadingTimes(a, w) == TimesIn(ChartedSeries(a, w), w)

Abs(x) == IF x < 0 THEN -x ELSE x

\* min_by_key returns the first of equally near readings, the older one.
Nearest(times, ts) ==
  CHOOSE t \in times : \A u \in times \ {t} :
    Abs(t - ts) < Abs(u - ts) \/ (Abs(t - ts) = Abs(u - ts) /\ t < u)

Reading(w, ts) == [window |-> w, ts |-> ts]
Bar == Reading(Header, 0)
IsReading(i) == i \notin {None, Bar}

NearestReading(w, times, ts) ==
  IF times = {} THEN None ELSE Reading(w, Nearest(times, ts))

\* Keep the chart cursor on a reading the charts still draw.
Snap(a, times) ==
  [a EXCEPT !.inspect = IF times # {} /\ @.ts >= Min(times)
                        THEN Reading(@.window, Nearest(times, @.ts)) ELSE None]

ResnapInspect(a) ==
  IF IsReading(a.inspect) THEN Snap(a, ReadingTimes(a, a.inspect.window)) ELSE a

\* Mutant of SetExtra: the cursor is left on a reading of the previous page.
SetExtraOnly(a, purpose, page) == [a EXCEPT !.extras[purpose] = page]

SetExtra(a, purpose, page) == ResnapInspect([a EXCEPT !.extras[purpose] = page])

-----------------------------------------------------------------------------
(* Panning.  `pan` is measured back from the present.                      *)

\* max_trend_pan_secs: brings the oldest stored reading to the left edge.
PanLimit(t, range) ==
  IF t = None \/ t.earliest = -1 THEN 0
  ELSE Max({t.fetchedAt - t.earliest - Span[range], 0})

MaxPan(a) == PanLimit(Charted(a), a.range)

AtOldest(a) == MaxPan(a) > 0 /\ a.pan >= MaxPan(a)

\* Mutant of Repanned: the pan is not clamped to the new series.
RepannedAnyhow(a, pinned, max) ==
  ResnapInspect([a EXCEPT !.pan = IF pinned THEN max ELSE @])

Repanned(a, pinned, max) ==
  ResnapInspect([a EXCEPT !.pan = IF pinned THEN max ELSE Clamp(@, 0, max)])

\* A view at the left stop is pinned to it, any other pan is clamped.
Install(a, pinned) == Repanned(a, pinned, MaxPan(a))
SetTrend(a, page) == Install([a EXCEPT !.trend = page], AtOldest(a))

\* trend_key_step_secs and trend_wheel_step_secs: at least one tick; `parts`
\* is TREND_KEY_STEPS_PER_RANGE or the columns of the plot.
PanStep(a, parts) == Max({Span[a.range] \div parts, 1})

Panned(a, d) == Clamp(a.pan - d, 0, MaxPan(a))

PanTo(a, pan) == IF pan = a.pan THEN a ELSE [a EXCEPT !.pan = pan, !.inspect = None]
PanTrend(a, d) == PanTo(a, Panned(a, d))

ResetDetailScroll(a) ==
  IF a.pan > 0 THEN [a EXCEPT !.pan = 0, !.inspect = None] ELSE a

SetTab(a, tab) == [a EXCEPT !.detail = tab, !.visible = TRUE]

SetTrendView(a, view) ==
  SetTab(IF view = a.view THEN a ELSE [a EXCEPT !.view = view, !.inspect = None],
         "trend")

DetailFocused(a) == a.focus = "detail" /\ a.visible

-----------------------------------------------------------------------------
(* What the pane asks the daemon for.                                      *)

Query(a, purpose, key, all) ==
  LET slow == purpose \in {"outcomes", "burn"}
      until == IF slow THEN now ELSE now - a.pan
  IN  [kind |-> purpose, key |-> key, all |-> all, range |-> a.range,
       until |-> until, at |-> now,
       since |-> IF slow THEN 0 ELSE until - Span[a.range],
       pinned |-> ~slow /\ a.pan > 0]

\* The month and the week of the History view are reused for a while.
Fresh(page) == page # None /\ now - page.fetchedAt < SlowTtl

Due(a, purpose) ==
  /\ ExtraTarget(a, purpose) # None
  /\ purpose \in {"outcomes", "burn"} => ~Fresh(Extra(a, purpose))

Ask(a, purpose) ==
  IF Due(a, purpose)
  THEN <<Query(a, purpose, ExtraTarget(a, purpose), purpose = "all")>> ELSE <<>>

ExtraQueries(a) ==
  CASE a.view \in {"usage", "forecast"} -> IF a.split THEN Ask(a, "sibling") ELSE <<>>
    [] a.view = "all" -> Ask(a, "all")
    [] OTHER -> Ask(a, "outcomes") \o Ask(a, "burn")

DetailQuery(a) ==
  IF a.detail # "trend" \/ ~OnWindow(a) THEN <<>>
  ELSE <<Query(a, "trend", a.selection, FALSE)>> \o ExtraQueries(a)

-----------------------------------------------------------------------------
Keys == UNION {{[account |-> s.account, window |-> s.windows[i]] :
                 i \in DOMAIN s.windows} : s \in ToSet(layout)}

Init ==
  /\ now = StartTime
  /\ layout = StartLayout
  /\ stored = [k \in Keys |-> History]
  /\ changes = 0
  /\ short = FALSE
  /\ app = [statuses |-> <<>>, selection |-> None, userMoved |-> FALSE,
            focus |-> "list", detail |-> "trend", visible |-> TRUE,
            range |-> 3, pan |-> 0, trend |-> None, view |-> "usage",
            split |-> FALSE, extras |-> [p \in Purposes |-> None],
            inspect |-> None]
  /\ todo = Refresh \o Reload
  /\ events = [keys |-> 0, pushes |-> 0]

-----------------------------------------------------------------------------
(* The daemon and the clock.  Only requests read them, so what happens     *)
(* between two events is taken to happen before the next one's request.    *)

Waiting == todo # <<>>

Tick ==
  /\ Waiting
  /\ now < MaxTime
  /\ now' = now + 1
  /\ UNCHANGED <<stored, layout, short, app, todo, changes, events>>

StoredFor(k) == IF k \in DOMAIN stored THEN stored[k] ELSE {}

\* A poll stores a reading of every window of an account.
Poll(account) ==
  LET read == {k \in Keys : k.account = account}
  IN  /\ Waiting /\ read # {}
      /\ changes < MaxChanges /\ changes' = changes + 1
      /\ \E k \in read : now \notin StoredFor(k)
      /\ stored' = [k \in DOMAIN stored \cup read |->
                      StoredFor(k) \cup (IF k \in read THEN {now} ELSE {})]
      /\ UNCHANGED <<now, layout, short, app, todo, events>>

\* Accounts and windows come and go in what Status lists.
Relist ==
  /\ Waiting
  /\ changes < MaxChanges /\ changes' = changes + 1
  /\ layout' \in Layouts \ {layout}
  /\ UNCHANGED <<now, stored, short, app, todo, events>>

-----------------------------------------------------------------------------
(* Handlers.  A key handler ends with Action::None or ReloadDetail.        *)

\* ui::render runs before the next event is taken: a pane that is hidden, or
\* does not fit, gives the focus back to the list.
Render(a, small) == IF a.visible /\ ~small THEN a ELSE [a EXCEPT !.focus = "list"]

Event(what, limit) ==
  /\ ~Waiting
  /\ events[what] < limit
  /\ events' = [events EXCEPT ![what] = @ + 1]

Act(next, steps) ==
  /\ todo' = steps
  /\ app' = IF steps = <<>> THEN Render(next, short) ELSE next
  /\ UNCHANGED <<daemon, short>>

Handle(next, steps) == Event("keys", MaxKeys) /\ Act(next, steps)

MoveKey(d) == ~DetailFocused(app) /\ Handle(MoveSelection(app, d), Reload)

EndKey(i) ==
  /\ ~DetailFocused(app)
  /\ i = 1 \/ RowsOf(app) # <<>>
  /\ Handle(Select(app, i), Reload)

PanKey(d) ==
  /\ DetailFocused(app) /\ app.detail = "trend"
  /\ Panned(app, d * PanStep(app, 8)) # app.pan
  /\ Handle(PanTrend(app, d * PanStep(app, 8)), Reload)

\* `g` anywhere in the detail pane, `G` on the chart.
PresentKey(last) ==
  /\ DetailFocused(app) /\ (last => app.detail = "trend")
  /\ Handle(ResetDetailScroll(app), IF app.pan > 0 THEN Reload ELSE <<>>)

FocusKey(pane) ==
  LET reveal == pane = "detail" /\ ~app.visible
  IN  Handle([app EXCEPT !.focus = pane, !.visible = @ \/ reveal],
             IF reveal THEN Reload ELSE <<>>)

TabKey(tab) == Handle(SetTab(app, tab), Reload)

ZoomKey(d) ==
  Handle([app EXCEPT !.range = ShiftRange(@, d), !.pan = 0, !.inspect = None], Reload)

ViewKey(d) == Handle(SetTrendView(app, Cycle(Views, app.view, d)), Reload)

SplitKey ==
  Handle(SetTab([app EXCEPT !.split = ~@, !.inspect = None], "trend"), Reload)

ShowKey ==
  Handle([app EXCEPT !.visible = ~@, !.focus = IF app.visible THEN "list" ELSE @],
         IF app.visible THEN <<>> ELSE Reload)

EscKey ==
  Handle(CASE app.inspect # None /\ app.detail = "trend" /\ app.visible
                -> [app EXCEPT !.inspect = None]
           [] OTHER -> IF app.focus = "detail" THEN [app EXCEPT !.focus = "list"]
                       ELSE [app EXCEPT !.visible = FALSE],
         <<>>)

\* toggle_inspect: out on the newest reading of the selected window, or away.
PutOut(a, times) ==
  [a EXCEPT !.inspect = IF times = {} THEN None
                        ELSE Reading(a.selection.window, Max(times))]

ToggleInspect(a) ==
  IF a.inspect # None \/ ~OnWindow(a) THEN [a EXCEPT !.inspect = None]
  ELSE PutOut(a, ReadingTimes(a, a.selection.window))

EnterKey ==
  /\ DetailFocused(app) /\ app.detail = "trend"
  /\ Handle(ToggleInspect(app), <<>>)

\* step_inspect, clamped at both ends of the series.
Stepped(a, times, beyond, d) ==
  IF a.inspect.ts \notin times \/ beyond = {} THEN a
  ELSE [a EXCEPT !.inspect.ts = IF d > 0 THEN Min(beyond) ELSE Max(beyond)]

StepAlong(a, times, d) ==
  Stepped(a, times,
          {t \in times : IF d > 0 THEN t > a.inspect.ts ELSE t < a.inspect.ts}, d)

StepInspect(a, d) ==
  IF IsReading(a.inspect) THEN StepAlong(a, ReadingTimes(a, a.inspect.window), d)
  ELSE ToggleInspect(a)

StepKey(d) ==
  /\ app.visible /\ app.detail = "trend"
  /\ Handle(StepInspect(app, d), <<>>)

-----------------------------------------------------------------------------
(* The mouse, routed by the pane drawn under the pointer.                  *)

Drawn == app.visible /\ ~short

WheelList(d) == Handle(MoveSelection([app EXCEPT !.focus = "list"], d), Reload)

WheelChart(d) ==
  /\ Drawn /\ app.detail = "trend"
  /\ LET a == [app EXCEPT !.focus = "detail"]
         by == d * PanStep(a, 4)
     IN  Handle(PanTrend(a, by), IF Panned(a, by) = a.pan THEN <<>> ELSE Reload)

\* The readings that stand behind a window id on the charts, for the pane's
\* title: a window the account no longer lists has none.
SeriesOf(a, w) ==
  IF OnWindow(a) /\ [account |-> a.selection.account, window |-> w] \in ToSet(RowsOf(a))
  THEN ChartedSeries(a, w) ELSE None

\* What charts.rs draws and records for a press: a time axis names the window
\* whose readings it picks.  The chart of all windows picks the selected one's.
Columns(a) ==
  {c \in {Charted(a)} \cup (IF a.split THEN {Extra(a, "sibling")} ELSE {}) :
     Charted(a) # None /\ c # None}

ColumnHits(a) ==
  IF \A c \in Columns(a) : Cardinality(TimesIn(c, c.window)) < 2 THEN {}
  ELSE {c.window : c \in Columns(a)}

BarHits(a) == {p \in {"outcomes", "burn"} : OnWindow(a) /\ Extra(a, p) # None}

Hits(a) ==
  CASE a.view \in {"usage", "forecast"} -> ColumnHits(a)
    [] a.view = "all" /\ Extra(a, "all") # None -> {a.selection.window}
    [] OTHER -> {}

Pick(target) ==
  Handle([app EXCEPT !.focus = "detail",
                     !.inspect = IF target = @ THEN None ELSE target], <<>>)

ClickReading(w, ts) ==
  /\ Drawn /\ app.detail = "trend"
  /\ Pick(NearestReading(w, ReadingTimes(app, w), ts))

ClickBar ==
  /\ Drawn /\ app.detail = "trend" /\ app.view = "history" /\ BarHits(app) # {}
  /\ Pick(Bar)

ClickView(view) ==
  /\ Drawn /\ app.detail = "trend"
  /\ Handle(SetTrendView([app EXCEPT !.focus = "detail"], view), Reload)

RightClick == Drawn /\ Handle([app EXCEPT !.inspect = None], <<>>)

\* Resizing the terminal only redraws.
Resize ==
  /\ Event("keys", MaxKeys)
  /\ short' = ~short
  /\ app' = Render(app, ~short)
  /\ UNCHANGED <<daemon, todo>>

-----------------------------------------------------------------------------
(* Pushed updates, and the requests a handler awaits one by one.           *)

\* NetEvent::Update and Reconnected; NetEvent::Config and an accepted edit
\* refresh the statuses alone.
Update == Event("pushes", MaxPushes) /\ Act(app, Refresh \o Reload)
ConfigLoaded == Event("pushes", MaxPushes) /\ Act(app, Refresh)

\* What is left of the handler; the last step is followed by a redraw.
Continue(next, steps) == Act(next, steps) /\ UNCHANGED events

RefreshStatus ==
  /\ Waiting /\ Head(todo).kind = "status"
  /\ Continue(SetStatuses(app, layout), Tail(todo))

\* One clock reading for the whole exchange.
StartReload ==
  /\ Waiting /\ Head(todo).kind = "reload"
  /\ Continue(IF app.detail = "trend" /\ ~OnWindow(app)
              THEN [app EXCEPT !.trend = None] ELSE app,
              DetailQuery(app))

\* The daemon answers with its readings up to its own clock when the request
\* names no end, and leaves some of them out.  No cursor is ever on the series
\* of the History view, so its readings are not kept.
Pages(q) ==
  LET keys == {k \in DOMAIN stored : k.account = q.key.account
                                     /\ (q.all \/ k.window = q.key.window)}
      drawn == IF q.kind \in {"outcomes", "burn"} THEN {} ELSE {k.window : k \in keys}
      within == [w \in drawn |->
                   {t \in StoredFor([account |-> q.key.account, window |-> w]) :
                      t >= q.since /\ (q.pinned => t <= q.until)}]
      kept == [w \in drawn |->
                 {s \in SUBSET within[w] :
                    /\ Cardinality(within[w]) - Cardinality(s) <= MaxDropped
                    /\ s = {} => within[w] = {}}]
      all == UNION {StoredFor(k) : k \in keys}
  IN  {[account |-> q.key.account, window |-> q.key.window, range |-> q.range,
        until |-> q.until, fetchedAt |-> q.at, times |-> times,
        earliest |-> IF all = {} THEN -1 ELSE Min(all)] :
         times \in {f \in [drawn -> UNION {kept[w] : w \in drawn}] :
                      \A w \in drawn : f[w] \in kept[w]}}

Answered ==
  /\ Waiting /\ Head(todo).kind \in Purposes \cup {"trend"}
  /\ \E page \in Pages(Head(todo)) :
       Continue(IF Head(todo).kind = "trend" THEN SetTrend(app, page)
                ELSE SetExtra(app, Head(todo).kind, page),
                Tail(todo))

\* An error ends the step it hits: a reload gives up its remaining queries.
Fails ==
  /\ Waiting
  /\ Continue(app, IF Head(todo).kind = "status" THEN Tail(todo) ELSE <<>>)

-----------------------------------------------------------------------------
Dirs == {-1, 1}

Key ==
  \/ \E d \in Dirs : MoveKey(d) \/ PanKey(d) \/ ZoomKey(d) \/ ViewKey(d) \/ StepKey(d)
  \/ \E i \in {1, Len(RowsOf(app))} : EndKey(i)
  \/ \E last \in BOOLEAN : PresentKey(last)
  \/ \E pane \in {"list", "detail"} : FocusKey(pane)
  \/ \E tab \in ToSet(Tabs) : TabKey(tab)
  \/ SplitKey \/ ShowKey \/ EscKey \/ EnterKey

Mouse ==
  \/ \E d \in Dirs : WheelList(d) \/ WheelChart(d)
  \/ \E w \in Hits(app), ts \in 0 .. MaxTime : ClickReading(w, ts)
  \/ \E view \in ToSet(Views) : ClickView(view)
  \/ ClickBar \/ RightClick

Next ==
  \/ Tick \/ Relist \/ Resize \/ Update \/ ConfigLoaded
  \/ \E s \in ToSet(layout) : Poll(s.account)
  \/ Key \/ Mouse
  \/ RefreshStatus \/ StartReload \/ Answered \/ Fails

Spec == Init /\ [][Next]_vars

-----------------------------------------------------------------------------
(* Properties.                                                             *)

\* Type invariant: the ranges, tabs and views of app.rs, and a pan that is
\* never negative ("clipped at both ends").
TypeOK ==
  /\ now \in 0 .. MaxTime /\ layout \in Layouts /\ short \in BOOLEAN
  /\ app.detail \in ToSet(Tabs) /\ app.view \in ToSet(Views)
  /\ app.range \in 1 .. 4 /\ app.pan \in 0 .. MaxTime
  /\ app.focus \in {"list", "detail"} /\ app.visible \in BOOLEAN
  /\ app.inspect = None \/ app.inspect.ts \in 0 .. MaxTime

\* "Keep the chart cursor on a reading the charts still draw" (app.rs,
\* `resnap_inspect`), so that the pane's title has the numbers at it
\* (charts.rs `readout`).
CursorOnReading ==
  LET series == SeriesOf(app, app.inspect.window)
  IN  IsReading(app.inspect) /\ series # None
        => app.inspect.ts \in TimesIn(series, app.inspect.window)

\* Every page that arrives, for the selection or for its sibling and also in
\* the middle of a handler, leaves the cursor on a reading of the series under
\* it, and no key, press or failing request takes it off one: what can is a
\* new list, which nothing is snapped to (`set_statuses`).
CursorFollowsPages ==
  [][Answered \/ (CursorOnReading /\ ~RefreshStatus) => CursorOnReading']_vars

\* The chart is never panned past its oldest stored reading, whatever the
\* daemon listed and whichever window the selection fell back to
\* (`set_trend`, `pan_trend`).
PanWithinHistory == Charted(app) # None => app.pan <= MaxPan(app)

=============================================================================
