---------------------------- MODULE Calculations ----------------------------
(***************************************************************************)
(* The program's pure calculations, each asked of every input within the   *)
(* bounds: a state is one question, and the invariants say what the        *)
(* answers have in common.                                                 *)
(***************************************************************************)
EXTENDS Charts, QuotaRow, UsageParser, HistoryQuery, SettingsEditor

CONSTANTS
  Rates,      \* quanta burnt per RateTicks ticks
  RateTicks,
  Ticks,      \* the readings of a steady series: at 0 .. Ticks
  MaxMissing, \* how many of them were not polled
  WeekSpan,   \* the span of the window of the series
  RECENT_SPAN,       \* RECENT_SPAN_HOURS: how much history the rows read
  RECENT_MAX_POINTS, \* and how many points of a window
  Usages,     \* of a window
  Starts      \* when a window is observed to restart

ASSUME CalculationsAssumption ==
  /\ {RateTicks, WeekSpan} \subseteq Nat \ {0}
  /\ {RECENT_SPAN, RECENT_MAX_POINTS} \subseteq Nat
  /\ Ticks \in Nat /\ Ticks >= MIN_SAMPLE
  /\ MaxMissing \in Nat /\ MaxMissing < GapTolerance(1)
  /\ Rates \cup Usages \cup Starts \subseteq Nat

VARIABLE asked

vars == <<asked>>

Topics == {"steady", "series", "warnings", "boundaries", "payload", "reply",
           "history", "chart", "page", "bars", "hours", "burn", "edit"}

\* What is to be asked about.
To(topic) == [about |-> "nothing", topic |-> topic]

Init == asked \in {To(topic) : topic \in Topics}

-----------------------------------------------------------------------------
(* Rates.                                                                  *)

\* A quota burnt at a steady rate and reported in whole quanta.
SteadyReadings(s) ==
  {[ts |-> t, reset |-> WeekSpan,
    used |-> s.quantum * ((s.rate * t + s.phase) \div RateTicks)] :
     t \in (0 .. Ticks) \ s.missing}

SteadyWindow(s) ==
  [start |-> 0, reset |-> WeekSpan, uncertainty |-> 0, used |-> 0]

AskSteady ==
  /\ asked = To("steady")
  /\ \E rate \in Rates, phase \in 0 .. RateTicks - 1, quantum \in {1, 5, 10},
        missing \in UNION {kSubset(k, 1 .. Ticks - 1) : k \in 0 .. MaxMissing} :
       asked' = [about |-> "steady", rate |-> rate, phase |-> phase,
                 quantum |-> quantum, missing |-> missing]

SteadyRate(s) ==
  EstimateRate(SteadyWindow(s), SteadyReadings(s), GapTolerance(1), Ticks)

\* A quota that is burnt at one rate is read as burning at that rate, however
\* its readings are rounded: the true rate lies within the interval, and the
\* lookback stops widening only because the interval is readable or the
\* series exhausted, never because older readings seem to disagree with
\* newer ones (estimate_rate's disjoint-interval test and fit's rounding
\* bound).
SteadyRateMeasured ==
  asked.about = "steady" =>
    LET rate == SteadyRate(asked)
        true == [n |-> asked.quantum * asked.rate, d |-> RateTicks]
    IN  /\ rate # NoRate
        /\ ~Less(true, Low(rate)) /\ ~Less(High(rate), true)
        /\ rate.from = 0 \/ IsPrecise(rate, WeekSpan)

-----------------------------------------------------------------------------
(* Series.                                                                 *)

\* What a client makes of a stored reading: usage that has no limit to be
\* measured against is no utilization.
PointOf(row) ==
  [ts |-> row.ts, used |-> IF row.limited THEN row.used ELSE None, reset |-> row.reset]

PointsOf(rows) == {PointOf(r) : r \in rows}

\* The page the rows measure from, fetched after the poll at `polled` for all
\* windows at once and sorted into them (refresh_recent, set_recent).
RecentQuery(polled) ==
  [since |-> polled - RECENT_SPAN, until |-> Now, window |-> AnyWindow,
   max_points |-> RECENT_MAX_POINTS]

RowPoints(s, polled) ==
  PointsOf(OfWindow(History(s.stored, RecentQuery(polled), polled), s.window))

\* The rate on the row of the window in progress, from the page it has.
RowRate(s, page, now) ==
  EstimateRate(s.current, page, GapTolerance(s.interval), now)

\* The page a chart is drawn from, and how it is drawn (detail_query, derive).
TrendQuery(s) ==
  [since |-> s.until - s.range.duration, until |-> s.until, window |-> s.window,
   max_points |-> s.range.max_points]

Drawn(s) ==
  [span |-> s.span, current |-> s.current, gap |-> ChartGap(s.range, s.interval),
   points |-> PointsOf(History(s.stored, TrendQuery(s), s.until))]

\* Two days of polls with a hole, of a window that may restart, silently or by
\* publishing another reset, and whose limit was once not reported.
SeriesTimes == {0, 2, 7, 8}
ResetTimes  == {0, 7, 8}    \* where another reset may be published, or none
SeriesSpan  == 20
CurrentWindows ==
  {NoWindow} \cup {[start |-> start, reset |-> 20, uncertainty |-> 0,
                    used |-> 30] : start \in {0, 3}}

\* Ranges that hold every reading, at the rows' tolerance and at a wider one,
\* that are reduced to two readings, and that begin within the hole.
SeriesRanges == [duration : {8, 20}, max_points : {4}]
                  \cup {[duration |-> 12, max_points |-> 2],
                        [duration |-> 4, max_points |-> 4]}

AskSeries ==
  /\ asked = To("series")
  /\ \E used \in [SeriesTimes -> {0, 30}], unlimited \in {None, 7},
        reset \in [ResetTimes -> {None, 20, 30}] \cup [ResetTimes -> {20, 21}],
        current \in CurrentWindows, range \in SeriesRanges :
       asked' = [about |-> "series", span |-> SeriesSpan, current |-> current,
                 window |-> "5h", interval |-> 1, range |-> range,
                 until |-> Max(SeriesTimes),
                 stored |-> {[window |-> "5h", ts |-> t, used |-> used[t],
                              limited |-> t # unlimited,
                              reset |-> reset[Max(ResetTimes \cap 0 .. t)]] :
                               t \in SeriesTimes}
                            \cup {[window |-> "7d", ts |-> t, used |-> t,
                                   limited |-> TRUE, reset |-> 20] :
                                    t \in SeriesTimes}]

SeriesOf(chart) == RateSeries(chart.span, chart.current, chart.points, chart.gap)

\* An axis that holds every reading.
WholeAxis(points) == [left |-> 0, secs |-> Max({0} \cup {p.ts : p \in points})]

VisibleIn(chart) ==
  Visible(WholeAxis(chart.points), chart.span, chart.current, chart.points, chart.gap)

\* The lines of the charts, under the names of the title's figures.
LinesOf(visible) ==
  [now |-> UsagePaceStack(visible).now, avg |-> UsagePaceStack(visible).average,
   at_reset |-> ForecastStack(visible).at_reset, afford |-> ForecastStack(visible).afford]

\* A reading of the window in progress, with a value.
OfCurrent(s, p) ==
  /\ s.current # NoWindow /\ InSameWindow(p, s.current)
  /\ p.ts >= s.current.start /\ p.used # None

\* As far as the inputs of row and chart are the same at a reading: their pages
\* have the same readings of the window in progress up to it, and none of these
\* is followed by a hole that only one of the two tolerances bridges.
SameInputs(s, page, chart, at) ==
  LET run == Matching(s.current, page, at)
  IN  /\ run = Matching(s.current, chart.points, at)
      /\ \A i \in 1 .. Len(run) - 1 :
           run[i + 1].ts - run[i].ts \notin GapTolerance(s.interval) + 1 .. chart.gap

\* The chart, its title and the row agree as far as their inputs do.  The row
\* reads two days at the account's own tolerance, a chart its range, reduced,
\* at a tolerance widened to the bucket (metrics.rs, the comment on
\* rate_series).  A reading of the window in progress has a point, measured
\* against that window, observed start included; where the inputs are the same
\* its rate is the one the row showed from that poll on, until the row dropped
\* it as too old; the newest reading of the range is on both pages, whatever
\* was reduced; and the title over a reading has a figure exactly where a chart
\* draws that line (rate_series, derived_line, reduce_series, readout).
SeriesAgreesWithRow ==
  asked.about = "series" =>
    LET chart  == Drawn(asked)
        series == SeriesOf(chart)
        lines  == LinesOf(VisibleIn(chart))
        gap    == GapTolerance(asked.interval)
        range  == Selected(asked.stored, TrendQuery(asked), asked.until)
    IN  /\ \A p \in chart.points : OfCurrent(asked, p) =>
             LET page == RowPoints(asked, p.ts)
             IN  \E point \in series :
                   /\ point.ts = p.ts
                   /\ SameInputs(asked, page, chart, p.ts) =>
                        \A late \in {0, gap, gap + 1} :
                          RowRate(asked, page, p.ts + late)
                            = IF late <= gap THEN point.rate ELSE NoRate
        /\ \A r \in range : (\A q \in range : q.ts <= r.ts) =>
             PointOf(r) \in chart.points \cap RowPoints(asked, r.ts)
        /\ \A point \in series :
             Readout(series, chart.points, point.ts)
               = {"usage"} \cup {name \in DOMAIN lines : point.ts \in UNION lines[name]}

Near(reset, x) == reset # None /\ reset - x \in -RESET_TOLERANCE .. RESET_TOLERANCE

\* The windows come one after the other: between two readings of one there is
\* no reading of another.
Consecutive(chart) ==
  \A x \in {p.reset : p \in chart.points} \cup ({chart.current.reset} \ {None}) :
    \A p, r, s \in chart.points :
      /\ p.ts <= r.ts /\ r.ts <= s.ts /\ r.reset # None
      /\ Near(p.reset, x) /\ Near(s.reset, x)
      => Near(r.reset, x)

\* Two readings with none of a set in between.
Joined(times, a, b) == a < b /\ \A c \in times : c <= a \/ c >= b

ReadingAt(points, ts) == CHOOSE p \in points : p.ts = ts

\* The readings of a stretch that have a value, and that publish a reset.
Valued(points, stretch)    == {t \in stretch : ReadingAt(points, t).used # None}
Published(points, stretch) == {t \in stretch : ReadingAt(points, t).reset # None}

\* The lines of a rate bridge nothing they know nothing about.  Where the rate
\* or the forecast is drawn from one reading with a value to the next, or to a
\* reading without one that is drawn on the way, there is no hole longer than
\* the chart's tolerance, no other window and no fall in usage beyond
\* FALL_EPSILON between the two, as long as windows follow one another (the
\* walk back in estimate_rate, rate_series, segments).  A window's line on the
\* all-windows chart passes over no reading that has no value, leaves out no
\* other, and joins nothing across a change of the published reset, also where
\* readings between the two publish none (render_all_windows).
LinesBridgeNothing ==
  asked.about = "series" =>
    LET chart   == Drawn(asked)
        points  == chart.points
        visible == VisibleIn(chart)
        all     == AllWindowsLine(points)
    IN  /\ Consecutive(chart) =>
             \A stretch \in UsagePaceStack(visible).now
                              \cup ForecastStack(visible).at_reset :
               \A a, b \in stretch : Joined(Valued(points, stretch), a, b) =>
                 LET p == ReadingAt(points, a)
                     q == ReadingAt(points, b)
                 IN  /\ b - a <= chart.gap
                     /\ q.reset - p.reset \in -2 * RESET_TOLERANCE .. 2 * RESET_TOLERANCE
                     /\ None \in {p.used, q.used} \/ q.used >= p.used - FALL_EPSILON
        /\ UNION all = {p.ts : p \in {r \in points : r.used # None}}
        /\ \A stretch \in all : \A a, b \in stretch :
             /\ Joined(stretch, a, b) => Joined({p.ts : p \in points}, a, b)
             /\ {a, b} \subseteq Published(points, stretch)
                  /\ Joined(Published(points, stretch), a, b)
                  => ReadingAt(points, b).reset - ReadingAt(points, a).reset
                       \in -RESET_TOLERANCE .. RESET_TOLERANCE

\* The stronger form, which render_all_windows states of its lines ("each line
\* broken at its rollovers so no reset is drawn as a descent", charts.rs:1014-
\* 1016) and does not keep: a window that restarts without moving its reset is
\* a rollover too, and the line breaks only where the reset moved.
ResetNotDrawnAsDescent ==
  asked.about = "series" =>
    LET points == Drawn(asked).points
    IN  \A stretch \in AllWindowsLine(points) : \A a, b \in stretch :
          Joined(stretch, a, b) =>
            ReadingAt(points, b).used >= ReadingAt(points, a).used - FALL_EPSILON

-----------------------------------------------------------------------------
(* Warnings.                                                               *)

AskWarnings ==
  /\ asked = To("warnings")
  /\ \E used \in Usages, now \in 0 .. WeekSpan + 1,
        start \in Starts \cup {None}, width \in {0, 2, 4},
        low, more, most \in {0, 20, 70} :
       asked' = [about |-> "warnings", now |-> now,
                 view |-> [reset |-> WeekSpan, span |-> WeekSpan, used |-> used,
                           not_before |-> start,
                           not_after |-> IF start = None THEN None
                                         ELSE start + width],
                 rate |-> IF low + more + most = 210 THEN NoRate
                          ELSE [NoRate EXCEPT !.low = low, !.mid = low + more,
                                  !.high = low + more + most, !.d = 3]]

\* The cells of the fields shown, with the separators between them.
Cells(shown) ==
  LET upto[n \in 0 .. Len(shown)] ==
        IF n = 0 THEN INDENT - SEPARATOR ELSE upto[n - 1] + SEPARATOR + shown[n].cells
  IN  upto[Len(shown)]

\* A row keeps to its place on a list of two under one header.  The fields
\* shown are the first ones and fit the pane (derived_line); a row that has
\* room for the pace tells it once, on one line or the other (window_lines,
\* gauge_line); and no row is pushed off the list.
RowFits(q, width, height) ==
  LET w      == EffectiveWindow(q.view, q.now)
      fields == DerivedFields(w, q.rate, q.now)
      lines  == RenderQuotas(1, <<fields, fields>>, width, height)
      shown  == lines[1].derived
      below  == {i \in DOMAIN lines : lines[i].derived # <<>>}
      paces  == (IF lines[1].gauge.pace THEN 1 ELSE 0)
                + Cardinality({i \in DOMAIN shown : shown[i].name = "pace"})
  IN  /\ 1 + Len(lines) + Cardinality(below) <= height
      /\ width >= 52 => lines[1].gauge.cells <= width
      /\ paces <= 1
      /\ Pace(w, q.now) # NoRatio /\ width >= 67 => paces = 1
      /\ shown # <<>> => Cells(shown) <= width
      /\ \A i \in DOMAIN shown : shown[i].name = fields[i].name

\* The fields of one row do not contradict each other.  `cap in` warns when,
\* and but for the rounding to a second only when, the pace it is told from is
\* faster than what the row says is affordable (eta_to_cap, affordable_pace);
\* told from a rate it warns exactly when the fast edge of the chart's cone
\* meets the cap before the reset; the ends of each band are in order; and a
\* start that is not marked as an estimate is at most a fortieth of the window
\* away from where the window really began (start_is_uncertain); and the row
\* fits its place, on wide panes and on narrow ones.
WarningsAgree ==
  asked.about = "warnings" =>
    LET now    == asked.now
        rate   == asked.rate
        w      == EffectiveWindow(asked.view, now)
        fields == DerivedFields(w, rate, now)
        caps   == {f \in ToSet(fields) : f.name \in {"cap", "at_cap"}}
        left   == w.reset - now
    IN  w.used # None =>
        /\ Cardinality(caps) <= 1
        /\ w.used < FULL => \A cap \in caps :
             LET told == IF cap.from = "rate" THEN High(rate) ELSE Pace(w, now)
             IN  /\ cap.warns => Less(AffordablePace(w, now), told)
                 /\ told.n > 0 /\ (FULL - w.used) * told.d <= (left - 1) * told.n
                      => cap.warns
        /\ rate # NoRate =>
             LET p == Project(w, rate, now)
             IN  /\ \A edge \in ProjectionCone(w, rate, now, TRUE) :
                      edge.edge = "fast" =>
                        (edge.end.ts < w.reset <=> \E cap \in caps : cap.warns)
                 /\ ~Less(p.at_reset.mid, p.at_reset.low)
                 /\ ~Less(p.at_reset.high, p.at_reset.mid)
                 /\ p.runway.mid # None => p.runway.low \in 0 .. p.runway.mid
                 /\ p.runway.high # None => p.runway.mid \in 0 .. p.runway.high
        /\ w.uncertainty > 0 /\ ~StartIsUncertain(w) =>
             \A began \in asked.view.not_before .. asked.view.not_after :
               40 * (w.start - began) \in -SpanOf(w) - 40 .. SpanOf(w) + 40
        /\ \A width \in {20, 45, 52, 67, 85}, height \in {3, 5} :
             RowFits(asked, width, height)

\* A figure without the mark of an uncertain start does not depend on where in
\* its bracket the window began (metrics.rs start_is_uncertain, dashboard.rs
\* derived_line).
UnmarkedIgnoresStart ==
  asked.about = "warnings" =>
    LET now == asked.now
        w   == EffectiveWindow(asked.view, now)
    IN  w.used \notin {None, FULL} /\ StartIsUncertain(w) =>
        \A field \in ToSet(DerivedFields(w, asked.rate, now)),
           began \in asked.view.not_before .. asked.view.not_after :
          LET moved  == [w EXCEPT !.start = began]
              figure == Figure(field, w, asked.rate, now)
              other  == Figure(field, moved, asked.rate, now)
          IN  ~field.mark /\ began <= now => figure.n * other.d = other.n * figure.d

-----------------------------------------------------------------------------
(* Boundaries.                                                             *)

\* A window that expired on schedule at `start`, and the poll that saw it.
AskBoundaries ==
  /\ asked = To("boundaries")
  /\ \E start \in Starts, late \in 0 .. 2 * RESET_TOLERANCE :
       asked' = [about |-> "boundaries",
                 window |-> [start |-> start, reset |-> start + WeekSpan,
                             uncertainty |-> 0, used |-> 0],
                 rollovers |-> {[observed_at |-> start + late,
                                 kind |-> "scheduled"]}]

\* One boundary is drawn once: the rollover that began the window in progress
\* and the start of that window are not two rules (metrics.rs, the comment in
\* boundaries).
BoundaryDrawnOnce ==
  asked.about = "boundaries" =>
    Cardinality({b \in Boundaries(asked.window, asked.rollovers, 0,
                                  asked.window.reset) :
                   b.kind # "upcoming_reset"}) = 1

-----------------------------------------------------------------------------
(* Usage payloads.                                                         *)

\* What the server may call the models; the first three are one model, whose
\* cap the fixed bucket reports when there is one.
OpusNames  == {<<"Opus">>, <<"Claude", " ", "Opus", " ", "4", ".", "5">>,
               <<"claude", "-", "opus", "-", "4", "-", "1">>}
OtherNames == {<<"Opus", " ", "Mini">>, <<"Fable">>, <<"4", ".", "5">>, <<"-">>}

Models ==
  {NoModel} \cup [id : {<<>>} \cup OpusNames, name : OpusNames \cup OtherNames]

LimitEntries(i) ==
  {[decodes |-> TRUE, kind |-> kind, model |-> model, percent |-> percent,
    resets_at |-> Unreadable] :
     kind \in {"weekly_scoped", "weekly_all"}, model \in Models,
     percent \in {Unreadable, i}}

Buckets == {Absent, [Absent EXCEPT !.carried = TRUE],
            [used |-> 0, resets_at |-> 1, carried |-> TRUE]}

AskPayload ==
  /\ asked = To("payload")
  /\ \E weekly, opus \in Buckets, first \in LimitEntries(1),
        second \in {r \in LimitEntries(2) : r.kind = "weekly_scoped"} :
       asked' = [about |-> "payload", arrived |-> TRUE, status |-> 200,
                 is_json |-> TRUE,
                 usage |-> [buckets |-> [five_hour |-> Absent,
                                         seven_day |-> weekly,
                                         seven_day_opus |-> opus,
                                         seven_day_sonnet |-> Absent],
                            limits |-> [is_array |-> TRUE,
                                        rows |-> <<first, second>>]]]

\* The same payload in replies of every kind.
AskReply ==
  /\ asked = To("reply")
  /\ \E arrived, is_json, is_array \in BOOLEAN, status \in {200, 204, 401, 429, 500},
        opus \in Buckets, row \in {r \in LimitEntries(1) : r.model.id = <<>>} :
       asked' = [about |-> "payload", arrived |-> arrived, status |-> status,
                 is_json |-> is_json,
                 usage |-> [buckets |-> [five_hour |-> Absent,
                                         seven_day |-> Absent,
                                         seven_day_opus |-> opus,
                                         seven_day_sonnet |-> Absent],
                            limits |-> [is_array |-> is_array,
                                        rows |-> <<row>>]]]

\* The payload with its readings made readable or unreadable: the bucket's,
\* then those of the rows.
Reread(p, opus, rows) ==
  [p EXCEPT
     !.usage.buckets.seven_day_opus.used = IF opus THEN 0 ELSE Unreadable,
     !.usage.limits.rows = [i \in DOMAIN @ |->
       [@[i] EXCEPT !.percent = IF rows[i] THEN i ELSE Unreadable]]]

ReadableIds(p, rows) ==
  {WindowIdOf(SlugOf(p.usage.limits.rows[i].model)) :
     i \in {j \in DOMAIN rows : rows[j] /\ NamesACap(p.usage.limits.rows[j])}}

\* A cap keeps its id however its readings come and go.  Two payloads that
\* differ only in which readings are readable never report one model's cap
\* under two ids, and only a window whose own reading is gone is reported as
\* orphaned (parser.rs `parse`, where the presence of a bucket and not its
\* reading suppresses a row; state.rs warn_on_orphaned_window_history).
CapIdentityStable ==
  asked.about = "payload" =>
    LET before == Parse(asked).windows
    IN  \A opus \in BOOLEAN,
           rows \in [DOMAIN asked.usage.limits.rows -> BOOLEAN] :
          LET after == Parse(Reread(asked, opus, rows)).windows
          IN  /\ \A w \in ToSet(before), x \in ToSet(after) :
                   /\ w.used = x.used /\ w.used > 0 => w.id = x.id
                   /\ asked.usage.buckets.seven_day_opus.carried
                        /\ w.id = <<"weekly", "opus">>
                        => x.id = w.id \/ CanonicalModel(x.scope) # <<"opus">>
              /\ OrphanedIds(before, after) \cap ReadableIds(asked, rows) = {}

\* No cap the user is charged against goes missing: a row that carries a
\* reading and names a model is reported under its id, or stands for a model
\* whose fixed bucket the payload carries; a name that merely resembles that
\* model's is a cap of its own (parser.rs same_model).  And a poll fails as
\* drift, not in silence, when the payload has nothing readable at all.
NoCapLost ==
  asked.about = "payload" =>
    LET outcome == PollOutcome(TRUE, asked)
        ids     == {w.id : w \in ToSet(outcome.windows)}
        rows    == LimitRows(asked.usage.limits)
        read    == {i \in DOMAIN rows : rows[i].percent # Unreadable
                                         /\ NamesACap(rows[i])}
        named(i) == IF rows[i].model.id # <<>> THEN rows[i].model.id
                    ELSE rows[i].model.name
        usable  == asked.arrived /\ asked.status = 200 /\ asked.is_json
    IN  /\ usable => \A i \in read :
             \/ WindowIdOf(SlugOf(rows[i].model)) \in ids
             \/ /\ named(i) \in OpusNames
                /\ asked.usage.buckets.seven_day_opus.carried
        /\ usable /\ asked.usage.buckets.seven_day_opus.used # Unreadable
             => <<"weekly", "opus">> \in ids
        /\ usable /\ ids = {} => outcome.outcome = "schema_drift"
        /\ ids # {} <=> outcome.outcome = "success"

-----------------------------------------------------------------------------
(* Pages of history.                                                       *)

PageTimes == 0 .. 4
NotRead   == 0

AskHistory ==
  /\ asked = To("history")
  /\ \E used \in [PageTimes -> NotRead .. 3], since \in {0, 1},
        until \in {1, 3, Now}, max_points \in {NoBudget, 0, 2, 5},
        unreadable \in {Now, 2}, window \in {AnyWindow, "5h"} :
       asked' = [about |-> "history", now |-> Max(PageTimes),
                 rows |-> {[window |-> "5h", ts |-> t, used |-> used[t],
                            readable |-> t # unreadable] :
                             t \in {u \in PageTimes : used[u] # NotRead}}
                          \cup {[window |-> "7d", ts |-> t, used |-> t,
                                 readable |-> TRUE] : t \in PageTimes},
                 query |-> [since |-> since, until |-> until, window |-> window,
                            max_points |-> max_points]]

\* A page stays within its budget and loses nothing that matters: of every
\* window with a reading in the interval asked for, each such reading has a
\* kept one within a bucket's width that is at least as high or is the newest,
\* and the newest is always kept; and nothing else is on the page.  `earliest`
\* bounds the series, not the page (storage.rs history, downsample,
\* reduce_series).
PageIsFaithful ==
  asked.about = "history" =>
    LET now    == asked.now
        page   == HistoryPage(asked.rows, {}, asked.query, now)
        budget == Budget(asked.query.max_points)
        span   == Until(asked.query, now) - asked.query.since
        wanted == Selected(asked.rows, asked.query, now)
    IN  page.ok =>
        /\ page.snapshots \subseteq wanted
        /\ \A w \in {r.window : r \in wanted} :
             LET all  == {r \in wanted : r.window = w}
                 kept == OfWindow(page.snapshots, w)
                 newest(r) == \A q \in all : q.ts <= r.ts
             IN  /\ span > 0 => Cardinality(kept) <= budget
                 /\ \E r \in kept : newest(r)
                 /\ \A r \in all :
                      /\ page.earliest <= r.ts
                      /\ \E k \in kept :
                           /\ Max({k.ts - r.ts, r.ts - k.ts}) * budget <= Max({span, 0})
                           /\ k.used >= r.used \/ newest(k)

-----------------------------------------------------------------------------
(* Presses.                                                                *)

\* A page of a range of five cells of eight ticks, or of seven that are not
\* whole, of a window whose reset is near enough to be drawn, or too far.
AskChart ==
  /\ asked = To("chart")
  /\ \E times \in SUBSET {0, 7, 8, 15, 16, 25, 36, 40}, reset \in {None, 45, 50, 70},
        gap \in {8, 12}, late \in {0, 3}, live \in BOOLEAN, width \in {5, 7} :
       asked' = [about |-> "chart", times |-> times, gap |-> gap, live |-> live,
                 width |-> width, now |-> 40 + late,
                 trend |-> [until |-> 40, rollovers |-> {},
                            range |-> [duration |-> 40, max_points |-> 10]],
                 view |-> [reset |-> reset, span |-> 30, used |-> 0,
                           not_before |-> None, not_after |-> None]]

\* The readings, of one window and of rising usage.
ChartReadings(s) == {[ts |-> t, used |-> t, reset |-> 99] : t \in s.times}

\* A page that holds rollovers, of a window whose start was observed or not.
AskPage ==
  /\ asked = To("page")
  /\ \E kinds \in [{10, 11, 15, 30} -> {"none", "scheduled", "early", "unannounced"}],
        reset \in {None, 45, 70}, started \in {None, 9, 15}, live \in BOOLEAN,
        unit \in {"percent", "count"}, limit \in {None, 0, 20} :
       asked' = [about |-> "page", now |-> 40, live |-> live,
                 unit |-> unit, limit |-> limit, readings |-> {[used |-> 30], [used |-> 2]},
                 trend |-> [until |-> 40,
                            rollovers |-> {[observed_at |-> t, kind |-> kinds[t]] :
                              t \in {u \in DOMAIN kinds : kinds[u] # "none"}},
                            range |-> [duration |-> 40, max_points |-> 10]],
                 view |-> [reset |-> reset, span |-> 30, used |-> 0,
                           not_before |-> started, not_after |-> started]]

AskBars ==
  /\ asked = To("bars")
  /\ \E ended \in 0 .. 4, running \in BOOLEAN, plot \in {2, 3, 5, 6, 9, 14, 30} :
       asked' = [about |-> "bars",
                 bars |-> OutcomeBars(1 .. ended, running, plot)]

AskHours ==
  /\ asked = To("hours")
  /\ \E plot \in {HOURS * k + j : k \in 2 .. 7, j \in {-1, 0, 5}} :
       asked' = [about |-> "bars", bars |-> BurnBars(plot)]

\* A press picks what is drawn under it.  A column whose coverage cell shows a
\* reading picks a reading of that cell, but for the rounding of cells that are
\* no whole number of ticks (instant_at, nearest_reading, coverage_line); no
\* column within a stretch that a rate is measured over is shown as a hole,
\* whatever else chose the gap (coverage_line); rules are on the axis, and a
\* rollover of the page is one rule, or one mark, or began the window in
\* progress; no reading is above the axis (y_bound, usage_chart); and each bar
\* is pressed by the cells it is drawn in and by no other, the newest bar
\* included (bar_at, outcome_bars, burn_bars).
PressPicksWhatIsDrawn ==
  /\ asked.about = "chart" =>
       LET axis  == TimeAxis(asked.trend, asked.view, asked.live, asked.now)
           width == asked.width
           round == IF axis.secs % width = 0 THEN 0 ELSE 1
           cell(c, slack) == CellStart(axis, width, c) - slack
                               .. CellStart(axis, width, c + 1) - 1 + slack
           gap  == Max({asked.gap, ChartGap(asked.trend.range, 1)})
           covers(c) == Coverage(axis, width, asked.times, gap, asked.now, c)
       IN  /\ \A c \in 0 .. width - 1 :
                /\ covers(c) = "reading" =>
                     NearestReading(asked.times, InstantAt(axis, width, c)) \in cell(c, round)
                /\ covers(c) = "hole" =>
                     \A p \in RateSeries(99, NoWindow, ChartReadings(asked), gap) :
                       p.rate # NoRate => ~(cell(c, 0) \subseteq p.rate.from .. p.rate.to)
           /\ \A rule \in RuleSeries(asked.trend, asked.view, asked.live, asked.now) :
                OnAxis(axis, rule.at)
  /\ asked.about = "page" =>
       LET chart == UsageChart(asked.trend, asked.view, asked.live, asked.now)
           w     == EffectiveWindow(asked.view, asked.now)
           rules(r) == {b \in chart.rules :
                          b.at = r.observed_at /\ b.kind \in {"rollover", "surprise"}}
           began(r) == w # NoWindow /\ r.kind # "unannounced" /\
                         r.observed_at - w.start \in -RESET_TOLERANCE .. RESET_TOLERANCE
           ways(r) == Cardinality(rules(r))
                        + (IF r.observed_at \in chart.drops THEN 1 ELSE 0)
                        + (IF began(r) THEN 1 ELSE 0)
       IN  /\ \A r \in asked.trend.rollovers : ways(r) = 1
           /\ \A r \in asked.readings :
                r.used <= YBound(asked.readings, asked.unit, asked.limit)
  /\ asked.about = "bars" =>
       LET bars == asked.bars
       IN  /\ \A i \in 0 .. bars.shown - 1 : BarCells(bars, i) # {}
           /\ \A c \in 0 .. bars.plot - 1 :
                BarAt(bars, c) = None
                  <=> \A i \in 0 .. bars.shown - 1 : c \notin BarCells(bars, i)
           /\ \A i \in 0 .. bars.shown - 1 : \A c \in BarCells(bars, i) :
                BarAt(bars, c) = i

-----------------------------------------------------------------------------
(* Burn by hour.                                                           *)

BurnTicks == 1 .. 4
NoRestart == 0

\* What was used in each tick, when the window restarted, whether the provider
\* published it, and which ticks were polled at their end.
AskBurn ==
  /\ asked = To("burn")
  /\ \E use \in [BurnTicks -> {0, 2}], restart \in {NoRestart} \cup BurnTicks,
        published \in BOOLEAN, polled \in SUBSET (0 .. 4) :
       asked' = [about |-> "burn", use |-> use, restart |-> restart,
                 published |-> published, polled |-> polled]

UsedIn(s, ticks) == SumFunctionOnSet(s.use, ticks \cap DOMAIN s.use)

BurnReadings(s) ==
  {[ts |-> t,
    used  |-> IF s.restart = NoRestart \/ t < s.restart THEN UsedIn(s, 1 .. t)
              ELSE UsedIn(s, s.restart .. t),
    reset |-> IF s.restart = NoRestart \/ t < s.restart \/ ~s.published THEN 9 ELSE 19] :
     t \in s.polled}

\* Burn is shown where it happened: no hour is credited with more than was
\* used in it and within the hour before its readings, whatever the restarts
\* and the missed polls; and with every poll made and no restart nothing is
\* missing (burn_bars).
BurnPlaced ==
  asked.about = "burn" =>
    LET burn  == Burn(BurnReadings(asked))
        ticks == DOMAIN asked.use
    IN  /\ \A h \in DOMAIN burn :
             burn[h] <= UsedIn(asked, {t \in ticks : \E u \in t .. t + HOUR - 1 :
                                                       HourOf(u) = h})
        /\ asked.polled = {0} \cup ticks /\ asked.restart = NoRestart =>
             SumFunction(burn) = UsedIn(asked, ticks)

-----------------------------------------------------------------------------
(* The settings editor.                                                    *)

AskEdit ==
  /\ asked = To("edit")
  /\ \E global, override \in {NoSetting, 10, 45, 180, 3600, 5000},
        enabled \in BOOLEAN, row \in SettingsRows, key \in {"up", "down", "clear"} :
       asked' = [about |-> "edit", row |-> row, key |-> key,
                 config |-> [global |-> global, override |-> override,
                             enabled |-> enabled]]

\* An edit does what its key says.  What the overlay proposes the daemon
\* accepts; the interval the daemon then polls at is the next rung the way the
\* key asked, or the end of the ladder where there is none; clearing an override
\* never leaves it in force; and a row's key changes no other row's own setting
\* (step_interval, edit_settings, clear_setting, Config::view).
EditsDoWhatTheySay ==
  asked.about = "edit" =>
    LET before == ConfigView(asked.config)
        edit   == IF asked.key = "clear" THEN ClearSetting(asked.row)
                  ELSE EditSettings(before, asked.row, IF asked.key = "up" THEN 1 ELSE -1)
        after  == ConfigView(Applied(asked.config, edit))
        moved(from, to) ==
          CASE asked.key = "up" ->
                 IF from >= LastRung THEN to = LastRung
                 ELSE to > from /\ Rungs \cap (from + 1 .. to) = {to}
            [] asked.key = "down" ->
                 IF from = FirstRung THEN to = from
                 ELSE to < from /\ Rungs \cap (to .. from - 1) = {to}
            [] OTHER -> TRUE
    IN  /\ edit # NoEdit => ValidEdit(edit)
        /\ CASE asked.row = "global" ->
                  /\ moved(before.global, after.global)
                  /\ asked.key = "clear" => after.global = before.default
                  /\ after.override = before.override /\ after.enabled = before.enabled
             [] asked.row = "interval" ->
                  /\ moved(before.effective, after.effective)
                  /\ asked.key = "clear" => after.effective = after.global
                  /\ after.global = before.global /\ after.enabled = before.enabled
             [] OTHER ->
                  /\ after.enabled = (before.enabled = (asked.key = "clear"))
                  /\ after.effective = before.effective

Next ==
  \/ AskSteady \/ AskSeries \/ AskWarnings \/ AskBoundaries
  \/ AskPayload \/ AskReply \/ AskHistory
  \/ AskChart \/ AskPage \/ AskBars \/ AskHours \/ AskBurn \/ AskEdit

Spec == Init /\ [][Next]_vars

=============================================================================
