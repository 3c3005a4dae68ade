------------------------------- MODULE Charts -------------------------------
(***************************************************************************)
(* What the Trend tab draws (crates/teiryo/src/ui/charts.rs, the axis and  *)
(* the rules of ui/detail.rs) and how a press on it is turned back into    *)
(* what was drawn (ChartHit and nearest_reading of app.rs).  Colours,      *)
(* labels and the y axis are left out: a line is the set of its unbroken   *)
(* stretches, a stretch the set of the readings it joins.  Columns count   *)
(* from 0 at the left edge of the plot.                                    *)
(***************************************************************************)
EXTENDS Metrics, Functions

CONSTANTS
  HOUR,   \* in ticks
  HOURS   \* of a day

ASSUME ChartsAssumption == {HOUR, HOURS} \subseteq Nat \ {0}

-----------------------------------------------------------------------------
(* The time axis.                                                          *)

\* Twice the bucket a range was downsampled into, if that is more than what
\* polling alone explains.
ChartGap(range, poll_interval) ==
  Max({GapTolerance(poll_interval), 2 * (range.duration \div range.max_points)})

\* `now`, and not the edge of a panned chart, says which window is the live one.
TrendRules(trend, view, now) ==
  Boundaries(EffectiveWindow(view, now), trend.rollovers,
             trend.until - trend.range.duration, trend.until)

\* FUTURE_LEAD_MAX is a fifth of the range.
FutureLead(rules, trend, live) ==
  LET leads == {r.at - trend.until : r \in {q \in rules : q.kind = "upcoming_reset"}}
      fits(lead) == lead > 0 /\ 5 * lead <= trend.range.duration
  IN  IF live /\ \E lead \in leads : fits(lead)
      THEN CHOOSE lead \in leads : fits(lead) ELSE 0

TimeAxis(trend, view, live, now) ==
  LET lead == FutureLead(TrendRules(trend, view, now), trend, live)
  IN  [left |-> trend.until - trend.range.duration,
       lead |-> lead, secs |-> trend.range.duration + lead]

OnAxis(axis, ts) == ts >= axis.left /\ ts <= axis.left + axis.secs

\* The upcoming reset only when the axis grew to hold it.
RuleSeries(trend, view, live, now) ==
  {r \in TrendRules(trend, view, now) :
     r.kind = "upcoming_reset" => TimeAxis(trend, view, live, now).lead > 0}

\* The top of the usage axis: the limit of the newest reading, and more when
\* the peak is above it.
YBound(readings, unit, limit) ==
  LET peak     == Max({r.used : r \in readings} \cup {0})
      headroom == (105 * peak) \div 100
  IN  CASE readings # {} /\ unit = "percent" -> Max({FULL, headroom})
        [] readings # {} /\ unit # "percent" /\ limit \notin {None, 0} ->
             Max({limit, headroom})
        [] OTHER -> Max({headroom, 1})

\* Over the rules, a drop the detector inferred is a mark at its reading.
UsageChart(trend, view, live, now) ==
  [rules |-> RuleSeries(trend, view, live, now),
   drops |-> {r.observed_at : r \in {q \in trend.rollovers : q.kind = "unannounced"}}]

-----------------------------------------------------------------------------
(* A press on a time axis.                                                 *)

\* Mutant of InstantAt: the left edge of the cell.
InstantAtEdge(axis, width, column) ==
  axis.left + (column * axis.secs) \div width

\* The middle of the cell.
InstantAt(axis, width, column) ==
  axis.left + ((2 * column + 1) * axis.secs) \div (2 * width)

\* The earlier of two that are equally near.
NearestReading(times, ts) ==
  LET distance(t) == Max({t - ts, ts - t})
  IN  CHOOSE t \in times : \A u \in times \ {t} :
        \/ distance(t) < distance(u)
        \/ distance(t) = distance(u) /\ t < u

\* Where a column of the coverage strip begins.
CellStart(axis, width, column) == axis.left + (axis.secs * column) \div width

CoveredBy(times, from, to, gap, now) ==
  LET before == {t \in times : t < from}
      after  == {t \in times : t >= to}
  IN  /\ before # {}
      /\ (IF after = {} THEN now ELSE Min(after)) - Max(before) <= gap

Coverage(axis, width, times, gap, now, column) ==
  LET from == CellStart(axis, width, column)
      to   == CellStart(axis, width, column + 1)
  IN  IF from > now THEN "future"
      ELSE IF \E t \in times : t >= from /\ t < to THEN "reading"
      ELSE IF CoveredBy(times, from, to, gap, now) THEN "covered" ELSE "hole"

-----------------------------------------------------------------------------
(* Lines.  `points` is a sequence of readings, those that satisfy `drawn`  *)
(* have a value.                                                           *)

\* Mutant of Segments: a missing value is left out of the line.
SegmentsJoined(points, drawn) ==
  {{points[i].ts : i \in {j \in DOMAIN points : drawn[j]}}}

\* A longest run of values.
Unbroken(points, drawn, a, b) ==
  /\ a <= b
  /\ \A k \in a .. b : drawn[k]
  /\ a > 1 => ~drawn[a - 1]
  /\ b < Len(points) => ~drawn[b + 1]

Segments(points, drawn) ==
  UNION {{{points[k].ts : k \in a .. b} :
            b \in {c \in DOMAIN points : Unbroken(points, drawn, a, c)}} :
           a \in DOMAIN points}

\* derive, and the points on the axis.
Visible(axis, span, current, readings, gap) ==
  ByTime({p \in RateSeries(span, current, readings, gap) : OnAxis(axis, p.ts)})

\* The two ends of the interval break where the rate does.
UsagePaceStack(visible) ==
  [now |-> Segments(visible, [i \in DOMAIN visible |-> visible[i].rate # NoRate]),
   average |-> Segments(visible,
                 [i \in DOMAIN visible |->
                    Pace(visible[i].window, visible[i].ts) # NoRatio])]

ForecastValue(point) ==
  IF point.rate = NoRate THEN NoProjection
  ELSE Project(point.window, point.rate, point.ts)

ForecastStack(visible) ==
  [at_reset |-> Segments(visible, [i \in DOMAIN visible |->
                                     ForecastValue(visible[i]) # NoProjection]),
   now      |-> Segments(visible, [i \in DOMAIN visible |->
                                     visible[i].rate # NoRate]),
   afford   |-> Segments(visible,
                  [i \in DOMAIN visible |->
                     AffordablePace(visible[i].window, visible[i].ts) # NoRatio])]

\* The figures of the pane's title while the cursor is on a reading.
PointFigures(point) ==
  {figure \in {"now", "avg", "at_reset", "afford"} :
     CASE figure = "now"      -> point.rate # NoRate
       [] figure = "avg"      -> Pace(point.window, point.ts) # NoRatio
       [] figure = "at_reset" -> ForecastValue(point) # NoProjection
       [] OTHER               -> AffordablePace(point.window, point.ts) # NoRatio}

\* `series` is the rate series of the readings; a reading that publishes no
\* reset has no point in it, but its usage stands.
Readout(series, readings, ts) ==
  IF ts \notin {r.ts : r \in readings} THEN {}
  ELSE {"usage"} \cup UNION {PointFigures(p) : p \in {q \in series : q.ts = ts}}

\* The reset last published before a reading.
PublishedBefore(run, i) ==
  LET published == {j \in 1 .. i - 1 : run[j].reset # None}
  IN  IF published = {} THEN None ELSE run[Max(published)].reset

BrokenAt(run, i) ==
  /\ PublishedBefore(run, i) # None /\ run[i].reset # None
  /\ run[i].reset - PublishedBefore(run, i)
       \notin -RESET_TOLERANCE .. RESET_TOLERANCE

\* A line on the all-windows chart is broken before the reading that shows a
\* rollover, by a missing value of its own, and at a reading without one.
AllWindowsLine(readings) ==
  LET run   == ByTime(readings)
      place == [i \in DOMAIN run |->
                  i + Cardinality({j \in 1 .. i : BrokenAt(run, j)})]
      drawn == [k \in 1 .. Len(run) + Cardinality({j \in DOMAIN run : BrokenAt(run, j)})
                  |-> \E i \in DOMAIN run : place[i] = k /\ run[i].used # None]
      at(k) == IF drawn[k] THEN run[CHOOSE i \in DOMAIN run : place[i] = k]
               ELSE [ts |-> None]
  IN  Segments([k \in DOMAIN drawn |-> at(k)], drawn)

\* Where an edge of the projection ends: at the cap, or at the reset if that
\* comes first.  Only on a live chart of a window with a rate.
ConeEdge(w, runway, at_reset, now) ==
  IF runway # None /\ now + runway < w.reset
  THEN [ts |-> now + runway, at |-> [n |-> FULL, d |-> 1]]
  ELSE [ts |-> w.reset, at |-> at_reset]

ProjectionCone(w, rate, now, live) ==
  IF ~live \/ w = NoWindow \/ rate = NoRate THEN {}
  ELSE LET p == Project(w, rate, now)
       IN  IF p = NoProjection THEN {}
           ELSE {[edge |-> "fast", end |-> ConeEdge(w, p.runway.low, p.at_reset.high, now)],
                 [edge |-> "slow", end |-> ConeEdge(w, p.runway.high, p.at_reset.low, now)],
                 [edge |-> "centre", end |-> ConeEdge(w, p.runway.mid, p.at_reset.mid, now)]}

-----------------------------------------------------------------------------
(* Bars.                                                                   *)

\* As many of the newest bars as fit; the running window's is the last.
OutcomeBars(rollovers, running, plot) ==
  LET count == Cardinality(rollovers) + (IF running THEN 1 ELSE 0)
      fit   == Max({plot \div 3, 1})
      shown == Min({fit, count})
  IN  [width |-> 2, gap |-> 1, shown |-> shown, first |-> count - shown,
       plot |-> plot]

HourOf(ts) == (ts \div HOUR) % HOURS

\* Mutant of BurnStep: a step of any length is placed.
BurnStepAnyLength(before, after) ==
  IF /\ after.used > before.used
     /\ \/ None \in {before.reset, after.reset}
        \/ after.reset - before.reset \in -RESET_TOLERANCE .. RESET_TOLERANCE
  THEN after.used - before.used ELSE 0

\* What a step between two readings adds to the hour of the later one.
BurnStep(before, after) ==
  IF /\ after.used > before.used
     /\ \/ None \in {before.reset, after.reset}
        \/ after.reset - before.reset \in -RESET_TOLERANCE .. RESET_TOLERANCE
     /\ after.ts - before.ts <= HOUR
  THEN after.used - before.used ELSE 0

Burn(readings) ==
  LET run   == ByTime(readings)
      steps == [i \in 2 .. Len(run) |-> BurnStep(run[i - 1], run[i])]
  IN  [h \in 0 .. HOURS - 1 |->
         SumFunctionOnSet(steps, {i \in DOMAIN steps : HourOf(run[i].ts) = h})]

BurnBars(plot) ==
  [width |-> Clamp(plot \div HOURS - 1, 1, 4), gap |-> 1, shown |-> HOURS,
   first |-> 0, plot |-> plot]

\* The cells the bar chart draws a bar in.
BarCells(bars, index) ==
  {c \in 0 .. bars.plot - 1 :
     c - index * (bars.width + bars.gap) \in 0 .. bars.width - 1}

BarAt(bars, column) ==
  LET stride == bars.width + bars.gap
  IN  IF column % stride >= bars.width \/ column \div stride >= bars.shown
      THEN None ELSE column \div stride

=============================================================================
