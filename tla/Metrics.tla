------------------------------ MODULE Metrics ------------------------------
(***************************************************************************)
(* crates/teiryo/src/metrics.rs: the numbers the dashboard derives from a  *)
(* quota window and the readings of it.  The code computes in f64; here    *)
(* usage is counted in tenths of a percent (FULL is the whole window),     *)
(* time in ticks, and a rate is a fraction [n, d] of usage over ticks.     *)
(* The code's pace scale multiplies a rate by the window's span and each   *)
(* projection divides the span out again, so rates are compared here       *)
(* without it.  A half-width is rounded down to a thousandth of a tenth.   *)
(***************************************************************************)
EXTENDS Integers, Sequences, FiniteSets, FiniteSetsExt, SequencesExt

CONSTANTS
  MIN_SAMPLE,      \* MIN_SAMPLE_SECS, in ticks
  RESET_TOLERANCE,
  LOOK_MIN,        \* recent_lookback: 15 minutes
  LOOK_MAX,        \* recent_lookback: 12 hours
  GAP_MIN          \* gap_tolerance: 10 minutes

ASSUME MetricsAssumption ==
  /\ {MIN_SAMPLE, LOOK_MIN, LOOK_MAX} \subseteq Nat \ {0}
  /\ {RESET_TOLERANCE, GAP_MIN} \subseteq Nat
  /\ LOOK_MAX >= LOOK_MIN

FULL == 1000
None == -1

\* FALL_EPSILON, half of a percent.
FALL_EPSILON == 5

NoProjection == <<>>
NoRatio  == [n |-> 0, d |-> 0]
NoWindow == [start |-> None, reset |-> None, uncertainty |-> 0, used |-> None]
NoRate   == [low |-> 0, mid |-> 0, high |-> 0, d |-> 0,
             from |-> None, to |-> None, readings |-> 0, quantum |-> 0]

Clamp(n, low, high) == Min({Max({n, low}), high})

Less(a, b) == a.n * b.d < b.n * a.d

-----------------------------------------------------------------------------
(* The window that actually ran.                                           *)

\* ObservedStart: a bracket, and its midpoint.
BracketMiddle(view) ==
  view.not_before + (view.not_after - view.not_before) \div 2

\* The observed restart wins only where it is later than the nominal start.
EffectiveWindow(view, now) ==
  LET nominal  == view.reset - view.span
      observed == /\ view.not_after # None
                  /\ BracketMiddle(view) > nominal
                  /\ BracketMiddle(view) < view.reset
                  /\ view.not_after <= now
  IN  IF view.reset = None THEN NoWindow
      ELSE [start       |-> IF observed THEN BracketMiddle(view) ELSE nominal,
            reset       |-> view.reset,
            uncertainty |-> IF observed THEN view.not_after - view.not_before
                            ELSE 0,
            used        |-> view.used]

SpanOf(w) == w.reset - w.start

\* elapsed_fraction, of SpanOf(w).
Elapsed(w, now) == Clamp(now - w.start, 0, SpanOf(w))

\* MAX_TRUSTED_BRACKET_FRACTION is a twentieth.
StartIsUncertain(w) == SpanOf(w) > 0 /\ 20 * w.uncertainty > SpanOf(w)

-----------------------------------------------------------------------------
(* The average since the window opened, and what it leaves.                *)

\* MIN_ELAPSED_FRACTION is a twentieth.
Pace(w, now) ==
  IF SpanOf(w) <= 0 \/ 20 * Elapsed(w, now) < SpanOf(w) \/ w.used = None
  THEN NoRatio
  ELSE [n |-> w.used, d |-> Elapsed(w, now)]

RoundedDiv(a, b) == (2 * a + b) \div (2 * b)

\* None is a cap that never arrives.
RunwayAt(w, pace) ==
  IF w.used = None THEN None
  ELSE IF w.used >= FULL THEN 0
  ELSE IF pace.n <= 0 \/ SpanOf(w) <= 0 THEN None
  ELSE RoundedDiv((FULL - w.used) * pace.d, pace.n)

Runway(w, now) ==
  IF Pace(w, now) = NoRatio THEN None ELSE RunwayAt(w, Pace(w, now))

AffordablePace(w, now) ==
  IF w.used = None \/ SpanOf(w) <= 0 \/ Elapsed(w, now) = SpanOf(w)
  THEN NoRatio
  ELSE [n |-> FULL - w.used, d |-> SpanOf(w) - Elapsed(w, now)]

\* Mutant of EtaToCap: a cap after the reset is announced too.
EtaToCapAnyhow(w, now) ==
  IF Runway(w, now) = None THEN None ELSE now + Runway(w, now)

\* None when the window rolls over first.
EtaToCap(w, now) ==
  IF Runway(w, now) # None /\ now + Runway(w, now) < w.reset
  THEN now + Runway(w, now) ELSE None

-----------------------------------------------------------------------------
(* The rate of the newest readings, with its interval.                     *)

\* Four missed polls.
GapTolerance(poll_interval) == Max({4 * poll_interval, GAP_MIN})

RecentLookback(span) == Clamp(span \div 10, LOOK_MIN, LOOK_MAX)

\* Thousandths; the last entry is Z_QUANTILE.
T_QUANTILE ==
  <<3078, 1886, 1638, 1533, 1476, 1440, 1415, 1397, 1383, 1372, 1363, 1356,
    1350, 1345, 1341, 1337, 1333, 1330, 1328, 1325, 1323, 1321, 1319, 1318,
    1316, 1315, 1314, 1313, 1311, 1310, 1281>>

TQuantile(dof) == T_QUANTILE[Min({dof, 31})]

\* Whole percents, halves, or tenths.  Usage is counted in tenths of a percent
\* throughout, the unit the providers report; a step of another unit would be
\* scaled by its limit, which is taken to be 100.
ReadingQuantum(run) ==
  LET fits(step) == \A i \in DOMAIN run : run[i].used % step = 0
  IN  IF fits(10) THEN 10 ELSE IF fits(5) THEN 5 ELSE 1

\* The square root, rounded down.
Isqrt(n) == CHOOSE r \in 0 .. n : r * r <= n /\ n < (r + 1) * (r + 1)

\* The squared scatter of the steps around the rate, times the square of the
\* elapsed time.
Scatter(run, burn, elapsed) ==
  LET off(i) == (run[i + 1].used - run[i].used) * elapsed
                  - burn * (run[i + 1].ts - run[i].ts)
  IN  SumFunction([i \in 1 .. Len(run) - 1 |-> off(i) * off(i)])

\* The half-width of the interval that the scatter alone leaves, times the
\* elapsed time, in thousandths.
Statistical(run, burn, elapsed) ==
  LET steps == Len(run) - 1
  IN  IF steps = 1 THEN 0
      ELSE (TQuantile(steps - 1)
              * Isqrt(100 * ((Scatter(run, burn, elapsed) * steps)
                               \div (steps - 1))))
             \div (10 * elapsed)

Interval(run, quantum, burn, elapsed, half) ==
  [mid  |-> Max({1000 * burn, 0}),
   low  |-> Max({1000 * burn - half, 0}),
   high |-> Max({1000 * burn + half, 0}),
   d    |-> 1000 * elapsed,
   from |-> Head(run).ts, to |-> Last(run).ts,
   readings |-> Len(run), quantum |-> quantum]

\* Mutant of FitElapsed: the rounding of the readings is left out.
FitElapsedExactly(run, quantum, burn, elapsed) ==
  Interval(run, quantum, burn, elapsed, Statistical(run, burn, elapsed))

FitElapsed(run, quantum, burn, elapsed) ==
  Interval(run, quantum, burn, elapsed,
           Max({Statistical(run, burn, elapsed), 1000 * quantum}))

Fit(run, quantum) ==
  IF Len(run) < 2 \/ Last(run).ts - Head(run).ts < MIN_SAMPLE THEN NoRate
  ELSE FitElapsed(run, quantum, Last(run).used - Head(run).used,
                  Last(run).ts - Head(run).ts)

\* PRECISION_ABS and PRECISION_REL are a quarter.
IsPrecise(rate, span) ==
  /\ rate.readings > 2
  /\ 4 * (rate.high - rate.low) * span
       <= Max({FULL * rate.d, rate.mid * span})

Disjoint(a, b) ==
  \/ Less([n |-> a.high, d |-> a.d], [n |-> b.low, d |-> b.d])
  \/ Less([n |-> b.high, d |-> b.d], [n |-> a.low, d |-> a.d])

\* The readings of a run from a time on, and up to one: where partition_point
\* splits it.
From(run, ts) ==
  SubSeq(run, 1 + Cardinality({i \in DOMAIN run : run[i].ts < ts}), Len(run))
UpTo(run, ts) ==
  SubSeq(run, 1, Cardinality({i \in DOMAIN run : run[i].ts <= ts}))

\* The readings a widening would add were burnt at another rate.
RulesOut(narrower, kept, quantum) ==
  /\ narrower # NoRate
  /\ Fit(UpTo(kept, narrower.from), quantum) # NoRate
  /\ Disjoint(Fit(UpTo(kept, narrower.from), quantum), narrower)

\* The lookback doubles until the interval is readable, the stretch is
\* exhausted, or the older readings are ruled out.
Widen(stretch, quantum, span, lookback) ==
  LET age         == Last(stretch).ts - Head(stretch).ts
      width[k \in 0 .. age] == IF k = 0 THEN lookback ELSE 2 * width[k - 1]
      kept(k)     == From(stretch, Last(stretch).ts - width[k])
      estimate(k) == Fit(kept(k), quantum)
      other(k)    == k > 0 /\ RulesOut(estimate(k - 1), kept(k), quantum)
      ends(k)     == other(k) \/ kept(k) = stretch \/ IsPrecise(estimate(k), span)
      widenings   == CHOOSE k \in 0 .. age :
                       ends(k) /\ \A j \in 0 .. k - 1 : ~ends(j)
  IN  estimate(IF other(widenings) THEN widenings - 1 ELSE widenings)

\* A hole or a fall: the readings on its two sides are not one measurement.
Breaks(before, after, max_gap) ==
  \/ after.ts - before.ts > max_gap
  \/ after.used < before.used - FALL_EPSILON

Stretch(run, max_gap) ==
  SubSeq(run,
         Max({1} \cup {i + 1 : i \in {j \in 1 .. Len(run) - 1 :
                                Breaks(run[j], run[j + 1], max_gap)}}),
         Len(run))

InSameWindow(point, w) ==
  /\ point.reset # None
  /\ point.reset - w.reset \in -RESET_TOLERANCE .. RESET_TOLERANCE

ByTime(points) ==
  [i \in 1 .. Cardinality(points) |->
     CHOOSE p \in points : Cardinality({q \in points : q.ts <= p.ts}) = i]

\* The readings a rate may rest on, oldest first; `points` is a set, so their
\* order and repeated readings are already gone.
Matching(w, points, now) ==
  ByTime({p \in points : /\ p.ts >= w.start /\ p.ts <= now
                         /\ InSameWindow(p, w)
                         /\ p.used # None})

RateOfStretch(stretch, span) ==
  Widen(stretch, ReadingQuantum(stretch), span, RecentLookback(span))

RateOfRun(run, span, max_gap, now) ==
  IF run = <<>> THEN NoRate
  ELSE IF now - Last(run).ts > max_gap THEN NoRate
  ELSE RateOfStretch(Stretch(run, max_gap), span)

EstimateRate(w, points, max_gap, now) ==
  IF SpanOf(w) <= 0 THEN NoRate
  ELSE RateOfRun(Matching(w, points, now), SpanOf(w), max_gap, now)

-----------------------------------------------------------------------------
(* What a rate implies about the rest of the window.                       *)

Low(rate)  == [n |-> rate.low, d |-> rate.d]
Mid(rate)  == [n |-> rate.mid, d |-> rate.d]
High(rate) == [n |-> rate.high, d |-> rate.d]

\* Utilization at the reset if a rate holds.
AtReset(w, pace, now) ==
  [n |-> w.used * pace.d + pace.n * Max({w.reset - now, 0}), d |-> pace.d]

\* The fast end of the rate is the early end of the runway.
Project(w, rate, now) ==
  IF w.used = None \/ SpanOf(w) <= 0 THEN NoProjection ELSE
  [at_reset |-> [low  |-> AtReset(w, Low(rate), now),
                 mid  |-> AtReset(w, Mid(rate), now),
                 high |-> AtReset(w, High(rate), now)],
   runway   |-> [low  |-> RunwayAt(w, High(rate)),
                 mid  |-> RunwayAt(w, Mid(rate)),
                 high |-> RunwayAt(w, Low(rate))]]

Binding(projection, w, now) ==
  projection.runway.low # None /\ now + projection.runway.low < w.reset

-----------------------------------------------------------------------------
(* The same rate along a charted series.                                   *)

\* The window instance a past reading belonged to.
InstanceOf(point, span, current) ==
  IF current # NoWindow /\ InSameWindow(point, current)
       /\ point.ts >= current.start
  THEN [current EXCEPT !.used = point.used]
  ELSE [start |-> point.reset - span, reset |-> point.reset,
        uncertainty |-> 0, used |-> point.used]

\* Mutant of UpToReading: the reading itself is left out.
UpToReadingExclusive(readings, point, w) ==
  {r \in readings : r.ts >= w.start /\ r.ts < point.ts}

\* Each reading is handed only the readings of its own instance up to it.
UpToReading(readings, point, w) ==
  {r \in readings : r.ts >= w.start /\ r.ts <= point.ts}

RatePointOf(readings, point, w, max_gap) ==
  [ts |-> point.ts, window |-> w,
   rate |-> EstimateRate(w, UpToReading(readings, point, w), max_gap,
                         point.ts)]

RateSeries(span, current, points, max_gap) ==
  {RatePointOf(points, p, InstanceOf(p, span, current), max_gap) :
     p \in {q \in points : q.reset # None}}

-----------------------------------------------------------------------------
(* Window boundaries.                                                      *)

\* The rollover that began the current window is left to CurrentStart.
PastBoundaries(w, rollovers, from, to) ==
  {[at |-> r.observed_at,
    kind |-> IF r.kind = "scheduled" THEN "rollover" ELSE "surprise"] :
     r \in {q \in rollovers :
       /\ q.kind # "unannounced"
       /\ q.observed_at >= from /\ q.observed_at <= to
       /\ w # NoWindow => q.observed_at - w.start
                            \notin -RESET_TOLERANCE .. RESET_TOLERANCE}}

Boundaries(w, rollovers, from, to) ==
  PastBoundaries(w, rollovers, from, to)
    \cup {b \in {[at |-> w.start, kind |-> "current_start"]} :
            w # NoWindow /\ w.start >= from /\ w.start <= to}
    \cup {b \in {[at |-> w.reset, kind |-> "upcoming_reset"]} : w # NoWindow}

=============================================================================
