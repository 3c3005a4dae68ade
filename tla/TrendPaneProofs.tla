-------------------------- MODULE TrendPaneProofs --------------------------
(***************************************************************************)
(* What the Trend tab promises (app.rs), for every list of accounts and    *)
(* windows, every history and every bound: the pan stays within the        *)
(* history, and pages keep the chart cursor on a reading.                  *)
(***************************************************************************)
EXTENDS TrendPane, WellFoundedInduction, TLAPS

-----------------------------------------------------------------------------
(* Least and greatest.                                                     *)

\* The smallest element of a nonempty set of naturals.
LEMMA MinInNat ==
  ASSUME NEW S, S \subseteq Nat, S # {}
  PROVE  Min(S) \in S /\ \A y \in S : Min(S) <= y
<1> DEFINE R == OpToRel(<, Nat)
<1>1. \E x \in S : \A y \in S : ~(<<y, x>> \in R)
  <2>1. IsWellFoundedOn(R, Nat)
    BY NatLessThanWellFounded, Zenon
  <2> HIDE DEF R
  <2>2. QED BY <2>1, WFMin, Zenon
<1>2. \A x, y \in Nat : <<y, x>> \notin R => x <= y
  BY DEF OpToRel
<1> HIDE DEF R
<1>3. \E x \in S : \A y \in S : x <= y
  BY <1>1, <1>2
<1>4. QED BY <1>3, Zenon DEF Min

\* The greatest element of a nonempty bounded one.
LEMMA MaxInNat ==
  ASSUME NEW S, S \subseteq Nat, S # {}, NEW m \in Nat, \A x \in S : x <= m
  PROVE  Max(S) \in S
<1> DEFINE T == {m - x : x \in S}
<1>1. T \subseteq Nat /\ T # {}
  <2>1. \A x \in S : m - x \in Nat
    OBVIOUS
  <2>2. QED BY <2>1, Zenon
<1>2. Min(T) \in T /\ \A u \in T : Min(T) <= u
  <2> HIDE DEF T
  <2> QED BY <1>1, MinInNat
<1>3. PICK x \in S : Min(T) = m - x
  BY <1>2
<1>4. \A y \in S : m - x <= m - y
  BY <1>2, <1>3
<1>5. \E z \in S : \A y \in S : z >= y
  BY <1>4
<1>6. QED BY <1>5, Zenon DEF Max

\* The greater of two integers.
LEMMA MaxOfTwo ==
  ASSUME NEW x \in Int, NEW y \in Int
  PROVE  Max({x, y}) \in {x, y} /\ Max({x, y}) >= x /\ Max({x, y}) >= y
<1>1. \E z \in {x, y} : \A u \in {x, y} : z >= u
  OBVIOUS
<1>2. Max({x, y}) \in {x, y} /\ \A u \in {x, y} : Max({x, y}) >= u
  BY <1>1, Zenon DEF Max
<1>3. QED BY <1>2

\* The nearest of some readings is one of them: the older of two that are
\* equally near.
LEMMA NearestIsOne ==
  ASSUME NEW times, times \subseteq Nat, times # {}, NEW ts \in Nat
  PROVE  Nearest(times, ts) \in times
<1> DEFINE key(t) == 2 * Abs(t - ts) + (IF t > ts THEN 1 ELSE 0)
           S == {key(t) : t \in times}
<1>1. \A t \in Nat : key(t) \in Nat
  BY DEF Abs
<1>2. S \subseteq Nat /\ S # {}
  BY <1>1
<1>3. Min(S) \in S /\ \A y \in S : Min(S) <= y
  <2> HIDE DEF S
  <2> QED BY <1>2, MinInNat
<1>4. PICK t \in times : Min(S) = key(t)
  BY <1>3, Zenon
<1>5. \A u \in times : key(t) <= key(u)
  BY <1>3, <1>4
<1>6. \A u \in times \ {t} :
        Abs(t - ts) < Abs(u - ts) \/ (Abs(t - ts) = Abs(u - ts) /\ t < u)
  BY <1>5 DEF Abs
<1>7. QED BY <1>6, Zenon DEF Nearest

-----------------------------------------------------------------------------
(* The record, and what its methods leave alone.                           *)

AppFields ==
  {"statuses", "selection", "userMoved", "focus", "detail", "visible", "range",
   "pan", "trend", "view", "split", "extras", "inspect"}

PageOK(page) ==
  page = None \/ /\ page.fetchedAt \in Nat /\ page.earliest \in Int
                 /\ \A w \in DOMAIN page.times : page.times[w] \subseteq 0 .. MaxTime

Typed(a) ==
  /\ DOMAIN a = AppFields
  /\ a.range \in 1 .. 4 /\ a.pan \in Nat
  /\ PageOK(a.trend)
  /\ DOMAIN a.extras = Purposes /\ \A p \in Purposes : PageOK(a.extras[p])
  /\ \/ a.inspect = None
     \/ /\ a.inspect.ts \in Nat
        /\ a.inspect = Reading(a.inspect.window, a.inspect.ts)

\* What every method keeps.  The pan is within the history of the series that
\* is loaded, also while the selection is another's.
Sound(a) ==
  Typed(a) /\ (a.trend # None => a.pan <= PanLimit(a.trend, a.range))

\* The cursor is on a reading of the series under it.
OnReading(a) ==
  LET series == SeriesOf(a, a.inspect.window)
  IN  IsReading(a.inspect) /\ series # None
        => a.inspect.ts \in TimesIn(series, a.inspect.window)

\* A method that keeps the above, and the cursor on its reading.
Calm(a, b) == Sound(b) /\ (OnReading(a) => OnReading(b))

\* What the series under a cursor are taken from.
SameSeries(a, b) ==
  /\ b.statuses = a.statuses /\ b.selection = a.selection
  /\ b.trend = a.trend /\ b.extras = a.extras /\ b.view = a.view

LEMMA SeriesAreThoseDrawn ==
  ASSUME NEW a, NEW b, SameSeries(a, b)
  PROVE  /\ OnWindow(b) = OnWindow(a) /\ Charted(b) = Charted(a)
         /\ \A w : /\ ChartedSeries(b, w) = ChartedSeries(a, w)
                   /\ ReadingTimes(b, w) = ReadingTimes(a, w)
                   /\ SeriesOf(b, w) = SeriesOf(a, w)
<1>1. /\ RowsOf(b) = RowsOf(a) /\ SelectedIndex(b) = SelectedIndex(a)
      /\ OnWindow(b) = OnWindow(a)
  BY DEF SameSeries, RowsOf, SelectedIndex, OnWindow
<1>2. WindowKey(b) = WindowKey(a) /\ Charted(b) = Charted(a)
  BY <1>1 DEF SameSeries, WindowKey, Charted
<1>3. Sibling(b) = Sibling(a)
  BY <1>1 DEF SameSeries, Sibling
<1>4. \A p : Extra(b, p) = Extra(a, p)
  BY <1>2, <1>3 DEF SameSeries, Extra, ExtraTarget
<1>5. \A w : ChartedSeries(b, w) = ChartedSeries(a, w)
  BY <1>2, <1>4 DEF SameSeries, ChartedSeries
<1>6. \A w : SeriesOf(b, w) = SeriesOf(a, w)
  BY <1>1, <1>5 DEF SameSeries, SeriesOf
<1>7. QED BY <1>1, <1>2, <1>5, <1>6 DEF ReadingTimes

\* The series of a window is the loaded one or one of the others.
LEMMA SeriesIsLoaded ==
  ASSUME NEW a, Typed(a), NEW w
  PROVE  PageOK(Charted(a)) /\ PageOK(ChartedSeries(a, w))
         /\ Charted(a) \in {None, a.trend}
<1>1. Charted(a) \in {None, a.trend}
  BY DEF Charted, IfHolds
<1>2. \A p \in Purposes : Extra(a, p) \in {None, a.extras[p]}
  BY DEF Extra, IfHolds
<1>3. PageOK(None)
  BY DEF PageOK
<1>4. \A p \in Purposes : PageOK(Extra(a, p))
  BY <1>2, <1>3 DEF Typed
<1>5. PageOK(Charted(a))
  BY <1>1, <1>3 DEF Typed
<1>6. ChartedSeries(a, w) \in {None, Charted(a), Extra(a, "all"), Extra(a, "sibling")}
  BY DEF ChartedSeries, FirstOf
<1>7. QED BY <1>1, <1>3, <1>4, <1>5, <1>6 DEF Purposes

LEMMA TimesAreNatural ==
  ASSUME NEW a, Typed(a), NEW w
  PROVE  ReadingTimes(a, w) \subseteq 0 .. MaxTime
<1>1. PageOK(ChartedSeries(a, w))
  BY SeriesIsLoaded
<1>2. QED BY <1>1 DEF ReadingTimes, TimesIn, PageOK

LEMMA LimitIsNatural ==
  ASSUME NEW page, PageOK(page), NEW range \in 1 .. 4
  PROVE  PanLimit(page, range) \in Nat
<1>1. CASE page = None \/ page.earliest = -1
  BY <1>1 DEF PanLimit
<1>2. CASE ~(page = None \/ page.earliest = -1)
  <2> DEFINE x == page.fetchedAt - page.earliest - Span[range]
  <2>1. x \in Int
    BY <1>2, TrendPaneAssumption DEF PageOK
  <2>2. PanLimit(page, range) = Max({x, 0})
    BY <1>2 DEF PanLimit
  <2> HIDE DEF x
  <2>3. \A u, v \in Int : Max({u, v}) \in {u, v} /\ Max({u, v}) >= v
    BY MaxOfTwo
  <2>4. Max({x, 0}) \in {x, 0} /\ Max({x, 0}) >= 0
    <3>1. 0 \in Int
      OBVIOUS
    <3>2. QED BY <2>1, <2>3, <3>1, Zenon
  <2>5. QED BY <2>1, <2>2, <2>4
<1>3. QED BY <1>1, <1>2

LEMMA MaxPanIsWithin ==
  ASSUME NEW a, Typed(a)
  PROVE  /\ MaxPan(a) \in Nat
         /\ a.trend # None => MaxPan(a) <= PanLimit(a.trend, a.range)
<1>1. Charted(a) \in {None, a.trend} /\ PageOK(Charted(a)) /\ PageOK(a.trend)
      /\ a.range \in 1 .. 4
  BY SeriesIsLoaded DEF Typed
<1>2. MaxPan(a) \in Nat /\ PanLimit(a.trend, a.range) \in Nat
  BY <1>1, LimitIsNatural DEF MaxPan
<1>3. CASE Charted(a) = None
  <2>1. MaxPan(a) = 0
    BY <1>3 DEF MaxPan, PanLimit
  <2>2. QED BY <1>2, <2>1
<1>4. CASE Charted(a) = a.trend
  BY <1>2, <1>4 DEF MaxPan
<1>5. QED BY <1>1, <1>3, <1>4

\* Three ways to keep the cursor on its reading: it is not touched, it is put
\* away, or it is put on a reading.
LEMMA Untouched ==
  ASSUME NEW a, Sound(a), NEW b, DOMAIN b = AppFields, SameSeries(a, b),
         b.range = a.range, b.pan = a.pan, b.inspect = a.inspect
  PROVE  Calm(a, b)
<1>1. Sound(b)
  BY DEF Sound, Typed, SameSeries
<1>2. \A w : SeriesOf(b, w) = SeriesOf(a, w)
  BY SeriesAreThoseDrawn
<1>3. OnReading(a) => OnReading(b)
  BY <1>2 DEF OnReading
<1>4. QED BY <1>1, <1>3 DEF Calm

LEMMA PutAway ==
  ASSUME NEW a, Sound(a), NEW b, DOMAIN b = AppFields,
         b.trend = a.trend, b.extras = a.extras, b.inspect = None,
         b.range \in 1 .. 4, b.pan \in Nat,
         b.pan = 0 \/ (b.range = a.range /\ b.pan <= a.pan)
                   \/ (b.range = a.range /\ b.pan <= MaxPan(a))
  PROVE  Calm(a, b)
<1>1. OnReading(b)
  BY DEF OnReading, IsReading
<1>2. ASSUME a.trend # None PROVE b.pan <= PanLimit(a.trend, b.range)
  <2>1. /\ PanLimit(a.trend, a.range) \in Nat /\ PanLimit(a.trend, b.range) \in Nat
        /\ MaxPan(a) \in Nat /\ MaxPan(a) <= PanLimit(a.trend, a.range)
    BY <1>2, LimitIsNatural, MaxPanIsWithin DEF Sound, Typed
  <2>2. a.pan \in Nat /\ a.pan <= PanLimit(a.trend, a.range)
    BY <1>2 DEF Sound, Typed
  <2>3. QED BY <2>1, <2>2
<1>3. Sound(b)
  BY <1>2 DEF Sound, Typed
<1>4. QED BY <1>1, <1>3 DEF Calm

LEMMA PutOnReading ==
  ASSUME NEW a, Sound(a), NEW b, DOMAIN b = AppFields, SameSeries(a, b),
         b.range = a.range, b.pan = a.pan,
         NEW w, NEW t \in ReadingTimes(a, w), b.inspect = Reading(w, t)
  PROVE  Sound(b) /\ OnReading(b)
<1>1. t \in Nat
  BY TimesAreNatural, TrendPaneAssumption DEF Sound
<1>2. b.inspect.ts = t /\ b.inspect.window = w
  BY DEF Reading
<1>3. Sound(b)
  BY <1>1, <1>2 DEF Sound, Typed, SameSeries
<1>4. SeriesOf(b, w) \in {None, ChartedSeries(a, w)}
  <2>1. SeriesOf(b, w) \in {None, ChartedSeries(b, w)}
    BY DEF SeriesOf
  <2>2. QED BY <2>1, SeriesAreThoseDrawn
<1>5. QED BY <1>2, <1>3, <1>4 DEF OnReading, ReadingTimes

LEMMA CalmTwice ==
  ASSUME NEW a, NEW b, NEW c, Calm(a, b), Calm(b, c)
  PROVE  Calm(a, c)
BY DEF Calm

-----------------------------------------------------------------------------
(* The methods.                                                            *)

LEMMA SelectIsCalm ==
  ASSUME NEW a, Sound(a), NEW i
  PROVE  Calm(a, Select(a, i))
<1> DEFINE b == Select(a, i)
           target == RowAt(a, i)
<1>0. DOMAIN a = AppFields
  BY DEF Sound, Typed
<1>1. CASE target = a.selection
  <2>1. b = [a EXCEPT !.selection = target, !.userMoved = TRUE]
    BY <1>1 DEF Select
  <2> HIDE DEF target
  <2>2. /\ DOMAIN b = AppFields /\ SameSeries(a, b) /\ b.range = a.range
        /\ b.pan = a.pan /\ b.inspect = a.inspect
    BY <1>0, <1>1, <2>1 DEF AppFields, SameSeries
  <2> HIDE DEF b
  <2>3. QED BY <2>2, Untouched DEF b
<1>2. CASE target # a.selection
  <2>1. b = [[a EXCEPT !.pan = 0, !.inspect = None]
               EXCEPT !.selection = target, !.userMoved = TRUE]
    BY <1>2 DEF Select
  <2> HIDE DEF target
  <2>2. /\ DOMAIN b = AppFields /\ b.trend = a.trend /\ b.extras = a.extras
        /\ b.inspect = None /\ b.range = a.range /\ b.pan = 0
    BY <1>0, <2>1 DEF AppFields
  <2>3. b.range \in 1 .. 4
    BY <2>2 DEF Sound, Typed
  <2> HIDE DEF b
  <2>4. QED BY <2>2, <2>3, PutAway DEF b
<1>3. QED BY <1>1, <1>2

LEMMA MoveSelectionIsCalm ==
  ASSUME NEW a, Sound(a), NEW d
  PROVE  Calm(a, MoveSelection(a, d))
<1>1. CASE RowsOf(a) = <<>>
  BY <1>1 DEF MoveSelection, Calm
<1>2. CASE RowsOf(a) # <<>>
  <2>1. PICK i : MoveSelection(a, d) = Select(a, i)
    BY <1>2 DEF MoveSelection
  <2>2. QED BY <2>1, SelectIsCalm
<1>3. QED BY <1>1, <1>2

LEMMA PanStepIsInteger ==
  ASSUME NEW a, Sound(a), NEW parts \in {4, 8}, NEW d \in Dirs
  PROVE  d * PanStep(a, parts) \in Int
<1>1. a.range \in 1 .. 4 /\ Span[a.range] \in Nat
  BY TrendPaneAssumption DEF Sound, Typed
<1> DEFINE x == Span[a.range] \div parts
           y == PanStep(a, parts)
<1>2. x \in Int
  BY <1>1
<1>3. y = Max({x, 1})
  BY DEF PanStep
<1> HIDE DEF x, y
<1>4. \A u, v \in Int : Max({u, v}) \in {u, v}
  BY MaxOfTwo
<1>5. Max({x, 1}) \in {x, 1}
  <2>1. 1 \in Int
    OBVIOUS
  <2>2. QED BY <1>2, <1>4, <2>1, Zenon
<1>6. y \in Int
  BY <1>2, <1>3, <1>5
<1>7. d * y \in Int
  BY <1>6 DEF Dirs
<1>8. QED BY <1>7 DEF y

LEMMA PanTrendIsCalm ==
  ASSUME NEW a, Sound(a), NEW d \in Int
  PROVE  Calm(a, PanTrend(a, d))
<1> DEFINE pan == Panned(a, d)
           b == [a EXCEPT !.pan = pan, !.inspect = None]
<1>0. DOMAIN a = AppFields /\ a.pan \in Nat /\ a.range \in 1 .. 4
  BY DEF Sound, Typed
<1>1. MaxPan(a) \in Nat
  BY MaxPanIsWithin DEF Sound
<1>2. pan \in Nat /\ pan <= MaxPan(a)
  BY <1>0, <1>1 DEF Panned, Clamp
<1>3. PanTrend(a, d) \in {a, b}
  BY DEF PanTrend, PanTo
<1> HIDE DEF pan
<1>4. /\ DOMAIN b = AppFields /\ b.trend = a.trend /\ b.extras = a.extras
      /\ b.inspect = None /\ b.range = a.range /\ b.pan = pan
  BY <1>0 DEF AppFields
<1> HIDE DEF b
<1>5. Calm(a, b)
  BY <1>0, <1>2, <1>4, PutAway
<1>6. Calm(a, a)
  BY DEF Calm
<1>7. QED BY <1>3, <1>5, <1>6

\* The cursor after a page arrived.
LEMMA ResnapPutsOnReading ==
  ASSUME NEW a, Sound(a)
  PROVE  Sound(ResnapInspect(a)) /\ OnReading(ResnapInspect(a))
<1> DEFINE w == a.inspect.window
           ts == a.inspect.ts
           times == ReadingTimes(a, w)
           b == [a EXCEPT !.inspect = None]
           c == [a EXCEPT !.inspect = Reading(w, Nearest(times, ts))]
<1>0. DOMAIN a = AppFields /\ a.range \in 1 .. 4 /\ a.pan \in Nat
  BY DEF Sound, Typed
<1>1. CASE ~IsReading(a.inspect)
  BY <1>1 DEF ResnapInspect, OnReading
<1>2. CASE IsReading(a.inspect)
  <2>0. ts \in Nat
    BY <1>2 DEF Sound, Typed, IsReading
  <2>1. CASE times # {}
    <3>1. times \subseteq Nat
      BY TimesAreNatural, TrendPaneAssumption DEF Sound
    <3>2. Nearest(times, ts) \in times
      <4> HIDE DEF times, ts
      <4> QED BY <2>0, <2>1, <3>1, NearestIsOne
    <3>3. ResnapInspect(a) \in {b, c}
      BY <1>2 DEF ResnapInspect, Snap
    <3> HIDE DEF times
    <3>4. /\ DOMAIN b = AppFields /\ b.trend = a.trend /\ b.extras = a.extras
          /\ b.inspect = None /\ b.range = a.range /\ b.pan = a.pan
      BY <1>0 DEF AppFields
    <3>5. /\ DOMAIN c = AppFields /\ SameSeries(a, c) /\ c.range = a.range
          /\ c.pan = a.pan /\ c.inspect = Reading(w, Nearest(times, ts))
      BY <1>0 DEF AppFields, SameSeries
    <3> HIDE DEF b, c, w
    <3>6. Sound(b) /\ OnReading(b)
      BY <1>0, <3>4, PutAway DEF Calm, OnReading, IsReading
    <3>7. Sound(c) /\ OnReading(c)
      BY <3>2, <3>5, PutOnReading DEF times
    <3>8. QED BY <3>3, <3>6, <3>7
  <2>2. CASE times = {}
    <3>1. ResnapInspect(a) = b
      BY <1>2, <2>2 DEF ResnapInspect, Snap
    <3>2. /\ DOMAIN b = AppFields /\ b.trend = a.trend /\ b.extras = a.extras
          /\ b.inspect = None /\ b.range = a.range /\ b.pan = a.pan
      BY <1>0 DEF AppFields
    <3> HIDE DEF b
    <3>3. QED BY <1>0, <3>1, <3>2, PutAway DEF Calm, OnReading, IsReading
  <2>3. QED BY <2>1, <2>2
<1>3. QED BY <1>1, <1>2

LEMMA SetExtraPutsOnReading ==
  ASSUME NEW a, Sound(a), NEW p \in Purposes, NEW page, PageOK(page)
  PROVE  Sound(SetExtra(a, p, page)) /\ OnReading(SetExtra(a, p, page))
<1> DEFINE b == [a EXCEPT !.extras[p] = page]
<1>0. DOMAIN a = AppFields
  BY DEF Sound, Typed
<1>1. /\ DOMAIN b = AppFields /\ b.extras = [a.extras EXCEPT ![p] = page]
      /\ b.trend = a.trend /\ b.range = a.range /\ b.pan = a.pan
      /\ b.inspect = a.inspect
  BY <1>0 DEF AppFields
<1>2. SetExtra(a, p, page) = ResnapInspect(b)
  BY DEF SetExtra
<1> HIDE DEF b
<1>3. Sound(b)
  BY <1>1 DEF Sound, Typed
<1>4. QED BY <1>2, <1>3, ResnapPutsOnReading

LEMMA SetTrendPutsOnReading ==
  ASSUME NEW a, Sound(a), NEW page, PageOK(page)
  PROVE  Sound(SetTrend(a, page)) /\ OnReading(SetTrend(a, page))
<1> DEFINE b == [a EXCEPT !.trend = page]
           max == MaxPan(b)
           pan == IF AtOldest(a) THEN max ELSE Clamp(b.pan, 0, max)
           c == [b EXCEPT !.pan = pan]
<1>0. DOMAIN a = AppFields
  BY DEF Sound, Typed
<1>1. /\ DOMAIN b = AppFields /\ b.extras = a.extras /\ b.trend = page
      /\ b.range = a.range /\ b.pan = a.pan /\ b.inspect = a.inspect
  BY <1>0 DEF AppFields
<1>2. SetTrend(a, page) = ResnapInspect(c)
  BY DEF SetTrend, Install, Repanned
<1> HIDE DEF b
<1>3. Typed(b)
  BY <1>1 DEF Sound, Typed
<1>4. max \in Nat /\ (b.trend # None => max <= PanLimit(b.trend, b.range))
  BY <1>3, MaxPanIsWithin
<1> HIDE DEF max
<1>5. pan \in Nat /\ pan <= max
  BY <1>3, <1>4 DEF Clamp, Typed
<1>6. b.trend # None => PanLimit(b.trend, b.range) \in Nat
  BY <1>3, LimitIsNatural DEF Typed
<1> HIDE DEF pan
<1>7. /\ DOMAIN c = AppFields /\ c.extras = b.extras /\ c.trend = b.trend
      /\ c.range = b.range /\ c.pan = pan /\ c.inspect = b.inspect
  BY <1>1 DEF AppFields
<1> HIDE DEF c
<1>8. Sound(c)
  <2>1. Typed(c)
    BY <1>3, <1>5, <1>7 DEF Typed
  <2>2. c.trend # None => c.pan <= PanLimit(c.trend, c.range)
    BY <1>4, <1>5, <1>6, <1>7
  <2>3. QED BY <2>1, <2>2 DEF Sound
<1>9. QED BY <1>2, <1>8, ResnapPutsOnReading

\* The keys and presses that move the cursor.
LEMMA CursorMoves ==
  ASSUME NEW a, Sound(a), NEW b, DOMAIN b = AppFields, SameSeries(a, b),
         b.range = a.range, b.pan = a.pan, NEW w,
         \/ b.inspect \in {None, Bar}
         \/ \E t \in ReadingTimes(a, w) : b.inspect = Reading(w, t)
  PROVE  Calm(a, b)
<1>1. CASE b.inspect \in {None, Bar}
  <2>1. OnReading(b)
    BY <1>1 DEF OnReading, IsReading
  <2>2. b.inspect = None \/ (b.inspect.ts = 0 /\ b.inspect.window = Header)
    BY <1>1 DEF Bar, Reading
  <2>3. Sound(b)
    BY <1>1, <2>2 DEF Sound, Typed, SameSeries, Bar
  <2>4. QED BY <2>1, <2>3 DEF Calm
<1>2. CASE \E t \in ReadingTimes(a, w) : b.inspect = Reading(w, t)
  BY <1>2, PutOnReading DEF Calm
<1>3. QED BY <1>1, <1>2

LEMMA ToggleInspectIsCalm ==
  ASSUME NEW a, Sound(a)
  PROVE  Calm(a, ToggleInspect(a))
<1> DEFINE w == a.selection.window
           times == ReadingTimes(a, w)
           b == [a EXCEPT !.inspect = None]
           c == [a EXCEPT !.inspect = Reading(w, Max(times))]
<1>0. DOMAIN a = AppFields
  BY DEF Sound, Typed
<1>1. ToggleInspect(a) = b \/ (times # {} /\ ToggleInspect(a) = c)
  BY DEF ToggleInspect, PutOut
<1>2. times # {} => Max(times) \in times
  <2>1. times \subseteq 0 .. MaxTime
    BY TimesAreNatural DEF Sound
  <2>2. MaxTime \in Nat
    BY TrendPaneAssumption
  <2> HIDE DEF times
  <2>3. times \subseteq Nat /\ \A t \in times : t <= MaxTime
    BY <2>1, <2>2
  <2>4. QED BY <2>2, <2>3, MaxInNat
<1> HIDE DEF times
<1>3. /\ DOMAIN b = AppFields /\ SameSeries(a, b) /\ b.range = a.range
      /\ b.pan = a.pan /\ b.inspect = None
  BY <1>0 DEF AppFields, SameSeries
<1>4. /\ DOMAIN c = AppFields /\ SameSeries(a, c) /\ c.range = a.range
      /\ c.pan = a.pan /\ c.inspect = Reading(w, Max(times))
  BY <1>0 DEF AppFields, SameSeries
<1> HIDE DEF b, c, w
<1>5. Calm(a, b)
  BY <1>3, CursorMoves
<1>6. ASSUME times # {} PROVE Calm(a, c)
  <2>1. \E t \in ReadingTimes(a, w) : c.inspect = Reading(w, t)
    BY <1>2, <1>4, <1>6 DEF times
  <2>2. QED BY <1>4, <2>1, CursorMoves
<1>7. QED BY <1>1, <1>5, <1>6

LEMMA StepInspectIsCalm ==
  ASSUME NEW a, Sound(a), NEW d
  PROVE  Calm(a, StepInspect(a, d))
<1> DEFINE w == a.inspect.window
           ts == a.inspect.ts
           times == ReadingTimes(a, w)
           beyond == {t \in times : IF d > 0 THEN t > ts ELSE t < ts}
           to == IF d > 0 THEN Min(beyond) ELSE Max(beyond)
           c == [a EXCEPT !.inspect.ts = to]
<1>0. DOMAIN a = AppFields
  BY DEF Sound, Typed
<1>1. CASE ~IsReading(a.inspect)
  BY <1>1, ToggleInspectIsCalm DEF StepInspect
<1>2. CASE IsReading(a.inspect)
  <2>1. \/ StepInspect(a, d) = a
        \/ beyond # {} /\ StepInspect(a, d) = c
    BY <1>2 DEF StepInspect, StepAlong, Stepped
  <2>2. a.inspect = Reading(w, ts)
    BY <1>2 DEF Sound, Typed, IsReading
  <2>3. beyond # {} => to \in times
    <3>1. times \subseteq 0 .. MaxTime
      BY TimesAreNatural DEF Sound
    <3>2. MaxTime \in Nat
      BY TrendPaneAssumption
    <3>3. beyond \subseteq times
      OBVIOUS
    <3> HIDE DEF times, beyond
    <3>4. beyond \subseteq Nat /\ \A t \in beyond : t <= MaxTime
      BY <3>1, <3>2, <3>3
    <3>5. beyond # {} => Min(beyond) \in beyond /\ Max(beyond) \in beyond
      BY <3>2, <3>4, MinInNat, MaxInNat
    <3>6. QED BY <3>3, <3>5
  <2> HIDE DEF times, to, beyond
  <2>4. /\ DOMAIN c = AppFields /\ SameSeries(a, c) /\ c.range = a.range
        /\ c.pan = a.pan /\ c.inspect = [a.inspect EXCEPT !.ts = to]
    BY <1>0 DEF AppFields, SameSeries
  <2> HIDE DEF c, w, ts
  <2>5. c.inspect = Reading(w, to)
    BY <2>2, <2>4 DEF Reading
  <2>6. ASSUME beyond # {} PROVE Calm(a, c)
    <3>1. \E t \in ReadingTimes(a, w) : c.inspect = Reading(w, t)
      BY <2>3, <2>5, <2>6 DEF times
    <3>2. QED BY <2>4, <3>1, CursorMoves
  <2>7. QED BY <2>1, <2>6 DEF Calm
<1>3. QED BY <1>1, <1>2

LEMMA SetTabIsCalm ==
  ASSUME NEW a, Sound(a), NEW tab
  PROVE  Calm(a, SetTab(a, tab))
<1> DEFINE b == SetTab(a, tab)
<1>1. /\ DOMAIN b = AppFields /\ SameSeries(a, b) /\ b.range = a.range
      /\ b.pan = a.pan /\ b.inspect = a.inspect
  BY DEF Sound, Typed, AppFields, SameSeries, SetTab
<1> HIDE DEF b
<1>2. QED BY <1>1, Untouched DEF b

LEMMA FocusIsCalm ==
  ASSUME NEW a, Sound(a), NEW focus
  PROVE  Calm(a, [a EXCEPT !.focus = focus])
<1> DEFINE b == [a EXCEPT !.focus = focus]
<1>1. /\ DOMAIN b = AppFields /\ SameSeries(a, b) /\ b.range = a.range
      /\ b.pan = a.pan /\ b.inspect = a.inspect
  BY DEF Sound, Typed, AppFields, SameSeries
<1> HIDE DEF b
<1>2. QED BY <1>1, Untouched DEF b

LEMMA RenderIsCalm ==
  ASSUME NEW a, Sound(a), NEW small
  PROVE  Calm(a, Render(a, small))
BY FocusIsCalm DEF Render, Calm

LEMMA SetTrendViewIsCalm ==
  ASSUME NEW a, Sound(a), NEW view
  PROVE  Calm(a, SetTrendView(a, view))
<1> DEFINE b == [a EXCEPT !.view = view, !.inspect = None]
<1>1. /\ DOMAIN b = AppFields /\ b.trend = a.trend /\ b.extras = a.extras
      /\ b.inspect = None /\ b.range = a.range /\ b.pan = a.pan
      /\ b.range \in 1 .. 4 /\ b.pan \in Nat
  BY DEF Sound, Typed, AppFields
<1>2. \E c \in {a, b} : SetTrendView(a, view) = SetTab(c, "trend")
  BY DEF SetTrendView
<1> HIDE DEF b
<1>3. Calm(a, b)
  BY <1>1, PutAway
<1>4. Calm(a, a)
  BY DEF Calm
<1>5. PICK c \in {a, b} : SetTrendView(a, view) = SetTab(c, "trend")
  BY <1>2
<1>6. Calm(a, c) /\ Sound(c)
  BY <1>3, <1>4 DEF Calm
<1>7. QED BY <1>5, <1>6, SetTabIsCalm, CalmTwice

LEMMA ResetIsCalm ==
  ASSUME NEW a, Sound(a)
  PROVE  Calm(a, ResetDetailScroll(a))
<1> DEFINE b == [a EXCEPT !.pan = 0, !.inspect = None]
<1>1. /\ DOMAIN b = AppFields /\ b.trend = a.trend /\ b.extras = a.extras
      /\ b.inspect = None /\ b.range = a.range /\ b.pan = 0 /\ b.range \in 1 .. 4
  BY DEF Sound, Typed, AppFields
<1>2. ResetDetailScroll(a) \in {a, b}
  BY DEF ResetDetailScroll
<1> HIDE DEF b
<1>3. Calm(a, b)
  BY <1>1, PutAway
<1>4. QED BY <1>2, <1>3 DEF Calm

\* A new list changes what is selected, and so what is charted, and nothing
\* else: the pan is still within the loaded series.
LEMMA SetStatusesIsSound ==
  ASSUME NEW a, Sound(a), NEW list
  PROVE  Sound(SetStatuses(a, list))
<1>1. PICK selection :
        SetStatuses(a, list) = [[a EXCEPT !.statuses = list] EXCEPT !.selection = selection]
  BY Zenon DEF SetStatuses
<1> DEFINE b == SetStatuses(a, list)
<1>2. /\ DOMAIN b = AppFields /\ b.trend = a.trend /\ b.extras = a.extras
      /\ b.inspect = a.inspect /\ b.range = a.range /\ b.pan = a.pan
  BY <1>1 DEF Sound, Typed, AppFields
<1> HIDE DEF b
<1>3. QED BY <1>2 DEF Sound, Typed, b

-----------------------------------------------------------------------------
(* The daemon's side and the requests under way.                           *)

StoreInv ==
  /\ now \in 0 .. MaxTime
  /\ \A k \in DOMAIN stored : stored[k] \subseteq 0 .. MaxTime

\* A request carries the clock it was made at.
TodoInv ==
  \E S : /\ todo \in Seq(S)
         /\ \A s \in S : s.kind \in Purposes \cup {"trend"} => s.at \in Nat

PanInv == StoreInv /\ TodoInv /\ Sound(app)

\* Every page the daemon may answer with.
LEMMA PagesAreOK ==
  ASSUME StoreInv, NEW q, q.at \in Nat, NEW page \in Pages(q)
  PROVE  PageOK(page)
<1> DEFINE keys == {k \in DOMAIN stored : k.account = q.key.account
                                          /\ (q.all \/ k.window = q.key.window)}
           drawn == IF q.kind \in {"outcomes", "burn"} THEN {} ELSE {k.window : k \in keys}
           within == [w \in drawn |->
                        {t \in StoredFor([account |-> q.key.account, window |-> w]) :
                           t >= q.since /\ (q.pinned => t <= q.until)}]
           kept == [w \in drawn |->
                      {s \in SUBSET within[w] :
                         /\ Cardinality(within[w]) - Cardinality(s) <= MaxDropped
                         /\ s = {} => within[w] = {}}]
           all == UNION {StoredFor(k) : k \in keys}
           earliest == IF all = {} THEN -1 ELSE Min(all)
           maps == {f \in [drawn -> UNION {kept[w] : w \in drawn}] :
                      \A w \in drawn : f[w] \in kept[w]}
           answer(times) ==
             [account |-> q.key.account, window |-> q.key.window, range |-> q.range,
              until |-> q.until, fetchedAt |-> q.at, times |-> times,
              earliest |-> earliest]
<1>1. PICK times \in maps : page = answer(times)
  BY Zenon DEF Pages
<1>2. \A k : StoredFor(k) \subseteq 0 .. MaxTime
  BY DEF StoreInv, StoredFor
<1>3. \A w \in drawn : within[w] \subseteq 0 .. MaxTime
  <2> HIDE DEF drawn
  <2> QED BY <1>2
<1>4. DOMAIN times = drawn /\ \A w \in drawn : times[w] \subseteq 0 .. MaxTime
  <2> HIDE DEF drawn, within
  <2>1. \A w \in drawn : kept[w] \subseteq SUBSET within[w]
    OBVIOUS
  <2> HIDE DEF kept
  <2>2. DOMAIN times = drawn /\ \A w \in drawn : times[w] \in kept[w]
    OBVIOUS
  <2>3. QED BY <1>3, <2>1, <2>2
<1>5. earliest \in Int
  <2>1. all \subseteq 0 .. MaxTime
    BY <1>2
  <2> HIDE DEF all
  <2>2. all \subseteq Nat
    BY <2>1, TrendPaneAssumption
  <2>3. all # {} => Min(all) \in Nat
    BY <2>2, MinInNat
  <2>4. QED BY <2>3
<1> HIDE DEF drawn, within, kept, all, earliest, maps
<1>6. page.fetchedAt = q.at /\ page.times = times /\ page.earliest = earliest
  BY <1>1
<1>7. QED BY <1>4, <1>5, <1>6 DEF PageOK

\* The requests of one reload.
LEMMA QueriesCarryTheClock ==
  ASSUME NEW a, now \in Nat
  PROVE  \E S : /\ DetailQuery(a) \in Seq(S)
                /\ \A s \in S : s.kind \in Purposes \cup {"trend"} => s.at \in Nat
<1> DEFINE own == Query(a, "trend", a.selection, FALSE)
           other(p) == Query(a, p, ExtraTarget(a, p), p = "all")
           S == {own} \cup {other(p) : p \in Purposes}
           first == <<own>>
<1>1. own.at = now /\ \A p \in Purposes : other(p).at = now
  BY DEF Query
<1>2. \A p \in Purposes : Ask(a, p) \in {<<>>, <<other(p)>>}
  BY DEF Ask
<1>3. DetailQuery(a) \in {<<>>, first \o ExtraQueries(a)}
  BY DEF DetailQuery
<1> HIDE DEF own, other
<1>4. own \in S /\ \A p \in Purposes : other(p) \in S
  OBVIOUS
<1>5. \A s \in S : s.at = now
  BY <1>1
<1> HIDE DEF S
<1>6. \A p \in Purposes : Ask(a, p) \in Seq(S)
  <2>1. \A x \in S : <<x>> \in Seq(S)
    OBVIOUS
  <2>2. <<>> \in Seq(S)
    OBVIOUS
  <2>3. QED BY <1>2, <1>4, <2>1, <2>2, Zenon
<1>7. ExtraQueries(a) \in Seq(S)
  BY <1>6 DEF ExtraQueries, Purposes
<1>8. first \in Seq(S)
  BY <1>4
<1> HIDE DEF first
<1>9. DetailQuery(a) \in Seq(S)
  <2>1. \A x, y \in Seq(S) : x \o y \in Seq(S)
    OBVIOUS
  <2>2. <<>> \in Seq(S)
    OBVIOUS
  <2>3. QED BY <1>3, <1>7, <1>8, <2>1, <2>2, Zenon
<1>10. QED BY <1>5, <1>9

-----------------------------------------------------------------------------
(* One step per action.                                                    *)

\* What is left to do when a handler ends or reloads.
LEMMA HandlerTodo ==
  ASSUME todo' \in {<<>>, Reload, Refresh, Refresh \o Reload}
  PROVE  TodoInv'
<1> DEFINE S == {[kind |-> "status"], [kind |-> "reload"]}
<1>1. todo' \in Seq(S)
  <2>1. Reload \in Seq(S) /\ Refresh \in Seq(S) /\ <<>> \in Seq(S)
    BY DEF Reload, Refresh
  <2> HIDE DEF S
  <2>2. Refresh \o Reload \in Seq(S)
    BY <2>1
  <2>3. QED BY <2>1, <2>2
<1>2. \A s \in S : s.kind \notin Purposes \cup {"trend"}
  BY DEF Purposes
<1> HIDE DEF S
<1>3. QED BY <1>1, <1>2 DEF TodoInv

LEMMA RestOfTodo ==
  ASSUME TodoInv, Waiting, todo' \in {Tail(todo), <<>>}
  PROVE  TodoInv'
<1>1. PICK S : /\ todo \in Seq(S)
               /\ \A s \in S : s.kind \in Purposes \cup {"trend"} => s.at \in Nat
  BY DEF TodoInv
<1>2. todo' \in Seq(S)
  <2>1. \A seq \in Seq(S) : seq # <<>> => Tail(seq) \in Seq(S)
    OBVIOUS
  <2>2. <<>> \in Seq(S)
    OBVIOUS
  <2>3. todo # <<>>
    BY DEF Waiting
  <2>4. QED BY <1>1, <2>1, <2>2, <2>3, Zenon
<1>3. QED BY <1>1, <1>2 DEF TodoInv

\* A calm method, and the redraw after the last step.
LEMMA ActIsCalm ==
  ASSUME PanInv, NEW next, Calm(app, next), NEW steps, Act(next, steps)
  PROVE  StoreInv' /\ Calm(app, app')
<1>1. app' \in {next, Render(next, short)}
  BY DEF Act
<1>2. Calm(next, Render(next, short))
  BY RenderIsCalm DEF Calm
<1>3. Calm(app, Render(next, short))
  BY <1>2, CalmTwice
<1>4. StoreInv'
  BY DEF Act, daemon, PanInv, StoreInv
<1>5. QED BY <1>1, <1>3, <1>4

LEMMA HandleIsCalm ==
  ASSUME PanInv, NEW next, Calm(app, next), NEW steps, steps \in {<<>>, Reload},
         Handle(next, steps)
  PROVE  PanInv' /\ Calm(app, app')
<1>1. Act(next, steps) /\ todo' = steps
  BY DEF Handle, Act
<1>2. StoreInv' /\ Calm(app, app')
  BY <1>1, ActIsCalm
<1>3. TodoInv'
  BY <1>1, HandlerTodo
<1>4. QED BY <1>2, <1>3 DEF PanInv, Calm

\* The keys.
LEMMA KeyIsCalm ==
  ASSUME PanInv, Key
  PROVE  PanInv' /\ Calm(app, app')
<1>0. /\ Sound(app) /\ DOMAIN app = AppFields /\ app.range \in 1 .. 4
      /\ app.pan \in Nat /\ Calm(app, app)
  BY DEF PanInv, Sound, Typed, Calm
<1>1. ASSUME NEW d \in Dirs, MoveKey(d) PROVE PanInv' /\ Calm(app, app')
  BY <1>0, <1>1, MoveSelectionIsCalm, HandleIsCalm DEF MoveKey
<1>2. ASSUME NEW d \in Dirs, PanKey(d) PROVE PanInv' /\ Calm(app, app')
  <2>1. d * PanStep(app, 8) \in Int
    BY <1>0, PanStepIsInteger
  <2>2. Calm(app, PanTrend(app, d * PanStep(app, 8)))
    BY <1>0, <2>1, PanTrendIsCalm
  <2>3. QED BY <1>2, <2>2, HandleIsCalm DEF PanKey
<1>3. ASSUME NEW d \in Dirs, ZoomKey(d) PROVE PanInv' /\ Calm(app, app')
  <2> DEFINE range == ShiftRange(app.range, d)
             b == [app EXCEPT !.range = range, !.pan = 0, !.inspect = None]
  <2>1. range \in 1 .. 4
    BY <1>0, TrendPaneAssumption DEF ShiftRange, Clamp, Dirs
  <2>2. Handle(b, Reload)
    BY <1>0, <1>3 DEF ZoomKey, AppFields
  <2> HIDE DEF range
  <2>3. /\ DOMAIN b = AppFields /\ b.trend = app.trend /\ b.extras = app.extras
        /\ b.inspect = None /\ b.range = range /\ b.pan = 0
    BY <1>0 DEF AppFields
  <2> HIDE DEF b
  <2>4. Calm(app, b)
    BY <1>0, <2>1, <2>3, PutAway
  <2>5. QED BY <2>2, <2>4, HandleIsCalm
<1>4. ASSUME NEW d \in Dirs, ViewKey(d) PROVE PanInv' /\ Calm(app, app')
  BY <1>0, <1>4, SetTrendViewIsCalm, HandleIsCalm DEF ViewKey
<1>5. ASSUME NEW d \in Dirs, StepKey(d) PROVE PanInv' /\ Calm(app, app')
  BY <1>0, <1>5, StepInspectIsCalm, HandleIsCalm DEF StepKey
<1>6. ASSUME NEW i, EndKey(i) PROVE PanInv' /\ Calm(app, app')
  BY <1>0, <1>6, SelectIsCalm, HandleIsCalm DEF EndKey
<1>7. ASSUME NEW last, PresentKey(last) PROVE PanInv' /\ Calm(app, app')
  <2>1. PICK steps \in {<<>>, Reload} : Handle(ResetDetailScroll(app), steps)
    BY <1>7 DEF PresentKey
  <2>2. QED BY <1>0, <2>1, ResetIsCalm, HandleIsCalm
<1>8. ASSUME NEW pane, FocusKey(pane) PROVE PanInv' /\ Calm(app, app')
  <2> DEFINE visible == app.visible \/ (pane = "detail" /\ ~app.visible)
  <2>1. PICK steps \in {<<>>, Reload} :
          Handle([app EXCEPT !.focus = pane, !.visible = visible], steps)
    BY <1>8, <1>0 DEF FocusKey, AppFields
  <2> DEFINE b == [app EXCEPT !.focus = pane, !.visible = visible]
  <2>2. /\ DOMAIN b = AppFields /\ SameSeries(app, b) /\ b.range = app.range
        /\ b.pan = app.pan /\ b.inspect = app.inspect
    BY <1>0 DEF AppFields, SameSeries
  <2>3. Handle(b, steps)
    BY <2>1
  <2> HIDE DEF b
  <2>4. QED BY <1>0, <2>2, <2>3, Untouched, HandleIsCalm
<1>9. ASSUME NEW tab, TabKey(tab) PROVE PanInv' /\ Calm(app, app')
  BY <1>0, <1>9, SetTabIsCalm, HandleIsCalm DEF TabKey
<1>10. ASSUME SplitKey PROVE PanInv' /\ Calm(app, app')
  <2> DEFINE b == [app EXCEPT !.split = ~@, !.inspect = None]
  <2>1. /\ DOMAIN b = AppFields /\ b.trend = app.trend /\ b.extras = app.extras
        /\ b.inspect = None /\ b.range = app.range /\ b.pan = app.pan
    BY <1>0 DEF AppFields
  <2>2. Handle(SetTab(b, "trend"), Reload)
    BY <1>10 DEF SplitKey
  <2> HIDE DEF b
  <2>3. Calm(app, b)
    BY <1>0, <2>1, PutAway
  <2>4. Calm(b, SetTab(b, "trend"))
    BY <2>3, SetTabIsCalm DEF Calm
  <2>5. Calm(app, SetTab(b, "trend"))
    BY <2>3, <2>4, CalmTwice
  <2>6. QED BY <2>2, <2>5, HandleIsCalm
<1>11. ASSUME ShowKey PROVE PanInv' /\ Calm(app, app')
  <2> DEFINE visible == ~app.visible
             focus == IF app.visible THEN "list" ELSE app.focus
  <2>1. PICK steps \in {<<>>, Reload} :
          Handle([app EXCEPT !.visible = visible, !.focus = focus], steps)
    BY <1>11, <1>0 DEF ShowKey, AppFields
  <2> DEFINE b == [app EXCEPT !.visible = visible, !.focus = focus]
  <2>2. /\ DOMAIN b = AppFields /\ SameSeries(app, b) /\ b.range = app.range
        /\ b.pan = app.pan /\ b.inspect = app.inspect
    BY <1>0 DEF AppFields, SameSeries
  <2>3. Handle(b, steps)
    BY <2>1
  <2> HIDE DEF b
  <2>4. QED BY <1>0, <2>2, <2>3, Untouched, HandleIsCalm
<1>12. ASSUME EscKey PROVE PanInv' /\ Calm(app, app')
  <2> DEFINE b == [app EXCEPT !.inspect = None]
             c == [app EXCEPT !.focus = "list"]
             e == [app EXCEPT !.visible = FALSE]
  <2>1. PICK next \in {b, c, e} : Handle(next, <<>>)
    BY <1>12 DEF EscKey
  <2>2. /\ DOMAIN b = AppFields /\ b.trend = app.trend /\ b.extras = app.extras
        /\ b.inspect = None /\ b.range = app.range /\ b.pan = app.pan
    BY <1>0 DEF AppFields
  <2>3. \A x \in {c, e} :
          /\ DOMAIN x = AppFields /\ SameSeries(app, x) /\ x.range = app.range
          /\ x.pan = app.pan /\ x.inspect = app.inspect
    BY <1>0 DEF AppFields, SameSeries
  <2> HIDE DEF b, c, e
  <2>4. Calm(app, b)
    BY <1>0, <2>2, PutAway
  <2>5. \A x \in {c, e} : Calm(app, x)
    BY <1>0, <2>3, Untouched
  <2>6. QED BY <2>1, <2>4, <2>5, HandleIsCalm
<1>13. ASSUME EnterKey PROVE PanInv' /\ Calm(app, app')
  BY <1>0, <1>13, ToggleInspectIsCalm, HandleIsCalm DEF EnterKey
<1>14. QED
  BY <1>1, <1>2, <1>3, <1>4, <1>5, <1>6, <1>7, <1>8, <1>9, <1>10, <1>11, <1>12,
     <1>13, Zenon DEF Key

\* A press puts the cursor on what it picked, or away when it was there.
LEMMA PickIsCalm ==
  ASSUME PanInv, NEW target, NEW w, Pick(target),
         \/ target \in {None, Bar}
         \/ \E t \in ReadingTimes(app, w) : target = Reading(w, t)
  PROVE  PanInv' /\ Calm(app, app')
<1>0. Sound(app) /\ DOMAIN app = AppFields
  BY DEF PanInv, Sound, Typed
<1> DEFINE inspect == IF target = app.inspect THEN None ELSE target
           b == [app EXCEPT !.focus = "detail", !.inspect = inspect]
<1>1. Handle(b, <<>>)
  BY <1>0 DEF Pick, AppFields
<1>2. inspect \in {None, target}
  OBVIOUS
<1> HIDE DEF inspect
<1>3. /\ DOMAIN b = AppFields /\ SameSeries(app, b) /\ b.range = app.range
      /\ b.pan = app.pan /\ b.inspect = inspect
  BY <1>0 DEF AppFields, SameSeries
<1> HIDE DEF b
<1>4. \/ b.inspect \in {None, Bar}
      \/ \E t \in ReadingTimes(app, w) : b.inspect = Reading(w, t)
  BY <1>2, <1>3
<1>5. Calm(app, b)
  BY <1>0, <1>3, <1>4, CursorMoves
<1>6. QED BY <1>1, <1>5, HandleIsCalm

\* The mouse.
LEMMA MouseIsCalm ==
  ASSUME PanInv, Mouse
  PROVE  PanInv' /\ Calm(app, app')
<1>0. /\ Sound(app) /\ DOMAIN app = AppFields /\ app.range \in 1 .. 4
      /\ app.pan \in Nat /\ Calm(app, app)
  BY DEF PanInv, Sound, Typed, Calm
<1>1. ASSUME NEW d \in Dirs, WheelList(d) PROVE PanInv' /\ Calm(app, app')
  <2> DEFINE b == [app EXCEPT !.focus = "list"]
  <2>1. Handle(MoveSelection(b, d), Reload)
    BY <1>1 DEF WheelList
  <2>2. Calm(app, b)
    BY <1>0, FocusIsCalm
  <2> HIDE DEF b
  <2>3. Calm(b, MoveSelection(b, d))
    BY <2>2, MoveSelectionIsCalm DEF Calm
  <2>4. Calm(app, MoveSelection(b, d))
    BY <2>2, <2>3, CalmTwice
  <2>5. QED BY <2>1, <2>4, HandleIsCalm
<1>2. ASSUME NEW d \in Dirs, WheelChart(d) PROVE PanInv' /\ Calm(app, app')
  <2> DEFINE b == [app EXCEPT !.focus = "detail"]
  <2>1. PICK steps \in {<<>>, Reload} : Handle(PanTrend(b, d * PanStep(b, 4)), steps)
    BY <1>2 DEF WheelChart
  <2>2. Calm(app, b)
    BY <1>0, FocusIsCalm
  <2> HIDE DEF b
  <2>3. d * PanStep(b, 4) \in Int
    BY <2>2, PanStepIsInteger DEF Calm
  <2>4. Calm(b, PanTrend(b, d * PanStep(b, 4)))
    BY <2>2, <2>3, PanTrendIsCalm DEF Calm
  <2>5. Calm(app, PanTrend(b, d * PanStep(b, 4)))
    BY <2>2, <2>4, CalmTwice
  <2>6. QED BY <2>1, <2>5, HandleIsCalm
<1>3. ASSUME NEW w, NEW ts \in 0 .. MaxTime, ClickReading(w, ts)
      PROVE  PanInv' /\ Calm(app, app')
  <2> DEFINE times == ReadingTimes(app, w)
             target == NearestReading(w, times, ts)
  <2>1. Pick(target)
    BY <1>3 DEF ClickReading
  <2>2. times \subseteq Nat /\ ts \in Nat
    BY <1>0, TimesAreNatural, TrendPaneAssumption DEF Sound
  <2> HIDE DEF times
  <2>3. CASE times = {}
    <3>1. target = None
      BY <2>3 DEF NearestReading
    <3>2. QED BY <2>1, <3>1, PickIsCalm
  <2>4. CASE times # {}
    <3>1. Nearest(times, ts) \in times
      BY <2>2, <2>4, NearestIsOne
    <3>2. \E t \in times : target = Reading(w, t)
      BY <2>4, <3>1 DEF NearestReading
    <3> HIDE DEF target
    <3>3. QED BY <2>1, <3>2, PickIsCalm DEF times
  <2>5. QED BY <2>3, <2>4
<1>4. ASSUME NEW view, ClickView(view) PROVE PanInv' /\ Calm(app, app')
  <2> DEFINE b == [app EXCEPT !.focus = "detail"]
  <2>1. Handle(SetTrendView(b, view), Reload)
    BY <1>4 DEF ClickView
  <2>2. Calm(app, b)
    BY <1>0, FocusIsCalm
  <2> HIDE DEF b
  <2>3. Calm(b, SetTrendView(b, view))
    BY <2>2, SetTrendViewIsCalm DEF Calm
  <2>4. Calm(app, SetTrendView(b, view))
    BY <2>2, <2>3, CalmTwice
  <2>5. QED BY <2>1, <2>4, HandleIsCalm
<1>5. ASSUME ClickBar PROVE PanInv' /\ Calm(app, app')
  BY <1>5, PickIsCalm DEF ClickBar
<1>6. ASSUME RightClick PROVE PanInv' /\ Calm(app, app')
  <2> DEFINE b == [app EXCEPT !.inspect = None]
  <2>1. /\ DOMAIN b = AppFields /\ b.trend = app.trend /\ b.extras = app.extras
        /\ b.inspect = None /\ b.range = app.range /\ b.pan = app.pan
    BY <1>0 DEF AppFields
  <2>2. Handle(b, <<>>)
    BY <1>6 DEF RightClick
  <2> HIDE DEF b
  <2>3. Calm(app, b)
    BY <1>0, <2>1, PutAway
  <2>4. QED BY <2>2, <2>3, HandleIsCalm
<1>7. QED BY <1>1, <1>2, <1>3, <1>4, <1>5, <1>6, Zenon DEF Mouse

\* The daemon moves on while a request is awaited.
LEMMA DaemonIsCalm ==
  ASSUME PanInv,
         Tick \/ Relist \/ (\E s \in ToSet(layout) : Poll(s.account)) \/ UNCHANGED vars
  PROVE  PanInv' /\ Calm(app, app')
<1>1. app' = app /\ todo' = todo
  BY DEF Tick, Relist, Poll, vars
<1>2. TodoInv' /\ Calm(app, app')
  BY <1>1 DEF PanInv, TodoInv, Calm
<1>3. StoreInv'
  <2>1. CASE Tick
    BY <2>1, TrendPaneAssumption DEF Tick, PanInv, StoreInv
  <2>2. CASE Relist \/ UNCHANGED vars
    BY <2>2 DEF Relist, vars, PanInv, StoreInv
  <2>3. ASSUME NEW account, Poll(account) PROVE StoreInv'
    <3>1. PICK read : stored' = [k \in DOMAIN stored \cup read |->
                                   StoredFor(k) \cup (IF k \in read THEN {now} ELSE {})]
      BY <2>3 DEF Poll
    <3>2. \A k : StoredFor(k) \cup (IF k \in read THEN {now} ELSE {}) \subseteq 0 .. MaxTime
      BY DEF PanInv, StoreInv, StoredFor
    <3>3. now' = now
      BY <2>3 DEF Poll
    <3>4. QED BY <3>1, <3>2, <3>3 DEF PanInv, StoreInv
  <2>4. QED BY <2>1, <2>2, <2>3
<1>4. QED BY <1>2, <1>3 DEF PanInv, Calm

\* A resize, and the updates the daemon pushes.
LEMMA PushIsCalm ==
  ASSUME PanInv, Resize \/ Update \/ ConfigLoaded
  PROVE  PanInv' /\ Calm(app, app')
<1>0. Sound(app) /\ Calm(app, app)
  BY DEF PanInv, Calm
<1>1. CASE Resize
  <2>1. Calm(app, app')
    BY <1>0, <1>1, RenderIsCalm DEF Resize
  <2>2. StoreInv' /\ TodoInv'
    BY <1>1 DEF Resize, daemon, PanInv, StoreInv, TodoInv
  <2>3. QED BY <2>1, <2>2 DEF PanInv, Calm
<1>2. CASE Update \/ ConfigLoaded
  <2>1. PICK steps \in {Refresh, Refresh \o Reload} : Act(app, steps)
    BY <1>2 DEF Update, ConfigLoaded
  <2>2. todo' = steps
    BY <2>1 DEF Act
  <2>3. TodoInv'
    BY <2>2, HandlerTodo
  <2>4. QED BY <1>0, <2>1, <2>3, ActIsCalm DEF PanInv, Calm
<1>3. QED BY <1>1, <1>2

\* The start of a reload, and a request that fails.
LEMMA ReloadIsCalm ==
  ASSUME PanInv, StartReload \/ Fails
  PROVE  PanInv' /\ Calm(app, app')
<1>0. Sound(app) /\ DOMAIN app = AppFields /\ Calm(app, app)
  BY DEF PanInv, Sound, Typed, Calm
<1>1. CASE StartReload
  <2> DEFINE b == [app EXCEPT !.trend = None]
             next == IF app.detail = "trend" /\ ~OnWindow(app) THEN b ELSE app
  <2>1. Act(next, DetailQuery(app)) /\ todo' = DetailQuery(app)
    BY <1>1 DEF StartReload, Continue, Act
  <2>2. ASSUME ~OnWindow(app) PROVE Calm(app, b)
    <3>1. /\ DOMAIN b = AppFields /\ b.statuses = app.statuses /\ b.trend = None
          /\ b.selection = app.selection /\ b.extras = app.extras
          /\ b.inspect = app.inspect /\ b.range = app.range /\ b.pan = app.pan
      BY <1>0 DEF AppFields
    <3> HIDE DEF b
    <3>2. Sound(b)
      BY <1>0, <3>1 DEF Sound, Typed, PageOK
    <3>3. ~OnWindow(b)
      BY <2>2, <3>1 DEF OnWindow, SelectedIndex, RowsOf
    <3>4. OnReading(b)
      BY <3>3 DEF OnReading, SeriesOf
    <3>5. QED BY <3>2, <3>4 DEF Calm
  <2> HIDE DEF b
  <2>3. Calm(app, next)
    BY <1>0, <2>2
  <2> HIDE DEF next
  <2>4. StoreInv' /\ Calm(app, app')
    BY <2>1, <2>3, ActIsCalm
  <2>5. now \in Nat
    BY TrendPaneAssumption DEF PanInv, StoreInv
  <2>6. TodoInv'
    BY <2>1, <2>5, QueriesCarryTheClock DEF TodoInv
  <2>7. QED BY <2>4, <2>6 DEF PanInv, Calm
<1>2. CASE Fails
  <2>1. PICK steps \in {Tail(todo), <<>>} : Act(app, steps)
    BY <1>2 DEF Fails, Continue
  <2>2. TodoInv'
    <3>1. Waiting /\ todo' = steps
      BY <1>2, <2>1 DEF Fails, Act
    <3>2. QED BY <3>1, RestOfTodo DEF PanInv
  <2>3. QED BY <1>0, <2>1, <2>2, ActIsCalm DEF PanInv, Calm
<1>3. QED BY <1>1, <1>2

\* A new list keeps the pan, though not the cursor.
LEMMA RefreshIsSound ==
  ASSUME PanInv, RefreshStatus
  PROVE  PanInv'
<1> DEFINE next == SetStatuses(app, layout)
<1>1. Sound(next)
  BY SetStatusesIsSound DEF PanInv
<1>2. /\ Waiting /\ todo' = Tail(todo) /\ UNCHANGED daemon
      /\ app' \in {next, Render(next, short)}
  BY DEF RefreshStatus, Continue, Act
<1> HIDE DEF next
<1>3. Sound(app')
  BY <1>1, <1>2, RenderIsCalm DEF Calm
<1>4. TodoInv'
  BY <1>2, RestOfTodo DEF PanInv
<1>5. StoreInv'
  BY <1>2 DEF daemon, PanInv, StoreInv
<1>6. QED BY <1>3, <1>4, <1>5 DEF PanInv

\* A page that arrives puts the cursor on a reading.
LEMMA AnsweredPutsOnReading ==
  ASSUME PanInv, Answered
  PROVE  PanInv' /\ OnReading(app')
<1> DEFINE q == Head(todo)
<1>1. PICK page \in Pages(q) :
        Continue(IF q.kind = "trend" THEN SetTrend(app, page)
                 ELSE SetExtra(app, q.kind, page), Tail(todo))
  BY DEF Answered
<1>2. Waiting /\ q.kind \in Purposes \cup {"trend"}
  BY DEF Answered
<1>3. q.at \in Nat
  <2>1. PICK S : /\ todo \in Seq(S)
                 /\ \A s \in S : s.kind \in Purposes \cup {"trend"} => s.at \in Nat
    BY DEF PanInv, TodoInv
  <2>2. q \in S
    BY <1>2, <2>1 DEF Waiting
  <2>3. QED BY <1>2, <2>1, <2>2
<1> HIDE DEF q
<1>4. PageOK(page)
  BY <1>3, PagesAreOK DEF PanInv
<1> DEFINE next == IF q.kind = "trend" THEN SetTrend(app, page)
                   ELSE SetExtra(app, q.kind, page)
<1>5. Sound(next) /\ OnReading(next)
  BY <1>2, <1>4, SetTrendPutsOnReading, SetExtraPutsOnReading DEF PanInv
<1>6. /\ todo' = Tail(todo) /\ UNCHANGED daemon
      /\ app' \in {next, Render(next, short)}
  BY <1>1 DEF Continue, Act
<1> HIDE DEF next
<1>7. Calm(next, Render(next, short))
  BY <1>5, RenderIsCalm
<1>8. Sound(app') /\ OnReading(app')
  BY <1>5, <1>6, <1>7 DEF Calm
<1>9. TodoInv'
  BY <1>2, <1>6, RestOfTodo DEF PanInv
<1>10. StoreInv'
  BY <1>6 DEF daemon, PanInv, StoreInv
<1>11. QED BY <1>8, <1>9, <1>10 DEF PanInv

LEMMA PanInvInitially == Init => PanInv
<1> SUFFICES ASSUME Init PROVE PanInv
  OBVIOUS
<1>1. StoreInv
  BY TrendPaneAssumption DEF Init, StoreInv
<1>2. TodoInv
  <2> DEFINE S == {[kind |-> "status"], [kind |-> "reload"]}
  <2>1. Reload \in Seq(S) /\ Refresh \in Seq(S)
    BY DEF Reload, Refresh
  <2>2. \A s \in S : s.kind \notin Purposes \cup {"trend"}
    BY DEF Purposes
  <2> HIDE DEF S
  <2>3. Refresh \o Reload \in Seq(S)
    BY <2>1
  <2>4. QED BY <2>2, <2>3 DEF Init, TodoInv
<1>3. Sound(app)
  <2>1. /\ DOMAIN app = AppFields /\ app.range = 3 /\ app.pan = 0 /\ app.trend = None
        /\ app.extras = [p \in Purposes |-> None] /\ app.inspect = None
    BY DEF Init, AppFields
  <2>2. QED BY <2>1 DEF Sound, Typed, PageOK
<1>4. QED BY <1>1, <1>2, <1>3 DEF PanInv

LEMMA PanInvPreserved ==
  ASSUME PanInv, [Next]_vars
  PROVE  /\ PanInv'
         /\ OnReading(app) /\ ~RefreshStatus => OnReading(app')
<1>1. CASE Tick \/ Relist \/ (\E s \in ToSet(layout) : Poll(s.account)) \/ UNCHANGED vars
  BY <1>1, DaemonIsCalm DEF Calm
<1>2. CASE Resize \/ Update \/ ConfigLoaded
  BY <1>2, PushIsCalm DEF Calm
<1>3. CASE Key
  BY <1>3, KeyIsCalm DEF Calm
<1>4. CASE Mouse
  BY <1>4, MouseIsCalm DEF Calm
<1>5. CASE RefreshStatus
  BY <1>5, RefreshIsSound
<1>6. CASE StartReload \/ Fails
  BY <1>6, ReloadIsCalm DEF Calm
<1>7. CASE Answered
  BY <1>7, AnsweredPutsOnReading
<1>8. QED BY <1>1, <1>2, <1>3, <1>4, <1>5, <1>6, <1>7, Zenon DEF Next

-----------------------------------------------------------------------------
\* The chart is never panned past its oldest stored reading, whatever Status
\* lists, whichever window the selection falls back to and whatever the
\* requests of a handler find on their way (`set_trend`, `pan_trend`).
THEOREM PanCorrect == Spec => []PanWithinHistory
<1>1. PanInv => PanWithinHistory
  <2> SUFFICES ASSUME PanInv, Charted(app) # None PROVE app.pan <= MaxPan(app)
    BY DEF PanWithinHistory
  <2>1. Charted(app) = app.trend /\ app.trend # None
    BY SeriesIsLoaded DEF PanInv, Sound
  <2>2. QED BY <2>1 DEF PanInv, Sound, MaxPan
<1>2. PanInv /\ [Next]_vars => PanInv'
  BY PanInvPreserved
<1>3. QED BY PanInvInitially, <1>1, <1>2, PTL DEF Spec

\* Every page that arrives leaves the cursor on a reading of the series under
\* it (`resnap_inspect`), and nothing but a new list takes it off one.
THEOREM CursorCorrect == Spec => CursorFollowsPages
<1>1. PanInv /\ [Next]_vars => PanInv'
  BY PanInvPreserved
<1>2. PanInv /\ [Next]_vars
        => [Answered \/ (CursorOnReading /\ ~RefreshStatus) => CursorOnReading']_vars
  <2> SUFFICES ASSUME PanInv, [Next]_vars,
                      Answered \/ (OnReading(app) /\ ~RefreshStatus)
               PROVE  OnReading(app')
    BY DEF CursorOnReading, OnReading
  <2>1. CASE Answered
    BY <2>1, AnsweredPutsOnReading
  <2>2. CASE OnReading(app) /\ ~RefreshStatus
    BY <2>2, PanInvPreserved
  <2>3. QED BY <2>1, <2>2
<1>3. QED BY PanInvInitially, <1>1, <1>2, PTL DEF Spec, CursorFollowsPages

=============================================================================
