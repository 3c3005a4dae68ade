---------------------------- MODULE HistoryQuery ----------------------------
(***************************************************************************)
(* The queries behind a chart: Storage::history and its downsampling and   *)
(* earliest_snapshot (storage.rs), and the History reply of the server     *)
(* (server.rs).  A row is one reading of one window of the account asked   *)
(* about; an unreadable row is one whose unit column holds no unit.  The   *)
(* reply is sorted by time; here it is a set.                              *)
(***************************************************************************)
EXTENDS Integers, Sequences, FiniteSets, FiniteSetsExt, SequencesExt

CONSTANT MAX_HISTORY_POINTS

ASSUME HistoryAssumption == MAX_HISTORY_POINTS \in Nat \ {0}

AnyWindow == "any"
Now       == -1
NoBudget  == -1

Within(at, since, until) == since <= at /\ at <= until

OfWindow(rows, window) == {r \in rows : window \in {AnyWindow, r.window}}

\* Mutant of BucketOf: a reading at the very end has a bucket of its own.
BucketOfUncapped(ts, since, span, budget) ==
  (Max({ts - since, 0}) * budget) \div span

BucketOf(ts, since, span, budget) ==
  Min({(Max({ts - since, 0}) * budget) \div span, budget - 1})

\* The first of the highest readings of a bucket; of the last bucket, the
\* newest reading.
PickOf(rows, bucket, last) ==
  IF bucket = last
  THEN CHOOSE r \in rows : \A q \in rows : q.ts <= r.ts
  ELSE CHOOSE r \in rows : \A q \in rows :
         q.used < r.used \/ (q.used = r.used /\ r.ts <= q.ts)

ReduceSeries(rows, since, span, budget) ==
  LET in(b)   == {r \in rows : BucketOf(r.ts, since, span, budget) = b}
      buckets == {BucketOf(r.ts, since, span, budget) : r \in rows}
  IN  IF Cardinality(rows) <= budget THEN rows
      ELSE {PickOf(in(b), b, Max(buckets)) : b \in buckets}

\* Windows are reduced each on its own.
Downsample(rows, since, until, budget) ==
  IF until - since <= 0 THEN rows
  ELSE UNION {ReduceSeries(OfWindow(rows, w), since, until - since, budget) :
                w \in {r.window : r \in rows}}

Budget(max_points) ==
  IF max_points = NoBudget THEN MAX_HISTORY_POINTS
  ELSE Min({Max({max_points, 1}), MAX_HISTORY_POINTS})

Until(query, now) == IF query.until = Now THEN now ELSE query.until

Selected(rows, query, now) ==
  {r \in OfWindow(rows, query.window) :
     Within(r.ts, query.since, Until(query, now))}

History(rows, query, now) ==
  Downsample(Selected(rows, query, now), query.since, Until(query, now),
             Budget(query.max_points))

\* MIN over the stored series, not over the slice that is asked for.
EarliestSnapshot(rows, window) ==
  IF OfWindow(rows, window) = {} THEN Now
  ELSE Min({r.ts : r \in OfWindow(rows, window)})

\* One unreadable row fails the whole query.
HistoryPage(rows, rollovers, query, now) ==
  IF \E r \in Selected(rows, query, now) : ~r.readable
  THEN [ok |-> FALSE, snapshots |-> {}, earliest |-> Now, rollovers |-> {}]
  ELSE [ok        |-> TRUE,
        snapshots |-> History(rows, query, now),
        earliest  |-> EarliestSnapshot(rows, query.window),
        rollovers |-> {r \in OfWindow(rollovers, query.window) :
                         Within(r.ts, query.since, Until(query, now))}]

=============================================================================
