--------------------------- MODULE RecordingProofs ---------------------------
(***************************************************************************)
(* What Recording promises for every set of windows, every span, tolerance  *)
(* and threshold, and every bound: the health agrees with itself, an anchor *)
(* brackets a real restart, a pace is measured from the current window, and *)
(* a restart of the daemon is invisible.  And of the log that shows what    *)
(* was recorded, ActivityLog: a key leaves its cursor on screen.            *)
(***************************************************************************)
EXTENDS Recording, ActivityLog, FiniteSetTheorems, WellFoundedInduction, TLAPS

-----------------------------------------------------------------------------
(* The newest of several.                                                  *)

\* A nonempty set of naturals has a least element.
LEMMA LeastExists ==
  ASSUME NEW S, S \subseteq Nat, S # {}
  PROVE  \E x \in S : \A y \in S : x <= y
<1> DEFINE R == OpToRel(<, Nat)
<1>1. \E x \in S : \A y \in S : ~(<<y, x>> \in R)
  <2>1. IsWellFoundedOn(R, Nat)
    BY NatLessThanWellFounded, Zenon
  <2> HIDE DEF R
  <2>2. QED BY <2>1, WFMin, Zenon
<1>2. \A x, y \in Nat : <<y, x>> \notin R => x <= y
  BY DEF OpToRel
<1> HIDE DEF R
<1>3. QED BY <1>1, <1>2

\* A nonempty bounded one has a greatest.
LEMMA GreatestExists ==
  ASSUME NEW S, S \subseteq Nat, S # {}, NEW m \in Nat, \A x \in S : x <= m
  PROVE  \E x \in S : \A y \in S : y <= x
<1> DEFINE T == {m - x : x \in S}
<1>1. T \subseteq Nat /\ T # {}
  <2>1. \A x \in S : m - x \in Nat
    OBVIOUS
  <2>2. QED BY <2>1, Zenon
<1>2. PICK t \in T : \A u \in T : t <= u
  <2> HIDE DEF T
  <2> QED BY <1>1, LeastExists
<1>3. PICK x \in S : t = m - x
  BY <1>2
<1>4. \A y \in S : m - x <= m - y
  BY <1>2, <1>3
<1>5. QED BY <1>4

\* `Latest` is the event with the highest id.
LEMMA LatestProperties ==
  ASSUME NEW events, events # {}, NEW m \in Nat,
         \A e \in events : e.id \in Nat /\ e.id <= m
  PROVE  Latest(events) \in events /\ \A f \in events : f.id <= Latest(events).id
<1> DEFINE S == {e.id : e \in events}
<1>1. S \subseteq Nat /\ S # {} /\ \A x \in S : x <= m
  OBVIOUS
<1>2. \E x \in S : \A y \in S : y <= x
  <2> HIDE DEF S
  <2> QED BY <1>1, GreatestExists
<1>3. \E e \in events : \A f \in events : f.id <= e.id
  BY <1>2
<1>4. QED BY <1>3, Zenon DEF Latest

\* Of one event, it is that event.
LEMMA LatestOfNewer ==
  ASSUME NEW events, NEW e \in events, \A f \in events : f.id \in Int,
         \A f \in events : f # e => f.id < e.id
  PROVE  Latest(events) = e
<1>1. \A f \in events : f.id <= e.id
  OBVIOUS
<1>2. \A g \in events : (\A f \in events : f.id <= g.id) => g = e
  OBVIOUS
<1>3. QED BY <1>1, <1>2 DEF Latest

-----------------------------------------------------------------------------
(* Detection and anchors.                                                  *)

LEMMA ClassifyProperties ==
  ASSUME NEW before, NEW after, NEW at
  PROVE  /\ Classify(before, after, at)
              \in {"early", "scheduled", "retracted", "unannounced", "none"}
         /\ Classify(before, after, at) = "unannounced"
              => IsCollapse(before.used, after.used)
BY DEF Classify

\* A rollover is about a window of both payloads, at most one for each.
LEMMA DetectProperties ==
  ASSUME NEW prev, NEW event
  PROVE  /\ \A r \in Detect(prev, event) :
              /\ r.window \in DOMAIN prev.windows
              /\ r.window \in DOMAIN event.windows
              /\ r.observed_at = event.ts /\ r.prev_observed_at = prev.ts
              /\ r.prev_used = prev.windows[r.window].used
              /\ r.new_used = event.windows[r.window].used
              /\ r.kind \in {"early", "scheduled", "retracted", "unannounced"}
              /\ r.kind = "unannounced" => IsCollapse(r.prev_used, r.new_used)
         /\ \A r, s \in Detect(prev, event) : r.window = s.window => r = s
<1> DEFINE row(w) == [window |-> w, poll |-> event.id, observed_at |-> event.ts,
                      prev_observed_at |-> prev.ts,
                      prev_used |-> prev.windows[w].used,
                      new_used |-> event.windows[w].used,
                      kind |-> Classify(prev.windows[w], event.windows[w], event.ts)]
<1>1. \A r \in Detect(prev, event) :
        /\ r.kind # "none"
        /\ \E w \in DOMAIN prev.windows \cap DOMAIN event.windows : r = row(w)
  BY Zenon DEF Detect
<1>2. \A w : /\ row(w).window = w /\ row(w).observed_at = event.ts
             /\ row(w).prev_observed_at = prev.ts
             /\ row(w).prev_used = prev.windows[w].used
             /\ row(w).new_used = event.windows[w].used
             /\ row(w).kind = Classify(prev.windows[w], event.windows[w], event.ts)
  OBVIOUS
<1> HIDE DEF row
<1>3. QED BY <1>1, <1>2, ClassifyProperties

\* What pruning leaves is what it was.
LEMMA PruneProperties ==
  ASSUME NEW starts, NEW windows, NEW at, DOMAIN starts \subseteq Windows
  PROVE  LET pruned == PruneAnchors(starts, windows, at)
         IN  /\ DOMAIN pruned \subseteq DOMAIN starts
             /\ \A w \in DOMAIN pruned : pruned[w] = starts[w]
             /\ \A w \in DOMAIN starts :
                  w \in DOMAIN pruned <=>
                    (w \in DOMAIN windows => at - Estimate(starts[w]) <= Span[w])
BY DEF PruneAnchors, Retain

\* A rolled window loses its anchor, and gets a new one if it did so silently.
LEMMA AnchorProperties ==
  ASSUME NEW starts, NEW rollovers,
         \A r, s \in rollovers : r.window = s.window => r = s
  PROVE  LET anchored == Anchor(starts, rollovers)
         IN  /\ \A w \in DOMAIN anchored :
                  \/ /\ w \in DOMAIN starts /\ anchored[w] = starts[w]
                     /\ \A r \in rollovers : r.window # w
                  \/ \E r \in rollovers : /\ r.window = w /\ r.kind = "unannounced"
                                          /\ anchored[w] = FromRollover(r)
             /\ \A w \in DOMAIN starts :
                  (\A r \in rollovers : r.window # w)
                    => w \in DOMAIN anchored /\ anchored[w] = starts[w]
             /\ \A r \in rollovers :
                  r.kind = "unannounced" =>
                    /\ r.window \in DOMAIN anchored
                    /\ anchored[r.window] = FromRollover(r)
<1> DEFINE silent == {r \in rollovers : r.kind = "unannounced"}
           rolled == {r.window : r \in rollovers}
           kept   == DOMAIN starts \ rolled
           anchored == Anchor(starts, rollovers)
<1>1. /\ DOMAIN anchored = kept \cup {r.window : r \in silent}
      /\ \A w \in DOMAIN anchored :
           anchored[w] = IF w \in kept THEN starts[w]
                         ELSE FromRollover(CHOOSE r \in silent : r.window = w)
  BY DEF Anchor
<1>2. \A r \in silent : (CHOOSE s \in silent : s.window = r.window) = r
  <2> TAKE r \in silent
  <2>1. \E s \in silent : s.window = r.window
    OBVIOUS
  <2>2. \A s \in silent : s.window = r.window => s = r
    OBVIOUS
  <2> HIDE DEF silent
  <2>3. QED BY <2>1, <2>2, Zenon
<1>3. \A r \in silent : r.window \notin kept
  OBVIOUS
<1>4. \A w \in DOMAIN starts : (\A r \in rollovers : r.window # w) <=> w \in kept
  OBVIOUS
<1>5. \A r \in rollovers : r.kind = "unannounced" <=> r \in silent
  OBVIOUS
<1>6. \A w \in kept : w \in DOMAIN starts
  OBVIOUS
<1>7. \A r \in silent : r \in rollovers
  OBVIOUS
<1> HIDE DEF silent, kept, anchored, rolled
<1>8. \A r \in silent : /\ r.window \in DOMAIN anchored
                        /\ anchored[r.window] = FromRollover(r)
  BY <1>1, <1>2, <1>3
<1>9. \A w \in kept : w \in DOMAIN anchored /\ anchored[w] = starts[w]
  BY <1>1
<1>10. \A w \in DOMAIN anchored : w \in kept \/ \E r \in silent : r.window = w
  BY <1>1
<1>11. QED
  BY <1>4, <1>5, <1>6, <1>7, <1>8, <1>9, <1>10 DEF anchored

-----------------------------------------------------------------------------
(* The state as polls, restarts and troubles leave it.                     *)

Bounds == [crashes : Nat, writes : Nat, reads : Nat, restarts : Nat,
           corrections : Nat, retractions : Nat]

IsPast(e) == IsEvent(e) /\ e.id = e.ts /\ e.ts <= now

IsRow(r) ==
  /\ r.window \in Windows
  /\ r.observed_at \in Nat /\ r.prev_observed_at \in Nat
  /\ r.prev_observed_at <= r.observed_at /\ r.observed_at <= now
  /\ r.prev_used \in Int /\ r.new_used \in Int
  /\ r.kind \in {"scheduled", "early", "retracted", "unannounced"}

IsStart(start) ==
  /\ start.not_before \in Nat /\ start.not_after \in Nat
  /\ start.not_before <= start.not_after

\* The provider and the clock.
ProviderInv ==
  /\ now \in Nat /\ now >= 1
  /\ quota \in [Windows -> Readings]
  /\ \A r \in restarts : r.at \in Nat /\ r.at <= now

\* The daemon.
CacheInv ==
  /\ up \in BOOLEAN
  /\ IsPast(latest_poll) /\ IsPast(latest_success)
  /\ DOMAIN observed_starts \subseteq Windows
  /\ \A w \in DOMAIN observed_starts : IsStart(observed_starts[w])
  /\ health \in [failures : Nat, error : BOOLEAN]

\* The database; a row came in with a poll at least as late.
DatabaseInv ==
  /\ IsFiniteSet(poll_event)
  /\ \A e \in poll_event : IsPast(e) /\ e.ts >= 1
  /\ \A e, f \in poll_event : e.id = f.id => e = f
  /\ \A r \in window_rollover : IsRow(r)
  /\ \A r \in window_rollover : \E e \in poll_event : r.observed_at <= e.ts
  /\ hidden \subseteq Windows

SpentInv == spent \in Bounds /\ Troubles <= MaxTroubles

BaseInv == ProviderInv /\ CacheInv /\ DatabaseInv /\ SpentInv

LEMMA TroubleSpends ==
  ASSUME SpentInv, NEW what \in {"crashes", "writes", "corrections", "retractions"},
         Trouble(what)
  PROVE  /\ SpentInv'
         /\ spent'.crashes = spent.crashes + (IF what = "crashes" THEN 1 ELSE 0)
         /\ spent'.writes = spent.writes + (IF what = "writes" THEN 1 ELSE 0)
         /\ spent'.corrections = spent.corrections
                                   + (IF what = "corrections" THEN 1 ELSE 0)
         /\ spent'.retractions = spent.retractions
                                   + (IF what = "retractions" THEN 1 ELSE 0)
         /\ spent'.reads = spent.reads
BY RecordingAssumption DEF SpentInv, Trouble, Troubles, Bounds

LEMMA CountRestartSpends ==
  ASSUME SpentInv, CountRestart
  PROVE  /\ SpentInv'
         /\ spent'.corrections = spent.corrections
         /\ spent'.retractions = spent.retractions
         /\ spent'.reads = spent.reads /\ spent'.writes = spent.writes
BY DEF SpentInv, CountRestart, Troubles, Bounds

\* What a poll finds: an event of this moment, with what the provider says.
NewEvent(e) ==
  /\ IsEvent(e) /\ e.id = now /\ e.ts = now
  /\ ~e.ok => e.windows = Empty
  /\ \A w \in DOMAIN e.windows :
       /\ e.windows[w].used = quota[w].used
       /\ e.windows[w].reset # Unset =>
            quota[w].reset # Unset /\ quota[w].reset <= e.windows[w].reset

Recorded(e) ==
  /\ up /\ ClockMovedOn /\ NewEvent(e) /\ RecordEvent(e)
  /\ UNCHANGED <<now, quota, restarts, up>>

LEMMA PollRecords ==
  ASSUME BaseInv, PollFails \/ \E carried \in SUBSET Windows : PollSucceeds(carried)
  PROVE  \E e : Recorded(e)
<1>0. now \in Nat
  BY DEF BaseInv, ProviderInv
<1>1. CASE PollFails
  <2> DEFINE e == [id |-> now, ts |-> now, ok |-> FALSE, windows |-> Empty]
  <2>1. NewEvent(e)
    BY <1>0 DEF NewEvent, IsEvent, Empty
  <2>2. up /\ ClockMovedOn /\ RecordEvent(e) /\ UNCHANGED <<now, quota, restarts, up>>
    BY <1>1 DEF PollFails, provider
  <2> HIDE DEF e
  <2>3. QED BY <2>1, <2>2 DEF Recorded
<1>2. ASSUME NEW carried \in SUBSET Windows, PollSucceeds(carried)
      PROVE  \E e : Recorded(e)
  <2> DEFINE reading(w) == [quota[w] EXCEPT !.reset = IF @ = Unset THEN Unset
                                                      ELSE @ + Drift]
             e == [id |-> now, ts |-> now, ok |-> TRUE,
                   windows |-> [w \in carried |-> reading(w)]]
  <2>1. Drift \in Nat
    <3>1. now % 2 \in {0, 1}
      BY <1>0
    <3>2. QED BY <3>1, RecordingAssumption DEF Drift
  <2>2. \A w \in carried :
          /\ reading(w) \in Readings /\ reading(w).used = quota[w].used
          /\ reading(w).reset # Unset =>
               quota[w].reset # Unset /\ quota[w].reset <= reading(w).reset
    BY <2>1 DEF BaseInv, ProviderInv, Readings, Unset
  <2>3. up /\ ClockMovedOn /\ RecordEvent(e) /\ UNCHANGED <<now, quota, restarts, up>>
    BY <1>2 DEF PollSucceeds, provider
  <2> HIDE DEF reading
  <2>4. NewEvent(e)
    BY <1>0, <2>2 DEF NewEvent, IsEvent
  <2> HIDE DEF e
  <2>5. QED BY <2>3, <2>4 DEF Recorded
<1>3. QED BY <1>1, <1>2

\* An anchor that is too old to say anything about its window.
Expired(w, start) == ~(now - Estimate(start) <= Span[w])

\* The anchors after a poll, and the rows it brings.
LEMMA RecordedAnchors ==
  ASSUME BaseInv, NEW e, Recorded(e)
  PROVE  LET rollovers == Detect(latest_success, e)
         IN  /\ DOMAIN observed_starts' \subseteq Windows
             /\ \A w \in DOMAIN observed_starts' :
                  \/ /\ w \in DOMAIN observed_starts
                     /\ observed_starts'[w] = observed_starts[w]
                     /\ \A r \in rollovers : r.window # w
                  \/ \E r \in rollovers :
                       /\ r.window = w /\ r.kind = "unannounced"
                       /\ observed_starts'[w] = FromRollover(r)
             /\ \A w \in DOMAIN observed_starts :
                  (\A r \in rollovers : r.window # w) =>
                    w \in DOMAIN observed_starts' \/ Expired(w, observed_starts[w])
             /\ \A r \in rollovers :
                  r.kind = "unannounced" =>
                    \/ r.window \in DOMAIN observed_starts'
                    \/ Expired(r.window, FromRollover(r))
<1> DEFINE rollovers == Detect(latest_success, e)
           anchored  == Anchor(observed_starts, rollovers)
<1>1. observed_starts' = PruneAnchors(anchored, e.windows, e.ts) /\ e.ts = now
  BY DEF Recorded, RecordEvent, NewEvent
<1>2. \A r, s \in rollovers : r.window = s.window => r = s
  BY DetectProperties
<1>3. \A r \in rollovers : r.window \in Windows
  BY DetectProperties DEF Recorded, NewEvent, IsEvent
<1>4. DOMAIN observed_starts \subseteq Windows
  BY DEF BaseInv, CacheInv
<1> HIDE DEF rollovers
<1>5. /\ \A w \in DOMAIN anchored :
           \/ /\ w \in DOMAIN observed_starts /\ anchored[w] = observed_starts[w]
              /\ \A r \in rollovers : r.window # w
           \/ \E r \in rollovers : /\ r.window = w /\ r.kind = "unannounced"
                                   /\ anchored[w] = FromRollover(r)
      /\ \A w \in DOMAIN observed_starts :
           (\A r \in rollovers : r.window # w)
             => w \in DOMAIN anchored /\ anchored[w] = observed_starts[w]
      /\ \A r \in rollovers :
           r.kind = "unannounced" => /\ r.window \in DOMAIN anchored
                                     /\ anchored[r.window] = FromRollover(r)
  BY <1>2, AnchorProperties
<1> HIDE DEF anchored
<1>6. DOMAIN anchored \subseteq Windows
  BY <1>3, <1>4, <1>5
<1>7. /\ DOMAIN observed_starts' \subseteq DOMAIN anchored
      /\ \A w \in DOMAIN observed_starts' : observed_starts'[w] = anchored[w]
      /\ \A w \in DOMAIN anchored :
           w \in DOMAIN observed_starts' <=>
             (w \in DOMAIN e.windows => now - Estimate(anchored[w]) <= Span[w])
  BY <1>1, <1>6, PruneProperties
<1>8. \A w \in DOMAIN anchored :
        w \in DOMAIN observed_starts' \/ ~(now - Estimate(anchored[w]) <= Span[w])
  BY <1>7
<1>9. QED BY <1>5, <1>6, <1>7, <1>8 DEF rollovers, Expired

LEMMA RecordedBase ==
  ASSUME BaseInv, NEW e, Recorded(e)
  PROVE  BaseInv'
<1>0. /\ IsEvent(e) /\ e.id = now /\ e.ts = now /\ now \in Nat /\ now >= 1
      /\ UNCHANGED <<now, quota, restarts, up>> /\ RecordEvent(e) /\ IsPast(e)
  BY DEF Recorded, NewEvent, BaseInv, ProviderInv, IsPast
<1> DEFINE rollovers == Detect(latest_success, e)
<1>1. ProviderInv'
  BY <1>0 DEF BaseInv, ProviderInv
<1>2. \A r \in rollovers : IsRow(r) /\ r.observed_at = now /\ IsStart(FromRollover(r))
  <2>1. /\ latest_success.ts \in Nat /\ latest_success.ts <= now
        /\ \A w \in DOMAIN latest_success.windows :
             w \in Windows /\ latest_success.windows[w].used \in Int
        /\ \A w \in DOMAIN e.windows : e.windows[w].used \in Int
    BY <1>0 DEF BaseInv, CacheInv, IsPast, IsEvent, Readings
  <2>2. QED BY <1>0, <2>1, DetectProperties DEF IsRow, IsStart, FromRollover
<1>3. CacheInv'
  <2>1. (DOMAIN observed_starts \subseteq Windows)'
    BY RecordedAnchors
  <2>2. (\A w \in DOMAIN observed_starts : IsStart(observed_starts[w]))'
    <3>1. \A w \in DOMAIN observed_starts' :
            \/ /\ w \in DOMAIN observed_starts
               /\ observed_starts'[w] = observed_starts[w]
            \/ \E r \in rollovers : observed_starts'[w] = FromRollover(r)
      BY RecordedAnchors
    <3>2. QED BY <1>2, <3>1 DEF BaseInv, CacheInv, IsStart
  <2>3. health' \in [failures : Nat, error : BOOLEAN]
    BY <1>0 DEF RecordEvent, Judge, Healthy, BaseInv, CacheInv
  <2>4. (IsPast(latest_poll) /\ IsPast(latest_success))'
    <3>1. latest_poll' = e /\ latest_success' \in {e, latest_success}
      BY <1>0 DEF RecordEvent
    <3>2. QED BY <1>0, <3>1 DEF BaseInv, CacheInv, IsPast, IsEvent
  <2>5. QED BY <1>0, <2>1, <2>2, <2>3, <2>4 DEF BaseInv, CacheInv
<1>4. CASE UNCHANGED database /\ Trouble("writes")
  <2>1. SpentInv'
    BY <1>4, TroubleSpends DEF BaseInv
  <2>2. DatabaseInv'
    BY <1>0, <1>4 DEF database, BaseInv, DatabaseInv, IsPast, IsEvent, IsRow
  <2>3. QED BY <1>1, <1>3, <2>1, <2>2 DEF BaseInv
<1>5. CASE Insert(e) /\ window_rollover' = window_rollover \cup rollovers
             /\ UNCHANGED spent
  <2>1. SpentInv'
    BY <1>5 DEF BaseInv, SpentInv, Troubles
  <2>2. e \in poll_event' /\ poll_event' \subseteq poll_event \cup {e}
    BY <1>5 DEF Insert
  <2>3. \A f \in poll_event : f.ts < now /\ f.id = f.ts
    BY DEF Recorded, ClockMovedOn, BaseInv, DatabaseInv, IsPast
  <2>4. IsFiniteSet(poll_event')
    <3>1. IsFiniteSet(poll_event \cup {e})
      BY FS_AddElement DEF BaseInv, DatabaseInv
    <3>2. QED BY <2>2, <3>1, FS_Subset
  <2>5. (\A f \in poll_event : IsPast(f) /\ f.ts >= 1)'
    BY <1>0, <2>2 DEF BaseInv, DatabaseInv, IsPast, IsEvent
  <2>6. (\A f, g \in poll_event : f.id = g.id => f = g)'
    <3>1. \A f \in poll_event : f.id # e.id
      BY <1>0, <2>3
    <3>2. QED BY <2>2, <3>1 DEF BaseInv, DatabaseInv
  <2>7. (\A r \in window_rollover : IsRow(r))'
    BY <1>0, <1>2, <1>5 DEF BaseInv, DatabaseInv, IsRow
  <2>8. (\A r \in window_rollover : \E f \in poll_event : r.observed_at <= f.ts)'
    <3>1. \A r \in window_rollover' : r.observed_at <= e.ts
      BY <1>0, <1>2, <1>5 DEF BaseInv, DatabaseInv, IsRow
    <3>2. QED BY <2>2, <3>1
  <2>9. hidden' \subseteq Windows
    BY <1>5 DEF Insert, BaseInv, DatabaseInv
  <2>10. DatabaseInv'
    BY <2>4, <2>5, <2>6, <2>7, <2>8, <2>9 DEF DatabaseInv
  <2>11. QED BY <1>1, <1>3, <2>1, <2>10 DEF BaseInv
<1>6. QED BY <1>0, <1>4, <1>5 DEF RecordEvent, Persist

-----------------------------------------------------------------------------
(* The replay.                                                             *)

\* The rows of a window that the replay acts on, and the one that decides.
Acting(w) ==
  {r \in window_rollover :
     /\ r.window = w
     /\ r.kind = "unannounced" => IsCollapse(r.prev_used, r.new_used)}

Decides(r, w) ==
  r \in Acting(w) /\ \A o \in Acting(w) : o.observed_at <= r.observed_at

\* The last row of a window among those that act, as `Replay` picks it.
LastOf(acting, w) ==
  CHOOSE r \in acting :
    /\ r.window = w
    /\ \A o \in acting : o.window = w => o.observed_at <= r.observed_at

LEMMA LastOfProperties ==
  ASSUME NEW acting, NEW w, NEW m \in Nat,
         \A r \in acting : r.observed_at \in Nat /\ r.observed_at <= m,
         \E r \in acting : r.window = w
  PROVE  /\ LastOf(acting, w) \in acting /\ LastOf(acting, w).window = w
         /\ \A o \in acting : o.window = w
                                => o.observed_at <= LastOf(acting, w).observed_at
<1> DEFINE S == {r.observed_at : r \in {o \in acting : o.window = w}}
<1>1. S \subseteq Nat /\ S # {} /\ \A x \in S : x <= m
  OBVIOUS
<1>2. \E x \in S : \A y \in S : y <= x
  <2> HIDE DEF S
  <2> QED BY <1>1, GreatestExists
<1>3. \E r \in acting :
        /\ r.window = w
        /\ \A o \in acting : o.window = w => o.observed_at <= r.observed_at
  BY <1>2
<1>4. QED BY <1>3, Zenon DEF LastOf

LEMMA ReplayByLast ==
  ASSUME NEW rows, NEW windows
  PROVE  LET acting == Replayed(rows, windows)
         IN  /\ \A w : w \in DOMAIN Replay(rows, windows) <=>
                         /\ \E r \in acting : r.window = w
                         /\ LastOf(acting, w).kind = "unannounced"
             /\ \A w \in DOMAIN Replay(rows, windows) :
                  Replay(rows, windows)[w] = FromRollover(LastOf(acting, w))
BY DEF Replay, LastOf

\* The anchors a daemon restores are those of the deciding rows of the windows
\* in the newest payload that have not expired; the lookback loses none.
LEMMA StoredStartsProperties ==
  ASSUME BaseInv, NEW success, DOMAIN success.windows \subseteq Windows
  PROVE  LET starts == StoredStarts(success)
         IN  /\ \A w \in DOMAIN starts :
                  /\ w \in DOMAIN success.windows /\ w \in Windows
                  /\ \E r \in Acting(w) :
                       /\ Decides(r, w) /\ r.kind = "unannounced"
                       /\ starts[w] = FromRollover(r)
                       /\ ~Expired(w, FromRollover(r))
             /\ \A w \in DOMAIN success.windows : \A r \in Acting(w) :
                  /\ Decides(r, w) /\ r.kind = "unannounced"
                  /\ ~Expired(w, FromRollover(r))
                  /\ \A o \in Acting(w) : o.observed_at = r.observed_at => o = r
                  => w \in DOMAIN starts /\ starts[w] = FromRollover(r)
<1> DEFINE rows   == {r \in window_rollover : /\ now - ANCHOR_LOOKBACK <= r.observed_at
                                              /\ r.observed_at <= now}
           acting == Replayed(rows, success.windows)
           replay == Replay(rows, success.windows)
           starts == StoredStarts(success)
<1>0. now \in Nat /\ ANCHOR_LOOKBACK \in Nat /\ Span \in [Windows -> Nat]
  BY RecordingAssumption DEF BaseInv, ProviderInv
<1>1. \A r \in window_rollover :
        /\ r.observed_at \in Nat /\ r.observed_at <= now /\ r.window \in Windows
        /\ r.prev_observed_at \in Nat /\ r.prev_observed_at <= r.observed_at
  BY DEF BaseInv, DatabaseInv, IsRow
<1>2. \A r \in acting : r \in rows /\ r \in window_rollover
  BY DEF Replayed
<1>3. \A w \in DOMAIN success.windows : \A r :
        r \in acting /\ r.window = w <=> r \in rows /\ r \in Acting(w)
  BY DEF Replayed, ReplaysAsAReset, Acting
<1>4. \A r \in acting : r.kind = "unannounced" => r.window \in DOMAIN success.windows
  BY DEF Replayed, ReplaysAsAReset
<1>5. /\ \A w : w \in DOMAIN replay <=> /\ \E r \in acting : r.window = w
                                        /\ LastOf(acting, w).kind = "unannounced"
      /\ \A w \in DOMAIN replay : replay[w] = FromRollover(LastOf(acting, w))
  <2> HIDE DEF rows
  <2> QED BY ReplayByLast
<1>6. \A r \in window_rollover :
        r \in rows <=> now - ANCHOR_LOOKBACK <= r.observed_at
  BY <1>1
<1>7. starts = PruneAnchors(replay, success.windows, now)
  BY DEF StoredStarts
<1> HIDE DEF rows, acting, replay, starts
<1>8. ASSUME NEW w, \E r \in acting : r.window = w
      PROVE  /\ LastOf(acting, w) \in acting /\ LastOf(acting, w).window = w
             /\ \A o \in acting : o.window = w
                                    => o.observed_at <= LastOf(acting, w).observed_at
  BY <1>0, <1>1, <1>2, <1>8, LastOfProperties
<1>9. DOMAIN replay \subseteq DOMAIN success.windows
  BY <1>4, <1>5, <1>8
<1>10. /\ DOMAIN starts \subseteq DOMAIN replay
       /\ \A w \in DOMAIN starts : starts[w] = replay[w]
       /\ \A w \in DOMAIN replay :
            w \in DOMAIN starts <=>
              (w \in DOMAIN success.windows => now - Estimate(replay[w]) <= Span[w])
  BY <1>7, <1>9, PruneProperties
<1>11. \A w \in DOMAIN replay : w \in DOMAIN starts <=> ~Expired(w, replay[w])
  BY <1>9, <1>10 DEF Expired
<1>12. ASSUME NEW w \in DOMAIN starts
       PROVE  /\ w \in DOMAIN success.windows /\ w \in Windows
              /\ \E r \in Acting(w) :
                   /\ Decides(r, w) /\ r.kind = "unannounced"
                   /\ starts[w] = FromRollover(r) /\ ~Expired(w, FromRollover(r))
  <2> DEFINE r == LastOf(acting, w)
  <2>1. w \in DOMAIN replay /\ w \in DOMAIN success.windows
    BY <1>9, <1>10
  <2>2. /\ r \in acting /\ r.window = w /\ r.kind = "unannounced"
        /\ \A o \in acting : o.window = w => o.observed_at <= r.observed_at
        /\ starts[w] = FromRollover(r) /\ ~Expired(w, FromRollover(r))
    BY <1>5, <1>8, <1>10, <1>11, <2>1
  <2> HIDE DEF r
  <2>3. r \in Acting(w) /\ r \in rows
    BY <1>3, <2>1, <2>2
  <2>4. \A o \in Acting(w) : o.observed_at <= r.observed_at
    <3> TAKE o \in Acting(w)
    <3>1. o \in window_rollover /\ r \in window_rollover
      BY <2>3 DEF Acting
    <3>2. CASE o \in rows
      BY <1>3, <2>1, <2>2, <3>2
    <3>3. CASE o \notin rows
      BY <1>0, <1>1, <1>6, <2>3, <3>1, <3>3
    <3>4. QED BY <3>2, <3>3
  <2>5. QED BY <2>1, <2>2, <2>3, <2>4 DEF Decides
<1>13. ASSUME NEW w \in DOMAIN success.windows, NEW r \in Acting(w),
              Decides(r, w), r.kind = "unannounced", ~Expired(w, FromRollover(r)),
              \A o \in Acting(w) : o.observed_at = r.observed_at => o = r
       PROVE  w \in DOMAIN starts /\ starts[w] = FromRollover(r)
  <2>1. r \in window_rollover /\ r.window = w /\ w \in Windows
    BY DEF Acting
  <2>2. r \in rows
    <3>1. Span[w] < ANCHOR_LOOKBACK /\ Span[w] \in Nat
      BY <2>1, <1>0, RecordingAssumption
    <3>2. /\ Estimate(FromRollover(r)) \in Int
          /\ Estimate(FromRollover(r)) <= r.observed_at
      BY <1>1, <2>1 DEF Estimate, FromRollover
    <3>3. now - Estimate(FromRollover(r)) <= Span[w]
      BY <1>13 DEF Expired
    <3>4. now - ANCHOR_LOOKBACK <= r.observed_at
      <4> DEFINE est == Estimate(FromRollover(r))
      <4>1. est \in Int /\ est <= r.observed_at /\ now - est <= Span[w]
        BY <3>2, <3>3
      <4> HIDE DEF est
      <4>2. QED BY <1>0, <1>1, <2>1, <3>1, <4>1
    <3>5. QED BY <1>6, <2>1, <3>4
  <2>3. r \in acting
    BY <1>3, <2>2
  <2> DEFINE last == LastOf(acting, w)
  <2>4. /\ last \in acting /\ last.window = w
        /\ \A o \in acting : o.window = w => o.observed_at <= last.observed_at
    BY <1>8, <2>1, <2>3
  <2>5. last \in Acting(w) /\ last \in window_rollover
    BY <1>2, <1>3, <2>4
  <2> HIDE DEF last
  <2>6. last.observed_at = r.observed_at
    <3>1. r.observed_at <= last.observed_at /\ last.observed_at <= r.observed_at
      BY <1>13, <2>1, <2>3, <2>4, <2>5 DEF Decides
    <3>2. QED BY <1>1, <2>1, <2>5, <3>1
  <2>7. last = r
    BY <1>13, <2>5, <2>6
  <2>8. w \in DOMAIN replay /\ replay[w] = FromRollover(r)
    BY <1>5, <1>13, <2>1, <2>3, <2>7 DEF last
  <2>9. QED BY <1>10, <1>11, <1>13, <2>8
<1>14. QED BY <1>12, <1>13 DEF starts

-----------------------------------------------------------------------------
(* A daemon that starts, and everything else that happens.                 *)

LEMMA NoPollIsPast ==
  ASSUME now \in Nat
  PROVE  IsPast(NoPoll) /\ DOMAIN NoPoll.windows = {}
BY DEF IsPast, IsEvent, NoPoll, Empty

LEMMA LatestStored ==
  ASSUME BaseInv, NEW events, events \subseteq poll_event
  PROVE  /\ events = {} => Latest(events) = NoPoll
         /\ events # {} => /\ Latest(events) \in events
                           /\ \A f \in events : f.id <= Latest(events).id
         /\ IsPast(Latest(events))
<1>1. now \in Nat /\ \A e \in events : IsPast(e)
  BY DEF BaseInv, ProviderInv, DatabaseInv
<1>2. CASE events = {}
  BY <1>1, <1>2, NoPollIsPast DEF Latest
<1>3. CASE events # {}
  <2>1. \A e \in events : e.id \in Nat /\ e.id <= now
    BY <1>1 DEF IsPast, IsEvent
  <2>2. QED BY <1>1, <1>3, <2>1, LatestProperties
<1>4. QED BY <1>2, <1>3

\* Only a start all of whose queries work leaves the count of failed ones.
LEMMA StartSpends ==
  ASSUME BaseInv, NEW failed \in SUBSET Queries, Start(failed)
  PROVE  /\ SpentInv'
         /\ spent'.reads = 0 => spent.reads = 0 /\ failed = {}
         /\ spent'.writes = spent.writes
         /\ spent'.corrections = spent.corrections
         /\ spent'.retractions = spent.retractions
<1>1. IsFiniteSet(failed) /\ Cardinality(failed) \in Nat
  <2>1. IsFiniteSet({"poll"})
    BY FS_Singleton
  <2>2. IsFiniteSet({"poll"} \cup {"success"})
    BY <2>1, FS_AddElement
  <2>3. IsFiniteSet(({"poll"} \cup {"success"}) \cup {"rollovers"})
    BY <2>2, FS_AddElement
  <2>4. IsFiniteSet((({"poll"} \cup {"success"}) \cup {"rollovers"}) \cup {"failures"})
    BY <2>3, FS_AddElement
  <2>5. failed \subseteq (({"poll"} \cup {"success"}) \cup {"rollovers"}) \cup {"failures"}
    BY DEF Queries
  <2>6. QED BY <2>4, <2>5, FS_Subset, FS_CardinalityType
<1>2. Cardinality(failed) = 0 => failed = {}
  BY <1>1, FS_EmptySet
<1>3. /\ spent \in Bounds
      /\ spent' = [spent EXCEPT !.reads = @ + Cardinality(failed)]
      /\ Troubles + Cardinality(failed) <= MaxTroubles
  BY DEF BaseInv, SpentInv, Start
<1>4. SpentInv'
  BY <1>1, <1>3, RecordingAssumption DEF SpentInv, Troubles, Bounds
<1>5. QED BY <1>1, <1>2, <1>3, <1>4 DEF Bounds

\* What a daemon that starts holds: polls from the database or none, and
\* anchors of deciding rows.
LEMMA StartHolds ==
  ASSUME BaseInv, NEW failed \in SUBSET Queries, Start(failed)
  PROVE  /\ UNCHANGED <<now, quota, restarts, poll_event, window_rollover, hidden>>
         /\ up' = TRUE
         /\ latest_success' \in poll_event \cup {NoPoll} /\ IsPast(latest_success')
         /\ IsPast(latest_poll')
         /\ health' \in [failures : Nat, error : BOOLEAN]
         /\ \A w \in DOMAIN observed_starts' :
              /\ w \in Windows
              /\ \E r \in Acting(w) : /\ r.kind = "unannounced"
                                      /\ observed_starts'[w] = FromRollover(r)
<1>1. /\ latest_success' \in {NoPoll, Latest(StoredSuccesses)}
      /\ latest_poll' \in {NoPoll, Latest(poll_event)}
      /\ observed_starts' \in {Empty, StoredStarts(latest_success')}
      /\ health' = [failures |-> IF "failures" \in failed THEN 0 ELSE StoredFailures,
                    error    |-> ~latest_poll'.ok]
      /\ UNCHANGED <<now, quota, restarts, poll_event, window_rollover, hidden>>
      /\ up' = TRUE
  BY DEF Start, Hydrated, provider, database
<1>2. now \in Nat /\ StoredSuccesses \subseteq poll_event
  BY DEF BaseInv, ProviderInv, StoredSuccesses
<1>3. /\ latest_success' \in poll_event \cup {NoPoll} /\ IsPast(latest_success')
      /\ IsPast(latest_poll')
  BY <1>1, <1>2, NoPollIsPast, LatestStored
<1>4. health' \in [failures : Nat, error : BOOLEAN]
  <2>1. StoredFailures \in Nat
    <3>1. IsFiniteSet({e \in poll_event : ~e.ok /\ e.id > Latest(StoredSuccesses).id})
      BY FS_Subset DEF BaseInv, DatabaseInv
    <3>2. QED BY <3>1, FS_CardinalityType DEF StoredFailures
  <2>2. QED BY <1>1, <2>1
<1>5. ASSUME NEW w \in DOMAIN observed_starts'
      PROVE  /\ w \in Windows
             /\ \E r \in Acting(w) : /\ r.kind = "unannounced"
                                     /\ observed_starts'[w] = FromRollover(r)
  <2>1. CASE observed_starts' = Empty
    BY <1>5, <2>1 DEF Empty
  <2>2. CASE observed_starts' = StoredStarts(latest_success')
    <3>1. DOMAIN latest_success'.windows \subseteq Windows
      BY <1>3 DEF IsPast, IsEvent
    <3>2. QED BY <1>5, <2>2, <3>1, StoredStartsProperties
  <2>3. QED BY <1>1, <2>1, <2>2
<1>6. QED BY <1>1, <1>3, <1>4, <1>5

LEMMA InitBase == Init => BaseInv
<1> SUFFICES ASSUME Init PROVE BaseInv
  OBVIOUS
<1>1. now = 1 /\ hidden = {} /\ Healthy \in [failures : Nat, error : BOOLEAN]
  BY DEF Init, Healthy
<1>2. CacheInv
  <2>1. up \in BOOLEAN
    BY Zenon DEF Init
  <2>2. QED BY <1>1, <2>1, NoPollIsPast DEF Init, CacheInv, Empty
<1>3. SpentInv
  BY RecordingAssumption DEF Init, SpentInv, Bounds, Troubles
<1>4. CASE /\ poll_event = {} /\ window_rollover = {} /\ restarts = {}
           /\ quota = [w \in Windows |-> [used |-> 0, reset |-> Unset]]
  <2>1. ProviderInv
    BY <1>1, <1>4 DEF ProviderInv, Readings, Unset
  <2>2. DatabaseInv
    BY <1>1, <1>4, FS_EmptySet DEF DatabaseInv
  <2>3. QED BY <1>2, <1>3, <2>1, <2>2 DEF BaseInv
<1>5. ASSUME NEW w \in Windows, NEW prev_used \in Nat, NEW new_used \in 0 .. 100,
             OldDatabase(w, prev_used, new_used),
             restarts \in {{}, {[window |-> w, at |-> 0, kind |-> "silent"]}}
      PROVE  BaseInv
  <2>0. Span[w] \in Nat
    BY RecordingAssumption
  <2>1. IsPast(OldPoll(w, new_used)) /\ OldPoll(w, new_used).ts = 1
    BY <1>1, <2>0 DEF IsPast, IsEvent, OldPoll, Readings
  <2>2. IsRow(OldRow(w, prev_used, new_used)) /\ OldRow(w, prev_used, new_used).observed_at = 1
    BY <1>1 DEF IsRow, OldRow
  <2>3. DatabaseInv
    <3>1. /\ poll_event = {OldPoll(w, new_used)}
          /\ window_rollover = {OldRow(w, prev_used, new_used)}
      BY <1>5 DEF OldDatabase
    <3>2. IsFiniteSet(poll_event)
      BY <3>1, FS_Singleton
    <3>3. QED BY <1>1, <2>1, <2>2, <3>1, <3>2 DEF DatabaseInv
  <2>4. quota \in [Windows -> Readings]
    <3>1. OldPoll(w, new_used).windows[w] \in Readings
      BY <2>0 DEF OldPoll, Readings
    <3>2. [used |-> 0, reset |-> Unset] \in Readings
      BY DEF Readings, Unset
    <3>3. QED BY <1>5, <3>1, <3>2 DEF OldDatabase
  <2>5. ProviderInv
    BY <1>1, <1>5, <2>4 DEF ProviderInv
  <2>6. QED BY <1>2, <1>3, <2>3, <2>5 DEF BaseInv
<1>6. QED BY <1>4, <1>5 DEF Init

\* What a step outside the daemon does to the windows.
LEMMA ProviderSteps ==
  ASSUME BaseInv, Provider
  PROVE  /\ UNCHANGED <<now, up, cache, database>> /\ SpentInv'
         /\ quota' \in [Windows -> Readings]
         /\ spent'.reads = spent.reads /\ spent'.writes = spent.writes
         /\ spent.retractions <= spent'.retractions
         /\ \E w \in Windows :
              /\ \A v \in Windows \ {w} : quota'[v] = quota[v]
              /\ \/ \* used, idle before or not
                    /\ spent' = spent /\ quota[w].used <= quota'[w].used
                    /\ \/ restarts' = restarts /\ quota'[w].reset = quota[w].reset
                       \/ /\ restarts' = restarts \cup
                               {[window |-> w, at |-> now, kind |-> "opened"]}
                          /\ quota'[w].reset = now + Span[w]
                 \/ \* restarted
                    /\ spent'.corrections = spent.corrections
                    /\ spent'.retractions = spent.retractions
                    /\ \/ /\ restarts' = restarts \cup
                               {[window |-> w, at |-> now, kind |-> "announced"]}
                          /\ quota'[w].reset \in {Unset, now + Span[w]}
                       \/ /\ restarts' = restarts \cup
                               {[window |-> w, at |-> now, kind |-> "silent"]}
                          /\ quota'[w].reset = quota[w].reset
                 \/ \* corrected
                    /\ restarts' = restarts /\ quota'[w].reset = quota[w].reset
                    /\ spent'.corrections = spent.corrections + 1
                    /\ spent'.retractions = spent.retractions
                    /\ quota'[w].used = quota[w].used - CORRECTION
                 \/ \* retracted
                    /\ restarts' = restarts /\ quota'[w].used = quota[w].used
                    /\ spent'.corrections = spent.corrections
                    /\ spent'.retractions = spent.retractions + 1
<1>0. /\ quota \in [Windows -> Readings] /\ now \in Nat /\ SpentInv
      /\ spent \in Bounds /\ Span \in [Windows -> Nat] /\ CORRECTION \in Nat
      /\ RESET_TOLERANCE \in Nat /\ Levels \subseteq 0 .. 100
  BY RecordingAssumption DEF BaseInv, ProviderInv, SpentInv
<1>1. UNCHANGED <<now, up, cache, database>>
  BY DEF Provider, Use, RollOver, RestartSilently, Correct, Retract
<1>2. ASSUME NEW w \in Windows, NEW level \in Levels, Use(w, level)
      PROVE  /\ quota' \in [Windows -> Readings] /\ spent' = spent
             /\ \A v \in Windows \ {w} : quota'[v] = quota[v]
             /\ quota[w].used <= quota'[w].used
             /\ \/ restarts' = restarts /\ quota'[w].reset = quota[w].reset
                \/ /\ restarts' = restarts \cup
                        {[window |-> w, at |-> now, kind |-> "opened"]}
                   /\ quota'[w].reset = now + Span[w]
  BY <1>0, <1>2 DEF Use, Happens, Readings
<1>3. ASSUME NEW w \in Windows, NEW idle \in BOOLEAN, RollOver(w, idle)
      PROVE  /\ quota' \in [Windows -> Readings]
             /\ \A v \in Windows \ {w} : quota'[v] = quota[v]
             /\ restarts' = restarts \cup
                  {[window |-> w, at |-> now, kind |-> "announced"]}
             /\ quota'[w].reset \in {Unset, now + Span[w]}
  BY <1>0, <1>3 DEF RollOver, Happens, Readings, Unset
<1>4. ASSUME NEW w \in Windows, RestartSilently(w)
      PROVE  /\ quota' \in [Windows -> Readings]
             /\ \A v \in Windows \ {w} : quota'[v] = quota[v]
             /\ restarts' = restarts \cup
                  {[window |-> w, at |-> now, kind |-> "silent"]}
             /\ quota'[w].reset = quota[w].reset
  BY <1>0, <1>4 DEF RestartSilently, Happens, Readings
<1>5. ASSUME NEW w \in Windows, Correct(w)
      PROVE  /\ quota' \in [Windows -> Readings] /\ restarts' = restarts
             /\ \A v \in Windows \ {w} : quota'[v] = quota[v]
             /\ quota'[w].reset = quota[w].reset
             /\ quota'[w].used = quota[w].used - CORRECTION
  <2> DEFINE after == [quota[w] EXCEPT !.used = @ - CORRECTION]
  <2>1. quota[w] \in Readings /\ quota[w].used >= CORRECTION
    BY <1>0, <1>5 DEF Correct
  <2>2. /\ after \in Readings /\ after.reset = quota[w].reset
        /\ after.used = quota[w].used - CORRECTION
    <3>1. quota[w].used - CORRECTION \in 0 .. 100
      BY <1>0, <2>1 DEF Readings
    <3> DEFINE used == quota[w].used - CORRECTION
    <3> HIDE DEF used
    <3>2. [quota[w] EXCEPT !.used = used] = after
      BY DEF used
    <3>3. /\ [quota[w] EXCEPT !.used = used].reset = quota[w].reset
          /\ [quota[w] EXCEPT !.used = used].used = used
          /\ used \in 0 .. 100 => [quota[w] EXCEPT !.used = used] \in Readings
      BY <2>1 DEF Readings
    <3>4. QED BY <3>1, <3>2, <3>3 DEF used
  <2>3. quota' = [quota EXCEPT ![w] = after] /\ restarts' = restarts
    BY <1>5 DEF Correct
  <2> HIDE DEF after
  <2>4. QED BY <1>0, <2>2, <2>3
<1>6. ASSUME NEW w \in Windows, Retract(w)
      PROVE  /\ quota' \in [Windows -> Readings] /\ restarts' = restarts
             /\ \A v \in Windows \ {w} : quota'[v] = quota[v]
             /\ quota'[w].used = quota[w].used
  BY <1>0, <1>6 DEF Retract, Readings
<1>7. CASE \E w \in Windows, level \in Levels : Use(w, level)
  <2>1. PICK w \in Windows, level \in Levels : Use(w, level)
    BY <1>7
  <2>2. spent' = spent /\ SpentInv'
    BY <1>0, <1>2, <2>1 DEF SpentInv, Troubles
  <2>3. QED BY <1>0, <1>1, <1>2, <2>1, <2>2 DEF Bounds
<1>8. CASE \E w \in Windows :
             RestartSilently(w) \/ \E idle \in BOOLEAN : RollOver(w, idle)
  <2>1. PICK w \in Windows :
          RestartSilently(w) \/ \E idle \in BOOLEAN : RollOver(w, idle)
    BY <1>8
  <2>2. CountRestart
    BY <2>1 DEF RestartSilently, RollOver
  <2>3. /\ SpentInv'
        /\ spent'.corrections = spent.corrections
        /\ spent'.retractions = spent.retractions
        /\ spent'.reads = spent.reads /\ spent'.writes = spent.writes
    BY <1>0, <2>2, CountRestartSpends
  <2>4. QED BY <1>0, <1>1, <1>3, <1>4, <2>1, <2>3 DEF Bounds
<1>9. CASE \E w \in Windows : Correct(w)
  <2>1. PICK w \in Windows : Correct(w)
    BY <1>9
  <2>2. Trouble("corrections")
    BY <2>1 DEF Correct
  <2>3. QED BY <1>0, <1>1, <1>5, <2>1, <2>2, TroubleSpends DEF Bounds
<1>10. CASE \E w \in Windows : Retract(w)
  <2>1. PICK w \in Windows : Retract(w)
    BY <1>10
  <2>2. Trouble("retractions")
    BY <2>1 DEF Retract
  <2>3. QED BY <1>0, <1>1, <1>6, <2>1, <2>2, TroubleSpends DEF Bounds
<1>11. QED BY <1>7, <1>8, <1>9, <1>10 DEF Provider

LEMMA NextBase == BaseInv /\ [Next]_vars => BaseInv'
<1> SUFFICES ASSUME BaseInv, [Next]_vars PROVE BaseInv'
  OBVIOUS
<1>1. CASE PollFails \/ \E carried \in SUBSET Windows : PollSucceeds(carried)
  BY <1>1, PollRecords, RecordedBase
<1>2. CASE Crash
  <2>1. SpentInv'
    BY <1>2, TroubleSpends DEF Crash, BaseInv
  <2>2. /\ UNCHANGED <<now, quota, restarts, poll_event, window_rollover, hidden>>
        /\ latest_poll' = NoPoll /\ latest_success' = NoPoll
        /\ observed_starts' = Empty /\ health' = Healthy
    BY <1>2 DEF Crash, provider, database
  <2>3. up' \in BOOLEAN
    BY <1>2, Zenon DEF Crash
  <2>4. (ProviderInv /\ DatabaseInv)'
    BY <2>2 DEF BaseInv, ProviderInv, DatabaseInv, IsPast, IsEvent, IsRow
  <2>5. (IsPast(latest_poll) /\ IsPast(latest_success))'
    BY <2>2, NoPollIsPast DEF BaseInv, ProviderInv, IsPast, IsEvent
  <2>6. CacheInv'
    BY <2>2, <2>3, <2>5 DEF CacheInv, Empty, Healthy
  <2>7. QED BY <2>1, <2>4, <2>6 DEF BaseInv
<1>3. ASSUME NEW failed \in SUBSET Queries, Start(failed) PROVE BaseInv'
  <2>1. SpentInv'
    BY <1>3, StartSpends
  <2>2. /\ UNCHANGED <<now, quota, restarts, poll_event, window_rollover, hidden>>
        /\ IsPast(latest_success') /\ IsPast(latest_poll')
        /\ health' \in [failures : Nat, error : BOOLEAN] /\ up' = TRUE
    BY <1>3, StartHolds
  <2>3. \A w \in DOMAIN observed_starts' : w \in Windows /\ IsStart(observed_starts'[w])
    <3> TAKE w \in DOMAIN observed_starts'
    <3>1. w \in Windows
      BY <1>3, StartHolds
    <3>2. PICK r \in Acting(w) : observed_starts'[w] = FromRollover(r)
      BY <1>3, StartHolds
    <3>3. IsRow(r)
      BY DEF Acting, BaseInv, DatabaseInv
    <3>4. QED BY <3>1, <3>2, <3>3 DEF IsRow, IsStart, FromRollover
  <2>4. (ProviderInv /\ DatabaseInv)'
    BY <2>2 DEF BaseInv, ProviderInv, DatabaseInv, IsPast, IsEvent, IsRow
  <2>5. (IsPast(latest_success) /\ IsPast(latest_poll))'
    BY <2>2 DEF IsPast, IsEvent
  <2>6. CacheInv'
    BY <2>2, <2>3, <2>5 DEF CacheInv
  <2>7. QED BY <2>1, <2>4, <2>6 DEF BaseInv
<1>4. CASE Provider
  <2>1. UNCHANGED <<now, up, cache, database>> /\ SpentInv'
    BY <1>4, ProviderSteps
  <2>2. CacheInv' /\ DatabaseInv'
    BY <2>1 DEF cache, database, BaseInv, CacheInv, DatabaseInv, IsPast, IsEvent, IsRow
  <2>3. quota' \in [Windows -> Readings]
    BY <1>4, ProviderSteps
  <2>4. \A r \in restarts' : r.at \in Nat /\ r.at <= now
    <3>1. PICK w, kind : restarts' \subseteq
            restarts \cup {[window |-> w, at |-> now, kind |-> kind]}
      BY <1>4, ProviderSteps
    <3>2. QED BY <3>1 DEF BaseInv, ProviderInv
  <2>5. ProviderInv'
    BY <2>1, <2>3, <2>4 DEF BaseInv, ProviderInv
  <2>6. QED BY <2>1, <2>2, <2>5 DEF BaseInv
<1>5. CASE Tick \/ UNCHANGED vars
  <2>1. /\ UNCHANGED <<quota, restarts, up, latest_poll, latest_success, health>>
        /\ UNCHANGED <<observed_starts, poll_event, window_rollover, hidden, spent>>
        /\ now' \in {now, now + 1}
    BY <1>5 DEF Tick, vars, provider, cache, database
  <2>2. now' \in Nat /\ now <= now'
    BY <2>1 DEF BaseInv, ProviderInv
  <2>3. ProviderInv'
    BY <2>1, <2>2 DEF BaseInv, ProviderInv
  <2>4. \A e : IsPast(e) => IsPast(e)'
    BY <2>2 DEF IsPast, IsEvent, BaseInv, ProviderInv
  <2>5. \A r : IsRow(r) => IsRow(r)'
    BY <2>2 DEF IsRow, BaseInv, ProviderInv
  <2>6. CacheInv'
    BY <2>1, <2>4 DEF BaseInv, CacheInv
  <2>7. DatabaseInv'
    BY <2>1, <2>4, <2>5 DEF BaseInv, DatabaseInv
  <2>8. SpentInv'
    BY <2>1 DEF BaseInv, SpentInv, Troubles
  <2>9. QED BY <2>3, <2>6, <2>7, <2>8 DEF BaseInv
<1>6. QED BY <1>1, <1>2, <1>3, <1>4, <1>5 DEF Next, Daemon

LEMMA SpecBase == Spec => []BaseInv
BY InitBase, NextBase, PTL DEF Spec

\* Every variable keeps its type; in particular a bracket's ends are in order.
THEOREM RecordingTypeCorrect == Spec => []TypeOK
<1>1. BaseInv => TypeOK
  BY DEF BaseInv, ProviderInv, CacheInv, DatabaseInv, TypeOK, IsPast, IsRow, IsStart
<1>2. QED BY SpecBase, <1>1, PTL

-----------------------------------------------------------------------------
(* Health.                                                                 *)

\* The stored failures are counted from the newest success, so there are some
\* exactly when the newest poll failed.
LEMMA StoredHealth ==
  ASSUME BaseInv
  PROVE  StoredFailures \in Nat /\ (StoredFailures > 0) = ~Latest(poll_event).ok
<1> DEFINE last   == Latest(poll_event)
           good   == Latest(StoredSuccesses)
           failed == {e \in poll_event : ~e.ok /\ e.id > good.id}
<1>1. IsFiniteSet(failed)
  BY FS_Subset DEF BaseInv, DatabaseInv
<1>2. /\ Cardinality(failed) \in Nat /\ StoredFailures = Cardinality(failed)
      /\ Cardinality(failed) = 0 <=> failed = {}
  BY <1>1, FS_CardinalityType, FS_EmptySet DEF StoredFailures
<1>3. \A e \in poll_event : e.id \in Nat /\ e.id >= 1 /\ e.ok \in BOOLEAN
  BY DEF BaseInv, DatabaseInv, IsPast, IsEvent
<1>4. StoredSuccesses \subseteq poll_event
  BY DEF StoredSuccesses
<1>5. failed # {} <=> ~last.ok
  <2>1. CASE poll_event = {}
    <3>1. last.ok = TRUE
      BY <2>1, LatestStored DEF NoPoll
    <3>2. QED BY <2>1, <3>1
  <2>2. CASE poll_event # {}
    <3>1. last \in poll_event /\ \A f \in poll_event : f.id <= last.id
      BY <2>2, LatestStored
    <3>2. CASE last.ok
      <4>1. last \in StoredSuccesses
        BY <3>1, <3>2 DEF StoredSuccesses
      <4>2. good \in poll_event /\ last.id <= good.id
        BY <1>4, <4>1, LatestStored
      <4> HIDE DEF last, good
      <4>3. failed = {}
        BY <1>3, <3>1, <4>2
      <4>4. QED BY <3>2, <4>3
    <3>3. CASE ~last.ok
      <4>1. good.id < last.id
        <5>1. CASE StoredSuccesses = {}
          <6>1. good.id = 0
            BY <1>4, <5>1, LatestStored DEF NoPoll
          <6>2. QED BY <1>3, <3>1, <6>1
        <5>2. CASE StoredSuccesses # {}
          <6>1. good \in StoredSuccesses
            BY <1>4, <5>2, LatestStored
          <6>2. good \in poll_event /\ good.ok
            BY <6>1 DEF StoredSuccesses
          <6>3. good.id # last.id
            BY <3>1, <3>3, <6>2 DEF BaseInv, DatabaseInv
          <6> HIDE DEF good, last
          <6>4. QED BY <1>3, <3>1, <6>2, <6>3
        <5>3. QED BY <5>1, <5>2
      <4>2. good.id \in Int
        BY <1>4, LatestStored DEF IsPast, IsEvent
      <4>3. last \in failed
        <5> HIDE DEF good, last
        <5> QED BY <1>3, <3>1, <3>3, <4>1, <4>2
      <4>4. QED BY <3>3, <4>3
    <3>4. QED BY <3>2, <3>3
  <2>3. QED BY <2>1, <2>2
<1>6. QED BY <1>2, <1>5

\* What a daemon holds before any poll, and after a failed one.
LEMMA JudgedHealth ==
  /\ (Healthy.failures > 0) = Healthy.error
  /\ \A n \in Nat : LET h == [failures |-> n + 1, error |-> TRUE]
                   IN  (h.failures > 0) = h.error
<1>1. Healthy.failures = 0 /\ Healthy.error = FALSE
  BY DEF Healthy
<1>2. (Healthy.failures > 0) = FALSE
  <2>1. ~(Healthy.failures > 0)
    BY <1>1
  <2>2. QED BY <2>1
<1>3. ASSUME NEW n \in Nat
      PROVE  ([failures |-> n + 1, error |-> TRUE].failures > 0)
               = [failures |-> n + 1, error |-> TRUE].error
  <2>1. [failures |-> n + 1, error |-> TRUE].error = TRUE
    OBVIOUS
  <2>2. [failures |-> n + 1, error |-> TRUE].failures > 0
    OBVIOUS
  <2>3. QED BY <2>1, <2>2, Zenon
<1>4. QED BY <1>1, <1>2, <1>3, Zenon

\* The error and the counter describe the same stretch of failures, also in a
\* daemon that was started in the middle of one and after lost writes.
THEOREM HealthCorrect == Spec => []HealthAgrees
<1>1. Init => HealthAgrees
  BY JudgedHealth, Zenon DEF Init, HealthAgrees
<1>2. BaseInv /\ HealthAgrees /\ [Next]_vars => HealthAgrees'
  <2> SUFFICES ASSUME BaseInv, HealthAgrees, [Next]_vars PROVE HealthAgrees'
    OBVIOUS
  <2>1. CASE PollFails \/ \E carried \in SUBSET Windows : PollSucceeds(carried)
    <3>1. PICK e : Judge(e)
      BY <2>1, PollRecords DEF Recorded, RecordEvent
    <3>2. health.failures \in Nat
      BY DEF BaseInv, CacheInv
    <3>3. \/ health' = Healthy
          \/ health' = [failures |-> health.failures + 1, error |-> TRUE]
      BY <3>1 DEF Judge
    <3>4. QED BY <3>2, <3>3, JudgedHealth, Zenon DEF HealthAgrees
  <2>2. CASE Crash
    BY <2>2, JudgedHealth, Zenon DEF Crash, HealthAgrees
  <2>3. ASSUME NEW failed \in SUBSET Queries, Start(failed) PROVE HealthAgrees'
    <3> SUFFICES ASSUME spent'.reads = 0
                 PROVE  (health'.failures > 0) = health'.error
      BY DEF HealthAgrees
    <3>1. failed = {}
      BY <2>3, StartSpends
    <3>2. health' = [failures |-> StoredFailures, error |-> ~Latest(poll_event).ok]
      BY <2>3, <3>1 DEF Start, Hydrated
    <3>3. QED BY <3>2, StoredHealth
  <2>4. CASE Provider
    BY <2>4, ProviderSteps DEF HealthAgrees, cache
  <2>5. CASE Tick \/ UNCHANGED vars
    BY <2>5 DEF Tick, vars, cache, HealthAgrees
  <2>6. QED BY <2>1, <2>2, <2>3, <2>4, <2>5 DEF Next, Daemon
<1>3. QED BY <1>1, <1>2, SpecBase, PTL DEF Spec

-----------------------------------------------------------------------------
(* Anchors are real.                                                       *)

RestartWithin(w, from, to) ==
  \E r \in restarts : /\ r.window = w /\ r.kind # "opened"
                      /\ from <= r.at /\ r.at <= to

\* Usage below a remembered reading is explained by the corrections, unless
\* the window restarted since.
Explained(e) ==
  \A w \in DOMAIN e.windows :
    \/ RestartWithin(w, e.ts, now)
    \/ e.windows[w].used - quota[w].used <= CORRECTION * spent.corrections

RealInv ==
  /\ AnchorIsReal
  /\ \A r \in window_rollover :
       r.kind = "unannounced" /\ IsCollapse(r.prev_used, r.new_used)
         => RestartWithin(r.window, r.prev_observed_at, r.observed_at)
  /\ Explained(latest_success)
  /\ \A e \in poll_event : Explained(e)

\* What one poll changes, as far as the database and the bounds go.
LEMMA RecordedStores ==
  ASSUME BaseInv, NEW e, Recorded(e)
  PROVE  /\ poll_event' \subseteq poll_event \cup {e}
         /\ window_rollover' \subseteq window_rollover \cup Detect(latest_success, e)
         /\ latest_success' \in {e, latest_success}
         /\ spent'.corrections = spent.corrections
         /\ spent'.retractions = spent.retractions
<1>1. \/ UNCHANGED database /\ Trouble("writes")
      \/ /\ Insert(e) /\ UNCHANGED spent
         /\ window_rollover' = window_rollover \cup Detect(latest_success, e)
  BY DEF Recorded, RecordEvent, Persist
<1>2. latest_success' \in {e, latest_success}
  BY DEF Recorded, RecordEvent
<1>3. CASE UNCHANGED database /\ Trouble("writes")
  <2>1. /\ spent'.corrections = spent.corrections + 0
        /\ spent'.retractions = spent.retractions + 0
    BY <1>3, TroubleSpends DEF BaseInv
  <2>2. spent.corrections \in Nat /\ spent.retractions \in Nat
    BY DEF BaseInv, SpentInv, Bounds
  <2>3. QED BY <1>2, <1>3, <2>1, <2>2 DEF database
<1>4. CASE /\ Insert(e) /\ UNCHANGED spent
           /\ window_rollover' = window_rollover \cup Detect(latest_success, e)
  BY <1>2, <1>4 DEF Insert
<1>5. QED BY <1>1, <1>3, <1>4

LEMMA ProductMonotonic ==
  ASSUME NEW a \in Nat, NEW b \in Nat, NEW c \in Nat, b <= c
  PROVE  a * b <= a * c /\ a * b \in Nat /\ a * (b + 1) = a * b + a
<1>1. PICK d \in Nat : c = b + d
  <2>1. c - b \in Nat /\ c = b + (c - b)
    OBVIOUS
  <2>2. QED BY <2>1
<1>2. a * (b + d) = a * b + a * d /\ a * d \in Nat /\ a * b \in Nat
  OBVIOUS
<1>3. QED BY <1>1, <1>2

\* All corrections together are too small to be taken for a restart.
LEMMA CorrectionsAreSmall ==
  ASSUME BaseInv
  PROVE  /\ CORRECTION * spent.corrections \in Nat
         /\ CORRECTION * spent.corrections < MIN_RESET_DROP
         /\ CORRECTION * (spent.corrections + 1)
              = CORRECTION * spent.corrections + CORRECTION
<1>1. /\ spent.corrections \in Nat /\ spent.corrections <= MaxTroubles
      /\ CORRECTION \in Nat /\ MaxTroubles \in Nat /\ MIN_RESET_DROP \in Nat
      /\ CORRECTION * MaxTroubles < MIN_RESET_DROP
  BY RecordingAssumption DEF BaseInv, SpentInv, Troubles, Bounds
<1> DEFINE c == spent.corrections
<1>2. /\ CORRECTION * c <= CORRECTION * MaxTroubles /\ CORRECTION * c \in Nat
      /\ CORRECTION * (c + 1) = CORRECTION * c + CORRECTION
  BY <1>1, ProductMonotonic
<1>3. CORRECTION * MaxTroubles \in Nat
  BY <1>1, ProductMonotonic
<1> DEFINE x == CORRECTION * c
           y == CORRECTION * MaxTroubles
<1>4. x \in Nat /\ y \in Nat /\ x <= y /\ y < MIN_RESET_DROP
  BY <1>1, <1>2, <1>3
<1> HIDE DEF x, y
<1>5. x < MIN_RESET_DROP
  BY <1>1, <1>4
<1>6. QED BY <1>2, <1>5 DEF x

\* A collapse is the trace of a restart between the two readings.
LEMMA CollapseIsReal ==
  ASSUME BaseInv, Explained(latest_success), NEW e, Recorded(e),
         NEW r \in Detect(latest_success, e), r.kind = "unannounced"
  PROVE  RestartWithin(r.window, latest_success.ts, now)
<1> DEFINE w == r.window
<1>1. /\ w \in DOMAIN latest_success.windows /\ w \in DOMAIN e.windows
      /\ IsCollapse(latest_success.windows[w].used, e.windows[w].used)
  BY DetectProperties
<1>2. e.windows[w].used = quota[w].used
  BY <1>1 DEF Recorded, NewEvent
<1>3. latest_success.windows[w].used - quota[w].used >= MIN_RESET_DROP
  BY <1>1, <1>2 DEF IsCollapse
<1>4. /\ latest_success.windows[w].used \in Int /\ quota[w].used \in Int
      /\ MIN_RESET_DROP \in Nat
  <2>1. w \in Windows /\ latest_success.windows[w] \in Readings
    BY <1>1 DEF BaseInv, CacheInv, IsPast, IsEvent
  <2>2. quota[w] \in Readings
    BY <2>1 DEF BaseInv, ProviderInv
  <2>3. QED BY <2>1, <2>2, RecordingAssumption DEF Readings
<1>5. ~(latest_success.windows[w].used - quota[w].used
          <= CORRECTION * spent.corrections)
  <2> DEFINE x == CORRECTION * spent.corrections
  <2>1. x \in Nat /\ x < MIN_RESET_DROP
    BY CorrectionsAreSmall
  <2> HIDE DEF x
  <2>2. ~(latest_success.windows[w].used - quota[w].used <= x)
    BY <1>3, <1>4, <2>1
  <2>3. QED BY <2>2 DEF x
<1>6. QED BY <1>1, <1>5 DEF Explained

LEMMA RecordedReal ==
  ASSUME BaseInv, RealInv, NEW e, Recorded(e)
  PROVE  RealInv'
<1>0. /\ UNCHANGED <<now, quota, restarts>> /\ now \in Nat /\ e.ts = now
      /\ spent'.corrections = spent.corrections
  BY RecordedStores DEF Recorded, NewEvent, BaseInv, ProviderInv
<1>1. \A w, from, to : RestartWithin(w, from, to) => RestartWithin(w, from, to)'
  BY <1>0 DEF RestartWithin
<1>2. \A r \in Detect(latest_success, e) :
        r.kind = "unannounced" =>
          /\ RestartWithin(r.window, r.prev_observed_at, r.observed_at)
          /\ r.prev_observed_at = FromRollover(r).not_before
          /\ r.observed_at = FromRollover(r).not_after
  BY <1>0, CollapseIsReal, DetectProperties DEF RealInv, FromRollover
<1>3. AnchorIsReal'
  <2> SUFFICES ASSUME NEW w \in DOMAIN observed_starts'
               PROVE  \E r \in restarts :
                        /\ r.window = w /\ r.kind # "opened"
                        /\ observed_starts'[w].not_before <= r.at
                        /\ r.at <= observed_starts'[w].not_after
    BY <1>0 DEF AnchorIsReal
  <2>1. CASE /\ w \in DOMAIN observed_starts
             /\ observed_starts'[w] = observed_starts[w]
    BY <2>1 DEF RealInv, AnchorIsReal
  <2>2. CASE \E r \in Detect(latest_success, e) :
               /\ r.window = w /\ r.kind = "unannounced"
               /\ observed_starts'[w] = FromRollover(r)
    BY <1>2, <2>2 DEF RestartWithin
  <2>3. QED BY <2>1, <2>2, RecordedAnchors
<1>4. (\A r \in window_rollover :
         r.kind = "unannounced" /\ IsCollapse(r.prev_used, r.new_used)
           => RestartWithin(r.window, r.prev_observed_at, r.observed_at))'
  BY <1>1, <1>2, RecordedStores DEF RealInv
<1>5. \A f : Explained(f) => Explained(f)'
  BY <1>0 DEF Explained, RestartWithin
<1>6. Explained(e)'
  <2>1. \A w \in DOMAIN e.windows : /\ e.windows[w].used = quota[w].used
                                    /\ quota[w].used \in Int
    BY DEF Recorded, NewEvent, IsEvent, Readings
  <2>2. \A w \in DOMAIN e.windows :
          e.windows[w].used - quota[w].used <= CORRECTION * spent.corrections
    <3>1. \A w \in DOMAIN e.windows : e.windows[w].used - quota[w].used = 0
      BY <2>1
    <3>2. CORRECTION * spent.corrections \in Nat
      BY CorrectionsAreSmall
    <3> DEFINE x == CORRECTION * spent.corrections
    <3> HIDE DEF x
    <3>3. \A w \in DOMAIN e.windows : e.windows[w].used - quota[w].used <= x
      BY <3>1, <3>2 DEF x
    <3>4. QED BY <3>3 DEF x
  <2>3. QED BY <1>0, <2>2 DEF Explained
<1>7. Explained(latest_success)' /\ (\A f \in poll_event : Explained(f))'
  <2>1. latest_success' \in {e, latest_success} /\ poll_event' \subseteq poll_event \cup {e}
    BY RecordedStores
  <2>2. \A f \in poll_event' : Explained(f)'
    BY <1>5, <1>6, <2>1 DEF RealInv
  <2>3. Explained(latest_success)'
    <3>1. CASE latest_success' = e
      BY <1>6, <3>1 DEF Explained, RestartWithin
    <3>2. CASE latest_success' = latest_success
      BY <1>0, <3>2 DEF RealInv, Explained, RestartWithin
    <3>3. QED BY <2>1, <3>1, <3>2
  <2>4. QED BY <2>2, <2>3
<1>8. QED BY <1>3, <1>4, <1>7 DEF RealInv

LEMMA InitReal == Init => RealInv
<1> SUFFICES ASSUME Init PROVE RealInv
  OBVIOUS
<1>0. now = 1 /\ BaseInv
  BY InitBase DEF Init
<1>1. AnchorIsReal /\ Explained(latest_success)
  <2>1. DOMAIN observed_starts = {} /\ DOMAIN latest_success.windows = {}
    BY DEF Init, NoPoll, Empty
  <2>2. QED BY <2>1 DEF AnchorIsReal, Explained
<1>2. CASE poll_event = {} /\ window_rollover = {}
  BY <1>1, <1>2 DEF RealInv
<1>3. ASSUME NEW w \in Windows, NEW prev_used \in Nat, NEW new_used \in 0 .. 100,
             OldDatabase(w, prev_used, new_used),
             \/ restarts = {[window |-> w, at |-> 0, kind |-> "silent"]}
             \/ ~IsCollapse(prev_used, new_used)
      PROVE  RealInv
  <2>1. /\ poll_event = {OldPoll(w, new_used)}
        /\ window_rollover = {OldRow(w, prev_used, new_used)}
        /\ quota[w] = OldPoll(w, new_used).windows[w]
    BY <1>3 DEF OldDatabase
  <2>2. \A r \in window_rollover :
          r.kind = "unannounced" /\ IsCollapse(r.prev_used, r.new_used)
            => RestartWithin(r.window, r.prev_observed_at, r.observed_at)
    <3> DEFINE r == OldRow(w, prev_used, new_used)
    <3>1. /\ r.window = w /\ r.prev_observed_at = 0 /\ r.observed_at = 1
          /\ r.prev_used = prev_used /\ r.new_used = new_used
      BY DEF OldRow
    <3>2. IsCollapse(prev_used, new_used) => RestartWithin(w, 0, 1)
      <4> DEFINE silent == [window |-> w, at |-> 0, kind |-> "silent"]
      <4>1. silent.window = w /\ silent.at = 0 /\ silent.kind = "silent"
        OBVIOUS
      <4>2. IsCollapse(prev_used, new_used) => silent \in restarts
        BY <1>3
      <4> HIDE DEF silent
      <4>3. QED BY <4>1, <4>2 DEF RestartWithin
    <3> HIDE DEF r
    <3>3. QED BY <2>1, <3>1, <3>2 DEF r
  <2>3. \A e \in poll_event : Explained(e)
    <3> SUFFICES ASSUME NEW e \in poll_event, NEW v \in DOMAIN e.windows
                 PROVE  e.windows[v].used - quota[v].used
                          <= CORRECTION * spent.corrections
      BY DEF Explained
    <3>1. v = w /\ e.windows[v] = quota[v] /\ quota[v].used \in Int
      BY <2>1 DEF OldPoll
    <3> DEFINE x == CORRECTION * spent.corrections
    <3>2. x \in Nat
      BY <1>0, CorrectionsAreSmall
    <3> HIDE DEF x
    <3>3. e.windows[v].used - quota[v].used <= x
      BY <3>1, <3>2
    <3>4. QED BY <3>3 DEF x
  <2>4. QED BY <1>1, <2>2, <2>3 DEF RealInv
<1>4. ~IsCollapse(90, 60)
  BY DEF IsCollapse
<1>5. QED BY <1>2, <1>3, <1>4 DEF Init

LEMMA ProviderReal ==
  ASSUME BaseInv, RealInv, Provider
  PROVE  RealInv'
<1>0. /\ now \in Nat /\ quota \in [Windows -> Readings] /\ CORRECTION \in Nat
      /\ spent.corrections \in Nat
  BY RecordingAssumption DEF BaseInv, ProviderInv, SpentInv, Bounds
<1>1. /\ UNCHANGED <<now, up, latest_poll, latest_success, observed_starts>>
      /\ UNCHANGED <<poll_event, window_rollover>>
      /\ quota' \in [Windows -> Readings]
  BY ProviderSteps DEF cache, database
<1>2. restarts \subseteq restarts'
  BY ProviderSteps
<1>3. \A w, from, to : RestartWithin(w, from, to) => RestartWithin(w, from, to)'
  BY <1>2 DEF RestartWithin
<1>4. ASSUME NEW e, IsPast(e), Explained(e)
      PROVE  Explained(e)'
  <2> DEFINE x == CORRECTION * spent.corrections
             y == CORRECTION * spent'.corrections
  <2>1. PICK w \in Windows :
          /\ \A v \in Windows \ {w} : quota'[v] = quota[v]
          /\ \/ spent' = spent /\ quota[w].used <= quota'[w].used
             \/ /\ spent'.corrections = spent.corrections
                /\ \/ restarts' = restarts \cup
                        {[window |-> w, at |-> now, kind |-> "announced"]}
                   \/ restarts' = restarts \cup
                        {[window |-> w, at |-> now, kind |-> "silent"]}
             \/ /\ spent'.corrections = spent.corrections + 1
                /\ quota'[w].used = quota[w].used - CORRECTION
             \/ /\ spent'.corrections = spent.corrections
                /\ quota'[w].used = quota[w].used
    BY ProviderSteps
  <2>2. /\ x \in Nat /\ y \in {x, x + CORRECTION}
        /\ spent'.corrections = spent.corrections + 1 => y = x + CORRECTION
    BY <2>1, CorrectionsAreSmall
  <2>3. \A v \in DOMAIN e.windows :
          /\ v \in Windows /\ e.windows[v].used \in Int
          /\ RestartWithin(v, e.ts, now) \/ e.windows[v].used - quota[v].used <= x
    BY <1>4 DEF Explained, IsPast, IsEvent, Readings
  <2>4. \A v \in Windows : quota[v].used \in Int /\ quota'[v].used \in Int
    BY <1>0, <1>1 DEF Readings
  <2> HIDE DEF x, y
  <2>5. ASSUME NEW v \in DOMAIN e.windows
        PROVE  \/ RestartWithin(v, e.ts, now)'
               \/ e.windows[v].used - quota'[v].used <= y
    <3>0. /\ v \in Windows /\ e.windows[v].used \in Int
          /\ quota[v].used \in Int /\ quota'[v].used \in Int
          /\ RestartWithin(v, e.ts, now) \/ e.windows[v].used - quota[v].used <= x
      BY <2>3, <2>4
    <3>1. CASE RestartWithin(v, e.ts, now)
      BY <1>1, <3>1, <1>2 DEF RestartWithin
    <3>2. CASE e.windows[v].used - quota[v].used <= x /\ v # w
      BY <1>0, <2>1, <2>2, <3>0, <3>2
    <3>3. CASE e.windows[v].used - quota[v].used <= x /\ v = w
      <4>1. CASE quota[w].used <= quota'[w].used
        BY <1>0, <2>2, <3>0, <3>3, <4>1
      <4>2. CASE /\ spent'.corrections = spent.corrections + 1
                 /\ quota'[w].used = quota[w].used - CORRECTION
        BY <1>0, <2>2, <3>0, <3>3, <4>2
      <4>3. CASE \/ restarts' = restarts \cup
                      {[window |-> w, at |-> now, kind |-> "announced"]}
                 \/ restarts' = restarts \cup
                      {[window |-> w, at |-> now, kind |-> "silent"]}
        <5>1. e.ts <= now /\ now' = now
          BY <1>1, <1>4 DEF IsPast
        <5>2. \E r \in restarts' : r.window = w /\ r.kind # "opened" /\ r.at = now
          <6> DEFINE rec(k) == [window |-> w, at |-> now, kind |-> k]
          <6>1. \A k : rec(k).window = w /\ rec(k).at = now /\ rec(k).kind = k
            OBVIOUS
          <6>2. rec("announced") \in restarts' \/ rec("silent") \in restarts'
            BY <4>3
          <6> HIDE DEF rec
          <6>3. QED BY <6>1, <6>2
        <5>3. QED BY <1>0, <3>3, <5>1, <5>2 DEF RestartWithin
      <4>4. QED BY <2>1, <2>4, <4>1, <4>2, <4>3
    <3>4. QED BY <3>0, <3>1, <3>2, <3>3
  <2>6. QED BY <2>5 DEF Explained, y
<1>5. Explained(latest_success)' /\ (\A e \in poll_event : Explained(e))'
  <2>1. Explained(latest_success)' /\ \A e \in poll_event : Explained(e)'
    <3>1. (\A e \in poll_event : Explained(e)') 
      BY <1>4 DEF RealInv, BaseInv, DatabaseInv
    <3> DEFINE e == latest_success
    <3>2. IsPast(e) /\ Explained(e) /\ e' = e
      BY <1>1 DEF RealInv, BaseInv, CacheInv
    <3>3. Explained(latest_success)'
      <4>1. PICK f : f = latest_success
        OBVIOUS
      <4>2. Explained(f)'
        BY <1>4, <3>2, <4>1
      <4>3. QED BY <1>1, <4>1, <4>2 DEF Explained, RestartWithin
    <3>4. QED BY <3>1, <3>3
  <2>2. QED BY <1>1, <2>1
<1>6. AnchorIsReal'
  BY <1>1, <1>2 DEF RealInv, AnchorIsReal
<1>7. QED BY <1>1, <1>3, <1>5, <1>6 DEF RealInv

LEMMA NextReal == BaseInv /\ RealInv /\ [Next]_vars => RealInv'
<1> SUFFICES ASSUME BaseInv, RealInv, [Next]_vars PROVE RealInv'
  OBVIOUS
<1>1. CASE PollFails \/ \E carried \in SUBSET Windows : PollSucceeds(carried)
  BY <1>1, PollRecords, RecordedReal
<1>2. CASE Crash
  <2>1. /\ UNCHANGED <<now, quota, restarts, poll_event, window_rollover>>
        /\ DOMAIN latest_success'.windows = {} /\ DOMAIN observed_starts' = {}
    BY <1>2 DEF Crash, provider, database, NoPoll, Empty
  <2>2. spent'.corrections = spent.corrections + 0 /\ spent.corrections \in Nat
    BY <1>2, TroubleSpends DEF Crash, BaseInv, SpentInv, Bounds
  <2>3. spent'.corrections = spent.corrections
    BY <2>2
  <2>4. AnchorIsReal' /\ Explained(latest_success)'
    BY <2>1 DEF AnchorIsReal, Explained
  <2>5. QED BY <2>1, <2>3, <2>4 DEF RealInv, Explained, RestartWithin
<1>3. ASSUME NEW failed \in SUBSET Queries, Start(failed) PROVE RealInv'
  <2>1. /\ UNCHANGED <<now, quota, restarts, poll_event, window_rollover>>
        /\ latest_success' \in poll_event \cup {NoPoll}
        /\ spent'.corrections = spent.corrections
    BY <1>3, StartHolds, StartSpends
  <2>2. Explained(latest_success)'
    <3>1. PICK f : f = latest_success'
      OBVIOUS
    <3>2. Explained(f)
      BY <2>1, <3>1 DEF RealInv, Explained, NoPoll, Empty
    <3>3. QED BY <2>1, <3>1, <3>2 DEF Explained, RestartWithin
  <2>3. AnchorIsReal'
    <3> SUFFICES ASSUME NEW w \in DOMAIN observed_starts'
                 PROVE  \E r \in restarts :
                          /\ r.window = w /\ r.kind # "opened"
                          /\ observed_starts'[w].not_before <= r.at
                          /\ r.at <= observed_starts'[w].not_after
      BY <2>1 DEF AnchorIsReal
    <3>1. PICK r \in Acting(w) : /\ r.kind = "unannounced"
                                 /\ observed_starts'[w] = FromRollover(r)
      BY <1>3, StartHolds
    <3>2. RestartWithin(w, r.prev_observed_at, r.observed_at)
      BY <3>1 DEF Acting, RealInv
    <3>3. QED BY <3>1, <3>2 DEF RestartWithin, FromRollover
  <2>4. QED BY <2>1, <2>2, <2>3 DEF RealInv, Explained, RestartWithin
<1>4. CASE Provider
  BY <1>4, ProviderReal
<1>5. CASE Tick \/ UNCHANGED vars
  <2>1. /\ UNCHANGED <<quota, restarts, latest_success, observed_starts>>
        /\ UNCHANGED <<poll_event, window_rollover, spent>>
        /\ now' \in {now, now + 1} /\ now \in Nat
    BY <1>5 DEF Tick, vars, provider, cache, database, BaseInv, ProviderInv
  <2>2. \A w, from : RestartWithin(w, from, now) => RestartWithin(w, from, now)'
    <3>1. \A r \in restarts : r.at \in Nat
      BY DEF BaseInv, ProviderInv
    <3>2. QED BY <2>1, <3>1 DEF RestartWithin
  <2>3. \A e : Explained(e) => Explained(e)'
    BY <2>1, <2>2 DEF Explained
  <2>4. Explained(latest_success)'
    BY <2>1, <2>2 DEF RealInv, Explained
  <2>5. QED BY <2>1, <2>3, <2>4 DEF RealInv, AnchorIsReal, RestartWithin
<1>6. QED BY <1>1, <1>2, <1>3, <1>4, <1>5 DEF Next, Daemon

\* No false reset: an anchor brackets a real restart of its window, however
\* polls failed, were lost or were replayed.  The sizes of all corrections
\* together stay below the threshold; nothing else is assumed of the usages.
THEOREM AnchorCorrect == Spec => []AnchorIsReal
<1>1. RealInv => AnchorIsReal
  BY DEF RealInv
<1>2. QED BY InitReal, NextReal, SpecBase, <1>1, PTL DEF Spec

-----------------------------------------------------------------------------
(* Paces.                                                                  *)

\* A reset is no earlier than a span after any beginning before it was read.
Announced(e) ==
  \A w \in DOMAIN e.windows :
    e.windows[w].reset # Unset =>
      \A r \in restarts :
        r.window = w /\ r.kind # "silent" /\ r.at < e.ts
          => r.at + Span[w] <= e.windows[w].reset

\* The same of what the provider says now.
AnnouncedNow ==
  \A w \in Windows :
    quota[w].reset # Unset =>
      \A r \in restarts : r.window = w /\ r.kind # "silent"
                            => r.at + Span[w] <= quota[w].reset

PaceInv ==
  spent.retractions = 0 =>
    /\ AnnouncedNow /\ Announced(latest_success)
    /\ \A e \in poll_event : Announced(e)

LEMMA InitPace == Init => PaceInv
<1> SUFFICES ASSUME Init PROVE PaceInv
  OBVIOUS
<1>1. \A r \in restarts : r.kind = "silent"
  BY DEF Init
<1>2. QED BY <1>1 DEF PaceInv, AnnouncedNow, Announced

LEMMA RecordedPace ==
  ASSUME BaseInv, PaceInv, NEW e, Recorded(e)
  PROVE  PaceInv'
<1>0. /\ UNCHANGED <<now, quota, restarts>> /\ now \in Nat
      /\ spent'.retractions = spent.retractions
      /\ latest_success' \in {e, latest_success}
      /\ poll_event' \subseteq poll_event \cup {e}
  BY RecordedStores DEF Recorded, BaseInv, ProviderInv
<1> SUFFICES ASSUME spent.retractions = 0
             PROVE  /\ AnnouncedNow' /\ Announced(latest_success)'
                    /\ (\A f \in poll_event : Announced(f))'
  BY <1>0 DEF PaceInv
<1>1. \A f \in poll_event \cup {latest_success} : Announced(f)
  BY DEF PaceInv
<1>2. Announced(e)
  <2> SUFFICES ASSUME NEW w \in DOMAIN e.windows, e.windows[w].reset # Unset,
                      NEW r \in restarts, r.window = w, r.kind # "silent"
               PROVE  r.at + Span[w] <= e.windows[w].reset
    BY DEF Announced
  <2>1. /\ w \in Windows /\ quota[w].reset # Unset
        /\ quota[w].reset <= e.windows[w].reset /\ e.windows[w] \in Readings
    BY DEF Recorded, NewEvent, IsEvent
  <2>2. r.at + Span[w] <= quota[w].reset
    BY <2>1 DEF PaceInv, AnnouncedNow
  <2>3. r.at \in Int /\ Span[w] \in Int /\ quota[w].reset \in Int
        /\ e.windows[w].reset \in Int
    BY <2>1, RecordingAssumption DEF BaseInv, ProviderInv, Readings
  <2>4. QED BY <2>1, <2>2, <2>3
<1>3. \A f \in poll_event' \cup {latest_success'} : Announced(f)
  BY <1>0, <1>1, <1>2
<1>4. AnnouncedNow'
  BY <1>0 DEF PaceInv, AnnouncedNow
<1>5. QED BY <1>0, <1>3, <1>4 DEF Announced

LEMMA ProviderPace ==
  ASSUME BaseInv, PaceInv, Provider
  PROVE  PaceInv'
<1>0. /\ UNCHANGED <<now, latest_success, poll_event>> /\ now \in Nat
      /\ spent.retractions \in Nat /\ spent.retractions <= spent'.retractions
      /\ Span \in [Windows -> Nat] /\ spent'.retractions \in Nat
      /\ \A r \in restarts : r.at \in Nat /\ r.at <= now
  BY ProviderSteps, RecordingAssumption
  DEF cache, database, BaseInv, ProviderInv, SpentInv, Bounds
<1> SUFFICES ASSUME spent'.retractions = 0
             PROVE  /\ AnnouncedNow' /\ Announced(latest_success)'
                    /\ (\A f \in poll_event : Announced(f))'
  BY DEF PaceInv
<1>1. /\ AnnouncedNow /\ Announced(latest_success)
      /\ \A e \in poll_event : Announced(e)
  BY <1>0 DEF PaceInv
<1> DEFINE rec(w, kind) == [window |-> w, at |-> now, kind |-> kind]
<1>2. PICK w \in Windows :
        /\ \A v \in Windows \ {w} : quota'[v] = quota[v]
        /\ \/ restarts' = restarts /\ quota'[w].reset = quota[w].reset
           \/ /\ \/ restarts' = restarts \cup {rec(w, "opened")}
                 \/ restarts' = restarts \cup {rec(w, "announced")}
              /\ quota'[w].reset \in {Unset, now + Span[w]}
           \/ /\ restarts' = restarts \cup {rec(w, "silent")}
              /\ quota'[w].reset = quota[w].reset
  <2>1. spent'.retractions # spent.retractions + 1
    BY <1>0
  <2>2. QED BY <2>1, ProviderSteps
<1>3. \A kind : /\ rec(w, kind).window = w /\ rec(w, kind).at = now
                /\ rec(w, kind).kind = kind
  OBVIOUS
<1> HIDE DEF rec
<1>4. \A r \in restarts' : r \in restarts \/ (r.at = now /\ r.window = w)
  BY <1>2, <1>3
<1>5. ASSUME NEW e, IsPast(e), Announced(e) PROVE Announced(e)'
  BY <1>0, <1>4, <1>5 DEF Announced, IsPast, IsEvent
<1>6. (\A f \in poll_event : Announced(f))'
  BY <1>0, <1>1, <1>5 DEF BaseInv, DatabaseInv
<1>7. Announced(latest_success)'
  <2>1. PICK f : f = latest_success
    OBVIOUS
  <2>2. Announced(f)'
    BY <1>1, <1>5, <2>1 DEF BaseInv, CacheInv
  <2>3. QED BY <1>0, <2>1, <2>2 DEF Announced
<1>8. AnnouncedNow'
  <2> SUFFICES ASSUME NEW v \in Windows, quota'[v].reset # Unset,
                      NEW r \in restarts', r.window = v, r.kind # "silent"
               PROVE  r.at + Span[v] <= quota'[v].reset
    BY DEF AnnouncedNow
  <2>1. CASE v # w
    BY <1>1, <1>2, <1>4, <2>1 DEF AnnouncedNow
  <2>2. CASE v = w /\ quota'[w].reset = now + Span[w]
    <3>1. r.at \in Nat /\ r.at <= now
      BY <1>0, <1>4
    <3>2. QED BY <1>0, <2>2, <3>1
  <2>3. CASE v = w /\ quota'[w].reset = quota[w].reset /\ r \in restarts
    BY <1>1, <2>3 DEF AnnouncedNow
  <2>4. QED BY <1>2, <1>3, <2>1, <2>2, <2>3
<1>9. QED BY <1>6, <1>7, <1>8

LEMMA NextPace == BaseInv /\ PaceInv /\ [Next]_vars => PaceInv'
<1> SUFFICES ASSUME BaseInv, PaceInv, [Next]_vars PROVE PaceInv'
  OBVIOUS
<1>1. CASE PollFails \/ \E carried \in SUBSET Windows : PollSucceeds(carried)
  BY <1>1, PollRecords, RecordedPace
<1>2. CASE Crash
  <2>1. /\ UNCHANGED <<now, quota, restarts, poll_event>>
        /\ DOMAIN latest_success'.windows = {}
    BY <1>2 DEF Crash, provider, database, NoPoll, Empty
  <2>2. /\ spent'.retractions = spent.retractions + 0
        /\ spent.retractions \in Nat
    BY <1>2, TroubleSpends DEF Crash, BaseInv, SpentInv, Bounds
  <2>3. spent'.retractions = spent.retractions
    BY <2>2
  <2>4. QED BY <2>1, <2>3 DEF PaceInv, AnnouncedNow, Announced
<1>3. ASSUME NEW failed \in SUBSET Queries, Start(failed) PROVE PaceInv'
  <2>1. /\ UNCHANGED <<now, quota, restarts, poll_event>>
        /\ latest_success' \in poll_event \cup {NoPoll}
        /\ spent'.retractions = spent.retractions
    BY <1>3, StartHolds, StartSpends
  <2>2. Announced(NoPoll)
    BY DEF Announced, NoPoll, Empty
  <2>3. QED BY <2>1, <2>2 DEF PaceInv, AnnouncedNow, Announced
<1>4. CASE Provider
  BY <1>4, ProviderPace
<1>5. CASE Tick \/ UNCHANGED vars
  BY <1>5 DEF Tick, vars, provider, cache, database, PaceInv, AnnouncedNow, Announced
<1>6. QED BY <1>1, <1>2, <1>3, <1>4, <1>5 DEF Next, Daemon

\* A pace is never measured from a window that ended: while no reset was
\* pulled in, an anchor in force is not older than the last announced
\* beginning, also when a payload hid that from the detection.
THEOREM PaceCorrect == Spec => []PaceFromCurrentWindow
<1>1. BaseInv /\ PaceInv => PaceFromCurrentWindow
  <2> SUFFICES ASSUME BaseInv, PaceInv, spent.retractions = 0, NEW w \in Served,
                      latest_success.windows[w].reset # Unset, InForce(w),
                      NEW r \in restarts, r.window = w, r.kind # "silent",
                      r.at < latest_success.ts
               PROVE  r.at <= observed_starts[w].not_after
    BY DEF PaceFromCurrentWindow
  <2> DEFINE start == observed_starts[w]
             reset == latest_success.windows[w].reset
             est   == Estimate(start)
  <2>1. /\ w \in DOMAIN latest_success.windows /\ w \in DOMAIN observed_starts
        /\ w \in Windows
    BY DEF Served, BaseInv, CacheInv
  <2>2. r.at + Span[w] <= reset /\ est > reset - Span[w]
    BY <2>1 DEF PaceInv, Announced, InForce
  <2>3. IsStart(start) /\ reset \in Int /\ r.at \in Nat /\ Span[w] \in Nat
    BY <2>1, RecordingAssumption
    DEF BaseInv, CacheInv, ProviderInv, IsPast, IsEvent, Readings
  <2>4. est \in Int /\ est <= start.not_after
    BY <2>3 DEF Estimate, IsStart
  <2>5. start.not_after \in Nat
    BY <2>3 DEF IsStart
  <2> HIDE DEF start, reset, est
  <2>6. r.at <= start.not_after
    BY <2>2, <2>3, <2>4, <2>5
  <2>7. QED BY <2>6 DEF start
<1>2. QED BY InitPace, NextPace, SpecBase, <1>1, PTL DEF Spec

-----------------------------------------------------------------------------
(* Restarts of the daemon.                                                 *)

\* What the database holds by itself.
StoredInv ==
  /\ \A r, o \in window_rollover :
       r.window = o.window /\ r.observed_at = o.observed_at => r = o
  /\ \A e \in StoredSuccesses : \A w \in Windows :
       \/ w \in DOMAIN e.windows \/ w \in hidden
       \/ \A r \in window_rollover : r.window # w
  /\ window_rollover # {} => StoredSuccesses # {}

\* What the cache holds is what the database says.
CachedInv ==
  up /\ spent.writes = 0 /\ spent.reads = 0 =>
    /\ latest_poll = Latest(poll_event)
    /\ latest_success = Latest(StoredSuccesses)
    /\ health = [failures |-> StoredFailures, error |-> ~latest_poll.ok]
    /\ \A w \in DOMAIN observed_starts :
         \E r \in Acting(w) : /\ Decides(r, w) /\ r.kind = "unannounced"
                              /\ observed_starts[w] = FromRollover(r)
    /\ \A w \in Windows \ hidden : \A r \in Acting(w) :
         Decides(r, w) /\ r.kind = "unannounced" =>
           w \in DOMAIN observed_starts \/ Expired(w, FromRollover(r))

RestartInv == StoredInv /\ CachedInv

\* An anchor that has expired stays so.
LEMMA ExpiredLasts ==
  ASSUME BaseInv, NEW r \in window_rollover, Expired(r.window, FromRollover(r)),
         now' \in {now, now + 1}
  PROVE  Expired(r.window, FromRollover(r))'
<1> DEFINE est == Estimate(FromRollover(r))
<1>1. IsRow(r) /\ now \in Nat
  BY DEF BaseInv, DatabaseInv, ProviderInv
<1>2. est \in Int
  BY <1>1 DEF IsRow, Estimate, FromRollover
<1>3. Span[r.window] \in Nat
  BY <1>1, RecordingAssumption DEF IsRow
<1>4. ~(now - est <= Span[r.window])
  BY DEF Expired
<1> HIDE DEF est
<1>5. ~(now' - est <= Span[r.window])
  BY <1>1, <1>2, <1>3, <1>4
<1>6. QED BY <1>5 DEF Expired, est, Estimate, FromRollover

LEMMA InitRestart == Init => RestartInv
<1> SUFFICES ASSUME Init PROVE RestartInv
  OBVIOUS
<1>1. CachedInv
  BY DEF Init, CachedInv
<1>2. CASE poll_event = {} /\ window_rollover = {}
  BY <1>1, <1>2 DEF RestartInv, StoredInv, StoredSuccesses
<1>3. ASSUME NEW w \in Windows, NEW prev_used, NEW new_used,
             OldDatabase(w, prev_used, new_used)
      PROVE  StoredInv
  <2> DEFINE e == OldPoll(w, new_used)
             r == OldRow(w, prev_used, new_used)
  <2>1. poll_event = {e} /\ window_rollover = {r}
    BY <1>3 DEF OldDatabase
  <2>2. e.ok = TRUE /\ DOMAIN e.windows = {w} /\ r.window = w
    BY DEF OldPoll, OldRow
  <2> HIDE DEF e, r
  <2>3. QED BY <2>1, <2>2 DEF StoredInv, StoredSuccesses
<1>4. QED BY <1>1, <1>2, <1>3 DEF Init, RestartInv

\* What a poll that is stored adds to the database.
LEMMA InsertAdds ==
  ASSUME BaseInv, NEW e, Recorded(e), Insert(e)
  PROVE  /\ \A f \in poll_event : f.id < e.id /\ f.id \in Nat
         /\ e.id \in Nat /\ e.id >= 1
         /\ e.ok \in BOOLEAN
         /\ \A r \in window_rollover : r.observed_at \in Nat /\ r.observed_at < now
         /\ \A r \in Detect(latest_success, e) :
              /\ r.observed_at = now
              /\ r.kind = "unannounced" => IsCollapse(r.prev_used, r.new_used)
         /\ e.ok => /\ poll_event' = {e} /\ StoredSuccesses' = {e}
                    /\ hidden' = hidden \cup (Windows \ DOMAIN e.windows)
         /\ ~e.ok => /\ poll_event' = poll_event \cup {e}
                     /\ StoredSuccesses' = StoredSuccesses
                     /\ hidden' = hidden /\ Detect(latest_success, e) = {}
<1>0. /\ IsEvent(e) /\ e.id = now /\ e.ts = now /\ now \in Nat /\ now >= 1
      /\ ~e.ok => e.windows = Empty
  BY DEF Recorded, NewEvent, BaseInv, ProviderInv
<1>1. \A f \in poll_event : f.id \in Nat /\ f.id = f.ts /\ f.ts < now
  BY DEF BaseInv, DatabaseInv, IsPast, IsEvent, Recorded, ClockMovedOn
<1>2. \A r \in window_rollover : r.observed_at \in Nat /\ r.observed_at < now
  <2> TAKE r \in window_rollover
  <2>1. PICK f \in poll_event : r.observed_at <= f.ts
    BY DEF BaseInv, DatabaseInv
  <2>2. r.observed_at \in Nat
    BY DEF BaseInv, DatabaseInv, IsRow
  <2>3. f.ts \in Nat /\ f.ts < now
    BY <1>1
  <2>4. QED BY <1>0, <2>1, <2>2, <2>3
<1>3. \A r \in Detect(latest_success, e) :
        /\ r.observed_at = now /\ r.window \in DOMAIN e.windows
        /\ r.kind = "unannounced" => IsCollapse(r.prev_used, r.new_used)
  BY <1>0, DetectProperties
<1>4. ASSUME e.ok
      PROVE  /\ poll_event' = {e} /\ StoredSuccesses' = {e}
             /\ hidden' = hidden \cup (Windows \ DOMAIN e.windows)
  BY <1>4 DEF Insert, StoredSuccesses
<1>5. ASSUME ~e.ok
      PROVE  /\ poll_event' = poll_event \cup {e}
             /\ StoredSuccesses' = StoredSuccesses
             /\ hidden' = hidden /\ Detect(latest_success, e) = {}
  <2>1. poll_event' = poll_event \cup {e} /\ hidden' = hidden
    BY <1>5 DEF Insert
  <2>2. StoredSuccesses' = StoredSuccesses
    BY <1>5, <2>1 DEF StoredSuccesses
  <2>3. DOMAIN e.windows = {}
    BY <1>0, <1>5 DEF Empty
  <2>4. QED BY <1>3, <2>1, <2>2, <2>3
<1>6. e.ok \in BOOLEAN
  BY <1>0 DEF IsEvent
<1>7. QED BY <1>0, <1>1, <1>2, <1>3, <1>4, <1>5, <1>6

\* What `Persist` did.
LEMMA RecordedPersists ==
  ASSUME BaseInv, NEW e, Recorded(e)
  PROVE  \/ UNCHANGED database /\ spent'.writes # 0
         \/ /\ Insert(e) /\ UNCHANGED spent
            /\ window_rollover' = window_rollover \cup Detect(latest_success, e)
<1>1. \/ UNCHANGED database /\ Trouble("writes")
      \/ /\ Insert(e) /\ UNCHANGED spent
         /\ window_rollover' = window_rollover \cup Detect(latest_success, e)
  BY DEF Recorded, RecordEvent, Persist
<1>2. Trouble("writes") => spent'.writes = spent.writes + 1
  BY TroubleSpends DEF BaseInv
<1>3. spent.writes \in Nat
  BY DEF BaseInv, SpentInv, Bounds
<1>4. QED BY <1>1, <1>2, <1>3

LEMMA RecordedStored ==
  ASSUME BaseInv, StoredInv, NEW e, Recorded(e)
  PROVE  StoredInv'
<1>1. CASE UNCHANGED database
  BY <1>1 DEF database, StoredInv, StoredSuccesses
<1>2. CASE /\ Insert(e)
           /\ window_rollover' = window_rollover \cup Detect(latest_success, e)
  <2>1. (\A r, o \in window_rollover :
           r.window = o.window /\ r.observed_at = o.observed_at => r = o)'
    <3>1. \A r, o \in Detect(latest_success, e) : r.window = o.window => r = o
      BY DetectProperties
    <3>2. \A r \in window_rollover, o \in Detect(latest_success, e) :
            r.observed_at # o.observed_at
      BY <1>2, InsertAdds DEF BaseInv, ProviderInv
    <3>3. QED BY <1>2, <3>1, <3>2 DEF StoredInv
  <2>2. CASE e.ok
    <3>1. StoredSuccesses' = {e} /\ hidden' = hidden \cup (Windows \ DOMAIN e.windows)
      BY <1>2, <2>2, InsertAdds
    <3>2. QED BY <2>1, <3>1 DEF StoredInv
  <2>3. CASE ~e.ok
    <3>1. /\ StoredSuccesses' = StoredSuccesses /\ hidden' = hidden
          /\ window_rollover' = window_rollover
      BY <1>2, <2>3, InsertAdds
    <3>2. QED BY <3>1 DEF StoredInv
  <2>4. QED BY <2>2, <2>3
<1>3. QED BY <1>1, <1>2, RecordedPersists

\* The counter and the error of a daemon whose polls are all stored.
LEMMA RecordedHealth ==
  ASSUME BaseInv, NEW e, Recorded(e), Insert(e),
         health = [failures |-> StoredFailures, error |-> ~latest_poll.ok]
  PROVE  health' = [failures |-> StoredFailures, error |-> ~latest_poll.ok]'
<1>0. latest_poll' = e /\ Judge(e)
  BY DEF Recorded, RecordEvent
<1> DEFINE good   == Latest(StoredSuccesses)
           failed == {f \in poll_event : ~f.ok /\ f.id > good.id}
<1>1. CASE e.ok
  <2>1. poll_event' = {e} /\ e.ok = TRUE
    BY <1>1, InsertAdds
  <2>2. {f \in poll_event' : ~f.ok /\ f.id > Latest(StoredSuccesses').id} = {}
    BY <2>1
  <2>3. StoredFailures' = 0
    BY <2>2, FS_EmptySet DEF StoredFailures
  <2>4. ~e.ok = FALSE
    BY <2>1
  <2>5. QED BY <1>0, <1>1, <2>3, <2>4 DEF Judge, Healthy
<1>2. CASE ~e.ok
  <2>1. poll_event' = poll_event \cup {e} /\ StoredSuccesses' = StoredSuccesses
    BY <1>2, InsertAdds
  <2>2. e.id > good.id /\ e \notin poll_event
    <3>1. StoredSuccesses \subseteq poll_event
      BY DEF StoredSuccesses
    <3>2. \/ good = NoPoll \/ good \in poll_event
      BY <3>1, LatestStored
    <3>3. NoPoll.id = 0
      BY DEF NoPoll
    <3>4. e.id \in Nat /\ e.id >= 1 /\ \A f \in poll_event : f.id < e.id /\ f.id \in Nat
      BY InsertAdds
    <3> HIDE DEF good
    <3>5. QED BY <3>2, <3>3, <3>4
  <2>3. Latest(StoredSuccesses)' = good
    BY <2>1 DEF Latest
  <2>4. {f \in poll_event' : ~f.ok /\ f.id > good.id} = failed \cup {e}
    <3> HIDE DEF good
    <3> QED BY <1>2, <2>1, <2>2
  <2>5. IsFiniteSet(failed) /\ e \notin failed
    BY <2>2, FS_Subset DEF BaseInv, DatabaseInv
  <2> HIDE DEF failed
  <2>6. Cardinality(failed \cup {e}) = Cardinality(failed) + 1
    BY <2>5, FS_AddElement
  <2>7. StoredFailures = Cardinality(failed)
    BY DEF StoredFailures, failed
  <2>8. StoredFailures' = StoredFailures + 1
    BY <2>3, <2>4, <2>6, <2>7 DEF StoredFailures
  <2>9. health' = [failures |-> StoredFailures + 1, error |-> TRUE]
    BY <1>0, <1>2 DEF Judge
  <2>10. ~e.ok = TRUE
    BY <1>2
  <2>11. QED BY <1>0, <2>8, <2>9, <2>10
<1>3. QED BY <1>1, <1>2

\* Two deciding rows of a window are one.
LEMMA OneDecides ==
  ASSUME BaseInv, StoredInv, NEW w, NEW r, NEW o, Decides(r, w), Decides(o, w)
  PROVE  r = o
<1>1. r \in window_rollover /\ o \in window_rollover /\ r.window = w /\ o.window = w
  BY DEF Decides, Acting
<1>2. r.observed_at <= o.observed_at /\ o.observed_at <= r.observed_at
  BY DEF Decides
<1>3. r.observed_at \in Nat /\ o.observed_at \in Nat
  BY <1>1 DEF BaseInv, DatabaseInv, IsRow
<1>4. r.observed_at = o.observed_at
  BY <1>2, <1>3
<1>5. QED BY <1>1, <1>4 DEF StoredInv

\* A stored poll leaves the rows of a window alone, or adds the one that now
\* decides.
LEMMA InsertDecides ==
  ASSUME BaseInv, NEW e, Recorded(e), Insert(e),
         window_rollover' = window_rollover \cup Detect(latest_success, e)
  PROVE  \A w : \/ /\ \A q \in Detect(latest_success, e) : q.window # w
                   /\ Acting(w)' = Acting(w)
                   /\ \A r : Decides(r, w)' <=> Decides(r, w)
                \/ /\ \E q \in Detect(latest_success, e) : q.window = w
                   /\ \A q \in Detect(latest_success, e) :
                        q.window = w => q \in Acting(w)' /\ Decides(q, w)'
                   /\ \A r : Decides(r, w)' => r \in Detect(latest_success, e)
<1> DEFINE R == Detect(latest_success, e)
<1>0. /\ now \in Nat
      /\ \A r \in window_rollover : r.observed_at \in Nat /\ r.observed_at < now
      /\ \A q \in R : /\ q.observed_at = now
                      /\ q.kind = "unannounced" => IsCollapse(q.prev_used, q.new_used)
  BY InsertAdds DEF BaseInv, ProviderInv
<1> TAKE w
<1>1. Acting(w)' = Acting(w) \cup {q \in R : q.window = w}
  BY <1>0 DEF Acting
<1>2. \A r \in Acting(w) : r.observed_at \in Nat /\ r.observed_at < now
  BY <1>0 DEF Acting
<1> HIDE DEF R
<1>3. CASE \A q \in R : q.window # w
  <2>1. Acting(w)' = Acting(w)
    BY <1>1, <1>3
  <2>2. \A r : Decides(r, w)' <=> Decides(r, w)
    BY <2>1 DEF Decides
  <2>3. QED BY <1>3, <2>1, <2>2 DEF R
<1>4. CASE \E q \in R : q.window = w
  <2>1. \A q \in R : q.window = w => q \in Acting(w)' /\ Decides(q, w)'
    BY <1>0, <1>1, <1>2 DEF Decides
  <2>2. \A r : Decides(r, w)' => r \in R
    <3> TAKE r
    <3> SUFFICES ASSUME Decides(r, w)', r \notin R PROVE FALSE
      OBVIOUS
    <3>1. r \in Acting(w)
      BY <1>1 DEF Decides
    <3>2. PICK q \in R : q \in Acting(w)'
      BY <1>4, <2>1
    <3>3. q.observed_at <= r.observed_at
      BY <3>2 DEF Decides
    <3>4. QED BY <1>0, <1>2, <3>1, <3>3
  <2>3. QED BY <1>4, <2>1, <2>2 DEF R
<1>5. QED BY <1>3, <1>4

LEMMA RecordedCached ==
  ASSUME BaseInv, StoredInv, CachedInv, NEW e, Recorded(e)
  PROVE  CachedInv'
<1> SUFFICES ASSUME up', spent'.writes = 0, spent'.reads = 0
             PROVE  /\ (latest_poll = Latest(poll_event))'
                    /\ (latest_success = Latest(StoredSuccesses))'
                    /\ (health = [failures |-> StoredFailures,
                                  error |-> ~latest_poll.ok])'
                    /\ (\A w \in DOMAIN observed_starts :
                          \E r \in Acting(w) :
                            /\ Decides(r, w) /\ r.kind = "unannounced"
                            /\ observed_starts[w] = FromRollover(r))'
                    /\ (\A w \in Windows \ hidden : \A r \in Acting(w) :
                          Decides(r, w) /\ r.kind = "unannounced" =>
                            \/ w \in DOMAIN observed_starts
                            \/ Expired(w, FromRollover(r)))'
  BY DEF CachedInv
<1> DEFINE R == Detect(latest_success, e)
<1>0. /\ Insert(e) /\ UNCHANGED spent /\ window_rollover' = window_rollover \cup R
      /\ up /\ UNCHANGED now
      /\ latest_poll' = e /\ latest_success' = IF e.ok THEN e ELSE latest_success
  BY RecordedPersists DEF Recorded, RecordEvent
<1>1. /\ latest_poll = Latest(poll_event)
      /\ latest_success = Latest(StoredSuccesses)
      /\ health = [failures |-> StoredFailures, error |-> ~latest_poll.ok]
      /\ \A w \in DOMAIN observed_starts :
           \E r \in Acting(w) : /\ Decides(r, w) /\ r.kind = "unannounced"
                                /\ observed_starts[w] = FromRollover(r)
      /\ \A w \in Windows \ hidden : \A r \in Acting(w) :
           Decides(r, w) /\ r.kind = "unannounced" =>
             w \in DOMAIN observed_starts \/ Expired(w, FromRollover(r))
  BY <1>0 DEF CachedInv
<1>2. \A f \in poll_event : f.id < e.id /\ f.id \in Nat
  BY <1>0, InsertAdds
<1>3. (latest_poll = Latest(poll_event))'
  <2>1. e \in poll_event' /\ poll_event' \subseteq poll_event \cup {e} /\ e.id \in Nat
    BY <1>0, InsertAdds
  <2>2. /\ \A f \in poll_event' : f.id \in Int
        /\ \A f \in poll_event' : f # e => f.id < e.id
    BY <1>2, <2>1
  <2>3. Latest(poll_event') = e
    BY <2>1, <2>2, LatestOfNewer
  <2>4. QED BY <1>0, <2>3 DEF Latest
<1>4. (latest_success = Latest(StoredSuccesses))'
  <2>1. CASE e.ok
    <3>1. StoredSuccesses' = {e} /\ latest_success' = e /\ e.id \in Nat
      BY <1>0, <2>1, InsertAdds
    <3> DEFINE only == {e}
    <3>2. /\ e \in only /\ \A f \in only : f.id \in Int
          /\ \A f \in only : f # e => f.id < e.id
      BY <3>1
    <3> HIDE DEF only
    <3>3. Latest(only) = e
      BY <3>2, LatestOfNewer
    <3>4. QED BY <3>1, <3>3 DEF Latest, only
  <2>2. CASE ~e.ok
    <3>1. StoredSuccesses' = StoredSuccesses /\ latest_success' = latest_success
      BY <1>0, <2>2, InsertAdds
    <3>2. QED BY <1>1, <3>1 DEF Latest
  <2>3. QED BY <2>1, <2>2
<1>5. (health = [failures |-> StoredFailures, error |-> ~latest_poll.ok])'
  BY <1>0, <1>1, RecordedHealth
<1>6. /\ \A w \in DOMAIN observed_starts' :
           \/ /\ w \in DOMAIN observed_starts
              /\ observed_starts'[w] = observed_starts[w]
              /\ \A r \in R : r.window # w
           \/ \E r \in R : /\ r.window = w /\ r.kind = "unannounced"
                           /\ observed_starts'[w] = FromRollover(r)
      /\ \A w \in DOMAIN observed_starts :
           (\A r \in R : r.window # w) =>
             w \in DOMAIN observed_starts' \/ Expired(w, observed_starts[w])
      /\ \A r \in R :
           r.kind = "unannounced" =>
             \/ r.window \in DOMAIN observed_starts'
             \/ Expired(r.window, FromRollover(r))
  BY RecordedAnchors
<1>7. \A w : \/ /\ \A q \in R : q.window # w
                /\ Acting(w)' = Acting(w)
                /\ \A r : Decides(r, w)' <=> Decides(r, w)
             \/ /\ \E q \in R : q.window = w
                /\ \A q \in R : q.window = w => q \in Acting(w)' /\ Decides(q, w)'
                /\ \A r : Decides(r, w)' => r \in R
  BY <1>0, InsertDecides
<1> HIDE DEF R
<1>8. ASSUME NEW w \in DOMAIN observed_starts'
      PROVE  \E r \in Acting(w)' :
               /\ Decides(r, w)' /\ r.kind = "unannounced"
               /\ observed_starts'[w] = FromRollover(r)
  <2>1. CASE /\ w \in DOMAIN observed_starts
             /\ observed_starts'[w] = observed_starts[w]
             /\ \A r \in R : r.window # w
    <3>1. /\ Acting(w)' = Acting(w)
          /\ \A r : Decides(r, w)' <=> Decides(r, w)
      BY <1>7, <2>1
    <3>2. PICK r \in Acting(w) : /\ Decides(r, w) /\ r.kind = "unannounced"
                                 /\ observed_starts[w] = FromRollover(r)
      BY <1>1, <2>1
    <3>3. QED BY <2>1, <3>1, <3>2
  <2>2. CASE \E r \in R : /\ r.window = w /\ r.kind = "unannounced"
                          /\ observed_starts'[w] = FromRollover(r)
    BY <1>7, <2>2
  <2>3. QED BY <1>6, <2>1, <2>2
<1>9. ASSUME NEW w \in Windows \ hidden', NEW r \in Acting(w)',
             Decides(r, w)', r.kind = "unannounced"
      PROVE  w \in DOMAIN observed_starts' \/ Expired(w, FromRollover(r))
  <2>1. CASE r \in R
    <3>1. r.window = w
      BY DEF Acting
    <3>2. QED BY <1>6, <1>9, <2>1, <3>1
  <2>2. CASE r \notin R
    <3>1. /\ \A q \in R : q.window # w
          /\ Acting(w)' = Acting(w)
          /\ Decides(r, w)
      BY <1>7, <1>9, <2>2
    <3>2. w \notin hidden
      BY <1>0, <1>9 DEF Insert
    <3>3. CASE Expired(w, FromRollover(r))
      BY <3>3
    <3>4. CASE w \in DOMAIN observed_starts
      <4>1. PICK o \in Acting(w) : /\ Decides(o, w)
                                   /\ observed_starts[w] = FromRollover(o)
        BY <1>1, <3>4
      <4>2. o = r
        BY <3>1, <4>1, OneDecides
      <4>3. QED BY <1>6, <3>1, <3>4, <4>1, <4>2
    <3>5. QED BY <1>1, <1>9, <3>1, <3>2, <3>3, <3>4
  <2>3. QED BY <2>1, <2>2
<1>10. \A w, start : Expired(w, start) => Expired(w, start)'
  BY <1>0 DEF Expired, Estimate
<1>11. QED
  <2>1. (\A w \in DOMAIN observed_starts :
           \E r \in Acting(w) : /\ Decides(r, w) /\ r.kind = "unannounced"
                                /\ observed_starts[w] = FromRollover(r))'
    BY <1>8 DEF FromRollover
  <2>2. (\A w \in Windows \ hidden : \A r \in Acting(w) :
           Decides(r, w) /\ r.kind = "unannounced" =>
             w \in DOMAIN observed_starts \/ Expired(w, FromRollover(r)))'
    BY <1>9, <1>10
  <2>3. QED BY <1>3, <1>4, <1>5, <2>1, <2>2

\* A start whose queries all work restores what the database says.
LEMMA StartCached ==
  ASSUME BaseInv, StoredInv, NEW failed \in SUBSET Queries, Start(failed)
  PROVE  CachedInv'
<1> SUFFICES ASSUME spent'.reads = 0
             PROVE  /\ (latest_poll = Latest(poll_event))'
                    /\ (latest_success = Latest(StoredSuccesses))'
                    /\ (health = [failures |-> StoredFailures,
                                  error |-> ~latest_poll.ok])'
                    /\ (\A w \in DOMAIN observed_starts :
                          \E r \in Acting(w) :
                            /\ Decides(r, w) /\ r.kind = "unannounced"
                            /\ observed_starts[w] = FromRollover(r))'
                    /\ (\A w \in Windows \ hidden : \A r \in Acting(w) :
                          Decides(r, w) /\ r.kind = "unannounced" =>
                            \/ w \in DOMAIN observed_starts
                            \/ Expired(w, FromRollover(r)))'
  BY DEF CachedInv
<1> DEFINE success == Latest(StoredSuccesses)
<1>0. /\ UNCHANGED <<now, poll_event, window_rollover, hidden>> /\ failed = {}
  BY StartHolds, StartSpends
<1>1. /\ latest_poll' = Latest(poll_event) /\ latest_success' = success
      /\ observed_starts' = StoredStarts(success)
      /\ health' = [failures |-> StoredFailures, error |-> ~latest_poll'.ok]
  BY <1>0 DEF Start, Hydrated
<1>2. \A w : /\ Acting(w)' = Acting(w)
             /\ \A r : /\ Decides(r, w)' <=> Decides(r, w)
                       /\ Expired(w, FromRollover(r)) => Expired(w, FromRollover(r))'
  BY <1>0 DEF Acting, Decides, Expired, Estimate, FromRollover
<1>3. StoredSuccesses \subseteq poll_event
  BY DEF StoredSuccesses
<1>4. DOMAIN success.windows \subseteq Windows
  BY <1>3, LatestStored DEF IsPast, IsEvent
<1>5. (latest_poll = Latest(poll_event))' /\ (latest_success = Latest(StoredSuccesses))'
  BY <1>0, <1>1 DEF Latest, StoredSuccesses
<1>6. (health = [failures |-> StoredFailures, error |-> ~latest_poll.ok])'
  BY <1>0, <1>1 DEF StoredFailures, StoredSuccesses, Latest
<1>7. ASSUME NEW w \in DOMAIN observed_starts'
      PROVE  \E r \in Acting(w) : /\ Decides(r, w) /\ r.kind = "unannounced"
                                  /\ observed_starts'[w] = FromRollover(r)
  BY <1>1, <1>4, <1>7, StoredStartsProperties
<1>8. ASSUME NEW w \in Windows \ hidden, NEW r \in Acting(w),
             Decides(r, w), r.kind = "unannounced"
      PROVE  w \in DOMAIN observed_starts' \/ Expired(w, FromRollover(r))
  <2>1. w \in DOMAIN success.windows
    <3>1. r \in window_rollover /\ r.window = w
      BY DEF Acting
    <3>2. StoredSuccesses # {}
      BY <3>1 DEF StoredInv
    <3>3. success \in StoredSuccesses
      BY <1>3, <3>2, LatestStored
    <3> HIDE DEF success
    <3>4. QED BY <3>1, <3>3 DEF StoredInv
  <2>2. \A o \in Acting(w) : o.observed_at = r.observed_at => o = r
    BY <1>8 DEF Acting, StoredInv
  <2>3. QED BY <1>1, <1>4, <1>8, <2>1, <2>2, StoredStartsProperties
<1>9. QED
  <2>1. (\A w \in DOMAIN observed_starts :
           \E r \in Acting(w) : /\ Decides(r, w) /\ r.kind = "unannounced"
                                /\ observed_starts[w] = FromRollover(r))'
    BY <1>2, <1>7 DEF FromRollover
  <2>2. (\A w \in Windows \ hidden : \A r \in Acting(w) :
           Decides(r, w) /\ r.kind = "unannounced" =>
             w \in DOMAIN observed_starts \/ Expired(w, FromRollover(r)))'
    BY <1>0, <1>2, <1>8
  <2>3. QED BY <1>5, <1>6, <2>1, <2>2

LEMMA NextRestart == BaseInv /\ RestartInv /\ [Next]_vars => RestartInv'
<1> SUFFICES ASSUME BaseInv, StoredInv, CachedInv, [Next]_vars
             PROVE  StoredInv' /\ CachedInv'
  BY DEF RestartInv
<1>1. CASE PollFails \/ \E carried \in SUBSET Windows : PollSucceeds(carried)
  <2>1. PICK e : Recorded(e)
    BY <1>1, PollRecords
  <2>2. QED BY <2>1, RecordedStored, RecordedCached
<1>2. CASE Crash
  <2>1. CachedInv'
    BY <1>2 DEF Crash, CachedInv
  <2>2. StoredInv'
    BY <1>2 DEF Crash, database, StoredInv, StoredSuccesses
  <2>3. QED BY <2>1, <2>2
<1>3. ASSUME NEW failed \in SUBSET Queries, Start(failed) PROVE StoredInv' /\ CachedInv'
  <2>1. StoredInv'
    BY <1>3 DEF Start, database, StoredInv, StoredSuccesses
  <2>2. QED BY <1>3, <2>1, StartCached
<1>4. CASE Provider \/ Tick \/ UNCHANGED vars
  <2>1. /\ UNCHANGED <<up, latest_poll, latest_success, observed_starts, health>>
        /\ UNCHANGED <<poll_event, window_rollover, hidden>>
        /\ spent'.reads = spent.reads /\ spent'.writes = spent.writes
        /\ now' \in {now, now + 1}
    <3>1. CASE Provider
      BY <3>1, ProviderSteps DEF cache, database
    <3>2. CASE Tick \/ UNCHANGED vars
      BY <3>2 DEF Tick, vars, cache, database
    <3>3. QED BY <1>4, <3>1, <3>2
  <2>2. StoredInv'
    BY <2>1 DEF StoredInv, StoredSuccesses
  <2>3. \A w : /\ Acting(w)' = Acting(w)
               /\ \A r : Decides(r, w)' <=> Decides(r, w)
    BY <2>1 DEF Acting, Decides
  <2>4. \A w : \A r \in Acting(w) :
          Expired(w, FromRollover(r)) => Expired(w, FromRollover(r))'
    BY <2>1, ExpiredLasts DEF Acting
  <2>5. StoredFailures' = StoredFailures /\ StoredSuccesses' = StoredSuccesses
    BY <2>1 DEF StoredFailures, StoredSuccesses, Latest
  <2>6. CachedInv'
    <3> SUFFICES ASSUME up, spent.writes = 0, spent.reads = 0
                 PROVE  CachedInv'
      BY <2>1 DEF CachedInv
    <3>1. /\ latest_poll = Latest(poll_event)
          /\ latest_success = Latest(StoredSuccesses)
          /\ health = [failures |-> StoredFailures, error |-> ~latest_poll.ok]
          /\ \A w \in DOMAIN observed_starts :
               \E r \in Acting(w) : /\ Decides(r, w) /\ r.kind = "unannounced"
                                    /\ observed_starts[w] = FromRollover(r)
          /\ \A w \in Windows \ hidden : \A r \in Acting(w) :
               Decides(r, w) /\ r.kind = "unannounced" =>
                 w \in DOMAIN observed_starts \/ Expired(w, FromRollover(r))
      BY DEF CachedInv
    <3>2. /\ (latest_poll = Latest(poll_event))'
          /\ (latest_success = Latest(StoredSuccesses))'
      BY <2>1, <2>5, <3>1 DEF Latest
    <3>3. (health = [failures |-> StoredFailures, error |-> ~latest_poll.ok])'
      BY <2>1, <2>5, <3>1
    <3>4. (\A w \in DOMAIN observed_starts :
             \E r \in Acting(w) : /\ Decides(r, w) /\ r.kind = "unannounced"
                                  /\ observed_starts[w] = FromRollover(r))'
      BY <2>1, <2>3, <3>1
    <3>5. (\A w \in Windows \ hidden : \A r \in Acting(w) :
             Decides(r, w) /\ r.kind = "unannounced" =>
               w \in DOMAIN observed_starts \/ Expired(w, FromRollover(r)))'
      BY <2>1, <2>3, <2>4, <3>1
    <3>6. QED BY <3>2, <3>3, <3>4, <3>5 DEF CachedInv
  <2>7. QED BY <2>2, <2>6
<1>5. QED BY <1>1, <1>2, <1>3, <1>4 DEF Next, Daemon

\* A restart of the daemon is invisible as long as the database works.  The
\* polls, the health and the anchors of the windows in the newest payload are
\* those a daemon started at any later moment would restore.
THEOREM RestartCorrect == Spec => []RestartInvisible
<1>1. BaseInv /\ RestartInv => RestartInvisible
  <2> SUFFICES ASSUME BaseInv, StoredInv, CachedInv,
                      up, spent.writes = 0, spent.reads = 0
               PROVE  RestartInvisible
    BY DEF RestartInv, RestartInvisible
  <2> DEFINE starts == StoredStarts(latest_success)
             live   == PruneAnchors(observed_starts, latest_success.windows, now)
  <2>1. /\ latest_poll = Latest(poll_event)
        /\ latest_success = Latest(StoredSuccesses)
        /\ health = [failures |-> StoredFailures, error |-> ~latest_poll.ok]
        /\ \A w \in DOMAIN observed_starts :
             \E r \in Acting(w) : /\ Decides(r, w) /\ r.kind = "unannounced"
                                  /\ observed_starts[w] = FromRollover(r)
        /\ \A w \in Windows \ hidden : \A r \in Acting(w) :
             Decides(r, w) /\ r.kind = "unannounced" =>
               w \in DOMAIN observed_starts \/ Expired(w, FromRollover(r))
    BY DEF CachedInv
  <2>2. /\ Hydrated({}).poll = latest_poll /\ Hydrated({}).success = latest_success
        /\ Hydrated({}).health = health /\ Hydrated({}).starts = starts
    BY <2>1 DEF Hydrated
  <2>3. DOMAIN latest_success.windows \subseteq Windows
        /\ DOMAIN observed_starts \subseteq Windows
    BY DEF BaseInv, CacheInv, IsPast, IsEvent
  <2>4. /\ DOMAIN live \subseteq DOMAIN observed_starts
        /\ \A w \in DOMAIN live : live[w] = observed_starts[w]
        /\ \A w \in DOMAIN observed_starts :
             w \in DOMAIN live <=> (w \in DOMAIN latest_success.windows
                                      => now - Estimate(observed_starts[w]) <= Span[w])
    BY <2>3, PruneProperties
  <2>5. \A w \in DOMAIN starts : \E r \in Acting(w) :
          /\ Decides(r, w) /\ r.kind = "unannounced"
          /\ starts[w] = FromRollover(r) /\ ~Expired(w, FromRollover(r))
    BY <2>3, StoredStartsProperties
  <2>6. \A w \in DOMAIN latest_success.windows : \A r \in Acting(w) :
          /\ Decides(r, w) /\ r.kind = "unannounced" /\ ~Expired(w, FromRollover(r))
          /\ \A o \in Acting(w) : o.observed_at = r.observed_at => o = r
          => w \in DOMAIN starts /\ starts[w] = FromRollover(r)
    BY <2>3, StoredStartsProperties
  <2> HIDE DEF starts, live
  <2>7. ASSUME NEW w \in DOMAIN latest_success.windows, w \in DOMAIN live
        PROVE  w \in DOMAIN starts /\ starts[w] = live[w]
    <3>1. PICK r \in Acting(w) : /\ Decides(r, w) /\ r.kind = "unannounced"
                                 /\ observed_starts[w] = FromRollover(r)
      BY <2>1, <2>4, <2>7
    <3>2. ~Expired(w, FromRollover(r)) /\ live[w] = FromRollover(r)
      BY <2>4, <2>7, <3>1 DEF Expired
    <3>3. \A o \in Acting(w) : o.observed_at = r.observed_at => o = r
      BY <3>1 DEF Acting, StoredInv
    <3>4. QED BY <2>6, <3>1, <3>2, <3>3
  <2>8. ASSUME NEW w \in DOMAIN latest_success.windows, w \in DOMAIN starts,
               w \notin hidden
        PROVE  w \in DOMAIN live
    <3>1. PICK r \in Acting(w) : /\ Decides(r, w) /\ r.kind = "unannounced"
                                 /\ ~Expired(w, FromRollover(r))
      BY <2>5, <2>8
    <3>2. w \in DOMAIN observed_starts
      BY <2>1, <2>3, <2>8, <3>1
    <3>3. PICK o \in Acting(w) : /\ Decides(o, w)
                                 /\ observed_starts[w] = FromRollover(o)
      BY <2>1, <3>2
    <3>4. o = r
      BY <3>1, <3>3, OneDecides
    <3>5. now - Estimate(observed_starts[w]) <= Span[w]
      BY <3>1, <3>3, <3>4 DEF Expired
    <3>6. QED BY <2>4, <3>2, <3>5
  <2>9. QED BY <2>2, <2>7, <2>8 DEF RestartInvisible, live
<1>2. QED BY InitRestart, NextRestart, SpecBase, <1>1, PTL DEF Spec

-----------------------------------------------------------------------------
(* The Activity tab: ActivityLog, for every length of the log, the screen  *)
(* and the page, and any number of polls and keys.                         *)

LogFields ==
  {"overlay", "detail", "visible", "focus", "log", "cursor", "cursorIndex",
   "follow", "details", "scroll", "scrollMax", "detailsScroll", "detailsMax",
   "config", "settingsCursor"}

\* The log holds polls, which are numbered from 1, and the list's scrolling
\* and the remembered row are natural numbers.
LogOK(a) ==
  /\ DOMAIN a = LogFields
  /\ a.log \in Seq(Nat \ {0})
  /\ a.scroll \in Nat /\ a.scrollMax \in Nat /\ a.cursorIndex \in Nat

\* The cursor's row is a row of the log, or there is none.
LEMMA IndexInLog ==
  ASSUME NEW a, LogOK(a)
  PROVE  /\ ActivityIndex(a) \in -1 .. Len(a.log) - 1
         /\ a.cursor # 0 /\ a.log # <<>> => ActivityIndex(a) # -1
<1>1. CASE a.cursor = 0 \/ a.log = <<>>
  BY <1>1 DEF ActivityIndex, LogOK
<1>2. CASE a.cursor # 0 /\ a.log # <<>> /\ Contains(a.log, a.cursor)
  <2>1. \E i \in DOMAIN a.log : a.log[i] = a.cursor
    BY <1>2 DEF Contains, LogOK
  <2> DEFINE i == CHOOSE j \in DOMAIN a.log : a.log[j] = a.cursor
  <2>2. i \in DOMAIN a.log
    BY <2>1, Zenon
  <2>3. ActivityIndex(a) = i - 1
    BY <1>2, Zenon DEF ActivityIndex
  <2> HIDE DEF i
  <2> QED
    BY <2>2, <2>3 DEF LogOK
<1>3. CASE a.cursor # 0 /\ a.log # <<>> /\ ~Contains(a.log, a.cursor)
  BY <1>3 DEF ActivityIndex, LogOK, Least
<1> QED
  BY <1>1, <1>2, <1>3

\* What a selection does to the fields of the list.
LEMMA SelectMoves ==
  ASSUME NEW a, LogOK(a), NEW row \in Nat, a.log # <<>>
  PROVE  LET b == SelectActivity(a, row)
         IN  /\ LogOK(b) /\ b.log = a.log /\ b.follow = TRUE
             /\ b.detail = a.detail /\ b.visible = a.visible
             /\ b.details = a.details /\ ActivityIndex(b) # -1
<1> DEFINE index == Least(row, Len(a.log) - 1)
           kept  == IF index = ActivityIndex(a) THEN a.detailsScroll ELSE 0
           b == [a EXCEPT !.cursor = a.log[index + 1], !.cursorIndex = index,
                          !.follow = TRUE, !.detailsScroll = kept]
<1>1. SelectActivity(a, row) = b
  BY Zenon DEF SelectActivity
<1>2. index \in Nat /\ index + 1 \in DOMAIN a.log
  BY DEF Least, LogOK
<1>3. a.log[index + 1] \in Nat \ {0}
  BY <1>2 DEF LogOK
<1> HIDE DEF index, kept
<1>4. /\ LogOK(b) /\ b.log = a.log /\ b.follow = TRUE
      /\ b.detail = a.detail /\ b.visible = a.visible /\ b.details = a.details
      /\ b.cursor = a.log[index + 1]
  BY <1>2 DEF LogOK, LogFields
<1> HIDE DEF b
<1>5. Contains(b.log, b.cursor)
  BY <1>2, <1>4 DEF Contains, LogOK
<1>6. PICK i \in DOMAIN b.log : b.log[i] = b.cursor
  BY <1>2, <1>4
<1> DEFINE j == CHOOSE k \in DOMAIN b.log : b.log[k] = b.cursor
<1>7. j \in DOMAIN b.log
  BY <1>6, Zenon
<1>8. ActivityIndex(b) = j - 1
  BY <1>3, <1>4, <1>5, Zenon DEF ActivityIndex
<1> HIDE DEF j
<1> QED
  BY <1>1, <1>4, <1>7, <1>8 DEF LogOK

LEMMA SelectOK ==
  ASSUME NEW a, LogOK(a), NEW row \in Nat
  PROVE  LogOK(SelectActivity(a, row))
BY SelectMoves DEF SelectActivity

LEMMA RowOfMove ==
  ASSUME NEW a, LogOK(a), NEW d \in Int
  PROVE  (IF ActivityIndex(a) = -1 THEN 0 ELSE Over(ActivityIndex(a) + d)) \in Nat
BY IndexInLog DEF Over, LogOK

LEMMA MoveOK ==
  ASSUME NEW a, LogOK(a), NEW d \in Int
  PROVE  LogOK(MoveActivityCursor(a, d))
BY SelectOK, RowOfMove, Zenon DEF MoveActivityCursor

LEMMA ToggleOK ==
  ASSUME NEW a, LogOK(a)
  PROVE  LogOK(ToggleDetails(a))
<1> DEFINE b == IF ActivityIndex(a) = -1 THEN SelectActivity(a, 0) ELSE a
<1>1. LogOK(b)
  BY SelectOK
<1>2. ToggleDetails(a)
        = [b EXCEPT !.details = ~b.details /\ ActivityIndex(b) # -1,
                    !.detailsScroll = 0]
  BY Zenon DEF ToggleDetails
<1> HIDE DEF b
<1> QED
  BY <1>1, <1>2 DEF LogOK, LogFields

\* What no frame changes.
SameList(a, b) ==
  /\ b.log = a.log /\ b.cursor = a.cursor /\ b.cursorIndex = a.cursorIndex
  /\ b.detail = a.detail /\ b.visible = a.visible /\ b.details = a.details

LEMMA SameIndex ==
  ASSUME NEW a, NEW b, SameList(a, b)
  PROVE  ActivityIndex(b) = ActivityIndex(a)
BY DEF SameList, ActivityIndex

LEMMA BoundsOK ==
  ASSUME NEW a, LogOK(a), NEW rows \in Nat
  PROVE  /\ LogOK(SetDetailBounds(a, rows)) /\ SameList(a, SetDetailBounds(a, rows))
         /\ SetDetailBounds(a, rows).scroll = Least(a.scroll, rows)
         /\ LogOK(SetDetailsBounds(a, rows)) /\ SameList(a, SetDetailsBounds(a, rows))
         /\ SetDetailsBounds(a, rows).scroll = a.scroll
<1> DEFINE to == Least(a.scroll, rows)
           m == Least(a.detailsScroll, rows)
<1>1. to \in Nat
  BY DEF Least, LogOK
<1>2. /\ SetDetailBounds(a, rows) = [a EXCEPT !.scrollMax = rows, !.scroll = to]
      /\ SetDetailsBounds(a, rows)
           = [a EXCEPT !.detailsMax = rows, !.detailsScroll = m]
  BY Zenon DEF SetDetailBounds, SetDetailsBounds
<1> HIDE DEF to, m
<1>3. LET b == [a EXCEPT !.scrollMax = rows, !.scroll = to]
      IN  LogOK(b) /\ SameList(a, b) /\ b.scroll = to
  BY <1>1 DEF LogOK, LogFields, SameList
<1>4. LET b == [a EXCEPT !.detailsMax = rows, !.detailsScroll = m]
      IN  LogOK(b) /\ SameList(a, b) /\ b.scroll = a.scroll
  BY DEF LogOK, LogFields, SameList
<1> QED
  BY <1>2, <1>3, <1>4, Zenon DEF to

\* A list that follows its cursor has it within a screen.
LEMMA FollowOK ==
  ASSUME NEW a, LogOK(a)
  PROVE  /\ LogOK(Follow(a)) /\ SameList(a, Follow(a))
         /\ a.follow = TRUE /\ ActivityIndex(a) # -1
              => ActivityIndex(a) \in Follow(a).scroll .. Follow(a).scroll + Screen - 1
<1> USE ActivityLogAssumption
<1> DEFINE i == ActivityIndex(a)
<1>1. i \in -1 .. Len(a.log) - 1 /\ Len(a.log) \in Nat
  BY IndexInLog DEF LogOK
<1>2. Follow(a) = IF ~a.follow \/ i = -1 THEN a
                  ELSE IF i < a.scroll THEN [a EXCEPT !.scroll = i]
                  ELSE IF i >= a.scroll + Screen
                       THEN [a EXCEPT !.scroll = i + 1 - Screen]
                  ELSE a
  BY Zenon DEF Follow
<1> HIDE DEF i
<1>3. Screen \in Nat /\ Screen > 0
  BY DEF ActivityLogAssumption
<1>4. CASE ~a.follow \/ i = -1
  <2>1. Follow(a) = a
    BY <1>2, <1>4, Zenon
  <2> QED
    BY <1>4, <2>1 DEF SameList, i
<1>5. CASE a.follow /\ i # -1 /\ i < a.scroll
  <2>1. Follow(a) = [a EXCEPT !.scroll = i]
    BY <1>2, <1>5, Zenon
  <2> QED
    BY <1>1, <1>3, <1>5, <2>1 DEF SameList, LogOK, LogFields, i
<1>6. CASE a.follow /\ i # -1 /\ ~(i < a.scroll) /\ i >= a.scroll + Screen
  <2>1. Follow(a) = [a EXCEPT !.scroll = i + 1 - Screen]
    BY <1>2, <1>6, Zenon
  <2>2. i + 1 - Screen \in Nat /\ i \in (i + 1 - Screen) .. i
    BY <1>1, <1>3, <1>6 DEF LogOK
  <2> QED
    BY <1>1, <1>3, <1>6, <2>1, <2>2 DEF SameList, LogOK, LogFields, i
<1>7. CASE a.follow /\ i # -1 /\ ~(i < a.scroll) /\ ~(i >= a.scroll + Screen)
  <2>1. Follow(a) = a
    BY <1>2, <1>7, Zenon
  <2> QED
    BY <1>1, <1>3, <1>7, <2>1 DEF SameList, LogOK, i
<1> QED
  BY <1>4, <1>5, <1>6, <1>7

\* A frame of the Activity tab keeps the list as it is, and if the list is
\* drawn a cursor that moved is on screen.
LEMMA ActivityFrame ==
  ASSUME NEW a, LogOK(a), NEW t
  PROVE  LET r == RenderActivity(a, t)
         IN  /\ LogOK(r) /\ SameList(a, r)
             /\ ListDrawn(a, t) /\ a.follow = TRUE /\ ActivityIndex(a) # -1
                  => ActivityIndex(a) \in r.scroll .. r.scroll + Screen - 1
<1> USE ActivityLogAssumption
<1> DEFINE room == Over(Len(a.log) - Screen)
           list == IF ListDrawn(a, t) THEN SetDetailBounds(Follow(a), room) ELSE a
           done == [list EXCEPT !.follow = FALSE]
           rows == IF a.log[ActivityIndex(a) + 1] \in LongPolls THEN 1 ELSE 0
           i    == ActivityIndex(a)
<1>1. room \in Nat /\ room >= Len(a.log) - Screen /\ Screen \in Nat \ {0}
  BY DEF Over, LogOK, ActivityLogAssumption
<1>2. rows \in Nat
  OBVIOUS
<1>3. i \in -1 .. Len(a.log) - 1 /\ Len(a.log) \in Nat
  BY IndexInLog DEF LogOK
<1>4. RenderActivity(a, t) = IF a.log = <<>> THEN SetDetailBounds(a, 0)
                             ELSE IF DetailsDrawn(a, t)
                             THEN SetDetailsBounds(done, rows) ELSE done
  BY Zenon DEF RenderActivity
<1> HIDE DEF room, rows, i
<1>5. /\ LogOK(list) /\ SameList(a, list)
      /\ ListDrawn(a, t) /\ a.follow = TRUE /\ i # -1
           => i \in list.scroll .. list.scroll + Screen - 1
  <2>1. CASE ListDrawn(a, t)
    <3> DEFINE f == Follow(a)
    <3>1. /\ LogOK(f) /\ SameList(a, f)
          /\ a.follow = TRUE /\ i # -1 => i \in f.scroll .. f.scroll + Screen - 1
      BY FollowOK DEF i
    <3>2. list = SetDetailBounds(f, room)
      BY <2>1, Zenon
    <3> HIDE DEF f
    <3>3. LogOK(list) /\ SameList(f, list) /\ list.scroll = Least(f.scroll, room)
      BY <1>1, <3>1, <3>2, BoundsOK
    <3> HIDE DEF list
    <3>4. SameList(a, list)
      BY <3>1, <3>3 DEF SameList
    <3>5. ASSUME a.follow = TRUE, i # -1
          PROVE  i \in list.scroll .. list.scroll + Screen - 1
      <4>1. f.scroll \in Nat
        BY <3>1 DEF LogOK
      <4>2. i \in f.scroll .. f.scroll + Screen - 1
        BY <3>1, <3>5
      <4>3. CASE f.scroll < room
        BY <3>3, <4>2, <4>3 DEF Least
      <4>4. CASE ~(f.scroll < room)
        BY <1>1, <1>3, <3>3, <4>1, <4>2, <4>4 DEF Least
      <4> QED
        BY <4>3, <4>4
    <3> QED
      BY <3>3, <3>4, <3>5
  <2>2. CASE ~ListDrawn(a, t)
    BY <2>2 DEF SameList
  <2> QED
    BY <2>1, <2>2
<1> HIDE DEF list
<1>6. LogOK(done) /\ SameList(a, done) /\ done.scroll = list.scroll
  BY <1>5 DEF LogOK, LogFields, SameList
<1> HIDE DEF done
<1>7. CASE a.log = <<>>
  <2>1. ~ListDrawn(a, t)
    BY <1>7 DEF ListDrawn
  <2> QED
    BY <1>4, <1>7, <2>1, BoundsOK
<1>8. CASE a.log # <<>> /\ DetailsDrawn(a, t)
  <2> DEFINE r == SetDetailsBounds(done, rows)
  <2>1. RenderActivity(a, t) = r
    BY <1>4, <1>8
  <2>2. LogOK(r) /\ SameList(done, r) /\ r.scroll = done.scroll
    BY <1>2, <1>6, BoundsOK
  <2> HIDE DEF r
  <2>3. SameList(a, r)
    BY <1>6, <2>2 DEF SameList
  <2> QED
    BY <1>5, <1>6, <2>1, <2>2, <2>3 DEF i
<1>9. CASE a.log # <<>> /\ ~DetailsDrawn(a, t)
  BY <1>4, <1>5, <1>6, <1>9 DEF i
<1> QED
  BY <1>7, <1>8, <1>9

LEMMA FrameOK ==
  ASSUME NEW a, LogOK(a), NEW t
  PROVE  LogOK(Render(a, t)) /\ SameList(a, Render(a, t))
<1> USE ActivityLogAssumption
<1>1. CASE ~Shown(a, t)
  <2>1. Render(a, t) = [a EXCEPT !.focus = "list"]
    BY <1>1, Zenon DEF Render
  <2> QED
    BY <2>1 DEF LogOK, LogFields, SameList
<1>2. CASE Shown(a, t)
  <2>1. 0 \in Nat /\ Over(HealthRows - Screen) \in Nat
    BY DEF Over, ActivityLogAssumption
  <2>2. Render(a, t) \in {SetDetailBounds(a, 0), RenderActivity(a, t),
                          SetDetailBounds(a, Over(HealthRows - Screen))}
    <3>1. Render(a, t) = CASE a.detail = "trend" -> SetDetailBounds(a, 0)
                           [] a.detail = "activity" -> RenderActivity(a, t)
                           [] OTHER -> SetDetailBounds(a, Over(HealthRows - Screen))
      BY <1>2, Zenon DEF Render
    <3> QED
      BY <3>1
  <2> QED
    BY <2>1, <2>2, BoundsOK, ActivityFrame
<1> QED
  BY <1>1, <1>2

-----------------------------------------------------------------------------
(* The handlers.                                                           *)

LEMMA ScrollOK ==
  ASSUME NEW a, LogOK(a), NEW d \in Int
  PROVE  LogOK(ScrollRows(a, d))
<1> DEFINE to == Clamp(a.scroll + d, 0, a.scrollMax)
<1>1. to \in Nat
  BY DEF Clamp, LogOK
<1>2. ScrollRows(a, d) = [a EXCEPT !.scroll = to]
  BY Zenon DEF ScrollRows
<1> HIDE DEF to
<1> QED
  BY <1>1, <1>2 DEF LogOK, LogFields

LEMMA FetchedOK ==
  ASSUME NEW a, LogOK(a), NEW n \in Nat
  PROVE  LogOK([a EXCEPT !.log = Log(n)])
<1> USE ActivityLogAssumption
<1> DEFINE m == Least(n, Limit)
<1>1. m \in 0 .. n
  BY DEF Least, ActivityLogAssumption
<1>2. Log(n) = [i \in 1 .. m |-> n + 1 - i]
  BY DEF Log
<1> HIDE DEF m
<1>3. Log(n) \in Seq(Nat \ {0})
  <2>1. \A i \in 1 .. m : n + 1 - i \in Nat \ {0}
    BY <1>1
  <2> QED
    BY <1>1, <1>2, <2>1
<1> QED
  BY <1>3 DEF LogOK, LogFields

LEMMA TabOK ==
  ASSUME NEW a, LogOK(a), NEW tab
  PROVE  LogOK(SetTab(a, tab))
BY DEF SetTab, LogOK, LogFields

\* The fields the list does not depend on.
LEMMA OthersOK ==
  ASSUME NEW a, LogOK(a), NEW u, NEW v, NEW w
  PROVE  /\ LogOK([a EXCEPT !.focus = u]) /\ LogOK([a EXCEPT !.follow = u])
         /\ LogOK([a EXCEPT !.details = u]) /\ LogOK([a EXCEPT !.visible = u])
         /\ LogOK([a EXCEPT !.overlay = u]) /\ LogOK([a EXCEPT !.config = u])
         /\ LogOK([a EXCEPT !.settingsCursor = u])
<1>1. LogOK([a EXCEPT !.focus = u]) /\ LogOK([a EXCEPT !.follow = u])
  BY DEF LogOK, LogFields
<1>2. LogOK([a EXCEPT !.details = u]) /\ LogOK([a EXCEPT !.visible = u])
  BY DEF LogOK, LogFields
<1>3. LogOK([a EXCEPT !.overlay = u]) /\ LogOK([a EXCEPT !.config = u])
  BY DEF LogOK, LogFields
<1>4. LogOK([a EXCEPT !.settingsCursor = u])
  BY DEF LogOK, LogFields
<1> QED
  BY <1>1, <1>2, <1>3, <1>4

LEMMA OtherPairsOK ==
  ASSUME NEW a, LogOK(a), NEW u, NEW v, NEW w
  PROVE  /\ LogOK([a EXCEPT !.focus = u, !.visible = v])
         /\ LogOK([a EXCEPT !.visible = v, !.focus = u])
         /\ LogOK([a EXCEPT !.focus = u, !.detailsScroll = v])
         /\ LogOK([a EXCEPT !.overlay = u, !.settingsCursor = v, !.config = w])
<1>1. /\ LogOK([a EXCEPT !.focus = u, !.visible = v])
      /\ LogOK([a EXCEPT !.visible = v, !.focus = u])
  BY DEF LogOK, LogFields
<1>2. LogOK([a EXCEPT !.focus = u, !.detailsScroll = v])
  BY DEF LogOK, LogFields
<1>3. LogOK([a EXCEPT !.overlay = u, !.settingsCursor = v, !.config = w])
  BY DEF LogOK, LogFields
<1> QED
  BY <1>1, <1>2, <1>3

LInv == LogOK(app) /\ polls \in Nat

LEMMA InitLInv == LogInit => LInv
BY DEF LogInit, LInv, LogOK, LogFields

LEMMA HandleOK ==
  ASSUME LInv, NEW next, LogOK(next), Handle(next)
  PROVE  LInv'
BY FrameOK DEF Handle, LInv

LEMMA ReloadOK ==
  ASSUME LInv, NEW a, LogOK(a), NEW ok
  PROVE  LogOK(Fetched(a, ok))
BY FetchedOK DEF Fetched, LInv

LEMMA NextLInv ==
  ASSUME LInv, [LogNext]_logVars
  PROVE  LInv'
<1> USE ActivityLogAssumption
<1> USE DEF LInv
<1>1. CASE CursorMoves
  <2>1. ASSUME NEW d \in Dirs, CursorKey(d) PROVE LInv'
    BY <2>1, HandleOK, MoveOK DEF CursorKey, Dirs
  <2>2. ASSUME NEW d \in Dirs, PageKey(d), app.detail = "activity" PROVE LInv'
    <3>1. d * Page \in Int
      BY DEF Dirs, ActivityLogAssumption
    <3> QED
      BY <2>2, <3>1, HandleOK, MoveOK DEF PageKey
  <2>3. ASSUME NEW end \in BOOLEAN, NEW ok \in BOOLEAN, EndKey(end, ok) PROVE LInv'
    <3>1. /\ LogOK(SelectActivity(app, Limit))
          /\ LogOK(Fetched(SelectActivity(app, 0), ok))
      BY SelectOK, ReloadOK DEF ActivityLogAssumption
    <3> QED
      BY <2>3, <3>1, HandleOK DEF EndKey
  <2> QED
    BY <1>1, <2>1, <2>2, <2>3 DEF CursorMoves
<1>2. ASSUME NEW d \in Dirs, PageKey(d), app.detail # "activity" PROVE LInv'
  <2>1. d * Page \in Int
    BY DEF Dirs, ActivityLogAssumption
  <2> QED
    BY <1>2, <2>1, HandleOK, ScrollOK DEF PageKey
<1>3. ASSUME NEW d \in Dirs, SettingsMoveKey(d) PROVE LInv'
  BY <1>3, HandleOK, OthersOK DEF SettingsMoveKey, MoveSettingsCursor
<1>4. CASE EnterKey
  BY <1>4, HandleOK, ToggleOK DEF EnterKey
<1>5. CASE EscKey
  <2>1. PICK next : Handle(next) /\ next \in {[app EXCEPT !.details = FALSE],
                      [app EXCEPT !.focus = "list"], [app EXCEPT !.visible = FALSE]}
    BY <1>5, Zenon DEF EscKey
  <2> QED
    BY <2>1, HandleOK, OthersOK
<1>6. CASE CloseKey \/ ReloadKey \/ ConfigPushed
  BY <1>6, HandleOK, OthersOK DEF CloseKey, ReloadKey, ConfigPushed
<1>7. ASSUME NEW ok \in BOOLEAN, NEW tab, TabKey(tab, ok) PROVE LInv'
  BY <1>7, HandleOK, TabOK, ReloadOK DEF TabKey
<1>8. ASSUME NEW ok \in BOOLEAN, NEW pane, FocusKey(pane, ok) PROVE LInv'
  <2> DEFINE a == [app EXCEPT !.focus = pane,
                              !.visible = app.visible \/ pane = "detail"]
  <2>1. LogOK(a) /\ LogOK(Fetched(a, ok))
    BY OtherPairsOK, ReloadOK
  <2>2. Handle(IF app.visible THEN a ELSE Fetched(a, ok))
    BY <1>8, Zenon DEF FocusKey
  <2> HIDE DEF a
  <2> QED
    BY <2>1, <2>2, HandleOK
<1>9. ASSUME NEW ok \in BOOLEAN, ShowKey(ok) PROVE LInv'
  BY <1>9, HandleOK, OthersOK, OtherPairsOK, ReloadOK DEF ShowKey
<1>10. ASSUME NEW o, OverlayKey(o) PROVE LInv'
  BY <1>10, HandleOK, OthersOK, OtherPairsOK DEF OverlayKey
<1>11. ASSUME NEW d \in Dirs, WheelLog(d) PROVE LInv'
  <2>1. LogOK([app EXCEPT !.focus = "detail"])
    BY OthersOK
  <2>2. d \in Int
    BY DEF Dirs
  <2>3. LogOK(ScrollRows([app EXCEPT !.focus = "detail"], d))
    BY <2>1, <2>2, ScrollOK
  <2> QED
    BY <1>11, <2>3, HandleOK DEF WheelLog
<1>12. ASSUME NEW d \in Dirs, WheelDetails(d) PROVE LInv'
  BY <1>12, HandleOK, OtherPairsOK DEF WheelDetails
<1>13. CASE WheelQuotas
  BY <1>13, HandleOK, OthersOK DEF WheelQuotas
<1>14. ASSUME NEW row \in 0 .. Screen - 1, ClickRow(row) PROVE LInv'
  <2> DEFINE index == app.scroll + row
             a == [app EXCEPT !.focus = "detail"]
  <2>1. LogOK(a) /\ index \in Nat
    BY OthersOK DEF LogOK, ActivityLogAssumption
  <2>2. Handle(IF index >= Len(app.log) THEN a
               ELSE IF index = ActivityIndex(a) THEN ToggleDetails(a)
               ELSE [SelectActivity(a, index) EXCEPT !.follow = FALSE])
    BY <1>14, Zenon DEF ClickRow
  <2> HIDE DEF a, index
  <2>3. /\ LogOK(ToggleDetails(a))
        /\ LogOK([SelectActivity(a, index) EXCEPT !.follow = FALSE])
    BY <2>1, ToggleOK, SelectOK, OthersOK
  <2> QED
    BY <2>1, <2>2, <2>3, HandleOK
<1>15. CASE Resize
  BY <1>15, FrameOK DEF Resize
<1>16. ASSUME NEW ok \in BOOLEAN, PollLands(ok) PROVE LInv'
  <2>1. polls' \in Nat
    BY <1>16 DEF PollLands
  <2>2. LogOK(IF ok /\ app.detail = "activity"
              THEN [app EXCEPT !.log = Log(polls')] ELSE app)
    BY <2>1, FetchedOK
  <2> QED
    BY <1>16, <2>1, <2>2, FrameOK DEF PollLands
<1>17. CASE UNCHANGED logVars
  BY <1>17 DEF logVars
<1> QED
  BY <1>1, <1>2, <1>3, <1>4, <1>5, <1>6, <1>7, <1>8, <1>9, <1>10, <1>11,
     <1>12,
     <1>13, <1>14, <1>15, <1>16, <1>17
     DEF LogNext, Press, Point

\* A frame after a selection shows the cursor, if it shows the list at all,
\* and so does one after the log was fetched again.
LEMMA SelectionShown ==
  ASSUME LInv, NEW row \in Nat, app.detail = "activity", app.log # <<>>,
         NEW ok \in BOOLEAN, NEW b,
         b \in {SelectActivity(app, row), Fetched(SelectActivity(app, row), ok)},
         Handle(b), ListDrawn(app', term')
  PROVE  InView(app')
<1> DEFINE a == SelectActivity(app, row)
<1>1. /\ LogOK(a) /\ a.follow = TRUE /\ a.detail = "activity"
      /\ a.cursor # 0 /\ a.log # <<>>
  <2>1. /\ LogOK(a) /\ a.log = app.log /\ a.follow = TRUE /\ a.detail = "activity"
        /\ ActivityIndex(a) # -1
    BY SelectOK, SelectMoves DEF LInv
  <2>2. a.cursor # 0
    BY <2>1 DEF ActivityIndex
  <2> QED
    BY <2>1, <2>2
<1> HIDE DEF a
<1>2. LogOK(b) /\ b.follow = TRUE /\ b.detail = "activity" /\ b.cursor = a.cursor
  <2>1. CASE b = a
    BY <1>1, <2>1
  <2>2. CASE b = Fetched(a, ok)
    <3>1. LogOK(b)
      BY <1>1, <2>2, ReloadOK
    <3> QED
      BY <1>1, <2>2, <3>1 DEF Fetched, LogOK, LogFields
  <2> QED
    BY <2>1, <2>2 DEF a
<1>3. app' = Render(b, term) /\ term' = term
  BY DEF Handle
<1>4. LogOK(app') /\ SameList(b, app')
  BY <1>2, <1>3, FrameOK
<1>5. ActivityIndex(app') = ActivityIndex(b)
  BY <1>4, SameIndex
<1>6. ListDrawn(b, term)
  BY <1>3, <1>4, <1>5 DEF ListDrawn, DetailsDrawn, Shown, SameList
<1>7. ActivityIndex(b) # -1
  BY <1>1, <1>2, <1>6, IndexInLog DEF ListDrawn
<1>8. app' = RenderActivity(b, term)
  BY <1>2, <1>3, <1>6 DEF Render, ListDrawn
<1>9. ActivityIndex(b) \in app'.scroll .. app'.scroll + Screen - 1
  BY <1>2, <1>6, <1>7, <1>8, ActivityFrame
<1> QED
  BY <1>5, <1>9 DEF InView

LEMMA MoveShown ==
  ASSUME LInv, NEW row \in Nat, app.detail = "activity", app.log # <<>>,
         Handle(SelectActivity(app, row)), ListDrawn(app', term')
  PROVE  InView(app')
<1>1. TRUE \in BOOLEAN
  OBVIOUS
<1> QED
  BY <1>1, SelectionShown

\* A key that moves the Activity cursor leaves it on screen, whatever the
\* wheel, the other tabs and the polls that landed have done to the view
\* (render_activity, move_activity_cursor, select_activity).
THEOREM CursorAlwaysShown ==
  LogSpec => CursorShownAfterKey
<1> USE ActivityLogAssumption
<1>1. LogInit => LInv
  BY InitLInv
<1>2. LInv /\ [LogNext]_logVars => LInv'
  BY NextLInv
<1>3. LInv /\ [LogNext]_logVars =>
        [CursorMoves /\ app.log # <<>> /\ ListDrawn(app', term') => InView(app')]_logVars
  <2> SUFFICES ASSUME LInv, CursorMoves, app.log # <<>>, ListDrawn(app', term')
               PROVE  InView(app')
    OBVIOUS
  <2>1. ASSUME NEW d \in Dirs, CursorKey(d) PROVE InView(app')
    <3> DEFINE row == IF ActivityIndex(app) = -1 THEN 0 ELSE Over(ActivityIndex(app) + d)
    <3>1. Handle(SelectActivity(app, row)) /\ app.detail = "activity"
      BY <2>1, Zenon DEF CursorKey, MoveActivityCursor
    <3>2. row \in Nat
      <4>1. LogOK(app) /\ d \in Int
        BY DEF Dirs, LInv
      <4> QED
        BY <4>1, RowOfMove, Zenon
    <3> HIDE DEF row
    <3> QED
      BY <3>1, <3>2, MoveShown
  <2>2. ASSUME NEW d \in Dirs, PageKey(d), app.detail = "activity"
        PROVE  InView(app')
    <3>1. d * Page \in Int
      BY DEF Dirs, ActivityLogAssumption
    <3> QED
      BY <2>2, <3>1, MoveShown, RowOfMove
         DEF PageKey, MoveActivityCursor, LInv
  <2>3. ASSUME NEW end \in BOOLEAN, NEW ok \in BOOLEAN, EndKey(end, ok) PROVE InView(app')
    <3>1. CASE end
      BY <2>3, <3>1, MoveShown DEF EndKey, ActivityLogAssumption
    <3>2. CASE ~end
      <4> DEFINE b == Fetched(SelectActivity(app, 0), ok)
      <4>1. Handle(b) /\ app.detail = "activity"
        BY <2>3, <3>2 DEF EndKey
      <4> QED
        BY <4>1, SelectionShown
    <3> QED
      BY <3>1, <3>2
  <2> QED
    BY <2>1, <2>2, <2>3 DEF CursorMoves
<1> QED
  BY <1>1, <1>2, <1>3, PTL DEF LogSpec, CursorShownAfterKey

=============================================================================
