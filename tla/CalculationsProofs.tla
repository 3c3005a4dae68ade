------------------------- MODULE CalculationsProofs -------------------------
(***************************************************************************)
(* What the pure calculations promise for every input, not only the ones   *)
(* Calculations enumerates: `asked` is any question of its kind.           *)
(***************************************************************************)
EXTENDS Calculations, FiniteSetTheorems, WellFoundedInduction, TLAPS

-----------------------------------------------------------------------------
(* Least and greatest.                                                     *)

\* The smallest element of a nonempty set of naturals.
LEMMA MinIsLeast ==
  ASSUME NEW S, S \subseteq Nat, S # {}
  PROVE  Min(S) \in S /\ \A y \in S : Min(S) <= y
<1> DEFINE R == OpToRel(<, Nat)
<1>1. \E x \in S : \A y \in S : ~(<<y, x>> \in R)
  <2>1. IsWellFoundedOn(R, Nat)
    BY NatLessThanWellFounded, Zenon
  <2> HIDE DEF R
  <2> QED
    BY <2>1, WFMin, Zenon
<1>2. \A x, y \in Nat : <<y, x>> \notin R => x <= y
  BY DEF OpToRel
<1> HIDE DEF R
<1>3. \E x \in S : \A y \in S : x <= y
  BY <1>1, <1>2
<1> QED
  BY <1>3, Zenon DEF Min

\* The smaller and the greater of two integers.
LEMMA MinMaxOfTwo ==
  ASSUME NEW x \in Int, NEW y \in Int
  PROVE  /\ Min({x, y}) = IF x <= y THEN x ELSE y
         /\ Max({x, y}) = IF x >= y THEN x ELSE y
<1>1. \E z \in {x, y} : \A u \in {x, y} : z <= u
  OBVIOUS
<1>2. Min({x, y}) \in {x, y} /\ \A u \in {x, y} : Min({x, y}) <= u
  BY <1>1, Zenon DEF Min
<1>3. \E z \in {x, y} : \A u \in {x, y} : z >= u
  OBVIOUS
<1>4. Max({x, y}) \in {x, y} /\ \A u \in {x, y} : Max({x, y}) >= u
  BY <1>3, Zenon DEF Max
<1> QED
  BY <1>2, <1>4

LEMMA MaxWithZero ==
  ASSUME NEW t \in Int
  PROVE  Max({t, 0}) = IF t >= 0 THEN t ELSE 0
<1>1. \A z \in Int : Max({t, z}) = IF t >= z THEN t ELSE z
  BY MinMaxOfTwo
<1>2. 0 \in Int
  OBVIOUS
<1> QED
  BY <1>1, <1>2, Zenon

-----------------------------------------------------------------------------
(* The settings editor.                                                    *)

LEMMA LadderRises ==
  /\ INTERVAL_RUNGS \in [1 .. 10 -> Nat] /\ Len(INTERVAL_RUNGS) = 10
  /\ \A i \in 1 .. 9 : INTERVAL_RUNGS[i] < INTERVAL_RUNGS[i + 1]
  /\ FirstRung = 10 /\ LastRung = 3600
  /\ INTERVAL_RUNGS[1] = 10 /\ INTERVAL_RUNGS[10] = 3600
BY DEF INTERVAL_RUNGS, FirstRung, LastRung

\* So a later rung is a longer interval.
LEMMA LadderOrder ==
  \A i, j \in 1 .. 10 : i < j => INTERVAL_RUNGS[i] < INTERVAL_RUNGS[j]
BY DEF INTERVAL_RUNGS

LEMMA RungIs ==
  ASSUME NEW i \in Int
  PROVE  Rung(i) = INTERVAL_RUNGS[IF i < 1 THEN 1 ELSE IF i > 10 THEN 10 ELSE i]
<1> DEFINE m == IF i < 1 THEN 1 ELSE i
<1>1. Max({i, 1}) = m
  BY MinMaxOfTwo
<1>2. Min({m, 10}) = IF m <= 10 THEN m ELSE 10
  BY MinMaxOfTwo
<1>3. Rung(i) = INTERVAL_RUNGS[Min({Max({i, 1}), 10})]
  BY LadderRises DEF Rung
<1> QED
  BY <1>1, <1>2, <1>3

\* The first rung at or after an interval.
LEMMA FirstAtOrAfter ==
  ASSUME NEW c \in Nat, c <= LastRung
  PROVE  LET i == Min(AtOrAfter(c))
         IN  /\ AtOrAfter(c) # {} /\ i \in 1 .. 10
             /\ INTERVAL_RUNGS[i] >= c /\ (i > 1 => INTERVAL_RUNGS[i - 1] < c)
<1> DEFINE S == AtOrAfter(c)
           i == Min(S)
<1>1. S = {j \in 1 .. 10 : INTERVAL_RUNGS[j] >= c}
  BY LadderRises DEF AtOrAfter
<1>2. S \subseteq Nat /\ 10 \in S
  BY <1>1, LadderRises
<1> HIDE DEF S
<1>3. i \in S /\ \A j \in S : i <= j
  BY <1>2, MinIsLeast
<1> HIDE DEF i
<1>4. i \in 1 .. 10 /\ INTERVAL_RUNGS[i] >= c
  BY <1>1, <1>3
<1>5. ASSUME i > 1 PROVE INTERVAL_RUNGS[i - 1] < c
  <2>1. i - 1 \in 1 .. 10 /\ i - 1 \notin S
    BY <1>3, <1>4, <1>5
  <2>2. INTERVAL_RUNGS[i - 1] \in Nat
    BY <2>1, LadderRises
  <2> QED
    BY <1>1, <2>1, <2>2
<1> QED
  BY <1>2, <1>4, <1>5 DEF i, S

\* A rung that is the only one of its part of the ladder.
LEMMA OnlyRung ==
  ASSUME NEW m \in 1 .. 10, NEW from \in Nat, NEW to \in Nat,
         INTERVAL_RUNGS[m] \in from .. to,
         m > 1 => INTERVAL_RUNGS[m - 1] < from,
         m < 10 => INTERVAL_RUNGS[m + 1] > to
  PROVE  Rungs \cap (from .. to) = {INTERVAL_RUNGS[m]}
<1>1. ASSUME NEW j \in 1 .. 10, INTERVAL_RUNGS[j] \in from .. to
      PROVE  j = m
  <2>1. /\ INTERVAL_RUNGS[j] \in Nat
        /\ m > 1 => m - 1 \in 1 .. 10 /\ INTERVAL_RUNGS[m - 1] \in Nat
        /\ m < 10 => m + 1 \in 1 .. 10 /\ INTERVAL_RUNGS[m + 1] \in Nat
    BY LadderRises
  <2>2. CASE j < m
    <3>1. j = m - 1 \/ j < m - 1
      BY <2>2
    <3> QED
      BY <1>1, <2>1, <2>2, <3>1, LadderOrder
  <2>3. CASE j > m
    <3>1. j = m + 1 \/ m + 1 < j
      BY <2>3
    <3> QED
      BY <1>1, <2>1, <2>3, <3>1, LadderOrder
  <2> QED
    BY <2>2, <2>3
<1>2. Rungs = {INTERVAL_RUNGS[j] : j \in 1 .. 10}
  BY LadderRises DEF Rungs
<1> QED
  BY <1>1, <1>2

\* `+` goes to the next rung above, or to the end of the ladder.
LEMMA StepUp ==
  ASSUME NEW c \in Nat, c >= 10
  PROVE  LET to == StepInterval(c, 1)
         IN  /\ to \in Nat /\ to >= 10
             /\ IF c >= LastRung THEN to = LastRung
                ELSE to > c /\ Rungs \cap (c + 1 .. to) = {to}
<1> DEFINE i == Min(AtOrAfter(c))
<1>1. CASE c > LastRung
  <2>1. AtOrAfter(c) = {}
    <3>1. \A j \in 1 .. 10 : INTERVAL_RUNGS[j] < c
      BY <1>1, LadderRises, LadderOrder
    <3>2. \A j \in 1 .. 10 : INTERVAL_RUNGS[j] \in Nat
      BY LadderRises
    <3> QED
      BY <3>1, <3>2, LadderRises DEF AtOrAfter
  <2>2. StepInterval(c, 1) = LastRung
    BY <2>1 DEF StepInterval
  <2> QED
    BY <1>1, <2>2, LadderRises
<1>2. CASE c <= LastRung
  <2>1. /\ AtOrAfter(c) # {} /\ i \in 1 .. 10
        /\ INTERVAL_RUNGS[i] >= c /\ (i > 1 => INTERVAL_RUNGS[i - 1] < c)
    BY <1>2, FirstAtOrAfter
  <2>2. StepInterval(c, 1) = IF INTERVAL_RUNGS[i] = c THEN Rung(i + 1) ELSE Rung(i)
    BY <2>1 DEF StepInterval
  <2> HIDE DEF i
  <2>3. CASE INTERVAL_RUNGS[i] = c /\ i = 10
    BY <2>2, <2>3, RungIs, LadderRises
  <2>4. CASE INTERVAL_RUNGS[i] = c /\ i < 10
    <3>1. i + 1 \in 1 .. 10 /\ StepInterval(c, 1) = INTERVAL_RUNGS[i + 1]
      BY <2>1, <2>2, <2>4, RungIs
    <3>2. INTERVAL_RUNGS[i + 1] \in Nat /\ INTERVAL_RUNGS[i + 1] > c /\ c < LastRung
      BY <2>1, <2>4, <3>1, LadderRises, LadderOrder
    <3>3. i + 1 < 10 => INTERVAL_RUNGS[i + 1 + 1] > INTERVAL_RUNGS[i + 1]
      BY <2>1, LadderRises
    <3>4. Rungs \cap (c + 1 .. INTERVAL_RUNGS[i + 1]) = {INTERVAL_RUNGS[i + 1]}
      <4> DEFINE m == i + 1
      <4>1. m \in 1 .. 10 /\ m - 1 = i
        BY <2>1, <3>1
      <4>2. INTERVAL_RUNGS[m] \in c + 1 .. INTERVAL_RUNGS[m]
        BY <3>2
      <4>3. m > 1 => INTERVAL_RUNGS[m - 1] < c + 1
        BY <2>4, <4>1
      <4> HIDE DEF m
      <4>4. Rungs \cap (c + 1 .. INTERVAL_RUNGS[m]) = {INTERVAL_RUNGS[m]}
        BY <3>2, <3>3, <4>1, <4>2, <4>3, OnlyRung DEF m
      <4> QED
        BY <4>4 DEF m
    <3> QED
      BY <3>1, <3>2, <3>4, LadderRises
  <2>5. CASE INTERVAL_RUNGS[i] # c
    <3>1. StepInterval(c, 1) = INTERVAL_RUNGS[i] /\ INTERVAL_RUNGS[i] \in Nat
      BY <2>1, <2>2, <2>5, RungIs, LadderRises
    <3>2. INTERVAL_RUNGS[i] > c /\ c < LastRung
      BY <1>2, <2>1, <2>5, <3>1, LadderRises, LadderOrder
    <3>3. i < 10 => INTERVAL_RUNGS[i + 1] > INTERVAL_RUNGS[i]
      BY <2>1, LadderRises
    <3>4. i > 1 => INTERVAL_RUNGS[i - 1] < c + 1
      BY <2>1, LadderRises
    <3>5. Rungs \cap (c + 1 .. INTERVAL_RUNGS[i]) = {INTERVAL_RUNGS[i]}
      BY <2>1, <3>1, <3>2, <3>3, <3>4, OnlyRung, SMTT(40)
    <3> QED
      BY <3>1, <3>2, <3>5, LadderRises
  <2> QED
    BY <2>1, <2>3, <2>4, <2>5
<1> QED
  BY <1>1, <1>2, LadderRises

\* `-` goes to the next rung below, or to the beginning of the ladder.
LEMMA StepDown ==
  ASSUME NEW c \in Nat, c >= 10
  PROVE  LET to == StepInterval(c, -1)
         IN  /\ to \in Nat /\ to >= 10
             /\ IF c = FirstRung THEN to = c
                ELSE to < c /\ Rungs \cap (to .. c - 1) = {to}
<1> DEFINE i == Min(AtOrAfter(c))
<1>1. ASSUME NEW m \in 1 .. 10, StepInterval(c, -1) = INTERVAL_RUNGS[m],
             INTERVAL_RUNGS[m] < c, m < 10 => INTERVAL_RUNGS[m + 1] >= c
      PROVE  LET to == StepInterval(c, -1)
             IN  to \in Nat /\ to >= 10 /\ to < c /\ Rungs \cap (to .. c - 1) = {to}
  <2> DEFINE to == INTERVAL_RUNGS[m]
  <2>1. to \in Nat /\ to >= 10
    BY LadderRises, LadderOrder
  <2>2. m > 1 => INTERVAL_RUNGS[m - 1] < to
    BY LadderOrder
  <2>3. m < 10 => INTERVAL_RUNGS[m + 1] \in Nat
    BY LadderRises
  <2>4. c - 1 \in Nat /\ to \in to .. c - 1 /\ (m < 10 => INTERVAL_RUNGS[m + 1] > c - 1)
    BY <1>1, <2>1, <2>3
  <2>5. Rungs \cap (to .. c - 1) = {to}
    BY <2>1, <2>2, <2>4, OnlyRung
  <2> QED
    BY <1>1, <2>1, <2>5
<1>2. CASE c > LastRung
  <2>1. \A j \in 1 .. 10 : INTERVAL_RUNGS[j] \in Nat /\ INTERVAL_RUNGS[j] < c
    BY <1>2, LadderRises, LadderOrder
  <2>2. AtOrAfter(c) = {}
    BY <2>1, LadderRises DEF AtOrAfter
  <2>3. StepInterval(c, -1) = INTERVAL_RUNGS[10]
    BY <2>2, LadderRises DEF StepInterval
  <2> QED
    BY <1>1, <1>2, <2>1, <2>3, LadderRises
<1>3. CASE c <= LastRung
  <2>1. /\ AtOrAfter(c) # {} /\ i \in 1 .. 10
        /\ INTERVAL_RUNGS[i] >= c /\ (i > 1 => INTERVAL_RUNGS[i - 1] < c)
    BY <1>3, FirstAtOrAfter
  <2>2. StepInterval(c, -1) = Rung(i - 1)
    BY <2>1 DEF StepInterval
  <2> HIDE DEF i
  <2>3. CASE i = 1
    BY <2>1, <2>2, <2>3, RungIs, LadderRises
  <2>4. CASE i > 1
    <3> DEFINE m == i - 1
    <3>1. m \in 1 .. 10 /\ StepInterval(c, -1) = INTERVAL_RUNGS[m] /\ m + 1 = i
      BY <2>1, <2>2, <2>4, RungIs
    <3>2. c # FirstRung
      <4>1. INTERVAL_RUNGS[m] \in Nat /\ INTERVAL_RUNGS[m] >= 10
        BY <3>1, LadderRises, LadderOrder
      <4> QED
        BY <2>1, <2>4, <4>1, LadderRises
    <3> HIDE DEF m
    <3>3. INTERVAL_RUNGS[m] < c /\ (m < 10 => INTERVAL_RUNGS[m + 1] >= c)
      BY <2>1, <2>4, <3>1 DEF m
    <3> QED
      BY <1>1, <3>1, <3>2, <3>3
  <2> QED
    BY <2>1, <2>3, <2>4
<1> QED
  BY <1>2, <1>3, LadderRises

Settings == {NoSetting} \cup {n \in Nat : n >= MIN_POLL_INTERVAL_SECS}

\* Every edit of every config the daemon can have loaded.
EditQuestions ==
  [about : {"edit"}, row : SettingsRows, key : {"up", "down", "clear"},
   config : [global : Settings, override : Settings, enabled : BOOLEAN]]

\* What the daemon shows of such a config is an interval it would accept.
LEMMA ViewInEffect ==
  ASSUME NEW c \in [global : Settings, override : Settings, enabled : BOOLEAN]
  PROVE  /\ ConfigView(c).global \in Nat /\ ConfigView(c).global >= 10
         /\ ConfigView(c).effective \in Nat /\ ConfigView(c).effective >= 10
BY DEF ConfigView, Settings, NoSetting, MIN_POLL_INTERVAL_SECS,
       DEFAULT_POLL_INTERVAL

\* An edit does what its key says, for every interval a config may hold, on the
\* ladder, between its rungs or beyond its end (step_interval, edit_settings,
\* clear_setting, Config::view, validate_edit, apply_edit).
THEOREM EditsCorrect ==
  ASSUME asked \in EditQuestions
  PROVE  EditsDoWhatTheySay
<1> DEFINE config == asked.config
           row    == asked.row
           key    == asked.key
           before == ConfigView(config)
           delta  == IF key = "up" THEN 1 ELSE -1
           edit   == IF key = "clear" THEN ClearSetting(row)
                     ELSE EditSettings(before, row, delta)
           after  == ConfigView(Applied(config, edit))
           moved(from, to) ==
             CASE key = "up" ->
                    IF from >= LastRung THEN to = LastRung
                    ELSE to > from /\ Rungs \cap (from + 1 .. to) = {to}
               [] key = "down" ->
                    IF from = FirstRung THEN to = from
                    ELSE to < from /\ Rungs \cap (to .. from - 1) = {to}
               [] OTHER -> TRUE
<1>1. /\ config \in [global : Settings, override : Settings, enabled : BOOLEAN]
      /\ row \in SettingsRows /\ key \in {"up", "down", "clear"}
  BY DEF EditQuestions
<1>2. ASSUME NEW c \in Nat, c >= 10
      PROVE  LET to == StepInterval(c, delta)
             IN  to \in Nat /\ to >= 10 /\ (key # "clear" => moved(c, to))
  <2>1. CASE key = "up"
    BY <1>2, <2>1, StepUp
  <2>2. CASE key = "down"
    BY <1>2, <2>2, StepDown
  <2>3. CASE key = "clear"
    BY <1>2, <2>3, StepDown
  <2> QED
    BY <1>1, <2>1, <2>2, <2>3
<1>3. /\ before.global \in Nat /\ before.global >= 10
      /\ before.effective \in Nat /\ before.effective >= 10
  BY <1>1, ViewInEffect
<1>4. key = "clear" => \A from, to : moved(from, to)
  OBVIOUS
<1> DEFINE conclusion ==
             /\ edit # NoEdit => ValidEdit(edit)
             /\ CASE row = "global" ->
                       /\ moved(before.global, after.global)
                       /\ key = "clear" => after.global = before.default
                       /\ after.override = before.override
                       /\ after.enabled = before.enabled
                  [] row = "interval" ->
                       /\ moved(before.effective, after.effective)
                       /\ key = "clear" => after.effective = after.global
                       /\ after.global = before.global
                       /\ after.enabled = before.enabled
                  [] OTHER ->
                       /\ after.enabled = (before.enabled = (key = "clear"))
                       /\ after.effective = before.effective
<1> SUFFICES conclusion
  BY DEF EditsDoWhatTheySay
<1> HIDE DEF moved
<1>5. CASE row = "global"
  <2> DEFINE secs == IF key = "clear" THEN NoSetting
                     ELSE StepInterval(before.global, delta)
  <2>1. edit = [edit |-> "global", secs |-> secs]
    BY <1>5 DEF ClearSetting, EditSettings
  <2>2. key # "clear" => secs \in Nat /\ secs >= 10 /\ moved(before.global, secs)
    BY <1>2, <1>3
  <2> HIDE DEF secs
  <2>3. Applied(config, edit) = [config EXCEPT !.global = secs]
    BY <2>1 DEF Applied
  <2>4. /\ after.override = before.override /\ after.enabled = before.enabled
        /\ after.global = IF secs = NoSetting THEN DEFAULT_POLL_INTERVAL ELSE secs
        /\ before.default = DEFAULT_POLL_INTERVAL
    BY <1>1, <2>3 DEF ConfigView
  <2>5. edit # NoEdit => ValidEdit(edit)
    BY <2>1, <2>2 DEF ValidEdit, secs, MIN_POLL_INTERVAL_SECS
  <2> HIDE DEF edit, after, before
  <2>6. key = "clear" => secs = NoSetting
    BY DEF secs
  <2>7. moved(before.global, after.global)
    BY <1>1, <1>4, <2>2, <2>4 DEF NoSetting
  <2> QED
    BY <1>5, <2>4, <2>5, <2>6, <2>7
<1>6. CASE row = "interval"
  <2> DEFINE secs == IF key = "clear" THEN NoSetting
                     ELSE StepInterval(before.effective, delta)
  <2>1. edit = [edit |-> "interval", secs |-> secs]
    BY <1>6 DEF ClearSetting, EditSettings
  <2>2. key # "clear" => secs \in Nat /\ secs >= 10 /\ moved(before.effective, secs)
    BY <1>2, <1>3
  <2> HIDE DEF secs
  <2>3. Applied(config, edit) = [config EXCEPT !.override = secs]
    BY <2>1 DEF Applied
  <2>4. /\ after.global = before.global /\ after.enabled = before.enabled
        /\ after.effective = IF secs = NoSetting THEN after.global ELSE secs
    BY <1>1, <2>3 DEF ConfigView
  <2>5. edit # NoEdit => ValidEdit(edit)
    BY <2>1, <2>2 DEF ValidEdit, secs, MIN_POLL_INTERVAL_SECS
  <2> HIDE DEF edit, after, before
  <2>6. key = "clear" => secs = NoSetting
    BY DEF secs
  <2>7. moved(before.effective, after.effective)
    BY <1>1, <1>4, <2>2, <2>4 DEF NoSetting
  <2> QED
    BY <1>6, <2>4, <2>5, <2>6, <2>7
<1>7. CASE row = "enabled"
  <2>1. CASE key = "clear"
    <3>1. edit = NoEdit /\ Applied(config, edit) = config
      BY <1>7, <2>1 DEF ClearSetting, Applied, NoEdit
    <3> QED
      BY <1>1, <1>7, <2>1, <3>1 DEF ConfigView
  <2>2. CASE key # "clear"
    <3>1. edit = [edit |-> "enabled", enabled |-> ~before.enabled]
      BY <1>7, <2>2 DEF EditSettings
    <3>2. Applied(config, edit) = [config EXCEPT !.enabled = ~before.enabled]
      BY <3>1 DEF Applied
    <3>3. /\ after.effective = before.effective
          /\ after.enabled = ~before.enabled /\ before.enabled \in BOOLEAN
      BY <1>1, <3>2 DEF ConfigView
    <3>4. ValidEdit(edit)
      BY <3>1 DEF ValidEdit
    <3> QED
      BY <1>7, <2>2, <3>3, <3>4
  <2> QED
    BY <2>1, <2>2
<1> QED
  BY <1>1, <1>5, <1>6, <1>7 DEF SettingsRows

-----------------------------------------------------------------------------
(* Pages of history.                                                       *)

\* A finite nonempty set of naturals has a greatest element.
LEMMA GreatestExists ==
  \A S \in SUBSET Nat : IsFiniteSet(S) /\ S # {} => \E x \in S : \A y \in S : x >= y
<1> DEFINE Bad(S) == IsFiniteSet(S) /\ S # {} /\ ~(\E x \in S : \A y \in S : x >= y)
           T == {n \in Nat : \E S \in SUBSET Nat : Bad(S) /\ Cardinality(S) = n}
<1> SUFFICES ASSUME NEW S \in SUBSET Nat, Bad(S) PROVE FALSE
  OBVIOUS
<1>1. Cardinality(S) \in T
  BY FS_CardinalityType
<1>2. T \subseteq Nat /\ T # {}
  BY <1>1
<1>3. Min(T) \in T /\ \A n \in T : Min(T) <= n
  <2> HIDE DEF T
  <2> QED
    BY <1>2, MinIsLeast
<1>4. PICK U \in SUBSET Nat : Bad(U) /\ Cardinality(U) = Min(T)
  BY <1>3
<1>5. PICK x \in U : TRUE
  BY <1>4
<1> DEFINE V == U \ {x}
<1>6. IsFiniteSet(V) /\ Cardinality(V) = Cardinality(U) - 1
  BY <1>4, <1>5, FS_RemoveElement
<1>7. Cardinality(U) \in Nat
  BY <1>4, FS_CardinalityType
<1>8. Cardinality(V) \notin T
  <2> HIDE DEF T, V
  <2> QED
    BY <1>3, <1>4, <1>6, <1>7
<1>9. ~Bad(V)
  <2>1. V \in SUBSET Nat /\ Cardinality(V) \in Nat
    BY <1>6, FS_CardinalityType
  <2> QED
    BY <1>8, <2>1
<1>10. CASE V = {}
  <2>1. U = {x} /\ x \in Nat
    BY <1>5, <1>10
  <2> QED
    BY <1>4, <2>1
<1>11. CASE V # {}
  <2>1. PICK m \in V : \A y \in V : m >= y
    BY <1>6, <1>9, <1>11
  <2>2. m \in Nat /\ x \in Nat /\ m \in U /\ V \subseteq Nat
    BY <1>5
  <2>3. CASE m >= x
    <3>1. \A y \in U : m >= y
      BY <2>1, <2>3
    <3> QED
      BY <1>4, <2>2, <3>1
  <2>4. CASE x >= m
    <3>1. \A y \in U : x >= y
      BY <2>1, <2>2, <2>4
    <3> QED
      BY <1>4, <1>5, <3>1
  <2> QED
    BY <2>2, <2>3, <2>4
<1> QED
  BY <1>10, <1>11

LEMMA MaxIsGreatest ==
  ASSUME NEW S, S \subseteq Nat, S # {}, IsFiniteSet(S)
  PROVE  Max(S) \in S /\ \A y \in S : Max(S) >= y
<1>1. \E x \in S : \A y \in S : x >= y
  BY GreatestExists
<1> QED
  BY <1>1, Zenon DEF Max

\* Whole division.
LEMMA Quotient ==
  ASSUME NEW x \in Nat, NEW s \in Nat, s > 0
  PROVE  LET q == x \div s IN q \in Nat /\ q * s <= x /\ x < q * s + s
OBVIOUS

LEMMA ProductRises ==
  ASSUME NEW a \in Int, NEW b \in Int, a <= b, NEW s \in Nat
  PROVE  a * s \in Int /\ b * s \in Int /\ a * s <= b * s
OBVIOUS

LEMMA QuotientRises ==
  ASSUME NEW x \in Nat, NEW y \in Nat, x <= y, NEW s \in Nat, s > 0
  PROVE  x \div s <= y \div s
<1> DEFINE p == x \div s
           q == y \div s
<1>1. p \in Nat /\ p * s <= x
  BY Quotient
<1>2. q \in Nat /\ y < q * s + s
  BY Quotient
<1> HIDE DEF p, q
<1>3. ASSUME q + 1 <= p PROVE FALSE
  <2>1. (q + 1) * s <= p * s /\ (q + 1) * s \in Int /\ p * s \in Int
    BY <1>1, <1>2, <1>3, ProductRises
  <2>2. (q + 1) * s = q * s + s /\ q * s \in Int
    BY <1>2
  <2> QED
    BY <1>1, <1>2, <2>1, <2>2
<1> QED
  BY <1>1, <1>2, <1>3 DEF p, q

\* Where a reading of the interval falls.
LEMMA BucketHolds ==
  ASSUME NEW ts \in Nat, NEW since \in Int, NEW span \in Nat, span > 0,
         NEW budget \in Nat, budget > 0, since <= ts, ts <= since + span
  PROVE  LET b == BucketOf(ts, since, span, budget)
             x == (ts - since) * budget
         IN  b \in 0 .. budget - 1 /\ b * span <= x /\ x <= b * span + span
<1> DEFINE t == ts - since
           x == t * budget
           q == x \div span
           b == BucketOf(ts, since, span, budget)
<1>1. t \in Nat /\ t <= span
  OBVIOUS
<1>2. x \in Nat /\ x <= span * budget /\ span * budget \in Nat
  <2> HIDE DEF t
  <2>1. t * budget \in Nat /\ span * budget \in Nat
    BY <1>1
  <2> QED
    BY <1>1, <2>1, ProductRises
<1>3. Max({ts - since, 0}) = t
  <2>1. \A u \in Nat : Max({u, 0}) = u
    BY MinMaxOfTwo
  <2> QED
    BY <1>1, <2>1, Zenon
<1>4. b = Min({q, budget - 1})
  BY <1>3 DEF BucketOf
<1> HIDE DEF t, x, b
<1>5. q \in Nat /\ q * span <= x /\ x < q * span + span
  BY <1>2, Quotient
<1> HIDE DEF q
<1>6. b = IF q <= budget - 1 THEN q ELSE budget - 1
  BY <1>4, <1>5, MinMaxOfTwo
<1>7. CASE q <= budget - 1
  <2>1. b = q /\ q * span \in Int
    BY <1>5, <1>6, <1>7
  <2> QED
    BY <1>2, <1>5, <1>7, <2>1 DEF b, x, t
<1>8. CASE ~(q <= budget - 1)
  <2>1. b = budget - 1 /\ b <= q
    BY <1>5, <1>6, <1>8
  <2>2. b * span <= q * span /\ b * span \in Int /\ q * span \in Int
    BY <1>5, <2>1, ProductRises
  <2>3. b * span + span = span * budget
    BY <2>1
  <2> QED
    BY <1>2, <1>5, <2>1, <2>2, <2>3 DEF b, x, t
<1> QED
  BY <1>7, <1>8

\* A later reading is in the same bucket or in a later one.
LEMMA BucketsRise ==
  ASSUME NEW ts \in Nat, NEW us \in Nat, ts <= us, NEW since \in Int, since <= ts,
         NEW span \in Nat, span > 0, NEW budget \in Nat, budget > 0
  PROVE  BucketOf(ts, since, span, budget) <= BucketOf(us, since, span, budget)
<1> DEFINE x == (ts - since) * budget
           y == (us - since) * budget
<1>1. ts - since \in Nat /\ us - since \in Nat /\ ts - since <= us - since
  OBVIOUS
<1>2. Max({ts - since, 0}) = ts - since /\ Max({us - since, 0}) = us - since
  <2>1. \A t \in Nat : Max({t, 0}) = t
    BY MinMaxOfTwo
  <2> QED
    BY <1>1, <2>1, Zenon
<1>3. x \in Nat /\ y \in Nat /\ x <= y
  <2>1. \A t \in Nat : t * budget \in Nat
    OBVIOUS
  <2> QED
    BY <1>1, <2>1, ProductRises
<1>4. /\ BucketOf(ts, since, span, budget) = Min({x \div span, budget - 1})
      /\ BucketOf(us, since, span, budget) = Min({y \div span, budget - 1})
  BY <1>2 DEF BucketOf
<1> HIDE DEF x, y
<1>5. x \div span \in Nat /\ y \div span \in Nat /\ x \div span <= y \div span
  BY <1>3, Quotient, QuotientRises
<1> DEFINE p == x \div span
           q == y \div span
<1> HIDE DEF p, q
<1>6. /\ Min({p, budget - 1}) = IF p <= budget - 1 THEN p ELSE budget - 1
      /\ Min({q, budget - 1}) = IF q <= budget - 1 THEN q ELSE budget - 1
  BY <1>5, MinMaxOfTwo DEF p, q
<1> QED
  BY <1>4, <1>5, <1>6 DEF p, q

\* What windows are called: the two of the run are named because the provers do
\* not know that a literal is a string.
WindowNames == STRING \cup {AnyWindow, "5h", "7d"}

\* Readings as they are stored, for the questions about a page and for those
\* about a series.
PageRows   == [window : WindowNames \ {AnyWindow}, ts : Nat, used : Nat,
               readable : BOOLEAN]
StoredRows == [window : WindowNames \ {AnyWindow}, ts : Nat, used : Nat,
               limited : BOOLEAN, reset : Nat \cup {None}]
Rows       == PageRows \cup StoredRows

LEMMA RowHas ==
  ASSUME NEW r \in Rows
  PROVE  /\ r.window \in WindowNames /\ r.window # AnyWindow
         /\ r.ts \in Nat /\ r.used \in Nat
BY DEF Rows, PageRows, StoredRows

\* The values of a function on a finite set.
LEMMA ImageIsFinite ==
  ASSUME NEW S, IsFiniteSet(S), NEW f
  PROVE  LET T == {f[x] : x \in S}
         IN  IsFiniteSet(T) /\ Cardinality(T) <= Cardinality(S)
<1> DEFINE T == {f[x] : x \in S}
           g == [x \in S |-> f[x]]
<1>1. g \in Surjection(S, T)
  BY DEF Surjection
<1> HIDE DEF T, g
<1> QED
  BY <1>1, FS_Surjection DEF T

Newest(rows, r) == \A q \in rows : q.ts <= r.ts

\* Some reading of a nonempty page is its newest.
LEMMA NewestExists ==
  ASSUME NEW rows, rows \subseteq Rows, rows # {}, IsFiniteSet(rows)
  PROVE  \E r \in rows : Newest(rows, r)
<1> DEFINE S == {r.ts : r \in rows}
<1>1. IsFiniteSet(S)
  <2> DEFINE f == [r \in rows |-> r.ts]
  <2>1. S = {f[r] : r \in rows}
    OBVIOUS
  <2> HIDE DEF S, f
  <2> QED
    BY <2>1, ImageIsFinite
<1>2. S \subseteq Nat /\ S # {}
  BY RowHas
<1> HIDE DEF S
<1>3. PICK m \in S : \A y \in S : m >= y
  BY <1>1, <1>2, GreatestExists
<1>4. PICK r \in rows : r.ts = m
  BY <1>3 DEF S
<1>5. \A q \in rows : q.ts \in S /\ q.ts \in Nat
  BY RowHas DEF S
<1> QED
  BY <1>3, <1>4, <1>5 DEF Newest

\* What is picked from a bucket is of that bucket: its newest reading or one of
\* its highest.
LEMMA PickIsBest ==
  ASSUME NEW rows, rows \subseteq Rows, rows # {}, IsFiniteSet(rows),
         NEW bucket, NEW last
  PROVE  LET k == PickOf(rows, bucket, last)
         IN  /\ k \in rows
             /\ IF bucket = last THEN Newest(rows, k)
                ELSE \A q \in rows : q.used <= k.used
<1>1. CASE bucket = last
  <2>1. \E r \in rows : \A q \in rows : q.ts <= r.ts
    BY NewestExists DEF Newest
  <2>2. PickOf(rows, bucket, last) = CHOOSE r \in rows : \A q \in rows : q.ts <= r.ts
    BY <1>1 DEF PickOf
  <2> QED
    BY <1>1, <2>1, <2>2, Zenon DEF Newest
<1>2. CASE bucket # last
  <2> DEFINE S == {r.used : r \in rows}
  <2>1. IsFiniteSet(S)
    <3> DEFINE f == [r \in rows |-> r.used]
    <3>1. S = {f[r] : r \in rows}
      OBVIOUS
    <3> HIDE DEF S, f
    <3> QED
      BY <3>1, ImageIsFinite
  <2>2. S \subseteq Nat /\ S # {}
    BY RowHas
  <2> HIDE DEF S
  <2>3. PICK m \in S : \A y \in S : m >= y
    BY <2>1, <2>2, GreatestExists
  <2> DEFINE high  == {r \in rows : r.used = m}
             times == {r.ts : r \in high}
  <2>4. times \subseteq Nat /\ times # {}
    BY <2>3, RowHas DEF S
  <2> HIDE DEF times
  <2>5. Min(times) \in times /\ \A y \in times : Min(times) <= y
    BY <2>4, MinIsLeast
  <2>6. PICK r \in high : r.ts = Min(times)
    BY <2>5 DEF times
  <2>7. \A q \in rows : q.used < r.used \/ (q.used = r.used /\ r.ts <= q.ts)
    <3> SUFFICES ASSUME NEW q \in rows
                 PROVE  q.used < r.used \/ (q.used = r.used /\ r.ts <= q.ts)
      OBVIOUS
    <3>1. q.used \in S /\ q.used \in Nat /\ r.used = m /\ m \in Nat
      BY <2>2, <2>3, <2>6, RowHas DEF S
    <3>2. q.used = m => q.ts \in times
      BY DEF times
    <3> QED
      BY <2>3, <2>5, <2>6, <3>1, <3>2
  <2> DEFINE best(x) == \A q \in rows : q.used < x.used \/ (q.used = x.used /\ x.ts <= q.ts)
             k == CHOOSE x \in rows : best(x)
  <2>8. PickOf(rows, bucket, last) = k
    BY <1>2 DEF PickOf
  <2>9. r \in rows
    BY <2>6
  <2>10. k \in rows /\ best(k)
    BY <2>7, <2>9, Zenon
  <2> HIDE DEF k
  <2>11. \A q \in rows : q.used \in Nat
    BY RowHas
  <2>12. \A q \in rows : q.used <= k.used
    BY <2>10, <2>11
  <2> QED
    BY <1>2, <2>8, <2>10, <2>12
<1> QED
  BY <1>1, <1>2

Apart(k, r) == Max({k.ts - r.ts, r.ts - k.ts})

\* What a reduction promises of the readings it was given.
Represents(kept, rows, span, budget) ==
  /\ kept \subseteq rows
  /\ \E k \in kept : Newest(rows, k)
  /\ \A r \in rows : \E k \in kept :
       Apart(k, r) * budget <= span /\ (k.used >= r.used \/ Newest(rows, k))

\* Nothing is lost by keeping everything.
LEMMA AllRepresents ==
  ASSUME NEW rows, rows \subseteq Rows, rows # {}, IsFiniteSet(rows),
         NEW span \in Nat, NEW budget \in Nat
  PROVE  Represents(rows, rows, span, budget)
<1>1. \E k \in rows : Newest(rows, k)
  BY NewestExists
<1>2. ASSUME NEW r \in rows
      PROVE  Apart(r, r) * budget <= span /\ r.used >= r.used
  <2>1. r.ts \in Nat /\ r.used \in Nat
    BY RowHas
  <2>2. Apart(r, r) = 0
    <3>1. Max({0, 0}) = 0
      BY MinMaxOfTwo
    <3>2. r.ts - r.ts = 0
      BY <2>1
    <3> QED
      BY <3>1, <3>2 DEF Apart
  <2> QED
    BY <2>1, <2>2
<1> QED
  BY <1>1, <1>2 DEF Represents

\* Two readings of one bucket are at most its width apart.
LEMMA BucketIsNarrow ==
  ASSUME NEW k \in Rows, NEW r \in Rows, NEW since \in Int,
         NEW span \in Nat, span > 0, NEW budget \in Nat, budget > 0,
         since <= k.ts, k.ts <= since + span, since <= r.ts, r.ts <= since + span,
         BucketOf(k.ts, since, span, budget) = BucketOf(r.ts, since, span, budget)
  PROVE  Apart(k, r) * budget <= span
<1> DEFINE b == BucketOf(k.ts, since, span, budget)
           s == k.ts
           t == r.ts
           x == (s - since) * budget
           y == (t - since) * budget
           w == b * span
<1>1. s \in Nat /\ t \in Nat
  BY RowHas
<1>2. b \in 0 .. budget - 1 /\ w <= x /\ x <= w + span
  BY <1>1, BucketHolds
<1>3. w <= y /\ y <= w + span
  BY <1>1, BucketHolds
<1>4. Apart(k, r) = IF s >= t THEN s - t ELSE t - s
  <2>1. s - t \in Int /\ t - s \in Int
    BY <1>1
  <2>2. Apart(k, r) = IF s - t >= t - s THEN s - t ELSE t - s
    BY <2>1, MinMaxOfTwo DEF Apart
  <2> QED
    BY <1>1, <2>2
<1> HIDE DEF b
<1>5. w \in Int
  BY <1>2
<1> HIDE DEF w, s, t
<1>6. x \in Int /\ y \in Int
  BY <1>1
<1>7. (s - t) * budget = x - y /\ (t - s) * budget = y - x
  BY <1>1
<1> HIDE DEF x, y
<1> QED
  BY <1>2, <1>3, <1>4, <1>5, <1>6, <1>7

\* A series that is reduced stays within its budget.
LEMMA ReducedRepresents ==
  ASSUME NEW rows, rows \subseteq Rows, rows # {}, IsFiniteSet(rows),
         NEW since \in Int, NEW span \in Nat, span > 0,
         NEW budget \in Nat, budget > 0,
         \A r \in rows : since <= r.ts /\ r.ts <= since + span
  PROVE  LET kept == ReduceSeries(rows, since, span, budget)
         IN  Represents(kept, rows, span, budget) /\ Cardinality(kept) <= budget
<1>1. CASE Cardinality(rows) <= budget
  <2>1. ReduceSeries(rows, since, span, budget) = rows
    BY <1>1 DEF ReduceSeries
  <2> QED
    BY <1>1, <2>1, AllRepresents
<1>2. CASE ~(Cardinality(rows) <= budget)
  <2> DEFINE of(r)   == BucketOf(r.ts, since, span, budget)
             in(b)   == {r \in rows : of(r) = b}
             buckets == {of(r) : r \in rows}
             last    == Max(buckets)
             pick    == [b \in buckets |-> PickOf(in(b), b, last)]
             kept    == {pick[b] : b \in buckets}
  <2>1. ReduceSeries(rows, since, span, budget) = kept
    <3>1. kept = {PickOf(in(b), b, Max(buckets)) : b \in buckets}
      OBVIOUS
    <3> QED
      BY <1>2, <3>1, Zenon DEF ReduceSeries
  <2>2. \A r \in rows : r \in Rows /\ r.ts \in Nat /\ of(r) \in 0 .. budget - 1
    BY BucketHolds, RowHas
  <2>3. buckets \subseteq 0 .. budget - 1 /\ buckets # {}
    BY <2>2
  <2>4. IsFiniteSet(0 .. budget - 1) /\ Cardinality(0 .. budget - 1) = budget
    <3>1. \A m \in Int : /\ IsFiniteSet(0 .. m)
                          /\ Cardinality(0 .. m) = IF 0 > m THEN 0 ELSE m - 0 + 1
      BY FS_Interval
    <3>2. budget - 1 \in Int /\ ~(0 > budget - 1) /\ budget - 1 - 0 + 1 = budget
      OBVIOUS
    <3> QED
      BY <3>1, <3>2
  <2>5. IsFiniteSet(buckets) /\ Cardinality(buckets) <= budget
    <3> HIDE DEF buckets
    <3> QED
      BY <2>3, <2>4, FS_Subset
  <2>6. last \in buckets /\ \A b \in buckets : last >= b
    <3>1. buckets \subseteq Nat
      BY <2>3
    <3> HIDE DEF buckets
    <3> QED
      BY <2>3, <2>5, <3>1, MaxIsGreatest
  <2>7. ASSUME NEW b \in buckets
        PROVE  /\ pick[b] \in in(b)
               /\ IF b = last THEN Newest(in(b), pick[b])
                  ELSE \A q \in in(b) : q.used <= pick[b].used
    <3>1. in(b) \subseteq rows /\ in(b) # {}
      OBVIOUS
    <3>2. IsFiniteSet(in(b))
      BY <3>1, FS_Subset
    <3>3. pick[b] = PickOf(in(b), b, last)
      OBVIOUS
    <3> HIDE DEF in, last, pick, buckets
    <3> QED
      BY <3>1, <3>2, <3>3, PickIsBest
  <2>8. Cardinality(kept) <= budget
    <3> HIDE DEF buckets, pick
    <3>1. IsFiniteSet(kept) /\ Cardinality(kept) <= Cardinality(buckets)
      BY <2>5, ImageIsFinite
    <3>2. Cardinality(kept) \in Nat /\ Cardinality(buckets) \in Nat
      BY <2>5, <3>1, FS_CardinalityType
    <3> QED
      BY <2>5, <3>1, <3>2
  <2> HIDE DEF last, pick
  <2>9. Newest(rows, pick[last])
    <3> SUFFICES ASSUME NEW q \in rows PROVE q.ts <= pick[last].ts
      BY DEF Newest
    <3> DEFINE k == pick[last]
    <3>1. k \in rows /\ of(k) = last /\ Newest(in(last), k)
      BY <2>6, <2>7
    <3>2. q.ts \in Nat /\ k.ts \in Nat /\ of(q) \in Nat /\ last >= of(q)
      BY <2>2, <2>6, <3>1
    <3>3. CASE of(q) = last
      BY <3>1, <3>3 DEF Newest
    <3>4. CASE of(q) # last
      <4>1. ASSUME k.ts <= q.ts PROVE FALSE
        <5>1. of(k) <= of(q)
          BY <3>1, <3>2, <4>1, BucketsRise
        <5>2. last \in Nat
          BY <2>3, <2>6
        <5> HIDE DEF of, k
        <5> QED
          BY <3>1, <3>2, <3>4, <5>1, <5>2
      <4> QED
        BY <3>2, <4>1
    <3> QED
      BY <3>3, <3>4
  <2>10. ASSUME NEW r \in rows
         PROVE  \E k \in kept : /\ Apart(k, r) * budget <= span
                                /\ k.used >= r.used \/ Newest(rows, k)
    <3> DEFINE b == of(r)
               k == pick[b]
    <3>1. b \in buckets
      OBVIOUS
    <3>2. /\ k \in in(b)
          /\ IF b = last THEN Newest(in(b), k) ELSE \A q \in in(b) : q.used <= k.used
      BY <2>7, <3>1
    <3>3. k \in rows /\ of(k) = b /\ r \in in(b) /\ k \in kept
      BY <3>1, <3>2
    <3>4. Apart(k, r) * budget <= span
      BY <2>2, <3>3, BucketIsNarrow
    <3>5. CASE b = last
      BY <2>9, <3>3, <3>4, <3>5
    <3>6. CASE b # last
      <4>1. r.used <= k.used /\ r.used \in Nat /\ k.used \in Nat
        BY <3>2, <3>3, <3>6, RowHas
      <4> QED
        BY <3>3, <3>4, <4>1
    <3> QED
      BY <3>5, <3>6
  <2>11. kept \subseteq rows /\ pick[last] \in kept
    BY <2>6, <2>7
  <2>12. Represents(kept, rows, span, budget)
    <3> HIDE DEF kept
    <3> QED
      BY <2>9, <2>10, <2>11 DEF Represents
  <2> QED
    BY <2>1, <2>8, <2>12
<1> QED
  BY <1>1, <1>2

\* The bound on a page, whatever was asked for.
LEMMA BudgetIsPositive ==
  ASSUME NEW max_points \in Nat \cup {NoBudget}
  PROVE  Budget(max_points) \in Nat /\ Budget(max_points) > 0
<1>1. MAX_HISTORY_POINTS \in Nat /\ MAX_HISTORY_POINTS > 0
  BY HistoryAssumption
<1>2. CASE max_points = NoBudget
  BY <1>1, <1>2 DEF Budget
<1>3. CASE max_points # NoBudget
  <2> DEFINE m == Max({max_points, 1})
  <2>1. max_points \in Nat
    BY <1>3
  <2>2. m \in Nat /\ m > 0
    <3>1. \A t \in Nat : Max({t, 1}) = IF t >= 1 THEN t ELSE 1
      BY MinMaxOfTwo
    <3> QED
      BY <2>1, <3>1
  <2>3. Budget(max_points) = Min({m, MAX_HISTORY_POINTS})
    BY <1>3 DEF Budget
  <2> HIDE DEF m
  <2> QED
    BY <1>1, <2>2, <2>3, MinMaxOfTwo
<1> QED
  BY <1>2, <1>3

\* A page keeps of every window what the reduction of that window keeps.
LEMMA WindowsReducedApart ==
  ASSUME NEW rows, rows \subseteq Rows, IsFiniteSet(rows),
         NEW since \in Int, NEW until \in Nat, NEW budget \in Nat, budget > 0,
         \A r \in rows : since <= r.ts /\ r.ts <= until,
         NEW w \in {r.window : r \in rows}
  PROVE  LET all  == {r \in rows : r.window = w}
             kept == OfWindow(Downsample(rows, since, until, budget), w)
             span == until - since
         IN  /\ all # {} /\ IsFiniteSet(all)
             /\ Represents(kept, all, Max({span, 0}), budget)
             /\ span > 0 => Cardinality(kept) <= budget
<1> DEFINE of(v) == {r \in rows : r.window = v}
           span  == until - since
           down  == Downsample(rows, since, until, budget)
           kept  == OfWindow(down, w)
<1>1. \A r \in rows : r \in Rows /\ r.ts \in Nat /\ r.window # AnyWindow
  BY RowHas
<1>2. \A v : of(v) \subseteq rows /\ of(v) \subseteq Rows /\ IsFiniteSet(of(v))
  <2> TAKE v
  <2>1. of(v) \subseteq rows
    OBVIOUS
  <2> HIDE DEF of
  <2> QED
    BY <2>1, FS_Subset
<1>3. span \in Int /\ (span > 0 => span \in Nat /\ since + span = until)
  OBVIOUS
<1>4. Max({span, 0}) \in Nat /\ (span > 0 => Max({span, 0}) = span)
  <2>1. \A s \in Int : Max({s, 0}) = IF s >= 0 THEN s ELSE 0
    BY MinMaxOfTwo
  <2> QED
    BY <1>3, <2>1
<1>5. CASE ~(span > 0)
  <2>1. down = rows
    BY <1>3, <1>5 DEF Downsample
  <2>2. PICK r \in rows : r.window = w
    OBVIOUS
  <2>3. w # AnyWindow /\ of(w) # {}
    BY <1>1, <2>2
  <2>4. kept = of(w)
    BY <2>1, <2>3 DEF OfWindow
  <2> HIDE DEF kept, of, span, down
  <2>5. Represents(of(w), of(w), Max({span, 0}), budget)
    BY <1>2, <1>4, <2>3, AllRepresents
  <2> QED
    BY <1>2, <1>5, <2>3, <2>4, <2>5 DEF kept, of, span, down
<1>6. CASE span > 0
  <2> DEFINE red(v) == ReduceSeries(of(v), since, span, budget)
             names  == {r.window : r \in rows}
  <2>1. \A v : v # AnyWindow => OfWindow(rows, v) = of(v)
    BY DEF OfWindow
  <2>2. down = UNION {red(v) : v \in names}
    <3>1. down = UNION {ReduceSeries(OfWindow(rows, v), since, span, budget) : v \in names}
      BY <1>3, <1>6 DEF Downsample
    <3>2. \A v \in names : OfWindow(rows, v) = of(v)
      BY <1>1, <2>1
    <3> HIDE DEF names, of, span, down
    <3> QED
      BY <3>1, <3>2
  <2>3. ASSUME NEW v \in names
        PROVE  /\ of(v) # {}
               /\ Represents(red(v), of(v), span, budget)
               /\ Cardinality(red(v)) <= budget
    <3>1. of(v) # {}
      OBVIOUS
    <3>2. \A r \in of(v) : since <= r.ts /\ r.ts <= since + span
      BY <1>3, <1>6
    <3> HIDE DEF of, span
    <3> QED
      BY <1>2, <1>3, <1>6, <3>1, <3>2, ReducedRepresents
  <2>4. \A v \in names : red(v) \subseteq of(v)
    BY <2>3 DEF Represents
  <2>7. w \in names /\ w # AnyWindow
    BY <1>1
  <2>8. kept = red(w)
    <3>1. kept \subseteq red(w)
      <4> SUFFICES ASSUME NEW r \in kept PROVE r \in red(w)
        OBVIOUS
      <4>1. r \in down /\ r.window = w
        BY <2>7 DEF OfWindow
      <4>2. PICK u \in names : r \in red(u)
        <5> HIDE DEF red, names, down
        <5> QED
          BY <2>2, <4>1
      <4>3. r.window = u
        BY <2>4, <4>2
      <4> QED
        BY <4>1, <4>2, <4>3
    <3>2. red(w) \subseteq kept
      <4> SUFFICES ASSUME NEW r \in red(w) PROVE r \in kept
        OBVIOUS
      <4>1. r \in down
        <5> HIDE DEF red, names, down
        <5> QED
          BY <2>2, <2>7
      <4>2. r.window = w
        BY <2>4, <2>7
      <4> QED
        BY <4>1, <4>2 DEF OfWindow
    <3> QED
      BY <3>1, <3>2
  <2> HIDE DEF kept, of, red, span, down
  <2> QED
    BY <1>2, <1>4, <1>6, <2>3, <2>7, <2>8 DEF kept, of, span, down
<1> QED
  BY <1>5, <1>6

\* Nothing is on a page but what was given to the reduction.
LEMMA NothingAdded ==
  ASSUME NEW rows, rows \subseteq Rows, IsFiniteSet(rows),
         NEW since \in Int, NEW until \in Nat, NEW budget \in Nat, budget > 0,
         \A r \in rows : since <= r.ts /\ r.ts <= until
  PROVE  Downsample(rows, since, until, budget) \subseteq rows
<1> DEFINE down == Downsample(rows, since, until, budget)
<1> SUFFICES ASSUME NEW k \in down PROVE k \in rows
  OBVIOUS
<1>1. CASE until - since <= 0
  BY <1>1 DEF Downsample
<1>2. CASE ~(until - since <= 0)
  <2> DEFINE red(w) == ReduceSeries(OfWindow(rows, w), since, until - since, budget)
  <2>1. PICK w \in {r.window : r \in rows} : k \in red(w)
    BY <1>2 DEF Downsample
  <2> DEFINE of == OfWindow(rows, w)
  <2>2. of \subseteq rows /\ of # {}
    BY DEF OfWindow
  <2>3. IsFiniteSet(of) /\ of \subseteq Rows
    BY <2>2, FS_Subset
  <2>4. until - since \in Nat /\ until - since > 0 /\ since + (until - since) = until
    BY <1>2
  <2> HIDE DEF of
  <2>5. Represents(red(w), of, until - since, budget)
    BY <2>2, <2>3, <2>4, ReducedRepresents DEF of
  <2> QED
    BY <2>1, <2>2, <2>5 DEF Represents
<1> QED
  BY <1>1, <1>2

\* A reading is not older than the earliest of its window's series.
LEMMA EarliestIsBound ==
  ASSUME NEW rows, rows \subseteq Rows, NEW window, NEW r \in OfWindow(rows, window)
  PROVE  EarliestSnapshot(rows, window) <= r.ts
<1> DEFINE S == {q.ts : q \in OfWindow(rows, window)}
<1>1. S \subseteq Nat /\ r.ts \in S
  BY RowHas DEF OfWindow
<1>2. EarliestSnapshot(rows, window) = Min(S)
  BY DEF EarliestSnapshot
<1> HIDE DEF S
<1> QED
  BY <1>1, <1>2, MinIsLeast

\* The questions about a page of history: any finite series, any interval and
\* any budget.
HistoryQueries ==
  [since : Nat, until : Nat \cup {Now}, window : WindowNames,
   max_points : Nat \cup {NoBudget}]

HistoryQuestions ==
  {q \in [about : {"history"}, now : Nat, rows : SUBSET PageRows, query : HistoryQueries] :
     IsFiniteSet(q.rows)}

\* A page stays within its budget and loses nothing that matters, however many
\* readings are stored, of however many windows, and whatever the interval and
\* the budget: the buckets are no wider than span/budget, the last one keeps
\* its newest reading, and windows do not share them (storage.rs history,
\* downsample, reduce_series, earliest_snapshot).
THEOREM PageCorrect ==
  ASSUME asked \in HistoryQuestions
  PROVE  PageIsFaithful
<1> DEFINE now    == asked.now
           rows   == asked.rows
           query  == asked.query
           since  == query.since
           until  == Until(query, now)
           sel    == Selected(rows, query, now)
           page   == HistoryPage(rows, {}, query, now)
           budget == Budget(query.max_points)
           span   == until - since
<1>1. /\ rows \subseteq Rows /\ IsFiniteSet(rows) /\ now \in Nat
      /\ since \in Nat /\ query.until \in Nat \cup {Now}
      /\ query.max_points \in Nat \cup {NoBudget}
  BY DEF HistoryQuestions, HistoryQueries, Rows
<1>2. until \in Nat
  BY <1>1 DEF Until
<1>3. budget \in Nat /\ budget > 0
  BY <1>1, BudgetIsPositive
<1>4. sel \subseteq OfWindow(rows, query.window) /\ sel \subseteq rows
  BY DEF Selected, OfWindow
<1>5. IsFiniteSet(sel) /\ sel \subseteq Rows
  BY <1>1, <1>4, FS_Subset
<1>6. \A r \in sel : since <= r.ts /\ r.ts <= until
  BY DEF Selected, Within
<1> SUFFICES ASSUME page.ok
             PROVE  /\ page.snapshots \subseteq sel
                    /\ \A w \in {r.window : r \in sel} :
                         LET all  == {r \in sel : r.window = w}
                             kept == OfWindow(page.snapshots, w)
                             newest(r) == \A q \in all : q.ts <= r.ts
                         IN  /\ span > 0 => Cardinality(kept) <= budget
                             /\ \E r \in kept : newest(r)
                             /\ \A r \in all :
                                  /\ page.earliest <= r.ts
                                  /\ \E k \in kept :
                                       /\ Max({k.ts - r.ts, r.ts - k.ts}) * budget
                                            <= Max({span, 0})
                                       /\ k.used >= r.used \/ newest(k)
  BY DEF PageIsFaithful
<1>7. /\ page.snapshots = Downsample(sel, since, until, budget)
      /\ page.earliest = EarliestSnapshot(rows, query.window)
  BY DEF HistoryPage, History
<1>8. page.snapshots \subseteq sel
  <2>1. since \in Int
    BY <1>1
  <2> HIDE DEF now, rows, query, since, until, sel, page, budget
  <2> QED
    BY <1>2, <1>3, <1>5, <1>6, <1>7, <2>1, NothingAdded, ZenonT(60)
<1>9. ASSUME NEW w \in {r.window : r \in sel}
      PROVE  LET all  == {r \in sel : r.window = w}
                 kept == OfWindow(page.snapshots, w)
                 newest(r) == \A q \in all : q.ts <= r.ts
             IN  /\ span > 0 => Cardinality(kept) <= budget
                 /\ \E r \in kept : newest(r)
                 /\ \A r \in all :
                      /\ page.earliest <= r.ts
                      /\ \E k \in kept :
                           /\ Max({k.ts - r.ts, r.ts - k.ts}) * budget <= Max({span, 0})
                           /\ k.used >= r.used \/ newest(k)
  <2> DEFINE all  == {r \in sel : r.window = w}
             kept == OfWindow(page.snapshots, w)
  <2> HIDE DEF now, rows, query, since, until, sel, page, budget
  <2>0. since \in Int
    BY <1>1
  <2>1. /\ Represents(kept, all, Max({span, 0}), budget)
        /\ span > 0 => Cardinality(kept) <= budget
    BY <1>2, <1>3, <1>5, <1>6, <1>7, <1>9, <2>0, WindowsReducedApart, ZenonT(40)
  <2>2. \A r \in all : page.earliest <= r.ts
    BY <1>1, <1>4, <1>7, EarliestIsBound
  <2> HIDE DEF all, kept, span
  <2>3. /\ \E r \in kept : \A q \in all : q.ts <= r.ts
        /\ \A r \in all : \E k \in kept :
             /\ Max({k.ts - r.ts, r.ts - k.ts}) * budget <= Max({span, 0})
             /\ k.used >= r.used \/ \A q \in all : q.ts <= k.ts
    BY <2>1 DEF Represents, Newest, Apart
  <2> QED
    BY <2>1, <2>2, <2>3 DEF all, kept
<1> QED
  BY <1>8, <1>9

-----------------------------------------------------------------------------
(* Bars.                                                                   *)

\* A whole division has one quotient and one remainder.
LEMMA QuotientUnique ==
  ASSUME NEW c \in Nat, NEW s \in Nat, s > 0, NEW i \in Nat,
         i * s <= c, c < i * s + s
  PROVE  c \div s = i /\ c % s = c - i * s
<1> DEFINE q == c \div s
<1>1. q \in Nat /\ q * s <= c /\ c < q * s + s
  BY Quotient
<1>2. c % s = c - q * s
  OBVIOUS
<1> HIDE DEF q
<1>3. ASSUME q + 1 <= i PROVE FALSE
  <2>1. (q + 1) * s <= i * s /\ (q + 1) * s \in Int /\ i * s \in Int
    BY <1>1, <1>3, ProductRises
  <2>2. (q + 1) * s = q * s + s /\ q * s \in Int
    BY <1>1
  <2> QED
    BY <1>1, <2>1, <2>2
<1>4. ASSUME i + 1 <= q PROVE FALSE
  <2>1. (i + 1) * s <= q * s /\ (i + 1) * s \in Int /\ q * s \in Int
    BY <1>1, <1>4, ProductRises
  <2>2. (i + 1) * s = i * s + s /\ i * s \in Int
    OBVIOUS
  <2> QED
    BY <1>1, <2>1, <2>2
<1>5. q = i
  BY <1>1, <1>3, <1>4
<1> QED
  BY <1>2, <1>5 DEF q

\* Bars side by side, each of which has a cell of the plot.
Layouts ==
  {b \in [width : Nat \ {0}, gap : Nat, shown : Nat, first : Nat, plot : Nat] :
     \A i \in 0 .. b.shown - 1 : i * (b.width + b.gap) < b.plot}

\* The arithmetic of a press is the arithmetic of drawing.
LEMMA BarsPressed ==
  ASSUME NEW bars \in Layouts
  PROVE  /\ \A i \in 0 .. bars.shown - 1 : BarCells(bars, i) # {}
         /\ \A c \in 0 .. bars.plot - 1 :
              BarAt(bars, c) = None
                <=> \A i \in 0 .. bars.shown - 1 : c \notin BarCells(bars, i)
         /\ \A i \in 0 .. bars.shown - 1 : \A c \in BarCells(bars, i) :
              BarAt(bars, c) = i
<1> DEFINE w == bars.width
           s == bars.width + bars.gap
           shown == bars.shown
           plot == bars.plot
<1>1. w \in Nat /\ w > 0 /\ s \in Nat /\ s > 0 /\ w <= s /\ shown \in Nat /\ plot \in Nat
  BY DEF Layouts
<1>2. \A i \in 0 .. shown - 1 : i * s < plot
  BY DEF Layouts
<1>3. \A i : BarCells(bars, i) = {c \in 0 .. plot - 1 : c - i * s \in 0 .. w - 1}
  BY DEF BarCells
<1>4. \A c : BarAt(bars, c) = IF c % s >= w \/ c \div s >= shown THEN None ELSE c \div s
  BY DEF BarAt
<1> HIDE DEF w, s, shown, plot
<1>5. ASSUME NEW i \in 0 .. shown - 1 PROVE BarCells(bars, i) # {}
  <2>1. i \in Nat /\ i * s \in Nat
    BY <1>1
  <2> DEFINE c == i * s
  <2>2. c \in 0 .. plot - 1 /\ c - i * s = 0
    BY <1>1, <1>2, <2>1
  <2>3. c \in BarCells(bars, i)
    BY <1>1, <1>3, <2>2
  <2> QED
    BY <2>3
<1>6. ASSUME NEW i \in 0 .. shown - 1, NEW c \in BarCells(bars, i)
      PROVE  BarAt(bars, c) = i /\ BarAt(bars, c) # None
  <2>1. i \in Nat /\ i * s \in Int /\ c \in Nat /\ c - i * s \in 0 .. w - 1
    BY <1>1, <1>3
  <2> DEFINE x == i * s
  <2>2. c \div s = i /\ c % s = c - x
    <3>1. x <= c /\ c < x + s
      <4> HIDE DEF x
      <4> QED
        BY <1>1, <2>1 DEF x
    <3> QED
      BY <1>1, <2>1, <3>1, QuotientUnique
  <2> HIDE DEF x
  <2>3. ~(c % s >= w) /\ ~(c \div s >= shown)
    BY <1>1, <2>1, <2>2 DEF x
  <2> QED
    BY <1>1, <1>4, <2>1, <2>2, <2>3 DEF None
<1>7. ASSUME NEW c \in 0 .. plot - 1, BarAt(bars, c) # None
      PROVE  \E i \in 0 .. shown - 1 : c \in BarCells(bars, i)
  <2> DEFINE q == c \div s
  <2>1. c \in Nat
    BY <1>1
  <2>2. ~(c % s >= w) /\ ~(q >= shown)
    BY <1>4, <1>7
  <2>3. q \in Nat /\ q * s <= c /\ c < q * s + s /\ c % s = c - q * s
    BY <1>1, <2>1, Quotient, QuotientUnique
  <2> HIDE DEF q
  <2>4. q \in 0 .. shown - 1 /\ c - q * s \in 0 .. w - 1
    <3>1. q * s \in Int
      BY <1>1, <2>3
    <3> DEFINE x == q * s
    <3> HIDE DEF x
    <3> QED
      BY <1>1, <2>1, <2>2, <2>3, <3>1 DEF x
  <2> QED
    BY <1>3, <2>4
<1>8. \A c \in 0 .. plot - 1 :
        BarAt(bars, c) = None <=> \A i \in 0 .. shown - 1 : c \notin BarCells(bars, i)
  BY <1>6, <1>7
<1> QED
  BY <1>5, <1>6, <1>8 DEF shown, plot

\* The bars of past windows fit any plot that has a column.
LEMMA OutcomesFit ==
  ASSUME NEW rollovers, IsFiniteSet(rollovers), NEW running \in BOOLEAN,
         NEW plot \in Nat \ {0}
  PROVE  OutcomeBars(rollovers, running, plot) \in Layouts
<1> DEFINE count == Cardinality(rollovers) + (IF running THEN 1 ELSE 0)
           third == plot \div 3
           fit   == Max({third, 1})
           shown == Min({fit, count})
           bars  == OutcomeBars(rollovers, running, plot)
<1>1. bars = [width |-> 2, gap |-> 1, shown |-> shown, first |-> count - shown,
              plot |-> plot]
  BY DEF OutcomeBars
<1>2. count \in Nat
  BY FS_CardinalityType
<1>3. third \in Nat /\ 3 * third <= plot
  OBVIOUS
<1> HIDE DEF count, third
<1>4. fit = IF third >= 1 THEN third ELSE 1
  <2>1. \A t \in Nat : Max({t, 1}) = IF t >= 1 THEN t ELSE 1
    BY MinMaxOfTwo
  <2> QED
    BY <1>3, <2>1
<1>5. fit \in Nat
  BY <1>3, <1>4
<1> HIDE DEF fit
<1>6. shown = IF fit <= count THEN fit ELSE count
  BY <1>2, <1>5, MinMaxOfTwo
<1> HIDE DEF shown
<1>7. shown \in Nat /\ shown <= fit /\ count - shown \in Nat
  BY <1>2, <1>5, <1>6
<1>8. \A i \in 0 .. shown - 1 : i * 3 < plot
  BY <1>3, <1>4, <1>7
<1> HIDE DEF bars
<1>9. bars.width = 2 /\ bars.gap = 1 /\ bars.shown = shown /\ bars.plot = plot
  BY <1>1
<1>10. bars \in [width : Nat \ {0}, gap : Nat, shown : Nat, first : Nat, plot : Nat]
  BY <1>1, <1>7
<1>11. \A i \in 0 .. bars.shown - 1 : i * (bars.width + bars.gap) < bars.plot
  BY <1>8, <1>9
<1> QED
  BY <1>10, <1>11 DEF Layouts, bars

\* The bars of the hours fit a plot that has a cell and a gap for each.
LEMMA HoursFit ==
  ASSUME NEW plot \in Nat, plot >= 2 * HOURS - 1
  PROVE  BurnBars(plot) \in Layouts
<1> DEFINE each  == plot \div HOURS
           width == Clamp(each - 1, 1, 4)
           bars  == BurnBars(plot)
<1>1. HOURS \in Nat /\ HOURS > 0
  BY ChartsAssumption
<1>2. each \in Nat /\ each * HOURS <= plot
  BY <1>1, Quotient
<1>3. bars = [width |-> width, gap |-> 1, shown |-> HOURS, first |-> 0, plot |-> plot]
  BY DEF BurnBars
<1> HIDE DEF each
<1>4. width \in 1 .. 4 /\ (width > 1 => width + 1 <= each)
  <2> DEFINE m == Max({each - 1, 1})
  <2>1. m = IF each - 1 >= 1 THEN each - 1 ELSE 1
    <3>1. \A t \in Int : Max({t, 1}) = IF t >= 1 THEN t ELSE 1
      BY MinMaxOfTwo
    <3>2. each - 1 \in Int
      BY <1>2
    <3> QED
      BY <3>1, <3>2
  <2>2. m \in Int
    BY <1>2, <2>1
  <2> HIDE DEF m
  <2>3. width = IF m <= 4 THEN m ELSE 4
    <3>1. \A t \in Int : Min({t, 4}) = IF t <= 4 THEN t ELSE 4
      BY MinMaxOfTwo
    <3>2. width = Min({m, 4})
      BY DEF Clamp, m
    <3> QED
      BY <2>2, <3>1, <3>2
  <2> HIDE DEF width
  <2> QED
    BY <1>2, <2>1, <2>3
<1> HIDE DEF width, bars
<1>5. ASSUME NEW i \in 0 .. HOURS - 1 PROVE i * (width + 1) < plot
  <2>1. i \in Nat /\ i <= HOURS - 1 /\ width + 1 \in Nat
    BY <1>1, <1>4
  <2>2. CASE width = 1
    BY <1>1, <2>1, <2>2
  <2>3. CASE width > 1
    <3> DEFINE s == width + 1
               last == HOURS - 1
    <3>1. s \in Nat /\ s > 0 /\ s <= each /\ last \in Nat
      BY <1>1, <1>4, <2>1, <2>3
    <3>2. HOURS * s = last * s + s
      BY <1>1, <2>1
    <3> HIDE DEF s, last
    <3>3. i * s <= last * s /\ i * s \in Int /\ last * s \in Int
      BY <2>1, <3>1, ProductRises DEF last
    <3>4. s * HOURS <= each * HOURS /\ s * HOURS \in Int /\ each * HOURS \in Int
      BY <1>1, <1>2, <3>1, ProductRises
    <3>5. HOURS * s = s * HOURS
      BY <1>1, <3>1
    <3>6. i * s < plot
      BY <1>2, <3>1, <3>2, <3>3, <3>4, <3>5
    <3> QED
      BY <3>6 DEF s
  <2> QED
    BY <1>4, <2>2, <2>3
<1>6. bars.width = width /\ bars.gap = 1 /\ bars.shown = HOURS /\ bars.plot = plot
  BY <1>3
<1>7. bars \in [width : Nat \ {0}, gap : Nat, shown : Nat, first : Nat, plot : Nat]
  BY <1>1, <1>3, <1>4
<1>8. \A i \in 0 .. bars.shown - 1 : i * (bars.width + bars.gap) < bars.plot
  BY <1>5, <1>6
<1> QED
  BY <1>7, <1>8 DEF Layouts, bars

\* The questions about bars: any number of past windows in any plot, and the
\* hours of a day in any plot they fit.
BarQuestion(q) ==
  /\ q.about = "bars"
  /\ \/ \E rollovers : \E running \in BOOLEAN, plot \in Nat \ {0} :
          IsFiniteSet(rollovers) /\ q.bars = OutcomeBars(rollovers, running, plot)
     \/ \E plot \in Nat : plot >= 2 * HOURS - 1 /\ q.bars = BurnBars(plot)

-----------------------------------------------------------------------------
(* Rules and marks of a page.                                              *)

\* The questions about a page with rollovers: those the query returned, of the
\* range, each poll of a window showing at most one.
PageRollovers == [observed_at : Nat, kind : {"scheduled", "early", "unannounced"}]

PageQuestions ==
  {q \in [about : {"page"}, now : Nat, live : BOOLEAN, unit : {"percent", "count"},
          limit : Nat \cup {None}, readings : SUBSET [used : Nat],
          trend : [until : Nat, rollovers : SUBSET PageRollovers,
                   range : [duration : Nat, max_points : Nat \ {0}]],
          view : [reset : Nat \cup {None}, span : Nat, used : Nat \cup {None},
                  not_before : Nat \cup {None}, not_after : Nat \cup {None}]] :
     /\ IsFiniteSet(q.readings)
     /\ \A r \in q.trend.rollovers :
          /\ r.observed_at >= q.trend.until - q.trend.range.duration
          /\ r.observed_at <= q.trend.until
          /\ \A s \in q.trend.rollovers : r.observed_at = s.observed_at => r = s}

\* No reading is above the axis.
LEMMA PeakBelowBound ==
  ASSUME NEW readings, readings \subseteq [used : Nat], IsFiniteSet(readings),
         NEW unit, NEW limit \in Nat \cup {None}, NEW r \in readings
  PROVE  r.used <= YBound(readings, unit, limit)
<1> DEFINE S    == {q.used : q \in readings}
           peak == Max(S \cup {0})
           head == (105 * peak) \div 100
<1>1. S \cup {0} \subseteq Nat /\ r.used \in S
  OBVIOUS
<1>2. IsFiniteSet(S \cup {0})
  <2> DEFINE f == [q \in readings |-> q.used]
  <2>1. S = {f[q] : q \in readings}
    OBVIOUS
  <2> HIDE DEF S, f
  <2>2. IsFiniteSet(S)
    BY <2>1, ImageIsFinite
  <2> QED
    BY <2>2, FS_AddElement
<1> HIDE DEF S
<1>3. peak \in Nat /\ r.used <= peak
  <2>1. \A T : T \subseteq Nat /\ T # {} /\ IsFiniteSet(T)
                 => Max(T) \in T /\ \A y \in T : Max(T) >= y
    BY MaxIsGreatest
  <2>2. peak \in S \cup {0} /\ \A y \in S \cup {0} : peak >= y
    BY <1>1, <1>2, <2>1
  <2> QED
    BY <1>1, <2>2
<1> DEFINE bound == YBound(readings, unit, limit)
<1>4. bound \in {Max({FULL, head}), Max({limit, head}), Max({head, 1})}
  BY DEF YBound, S
<1> HIDE DEF peak
<1>5. head \in Nat /\ peak <= head
  BY <1>3
<1> HIDE DEF head, bound
<1>6. /\ Max({FULL, head}) >= head /\ Max({head, 1}) >= head /\ Max({limit, head}) >= head
      /\ {Max({FULL, head}), Max({limit, head}), Max({head, 1})} \subseteq Int
  <2>1. \A x, y \in Int : Max({x, y}) \in Int /\ Max({x, y}) >= y /\ Max({x, y}) >= x
    BY MinMaxOfTwo
  <2>2. FULL \in Int /\ limit \in Int /\ 1 \in Int /\ head \in Int
    BY <1>5 DEF FULL, None
  <2> QED
    BY <2>1, <2>2
<1>7. r.used \in Nat /\ bound >= head /\ bound \in Int
  BY <1>1, <1>4, <1>6
<1> QED
  BY <1>3, <1>5, <1>7 DEF bound

\* A press picks what is drawn under it: the bars and the pages, of any size.
\* Each bar is pressed by its own cells and by no other, and a rollover of a
\* page is drawn in exactly one way (bar_at, outcome_bars, burn_bars,
\* boundaries, usage_chart, y_bound).
THEOREM BarsAndRulesCorrect ==
  ASSUME BarQuestion(asked) \/ asked \in PageQuestions
  PROVE  PressPicksWhatIsDrawn
<1>1. CASE BarQuestion(asked)
  <2>1. asked.about = "bars" /\ asked.bars \in Layouts
    BY <1>1, OutcomesFit, HoursFit DEF BarQuestion
  <2> QED
    BY <2>1, BarsPressed DEF PressPicksWhatIsDrawn
<1>2. CASE asked \in PageQuestions
  <2> DEFINE trend == asked.trend
             ros   == trend.rollovers
             from  == trend.until - trend.range.duration
             chart == UsageChart(trend, asked.view, asked.live, asked.now)
             w     == EffectiveWindow(asked.view, asked.now)
             rules(r) == {b \in chart.rules :
                            b.at = r.observed_at /\ b.kind \in {"rollover", "surprise"}}
             began(r) == w # NoWindow /\ r.kind # "unannounced" /\
                           r.observed_at - w.start \in -RESET_TOLERANCE .. RESET_TOLERANCE
             ways(r) == Cardinality(rules(r))
                          + (IF r.observed_at \in chart.drops THEN 1 ELSE 0)
                          + (IF began(r) THEN 1 ELSE 0)
             kind(r) == IF r.kind = "scheduled" THEN "rollover" ELSE "surprise"
             rule(r) == [at |-> r.observed_at, kind |-> kind(r)]
  <2>1. /\ asked.about = "page" /\ ros \subseteq PageRollovers
        /\ \A r \in ros : /\ r.observed_at >= from /\ r.observed_at <= trend.until
                          /\ \A s \in ros : r.observed_at = s.observed_at => r = s
    BY <1>2 DEF PageQuestions
  <2>2. chart.drops = {r.observed_at : r \in {q \in ros : q.kind = "unannounced"}}
    BY DEF UsageChart
  <2>3. \A r \in ros : r.observed_at \in chart.drops <=> r.kind = "unannounced"
    BY <2>1, <2>2
  <2>4. ASSUME NEW b
        PROVE  b \in chart.rules /\ b.kind \in {"rollover", "surprise"}
               <=> \E r \in ros : r.kind # "unannounced" /\ ~began(r) /\ b = rule(r)
    <3> DEFINE past == PastBoundaries(w, ros, from, trend.until)
    <3>1. b \in past <=> \E r \in ros : r.kind # "unannounced" /\ ~began(r) /\ b = rule(r)
      BY <2>1 DEF PastBoundaries
    <3>2. b \in past => b.kind \in {"rollover", "surprise"}
      BY <3>1
    <3>3. b \in chart.rules /\ b.kind \in {"rollover", "surprise"}
          <=> b \in past /\ b.kind \in {"rollover", "surprise"}
      <4> HIDE DEF past, w
      <4> QED
        BY DEF UsageChart, RuleSeries, TrendRules, Boundaries, past, w
    <3> QED
      BY <3>1, <3>2, <3>3
  <2>5. ASSUME NEW r \in ros PROVE ways(r) = 1
    <3>1. CASE r.kind # "unannounced" /\ ~began(r)
      <4>1. rules(r) = {rule(r)}
        BY <2>1, <2>4, <3>1
      <4>2. Cardinality(rules(r)) = 1
        BY <4>1, FS_Singleton
      <4> QED
        BY <2>3, <3>1, <4>2
    <3>2. CASE ~(r.kind # "unannounced" /\ ~began(r))
      <4>1. rules(r) = {}
        BY <2>1, <2>4, <3>2
      <4>2. Cardinality(rules(r)) = 0
        BY <4>1, FS_EmptySet
      <4>3. (r.kind = "unannounced") <=> ~began(r)
        BY <3>2
      <4> HIDE DEF began, rules
      <4> QED
        BY <2>3, <4>2, <4>3
    <3> QED
      BY <3>1, <3>2
  <2>6. \A r \in asked.readings :
          r.used <= YBound(asked.readings, asked.unit, asked.limit)
    <3>1. /\ asked.readings \subseteq [used : Nat] /\ IsFiniteSet(asked.readings)
          /\ asked.limit \in Nat \cup {None}
      BY <1>2 DEF PageQuestions
    <3> QED
      BY <3>1, PeakBelowBound
  <2> QED
    BY <2>1, <2>5, <2>6 DEF PressPicksWhatIsDrawn
<1> QED
  BY <1>1, <1>2

-----------------------------------------------------------------------------
(* Series in time order.                                                   *)

\* Finitely many things, no two of one time.
Timed(S) ==
  /\ IsFiniteSet(S)
  /\ \A p \in S : p.ts \in Nat
  /\ \A p, q \in S : p.ts = q.ts => p = q

\* Sorting by time lists everything once, the oldest first.
LEMMA ByTimeSorts ==
  ASSUME NEW S, Timed(S)
  PROVE  LET run == ByTime(S)
         IN  /\ run \in Seq(S) /\ Len(run) = Cardinality(S)
             /\ \A p \in S : \E i \in 1 .. Len(run) : run[i] = p
             /\ \A i, j \in 1 .. Len(run) : i < j => run[i].ts < run[j].ts
<1> DEFINE n == Cardinality(S)
           below(p) == {q \in S : q.ts <= p.ts}
           rank == [p \in S |-> Cardinality(below(p))]
           run  == ByTime(S)
<1>1. IsFiniteSet(S) /\ n \in Nat
  BY FS_CardinalityType DEF Timed
<1>2. \A p \in S : p.ts \in Nat
  BY DEF Timed
<1>3. \A p, q \in S : p.ts = q.ts => p = q
  BY DEF Timed
<1>4. ASSUME NEW p \in S
      PROVE  /\ IsFiniteSet(below(p)) /\ p \in below(p)
             /\ rank[p] \in 1 .. n
  <2>1. below(p) \in SUBSET S /\ p \in below(p)
    BY <1>2
  <2>2. rank[p] = Cardinality(below(p))
    OBVIOUS
  <2> HIDE DEF below, rank
  <2>3. IsFiniteSet(below(p)) /\ Cardinality(below(p)) <= n
    BY <1>1, <2>1, FS_Subset
  <2>4. Cardinality(below(p)) \in Nat /\ Cardinality(below(p)) # 0
    BY <2>1, <2>3, FS_CardinalityType, FS_EmptySet
  <2> QED
    BY <1>1, <2>1, <2>2, <2>3, <2>4
<1>5. ASSUME NEW p \in S, NEW q \in S, p.ts < q.ts
      PROVE  rank[p] < rank[q]
  <2>1. p.ts \in Nat /\ q.ts \in Nat
    BY <1>2
  <2>2. below(p) \in SUBSET below(q) /\ q \notin below(p) /\ q \in below(q)
    BY <1>2, <1>5, <2>1
  <2>3. IsFiniteSet(below(q))
    BY <1>4
  <2>4. rank[p] = Cardinality(below(p)) /\ rank[q] = Cardinality(below(q))
    OBVIOUS
  <2> HIDE DEF below, rank
  <2>7. Cardinality(below(p)) \in Nat /\ Cardinality(below(q)) \in Nat
    BY <1>4, FS_CardinalityType
  <2>5. Cardinality(below(p)) <= Cardinality(below(q))
    BY <2>2, <2>3, FS_Subset
  <2>6. Cardinality(below(p)) # Cardinality(below(q))
    BY <2>2, <2>3, FS_Subset
  <2> QED
    BY <2>4, <2>5, <2>6, <2>7
<1>13. \A p \in S : rank[p] = Cardinality({q \in S : q.ts <= p.ts})
  OBVIOUS
<1>14. \A p \in S : rank[p] \in 1 .. n
  BY <1>4
<1> HIDE DEF rank
<1>6. \A p, q \in S : rank[p] = rank[q] => p = q
  <2> SUFFICES ASSUME NEW p \in S, NEW q \in S, rank[p] = rank[q] PROVE p = q
    OBVIOUS
  <2>1. p.ts \in Nat /\ q.ts \in Nat /\ rank[p] \in Nat
    BY <1>2, <1>14
  <2>2. ~(p.ts < q.ts) /\ ~(q.ts < p.ts)
    BY <1>5, <2>1
  <2> QED
    BY <1>3, <2>1, <2>2
<1>7. \A i \in 1 .. n : \E p \in S : rank[p] = i
  <2>1. IsFiniteSet(1 .. n) /\ Cardinality(1 .. n) = n
    <3>1. \A m \in Int : /\ IsFiniteSet(1 .. m)
                          /\ Cardinality(1 .. m) = IF 1 > m THEN 0 ELSE m - 1 + 1
      BY FS_Interval
    <3> HIDE DEF n
    <3> QED
      BY <1>1, <3>1
  <2>2. rank \in Injection(S, 1 .. n)
    <3>1. rank \in [S -> 1 .. n]
      BY <1>14 DEF rank
    <3> QED
      BY <1>6, <3>1, Zenon DEF Injection, IsInjective
  <2>3. rank \in Surjection(S, 1 .. n)
    BY <2>1, <2>2, FS_Injection
  <2> QED
    BY <2>3 DEF Surjection
<1>8. run = [i \in 1 .. n |-> CHOOSE p \in S : Cardinality({q \in S : q.ts <= p.ts}) = i]
  BY DEF ByTime
<1>9. \A i \in 1 .. n : run[i] \in S /\ rank[run[i]] = i
  <2> TAKE i \in 1 .. n
  <2>1. run[i] = CHOOSE p \in S : Cardinality({q \in S : q.ts <= p.ts}) = i
    BY <1>8
  <2>2. \E p \in S : Cardinality({q \in S : q.ts <= p.ts}) = i
    BY <1>7, <1>13
  <2>3. run[i] \in S /\ Cardinality({q \in S : q.ts <= run[i].ts}) = i
    BY <2>1, <2>2, Zenon
  <2> QED
    BY <1>13, <2>3
<1> HIDE DEF run, n
<1>10. run \in Seq(S) /\ Len(run) = n
  <2>1. run \in [1 .. n -> S]
    BY <1>8, <1>9, Zenon
  <2>2. n \in Nat
    BY <1>1
  <2> QED
    BY <2>1, <2>2
<1>11. \A p \in S : \E i \in 1 .. n : run[i] = p
  BY <1>6, <1>9, <1>14
<1>12. ASSUME NEW i \in 1 .. n, NEW j \in 1 .. n, i < j
       PROVE  run[i].ts < run[j].ts
  <2>1. run[i].ts \in Nat /\ run[j].ts \in Nat /\ rank[run[i]] = i /\ rank[run[j]] = j
    BY <1>2, <1>9
  <2>2. ~(run[j].ts < run[i].ts)
    BY <1>5, <1>9, <1>12, <2>1
  <2>3. run[i].ts # run[j].ts
    BY <1>3, <1>9, <1>12, <2>1
  <2> QED
    BY <2>1, <2>2, <2>3
<1> QED
  BY <1>10, <1>11, <1>12 DEF run, n

\* Every value of a line is on one of its stretches, and nothing else is.
LEMMA SegmentsCoverDrawn ==
  ASSUME NEW points, NEW n \in Nat, DOMAIN points = 1 .. n, Len(points) = n,
         NEW drawn \in [1 .. n -> BOOLEAN]
  PROVE  UNION Segments(points, drawn) = {points[k].ts : k \in {j \in 1 .. n : drawn[j]}}
<1> DEFINE stretch(a, b) == {points[k].ts : k \in a .. b}
<1>1. \A s : s \in Segments(points, drawn)
               <=> \E a, b \in 1 .. n : Unbroken(points, drawn, a, b) /\ s = stretch(a, b)
  BY DEF Segments
<1>2. ASSUME NEW a \in 1 .. n, NEW b \in 1 .. n, Unbroken(points, drawn, a, b),
             NEW k \in a .. b
      PROVE  k \in 1 .. n /\ drawn[k]
  BY <1>2 DEF Unbroken
<1>3. ASSUME NEW k \in 1 .. n, drawn[k]
      PROVE  \E a, b \in 1 .. n : Unbroken(points, drawn, a, b) /\ k \in a .. b
  <2> DEFINE A == {a \in 1 .. k : \A j \in a .. k : drawn[j]}
             B == {b \in k .. n : \A j \in k .. b : drawn[j]}
  <2>1. A \subseteq Nat /\ k \in A
    BY <1>3
  <2>2. B \subseteq Nat /\ k \in B /\ IsFiniteSet(B)
    <3>1. B \subseteq Nat /\ k \in B /\ \A b \in B : b <= n
      BY <1>3
    <3> HIDE DEF B
    <3> QED
      BY <3>1, FS_BoundedSetOfNaturals
  <2> DEFINE a == Min(A)
             b == Max(B)
  <2>3. a \in A /\ \A y \in A : a <= y
    <3> HIDE DEF A
    <3> QED
      BY <2>1, MinIsLeast
  <2>4. b \in B /\ \A y \in B : b >= y
    <3> HIDE DEF B
    <3> QED
      BY <2>2, MaxIsGreatest
  <2> HIDE DEF a, b
  <2>5. a \in 1 .. n /\ b \in 1 .. n /\ a <= k /\ k <= b /\ \A j \in a .. b : drawn[j]
    BY <2>3, <2>4
  <2>6. ASSUME a > 1 PROVE ~drawn[a - 1]
    <3>1. a - 1 \notin A
      BY <2>3, <2>5
    <3> QED
      BY <2>3, <2>5, <2>6, <3>1
  <2>7. ASSUME b < n PROVE ~drawn[b + 1]
    <3>1. b + 1 \notin B
      BY <2>4, <2>5
    <3> QED
      BY <2>4, <2>5, <2>7, <3>1
  <2>8. Unbroken(points, drawn, a, b)
    BY <2>5, <2>6, <2>7 DEF Unbroken
  <2> QED
    BY <2>5, <2>8
<1> HIDE DEF stretch
<1>4. \A t : t \in UNION Segments(points, drawn)
               <=> \E a, b \in 1 .. n : Unbroken(points, drawn, a, b) /\ t \in stretch(a, b)
  BY <1>1
<1>5. \A t, a, b : t \in stretch(a, b) <=> \E k \in a .. b : t = points[k].ts
  BY DEF stretch
<1>6. ASSUME NEW t \in UNION Segments(points, drawn)
      PROVE  \E k \in 1 .. n : drawn[k] /\ t = points[k].ts
  <2>1. PICK a \in 1 .. n, b \in 1 .. n : Unbroken(points, drawn, a, b) /\ t \in stretch(a, b)
    BY <1>4
  <2>2. PICK k \in a .. b : t = points[k].ts
    BY <1>5, <2>1
  <2> QED
    BY <1>2, <2>1, <2>2
<1>7. ASSUME NEW k \in 1 .. n, drawn[k]
      PROVE  points[k].ts \in UNION Segments(points, drawn)
  <2>1. PICK a \in 1 .. n, b \in 1 .. n : Unbroken(points, drawn, a, b) /\ k \in a .. b
    BY <1>3, <1>7
  <2>2. points[k].ts \in stretch(a, b)
    BY <1>5, <2>1
  <2> QED
    BY <1>4, <2>1, <2>2
<1> HIDE DEF Segments
<1> QED
  BY <1>6, <1>7

-----------------------------------------------------------------------------
(* What a rate rests on.                                                   *)

\* A suffix of a run.
LEMMA SuffixOf ==
  ASSUME NEW M, NEW run \in Seq(M), NEW a \in 1 .. Len(run) + 1
  PROVE  LET s == SubSeq(run, a, Len(run))
         IN  /\ s \in Seq(M) /\ Len(s) = Len(run) - a + 1
             /\ \A i \in 1 .. Len(s) : s[i] = run[a + i - 1]
OBVIOUS

\* Some places of a run are at most all of them.
LEMMA PlacesCounted ==
  ASSUME NEW n \in Nat, NEW S \in SUBSET (1 .. n)
  PROVE  IsFiniteSet(S) /\ Cardinality(S) \in 0 .. n
<1>1. IsFiniteSet(1 .. n) /\ Cardinality(1 .. n) = n
  <2>1. \A m \in Int : /\ IsFiniteSet(1 .. m)
                        /\ Cardinality(1 .. m) = IF 1 > m THEN 0 ELSE m - 1 + 1
    BY FS_Interval
  <2> QED
    BY <2>1
<1>2. IsFiniteSet(S) /\ Cardinality(S) <= Cardinality(1 .. n)
  BY <1>1, FS_Subset
<1>3. Cardinality(S) \in Nat
  BY <1>2, FS_CardinalityType
<1> QED
  BY <1>1, <1>2, <1>3

LEMMA FromIsSuffix ==
  ASSUME NEW M, NEW run \in Seq(M), NEW ts
  PROVE  \E a \in 1 .. Len(run) + 1 : From(run, ts) = SubSeq(run, a, Len(run))
<1> DEFINE S == {i \in DOMAIN run : run[i].ts < ts}
           a == 1 + Cardinality(S)
<1>1. S \in SUBSET (1 .. Len(run)) /\ Len(run) \in Nat
  OBVIOUS
<1>2. From(run, ts) = SubSeq(run, a, Len(run))
  BY DEF From
<1> HIDE DEF S
<1>3. Cardinality(S) \in 0 .. Len(run)
  BY <1>1, PlacesCounted
<1>4. a \in 1 .. Len(run) + 1
  BY <1>1, <1>3
<1> QED
  BY <1>2, <1>4

\* Within a stretch nothing breaks.
LEMMA StretchIsWhole ==
  ASSUME NEW M, NEW run \in Seq(M), run # <<>>, NEW gap
  PROVE  \E a \in 1 .. Len(run) :
           /\ Stretch(run, gap) = SubSeq(run, a, Len(run))
           /\ \A j \in a .. Len(run) - 1 : ~Breaks(run[j], run[j + 1], gap)
<1> DEFINE n == Len(run)
           breaks == {j \in 1 .. n - 1 : Breaks(run[j], run[j + 1], gap)}
           S == {1} \cup {i + 1 : i \in breaks}
           a == Max(S)
<1>1. n \in Nat /\ n > 0
  OBVIOUS
<1>2. Stretch(run, gap) = SubSeq(run, a, Len(run))
  BY DEF Stretch
<1> HIDE DEF n
<1>3. S \subseteq 1 .. n /\ S # {}
  BY <1>1
<1>4. IsFiniteSet(S)
  <2> HIDE DEF S
  <2> QED
    BY <1>1, <1>3, PlacesCounted
<1>5. a \in S /\ \A y \in S : a >= y
  <2>1. S \subseteq Nat
    BY <1>3
  <2> HIDE DEF S
  <2> QED
    BY <1>3, <1>4, <2>1, MaxIsGreatest
<1> HIDE DEF a
<1>6. a \in 1 .. n
  BY <1>3, <1>5
<1>7. ASSUME NEW j \in a .. n - 1, Breaks(run[j], run[j + 1], gap) PROVE FALSE
  <2>1. j \in breaks
    BY <1>1, <1>6, <1>7
  <2>2. j + 1 \in S /\ a >= j + 1
    BY <1>5, <2>1
  <2> QED
    BY <1>1, <1>6, <2>2
<1> QED
  BY <1>2, <1>6, <1>7 DEF a, n

\* A fitted rate spans its run.
LEMMA FitSpans ==
  ASSUME NEW run, NEW quantum, Fit(run, quantum) # NoRate
  PROVE  /\ ~(Len(run) < 2)
         /\ Fit(run, quantum).to = run[Len(run)].ts
<1> DEFINE elapsed == Last(run).ts - Head(run).ts
<1>1. ~(Len(run) < 2) /\ ~(elapsed < MIN_SAMPLE)
  BY DEF Fit
<1>2. Fit(run, quantum) = FitElapsed(run, quantum, Last(run).used - Head(run).used, elapsed)
  BY <1>1, Zenon DEF Fit
<1>3. Fit(run, quantum).to = Last(run).ts
  BY <1>2, SMTT(40) DEF FitElapsed, Interval
<1> QED
  BY <1>1, <1>3 DEF Last

\* However far the lookback widens, it fits the readings from some time on.
LEMMA WidenFits ==
  ASSUME NEW stretch, NEW quantum, NEW span, NEW lookback
  PROVE  \E ts : Widen(stretch, quantum, span, lookback) = Fit(From(stretch, ts), quantum)
BY DEF Widen

\* The readings of a window up to now.
ReadingsOf(w, points, now) ==
  {p \in points : /\ p.ts >= w.start /\ p.ts <= now
                  /\ InSameWindow(p, w) /\ p.used # None}

\* A rate rests on its window's newest reading, fresh enough, and on the one
\* before it, with no break between the two.
RestsOn(rate, w, points, gap, now, p, q) ==
  LET M == ReadingsOf(w, points, now)
  IN  /\ p \in M /\ q \in M /\ p.ts < q.ts
      /\ \A r \in M : r.ts <= p.ts \/ r.ts = q.ts
      /\ ~Breaks(p, q, gap)
      /\ ~(now - q.ts > gap)
      /\ rate.to = q.ts

LEMMA RateRests ==
  ASSUME NEW w, NEW points, Timed(points), NEW gap, NEW now,
         EstimateRate(w, points, gap, now) # NoRate
  PROVE  \E p, q : RestsOn(EstimateRate(w, points, gap, now), w, points, gap, now, p, q)
<1> DEFINE M    == ReadingsOf(w, points, now)
           run  == Matching(w, points, now)
           rate == EstimateRate(w, points, gap, now)
           n    == Len(run)
<1>1. Timed(M)
  <2>1. M \in SUBSET points
    BY DEF ReadingsOf
  <2>2. IsFiniteSet(M)
    BY <2>1, FS_Subset DEF Timed
  <2> QED
    BY <2>1, <2>2 DEF Timed
<1>2. run = ByTime(M)
  BY DEF Matching, ReadingsOf
<1> HIDE DEF M
<1>3. /\ run \in Seq(M)
      /\ \A p \in M : \E i \in 1 .. n : run[i] = p
      /\ \A i, j \in 1 .. n : i < j => run[i].ts < run[j].ts
  BY <1>1, <1>2, ByTimeSorts
<1>4. /\ run # <<>> /\ ~(now - Last(run).ts > gap)
      /\ rate = RateOfStretch(Stretch(run, gap), SpanOf(w))
  BY DEF EstimateRate, RateOfRun
<1> HIDE DEF run, rate
<1>5. PICK a \in 1 .. n : /\ Stretch(run, gap) = SubSeq(run, a, n)
                          /\ \A j \in a .. n - 1 : ~Breaks(run[j], run[j + 1], gap)
  BY <1>3, <1>4, StretchIsWhole
<1> DEFINE stretch == SubSeq(run, a, n)
<1>6. PICK ts, quantum : rate = Fit(From(stretch, ts), quantum)
  BY <1>4, <1>5, WidenFits DEF RateOfStretch
<1>7. n \in Nat /\ a \in 1 .. n + 1
  BY <1>3
<1>8. /\ stretch \in Seq(M) /\ Len(stretch) = n - a + 1
      /\ \A i \in 1 .. Len(stretch) : stretch[i] = run[a + i - 1]
  BY <1>3, <1>7, SuffixOf
<1> HIDE DEF stretch
<1>9. PICK b \in 1 .. Len(stretch) + 1 :
        From(stretch, ts) = SubSeq(stretch, b, Len(stretch))
  BY <1>8, FromIsSuffix
<1> DEFINE kept == SubSeq(stretch, b, Len(stretch))
<1>10. /\ kept \in Seq(M) /\ Len(kept) = Len(stretch) - b + 1
       /\ \A i \in 1 .. Len(kept) : kept[i] = stretch[b + i - 1]
  BY <1>8, SuffixOf
<1> HIDE DEF kept
<1>11. ~(Len(kept) < 2) /\ rate.to = kept[Len(kept)].ts
  <2>1. rate = Fit(kept, quantum) /\ rate # NoRate
    BY <1>6, <1>9 DEF kept, rate
  <2> QED
    BY <2>1, FitSpans
<1>12. Len(kept) \in Nat /\ Len(stretch) \in Nat /\ Len(stretch) >= 2
  BY <1>8, <1>10, <1>11
<1>13. n - 1 \in a .. n - 1 /\ n - 1 \in 1 .. n /\ n \in 1 .. n
  BY <1>5, <1>7, <1>8, <1>12
<1>14. kept[Len(kept)] = run[n]
  <2>1. Len(kept) \in 1 .. Len(kept) /\ b + Len(kept) - 1 = Len(stretch)
    BY <1>10, <1>11, <1>12
  <2>2. kept[Len(kept)] = stretch[Len(stretch)]
    BY <1>10, <2>1
  <2>3. Len(stretch) \in 1 .. Len(stretch) /\ a + Len(stretch) - 1 = n
    BY <1>7, <1>8, <1>12
  <2> QED
    BY <1>8, <2>2, <2>3
<1> DEFINE p == run[n - 1]
           q == run[n]
<1>15. p \in M /\ q \in M /\ p.ts < q.ts
  <2>1. n - 1 < n
    BY <1>7
  <2>2. p \in M /\ q \in M
    <3>1. \A i \in 1 .. n : run[i] \in M
      BY <1>3
    <3> QED
      BY <1>13, <3>1, Zenon
  <2> QED
    BY <1>3, <1>13, <2>1, <2>2
<1>16. \A r \in M : r.ts <= p.ts \/ r.ts = q.ts
  <2> SUFFICES ASSUME NEW r \in M PROVE r.ts <= p.ts \/ r.ts = q.ts
    OBVIOUS
  <2>1. PICK i \in 1 .. n : run[i] = r
    BY <1>3
  <2>2. r.ts \in Nat /\ p.ts \in Nat
    BY <1>1, <1>15 DEF Timed
  <2>3. CASE i < n - 1
    <3>1. run[i].ts < p.ts
      BY <1>3, <1>13, <2>3
    <3> QED
      BY <2>1, <2>2, <3>1
  <2>4. CASE i = n - 1
    BY <2>1, <2>2, <2>4
  <2>5. CASE i = n
    BY <2>1, <2>5
  <2> QED
    BY <1>7, <2>3, <2>4, <2>5
<1>17. ~Breaks(p, q, gap)
  <2>1. n - 1 + 1 = n
    BY <1>7
  <2> QED
    BY <1>5, <1>13, <2>1
<1>18. ~(now - q.ts > gap) /\ rate.to = q.ts
  BY <1>4, <1>11, <1>14 DEF Last
<1> HIDE DEF p, q
<1> QED
  BY <1>15, <1>16, <1>17, <1>18 DEF RestsOn, M, rate

-----------------------------------------------------------------------------
(* The rate series.                                                        *)

Readings == [ts : Nat, used : Nat \cup {None}, reset : Nat \cup {None}]
Windows  == [start : Int, reset : Nat, uncertainty : Nat, used : Nat \cup {None}]

\* The questions about a series: any stored readings, no two of one window at
\* one time, any window in progress and any range of a chart.
SeriesQuestions ==
  {q \in [about : {"series"}, span : Nat, current : Windows \cup {NoWindow},
          window : WindowNames \ {AnyWindow}, interval : Nat,
          range : [duration : Nat, max_points : Nat \ {0}], until : Nat,
          stored : SUBSET StoredRows] :
     /\ IsFiniteSet(q.stored)
     /\ \A r, s \in q.stored : r.window = s.window /\ r.ts = s.ts => r = s}

\* What a chart is drawn from.
DrawnSeries ==
  {q \in [span : Nat, current : Windows \cup {NoWindow}, gap : Nat,
          points : SUBSET Readings] : Timed(q.points)}

\* Readings of one window are a series of points.
LEMMA PointsAreTimed ==
  ASSUME NEW rows, rows \subseteq StoredRows, IsFiniteSet(rows),
         \A r, s \in rows : r.ts = s.ts => r = s
  PROVE  /\ PointsOf(rows) \subseteq Readings /\ Timed(PointsOf(rows))
         /\ \A p \in PointsOf(rows) : \E r \in rows : p = PointOf(r) /\ p.ts = r.ts
         /\ \A r \in rows : PointOf(r) \in PointsOf(rows) /\ PointOf(r).ts = r.ts
<1> DEFINE f == [r \in rows |-> PointOf(r)]
<1>1. PointsOf(rows) = {f[r] : r \in rows}
  BY DEF PointsOf
<1>2. \A r \in rows : f[r] = PointOf(r) /\ f[r].ts = r.ts /\ f[r].ts \in Nat
  BY DEF PointOf, StoredRows
<1>3. \A r \in rows : f[r] \in Readings
  <2> TAKE r \in rows
  <2>1. r.ts \in Nat /\ r.used \in Nat /\ r.limited \in BOOLEAN /\ r.reset \in Nat \cup {None}
    BY DEF StoredRows
  <2>2. (IF r.limited THEN r.used ELSE None) \in Nat \cup {None}
    BY <2>1
  <2> QED
    BY <2>1, <2>2 DEF PointOf, Readings
<1> HIDE DEF f
<1>4. IsFiniteSet(PointsOf(rows))
  BY <1>1, ImageIsFinite
<1>5. \A p \in PointsOf(rows) : \E r \in rows : p = f[r]
  BY <1>1
<1>6. Timed(PointsOf(rows))
  BY <1>2, <1>4, <1>5 DEF Timed
<1>7. \A r \in rows : f[r] \in PointsOf(rows)
  BY <1>1
<1> QED
  BY <1>2, <1>3, <1>5, <1>6, <1>7

\* What a page has of one window: readings of it within the interval asked for,
\* the newest among them.
LEMMA WindowOnPage ==
  ASSUME NEW q \in SeriesQuestions, NEW query, NEW now \in Nat,
         query.since \in Int, query.until \in Nat \cup {Now},
         query.window \in {AnyWindow, q.window}, query.max_points \in Nat
  PROVE  LET page == OfWindow(History(q.stored, query, now), q.window)
         IN  /\ page \subseteq q.stored /\ IsFiniteSet(page)
             /\ \A r, s \in page : r.ts = s.ts => r = s
             /\ \A r \in page : r.window = q.window /\ r.ts <= Until(query, now)
             /\ \A r \in Selected(q.stored, query, now) :
                  r.window = q.window /\ (\A s \in Selected(q.stored, query, now) :
                                            s.window = q.window => s.ts <= r.ts)
                    => r \in page
<1> DEFINE sel    == Selected(q.stored, query, now)
           since  == query.since
           until  == Until(query, now)
           budget == Budget(query.max_points)
           down   == Downsample(sel, since, until, budget)
           page   == OfWindow(down, q.window)
<1>1. /\ q.stored \subseteq StoredRows /\ IsFiniteSet(q.stored)
      /\ q.window # AnyWindow
      /\ \A r, s \in q.stored : r.window = s.window /\ r.ts = s.ts => r = s
  BY DEF SeriesQuestions
<1>2. until \in Nat /\ since \in Int
  BY DEF Until
<1>3. budget \in Nat /\ budget > 0
  BY BudgetIsPositive
<1>4. sel \subseteq q.stored /\ \A r \in sel : since <= r.ts /\ r.ts <= until
  BY DEF Selected, OfWindow, Within
<1>5. sel \subseteq Rows /\ IsFiniteSet(sel)
  BY <1>1, <1>4, FS_Subset DEF Rows
<1>6. History(q.stored, query, now) = down
  BY DEF History
<1> HIDE DEF sel, since, until, budget
<1>7. down \subseteq sel
  BY <1>2, <1>3, <1>4, <1>5, NothingAdded
<1>8. \A r : r \in page <=> r \in down /\ r.window = q.window
  BY <1>1 DEF OfWindow
<1>9. ASSUME NEW r \in sel, r.window = q.window,
             \A s \in sel : s.window = q.window => s.ts <= r.ts
      PROVE  r \in page
  <2> DEFINE all == {s \in sel : s.window = q.window}
  <2>1. q.window \in {s.window : s \in sel}
    BY <1>9
  <2>2. Represents(page, all, Max({until - since, 0}), budget)
    BY <1>2, <1>3, <1>4, <1>5, <2>1, WindowsReducedApart, ZenonT(40)
  <2>3. PICK k \in page : Newest(all, k)
    BY <2>2 DEF Represents
  <2>4. k \in sel /\ k.window = q.window /\ r \in all
    BY <1>7, <1>8, <1>9, <2>3
  <2>5. r.ts <= k.ts /\ k.ts <= r.ts
    BY <1>9, <2>3, <2>4 DEF Newest
  <2>6. r.ts \in Nat /\ k.ts \in Nat
    BY <1>5, <2>4, RowHas
  <2>7. k = r
    BY <1>1, <1>4, <1>9, <2>4, <2>5, <2>6
  <2> QED
    BY <2>3, <2>7
<1> HIDE DEF down
<1>10. page \subseteq sel
  BY <1>7, <1>8
<1> HIDE DEF page
<1>11. page \subseteq q.stored /\ IsFiniteSet(page)
  BY <1>4, <1>5, <1>10, FS_Subset
<1>12. \A r \in page : r.window = q.window /\ r.ts <= until
  BY <1>4, <1>8, <1>10
<1>13. \A r, s \in page : r.ts = s.ts => r = s
  BY <1>1, <1>11, <1>12
<1> QED
  BY <1>6, <1>9, <1>11, <1>12, <1>13 DEF page, sel, until

\* The tolerances of the rows and of a chart.
LEMMA ChartToleratesMore ==
  ASSUME NEW q \in SeriesQuestions
  PROVE  /\ GapTolerance(q.interval) \in Nat
         /\ ChartGap(q.range, q.interval) \in Nat
         /\ GapTolerance(q.interval) <= ChartGap(q.range, q.interval)
<1> DEFINE gap   == GapTolerance(q.interval)
           width == q.range.duration \div q.range.max_points
<1>1. /\ q.interval \in Nat /\ q.range.duration \in Nat
      /\ q.range.max_points \in Nat /\ q.range.max_points > 0
  BY DEF SeriesQuestions
<1>2. gap \in Nat
  <2> DEFINE four == 4 * q.interval
  <2>1. GAP_MIN \in Nat
    BY MetricsAssumption
  <2>2. \A k \in Int : Max({k, GAP_MIN}) = IF k >= GAP_MIN THEN k ELSE GAP_MIN
    BY <2>1, MinMaxOfTwo
  <2>3. four \in Nat
    BY <1>1
  <2>4. gap = Max({four, GAP_MIN})
    BY DEF GapTolerance
  <2> HIDE DEF four, gap
  <2>5. four \in Int
    BY <2>3
  <2>6. gap = IF four >= GAP_MIN THEN four ELSE GAP_MIN
    BY <2>2, <2>4, <2>5, Zenon
  <2> QED
    BY <2>1, <2>3, <2>6
<1>3. width \in Nat
  BY <1>1, Quotient
<1> DEFINE twice == 2 * width
<1>4. ChartGap(q.range, q.interval) = Max({gap, twice})
  BY DEF ChartGap
<1> HIDE DEF gap, width
<1>5. twice \in Nat
  BY <1>3
<1> HIDE DEF twice
<1>6. Max({gap, twice}) \in Nat /\ gap <= Max({gap, twice})
  BY <1>2, <1>5, MinMaxOfTwo
<1> QED
  BY <1>2, <1>4, <1>6 DEF gap

\* The rows a chart is drawn from.
ChartRows(q) == History(q.stored, TrendQuery(q), q.until)

LEMMA ChartRowsAre ==
  ASSUME NEW q \in SeriesQuestions
  PROVE  LET range == Selected(q.stored, TrendQuery(q), q.until)
         IN  /\ ChartRows(q) \subseteq q.stored /\ IsFiniteSet(ChartRows(q))
             /\ \A r, s \in ChartRows(q) : r.ts = s.ts => r = s
             /\ \A r \in range : r \in q.stored /\ r.window = q.window
             /\ \A r \in range : (\A s \in range : s.ts <= r.ts) => r \in ChartRows(q)
<1> DEFINE query == TrendQuery(q)
           range == Selected(q.stored, query, q.until)
           page  == OfWindow(ChartRows(q), q.window)
<1>1. /\ q.until \in Nat /\ q.range.duration \in Nat /\ q.range.max_points \in Nat
      /\ q.window # AnyWindow /\ q.stored \subseteq StoredRows /\ IsFiniteSet(q.stored)
  BY DEF SeriesQuestions
<1>2. /\ query.since \in Int /\ query.until = q.until /\ query.window = q.window
      /\ query.max_points = q.range.max_points /\ query.since = q.until - q.range.duration
  BY <1>1 DEF TrendQuery
<1> HIDE DEF query
<1>3. \A r \in range : r \in q.stored /\ r.window = q.window
                       /\ query.since <= r.ts /\ r.ts <= q.until
  BY <1>1, <1>2 DEF Selected, OfWindow, Within, Until, Now
<1>4. ChartRows(q) \subseteq range
  <2>1. range \subseteq Rows /\ IsFiniteSet(range)
    <3>1. range \in SUBSET q.stored
      BY <1>3
    <3> HIDE DEF range
    <3> QED
      BY <1>1, <3>1, FS_Subset DEF Rows
  <2>2. Budget(query.max_points) \in Nat /\ Budget(query.max_points) > 0
    BY <1>1, <1>2, BudgetIsPositive
  <2>3. ChartRows(q) = Downsample(range, query.since, q.until, Budget(query.max_points))
    BY <1>1, <1>2 DEF ChartRows, History, Until, query, Now
  <2> HIDE DEF range
  <2> QED
    BY <1>1, <1>2, <1>3, <2>1, <2>2, <2>3, NothingAdded
<1>5. page = ChartRows(q)
  BY <1>3, <1>4 DEF OfWindow
<1>6. /\ page \subseteq q.stored /\ IsFiniteSet(page)
      /\ \A r, s \in page : r.ts = s.ts => r = s
      /\ \A r \in range :
           r.window = q.window /\ (\A s \in range : s.window = q.window => s.ts <= r.ts)
             => r \in page
  BY <1>1, <1>2, WindowOnPage DEF ChartRows, query
<1> QED
  BY <1>3, <1>5, <1>6 DEF query

LEMMA DrawnIs ==
  ASSUME NEW q \in SeriesQuestions
  PROVE  LET chart == Drawn(q)
         IN  /\ chart \in DrawnSeries
             /\ chart.span = q.span /\ chart.current = q.current
             /\ chart.gap = ChartGap(q.range, q.interval)
             /\ chart.points = PointsOf(ChartRows(q))
<1> DEFINE points == PointsOf(ChartRows(q))
           gap    == ChartGap(q.range, q.interval)
<1>1. points \subseteq Readings /\ Timed(points)
  <2>1. ChartRows(q) \subseteq StoredRows
    BY ChartRowsAre DEF SeriesQuestions
  <2> QED
    BY <2>1, ChartRowsAre, PointsAreTimed
<1>2. q.span \in Nat /\ q.current \in Windows \cup {NoWindow}
  BY DEF SeriesQuestions
<1>3. gap \in Nat
  BY ChartToleratesMore
<1>4. Drawn(q) = [span |-> q.span, current |-> q.current, gap |-> gap, points |-> points]
  BY DEF Drawn, ChartRows
<1> HIDE DEF gap, points
<1> QED
  BY <1>1, <1>2, <1>3, <1>4 DEF DrawnSeries, gap, points

\* The page of the rows, when the newest poll is that of a reading.
LEMMA RowPointsAre ==
  ASSUME NEW q \in SeriesQuestions, NEW polled \in Nat
  PROVE  /\ RowPoints(q, polled) \subseteq Readings /\ Timed(RowPoints(q, polled))
         /\ \A p \in RowPoints(q, polled) : p.ts <= polled
         /\ \A r \in q.stored : r.window = q.window /\ r.ts = polled
              => PointOf(r) \in RowPoints(q, polled)
<1> DEFINE query == RecentQuery(polled)
           page  == OfWindow(History(q.stored, query, polled), q.window)
<1>1. RECENT_SPAN \in Nat /\ RECENT_MAX_POINTS \in Nat
  BY CalculationsAssumption
<1>2. /\ query.since = polled - RECENT_SPAN /\ query.until = Now
      /\ query.window = AnyWindow /\ query.max_points = RECENT_MAX_POINTS
  BY DEF RecentQuery
<1>3. q.stored \subseteq StoredRows
  BY DEF SeriesQuestions
<1>4. Until(query, polled) = polled
  BY <1>2 DEF Until
<1>5. RowPoints(q, polled) = PointsOf(page)
  BY DEF RowPoints
<1> HIDE DEF query
<1>6. /\ page \subseteq q.stored /\ IsFiniteSet(page)
      /\ \A r, s \in page : r.ts = s.ts => r = s
      /\ \A r \in page : r.window = q.window /\ r.ts <= polled
      /\ \A r \in Selected(q.stored, query, polled) :
           r.window = q.window /\ (\A s \in Selected(q.stored, query, polled) :
                                     s.window = q.window => s.ts <= r.ts)
             => r \in page
  <2>1. query.since \in Int
    BY <1>1, <1>2
  <2> QED
    BY <1>1, <1>2, <1>4, <2>1, WindowOnPage
<1> HIDE DEF page
<1>7. /\ PointsOf(page) \subseteq Readings /\ Timed(PointsOf(page))
      /\ \A p \in PointsOf(page) : \E r \in page : p = PointOf(r) /\ p.ts = r.ts
      /\ \A r \in page : PointOf(r) \in PointsOf(page) /\ PointOf(r).ts = r.ts
  <2>1. page \subseteq StoredRows
    BY <1>3, <1>6
  <2> QED
    BY <1>6, <2>1, PointsAreTimed
<1>8. ASSUME NEW r \in q.stored, r.window = q.window, r.ts = polled
      PROVE  r \in page
  <2>1. r \in Selected(q.stored, query, polled)
    BY <1>1, <1>2, <1>4, <1>8 DEF Selected, OfWindow, Within
  <2>2. \A s \in Selected(q.stored, query, polled) : s.ts <= r.ts
    BY <1>4, <1>8 DEF Selected, Within
  <2> QED
    BY <1>6, <1>8, <2>1, <2>2
<1> QED
  BY <1>5, <1>6, <1>7, <1>8

\* The rate series has one point for each reading that publishes a reset.
LEMMA SeriesHasPoints ==
  ASSUME NEW q \in DrawnSeries
  PROVE  /\ Timed(SeriesOf(q))
         /\ \A point \in SeriesOf(q) : \E p \in q.points :
              /\ p.reset # None /\ point.ts = p.ts
              /\ point = RatePointOf(q.points, p, InstanceOf(p, q.span, q.current), q.gap)
              /\ point.window = InstanceOf(p, q.span, q.current)
<1> DEFINE S == {p \in q.points : p.reset # None}
           f == [p \in S |-> RatePointOf(q.points, p, InstanceOf(p, q.span, q.current), q.gap)]
<1>1. SeriesOf(q) = {f[p] : p \in S}
  BY DEF SeriesOf, RateSeries
<1>2. \A p \in S : /\ f[p].ts = p.ts
                   /\ f[p].window = InstanceOf(p, q.span, q.current)
                   /\ f[p] = RatePointOf(q.points, p, InstanceOf(p, q.span, q.current), q.gap)
  BY DEF RatePointOf
<1>3. Timed(q.points) /\ S \in SUBSET q.points
  BY DEF DrawnSeries
<1>4. \A p \in S : p \in q.points /\ p.reset # None
  OBVIOUS
<1> HIDE DEF f, S
<1>5. IsFiniteSet(SeriesOf(q))
  <2>1. IsFiniteSet(S)
    BY <1>3, FS_Subset DEF Timed
  <2> QED
    BY <1>1, <2>1, ImageIsFinite
<1>6. Timed(SeriesOf(q))
  BY <1>1, <1>2, <1>3, <1>5 DEF Timed
<1> QED
  BY <1>1, <1>2, <1>4, <1>6

\* The whole axis shows the whole series.
LEMMA AllVisible ==
  ASSUME NEW q \in DrawnSeries
  PROVE  VisibleIn(q) = ByTime(SeriesOf(q))
<1> DEFINE T == {0} \cup {p.ts : p \in q.points}
           axis == WholeAxis(q.points)
<1>1. Timed(q.points)
  BY DEF DrawnSeries
<1>2. T \subseteq Nat /\ T # {}
  BY <1>1 DEF Timed
<1>3. IsFiniteSet(T)
  <2> DEFINE f == [p \in q.points |-> p.ts]
             U == {p.ts : p \in q.points}
  <2>1. U = {f[p] : p \in q.points}
    OBVIOUS
  <2>2. T = U \cup {0}
    OBVIOUS
  <2> HIDE DEF U, f
  <2>3. IsFiniteSet(U)
    BY <1>1, <2>1, ImageIsFinite DEF Timed
  <2> QED
    BY <2>2, <2>3, FS_AddElement
<1>4. \A p \in q.points : p.ts \in T
  OBVIOUS
<1>5. axis.left = 0 /\ axis.secs = Max(T)
  BY DEF WholeAxis
<1> HIDE DEF T
<1>6. Max(T) \in Nat /\ \A t \in T : t <= Max(T)
  BY <1>2, <1>3, MaxIsGreatest
<1>7. \A p \in q.points : OnAxis(axis, p.ts)
  <2> TAKE p \in q.points
  <2>1. p.ts \in Nat /\ p.ts <= Max(T)
    BY <1>1, <1>4, <1>6 DEF Timed
  <2> HIDE DEF axis
  <2> QED
    BY <1>5, <1>6, <2>1 DEF OnAxis
<1>8. \A point \in SeriesOf(q) : OnAxis(axis, point.ts)
  BY <1>7, SeriesHasPoints
<1>9. VisibleIn(q) = ByTime({point \in SeriesOf(q) : OnAxis(axis, point.ts)})
  BY DEF VisibleIn, Visible, SeriesOf
<1> HIDE DEF axis
<1>10. {point \in SeriesOf(q) : OnAxis(axis, point.ts)} = SeriesOf(q)
  BY <1>8
<1> QED
  BY <1>9, <1>10

\* A line goes through a point exactly if it has a value there.
LEMMA LineThrough ==
  ASSUME NEW series, Timed(series),
         NEW drawn \in [DOMAIN ByTime(series) -> BOOLEAN], NEW p \in series
  PROVE  p.ts \in UNION Segments(ByTime(series), drawn)
           <=> \E i \in DOMAIN ByTime(series) : ByTime(series)[i] = p /\ drawn[i]
<1> DEFINE run == ByTime(series)
           n   == Len(run)
<1>1. /\ run \in Seq(series)
      /\ \A x \in series : \E i \in 1 .. n : run[i] = x
  BY ByTimeSorts
<1> HIDE DEF run
<1>2. n \in Nat /\ DOMAIN run = 1 .. n
  BY <1>1
<1>3. \A i \in 1 .. n : run[i] \in series
  BY <1>1
<1>4. UNION Segments(run, drawn) = {run[k].ts : k \in {j \in 1 .. n : drawn[j]}}
  <2>1. drawn \in [1 .. n -> BOOLEAN]
    BY <1>2 DEF run
  <2> QED
    BY <1>2, <2>1, SegmentsCoverDrawn, SMTT(40)
<1>5. \A x \in series : x.ts = p.ts => x = p
  BY DEF Timed
<1>6. p.ts \in UNION Segments(run, drawn) <=> \E i \in 1 .. n : drawn[i] /\ run[i].ts = p.ts
  BY <1>4
<1> QED
  BY <1>2, <1>3, <1>5, <1>6 DEF run

\* The part of the series a reading is handed yields the rate of the whole.
LEMMA SameReadings ==
  ASSUME NEW points, NEW p, NEW w, NEW gap
  PROVE  EstimateRate(w, UpToReading(points, p, w), gap, p.ts)
           = EstimateRate(w, points, gap, p.ts)
<1>1. ReadingsOf(w, UpToReading(points, p, w), p.ts) = ReadingsOf(w, points, p.ts)
  BY DEF ReadingsOf, UpToReading
<1>2. \A S : Matching(w, S, p.ts) = ByTime(ReadingsOf(w, S, p.ts))
  BY DEF Matching, ReadingsOf
<1>3. Matching(w, UpToReading(points, p, w), p.ts) = Matching(w, points, p.ts)
  BY <1>1, <1>2
<1> QED
  BY <1>3 DEF EstimateRate

\* A rate does not depend on the usage its window has reached.
LEMMA UsageIrrelevant ==
  ASSUME NEW w \in Windows, NEW used, NEW points, NEW gap, NEW now
  PROVE  EstimateRate([w EXCEPT !.used = used], points, gap, now)
           = EstimateRate(w, points, gap, now)
<1> DEFINE v == [w EXCEPT !.used = used]
<1>1. v.start = w.start /\ v.reset = w.reset
  BY DEF Windows
<1> HIDE DEF v
<1>2. SpanOf(v) = SpanOf(w)
  BY <1>1 DEF SpanOf
<1>3. ReadingsOf(v, points, now) = ReadingsOf(w, points, now)
  BY <1>1 DEF ReadingsOf, InSameWindow
<1>4. Matching(v, points, now) = Matching(w, points, now)
  <2>1. \A u : Matching(u, points, now) = ByTime(ReadingsOf(u, points, now))
    BY DEF Matching, ReadingsOf
  <2> QED
    BY <1>3, <2>1
<1> QED
  BY <1>2, <1>4 DEF EstimateRate, v

\* The lines of the charts, point by point.
LEMMA LinesThrough ==
  ASSUME NEW q \in DrawnSeries, NEW p \in SeriesOf(q)
  PROVE  LET lines == LinesOf(VisibleIn(q))
         IN  /\ DOMAIN lines = {"now", "avg", "at_reset", "afford"}
             /\ p.ts \in UNION lines["now"] <=> p.rate # NoRate
             /\ p.ts \in UNION lines["avg"] <=> Pace(p.window, p.ts) # NoRatio
             /\ p.ts \in UNION lines["at_reset"] <=> ForecastValue(p) # NoProjection
             /\ p.ts \in UNION lines["afford"]
                  <=> AffordablePace(p.window, p.ts) # NoRatio
<1> DEFINE series == SeriesOf(q)
           run    == ByTime(series)
           now    == [i \in DOMAIN run |-> run[i].rate # NoRate]
           avg    == [i \in DOMAIN run |-> Pace(run[i].window, run[i].ts) # NoRatio]
           reset  == [i \in DOMAIN run |-> ForecastValue(run[i]) # NoProjection]
           afford == [i \in DOMAIN run |-> AffordablePace(run[i].window, run[i].ts) # NoRatio]
           lines  == LinesOf(VisibleIn(q))
<1>1. Timed(series) /\ VisibleIn(q) = run
  BY SeriesHasPoints, AllVisible
<1>2. \E i \in DOMAIN run : run[i] = p
  <2>1. run \in Seq(series) /\ \E i \in 1 .. Len(run) : run[i] = p
    BY <1>1, ByTimeSorts
  <2> HIDE DEF run
  <2> QED
    BY <2>1
<1>3. /\ DOMAIN lines = {"now", "avg", "at_reset", "afford"}
      /\ lines["now"] = Segments(run, now) /\ lines["avg"] = Segments(run, avg)
      /\ lines["at_reset"] = Segments(run, reset) /\ lines["afford"] = Segments(run, afford)
  BY <1>1 DEF LinesOf, UsagePaceStack, ForecastStack
<1> HIDE DEF lines, series
<1>4. \A drawn \in [DOMAIN run -> BOOLEAN] :
        p.ts \in UNION Segments(run, drawn) <=> \E i \in DOMAIN run : run[i] = p /\ drawn[i]
  BY <1>1, LineThrough DEF series
<1> HIDE DEF run
<1>5. p.ts \in UNION Segments(run, now) <=> p.rate # NoRate
  <2>1. now \in [DOMAIN run -> BOOLEAN] /\ \A i \in DOMAIN run : now[i] <=> run[i].rate # NoRate
    OBVIOUS
  <2> HIDE DEF now
  <2> QED
    BY <1>2, <1>4, <2>1, Zenon
<1>6. p.ts \in UNION Segments(run, avg) <=> Pace(p.window, p.ts) # NoRatio
  <2>1. /\ avg \in [DOMAIN run -> BOOLEAN]
        /\ \A i \in DOMAIN run : avg[i] <=> Pace(run[i].window, run[i].ts) # NoRatio
    OBVIOUS
  <2> HIDE DEF avg
  <2> QED
    BY <1>2, <1>4, <2>1, Zenon
<1>7. p.ts \in UNION Segments(run, reset) <=> ForecastValue(p) # NoProjection
  <2>1. /\ reset \in [DOMAIN run -> BOOLEAN]
        /\ \A i \in DOMAIN run : reset[i] <=> ForecastValue(run[i]) # NoProjection
    OBVIOUS
  <2> HIDE DEF reset
  <2> QED
    BY <1>2, <1>4, <2>1, Zenon
<1>8. p.ts \in UNION Segments(run, afford) <=> AffordablePace(p.window, p.ts) # NoRatio
  <2>1. /\ afford \in [DOMAIN run -> BOOLEAN]
        /\ \A i \in DOMAIN run : afford[i] <=> AffordablePace(run[i].window, run[i].ts) # NoRatio
    OBVIOUS
  <2> HIDE DEF afford
  <2> QED
    BY <1>2, <1>4, <2>1, Zenon
<1> HIDE DEF now, avg, reset, afford
<1> QED
  BY <1>3, <1>5, <1>6, <1>7, <1>8 DEF lines

\* Two tolerances that break a run at the same places leave the same stretch.
LEMMA SameStretch ==
  ASSUME NEW run, NEW gap, NEW wide,
         \A j \in 1 .. Len(run) - 1 :
           Breaks(run[j], run[j + 1], gap) <=> Breaks(run[j], run[j + 1], wide)
  PROVE  Stretch(run, gap) = Stretch(run, wide)
<1>1. {j \in 1 .. Len(run) - 1 : Breaks(run[j], run[j + 1], gap)}
        = {j \in 1 .. Len(run) - 1 : Breaks(run[j], run[j + 1], wide)}
  OBVIOUS
<1> QED
  BY <1>1 DEF Stretch

\* Two pages have the same readings of a window up to a time, none of them
\* followed by a hole that only one of two tolerances bridges.
SameRun(c, page, points, gap, wide, at) ==
  /\ Matching(c, page, at) = Matching(c, points, at)
  /\ \A i \in 1 .. Len(Matching(c, points, at)) - 1 :
       Matching(c, points, at)[i + 1].ts - Matching(c, points, at)[i].ts
         \notin gap + 1 .. wide

\* The rate a row shows from a poll on, from a page that has nothing later, and
\* the rate a chart has at that poll.
LEMMA RowAndChart ==
  ASSUME NEW c \in Windows, NEW page, Timed(page), page \subseteq Readings,
         NEW points, Timed(points), points \subseteq Readings,
         NEW gap \in Nat, NEW wide \in Nat, gap <= wide,
         NEW p \in points, p.ts >= c.start, InSameWindow(p, c), p.used # None,
         \A r \in page : r.ts <= p.ts,
         SameRun(c, page, points, gap, wide, p.ts),
         NEW late \in Nat
  PROVE  EstimateRate(c, page, gap, p.ts + late)
           = IF late <= gap THEN EstimateRate(c, points, wide, p.ts) ELSE NoRate
<1> DEFINE M    == ReadingsOf(c, points, p.ts)
           run  == Matching(c, points, p.ts)
           n    == Len(run)
           span == SpanOf(c)
<1>1. p.ts \in Nat /\ \A r \in page : r.ts \in Nat
  BY DEF Timed
<1>2. Timed(M) /\ M \in SUBSET points
  <2>1. M \in SUBSET points
    BY DEF ReadingsOf
  <2>2. IsFiniteSet(M)
    BY <2>1, FS_Subset DEF Timed
  <2> QED
    BY <2>1, <2>2 DEF Timed
<1>3. run = ByTime(M) /\ p \in M
  BY <1>1 DEF Matching, ReadingsOf
<1>4. \A r \in M : r \in points /\ r.ts <= p.ts /\ r.ts \in Nat /\ r.used \in Nat
  BY DEF ReadingsOf, Readings
<1>5. Matching(c, page, p.ts + late) = run
  <2>1. ReadingsOf(c, page, p.ts + late) = ReadingsOf(c, page, p.ts)
    <3>1. \A r \in page : r.ts <= p.ts /\ r.ts <= p.ts + late
      BY <1>1
    <3> QED
      BY <3>1 DEF ReadingsOf
  <2>2. \A now : Matching(c, page, now) = ByTime(ReadingsOf(c, page, now))
    BY DEF Matching, ReadingsOf
  <2> QED
    BY <2>1, <2>2 DEF SameRun
<1>6. \A i \in 1 .. n - 1 : run[i + 1].ts - run[i].ts \notin gap + 1 .. wide
  BY DEF SameRun
<1> HIDE DEF M, run
<1>7. /\ run \in Seq(M)
      /\ \A r \in M : \E i \in 1 .. n : run[i] = r
      /\ \A i, j \in 1 .. n : i < j => run[i].ts < run[j].ts
  BY <1>2, <1>3, ByTimeSorts
<1>8. n \in Nat /\ \A i \in 1 .. n : run[i] \in M
  BY <1>7
<1>9. PICK i \in 1 .. n : run[i] = p
  BY <1>3, <1>7
<1>10. run # <<>> /\ n \in 1 .. n
  BY <1>7, <1>8, <1>9
<1>11. Last(run).ts = p.ts
  <2>1. run[n].ts <= p.ts /\ run[n].ts \in Nat
    BY <1>4, <1>8, <1>10
  <2>2. i < n => p.ts < run[n].ts
    BY <1>7, <1>9, <1>10
  <2>3. i = n
    BY <1>1, <1>8, <1>9, <2>1, <2>2
  <2> QED
    BY <1>9, <2>3 DEF Last
<1>12. Stretch(run, gap) = Stretch(run, wide)
  <2>1. ASSUME NEW j \in 1 .. n - 1
        PROVE  Breaks(run[j], run[j + 1], gap) <=> Breaks(run[j], run[j + 1], wide)
    <3>1. run[j].ts \in Nat /\ run[j + 1].ts \in Nat
      BY <1>4, <1>8
    <3>2. run[j + 1].ts - run[j].ts > gap <=> run[j + 1].ts - run[j].ts > wide
      BY <1>6, <3>1
    <3> QED
      BY <3>2 DEF Breaks
  <2> QED
    BY <2>1, SameStretch
<1>13. CASE span <= 0
  BY <1>13 DEF EstimateRate
<1>14. CASE ~(span <= 0)
  <2>1. EstimateRate(c, page, gap, p.ts + late) = RateOfRun(run, span, gap, p.ts + late)
    BY <1>5, <1>14 DEF EstimateRate
  <2>2. EstimateRate(c, points, wide, p.ts) = RateOfRun(run, span, wide, p.ts)
    BY <1>14 DEF EstimateRate, run
  <2>3. ~(p.ts - p.ts > wide) /\ (p.ts + late - p.ts > gap <=> ~(late <= gap))
    BY <1>1
  <2>4. RateOfRun(run, span, wide, p.ts) = RateOfStretch(Stretch(run, wide), span)
    BY <1>10, <1>11, <2>3 DEF RateOfRun
  <2>5. RateOfRun(run, span, gap, p.ts + late)
          = IF late <= gap THEN RateOfStretch(Stretch(run, gap), span) ELSE NoRate
    <3> DEFINE now == p.ts + late
    <3>1. now - Last(run).ts > gap <=> ~(late <= gap)
      BY <1>1, <1>11
    <3> HIDE DEF now
    <3> QED
      BY <1>10, <3>1, Zenon DEF RateOfRun, now
  <2> QED
    BY <1>12, <2>1, <2>2, <2>4, <2>5
<1> QED
  BY <1>13, <1>14

\* The title over a reading has a figure exactly where a line is drawn.
LEMMA ReadoutIsDrawn ==
  ASSUME NEW chart \in DrawnSeries, NEW point \in SeriesOf(chart)
  PROVE  LET lines == LinesOf(VisibleIn(chart))
         IN  Readout(SeriesOf(chart), chart.points, point.ts)
               = {"usage"} \cup {name \in DOMAIN lines : point.ts \in UNION lines[name]}
<1> DEFINE series  == SeriesOf(chart)
           points  == chart.points
           lines   == LinesOf(VisibleIn(chart))
           figures == {"now", "avg", "at_reset", "afford"}
<1>1. \E p \in points : point.ts = p.ts
  BY SeriesHasPoints
<1>2. Timed(series)
  BY SeriesHasPoints
<1>5. Readout(series, points, point.ts) = {"usage"} \cup PointFigures(point)
  <2>1. point.ts \in {r.ts : r \in points}
    BY <1>1
  <2>2. {r \in series : r.ts = point.ts} = {point}
    BY <1>2 DEF Timed
  <2> HIDE DEF series, points
  <2>3. UNION {PointFigures(r) : r \in {point}} = PointFigures(point)
    OBVIOUS
  <2> QED
    BY <2>1, <2>2, <2>3 DEF Readout
<1>6. /\ DOMAIN lines = figures
      /\ point.ts \in UNION lines["now"] <=> point.rate # NoRate
      /\ point.ts \in UNION lines["avg"] <=> Pace(point.window, point.ts) # NoRatio
      /\ point.ts \in UNION lines["at_reset"] <=> ForecastValue(point) # NoProjection
      /\ point.ts \in UNION lines["afford"]
           <=> AffordablePace(point.window, point.ts) # NoRatio
  BY LinesThrough
<1>7. PointFigures(point) = {name \in DOMAIN lines : point.ts \in UNION lines[name]}
  <2> HIDE DEF lines
  <2>1. ASSUME NEW name \in figures
        PROVE  name \in PointFigures(point) <=> point.ts \in UNION lines[name]
    BY <1>6 DEF PointFigures
  <2>2. PointFigures(point) \subseteq figures
    BY DEF PointFigures
  <2> QED
    BY <1>6, <2>1, <2>2
<1> QED
  BY <1>5, <1>7

\* Row, chart and title agree as far as their inputs do, whatever is stored,
\* whatever the range and its reduction, and whatever the window in progress:
\* handing a reading only the part of the series that begins with its window
\* changes no rate, a window in progress is not swapped for a nominal one, a
\* wider tolerance matters only where it bridges a hole of the row's run, a
\* reduction never loses the newest reading, and the title and the lines use
\* one condition (refresh_recent, set_recent, detail_query, reduce_series,
\* rate_series, estimate_rate, segments, readout).
THEOREM SeriesCorrect ==
  ASSUME asked \in SeriesQuestions
  PROVE  SeriesAgreesWithRow
<1> DEFINE chart  == Drawn(asked)
           series == SeriesOf(chart)
           points == chart.points
           lines  == LinesOf(VisibleIn(chart))
           gap    == GapTolerance(asked.interval)
           range  == Selected(asked.stored, TrendQuery(asked), asked.until)
           c      == asked.current
<1>1. /\ chart \in DrawnSeries /\ chart.span = asked.span /\ chart.current = c
      /\ chart.gap = ChartGap(asked.range, asked.interval)
      /\ points = PointsOf(ChartRows(asked))
  BY DrawnIs
<1>2. gap \in Nat /\ chart.gap \in Nat /\ gap <= chart.gap
  BY <1>1, ChartToleratesMore
<1>3. points \subseteq Readings /\ Timed(points)
  BY <1>1 DEF DrawnSeries
<1> HIDE DEF chart
<1>4. ASSUME NEW p \in points, OfCurrent(asked, p)
      PROVE  \E point \in series :
               /\ point.ts = p.ts
               /\ SameInputs(asked, RowPoints(asked, p.ts), chart, p.ts) =>
                    \A late \in {0, gap, gap + 1} :
                      RowRate(asked, RowPoints(asked, p.ts), p.ts + late)
                        = IF late <= gap THEN point.rate ELSE NoRate
  <2> DEFINE page  == RowPoints(asked, p.ts)
             w     == InstanceOf(p, asked.span, c)
             point == RatePointOf(points, p, w, chart.gap)
  <2>1. /\ c # NoWindow /\ InSameWindow(p, c) /\ p.ts >= c.start /\ p.used # None
        /\ p.reset # None
    BY <1>4 DEF OfCurrent, InSameWindow
  <2>2. c \in Windows
    BY <2>1 DEF SeriesQuestions
  <2>3. point \in series /\ point.ts = p.ts
    BY <1>1, <2>1 DEF SeriesOf, RateSeries, RatePointOf
  <2>4. point.rate = EstimateRate(c, points, chart.gap, p.ts)
    <3>1. point.rate = EstimateRate(w, UpToReading(points, p, w), chart.gap, p.ts)
      BY DEF RatePointOf
    <3>2. w = [c EXCEPT !.used = p.used]
      BY <2>1 DEF InstanceOf
    <3> HIDE DEF w, point
    <3>3. point.rate = EstimateRate(w, points, chart.gap, p.ts)
      BY <3>1, SameReadings
    <3> QED
      BY <2>2, <3>2, <3>3, UsageIrrelevant
  <2>5. p.ts \in Nat
    BY <1>3 DEF Timed
  <2>6. page \subseteq Readings /\ Timed(page) /\ \A r \in page : r.ts <= p.ts
    BY <2>5, RowPointsAre
  <2> HIDE DEF page, point, w
  <2>7. ASSUME SameInputs(asked, page, chart, p.ts), NEW late \in {0, gap, gap + 1}
        PROVE  RowRate(asked, page, p.ts + late)
                 = IF late <= gap THEN point.rate ELSE NoRate
    <3>1. SameRun(c, page, points, gap, chart.gap, p.ts)
      BY <2>7 DEF SameInputs, SameRun
    <3>2. late \in Nat
      BY <1>2
    <3>3. EstimateRate(c, page, gap, p.ts + late)
            = IF late <= gap THEN EstimateRate(c, points, chart.gap, p.ts) ELSE NoRate
      <4> HIDE DEF gap, points, c
      <4> QED
        BY <1>2, <1>3, <1>4, <2>1, <2>2, <2>6, <3>1, <3>2, RowAndChart
    <3> QED
      BY <2>4, <3>3 DEF RowRate
  <2> QED
    BY <2>3, <2>7 DEF page
<1>5. ASSUME NEW r \in range, \A q \in range : q.ts <= r.ts
      PROVE  PointOf(r) \in points \cap RowPoints(asked, r.ts)
  <2>1. r \in asked.stored /\ r.window = asked.window /\ r \in ChartRows(asked)
    BY <1>5, ChartRowsAre
  <2>2. r.ts \in Nat
    BY <2>1 DEF SeriesQuestions, StoredRows
  <2>3. PointOf(r) \in points
    BY <1>1, <2>1 DEF PointsOf
  <2>4. PointOf(r) \in RowPoints(asked, r.ts)
    BY <2>1, <2>2, RowPointsAre
  <2> QED
    BY <2>3, <2>4
<1>6. \A point \in series :
        Readout(series, points, point.ts)
          = {"usage"} \cup {name \in DOMAIN lines : point.ts \in UNION lines[name]}
  BY <1>1, ReadoutIsDrawn
<1> HIDE DEF series, lines, range, gap
<1> QED
  BY <1>4, <1>5, <1>6 DEF SeriesAgreesWithRow, chart, series, lines, range, gap

-----------------------------------------------------------------------------
(* What the lines join.                                                    *)

\* A stretch shows the points from one place to another, which all have a value.
ShowsFromTo(points, drawn, stretch, a, b) ==
  /\ \A k \in a .. b : drawn[k]
  /\ \A t : t \in stretch <=> \E k \in a .. b : t = points[k].ts

LEMMA SegmentIs ==
  ASSUME NEW points, NEW n \in Nat, DOMAIN points = 1 .. n, Len(points) = n,
         NEW drawn, NEW s \in Segments(points, drawn)
  PROVE  \E a, b \in 1 .. n : ShowsFromTo(points, drawn, s, a, b)
<1>1. PICK a \in 1 .. n, b \in 1 .. n : /\ Unbroken(points, drawn, a, b)
                                        /\ s = {points[k].ts : k \in a .. b}
  BY DEF Segments
<1>2. \A t : t \in s <=> \E k \in a .. b : t = points[k].ts
  BY <1>1
<1>3. \A k \in a .. b : drawn[k]
  BY <1>1 DEF Unbroken
<1> QED
  BY <1>2, <1>3 DEF ShowsFromTo

\* A stretch goes through every point between two of its own, and each of them
\* has a value.
LEMMA StretchIsContiguous ==
  ASSUME NEW S, Timed(S), NEW drawn, NEW stretch \in Segments(ByTime(S), drawn)
  PROVE  LET run == ByTime(S)
         IN  /\ \A a \in stretch : \E i \in 1 .. Len(run) : run[i].ts = a /\ drawn[i]
             /\ \A a, b \in stretch, c \in S : a <= c.ts /\ c.ts <= b => c.ts \in stretch
<1> DEFINE run == ByTime(S)
           n   == Len(run)
<1>1. /\ run \in Seq(S)
      /\ \A c \in S : \E i \in 1 .. n : run[i] = c
      /\ \A i, j \in 1 .. n : i < j => run[i].ts < run[j].ts
  BY ByTimeSorts
<1> HIDE DEF run
<1>2. n \in Nat /\ DOMAIN run = 1 .. n
  BY <1>1
<1>3. \A i \in 1 .. n : run[i].ts \in Nat
  BY <1>1 DEF Timed
<1>4. PICK x \in 1 .. n, y \in 1 .. n : ShowsFromTo(run, drawn, stretch, x, y)
  <2>1. stretch \in Segments(run, drawn) /\ Len(run) = n
    BY DEF run
  <2> HIDE DEF n
  <2> QED
    BY <1>2, <2>1, SegmentIs
<1>5. /\ \A k \in x .. y : drawn[k] /\ k \in 1 .. n
      /\ \A t : t \in stretch <=> \E k \in x .. y : t = run[k].ts
  BY <1>4 DEF ShowsFromTo
<1>6. \A a \in stretch : \E i \in 1 .. n : run[i].ts = a /\ drawn[i]
  BY <1>5
<1>7. ASSUME NEW a \in stretch, NEW b \in stretch, NEW c \in S, a <= c.ts, c.ts <= b
      PROVE  c.ts \in stretch
  <2>1. PICK i \in x .. y : run[i].ts = a
    BY <1>5
  <2>2. PICK j \in x .. y : run[j].ts = b
    BY <1>5
  <2>3. PICK k \in 1 .. n : run[k] = c
    BY <1>1
  <2>4. i \in 1 .. n /\ j \in 1 .. n
    BY <1>5
  <2>5. run[i].ts <= run[k].ts /\ run[k].ts <= run[j].ts
    BY <1>7, <2>1, <2>2, <2>3
  <2>6. ~(k < i) /\ ~(j < k)
    <3>1. run[i].ts \in Nat /\ run[j].ts \in Nat /\ run[k].ts \in Nat
      BY <1>3, <2>4
    <3>2. k < i => run[k].ts < run[i].ts
      BY <1>1, <2>4
    <3>3. j < k => run[j].ts < run[k].ts
      BY <1>1, <2>4
    <3> QED
      BY <2>5, <3>1, <3>2, <3>3
  <2>7. k \in x .. y
    BY <2>4, <2>6
  <2> QED
    BY <1>5, <2>3, <2>7
<1> QED
  BY <1>6, <1>7 DEF run

\* A rate at a reading, and an earlier one that publishes a reset with no
\* reading of both a value and a reset between the two: nothing else comes
\* between them either.
LEMMA NothingBetween ==
  ASSUME NEW q \in DrawnSeries, Consecutive(q),
         NEW p \in q.points, NEW r \in q.points, p.ts < r.ts,
         p.reset # None, r.reset # None,
         \A s \in q.points :
           s.reset # None /\ s.used # None => s.ts <= p.ts \/ s.ts >= r.ts,
         EstimateRate(InstanceOf(r, q.span, q.current), q.points, q.gap, r.ts) # NoRate
  PROVE  /\ r.ts - p.ts <= q.gap
         /\ r.reset - p.reset \in -2 * RESET_TOLERANCE .. 2 * RESET_TOLERANCE
         /\ None \in {p.used, r.used} \/ r.used >= p.used - FALL_EPSILON
<1> DEFINE w == InstanceOf(r, q.span, q.current)
           M == ReadingsOf(w, q.points, r.ts)
<1>1. /\ Timed(q.points) /\ q.points \subseteq Readings /\ q.span \in Nat /\ q.gap \in Nat
      /\ q.current \in Windows \cup {NoWindow}
  BY DEF DrawnSeries
<1>2. RESET_TOLERANCE \in Nat
  BY MetricsAssumption
<1>3. \A s \in q.points : /\ s.ts \in Nat
                          /\ s.used # None => s.used \in Nat
                          /\ s.reset # None => s.reset \in Nat
  BY <1>1 DEF Readings
<1>4. /\ w.start \in Int /\ w.reset \in Nat /\ Near(r.reset, w.reset)
      /\ w.reset \in {s.reset : s \in q.points} \cup ({q.current.reset} \ {None})
  <2>1. r.reset \in Nat
    BY <1>3
  <2>2. CASE q.current # NoWindow /\ InSameWindow(r, q.current) /\ r.ts >= q.current.start
    <3>1. q.current \in Windows
      BY <1>1, <2>2
    <3>2. w = [q.current EXCEPT !.used = r.used]
      BY <2>2 DEF InstanceOf
    <3>3. w.start = q.current.start /\ w.reset = q.current.reset
      BY <3>1, <3>2 DEF Windows
    <3>4. q.current.reset \in Nat /\ q.current.reset # None /\ q.current.start \in Int
      BY <3>1 DEF Windows, None
    <3> QED
      BY <2>2, <3>3, <3>4 DEF InSameWindow, Near
  <2>3. CASE ~(q.current # NoWindow /\ InSameWindow(r, q.current) /\ r.ts >= q.current.start)
    <3>1. w.start = r.reset - q.span /\ w.reset = r.reset
      BY <2>3 DEF InstanceOf
    <3> QED
      BY <1>1, <1>2, <2>1, <3>1 DEF Near
  <2> QED
    BY <2>2, <2>3
<1> HIDE DEF w
<1>5. PICK s, t : RestsOn(EstimateRate(w, q.points, q.gap, r.ts), w, q.points, q.gap, r.ts, s, t)
  BY <1>1, RateRests DEF w
<1>6. /\ s \in M /\ t \in M /\ s.ts < t.ts /\ ~Breaks(s, t, q.gap)
      /\ \A u \in M : u.ts <= s.ts \/ u.ts = t.ts
      /\ ~(r.ts - t.ts > q.gap)
  BY <1>5 DEF RestsOn
<1>7. \A u : u \in M <=> /\ u \in q.points /\ u.ts >= w.start /\ u.ts <= r.ts
                         /\ Near(u.reset, w.reset) /\ u.used # None
  BY DEF ReadingsOf, InSameWindow, Near
<1> HIDE DEF M
<1>8. /\ s \in q.points /\ t \in q.points /\ s.ts \in Nat /\ t.ts \in Nat
      /\ s.reset # None /\ t.reset # None /\ s.used # None /\ t.used # None
      /\ s.used \in Nat /\ t.used \in Nat
      /\ Near(s.reset, w.reset) /\ Near(t.reset, w.reset) /\ t.ts <= r.ts
      /\ s.ts >= w.start
  BY <1>3, <1>6, <1>7 DEF Near
<1>9. p.ts \in Nat /\ r.ts \in Nat /\ p.ts <= r.ts
  BY <1>3
<1>10. ~(t.ts - s.ts > q.gap) /\ ~(t.used < s.used - FALL_EPSILON)
  BY <1>6 DEF Breaks
<1>11. CASE r.used # None
  <2>1. r \in M
    BY <1>4, <1>6, <1>7, <1>8, <1>9, <1>11
  <2>2. t = r
    <3>1. r.ts = t.ts
      BY <1>6, <1>8, <1>9, <2>1
    <3> QED
      BY <1>1, <1>8, <3>1 DEF Timed
  <2>3. s.ts <= p.ts
    BY <1>6, <1>8, <1>9, <2>2
  <2>4. Near(p.reset, w.reset)
    BY <1>4, <1>8, <1>9, <2>3 DEF Consecutive
  <2>5. ASSUME p.used # None PROVE p = s
    <3>1. p \in M
      BY <1>4, <1>7, <1>8, <1>9, <2>3, <2>4, <2>5
    <3>2. p.ts = s.ts
      BY <1>6, <1>8, <1>9, <2>2, <2>3, <3>1
    <3> QED
      BY <1>1, <1>8, <3>2 DEF Timed
  <2>6. r.ts - p.ts <= q.gap
    BY <1>1, <1>8, <1>9, <1>10, <2>2, <2>3
  <2>7. None \in {p.used, r.used} \/ r.used >= p.used - FALL_EPSILON
    BY <1>8, <1>10, <2>2, <2>5 DEF FALL_EPSILON
  <2>8. r.reset - p.reset \in -2 * RESET_TOLERANCE .. 2 * RESET_TOLERANCE
    BY <1>2, <1>3, <1>4, <2>4 DEF Near
  <2> QED
    BY <2>6, <2>7, <2>8
<1>12. CASE r.used = None
  <2>1. t.ts # r.ts
    BY <1>1, <1>8, <1>12 DEF Timed
  <2>2. t.ts <= p.ts
    BY <1>8, <1>9, <2>1
  <2>3. Near(p.reset, w.reset)
    BY <1>4, <1>8, <1>9, <2>2 DEF Consecutive
  <2>4. r.ts - p.ts <= q.gap
    BY <1>1, <1>6, <1>8, <1>9, <2>2
  <2>5. r.reset - p.reset \in -2 * RESET_TOLERANCE .. 2 * RESET_TOLERANCE
    BY <1>2, <1>3, <1>4, <2>3 DEF Near
  <2> QED
    BY <1>12, <2>4, <2>5
<1> QED
  BY <1>11, <1>12

\* How many readings up to one begin a window, and where that leaves it.
BreaksUpTo(run, i) == {j \in 1 .. i : BrokenAt(run, j)}
PlaceOf(run, i) == i + Cardinality(BreaksUpTo(run, i))

LEMMA PlacesRise ==
  ASSUME NEW M, NEW run \in Seq(M)
  PROVE  /\ \A i \in 1 .. Len(run) : /\ PlaceOf(run, i) \in Nat \ {0}
                                     /\ PlaceOf(run, i) <= PlaceOf(run, Len(run))
         /\ \A i, j \in 1 .. Len(run) : i < j => PlaceOf(run, i) < PlaceOf(run, j)
         /\ \A i \in 1 .. Len(run) - 1 :
              BrokenAt(run, i + 1) => PlaceOf(run, i) + 2 <= PlaceOf(run, i + 1)
<1> DEFINE n == Len(run)
<1>1. n \in Nat
  OBVIOUS
<1> HIDE DEF n
<1>2. ASSUME NEW i \in 1 .. n
      PROVE  IsFiniteSet(BreaksUpTo(run, i)) /\ Cardinality(BreaksUpTo(run, i)) \in 0 .. i
  BY PlacesCounted DEF BreaksUpTo
<1>3. ASSUME NEW i \in 1 .. n, NEW j \in 1 .. n, i < j
      PROVE  PlaceOf(run, i) < PlaceOf(run, j)
  <2>1. BreaksUpTo(run, i) \in SUBSET BreaksUpTo(run, j)
    BY <1>3 DEF BreaksUpTo
  <2>2. Cardinality(BreaksUpTo(run, i)) <= Cardinality(BreaksUpTo(run, j))
    BY <1>2, <2>1, FS_Subset
  <2>3. Cardinality(BreaksUpTo(run, i)) \in Nat /\ Cardinality(BreaksUpTo(run, j)) \in Nat
    BY <1>2
  <2> QED
    BY <1>3, <2>2, <2>3 DEF PlaceOf
<1>4. \A i \in 1 .. n : PlaceOf(run, i) \in Nat \ {0}
  <2> TAKE i \in 1 .. n
  <2>1. Cardinality(BreaksUpTo(run, i)) \in Nat
    BY <1>2
  <2> QED
    BY <2>1 DEF PlaceOf
<1>5. ASSUME NEW i \in 1 .. n PROVE PlaceOf(run, i) <= PlaceOf(run, n)
  <2>1. n \in 1 .. n /\ (i < n \/ i = n)
    BY <1>1
  <2>2. PlaceOf(run, i) \in Nat /\ PlaceOf(run, n) \in Nat
    BY <1>4, <2>1
  <2> QED
    BY <1>3, <2>1, <2>2
<1>6. ASSUME NEW i \in 1 .. n - 1, BrokenAt(run, i + 1)
      PROVE  PlaceOf(run, i) + 2 <= PlaceOf(run, i + 1)
  <2>1. i \in 1 .. n /\ i + 1 \in 1 .. n
    BY <1>1
  <2>2. BreaksUpTo(run, i + 1) = BreaksUpTo(run, i) \cup {i + 1} /\ i + 1 \notin BreaksUpTo(run, i)
    BY <1>6, <2>1 DEF BreaksUpTo
  <2>3. Cardinality(BreaksUpTo(run, i + 1)) = Cardinality(BreaksUpTo(run, i)) + 1
    BY <1>2, <2>1, <2>2, FS_AddElement
  <2>4. Cardinality(BreaksUpTo(run, i)) \in Nat
    BY <1>2, <2>1
  <2> QED
    BY <2>1, <2>3, <2>4 DEF PlaceOf
<1> QED
  BY <1>3, <1>4, <1>5, <1>6 DEF n

\* A reading after one that published a reset of another window, with none
\* published between, is broken off.
LEMMA BrokenBetween ==
  ASSUME NEW M, NEW run \in Seq(M), NEW i \in 1 .. Len(run), NEW j \in 1 .. Len(run), i < j,
         run[i].reset # None, run[j].reset # None, ~BrokenAt(run, j),
         \A m \in 1 .. Len(run) : i < m /\ m < j => run[m].reset = None
  PROVE  run[j].reset - run[i].reset \in -RESET_TOLERANCE .. RESET_TOLERANCE
<1> DEFINE S == {k \in 1 .. j - 1 : run[k].reset # None}
<1>1. i \in S /\ S \subseteq Nat /\ \A k \in S : k <= i
  OBVIOUS
<1>2. PublishedBefore(run, j) = IF S = {} THEN None ELSE run[Max(S)].reset
  BY DEF PublishedBefore
<1> HIDE DEF S
<1>3. IsFiniteSet(S)
  BY <1>1, FS_BoundedSetOfNaturals
<1>4. Max(S) = i
  <2> DEFINE m == Max(S)
  <2>1. m \in S /\ m >= i
    BY <1>1, <1>3, MaxIsGreatest
  <2> HIDE DEF m
  <2>2. m \in Nat /\ m <= i /\ i \in Nat
    BY <1>1, <2>1
  <2>3. m = i
    BY <2>1, <2>2
  <2> QED
    BY <2>3 DEF m
<1>5. PublishedBefore(run, j) = run[i].reset
  BY <1>1, <1>2, <1>4
<1> QED
  BY <1>5 DEF BrokenAt

\* The reading of a time is the only one of that time.
LEMMA TheReading ==
  ASSUME NEW points, Timed(points), NEW p \in points
  PROVE  ReadingAt(points, p.ts) = p
<1> DEFINE r == CHOOSE r \in points : r.ts = p.ts
<1>1. r \in points /\ r.ts = p.ts
  BY Zenon
<1> HIDE DEF r
<1>2. r = p
  BY <1>1 DEF Timed
<1> QED
  BY <1>2 DEF ReadingAt, r

\* The line of a window on the all-windows chart leaves no reading with a value
\* out, passes over none without, and joins none to one whose published reset
\* is another window's.
LEMMA AllWindowsApart ==
  ASSUME NEW points, points \subseteq Readings, Timed(points)
  PROVE  LET all == AllWindowsLine(points)
         IN  /\ UNION all = {p.ts : p \in {r \in points : r.used # None}}
             /\ \A stretch \in all : \A a, b \in stretch :
                  /\ Joined(stretch, a, b) => Joined({p.ts : p \in points}, a, b)
                  /\ {a, b} \subseteq Published(points, stretch)
                       /\ Joined(Published(points, stretch), a, b)
                       => ReadingAt(points, b).reset - ReadingAt(points, a).reset
                            \in -RESET_TOLERANCE .. RESET_TOLERANCE
<1> DEFINE run   == ByTime(points)
           n     == Len(run)
           total == n + Cardinality({j \in DOMAIN run : BrokenAt(run, j)})
           place == [i \in DOMAIN run |-> i + Cardinality({j \in 1 .. i : BrokenAt(run, j)})]
           drawn == [k \in 1 .. total |->
                       \E i \in DOMAIN run : place[i] = k /\ run[i].used # None]
           at(k) == IF drawn[k] THEN run[CHOOSE i \in DOMAIN run : place[i] = k]
                    ELSE [ts |-> None]
           seq   == [k \in DOMAIN drawn |-> at(k)]
<1>1. AllWindowsLine(points) = Segments(seq, drawn)
  BY DEF AllWindowsLine
<1>2. /\ run \in Seq(points)
      /\ \A p \in points : \E i \in 1 .. n : run[i] = p
      /\ \A i, j \in 1 .. n : i < j => run[i].ts < run[j].ts
  BY ByTimeSorts
<1> HIDE DEF run
<1>16. \A i, j \in 1 .. n : i < j => run[i].ts < run[j].ts
  BY <1>2
<1>3. n \in Nat /\ DOMAIN run = 1 .. n /\ \A i \in 1 .. n : run[i] \in points /\ run[i].ts \in Nat
  BY <1>2 DEF Timed
<1>4. total \in Nat /\ (n > 0 => total = PlaceOf(run, n))
  <2>1. {j \in DOMAIN run : BrokenAt(run, j)} = BreaksUpTo(run, n)
    BY <1>3 DEF BreaksUpTo
  <2>2. Cardinality(BreaksUpTo(run, n)) \in Nat
    <3>1. BreaksUpTo(run, n) \in SUBSET (1 .. n)
      BY DEF BreaksUpTo
    <3> HIDE DEF n
    <3> QED
      BY <1>3, <3>1, PlacesCounted
  <2>3. total = n + Cardinality(BreaksUpTo(run, n)) /\ PlaceOf(run, n) = n + Cardinality(BreaksUpTo(run, n))
    BY <2>1, Zenon DEF PlaceOf
  <2> HIDE DEF n, total
  <2> QED
    BY <1>3, <2>2, <2>3
<1>5. \A i \in 1 .. n : place[i] = PlaceOf(run, i)
  BY <1>3 DEF PlaceOf, BreaksUpTo
<1> HIDE DEF place
<1>7. \A i \in 1 .. n : place[i] \in Nat /\ place[i] > 0 /\ place[i] <= PlaceOf(run, n)
  BY <1>2, <1>5, PlacesRise, SMTT(40)
<1>8. \A i \in 1 .. n : place[i] \in 1 .. total
  BY <1>3, <1>4, <1>7
<1> HIDE DEF total
<1>9. \A i, j \in 1 .. n : i < j => place[i] < place[j]
  <2>1. \A i, j \in 1 .. n : i < j => PlaceOf(run, i) < PlaceOf(run, j)
    BY <1>2, PlacesRise
  <2> QED
    BY <1>5, <2>1
<1>10. \A i, j \in 1 .. n : place[i] = place[j] => i = j
  <2> TAKE i \in 1 .. n, j \in 1 .. n
  <2>1. i < j \/ j < i \/ i = j
    OBVIOUS
  <2> QED
    BY <1>7, <1>9, <2>1
<1>11. /\ DOMAIN drawn = 1 .. total /\ drawn \in [1 .. total -> BOOLEAN]
       /\ \A k \in 1 .. total :
            drawn[k] <=> \E i \in 1 .. n : place[i] = k /\ run[i].used # None
  <2>1. DOMAIN drawn = 1 .. total /\ drawn \in [1 .. total -> BOOLEAN]
    OBVIOUS
  <2>2. \A k \in 1 .. total :
          drawn[k] <=> \E i \in DOMAIN run : place[i] = k /\ run[i].used # None
    BY Zenon
  <2> HIDE DEF drawn
  <2> QED
    BY <1>3, <2>1, <2>2, Zenon
<1>12. DOMAIN seq = 1 .. total /\ Len(seq) = total
  <2>1. seq \in [1 .. total -> {seq[k] : k \in 1 .. total}]
    BY <1>11
  <2> HIDE DEF seq
  <2> QED
    BY <1>4, <2>1
<1> HIDE DEF drawn
<1>13. \A i \in 1 .. n : /\ drawn[place[i]] <=> run[i].used # None
                         /\ drawn[place[i]] => seq[place[i]] = run[i]
  <2> TAKE i \in 1 .. n
  <2>1. place[i] \in 1 .. total /\ (drawn[place[i]] <=> run[i].used # None)
    BY <1>8, <1>10, <1>11
  <2>2. drawn[place[i]] => seq[place[i]] = run[CHOOSE j \in DOMAIN run : place[j] = place[i]]
    BY <1>11, <2>1
  <2>3. (CHOOSE j \in DOMAIN run : place[j] = place[i]) = i
    BY <1>3, <1>10
  <2> QED
    BY <2>1, <2>2, <2>3
<1> HIDE DEF seq
<1>14. UNION AllWindowsLine(points) = {p.ts : p \in {r \in points : r.used # None}}
  <2>1. UNION AllWindowsLine(points) = {seq[k].ts : k \in {j \in 1 .. total : drawn[j]}}
    <3>1. drawn \in [1 .. total -> BOOLEAN] /\ DOMAIN seq = 1 .. total /\ Len(seq) = total
      BY <1>11, <1>12
    <3>2. UNION Segments(seq, drawn) = {seq[k].ts : k \in {j \in 1 .. total : drawn[j]}}
      BY <1>4, <3>1, SegmentsCoverDrawn
    <3> QED
      BY <1>1, <3>2
  <2>2. ASSUME NEW p \in points, p.used # None
        PROVE  \E k \in 1 .. total : drawn[k] /\ seq[k].ts = p.ts
    <3>1. PICK i \in 1 .. n : run[i] = p
      BY <1>2
    <3>2. place[i] \in 1 .. total /\ drawn[place[i]] /\ seq[place[i]] = p
      BY <1>8, <1>13, <2>2, <3>1
    <3> QED
      BY <3>2
  <2>3. ASSUME NEW k \in 1 .. total, drawn[k]
        PROVE  \E p \in points : p.used # None /\ seq[k].ts = p.ts
    <3>1. PICK i \in 1 .. n : place[i] = k /\ run[i].used # None
      BY <1>11, <2>3
    <3> QED
      BY <1>3, <1>13, <3>1
  <2> QED
    BY <2>1, <2>2, <2>3
<1>15. ASSUME NEW stretch \in AllWindowsLine(points), NEW a \in stretch, NEW b \in stretch,
              a < b
       PROVE  \E i, j \in 1 .. n :
                /\ i < j /\ run[i].ts = a /\ run[j].ts = b
                /\ \A m \in 1 .. n : i < m /\ m < j => run[m].ts \in stretch
                /\ ~BrokenAt(run, j)
  <2>11. PICK x \in 1 .. total, y \in 1 .. total : ShowsFromTo(seq, drawn, stretch, x, y)
    <3>1. stretch \in Segments(seq, drawn)
      BY <1>1, <1>15
    <3> QED
      BY <1>4, <1>12, <3>1, SegmentIs
  <2>1. /\ \A k \in x .. y : drawn[k]
        /\ \A t : t \in stretch <=> \E k \in x .. y : t = seq[k].ts
    BY <2>11 DEF ShowsFromTo
  <2>2. \A k \in x .. y : k \in 1 .. total /\ \E i \in 1 .. n : place[i] = k
    <3>1. \A k \in x .. y : k \in 1 .. total
      BY <1>4
    <3> QED
      BY <1>11, <2>1, <3>1, Zenon
  <2>3. \A t \in stretch : \E m \in 1 .. n : place[m] \in x .. y /\ run[m].ts = t
    <3> TAKE t \in stretch
    <3>1. PICK k \in x .. y : t = seq[k].ts
      BY <2>1, Zenon
    <3>2. PICK m \in 1 .. n : place[m] = k
      BY <2>2, <3>1, Zenon
    <3>3. seq[place[m]] = run[m]
      BY <1>13, <2>1, <3>2, Zenon
    <3>4. place[m] \in x .. y /\ run[m].ts = t
      BY <3>1, <3>2, <3>3, Zenon
    <3> QED
      BY <3>2, <3>4, Zenon
  <2>4. PICK i \in 1 .. n : place[i] \in x .. y /\ run[i].ts = a
    BY <2>3
  <2>5. PICK j \in 1 .. n : place[j] \in x .. y /\ run[j].ts = b
    BY <2>3
  <2>6. i < j
    <3>0. a \in Nat /\ b \in Nat
      BY <1>3, <2>4, <2>5
    <3>1. ~(j < i)
      BY <1>15, <1>16, <2>4, <2>5, <3>0
    <3>2. i # j
      BY <1>15, <2>4, <2>5, <3>0
    <3> QED
      BY <3>1, <3>2
  <2>7. ASSUME NEW m \in 1 .. n, i < m, m < j PROVE run[m].ts \in stretch
    <3>1. place[i] < place[m] /\ place[m] < place[j]
      BY <1>9, <2>7
    <3>2. place[m] \in x .. y
      BY <1>7, <2>4, <2>5, <3>1
    <3>3. seq[place[m]] = run[m]
      BY <1>13, <2>1, <3>2, Zenon
    <3> QED
      BY <2>1, <3>2, <3>3, Zenon
  <2>8. ASSUME BrokenAt(run, j) PROVE FALSE
    <3> DEFINE h == j - 1
    <3>1. h \in 1 .. n - 1 /\ h \in 1 .. n /\ h + 1 = j /\ i <= h
      BY <1>3, <2>6
    <3> HIDE DEF h
    <3>2. place[h] + 2 <= place[j]
      BY <1>2, <1>5, <2>8, <3>1, PlacesRise, ZenonT(40)
    <3>3. place[i] <= place[h] /\ place[h] \in Nat /\ place[j] \in Nat
      BY <1>7, <1>9, <3>1
    <3>4. place[h] + 1 \in x .. y
      BY <2>4, <2>5, <3>2, <3>3, SMTT(40)
    <3>5. PICK m \in 1 .. n : place[m] = place[h] + 1
      BY <2>2, <3>4
    <3>6. place[m] > place[h] /\ place[m] < place[j] /\ place[m] \in Nat
      BY <3>2, <3>3, <3>5
    <3>7. ~(m < h) /\ m # h /\ ~(j < m) /\ m # j
      BY <1>9, <3>1, <3>3, <3>6
    <3> QED
      BY <3>1, <3>7
  <2> QED
    BY <2>4, <2>5, <2>6, <2>7, <2>8
<1>17. ASSUME NEW stretch \in AllWindowsLine(points), NEW a \in stretch, NEW b \in stretch,
              Joined(stretch, a, b), NEW p \in points
       PROVE  p.ts <= a \/ p.ts >= b
  <2>1. a < b
    BY <1>17 DEF Joined
  <2>2. PICK i \in 1 .. n, j \in 1 .. n :
          /\ i < j /\ run[i].ts = a /\ run[j].ts = b
          /\ \A m \in 1 .. n : i < m /\ m < j => run[m].ts \in stretch
    BY <1>15, <2>1
  <2>3. PICK m \in 1 .. n : run[m] = p
    BY <1>2
  <2>4. a \in Nat /\ b \in Nat /\ p.ts \in Nat
    BY <1>3, <2>2, <2>3
  <2>5. CASE m <= i
    BY <1>16, <2>2, <2>3, <2>4, <2>5
  <2>6. CASE m >= j
    BY <1>16, <2>2, <2>3, <2>4, <2>6
  <2>7. CASE i < m /\ m < j
    BY <1>17, <2>2, <2>3, <2>7 DEF Joined
  <2> QED
    BY <2>5, <2>6, <2>7
<1>18. ASSUME NEW stretch \in AllWindowsLine(points), NEW a \in stretch, NEW b \in stretch,
              {a, b} \subseteq Published(points, stretch),
              Joined(Published(points, stretch), a, b)
       PROVE  ReadingAt(points, b).reset - ReadingAt(points, a).reset
                \in -RESET_TOLERANCE .. RESET_TOLERANCE
  <2>1. a < b
    BY <1>18 DEF Joined
  <2>2. PICK i \in 1 .. n, j \in 1 .. n :
          /\ i < j /\ run[i].ts = a /\ run[j].ts = b
          /\ \A m \in 1 .. n : i < m /\ m < j => run[m].ts \in stretch
          /\ ~BrokenAt(run, j)
    BY <1>15, <2>1
  <2>3. \A m \in 1 .. n : ReadingAt(points, run[m].ts) = run[m]
    BY <1>3, TheReading
  <2>4. run[i].reset # None /\ run[j].reset # None
    BY <1>18, <2>2, <2>3 DEF Published
  <2>5. ASSUME NEW m \in 1 .. n, i < m, m < j PROVE run[m].reset = None
    <3> SUFFICES ASSUME run[m].reset # None PROVE FALSE
      OBVIOUS
    <3>1. run[m].ts \in Published(points, stretch)
      BY <2>2, <2>3, <2>5 DEF Published
    <3>2. a < run[m].ts /\ run[m].ts < b
      BY <1>16, <2>2, <2>5
    <3>3. a \in Nat /\ b \in Nat /\ run[m].ts \in Nat
      BY <1>3, <2>2
    <3> QED
      BY <1>18, <3>1, <3>2, <3>3 DEF Joined
  <2>6. run[j].reset - run[i].reset \in -RESET_TOLERANCE .. RESET_TOLERANCE
    BY <1>2, <2>2, <2>4, <2>5, BrokenBetween
  <2> QED
    BY <2>2, <2>3, <2>6
<1>19. \A stretch \in AllWindowsLine(points) : \A a, b \in stretch :
         Joined(stretch, a, b) => Joined({p.ts : p \in points}, a, b)
  BY <1>17 DEF Joined
<1> QED
  BY <1>14, <1>18, <1>19

\* Where the rate or the forecast is drawn from one reading with a value to the
\* next, or to one without on the way.
LEMMA RatesJoin ==
  ASSUME NEW q \in DrawnSeries, Consecutive(q), NEW drawn,
         \A i \in DOMAIN ByTime(SeriesOf(q)) :
           drawn[i] => ByTime(SeriesOf(q))[i].rate # NoRate,
         NEW stretch \in Segments(ByTime(SeriesOf(q)), drawn),
         NEW a \in stretch, NEW b \in stretch, Joined(Valued(q.points, stretch), a, b)
  PROVE  LET p == ReadingAt(q.points, a)
             r == ReadingAt(q.points, b)
         IN  /\ b - a <= q.gap
             /\ r.reset - p.reset \in -2 * RESET_TOLERANCE .. 2 * RESET_TOLERANCE
             /\ None \in {p.used, r.used} \/ r.used >= p.used - FALL_EPSILON
<1> DEFINE series == SeriesOf(q)
           run    == ByTime(series)
           n      == Len(run)
           inst(p) == InstanceOf(p, q.span, q.current)
<1>1. Timed(q.points) /\ Timed(series)
  BY SeriesHasPoints DEF DrawnSeries
<1>2. \A point \in series : \E p \in q.points :
        /\ p.reset # None /\ point.ts = p.ts
        /\ point = RatePointOf(q.points, p, inst(p), q.gap)
  BY SeriesHasPoints
<1>3. \A p \in q.points : p.reset # None => \E point \in series : point.ts = p.ts
  <2> SUFFICES ASSUME NEW p \in q.points, p.reset # None
               PROVE  \E point \in series : point.ts = p.ts
    OBVIOUS
  <2> DEFINE point == RatePointOf(q.points, p, inst(p), q.gap)
  <2>1. point \in series
    BY DEF SeriesOf, RateSeries
  <2>2. point.ts = p.ts
    BY DEF RatePointOf
  <2> HIDE DEF point, series
  <2> QED
    BY <2>1, <2>2
<1>4. /\ \A t \in stretch : \E i \in 1 .. n : run[i].ts = t /\ drawn[i]
      /\ \A t, u \in stretch, c \in series : t <= c.ts /\ c.ts <= u => c.ts \in stretch
  BY <1>1, StretchIsContiguous
<1> HIDE DEF series
<1>5. run \in Seq(series)
  BY <1>1, ByTimeSorts
<1>6. \A j \in DOMAIN run : drawn[j] => run[j].rate # NoRate
  BY DEF series
<1> HIDE DEF run
<1>7. n \in Nat /\ DOMAIN run = 1 .. n /\ \A j \in 1 .. n : run[j] \in series
  BY <1>5
<1>8. \A t \in stretch : \E p \in q.points :
        /\ p.reset # None /\ p.ts = t
        /\ EstimateRate(inst(p), q.points, q.gap, p.ts) # NoRate
  <2> TAKE t \in stretch
  <2>1. PICK i \in 1 .. n : run[i].ts = t /\ drawn[i]
    BY <1>4
  <2>2. run[i].rate # NoRate /\ run[i] \in series
    BY <1>6, <1>7, <2>1
  <2>3. PICK p \in q.points : /\ p.reset # None /\ run[i].ts = p.ts
                              /\ run[i] = RatePointOf(q.points, p, inst(p), q.gap)
    BY <1>2, <2>2
  <2>4. run[i].rate = EstimateRate(inst(p), UpToReading(q.points, p, inst(p)), q.gap, p.ts)
    BY <2>3 DEF RatePointOf
  <2>5. EstimateRate(inst(p), q.points, q.gap, p.ts) # NoRate
    BY <2>2, <2>4, SameReadings
  <2> QED
    BY <2>1, <2>3, <2>5
<1>9. PICK p \in q.points : p.reset # None /\ p.ts = a
  BY <1>8
<1>10. PICK r \in q.points : /\ r.reset # None /\ r.ts = b
                             /\ EstimateRate(inst(r), q.points, q.gap, r.ts) # NoRate
  BY <1>8
<1>11. p.ts < r.ts /\ p.ts \in Nat /\ r.ts \in Nat
  BY <1>1, <1>9, <1>10 DEF Timed, Joined
<1>12. ASSUME NEW s \in q.points, s.reset # None, s.used # None
       PROVE  s.ts <= p.ts \/ s.ts >= r.ts
  <2> SUFFICES ASSUME p.ts < s.ts, s.ts < r.ts PROVE FALSE
    <3>1. s.ts \in Nat
      BY <1>1 DEF Timed
    <3> QED
      BY <1>11, <3>1
  <2>1. s.ts \in Nat
    BY <1>1 DEF Timed
  <2>2. PICK c \in series : c.ts = s.ts
    BY <1>3, <1>12
  <2>3. s.ts \in stretch
    BY <1>4, <1>9, <1>10, <1>11, <2>1, <2>2
  <2>4. ReadingAt(q.points, s.ts) = s
    BY <1>1, TheReading
  <2>5. s.ts \in Valued(q.points, stretch)
    BY <1>12, <2>3, <2>4 DEF Valued
  <2> QED
    BY <1>9, <1>10, <1>11, <2>1, <2>5 DEF Joined
<1>13. ReadingAt(q.points, a) = p /\ ReadingAt(q.points, b) = r
  BY <1>1, <1>9, <1>10, TheReading
<1> QED
  BY <1>9, <1>10, <1>11, <1>12, <1>13, NothingBetween

\* A line of a rate bridges nothing it knows nothing about, whatever is stored
\* and however the range is reduced, as long as windows follow one another (a
\* provider that went back and forth between two resets would have their lines
\* interleave); and a window's line on the all-windows chart leaves no value
\* out, breaks at every missing one and at every change of the published reset
\* (estimate_rate, rate_series, segments, render_all_windows).
THEOREM LinesCorrect ==
  ASSUME asked \in SeriesQuestions
  PROVE  LinesBridgeNothing
<1> DEFINE chart   == Drawn(asked)
           points  == chart.points
           visible == VisibleIn(chart)
           run     == ByTime(SeriesOf(chart))
           rates   == [i \in DOMAIN run |-> run[i].rate # NoRate]
           resets  == [i \in DOMAIN run |-> ForecastValue(run[i]) # NoProjection]
           all     == AllWindowsLine(points)
<1>1. chart \in DrawnSeries
  BY DrawnIs
<1> HIDE DEF chart
<1>2. points \subseteq Readings /\ Timed(points)
  BY <1>1 DEF DrawnSeries
<1>3. /\ UsagePaceStack(visible).now = Segments(run, rates)
      /\ ForecastStack(visible).at_reset = Segments(run, resets)
  BY <1>1, AllVisible DEF UsagePaceStack, ForecastStack
<1>4. \A i \in DOMAIN run : rates[i] => run[i].rate # NoRate
  OBVIOUS
<1>5. \A i \in DOMAIN run : resets[i] => run[i].rate # NoRate
  BY DEF ForecastValue
<1>6. ASSUME Consecutive(chart),
             NEW stretch \in UsagePaceStack(visible).now \cup ForecastStack(visible).at_reset,
             NEW a \in stretch, NEW b \in stretch, Joined(Valued(points, stretch), a, b)
      PROVE  LET p == ReadingAt(points, a)
                 q == ReadingAt(points, b)
             IN  /\ b - a <= chart.gap
                 /\ q.reset - p.reset \in -2 * RESET_TOLERANCE .. 2 * RESET_TOLERANCE
                 /\ None \in {p.used, q.used} \/ q.used >= p.used - FALL_EPSILON
  <2> HIDE DEF rates, resets, visible
  <2>1. CASE stretch \in Segments(run, rates)
    BY <1>1, <1>4, <1>6, <2>1, RatesJoin
  <2>2. CASE stretch \in Segments(run, resets)
    BY <1>1, <1>5, <1>6, <2>2, RatesJoin
  <2> QED
    BY <1>3, <1>6, <2>1, <2>2
<1>7. /\ UNION all = {p.ts : p \in {r \in points : r.used # None}}
      /\ \A stretch \in all : \A a, b \in stretch :
           /\ Joined(stretch, a, b) => Joined({p.ts : p \in points}, a, b)
           /\ {a, b} \subseteq Published(points, stretch)
                /\ Joined(Published(points, stretch), a, b)
                => ReadingAt(points, b).reset - ReadingAt(points, a).reset
                     \in -RESET_TOLERANCE .. RESET_TOLERANCE
  BY <1>2, AllWindowsApart
<1> HIDE DEF visible, all
<1> QED
  BY <1>6, <1>7 DEF LinesBridgeNothing, visible, all, chart

-----------------------------------------------------------------------------
(* Charts.                                                                 *)

\* What a rate is measured over has no break, from its first reading to its
\* last, the newest of its window.
Spans(rate, run, gap, a) ==
  /\ rate.from = run[a].ts /\ rate.to = run[Len(run)].ts
  /\ \A j \in a .. Len(run) - 1 : ~Breaks(run[j], run[j + 1], gap)

\* A fitted rate begins with its run.
LEMMA FitBegins ==
  ASSUME NEW run, NEW quantum, Fit(run, quantum) # NoRate
  PROVE  Fit(run, quantum).from = Head(run).ts
<1> DEFINE elapsed == Last(run).ts - Head(run).ts
<1>1. ~(Len(run) < 2) /\ ~(elapsed < MIN_SAMPLE)
  BY DEF Fit
<1>2. Fit(run, quantum) = FitElapsed(run, quantum, Last(run).used - Head(run).used, elapsed)
  BY <1>1, Zenon DEF Fit
<1> QED
  BY <1>2 DEF FitElapsed, Interval

\* What a rate spans is a stretch of its readings.
LEMMA RateSpans ==
  ASSUME NEW w, NEW points, Timed(points), NEW gap, NEW now,
         EstimateRate(w, points, gap, now) # NoRate
  PROVE  LET run == ByTime(ReadingsOf(w, points, now))
         IN  \E a \in 1 .. Len(run) : Spans(EstimateRate(w, points, gap, now), run, gap, a)
<1> DEFINE M    == ReadingsOf(w, points, now)
           run  == ByTime(M)
           rate == EstimateRate(w, points, gap, now)
           n    == Len(run)
<1>1. Timed(M)
  <2>1. M \in SUBSET points
    BY DEF ReadingsOf
  <2>2. IsFiniteSet(M)
    BY <2>1, FS_Subset DEF Timed
  <2> QED
    BY <2>1, <2>2 DEF Timed
<1>2. run = Matching(w, points, now)
  BY DEF Matching, ReadingsOf
<1> HIDE DEF M
<1>3. run \in Seq(M)
  BY <1>1, ByTimeSorts
<1>4. run # <<>> /\ rate = RateOfStretch(Stretch(run, gap), SpanOf(w))
  <2> HIDE DEF run
  <2> QED
    BY <1>2 DEF EstimateRate, RateOfRun
<1> HIDE DEF run, rate
<1>5. PICK a \in 1 .. n : /\ Stretch(run, gap) = SubSeq(run, a, n)
                          /\ \A j \in a .. n - 1 : ~Breaks(run[j], run[j + 1], gap)
  BY <1>3, <1>4, StretchIsWhole
<1> DEFINE stretch == SubSeq(run, a, n)
<1>6. PICK ts, quantum : rate = Fit(From(stretch, ts), quantum)
  BY <1>4, <1>5, WidenFits DEF RateOfStretch
<1>7. n \in Nat /\ a \in 1 .. n + 1
  BY <1>3
<1>8. /\ stretch \in Seq(M) /\ Len(stretch) = n - a + 1
      /\ \A i \in 1 .. Len(stretch) : stretch[i] = run[a + i - 1]
  BY <1>3, <1>7, SuffixOf
<1> HIDE DEF stretch
<1>9. PICK b \in 1 .. Len(stretch) + 1 :
        From(stretch, ts) = SubSeq(stretch, b, Len(stretch))
  BY <1>8, FromIsSuffix
<1> DEFINE kept == SubSeq(stretch, b, Len(stretch))
<1>10. /\ kept \in Seq(M) /\ Len(kept) = Len(stretch) - b + 1
       /\ \A i \in 1 .. Len(kept) : kept[i] = stretch[b + i - 1]
  BY <1>8, SuffixOf
<1> HIDE DEF kept
<1>11. ~(Len(kept) < 2) /\ rate.to = kept[Len(kept)].ts /\ rate.from = Head(kept).ts
  <2>1. rate = Fit(kept, quantum) /\ rate # NoRate
    BY <1>6, <1>9 DEF kept, rate
  <2> QED
    BY <2>1, FitSpans, FitBegins
<1>12. Len(kept) \in Nat /\ Len(stretch) \in Nat /\ Len(stretch) >= 2
  BY <1>8, <1>10, <1>11
<1>13. kept[Len(kept)] = run[n]
  <2>1. Len(kept) \in 1 .. Len(kept) /\ b + Len(kept) - 1 = Len(stretch)
    BY <1>10, <1>11, <1>12
  <2>2. kept[Len(kept)] = stretch[Len(stretch)]
    BY <1>10, <2>1
  <2>3. Len(stretch) \in 1 .. Len(stretch) /\ a + Len(stretch) - 1 = n
    BY <1>7, <1>8, <1>12
  <2> QED
    BY <1>8, <2>2, <2>3
<1> DEFINE c == a + b - 1
<1>14. Head(kept) = run[c] /\ c \in 1 .. n /\ c >= a
  <2>1. 1 \in 1 .. Len(kept) /\ b + 1 - 1 = b /\ b \in 1 .. Len(stretch)
    BY <1>10, <1>11, <1>12
  <2>2. kept[1] = stretch[b]
    BY <1>10, <2>1
  <2>3. stretch[b] = run[a + b - 1] /\ c \in 1 .. n /\ c >= a
    BY <1>7, <1>8, <2>1
  <2>4. Head(kept) = kept[1]
    BY <1>10, <1>11
  <2> QED
    BY <2>2, <2>3, <2>4
<1> HIDE DEF c
<1>15. \A j \in c .. n - 1 : ~Breaks(run[j], run[j + 1], gap)
  BY <1>5, <1>7, <1>14
<1> QED
  BY <1>11, <1>13, <1>14, <1>15 DEF Spans, M, run, rate

\* There is a nearest reading, and it is one.
LEMMA NearestIs ==
  ASSUME NEW T, T # {}, IsFiniteSet(T), T \subseteq Int, NEW ts \in Int
  PROVE  LET n == NearestReading(T, ts)
         IN  /\ n \in T
             /\ \A u \in T : \/ n = u
                             \/ Max({n - ts, ts - n}) < Max({u - ts, ts - u})
                             \/ Max({n - ts, ts - n}) = Max({u - ts, ts - u}) /\ n < u
<1> DEFINE distance(t) == Max({t - ts, ts - t})
           D == {distance(t) : t \in T}
           d == Min(D)
           right(t) == \A u \in T \ {t} :
                         \/ distance(t) < distance(u)
                         \/ distance(t) = distance(u) /\ t < u
<1>1. ASSUME NEW t \in T PROVE distance(t) = (IF t >= ts THEN t - ts ELSE ts - t)
  <2> DEFINE x == t - ts
             y == ts - t
  <2>1. x \in Int /\ y \in Int /\ (x >= y <=> t >= ts)
    OBVIOUS
  <2> HIDE DEF x, y
  <2>2. Max({x, y}) = IF x >= y THEN x ELSE y
    BY <2>1, MinMaxOfTwo
  <2> QED
    BY <2>1, <2>2 DEF x, y
<1> HIDE DEF distance
<1>2. D \subseteq Nat /\ D # {}
  <2>1. ASSUME NEW t \in T PROVE distance(t) \in Nat
    <3>1. t \in Int
      OBVIOUS
    <3> QED
      BY <1>1, <3>1
  <2> QED
    BY <2>1
<1>3. d \in D /\ \A y \in D : d <= y
  <2> HIDE DEF D
  <2> QED
    BY <1>2, MinIsLeast
<1> HIDE DEF d
<1>4. \A t \in T : distance(t) \in Nat /\ d <= distance(t) /\ d \in Nat
  BY <1>2, <1>3
<1>5. PICK t \in T : distance(t) = d
  BY <1>3
<1>6. \E s \in T : right(s)
  <2>1. CASE ts - d \in T
    <3> DEFINE s == ts - d
    <3>1. s \in T /\ distance(s) = d
      BY <1>1, <1>4, <2>1
    <3>2. ASSUME NEW u \in T \ {s}
          PROVE  distance(s) < distance(u) \/ (distance(s) = distance(u) /\ s < u)
      <4>1. d < distance(u) \/ (d = distance(u) /\ s < u)
        BY <1>1, <1>4, <3>2
      <4> HIDE DEF s
      <4> QED
        BY <3>1, <4>1
    <3> HIDE DEF s
    <3> QED
      BY <3>1, <3>2
  <2>2. CASE ts - d \notin T
    <3>1. \A u \in T \ {t} : distance(t) < distance(u)
      BY <1>1, <1>4, <1>5, <2>2
    <3> QED
      BY <3>1
  <2> QED
    BY <2>1, <2>2
<1>7. NearestReading(T, ts) = CHOOSE s \in T : right(s)
  BY Zenon DEF NearestReading, distance
<1>8. NearestReading(T, ts) \in T /\ right(NearestReading(T, ts))
  BY <1>6, <1>7, Zenon
<1> QED
  BY <1>8, Zenon DEF distance

\* A common factor may be left out.
LEMMA Cancel ==
  ASSUME NEW x \in Int, NEW y \in Int, NEW k \in Nat, k > 0
  PROVE  /\ x * k < y * k => x < y
         /\ x * k <= y * k => x <= y
<1>1. ASSUME x >= y PROVE x * k >= y * k
  <2>1. (x - y) * k >= 0
    BY <1>1
  <2>2. (x - y) * k = x * k - y * k
    OBVIOUS
  <2>3. x * k \in Int /\ y * k \in Int
    OBVIOUS
  <2> QED
    BY <2>1, <2>2, <2>3
<1>2. ASSUME x > y PROVE x * k > y * k
  <2>1. (x - y) * k > 0
    BY <1>2
  <2>2. (x - y) * k = x * k - y * k
    OBVIOUS
  <2>3. x * k \in Int /\ y * k \in Int
    OBVIOUS
  <2> QED
    BY <2>1, <2>2, <2>3
<1>3. x * k \in Int /\ y * k \in Int
  OBVIOUS
<1> QED
  BY <1>1, <1>2, <1>3

\* Whole division, as bounds.
LEMMA QuotientOf ==
  ASSUME NEW a \in Nat, NEW k \in Nat, k > 0
  PROVE  /\ a \div k \in Nat
         /\ (a \div k) * k <= a /\ a < (a \div k + 1) * k
         /\ a % k = 0 => (a \div k) * k = a
OBVIOUS

\* The middle of a cell is as far from its two ends, but for the rounding.
LEMMA MiddleOfCell ==
  ASSUME NEW S \in Nat, NEW W \in Nat, W > 0, NEW c \in Nat
  PROVE  LET lo == (S * c) \div W
             hi == (S * (c + 1)) \div W
             m  == ((2 * c + 1) * S) \div (2 * W)
         IN  /\ lo \in Nat /\ hi \in Nat /\ m \in Nat
             /\ lo + hi <= 2 * m + 1 /\ 2 * m <= lo + hi + 1
             /\ S % W = 0 => 2 * m <= lo + hi
             /\ lo <= hi /\ (S >= W => lo < hi)
<1> DEFINE x == S * c
           y == S * (c + 1)
           z == (2 * c + 1) * S
           lo == x \div W
           hi == y \div W
           m  == z \div (2 * W)
<1>1. x \in Nat /\ y \in Nat /\ z \in Nat /\ y = x + S /\ z = x + y
  OBVIOUS
<1>2. lo \in Nat /\ lo * W <= x /\ x < (lo + 1) * W
  <2> HIDE DEF x
  <2> QED
    BY <1>1, QuotientOf
<1>3. hi \in Nat /\ hi * W <= y /\ y < (hi + 1) * W
  <2> HIDE DEF y
  <2> QED
    BY <1>1, QuotientOf
<1>4. m \in Nat /\ m * (2 * W) <= z /\ z < (m + 1) * (2 * W)
  <2> DEFINE k == 2 * W
  <2>1. k \in Nat /\ k > 0
    OBVIOUS
  <2> HIDE DEF z, k
  <2>2. z \div k \in Nat /\ (z \div k) * k <= z /\ z < (z \div k + 1) * k
    BY <1>1, <2>1, QuotientOf
  <2> QED
    BY <2>2 DEF k
<1> HIDE DEF x, y, z, lo, hi, m
<1>5. lo + hi <= 2 * m + 1
  <2>1. (lo + hi) * W = lo * W + hi * W /\ (2 * m + 2) * W = (m + 1) * (2 * W)
    BY <1>2, <1>3, <1>4
  <2>2. lo * W \in Int /\ hi * W \in Int /\ (m + 1) * (2 * W) \in Int
    BY <1>2, <1>3, <1>4
  <2>3. (lo + hi) * W < (2 * m + 2) * W
    BY <1>1, <1>2, <1>3, <1>4, <2>1, <2>2
  <2>4. lo + hi < 2 * m + 2
    BY <1>2, <1>3, <1>4, <2>3, Cancel
  <2> QED
    BY <1>2, <1>3, <1>4, <2>4
<1>6. 2 * m <= lo + hi + 1
  <2>1. (2 * m) * W = m * (2 * W) /\ (lo + hi + 2) * W = (lo + 1) * W + (hi + 1) * W
    BY <1>2, <1>3, <1>4
  <2>2. (lo + 1) * W \in Int /\ (hi + 1) * W \in Int /\ m * (2 * W) \in Int
    BY <1>2, <1>3, <1>4
  <2>3. (2 * m) * W < (lo + hi + 2) * W
    BY <1>1, <1>2, <1>3, <1>4, <2>1, <2>2
  <2>4. 2 * m < lo + hi + 2
    BY <1>2, <1>3, <1>4, <2>3, Cancel
  <2> QED
    BY <1>2, <1>3, <1>4, <2>4
<1>7. ASSUME S % W = 0 PROVE 2 * m <= lo + hi
  <2> DEFINE L == S \div W
  <2>1. L \in Nat /\ S = L * W
    BY <1>7, QuotientOf
  <2> HIDE DEF L
  <2>2. x = (L * c) * W /\ y = (L * (c + 1)) * W /\ L * c \in Int /\ L * (c + 1) \in Int
    BY <2>1 DEF x, y
  <2>3. L * c < lo + 1 /\ L * (c + 1) < hi + 1
    BY <1>2, <1>3, <2>2, Cancel
  <2>4. (L * c + L * (c + 1)) * W = x + y
    BY <2>2
  <2>5. (2 * m) * W = m * (2 * W)
    BY <1>4
  <2>6. (2 * m) * W <= (L * c + L * (c + 1)) * W
    BY <1>1, <1>4, <2>4, <2>5
  <2>7. 2 * m <= L * c + L * (c + 1)
    BY <1>4, <2>2, <2>6, Cancel
  <2> QED
    BY <1>2, <1>3, <1>4, <2>2, <2>3, <2>7
<1>8. lo <= hi
  <2>1. lo * W < (hi + 1) * W
    <3>1. lo * W \in Int /\ (hi + 1) * W \in Int
      BY <1>2, <1>3
    <3> QED
      BY <1>1, <1>2, <1>3, <3>1
  <2>2. lo < hi + 1
    BY <1>2, <1>3, <2>1, Cancel
  <2> QED
    BY <1>2, <1>3, <2>2
<1>9. ASSUME S >= W PROVE lo < hi
  <2>1. (lo + 1) * W = lo * W + W
    BY <1>2
  <2>2. (lo + 1) * W < (hi + 1) * W
    <3>1. lo * W \in Int /\ (hi + 1) * W \in Int /\ (lo + 1) * W \in Int
      BY <1>2, <1>3
    <3> QED
      BY <1>1, <1>2, <1>3, <1>9, <2>1, <3>1
  <2>3. lo + 1 < hi + 1
    BY <1>2, <1>3, <2>2, Cancel
  <2> QED
    BY <1>2, <1>3, <2>3
<1> QED
  BY <1>2, <1>3, <1>4, <1>5, <1>6, <1>7, <1>8, <1>9 DEF x, y, z, lo, hi, m

\* The cells of an axis, in ticks from its left edge.
LEMMA CellIs ==
  ASSUME NEW axis, axis.left \in Int, axis.secs \in Nat, NEW W \in Nat, W > 0, NEW c \in Nat
  PROVE  LET from == CellStart(axis, W, c)
             to   == CellStart(axis, W, c + 1)
             mid  == InstantAt(axis, W, c)
         IN  /\ from \in Int /\ to \in Int /\ mid \in Int
             /\ from + to <= 2 * mid + 1 /\ 2 * mid <= from + to + 1
             /\ axis.secs % W = 0 => 2 * mid <= from + to
             /\ axis.secs >= W => from < to
<1> DEFINE S  == axis.secs
           lo == (S * c) \div W
           hi == (S * (c + 1)) \div W
           m  == ((2 * c + 1) * S) \div (2 * W)
<1>1. /\ lo \in Nat /\ hi \in Nat /\ m \in Nat
      /\ lo + hi <= 2 * m + 1 /\ 2 * m <= lo + hi + 1
      /\ S % W = 0 => 2 * m <= lo + hi
      /\ S >= W => lo < hi
  <2> HIDE DEF S
  <2>1. S \in Nat
    BY DEF S
  <2> QED
    BY <2>1, MiddleOfCell
<1>2. /\ CellStart(axis, W, c) = axis.left + lo
      /\ CellStart(axis, W, c + 1) = axis.left + hi
      /\ InstantAt(axis, W, c) = axis.left + m
  BY Zenon DEF CellStart, InstantAt
<1> HIDE DEF lo, hi, m
<1> QED
  BY <1>1, <1>2 DEF S

\* A press on a cell that shows a reading picks one of its readings.
LEMMA PressPicksReading ==
  ASSUME NEW T, IsFiniteSet(T), T \subseteq Int,
         NEW axis, axis.left \in Int, axis.secs \in Nat, NEW W \in Nat, W > 0, NEW c \in Nat,
         NEW t \in T, t >= CellStart(axis, W, c), t < CellStart(axis, W, c + 1)
  PROVE  LET round == IF axis.secs % W = 0 THEN 0 ELSE 1
         IN  NearestReading(T, InstantAt(axis, W, c))
               \in CellStart(axis, W, c) - round .. CellStart(axis, W, c + 1) - 1 + round
<1> DEFINE lo == CellStart(axis, W, c)
           hi == CellStart(axis, W, c + 1)
           m  == InstantAt(axis, W, c)
           n  == NearestReading(T, m)
           exact == axis.secs % W = 0
<1>1. /\ lo \in Int /\ hi \in Int /\ m \in Int
      /\ lo + hi <= 2 * m + 1 /\ 2 * m <= lo + hi + 1
      /\ exact => 2 * m <= lo + hi
  BY CellIs
<1>2. t \in Int /\ lo <= t /\ t < hi
  BY <1>1
<1> HIDE DEF lo, hi, m, exact
<1>3. /\ n \in T
      /\ \/ n = t
         \/ Max({n - m, m - n}) < Max({t - m, m - t})
         \/ Max({n - m, m - n}) = Max({t - m, m - t}) /\ n < t
  <2>1. T # {}
    OBVIOUS
  <2> QED
    BY <1>1, <2>1, NearestIs
<1> HIDE DEF n
<1>4. n \in Int
  BY <1>3
<1>5. ASSUME NEW u \in Int
      PROVE  Max({u - m, m - u}) = (IF u >= m THEN u - m ELSE m - u)
  <2> DEFINE x == u - m
             y == m - u
  <2>1. x \in Int /\ y \in Int /\ (x >= y <=> u >= m)
    BY <1>1
  <2> HIDE DEF x, y
  <2>2. Max({x, y}) = IF x >= y THEN x ELSE y
    BY <2>1, MinMaxOfTwo
  <2> QED
    BY <2>1, <2>2 DEF x, y
<1> DEFINE dn == IF n >= m THEN n - m ELSE m - n
           dt == IF t >= m THEN t - m ELSE m - t
<1>6. n = t \/ dn < dt \/ (dn = dt /\ n < t)
  BY <1>2, <1>3, <1>4, <1>5, Zenon
<1>7. CASE exact
  <2>1. n >= lo /\ n <= hi - 1
    BY <1>1, <1>2, <1>4, <1>6, <1>7
  <2> QED
    BY <1>1, <1>4, <1>7, <2>1 DEF lo, hi, m, n, exact
<1>8. CASE ~exact
  <2>1. n >= lo - 1 /\ n <= hi
    BY <1>1, <1>2, <1>4, <1>6
  <2>2. n \in lo - 1 .. hi - 1 + 1
    BY <1>1, <1>4, <2>1
  <2> QED
    BY <1>8, <2>2 DEF lo, hi, m, n, exact
<1> QED
  BY <1>7, <1>8

\* The readings a point of the chart is measured from: all of them up to it.
LEMMA ChartRateRun ==
  ASSUME NEW s, IsFiniteSet(s.times), s.times \subseteq Nat, NEW gap,
         NEW point \in RateSeries(99, NoWindow, ChartReadings(s), gap), point.rate # NoRate
  PROVE  \E M, now : \E a \in 1 .. Len(ByTime(M)) :
           /\ now \in s.times /\ Timed(M)
           /\ M = {r \in ChartReadings(s) : r.ts <= now}
           /\ Spans(point.rate, ByTime(M), gap, a)
<1> DEFINE P == ChartReadings(s)
<1>1. \A r : r \in P <=> \E t \in s.times : r = [ts |-> t, used |-> t, reset |-> 99]
  BY DEF ChartReadings
<1>2. \A r \in P : r.ts \in s.times /\ r.ts \in Nat /\ r.used = r.ts /\ r.reset = 99
  BY <1>1
<1>3. Timed(P)
  <2> DEFINE f == [t \in s.times |-> [ts |-> t, used |-> t, reset |-> 99]]
  <2>1. P = {f[t] : t \in s.times}
    BY DEF ChartReadings
  <2> HIDE DEF f, P
  <2>2. IsFiniteSet(P)
    BY <2>1, ImageIsFinite
  <2>3. \A p, q \in P : p.ts = q.ts => p = q
    BY <1>1
  <2> QED
    BY <1>2, <2>2, <2>3 DEF Timed
<1>4. PICK p \in P : point = RatePointOf(P, p, InstanceOf(p, 99, NoWindow), gap)
  BY DEF RateSeries
<1> DEFINE w == InstanceOf(p, 99, NoWindow)
           M == ReadingsOf(w, P, p.ts)
<1> HIDE DEF P
<1>5. w.start = 0 /\ w.reset = 99
  BY <1>2 DEF InstanceOf
<1> HIDE DEF w
<1>6. point.rate = EstimateRate(w, P, gap, p.ts)
  <2>1. point.rate = EstimateRate(w, UpToReading(P, p, w), gap, p.ts)
    BY <1>4 DEF RatePointOf, w
  <2> QED
    BY <2>1, SameReadings
<1>7. \E a \in 1 .. Len(ByTime(M)) : Spans(point.rate, ByTime(M), gap, a)
  BY <1>3, <1>6, RateSpans
<1>8. \A r \in P : InSameWindow(r, w) /\ r.used # None /\ r.ts >= w.start
  <2>1. RESET_TOLERANCE \in Nat
    BY MetricsAssumption
  <2> QED
    BY <1>2, <1>5, <2>1 DEF InSameWindow, None
<1>9. M = {r \in P : r.ts <= p.ts}
  BY <1>8 DEF ReadingsOf
<1>10. M \in SUBSET P
  BY <1>9
<1>11. Timed(M)
  <2>1. IsFiniteSet(M)
    BY <1>3, <1>10, FS_Subset DEF Timed
  <2> HIDE DEF M
  <2> QED
    BY <1>3, <1>10, <2>1 DEF Timed
<1>12. p.ts \in s.times
  BY <1>2
<1> HIDE DEF M
<1> QED
  BY <1>7, <1>9, <1>11, <1>12 DEF P

\* Columns without a reading, within what a rate is measured over, are no hole.
LEMMA NoHoleWithinRate ==
  ASSUME NEW s, IsFiniteSet(s.times), s.times \subseteq Nat, NEW gap \in Int,
         NEW point \in RateSeries(99, NoWindow, ChartReadings(s), gap), point.rate # NoRate,
         NEW lo \in Int, NEW hi \in Int, lo < hi,
         lo .. hi - 1 \subseteq point.rate.from .. point.rate.to,
         \A t \in s.times : ~(t >= lo /\ t < hi), NEW present
  PROVE  CoveredBy(s.times, lo, hi, gap, present)
<1> DEFINE T      == s.times
           before == {t \in T : t < lo}
           after  == {t \in T : t >= hi}
           b      == Max(before)
           c      == Min(after)
<1>0. PICK M, now : \E a \in 1 .. Len(ByTime(M)) :
        /\ now \in T /\ Timed(M)
        /\ M = {r \in ChartReadings(s) : r.ts <= now}
        /\ Spans(point.rate, ByTime(M), gap, a)
  BY ChartRateRun
<1>1. PICK a \in 1 .. Len(ByTime(M)) :
        /\ now \in T /\ Timed(M)
        /\ M = {r \in ChartReadings(s) : r.ts <= now}
        /\ Spans(point.rate, ByTime(M), gap, a)
  BY <1>0
<1> DEFINE run == ByTime(M)
           n   == Len(run)
<1>2. /\ \A r \in M : r.ts \in T /\ r.ts \in Nat /\ r.ts <= now
      /\ \A t \in T : t <= now => \E r \in M : r.ts = t
  <2>1. \A r : r \in M <=> \E t \in T : r = [ts |-> t, used |-> t, reset |-> 99] /\ r.ts <= now
    BY <1>1 DEF ChartReadings
  <2>2. \A r \in M : r.ts \in T /\ r.ts \in Nat /\ r.ts <= now
    BY <2>1
  <2>3. ASSUME NEW t \in T, t <= now PROVE \E r \in M : r.ts = t
    <3> DEFINE r == [ts |-> t, used |-> t, reset |-> 99]
    <3>1. r.ts = t
      OBVIOUS
    <3>2. r \in M
      BY <2>1, <2>3, <3>1
    <3> QED
      BY <3>1, <3>2
  <2> QED
    BY <2>2, <2>3
<1>3. /\ run \in Seq(M)
      /\ \A p \in M : \E i \in 1 .. n : run[i] = p
      /\ \A i, j \in 1 .. n : i < j => run[i].ts < run[j].ts
  BY <1>1, ByTimeSorts
<1>4. /\ point.rate.from = run[a].ts /\ point.rate.to = run[n].ts
      /\ \A j \in a .. n - 1 : ~Breaks(run[j], run[j + 1], gap)
  BY <1>1 DEF Spans
<1>5. a \in 1 .. n
  BY <1>1
<1> HIDE DEF run
<1>6. n \in Nat /\ n \in 1 .. n /\ \A i \in 1 .. n : run[i] \in M
  BY <1>3, <1>5
<1>7. \A i \in 1 .. n : run[i].ts \in T /\ run[i].ts \in Nat /\ run[i].ts <= now
  BY <1>2, <1>6
<1> HIDE DEF n
<1>8. run[a].ts \in before /\ run[n].ts \in after
  <2>1. lo \in lo .. hi - 1 /\ hi - 1 \in lo .. hi - 1
    OBVIOUS
  <2>2. lo \in run[a].ts .. run[n].ts /\ hi - 1 \in run[a].ts .. run[n].ts
    BY <1>4, <2>1
  <2>3. /\ run[a].ts \in T /\ run[a].ts \in Nat /\ run[n].ts \in T /\ run[n].ts \in Nat
    BY <1>5, <1>6, <1>7
  <2>4. run[a].ts <= lo /\ run[n].ts >= hi - 1
    BY <2>2, <2>3
  <2>5. run[a].ts < lo /\ run[n].ts >= hi
    BY <2>3, <2>4
  <2> QED
    BY <2>3, <2>5
<1>9. before \subseteq Nat /\ after \subseteq Nat /\ IsFiniteSet(before)
  <2>1. before \in SUBSET T
    OBVIOUS
  <2>2. IsFiniteSet(before)
    BY <2>1, FS_Subset
  <2> QED
    BY <2>2
<1>10. b \in before /\ \A t \in before : b >= t
  <2> HIDE DEF before
  <2> QED
    BY <1>8, <1>9, MaxIsGreatest
<1>11. c \in after /\ \A t \in after : c <= t
  <2> HIDE DEF after
  <2> QED
    BY <1>8, <1>9, MinIsLeast
<1> HIDE DEF b, c
<1>12. /\ b \in T /\ c \in T /\ b \in Nat /\ c \in Nat /\ b < lo /\ c >= hi
       /\ run[a].ts <= b /\ c <= run[n].ts
       /\ \A t \in T : t <= b \/ t >= c
  <2>1. b \in T /\ c \in T /\ b \in Nat /\ c \in Nat /\ b < lo /\ c >= hi
    BY <1>9, <1>10, <1>11
  <2>2. run[a].ts <= b /\ c <= run[n].ts
    BY <1>8, <1>9, <1>10, <1>11, <2>1
  <2>3. ASSUME NEW t \in T PROVE t <= b \/ t >= c
    <3>1. t \in Nat /\ (t < lo \/ t >= hi)
      OBVIOUS
    <3>2. t \in before \/ t \in after
      BY <3>1
    <3> QED
      BY <1>10, <1>11, <2>1, <3>1, <3>2
  <2> QED
    BY <2>1, <2>2, <2>3
<1>13. PICK i \in 1 .. n : run[i].ts = b
  <2>1. b <= now
    <3>2. now \in Nat
      BY <1>1
    <3>3. run[n].ts \in Nat /\ run[n].ts <= now
      BY <1>6, <1>7
    <3>1. c <= now
      BY <1>12, <3>2, <3>3
    <3> QED
      BY <1>12, <3>1, <3>2
  <2> QED
    BY <1>2, <1>3, <1>12, <2>1, ZenonT(40)
<1>14. i >= a /\ i < n
  <2>1. i < a => run[i].ts < run[a].ts
    BY <1>3, <1>5 DEF n
  <2>2. i = n \/ i < n
    BY <1>6, <1>13
  <2>3. run[a].ts \in Nat /\ run[n].ts \in Nat
    BY <1>5, <1>6, <1>7
  <2>4. ~(i < a)
    BY <1>12, <1>13, <2>1, <2>3
  <2>5. i # n
    BY <1>12, <1>13, <2>3
  <2>6. i \in Nat /\ a \in Nat
    BY <1>5, <1>13
  <2> QED
    BY <2>2, <2>4, <2>5, <2>6
<1>15. i + 1 \in 1 .. n /\ i \in a .. n - 1
  BY <1>5, <1>6, <1>13, <1>14
<1>16. run[i + 1].ts >= c
  <2>1. run[i].ts < run[i + 1].ts
    <3>1. i < i + 1
      BY <1>13
    <3> QED
      BY <1>3, <1>13, <1>15, <3>1 DEF n
  <2>2. run[i + 1].ts \in T /\ run[i + 1].ts \in Nat
    BY <1>7, <1>15
  <2> QED
    BY <1>12, <1>13, <2>1, <2>2
<1>17. ~(run[i + 1].ts - run[i].ts > gap)
  BY <1>4, <1>15 DEF Breaks
<1>18. c - b <= gap
  <2>1. run[i + 1].ts \in Nat
    BY <1>7, <1>15
  <2> QED
    BY <1>12, <1>13, <1>16, <1>17, <2>1, SMTT(40)
<1>19. before # {} /\ after # {}
  BY <1>8
<1> QED
  BY <1>18, <1>19 DEF CoveredBy, b, c

\* The rules of a chart are on its axis: the upcoming reset because the axis
\* grew by what it lies ahead.
LEMMA RulesOnAxis ==
  ASSUME NEW trend \in [until : Nat, rollovers : SUBSET PageRollovers,
                        range : [duration : Nat, max_points : Nat \ {0}]],
         NEW view \in [reset : Nat \cup {None}, span : Nat, used : Nat \cup {None},
                       not_before : Nat \cup {None}, not_after : Nat \cup {None}],
         NEW live, NEW now
  PROVE  LET axis == TimeAxis(trend, view, live, now)
         IN  /\ axis.left \in Int /\ axis.secs \in Nat /\ axis.secs >= trend.range.duration
             /\ \A rule \in RuleSeries(trend, view, live, now) : OnAxis(axis, rule.at)
<1> DEFINE w     == EffectiveWindow(view, now)
           from  == trend.until - trend.range.duration
           axis  == TimeAxis(trend, view, live, now)
           rules == TrendRules(trend, view, now)
           leads == {r.at - trend.until : r \in {q \in rules : q.kind = "upcoming_reset"}}
           fits(lead) == lead > 0 /\ 5 * lead <= trend.range.duration
           lead  == FutureLead(rules, trend, live)
           D     == trend.range.duration
<1>1. trend.until \in Nat /\ D \in Nat /\ from \in Int
  OBVIOUS
<1>2. w # NoWindow => w.reset \in Nat
  BY DEF EffectiveWindow
<1> HIDE DEF w
<1>3. rules = Boundaries(w, trend.rollovers, from, trend.until)
  BY DEF TrendRules, w
<1>4. ASSUME NEW r \in rules
      PROVE  \/ r.kind # "upcoming_reset" /\ r.at >= from /\ r.at <= trend.until
             \/ r.kind = "upcoming_reset" /\ r.at = w.reset /\ w # NoWindow
  BY <1>3, <1>4 DEF Boundaries, PastBoundaries
<1>5. leads \subseteq {w.reset - trend.until} /\ \A x \in leads : w # NoWindow
  BY <1>4
<1>6. axis.left = from /\ axis.lead = lead /\ axis.secs = D + lead
  BY DEF TimeAxis
<1> HIDE DEF rules, axis
<1>7. lead = 0 \/ (lead \in leads /\ lead > 0)
  <2>1. CASE live /\ \E x \in leads : fits(x)
    <3>1. lead = CHOOSE x \in leads : fits(x)
      BY <2>1 DEF FutureLead
    <3> HIDE DEF lead, leads
    <3>2. lead \in leads /\ fits(lead)
      BY <2>1, <3>1, Zenon
    <3> QED
      BY <3>2
  <2>2. CASE ~(live /\ \E x \in leads : fits(x))
    BY <2>2 DEF FutureLead
  <2> QED
    BY <2>1, <2>2
<1> HIDE DEF lead, leads
<1>8. lead \in Nat /\ (lead > 0 => lead = w.reset - trend.until)
  <2>1. CASE lead = 0
    BY <2>1
  <2>2. CASE lead \in leads /\ lead > 0
    <3>1. lead = w.reset - trend.until /\ w.reset \in Nat
      BY <1>2, <1>5, <2>2
    <3> QED
      BY <1>1, <2>2, <3>1
  <2> QED
    BY <1>7, <2>1, <2>2
<1>9. ASSUME NEW r \in RuleSeries(trend, view, live, now) PROVE OnAxis(axis, r.at)
  <2>1. r \in rules /\ (r.kind = "upcoming_reset" => lead > 0)
    BY <1>6 DEF RuleSeries, rules, axis
  <2>2. CASE r.kind # "upcoming_reset" /\ r.at >= from /\ r.at <= trend.until
    <3>1. r.at \in Int
      <4>1. (r.at = w.start /\ w # NoWindow) \/ \E q \in trend.rollovers : r.at = q.observed_at
        BY <1>3, <2>1, <2>2 DEF Boundaries, PastBoundaries
      <4>2. w # NoWindow => w.start \in Int
        BY DEF w, EffectiveWindow, BracketMiddle, None
      <4> QED
        BY <4>1, <4>2 DEF PageRollovers
    <3> QED
      BY <1>1, <1>6, <1>8, <2>2, <3>1 DEF OnAxis
  <2>3. CASE r.kind = "upcoming_reset" /\ r.at = w.reset /\ w # NoWindow
    BY <1>1, <1>2, <1>6, <1>8, <2>1, <2>3 DEF OnAxis
  <2> QED
    BY <1>4, <2>1, <2>2, <2>3
<1>10. axis.left \in Int /\ axis.secs \in Nat /\ axis.secs >= trend.range.duration
  BY <1>1, <1>6, <1>8
<1> QED
  BY <1>9, <1>10 DEF axis

\* The questions about a chart: any readings, any gap, a chart of any width
\* that is no wider than its range is long.
ChartQuestions ==
  {q \in [about : {"chart"}, times : SUBSET Nat, gap : Nat, live : BOOLEAN,
          width : Nat \ {0}, now : Nat,
          trend : [until : Nat, rollovers : SUBSET PageRollovers,
                   range : [duration : Nat, max_points : Nat \ {0}]],
          view : [reset : Nat \cup {None}, span : Nat, used : Nat \cup {None},
                  not_before : Nat \cup {None}, not_after : Nat \cup {None}]] :
     IsFiniteSet(q.times) /\ q.trend.range.duration >= q.width}

\* The longer of two gaps is a number.
LEMMA GapIsNatural ==
  ASSUME NEW gap \in Nat, NEW range \in [duration : Nat, max_points : Nat \ {0}]
  PROVE  Max({gap, ChartGap(range, 1)}) \in Int
<1> DEFINE x == GapTolerance(1)
           y == 2 * (range.duration \div range.max_points)
<1>1. x \in Int
  <2>1. GAP_MIN \in Int /\ 4 * 1 \in Int
    BY MetricsAssumption
  <2> QED
    BY <2>1, MinMaxOfTwo DEF GapTolerance
<1>2. y \in Int
  <2>1. range.duration \in Nat /\ range.max_points \in Nat /\ range.max_points > 0
    OBVIOUS
  <2>2. range.duration \div range.max_points \in Nat
    BY <2>1, QuotientOf
  <2> QED
    BY <2>2
<1> HIDE DEF x, y
<1>3. Max({x, y}) \in Int
  BY <1>1, <1>2, MinMaxOfTwo
<1>4. ChartGap(range, 1) \in Int
  BY <1>3 DEF ChartGap, x, y
<1> QED
  BY <1>4, MinMaxOfTwo

\* A press picks what is drawn under it, on charts of any readings and any
\* width: a cell that shows a reading picks one of its own, what a rate is
\* measured over has no hole, and the rules are on the axis (instant_at,
\* nearest_reading, coverage_line, time_axis, rule_series).
THEOREM ChartsCorrect ==
  ASSUME asked \in ChartQuestions PROVE PressPicksWhatIsDrawn
<1> DEFINE axis  == TimeAxis(asked.trend, asked.view, asked.live, asked.now)
           W     == asked.width
           round == IF axis.secs % W = 0 THEN 0 ELSE 1
           gap   == Max({asked.gap, ChartGap(asked.trend.range, 1)})
           lo(c) == CellStart(axis, W, c)
           hi(c) == CellStart(axis, W, c + 1)
           covers(c) == Coverage(axis, W, asked.times, gap, asked.now, c)
<1>1. /\ asked.about = "chart" /\ IsFiniteSet(asked.times) /\ asked.times \subseteq Nat
      /\ W \in Nat /\ W > 0 /\ asked.gap \in Nat
      /\ asked.trend \in [until : Nat, rollovers : SUBSET PageRollovers,
                          range : [duration : Nat, max_points : Nat \ {0}]]
      /\ asked.view \in [reset : Nat \cup {None}, span : Nat, used : Nat \cup {None},
                         not_before : Nat \cup {None}, not_after : Nat \cup {None}]
      /\ asked.trend.range.duration >= W
  BY DEF ChartQuestions
<1>2. /\ axis.left \in Int /\ axis.secs \in Nat /\ axis.secs >= asked.trend.range.duration
      /\ \A rule \in RuleSeries(asked.trend, asked.view, asked.live, asked.now) :
           OnAxis(axis, rule.at)
  BY <1>1, RulesOnAxis
<1>3. gap \in Int
  <2>1. asked.trend.range \in [duration : Nat, max_points : Nat \ {0}]
    BY <1>1
  <2> QED
    BY <1>1, <2>1, GapIsNatural
<1>4. axis.secs >= W
  BY <1>1, <1>2
<1> HIDE DEF axis, gap
<1>5. ASSUME NEW c \in 0 .. W - 1
      PROVE  /\ covers(c) = "reading" =>
                  NearestReading(asked.times, InstantAt(axis, W, c))
                    \in lo(c) - round .. hi(c) - 1 + round
             /\ covers(c) = "hole" =>
                  \A p \in RateSeries(99, NoWindow, ChartReadings(asked), gap) :
                    p.rate # NoRate =>
                      ~((lo(c) - 0 .. hi(c) - 1 + 0) \subseteq p.rate.from .. p.rate.to)
  <2>1. c \in Nat
    BY <1>1
  <2>2. lo(c) \in Int /\ hi(c) \in Int /\ lo(c) < hi(c)
    BY <1>1, <1>2, <1>4, <2>1, CellIs
  <2>3. covers(c) = IF lo(c) > asked.now THEN "future"
                    ELSE IF \E t \in asked.times : t >= lo(c) /\ t < hi(c) THEN "reading"
                    ELSE IF CoveredBy(asked.times, lo(c), hi(c), gap, asked.now)
                    THEN "covered" ELSE "hole"
    BY DEF Coverage
  <2>4. ASSUME covers(c) = "reading"
        PROVE  NearestReading(asked.times, InstantAt(axis, W, c))
                 \in lo(c) - round .. hi(c) - 1 + round
    <3>1. PICK t \in asked.times : t >= lo(c) /\ t < hi(c)
      BY <2>3, <2>4
    <3>2. asked.times \subseteq Int
      BY <1>1
    <3> QED
      BY <1>1, <1>2, <2>1, <3>1, <3>2, PressPicksReading
  <2>5. ASSUME covers(c) = "hole",
               NEW p \in RateSeries(99, NoWindow, ChartReadings(asked), gap),
               p.rate # NoRate, lo(c) - 0 .. hi(c) - 1 + 0 \subseteq p.rate.from .. p.rate.to
        PROVE  FALSE
    <3>1. /\ \A t \in asked.times : ~(t >= lo(c) /\ t < hi(c))
          /\ ~CoveredBy(asked.times, lo(c), hi(c), gap, asked.now)
      BY <2>3, <2>5
    <3>2. lo(c) - 0 .. hi(c) - 1 + 0 = lo(c) .. hi(c) - 1
      BY <2>2
    <3>3. lo(c) .. hi(c) - 1 \subseteq p.rate.from .. p.rate.to
      BY <2>5, <3>2
    <3> HIDE DEF lo, hi
    <3> QED
      BY <1>1, <1>3, <2>2, <2>5, <3>1, <3>3, NoHoleWithinRate
  <2> QED
    BY <2>4, <2>5
<1> QED
  BY <1>1, <1>2, <1>5, Zenon DEF PressPicksWhatIsDrawn, axis, gap

-----------------------------------------------------------------------------
(* Loops: a recursive function over the steps of a loop exists, and what    *)
(* holds at its start and is kept by each step holds throughout.           *)

LEMMA Throughout ==
  ASSUME NEW N \in Nat, NEW S, 0 \in S, \A n \in 1 .. N : n - 1 \in S => n \in S
  PROVE  \A n \in 0 .. N : n \in S
<1> DEFINE Bad == {n \in 0 .. N : n \notin S}
<1>1. ASSUME Bad # {} PROVE FALSE
  <2> DEFINE m == Min(Bad)
  <2>1. Bad \subseteq Nat
    OBVIOUS
  <2>2. m \in Bad /\ \A y \in Bad : m <= y
    <3> HIDE DEF Bad
    <3> QED
      BY <1>1, <2>1, MinIsLeast
  <2> HIDE DEF m
  <2>3. m \in 0 .. N /\ m \notin S /\ m # 0
    BY <2>2
  <2>4. m \in 1 .. N /\ m - 1 \in 0 .. N /\ m - 1 \notin Bad
    BY <2>2, <2>3
  <2>5. m - 1 \in S
    BY <2>4
  <2> QED
    BY <2>3, <2>4, <2>5
<1> QED
  BY <1>1

IsLoop(f, W, N, base, step) ==
  /\ f \in [0 .. N -> W] /\ f[0] = base
  /\ \A n \in 1 .. N : f[n] = step[n][f[n - 1]]

LEMMA LoopExists ==
  ASSUME NEW W, NEW N \in Nat, NEW base \in W, NEW step \in [1 .. N -> [W -> W]]
  PROVE  \E f : IsLoop(f, W, N, base, step)
<1> DEFINE P(n) == \E f \in [0 .. n -> W] :
                     f[0] = base /\ \A k \in 1 .. n : f[k] = step[k][f[k - 1]]
           S == {n \in 0 .. N : P(n)}
<1>1. 0 \in S
  <2> DEFINE f == [k \in 0 .. 0 |-> base]
  <2>1. f \in [0 .. 0 -> W] /\ f[0] = base
    OBVIOUS
  <2>2. \A k \in 1 .. 0 : FALSE
    OBVIOUS
  <2> HIDE DEF f
  <2>3. P(0)
    BY <2>1, <2>2
  <2> QED
    BY <2>3
<1>2. ASSUME NEW n \in 1 .. N, n - 1 \in S PROVE n \in S
  <2>1. PICK f \in [0 .. n - 1 -> W] :
          f[0] = base /\ \A k \in 1 .. n - 1 : f[k] = step[k][f[k - 1]]
    BY <1>2
  <2> DEFINE x == step[n][f[n - 1]]
             g == [k \in 0 .. n |-> IF k = n THEN x ELSE f[k]]
  <2>2. x \in W
    <3>1. n - 1 \in 0 .. n - 1
      OBVIOUS
    <3>2. f[n - 1] \in W
      BY <3>1
    <3> QED
      BY <3>2
  <2> HIDE DEF x
  <2>3. ASSUME NEW k \in 0 .. n PROVE g[k] \in W /\ (k # n => g[k] = f[k])
    BY <2>2
  <2>4. g \in [0 .. n -> W] /\ g[0] = base /\ g[n] = x
    BY <2>1, <2>3
  <2>5. ASSUME NEW k \in 1 .. n PROVE g[k] = step[k][g[k - 1]]
    <3>1. k - 1 \in 0 .. n /\ k - 1 # n /\ k \in 0 .. n
      OBVIOUS
    <3>2. g[k - 1] = f[k - 1]
      BY <2>3, <3>1
    <3>3. CASE k = n
      <4> HIDE DEF g
      <4> QED
        BY <2>4, <3>2, <3>3 DEF x
    <3>4. CASE k # n
      <4>1. k \in 1 .. n - 1 /\ g[k] = f[k]
        BY <2>3, <3>1, <3>4
      <4> HIDE DEF g
      <4> QED
        BY <2>1, <3>2, <4>1
    <3> QED
      BY <3>3, <3>4
  <2> HIDE DEF g
  <2>6. P(n)
    BY <2>4, <2>5
  <2> HIDE DEF P
  <2> QED
    BY <2>6
<1> HIDE DEF P
<1>3. N \in S
  <2> HIDE DEF S
  <2>1. N \in 0 .. N
    OBVIOUS
  <2> QED
    BY <1>1, <1>2, <2>1, Throughout
<1>4. P(N)
  BY <1>3
<1> QED
  BY <1>4 DEF P, IsLoop

-----------------------------------------------------------------------------
(* One row.                                                                *)

\* Rounding to a second moves a bound by less than one.
LEMMA RoundedBound ==
  ASSUME NEW a \in Nat, NEW b \in Nat, b > 0, NEW l \in Int
  PROVE  LET q == RoundedDiv(a, b)
         IN  /\ q \in Nat
             /\ q < l => a < l * b
             /\ a <= (l - 1) * b => q < l
<1> DEFINE x == 2 * a + b
           s == 2 * b
           q == x \div s
           m == l * b
<1>1. x \in Nat /\ s \in Nat /\ s > 0
  OBVIOUS
<1>2. q \in Nat /\ q * s <= x /\ x < q * s + s
  BY <1>1, Quotient
<1>3. RoundedDiv(a, b) = q
  BY DEF RoundedDiv
<1>4. m \in Int /\ l * s = 2 * m /\ (l - 1) * b = m - b
  OBVIOUS
<1> HIDE DEF q, m
<1>5. ASSUME q < l PROVE a < m
  <2>1. (q + 1) * s <= l * s /\ (q + 1) * s \in Int
    BY <1>1, <1>2, <1>5, ProductRises
  <2>2. (q + 1) * s = q * s + s /\ q * s \in Int
    BY <1>1, <1>2
  <2> QED
    BY <1>2, <1>4, <2>1, <2>2
<1>6. ASSUME a <= m - b, l <= q PROVE FALSE
  <2>1. l * s <= q * s /\ q * s \in Int
    BY <1>1, <1>2, <1>6, ProductRises
  <2> QED
    BY <1>2, <1>4, <1>6, <2>1
<1>7. a <= (l - 1) * b => q < l
  BY <1>2, <1>4, <1>6
<1> QED
  BY <1>2, <1>3, <1>5, <1>7 DEF m

\* At a faster pace less time is left.
LEMMA RoundedFalls ==
  ASSUME NEW a \in Nat, NEW b \in Nat, b > 0, NEW c \in Nat, b <= c
  PROVE  RoundedDiv(a, c) <= RoundedDiv(a, b)
<1> DEFINE p == RoundedDiv(a, b)
           q == RoundedDiv(a, c)
<1>1. /\ p \in Nat /\ p * (2 * b) <= 2 * a + b /\ 2 * a + b < p * (2 * b) + 2 * b
      /\ q \in Nat /\ q * (2 * c) <= 2 * a + c
  <2>1. /\ 2 * a + b \in Nat /\ 2 * b \in Nat /\ 2 * b > 0
        /\ 2 * a + c \in Nat /\ 2 * c \in Nat /\ 2 * c > 0
    OBVIOUS
  <2> QED
    BY <2>1, Quotient DEF RoundedDiv
<1> HIDE DEF p, q
<1>2. ASSUME p + 1 <= q PROVE FALSE
  <2> DEFINE k == 2 * q - 1
             y == q * c
             z == p * b
             v == q * b
  <2>1. k \in Nat
    BY <1>1, <1>2
  <2>2. y \in Int /\ z \in Int /\ v \in Int
    BY <1>1
  <2>3. /\ q * (2 * c) = 2 * y /\ p * (2 * b) = 2 * z
        /\ k * c = 2 * y - c /\ k * b = 2 * v - b /\ (p + 1) * b = z + b
    BY <1>1
  <2>4. (p + 1) * b <= q * b
    BY <1>1, <1>2, ProductRises
  <2>5. b * k <= c * k
    BY <2>1, ProductRises
  <2>6. b * k = k * b /\ c * k = k * c
    BY <2>1
  <2> HIDE DEF k, y, z, v
  <2> QED
    BY <1>1, <2>2, <2>3, <2>4, <2>5, <2>6 DEF v
<1> QED
  BY <1>1, <1>2 DEF p, q

\* A window that has opened and says how much of it is used.
OpenWindows(now) ==
  {w \in Windows : w.start < w.reset /\ w.start <= now /\ w.used \in Nat}

Paces == [n : Nat, d : Nat]

LEMMA RunwayIs ==
  ASSUME NEW now \in Nat, NEW w \in OpenWindows(now), NEW pace \in Paces
  PROVE  /\ SpanOf(w) \in Nat /\ SpanOf(w) > 0
         /\ w.used >= FULL => RunwayAt(w, pace) = 0
         /\ w.used < FULL /\ pace.n = 0 => RunwayAt(w, pace) = None
         /\ w.used < FULL /\ pace.n > 0 =>
              /\ RunwayAt(w, pace) = RoundedDiv((FULL - w.used) * pace.d, pace.n)
              /\ (FULL - w.used) * pace.d \in Nat
              /\ RunwayAt(w, pace) \in Nat
<1>1. /\ w.used \in Nat /\ w.start \in Int /\ w.reset \in Nat /\ w.start < w.reset
      /\ pace.n \in Nat /\ pace.d \in Nat /\ w.used # None
  BY DEF OpenWindows, Windows, Paces, None
<1>2. SpanOf(w) \in Nat /\ SpanOf(w) > 0
  BY <1>1 DEF SpanOf
<1>3. w.used >= FULL => RunwayAt(w, pace) = 0
  BY <1>1 DEF RunwayAt
<1>4. w.used < FULL /\ pace.n = 0 => RunwayAt(w, pace) = None
  BY <1>1 DEF RunwayAt, FULL
<1>5. ASSUME w.used < FULL, pace.n > 0
      PROVE  /\ RunwayAt(w, pace) = RoundedDiv((FULL - w.used) * pace.d, pace.n)
             /\ (FULL - w.used) * pace.d \in Nat
             /\ RunwayAt(w, pace) \in Nat
  <2>1. ~(w.used >= FULL) /\ ~(pace.n <= 0) /\ ~(SpanOf(w) <= 0) /\ w.used # None
    BY <1>1, <1>2, <1>5 DEF FULL
  <2>2. RunwayAt(w, pace) = RoundedDiv((FULL - w.used) * pace.d, pace.n)
    BY <2>1 DEF RunwayAt
  <2>3. FULL - w.used \in Nat
    BY <1>1, <1>5 DEF FULL
  <2>4. (FULL - w.used) * pace.d \in Nat
    <3> DEFINE x == FULL - w.used
    <3> HIDE DEF x
    <3> QED
      BY <1>1, <2>3 DEF x
  <2>5. \A l \in Int : RoundedDiv((FULL - w.used) * pace.d, pace.n) \in Nat
    BY <1>1, <1>5, <2>4, RoundedBound
  <2> QED
    BY <2>2, <2>4, <2>5
<1> QED
  BY <1>2, <1>3, <1>4, <1>5

\* A runway that ends before the reset, and a pace that cannot be afforded.
LEMMA RunwayAgainstAfford ==
  ASSUME NEW now \in Nat, NEW w \in OpenWindows(now), w.used < FULL, NEW pace \in Paces
  PROVE  LET runway == RunwayAt(w, pace)
             binds  == runway # None /\ now + runway < w.reset
             left   == w.reset - now
         IN  /\ binds => Less(AffordablePace(w, now), pace)
             /\ pace.n > 0 /\ (FULL - w.used) * pace.d <= (left - 1) * pace.n => binds
<1> DEFINE a == (FULL - w.used) * pace.d
           n == pace.n
           left == w.reset - now
           runway == RunwayAt(w, pace)
<1>1. /\ w.used \in Nat /\ w.start \in Int /\ w.reset \in Nat /\ w.start < w.reset
      /\ w.start <= now /\ w.used # None /\ n \in Nat /\ pace.d \in Nat
  BY DEF OpenWindows, Windows, Paces, None
<1>2. left \in Int
  BY <1>1
<1>3. CASE n = 0
  BY <1>1, <1>3, RunwayIs
<1>4. CASE n > 0
  <2>1. runway = RoundedDiv(a, n) /\ a \in Nat /\ runway \in Nat /\ runway # None
    BY <1>4, RunwayIs DEF None
  <2>2. (runway < left => a < left * n) /\ (a <= (left - 1) * n => runway < left)
    BY <1>1, <1>2, <1>4, <2>1, RoundedBound
  <2>3. runway < left <=> now + runway < w.reset
    <3> HIDE DEF runway
    <3> QED
      BY <1>1, <2>1
  <2>4. ASSUME runway < left PROVE Less(AffordablePace(w, now), pace)
    <3>1. left > 0
      <4> HIDE DEF runway, left
      <4> QED
        BY <1>2, <2>1, <2>4
    <3> DEFINE t == now - w.start
               span == SpanOf(w)
    <3>2. t \in Nat /\ span \in Nat /\ t < span /\ span - t = left /\ span > 0
      BY <1>1, <3>1 DEF SpanOf
    <3>3. Elapsed(w, now) = t
      <4>1. Max({t, 0}) = t
        <5>1. t \in Int /\ t >= 0
          BY <3>2
        <5> HIDE DEF t
        <5> QED
          BY <5>1, MaxWithZero
      <4> HIDE DEF t, span
      <4>3. Min({t, span}) = t
        BY <3>2, MinMaxOfTwo
      <4> QED
        BY <4>1, <4>3 DEF Elapsed, Clamp, t, span
    <3>4. AffordablePace(w, now) = [n |-> FULL - w.used, d |-> left]
      <4> HIDE DEF left, t
      <4> QED
        BY <1>1, <3>2, <3>3 DEF AffordablePace
    <3>5. a < left * n
      BY <2>2, <2>4
    <3>6. left * n = n * left
      BY <1>1, <1>2
    <3> HIDE DEF left
    <3> QED
      BY <3>4, <3>5, <3>6 DEF Less
  <2> QED
    BY <2>1, <2>2, <2>3, <2>4
<1> QED
  BY <1>1, <1>3, <1>4

\* The recent rate as a fit leaves it: the ends of its interval around its
\* centre, over a time that has passed.
RateEstimates ==
  {r \in [low : Nat, mid : Nat, high : Nat, d : Nat \ {0}, from : Int, to : Int,
          readings : Nat, quantum : Nat] : r.low <= r.mid /\ r.mid <= r.high}
    \cup {NoRate}

Brackets == {b \in Nat \X Nat : b[1] <= b[2]} \cup {<<None, None>>}

\* The questions about a row: any window that has opened, wherever in its
\* bracket it restarted, any usage, and any rate.
WarningQuestions ==
  {q \in [about : {"warnings"}, now : Nat,
          view : [reset : Nat \cup {None}, span : Nat \ {0}, used : Nat \cup {None},
                  not_before : Nat \cup {None}, not_after : Nat \cup {None}],
          rate : RateEstimates] :
     /\ <<q.view.not_before, q.view.not_after>> \in Brackets
     /\ q.view.reset - q.view.span <= q.now}

\* The bracket's middle lies in it, and no end is further than half of it away.
LEMMA MiddleOfBracket ==
  ASSUME NEW q \in WarningQuestions, q.view.not_after # None
  PROVE  LET x == q.view.not_after - q.view.not_before
             m == BracketMiddle(q.view)
         IN  /\ q.view.not_before \in Nat /\ q.view.not_after \in Nat
             /\ x \in Nat /\ m \in Nat /\ m <= q.view.not_after
             /\ \A began \in q.view.not_before .. q.view.not_after :
                  2 * (m - began) <= x + 2 /\ 2 * (began - m) <= x + 2
<1> DEFINE a == q.view.not_before
           b == q.view.not_after
           x == b - a
           h == x \div 2
<1>1. a \in Nat /\ b \in Nat /\ a <= b
  BY DEF WarningQuestions, Brackets, None
<1>2. h \in Nat /\ 2 * h <= x /\ x < 2 * h + 2
  <2>1. x \in Nat
    BY <1>1
  <2> HIDE DEF x
  <2> QED
    BY <2>1
<1>3. BracketMiddle(q.view) = a + h
  BY DEF BracketMiddle
<1> HIDE DEF h, a, b
<1> QED
  BY <1>1, <1>2, <1>3 DEF a, b

LEMMA WindowInProgress ==
  ASSUME NEW q \in WarningQuestions, EffectiveWindow(q.view, q.now).used # None
  PROVE  LET w == EffectiveWindow(q.view, q.now)
         IN  /\ w \in OpenWindows(q.now)
             /\ w.uncertainty > 0 /\ ~StartIsUncertain(w) =>
                  \A began \in q.view.not_before .. q.view.not_after :
                    40 * (w.start - began) \in -SpanOf(w) - 40 .. SpanOf(w) + 40
<1> DEFINE view == q.view
           now  == q.now
           w    == EffectiveWindow(view, now)
           nominal == view.reset - view.span
           observed == /\ view.not_after # None
                       /\ BracketMiddle(view) > nominal
                       /\ BracketMiddle(view) < view.reset
                       /\ view.not_after <= now
<1>1. /\ view.span \in Nat /\ view.span > 0 /\ view.used \in Nat \cup {None} /\ now \in Nat
      /\ view.reset \in Nat \cup {None} /\ nominal <= now
  BY DEF WarningQuestions
<1>2. view.reset # None
  BY DEF EffectiveWindow, NoWindow
<1>3. view.reset \in Nat /\ nominal \in Int /\ nominal < view.reset
  BY <1>1, <1>2 DEF None
<1>4. w = [start       |-> IF observed THEN BracketMiddle(view) ELSE nominal,
           reset       |-> view.reset,
           uncertainty |-> IF observed THEN view.not_after - view.not_before ELSE 0,
           used        |-> view.used]
  BY <1>2 DEF EffectiveWindow
<1> HIDE DEF w
<1>5. view.used \in Nat
  BY <1>1, <1>4 DEF w
<1>6. CASE ~observed
  <2>1. w = [start |-> nominal, reset |-> view.reset, uncertainty |-> 0, used |-> view.used]
    BY <1>4, <1>6
  <2> HIDE DEF nominal, observed, view
  <2>2. w \in OpenWindows(now) /\ w.uncertainty = 0
    BY <1>1, <1>3, <1>5, <2>1 DEF OpenWindows, Windows
  <2> QED
    BY <2>2 DEF w, view
<1>7. CASE observed
  <2> DEFINE m == BracketMiddle(view)
             x == view.not_after - view.not_before
  <2>1. w = [start |-> m, reset |-> view.reset, uncertainty |-> x, used |-> view.used]
    BY <1>4, <1>7
  <2>2. /\ m \in Nat /\ x \in Nat /\ m <= now /\ m < view.reset
        /\ view.not_before \in Nat /\ view.not_after \in Nat
        /\ \A began \in view.not_before .. view.not_after :
             2 * (m - began) <= x + 2 /\ 2 * (began - m) <= x + 2
    BY <1>1, <1>7, MiddleOfBracket
  <2> HIDE DEF m, x, view, nominal, observed
  <2>3. w \in OpenWindows(now)
    BY <1>1, <1>3, <1>5, <2>1, <2>2 DEF OpenWindows, Windows
  <2>4. ASSUME ~StartIsUncertain(w), NEW began \in view.not_before .. view.not_after
        PROVE  40 * (w.start - began) \in -SpanOf(w) - 40 .. SpanOf(w) + 40
    <3>1. began \in Int /\ w.start = m /\ SpanOf(w) \in Int /\ SpanOf(w) > 0
      BY <1>3, <2>1, <2>2 DEF SpanOf
    <3>2. 20 * x <= SpanOf(w)
      BY <2>1, <2>2, <2>4, <3>1 DEF StartIsUncertain
    <3> QED
      BY <2>2, <3>1, <3>2
  <2> QED
    BY <2>3, <2>4 DEF w, view
<1> QED
  BY <1>6, <1>7

Names   == {"pace", "now", "cap", "at_cap", "afford", "at_reset"}
Sources == {"rate", "average", "window"}
Fields  == [name : Names, mark : BOOLEAN, warns : BOOLEAN, from : Sources]

LEMMA FieldIs ==
  ASSUME NEW name \in Names, NEW mark \in BOOLEAN, NEW warns \in BOOLEAN,
         NEW from \in Sources
  PROVE  /\ Field(name, mark, warns, from) \in Fields
         /\ Field(name, FALSE, warns, from) \in Fields
         /\ Field(name, mark, FALSE, from) \in Fields
         /\ Field(name, FALSE, FALSE, from) \in Fields
BY Zenon DEF Field, Fields

LEMMA OnlyIs ==
  ASSUME NEW condition \in BOOLEAN, NEW f \in Fields
  PROVE  /\ Only(condition, f) \in Seq(Fields)
         /\ ToSet(Only(condition, f)) = {g \in {f} : condition}
<1>1. CASE condition
  <2>1. Only(condition, f) = <<f>>
    BY <1>1 DEF Only
  <2>2. ToSet(<<f>>) = {f} /\ <<f>> \in Seq(Fields)
    BY DEF ToSet
  <2>3. {g \in {f} : condition} = {f}
    BY <1>1, Zenon
  <2> QED
    BY <2>1, <2>2, <2>3, Zenon
<1>2. CASE ~condition
  <2>1. Only(condition, f) = <<>>
    BY <1>2 DEF Only
  <2>2. ToSet(<<>>) = {}
    BY DEF ToSet
  <2> QED
    BY <1>2, <2>1, <2>2
<1> QED
  BY <1>1, <1>2

LEMMA OneAfterAnother ==
  ASSUME NEW s \in Seq(Fields), NEW t \in Seq(Fields)
  PROVE  s \o t \in Seq(Fields) /\ ToSet(s \o t) = ToSet(s) \cup ToSet(t)
<1>1. s \o t \in Seq(Fields) /\ Len(s \o t) = Len(s) + Len(t)
  OBVIOUS
<1>2. ASSUME NEW f PROVE f \in ToSet(s \o t) <=> f \in ToSet(s) \cup ToSet(t)
  <2>1. ASSUME NEW i \in 1 .. Len(s) PROVE s[i] \in ToSet(s \o t)
    <3>1. i \in 1 .. Len(s \o t) /\ (s \o t)[i] = s[i]
      BY <1>1, <2>1
    <3> QED
      BY <3>1 DEF ToSet
  <2>2. ASSUME NEW i \in 1 .. Len(t) PROVE t[i] \in ToSet(s \o t)
    <3>1. i + Len(s) \in 1 .. Len(s \o t) /\ (s \o t)[i + Len(s)] = t[i]
      BY <1>1, <2>2
    <3> QED
      BY <3>1 DEF ToSet
  <2>3. ASSUME NEW i \in 1 .. Len(s \o t)
        PROVE  (s \o t)[i] \in ToSet(s) \cup ToSet(t)
    <3>1. CASE i <= Len(s)
      BY <1>1, <2>3, <3>1 DEF ToSet
    <3>2. CASE i > Len(s)
      <4>1. i - Len(s) \in 1 .. Len(t) /\ (s \o t)[i] = t[i - Len(s)]
        BY <1>1, <2>3, <3>2
      <4> QED
        BY <4>1 DEF ToSet
    <3> QED
      BY <3>1, <3>2
  <2>4. /\ ToSet(s) = {s[i] : i \in 1 .. Len(s)} /\ ToSet(t) = {t[i] : i \in 1 .. Len(t)}
        /\ ToSet(s \o t) = {(s \o t)[i] : i \in 1 .. Len(s \o t)}
    BY <1>1 DEF ToSet
  <2>5. f \in ToSet(s \o t) => f \in ToSet(s) \cup ToSet(t)
    BY <2>3, <2>4
  <2>6. f \in ToSet(s) \cup ToSet(t) => f \in ToSet(s \o t)
    BY <2>1, <2>2, <2>4
  <2> QED
    BY <2>5, <2>6
<1> QED
  BY <1>1, <1>2

\* The caps of a row: from the rate if there is one, from the average if not,
\* and never two.
CapSection(w, rate, now) ==
  IF rate # NoRate THEN CapFromRate(w, Project(w, rate, now), now)
  ELSE CapFromAverage(w, StartIsUncertain(w), now)

CapsShown(w, rate, now) ==
  {f \in ToSet(DerivedFields(w, rate, now)) : f.name \in {"cap", "at_cap"}}

LEMMA Projected ==
  ASSUME NEW now \in Nat, NEW w \in OpenWindows(now), NEW rate
  PROVE  LET p == Project(w, rate, now)
         IN  /\ w # NoWindow /\ p # NoProjection
             /\ p.at_reset.low = AtReset(w, Low(rate), now)
             /\ p.at_reset.mid = AtReset(w, Mid(rate), now)
             /\ p.at_reset.high = AtReset(w, High(rate), now)
             /\ p.runway.low = RunwayAt(w, High(rate))
             /\ p.runway.mid = RunwayAt(w, Mid(rate))
             /\ p.runway.high = RunwayAt(w, Low(rate))
<1> DEFINE p == Project(w, rate, now)
<1>1. w.used # None /\ ~(SpanOf(w) <= 0)
  BY DEF OpenWindows, Windows, SpanOf, None
<1>2. p = [at_reset |-> [low  |-> AtReset(w, Low(rate), now),
                 mid  |-> AtReset(w, Mid(rate), now),
                 high |-> AtReset(w, High(rate), now)],
           runway   |-> [low  |-> RunwayAt(w, High(rate)),
                 mid  |-> RunwayAt(w, Mid(rate)),
                 high |-> RunwayAt(w, Low(rate))]]
  BY <1>1 DEF Project
<1>3. w # NoWindow
  BY <1>1 DEF NoWindow
<1>4. p # NoProjection
  <2>1. \A a, b : [at_reset |-> a, runway |-> b] # <<>>
    OBVIOUS
  <2> QED
    BY <1>2, <2>1, Zenon DEF NoProjection
<1> QED
  BY <1>2, <1>3, <1>4

LEMMA CapOfRate ==
  ASSUME NEW now \in Nat, NEW w \in OpenWindows(now), NEW rate \in RateEstimates
  PROVE  LET p    == Project(w, rate, now)
             told == CapFromRate(w, p, now)
         IN  /\ told \in Seq(Fields)
             /\ \A f \in ToSet(told) :
                  /\ f.name \in {"cap", "at_cap"} /\ f.from = "rate"
                  /\ f.warns <=> Binding(p, w, now)
             /\ \A f, g \in ToSet(told) : f = g
             /\ p.runway.low # None => \E f \in ToSet(told) : TRUE
<1> DEFINE p == Project(w, rate, now)
           binds == Binding(p, w, now)
           flat == p.runway.mid = None /\ p.runway.low # None
           met  == p.runway.mid # None
           f1 == Field("cap", FALSE, binds, "rate")
           name == IF p.runway.mid <= 0 THEN "at_cap" ELSE "cap"
           f2 == Field(name, FALSE, binds, "rate")
           told == CapFromRate(w, p, now)
<1>1. told = Only(flat, f1) \o Only(met, f2)
  BY DEF CapFromRate
<1>2. binds \in BOOLEAN /\ flat \in BOOLEAN /\ met \in BOOLEAN
  BY DEF Binding
<1>3. name \in {"cap", "at_cap"}
  OBVIOUS
<1> HIDE DEF told, binds, flat, met, name, p
<1>4. /\ f1 \in Fields /\ f2 \in Fields
      /\ f1.name = "cap" /\ f2.name = name /\ f1.from = "rate" /\ f2.from = "rate"
  <2>1. /\ name \in Names /\ "cap" \in Names /\ "rate" \in Sources
        /\ FALSE \in BOOLEAN
    BY <1>3 DEF Names, Sources
  <2>2. f1 \in Fields /\ f2 \in Fields
    BY <1>2, <2>1, FieldIs
  <2>3. f1.name = "cap" /\ f2.name = name /\ f1.from = "rate" /\ f2.from = "rate"
    BY DEF Field
  <2> QED
    BY <2>2, <2>3
<1>5. (f1.warns <=> binds) /\ (f2.warns <=> binds)
  BY Zenon DEF Field
<1> HIDE DEF f1, f2
<1>6. /\ told \in Seq(Fields)
      /\ ToSet(told) = {g \in {f1} : flat} \cup {g \in {f2} : met}
  <2>1. /\ Only(flat, f1) \in Seq(Fields) /\ Only(met, f2) \in Seq(Fields)
        /\ ToSet(Only(flat, f1)) = {g \in {f1} : flat}
        /\ ToSet(Only(met, f2)) = {g \in {f2} : met}
    BY <1>2, <1>4, OnlyIs, Zenon
  <2> QED
    BY <1>1, <2>1, OneAfterAnother, ZenonT(40)
<1>7. \A f \in ToSet(told) : f \in {f1, f2}
  BY <1>6
<1>8. \A f \in ToSet(told) : f.name \in {"cap", "at_cap"} /\ f.from = "rate"
  BY <1>3, <1>4, <1>7
<1>9. \A f \in ToSet(told) : f.warns <=> binds
  BY <1>5, <1>7, Zenon
<1>10. ~(flat /\ met)
  BY DEF flat, met
<1>11. \A f, g \in ToSet(told) : f = g
  BY <1>6, <1>10
<1>12. p.runway.low # None => \E f \in ToSet(told) : TRUE
  BY <1>6 DEF flat, met
<1> QED
  BY <1>6, <1>8, <1>9, <1>11, <1>12, Zenon DEF told, p, binds

LEMMA CapOfAverage ==
  ASSUME NEW now \in Nat, NEW w \in OpenWindows(now)
  PROVE  LET told == CapFromAverage(w, StartIsUncertain(w), now)
         IN  /\ told \in Seq(Fields)
             /\ \A f \in ToSet(told) :
                  /\ f.name \in {"cap", "at_cap"} /\ f.from = "average"
                  /\ f.warns <=> EtaToCap(w, now) # None
             /\ \A f, g \in ToSet(told) : f = g
<1> DEFINE runway == Runway(w, now)
           met  == runway # None
           name == IF runway <= 0 THEN "at_cap" ELSE "cap"
           mark == StartIsUncertain(w) /\ runway > 0
           eta  == EtaToCap(w, now) # None
           f1   == Field(name, mark, eta, "average")
           told == CapFromAverage(w, StartIsUncertain(w), now)
<1>1. told = Only(met, f1)
  BY DEF CapFromAverage
<1>2. met \in BOOLEAN /\ mark \in BOOLEAN /\ eta \in BOOLEAN
  OBVIOUS
<1>3. name \in {"cap", "at_cap"}
  OBVIOUS
<1> HIDE DEF told, met, mark, eta, name, runway
<1>4. f1 \in Fields /\ f1.name = name /\ f1.from = "average"
  <2>1. name \in Names /\ "average" \in Sources
    BY <1>3 DEF Names, Sources
  <2>2. f1 \in Fields
    BY <1>2, <2>1, FieldIs
  <2>3. f1.name = name /\ f1.from = "average"
    BY DEF Field
  <2> QED
    BY <2>2, <2>3
<1>5. f1.warns <=> eta
  BY Zenon DEF Field
<1> HIDE DEF f1
<1>6. told \in Seq(Fields) /\ ToSet(told) = {g \in {f1} : met}
  BY <1>1, <1>2, <1>4, OnlyIs
<1>7. \A f \in ToSet(told) : f = f1
  BY <1>6
<1>8. \A f \in ToSet(told) : f.name \in {"cap", "at_cap"} /\ f.from = "average"
  BY <1>3, <1>4, <1>7
<1>9. \A f \in ToSet(told) : f.warns <=> eta
  BY <1>5, <1>7, Zenon
<1> QED
  BY <1>6, <1>7, <1>8, <1>9, Zenon DEF told, eta

LEMMA CapsAre ==
  ASSUME NEW now \in Nat, NEW w \in OpenWindows(now), NEW rate \in RateEstimates
  PROVE  CapsShown(w, rate, now) = ToSet(CapSection(w, rate, now))
<1> DEFINE mark       == StartIsUncertain(w)
           average    == Pace(w, now) # NoRatio
           projection == IF rate = NoRate THEN NoProjection ELSE Project(w, rate, now)
           projected  == projection # NoProjection
           section    == CapSection(w, rate, now)
           f1 == Field("pace", mark, FALSE, "average")
           f2 == Field("now", FALSE, FALSE, "rate")
           f3 == Field("afford", FALSE, FALSE, "window")
           f4 == Field("at_reset", mark /\ ~projected, FALSE,
                       IF projected THEN "rate" ELSE "average")
           c2 == rate # NoRate
           c3 == AffordablePace(w, now) # NoRatio
           c4 == projected \/ average
           s1 == Only(average, f1)
           s2 == Only(c2, f2)
           s3 == Only(c3, f3)
           s4 == Only(c4, f4)
<1>1. w # NoWindow /\ (projected <=> rate # NoRate)
  BY Projected
<1>2. DerivedFields(w, rate, now) = s1 \o s2 \o section \o s3 \o s4
  <2>1. (IF projected THEN CapFromRate(w, projection, now)
         ELSE CapFromAverage(w, mark, now)) = section
    BY <1>1 DEF CapSection
  <2> QED
    BY <1>1, <2>1, Zenon DEF DerivedFields
<1>3. section \in Seq(Fields) /\ \A f \in ToSet(section) : f.name \in {"cap", "at_cap"}
  BY CapOfRate, CapOfAverage DEF CapSection
<1>4. mark \in BOOLEAN /\ average \in BOOLEAN /\ c2 \in BOOLEAN /\ c3 \in BOOLEAN
        /\ c4 \in BOOLEAN /\ projected \in BOOLEAN
  BY DEF StartIsUncertain
<1> HIDE DEF mark, average, projection, projected, section, c2, c3, c4
<1>5. /\ f1 \in Fields /\ f2 \in Fields /\ f3 \in Fields /\ f4 \in Fields
      /\ f1.name = "pace" /\ f2.name = "now" /\ f3.name = "afford" /\ f4.name = "at_reset"
  <2>1. /\ "pace" \in Names /\ "now" \in Names /\ "afford" \in Names
        /\ "at_reset" \in Names /\ "average" \in Sources /\ "rate" \in Sources
        /\ "window" \in Sources /\ FALSE \in BOOLEAN
        /\ (IF projected THEN "rate" ELSE "average") \in Sources
        /\ (mark /\ ~projected) \in BOOLEAN
    BY DEF Names, Sources
  <2>2. f1 \in Fields /\ f2 \in Fields /\ f3 \in Fields /\ f4 \in Fields
    BY <1>4, <2>1, FieldIs
  <2>3. /\ f1.name = "pace" /\ f2.name = "now"
        /\ f3.name = "afford" /\ f4.name = "at_reset"
    BY DEF Field
  <2> QED
    BY <2>2, <2>3
<1> HIDE DEF f1, f2, f3, f4
<1>6. /\ s1 \in Seq(Fields) /\ ToSet(s1) = {g \in {f1} : average}
      /\ s2 \in Seq(Fields) /\ ToSet(s2) = {g \in {f2} : c2}
      /\ s3 \in Seq(Fields) /\ ToSet(s3) = {g \in {f3} : c3}
      /\ s4 \in Seq(Fields) /\ ToSet(s4) = {g \in {f4} : c4}
  BY <1>4, <1>5, OnlyIs
<1> HIDE DEF s1, s2, s3, s4
<1>7. ToSet(s1 \o s2 \o section \o s3 \o s4)
        = ToSet(s1) \cup ToSet(s2) \cup ToSet(section) \cup ToSet(s3) \cup ToSet(s4)
  <2>1. s1 \o s2 \in Seq(Fields) /\ ToSet(s1 \o s2) = ToSet(s1) \cup ToSet(s2)
    BY <1>6, OneAfterAnother, Zenon
  <2>2. /\ s1 \o s2 \o section \in Seq(Fields)
        /\ ToSet(s1 \o s2 \o section) = ToSet(s1 \o s2) \cup ToSet(section)
    BY <1>3, <2>1, OneAfterAnother, Zenon
  <2>3. /\ s1 \o s2 \o section \o s3 \in Seq(Fields)
        /\ ToSet(s1 \o s2 \o section \o s3) = ToSet(s1 \o s2 \o section) \cup ToSet(s3)
    BY <1>6, <2>2, OneAfterAnother, Zenon
  <2>4. ToSet(s1 \o s2 \o section \o s3 \o s4)
          = ToSet(s1 \o s2 \o section \o s3) \cup ToSet(s4)
    BY <1>6, <2>3, OneAfterAnother, Zenon
  <2> QED
    BY <2>1, <2>2, <2>3, <2>4, Zenon
<1>8. \A f \in ToSet(s1) \cup ToSet(s2) \cup ToSet(s3) \cup ToSet(s4) :
        f.name \notin {"cap", "at_cap"}
  BY <1>5, <1>6
<1>9. ASSUME NEW f
      PROVE  f \in CapsShown(w, rate, now) <=> f \in ToSet(section)
  BY <1>2, <1>3, <1>7, <1>8, Zenon DEF CapsShown
<1> QED
  BY <1>9 DEF section

LEMMA EndsOfRate ==
  ASSUME NEW rate \in RateEstimates, rate # NoRate
  PROVE  /\ Low(rate) \in Paces /\ Mid(rate) \in Paces /\ High(rate) \in Paces
         /\ Low(rate).d = rate.d /\ Mid(rate).d = rate.d /\ High(rate).d = rate.d
         /\ rate.d \in Nat /\ rate.d > 0
         /\ Low(rate).n <= Mid(rate).n /\ Mid(rate).n <= High(rate).n
BY DEF RateEstimates, Low, Mid, High, Paces

\* A faster pace leaves no more time, and no less usage at the reset.
LEMMA FasterIsSooner ==
  ASSUME NEW now \in Nat, NEW w \in OpenWindows(now), NEW slow \in Paces,
         NEW fast \in Paces, slow.d = fast.d, slow.n <= fast.n
  PROVE  /\ RunwayAt(w, slow) # None => RunwayAt(w, fast) \in 0 .. RunwayAt(w, slow)
         /\ ~Less(AtReset(w, fast, now), AtReset(w, slow, now))
<1>1. /\ slow.n \in Nat /\ fast.n \in Nat /\ slow.d \in Nat /\ w.used \in Nat
      /\ w.reset \in Nat
  BY DEF Paces, OpenWindows, Windows
<1>2. ASSUME RunwayAt(w, slow) # None
      PROVE  RunwayAt(w, fast) \in 0 .. RunwayAt(w, slow)
  <2>1. CASE w.used >= FULL
    BY <2>1, RunwayIs
  <2>2. CASE w.used < FULL
    <3>1. slow.n > 0 /\ fast.n > 0
      BY <1>1, <1>2, <2>2, RunwayIs
    <3> DEFINE a == (FULL - w.used) * slow.d
    <3>2. /\ RunwayAt(w, slow) = RoundedDiv(a, slow.n)
          /\ RunwayAt(w, fast) = RoundedDiv(a, fast.n)
          /\ a \in Nat /\ RunwayAt(w, slow) \in Nat /\ RunwayAt(w, fast) \in Nat
      BY <2>2, <3>1, RunwayIs
    <3> HIDE DEF a
    <3>3. RoundedDiv(a, fast.n) <= RoundedDiv(a, slow.n)
      BY <1>1, <3>1, <3>2, RoundedFalls
    <3> QED
      BY <3>2, <3>3
  <2> QED
    BY <1>1, <2>1, <2>2 DEF FULL
<1>3. ~Less(AtReset(w, fast, now), AtReset(w, slow, now))
  <2> DEFINE t == w.reset - now
             m == Max({t, 0})
             d == slow.d
             u == w.used * d
             x == slow.n * m
             y == fast.n * m
  <2>1. m \in Nat
    <3>1. t \in Int
      BY <1>1
    <3> HIDE DEF t
    <3> QED
      BY <3>1, MaxWithZero
  <2>2. /\ AtReset(w, slow, now) = [n |-> u + x, d |-> d]
        /\ AtReset(w, fast, now) = [n |-> u + y, d |-> d]
    BY DEF AtReset
  <2> HIDE DEF m
  <2>3. u \in Int /\ x \in Int /\ y \in Int /\ x <= y /\ d \in Nat
    BY <1>1, <2>1, ProductRises
  <2> HIDE DEF u, x, y, d
  <2>4. (u + x) * d <= (u + y) * d /\ (u + x) * d \in Int /\ (u + y) * d \in Int
    <3>1. u + x \in Int /\ u + y \in Int /\ u + x <= u + y
      BY <2>3
    <3> QED
      BY <2>3, <3>1, ProductRises
  <2> QED
    BY <2>2, <2>4 DEF Less
<1> QED
  BY <1>2, <1>3

\* The average is a pace, and the window's own cap is told from it.
LEMMA AverageIsPace ==
  ASSUME NEW now \in Nat, NEW w \in OpenWindows(now)
  PROVE  /\ Pace(w, now) \in Paces
         /\ Runway(w, now) # None => /\ Pace(w, now) # NoRatio
                                     /\ Runway(w, now) = RunwayAt(w, Pace(w, now))
<1>1. Elapsed(w, now) \in Nat
  <2> DEFINE t == now - w.start
             span == SpanOf(w)
  <2>1. t \in Int /\ t >= 0 /\ span \in Int /\ span > 0
    BY DEF OpenWindows, Windows, SpanOf
  <2>2. Elapsed(w, now) = Min({Max({t, 0}), span})
    BY DEF Elapsed, Clamp
  <2> HIDE DEF t, span
  <2>3. Max({t, 0}) = t
    BY <2>1, MaxWithZero
  <2>4. Min({t, span}) \in Nat
    BY <2>1, MinMaxOfTwo
  <2> QED
    BY <2>2, <2>3, <2>4
<1>2. w.used \in Nat
  BY DEF OpenWindows
<1> QED
  BY <1>1, <1>2 DEF Pace, Paces, NoRatio, Runway

LEMMA EtaIsBinding ==
  ASSUME NEW now \in Nat, NEW w \in OpenWindows(now), w.used < FULL
  PROVE  LET pace   == Pace(w, now)
             runway == RunwayAt(w, pace)
         IN  /\ EtaToCap(w, now) # None => runway # None /\ now + runway < w.reset
             /\ pace.n > 0 /\ runway # None /\ now + runway < w.reset
                  => EtaToCap(w, now) # None
<1> DEFINE pace == Pace(w, now)
           runway == RunwayAt(w, pace)
<1>1. pace \in Paces
  BY AverageIsPace
<1>2. ASSUME EtaToCap(w, now) # None PROVE runway # None /\ now + runway < w.reset
  <2>1. Runway(w, now) # None /\ now + Runway(w, now) < w.reset
    BY <1>2 DEF EtaToCap
  <2> QED
    BY <2>1, AverageIsPace
<1>3. ASSUME pace.n > 0, runway # None, now + runway < w.reset
      PROVE  EtaToCap(w, now) # None
  <2>1. pace # NoRatio
    BY <1>3 DEF NoRatio
  <2>2. Runway(w, now) = runway
    BY <2>1 DEF Runway
  <2>3. EtaToCap(w, now) = now + runway
    BY <1>3, <2>2 DEF EtaToCap
  <2>4. runway \in Nat
    BY <1>1, <1>3, RunwayIs
  <2> QED
    BY <2>3, <2>4 DEF None
<1> QED
  BY <1>2, <1>3

LEMMA CapFollowsPace ==
  ASSUME NEW now \in Nat, NEW w \in OpenWindows(now), NEW rate \in RateEstimates,
         w.used < FULL, NEW cap \in CapsShown(w, rate, now)
  PROVE  LET told == IF cap.from = "rate" THEN High(rate) ELSE Pace(w, now)
         IN  /\ cap.warns => Less(AffordablePace(w, now), told)
             /\ told.n > 0 /\ (FULL - w.used) * told.d <= (w.reset - now - 1) * told.n
                  => cap.warns
<1>1. cap \in ToSet(CapSection(w, rate, now))
  BY CapsAre
<1>2. CASE rate # NoRate
  <2> DEFINE p == Project(w, rate, now)
             told == High(rate)
  <2>1. cap.from = "rate" /\ (cap.warns <=> Binding(p, w, now))
    BY <1>1, <1>2, CapOfRate, Zenon DEF CapSection
  <2>2. p.runway.low = RunwayAt(w, told)
    BY Projected
  <2>3. Binding(p, w, now) <=>
          RunwayAt(w, told) # None /\ now + RunwayAt(w, told) < w.reset
    BY <2>2 DEF Binding
  <2>4. told \in Paces
    BY <1>2, EndsOfRate
  <2>5. /\ Binding(p, w, now) => Less(AffordablePace(w, now), told)
        /\ told.n > 0 /\ (FULL - w.used) * told.d <= (w.reset - now - 1) * told.n
             => Binding(p, w, now)
    BY <2>3, <2>4, RunwayAgainstAfford
  <2> QED
    BY <2>1, <2>5, Zenon
<1>3. CASE rate = NoRate
  <2> DEFINE told == Pace(w, now)
             eta == EtaToCap(w, now) # None
  <2>1. cap.from = "average" /\ (cap.warns <=> eta)
    BY <1>1, <1>3, CapOfAverage, Zenon DEF CapSection
  <2>2. told \in Paces
    BY AverageIsPace
  <2>3. /\ eta => Less(AffordablePace(w, now), told)
        /\ told.n > 0 /\ (FULL - w.used) * told.d <= (w.reset - now - 1) * told.n
             => eta
    BY <2>2, EtaIsBinding, RunwayAgainstAfford
  <2>4. cap.from # "rate"
    BY <2>1
  <2> QED
    BY <2>1, <2>3, <2>4, Zenon
<1> QED
  BY <1>2, <1>3

\* The cap and the cone are told from the same end of the rate.
LEMMA ConeMeetsCap ==
  ASSUME NEW now \in Nat, NEW w \in OpenWindows(now), NEW rate \in RateEstimates,
         rate # NoRate, NEW edge \in ProjectionCone(w, rate, now, TRUE),
         edge.edge = "fast"
  PROVE  edge.end.ts < w.reset <=> \E cap \in CapsShown(w, rate, now) : cap.warns
<1> DEFINE p == Project(w, rate, now)
           runway == p.runway.low
<1>1. w # NoWindow /\ p # NoProjection
  BY Projected
<1>2. edge.end = ConeEdge(w, runway, p.at_reset.high, now)
  <2>1. \/ edge = [edge |-> "fast", end |-> ConeEdge(w, runway, p.at_reset.high, now)]
        \/ edge = [edge |-> "slow", end |-> ConeEdge(w, p.runway.high, p.at_reset.low, now)]
        \/ edge = [edge |-> "centre", end |-> ConeEdge(w, p.runway.mid, p.at_reset.mid, now)]
    BY <1>1, Zenon DEF ProjectionCone
  <2> HIDE DEF p
  <2> QED
    BY <2>1
<1>3. w.reset \in Nat
  BY DEF OpenWindows, Windows
<1>4. edge.end.ts < w.reset <=> Binding(p, w, now)
  <2> HIDE DEF p
  <2>1. CASE runway # None /\ now + runway < w.reset
    BY <1>2, <2>1 DEF ConeEdge, Binding
  <2>2. CASE ~(runway # None /\ now + runway < w.reset)
    BY <1>2, <1>3, <2>2 DEF ConeEdge, Binding
  <2> QED
    BY <2>1, <2>2
<1>5. Binding(p, w, now) => runway # None
  BY DEF Binding
<1>6. CapsShown(w, rate, now) = ToSet(CapFromRate(w, p, now))
  BY CapsAre DEF CapSection
<1>7. /\ \A f \in CapsShown(w, rate, now) : f.warns <=> Binding(p, w, now)
      /\ runway # None => \E f \in CapsShown(w, rate, now) : TRUE
  <2> DEFINE told == CapFromRate(w, p, now)
  <2>1. \A f \in ToSet(told) : f.warns <=> Binding(p, w, now)
    BY CapOfRate, Zenon
  <2>2. runway # None => \E f \in ToSet(told) : TRUE
    BY CapOfRate
  <2> HIDE DEF told
  <2> QED
    BY <1>6, <2>1, <2>2, Zenon DEF told
<1> HIDE DEF p
<1> QED
  BY <1>4, <1>5, <1>7, Zenon

-----------------------------------------------------------------------------
(* Rows in their place.                                                    *)

\* A field as it is drawn, and a line under way.
Shown == [name : Names, cells : Nat]
Lines == [shown : Seq(Shown), used : Nat, full : BOOLEAN]
EmptyLine == [shown |-> <<>>, used |-> INDENT, full |-> FALSE]

\* What Cells and Fitted recurse by.
CellLoop(f, shown) ==
  f = [n \in 0 .. Len(shown) |->
         IF n = 0 THEN INDENT - SEPARATOR ELSE f[n - 1] + SEPARATOR + shown[n].cells]

\* The cells of a line, field by field.
LEMMA CellsAre ==
  ASSUME NEW shown \in Seq(Shown)
  PROVE  \E f \in [0 .. Len(shown) -> Int] :
           /\ Cells(shown) = f[Len(shown)]
           /\ f[0] = INDENT - SEPARATOR
           /\ \A n \in 1 .. Len(shown) : f[n] = f[n - 1] + SEPARATOR + shown[n].cells
<1> DEFINE N == Len(shown)
           next(x, n) == x + SEPARATOR + shown[n].cells
           step == [n \in 1 .. N |-> [x \in Int |-> next(x, n)]]
           base == INDENT - SEPARATOR
           upto == CHOOSE f : CellLoop(f, shown)
<1>1. N \in Nat /\ base \in Int
  BY DEF INDENT, SEPARATOR
<1>2. ASSUME NEW n \in 1 .. N, NEW x \in Int PROVE next(x, n) \in Int
  <2>1. shown[n] \in Shown
    OBVIOUS
  <2>2. shown[n].cells \in Nat
    BY <2>1 DEF Shown
  <2> QED
    BY <2>2 DEF SEPARATOR
<1> HIDE DEF next, base
<1>3. step \in [1 .. N -> [Int -> Int]] /\ \A n \in 1 .. N, x \in Int : step[n][x] = next(x, n)
  BY <1>2
<1> HIDE DEF step, N
<1>4. PICK f \in [0 .. N -> Int] : f[0] = base /\ \A n \in 1 .. N : f[n] = step[n][f[n - 1]]
  <2>1. \E f : IsLoop(f, Int, N, base, step)
    BY <1>1, <1>3, LoopExists
  <2> QED
    BY <2>1 DEF IsLoop
<1>5. CellLoop(f, shown)
  <2>1. ASSUME NEW n \in 0 .. N PROVE f[n] = IF n = 0 THEN base ELSE next(f[n - 1], n)
    <3>1. CASE n = 0
      BY <1>4, <3>1
    <3>2. CASE n # 0
      <4>1. n \in 1 .. N /\ n - 1 \in 0 .. N
        BY <1>1, <3>2
      <4> QED
        BY <1>3, <1>4, <3>2, <4>1
    <3> QED
      BY <3>1, <3>2
  <2>2. f = [n \in 0 .. N |-> IF n = 0 THEN base ELSE next(f[n - 1], n)]
    BY <2>1
  <2> QED
    BY <2>2, Zenon DEF CellLoop, next, N, base
<1>6. CellLoop(upto, shown)
  BY <1>5, Zenon
<1>7. Cells(shown) = upto[N]
  BY Zenon DEF Cells, CellLoop, N
<1> HIDE DEF upto
<1>8. upto = [n \in 0 .. N |-> IF n = 0 THEN base ELSE next(upto[n - 1], n)]
  BY <1>6, Zenon DEF CellLoop, next, N, base
<1>9. upto[0] = base /\ \A n \in 1 .. N : upto[n] = next(upto[n - 1], n)
  <2>1. \A n \in 0 .. N : upto[n] = IF n = 0 THEN base ELSE next(upto[n - 1], n)
    BY <1>8
  <2> QED
    BY <1>1, <2>1
<1>10. \A n \in 0 .. N : upto[n] \in Int
  <2> DEFINE S == {n \in 0 .. N : upto[n] \in Int}
  <2>1. 0 \in S
    BY <1>1, <1>9
  <2>2. ASSUME NEW n \in 1 .. N, n - 1 \in S PROVE n \in S
    <3>1. upto[n - 1] \in Int /\ n \in 0 .. N
      BY <1>1, <2>2
    <3> QED
      BY <1>2, <1>9, <3>1
  <2>3. \A n \in 0 .. N : n \in S
    <3> HIDE DEF S
    <3> QED
      BY <1>1, <2>1, <2>2, Throughout
  <2> QED
    BY <2>3
<1>11. upto \in [0 .. N -> Int]
  BY <1>8, <1>10
<1> QED
  BY <1>7, <1>9, <1>11 DEF N, next, base

\* A field adds its own cells and a separator.
LEMMA CellsOfOneMore ==
  ASSUME NEW shown \in Seq(Shown), NEW field \in Shown
  PROVE  /\ Cells(<<>>) = INDENT - SEPARATOR
         /\ Cells(Append(shown, field)) = Cells(shown) + SEPARATOR + field.cells
         /\ Cells(shown) \in Int
<1> DEFINE more == Append(shown, field)
           N == Len(shown)
<1>1. PICK f \in [0 .. N -> Int] :
        /\ Cells(shown) = f[N] /\ f[0] = INDENT - SEPARATOR
        /\ \A n \in 1 .. N : f[n] = f[n - 1] + SEPARATOR + shown[n].cells
  BY CellsAre
<1>2. more \in Seq(Shown) /\ Len(more) = N + 1 /\ N \in Nat /\ more[N + 1] = field
        /\ \A n \in 1 .. N : more[n] = shown[n]
  OBVIOUS
<1>3. PICK g \in [0 .. N + 1 -> Int] :
        /\ Cells(more) = g[N + 1] /\ g[0] = INDENT - SEPARATOR
        /\ \A n \in 1 .. N + 1 : g[n] = g[n - 1] + SEPARATOR + more[n].cells
  <2> HIDE DEF more
  <2> QED
    BY <1>2, CellsAre
<1> HIDE DEF more, N
<1>4. \A n \in 0 .. N : g[n] = f[n]
  <2> DEFINE S == {n \in 0 .. N : g[n] = f[n]}
  <2>1. 0 \in S
    BY <1>1, <1>2, <1>3
  <2>2. ASSUME NEW n \in 1 .. N, n - 1 \in S PROVE n \in S
    <3>1. n \in 1 .. N + 1 /\ n \in 0 .. N /\ more[n] = shown[n] /\ g[n - 1] = f[n - 1]
      BY <1>2, <2>2, SMTT(40)
    <3>2. g[n] = g[n - 1] + SEPARATOR + shown[n].cells
      BY <1>3, <3>1
    <3>3. f[n] = f[n - 1] + SEPARATOR + shown[n].cells
      BY <1>1
    <3> QED
      BY <3>1, <3>2, <3>3
  <2>3. \A n \in 0 .. N : n \in S
    <3> HIDE DEF S
    <3> QED
      BY <1>2, <2>1, <2>2, Throughout
  <2> QED
    BY <2>3
<1>5. Cells(more) = Cells(shown) + SEPARATOR + field.cells
  <2>1. N + 1 \in 1 .. N + 1 /\ N \in 0 .. N /\ (N + 1) - 1 = N
    BY <1>2
  <2>2. g[N + 1] = g[(N + 1) - 1] + SEPARATOR + more[N + 1].cells
    BY <1>3, <2>1
  <2>3. g[N + 1] = f[N] + SEPARATOR + field.cells
    BY <1>2, <1>4, <2>1, <2>2
  <2> QED
    BY <1>1, <1>3, <2>3
<1>6. Cells(<<>>) = INDENT - SEPARATOR
  <2> DEFINE e == <<>>
  <2>1. e \in Seq(Shown) /\ Len(e) = 0
    OBVIOUS
  <2> HIDE DEF e
  <2>2. Cells(e) = INDENT - SEPARATOR
    BY <2>1, CellsAre
  <2> QED
    BY <2>2 DEF e
<1>7. Cells(shown) \in Int
  BY <1>1, <1>2
<1> QED
  BY <1>5, <1>6, <1>7 DEF more

\* A line that fits: the fields shown are the first ones, and what is counted
\* as used is what they take.
Fits(line, fields, width, n) ==
  /\ line \in Lines
  /\ Len(line.shown) <= n
  /\ ~line.full => Len(line.shown) = n
  /\ line.full => n > 0
  /\ \A i \in 1 .. Len(line.shown) : line.shown[i].name = fields[i].name
  /\ line.shown = <<>> => line.used = INDENT
  /\ line.shown # <<>> => /\ line.used = Cells(line.shown)
                          /\ line.used > INDENT /\ line.used <= width

\* Every form of a field takes a cell at least, so its separator is counted.
LEMMA WidthsArePositive ==
  ASSUME NEW field \in Fields, NEW i \in DOMAIN Forms(field)
  PROVE  /\ Forms(field)[i] \in Nat /\ Forms(field)[i] > 0 /\ i \in {1, 2}
         /\ DOMAIN Forms(field) \subseteq Nat
<1>1. field.name \in Names
  BY DEF Fields
<1>2. CASE field.from = "average" /\ field.name \in DOMAIN AverageWidths
  BY <1>1, <1>2 DEF Forms, AverageWidths
<1>3. CASE ~(field.from = "average" /\ field.name \in DOMAIN AverageWidths)
  BY <1>1, <1>3 DEF Names, Forms, Widths
<1> QED
  BY <1>2, <1>3

SeparatorOf(line) == IF line.used > INDENT THEN SEPARATOR ELSE 0

\* A field is left out, or added in one of its forms.
LEMMA AddFieldIs ==
  ASSUME NEW width \in Nat, NEW line \in Lines, NEW field \in Fields
  PROVE  LET next  == AddField(line, field, width)
             forms == Forms(field)
             sep   == SeparatorOf(line)
         IN  /\ next \in Lines
             /\ \/ /\ next.full /\ next.shown = line.shown /\ next.used = line.used
                   /\ \/ line.full
                      \/ \A i \in DOMAIN forms : line.used + forms[i] + sep > width
                \/ \E cells \in Nat \ {0} :
                     /\ ~line.full /\ ~next.full
                     /\ line.used + cells + sep <= width
                     /\ next.used = line.used + cells + sep
                     /\ next.shown = Append(line.shown, [name |-> field.name, cells |-> cells])
<1> DEFINE name == field.name
           forms == Forms(field)
           sep == SeparatorOf(line)
           fits == {i \in DOMAIN forms : line.used + forms[i] + sep <= width}
           next == AddField(line, field, width)
<1>1. name \in Names /\ sep \in Nat
  BY DEF Fields, SEPARATOR, SeparatorOf
<1>2. next = IF line.full \/ fits = {} THEN [line EXCEPT !.full = TRUE]
             ELSE [line EXCEPT !.used = line.used + forms[Min(fits)] + sep,
                               !.shown = Append(line.shown, [name |-> name, cells |-> forms[Min(fits)]])]
  BY Zenon DEF AddField, SeparatorOf
<1>3. CASE line.full \/ fits = {}
  <2>1. next = [line EXCEPT !.full = TRUE]
    BY <1>2, <1>3
  <2>2. next \in Lines /\ next.full /\ next.shown = line.shown /\ next.used = line.used
    BY <1>1, <2>1 DEF Lines
  <2>3. line.full \/ \A i \in DOMAIN forms : line.used + forms[i] + sep > width
    <3>1. ASSUME fits = {}, NEW i \in DOMAIN forms PROVE line.used + forms[i] + sep > width
      <4>1. forms[i] \in Nat /\ line.used \in Nat
        BY <1>1, WidthsArePositive DEF Lines
      <4>2. ~(line.used + forms[i] + sep <= width)
        BY <3>1
      <4> HIDE DEF sep, forms
      <4> QED
        BY <1>1, <4>1, <4>2
    <3> QED
      BY <1>3, <3>1
  <2> HIDE DEF next, fits, forms, sep
  <2> QED
    BY <2>2, <2>3 DEF next, forms, sep
<1>4. CASE ~(line.full \/ fits = {})
  <2> DEFINE i == Min(fits)
             cells == forms[i]
             more == [name |-> name, cells |-> cells]
             x == line.used + cells + sep
             s == Append(line.shown, more)
  <2>1. i \in fits
    <3>1. fits \subseteq Nat /\ fits # {}
      BY <1>1, <1>4, WidthsArePositive
    <3> HIDE DEF fits
    <3> QED
      BY <3>1, MinIsLeast
  <2>2. cells \in Nat \ {0} /\ line.used + cells + sep <= width
    <3>1. i \in DOMAIN forms /\ line.used + forms[i] + sep <= width
      BY <2>1
    <3>2. forms[i] \in Nat /\ forms[i] > 0
      <4> HIDE DEF i
      <4> QED
        BY <1>1, <3>1, WidthsArePositive
    <3> HIDE DEF forms, sep, i
    <3> QED
      BY <3>1, <3>2
  <2>3. next = [line EXCEPT !.used = x, !.shown = s]
    BY <1>2, <1>4
  <2> HIDE DEF i, fits, cells, forms
  <2>4. more \in Shown
    BY <1>1, <2>2 DEF Shown
  <2>5. line.shown \in Seq(Shown) /\ line.used \in Nat /\ ~line.full /\ line.full \in BOOLEAN
    BY <1>4 DEF Lines
  <2>6. x \in Nat /\ s \in Seq(Shown)
    <3> HIDE DEF more, sep
    <3> QED
      BY <1>1, <2>2, <2>4, <2>5
  <2> HIDE DEF next, sep, x, s, more
  <2>7. next \in Lines /\ next.full = line.full /\ next.used = x /\ next.shown = s
    BY <2>3, <2>6 DEF Lines
  <2>8. /\ ~line.full /\ ~next.full /\ line.used + cells + sep <= width
        /\ next.used = line.used + cells + sep
        /\ next.shown = Append(line.shown, [name |-> name, cells |-> cells])
    BY <2>2, <2>5, <2>7 DEF x, s, more
  <2> QED
    BY <2>2, <2>7, <2>8 DEF next, sep
<1> QED
  BY <1>3, <1>4

\* A field tried after a line that fits leaves a line that fits.
LEMMA FieldAdded ==
  ASSUME NEW width \in Nat, NEW fields \in Seq(Fields), NEW n \in 1 .. Len(fields),
         NEW line, Fits(line, fields, width, n - 1)
  PROVE  LET next == AddField(line, fields[n], width)
         IN  /\ Fits(next, fields, width, n)
             /\ Len(line.shown) <= Len(next.shown)
             /\ n = 1 /\ fields[1].name = "pace" /\ width >= 16 => Len(next.shown) = 1
<1> DEFINE name == fields[n].name
           forms == Forms(fields[n])
           sep == SeparatorOf(line)
           next == AddField(line, fields[n], width)
<1>1. line \in Lines /\ n \in Nat /\ n > 0 /\ line.shown \in Seq(Shown) /\ line.used \in Nat
  BY DEF Fits, Lines
<1>2. /\ next \in Lines
      /\ \/ /\ next.full /\ next.shown = line.shown /\ next.used = line.used
            /\ line.full \/ \A i \in DOMAIN forms : line.used + forms[i] + sep > width
         \/ \E cells \in Nat \ {0} :
              /\ ~line.full /\ ~next.full /\ line.used + cells + sep <= width
              /\ next.used = line.used + cells + sep
              /\ next.shown = Append(line.shown, [name |-> name, cells |-> cells])
  <2> DEFINE field == fields[n]
  <2>1. field \in Fields
    OBVIOUS
  <2> HIDE DEF field
  <2>2. /\ AddField(line, field, width) \in Lines
        /\ \/ /\ AddField(line, field, width).full
              /\ AddField(line, field, width).shown = line.shown
              /\ AddField(line, field, width).used = line.used
              /\ \/ line.full
                 \/ \A i \in DOMAIN Forms(field) :
                      line.used + Forms(field)[i] + SeparatorOf(line) > width
           \/ \E cells \in Nat \ {0} :
                /\ ~line.full /\ ~AddField(line, field, width).full
                /\ line.used + cells + SeparatorOf(line) <= width
                /\ AddField(line, field, width).used = line.used + cells + SeparatorOf(line)
                /\ AddField(line, field, width).shown
                     = Append(line.shown, [name |-> field.name, cells |-> cells])
    BY <1>1, <2>1, AddFieldIs, ZenonT(40)
  <2> QED
    BY <2>2, Zenon DEF field
<1> HIDE DEF next
<1>3. CASE /\ next.full /\ next.shown = line.shown /\ next.used = line.used
           /\ line.full \/ \A i \in DOMAIN forms : line.used + forms[i] + sep > width
  <2>1. Len(line.shown) <= n
    BY <1>1 DEF Fits
  <2>2. Fits(next, fields, width, n)
    BY <1>1, <1>2, <1>3, <2>1 DEF Fits
  <2>3. ~(n = 1 /\ fields[1].name = "pace" /\ width >= 16)
    <3> SUFFICES ASSUME n = 1, fields[1].name = "pace", width >= 16 PROVE FALSE
      OBVIOUS
    <3>1. Len(line.shown) <= 0 /\ ~line.full
      BY DEF Fits
    <3>2. line.shown = <<>>
      BY <1>1, <3>1
    <3>3. line.used = INDENT /\ sep = 0
      BY <3>2 DEF Fits, INDENT, SeparatorOf
    <3>4. 1 \in DOMAIN forms /\ forms[1] = 12
      <4>1. fields[1] \in Fields
        OBVIOUS
      <4> QED
        BY <4>1 DEF Forms, AverageWidths, Widths, Fields
    <3> HIDE DEF forms, sep
    <3> QED
      BY <1>3, <3>1, <3>3, <3>4 DEF INDENT
  <2> QED
    BY <1>1, <1>3, <2>2, <2>3 DEF next
<1>4. ASSUME NEW cells \in Nat \ {0}, ~line.full, ~next.full, line.used + cells + sep <= width,
             next.used = line.used + cells + sep,
             next.shown = Append(line.shown, [name |-> name, cells |-> cells])
      PROVE  /\ Fits(next, fields, width, n)
             /\ Len(line.shown) <= Len(next.shown) /\ Len(next.shown) = n
  <2> DEFINE more == [name |-> name, cells |-> cells]
  <2>1. more \in Shown /\ more.name = name /\ more.cells = cells
    <3>1. fields[n] \in Fields
      OBVIOUS
    <3> QED
      BY <3>1 DEF Shown, Fields
  <2> HIDE DEF more
  <2>2. Len(line.shown) = n - 1 /\ next.shown = Append(line.shown, more)
    BY <1>4 DEF Fits, more
  <2>3. /\ next.shown \in Seq(Shown) /\ Len(next.shown) = n /\ next.shown[n] = more
        /\ next.shown # <<>> /\ \A k \in 1 .. n - 1 : next.shown[k] = line.shown[k]
    BY <1>1, <2>1, <2>2, SMTT(40)
  <2>4. next.used = Cells(next.shown) /\ next.used > INDENT
    <3>1. Cells(next.shown) = Cells(line.shown) + SEPARATOR + cells /\ Cells(line.shown) \in Int
      BY <1>1, <2>1, <2>2, CellsOfOneMore
    <3>2. CASE line.shown = <<>>
      <4>1. Cells(line.shown) = INDENT - SEPARATOR /\ line.used = INDENT
        BY <1>1, <2>1, <3>2, CellsOfOneMore DEF Fits
      <4> QED
        BY <1>1, <1>4, <3>1, <4>1 DEF INDENT, SEPARATOR, SeparatorOf
    <3>3. CASE line.shown # <<>>
      <4>1. Cells(line.shown) = line.used /\ line.used > INDENT
        BY <3>3 DEF Fits
      <4> QED
        BY <1>1, <1>4, <3>1, <4>1 DEF INDENT, SEPARATOR, SeparatorOf
    <3> QED
      BY <3>2, <3>3
  <2>5. ASSUME NEW k \in 1 .. n PROVE next.shown[k].name = fields[k].name
    <3>1. CASE k = n
      BY <2>1, <2>3, <3>1
    <3>2. CASE k # n
      <4>1. k \in 1 .. n - 1
        BY <1>1, <3>2
      <4>2. line.shown[k].name = fields[k].name
        BY <2>2, <4>1 DEF Fits
      <4> QED
        BY <2>3, <4>1, <4>2
    <3> QED
      BY <3>1, <3>2
  <2>6. Fits(next, fields, width, n)
    BY <1>1, <1>2, <1>4, <2>3, <2>4, <2>5 DEF Fits
  <2> QED
    BY <1>1, <2>2, <2>3, <2>6
<1> QED
  BY <1>2, <1>3, <1>4 DEF next

LineLoop(f, fields, width) ==
  f = [n \in 0 .. Len(fields) |->
         IF n = 0 THEN [shown |-> <<>>, used |-> INDENT, full |-> FALSE]
         ELSE AddField(f[n - 1], fields[n], width)]

\* The line fits whatever the fields and the width, and a pace that comes first
\* is shown if the pane has any room for it.
LEMMA FittedFits ==
  ASSUME NEW width \in Nat, NEW fields \in Seq(Fields)
  PROVE  \E line : /\ Fitted(fields, width) = line.shown
                   /\ Fits(line, fields, width, Len(fields))
                   /\ fields # <<>> /\ fields[1].name = "pace" /\ width >= 16
                        => Len(line.shown) > 0
<1> DEFINE N == Len(fields)
           next(l, n) == AddField(l, fields[n], width)
           step == [n \in 1 .. N |-> [l \in Lines |-> next(l, n)]]
           made == CHOOSE f : LineLoop(f, fields, width)
<1>1. N \in Nat /\ EmptyLine \in Lines /\ Fits(EmptyLine, fields, width, 0)
  <2>1. EmptyLine \in Lines
    BY DEF Lines, EmptyLine, INDENT
  <2> QED
    BY <2>1 DEF Fits, EmptyLine
<1>2. ASSUME NEW n \in 1 .. N, NEW l \in Lines PROVE next(l, n) \in Lines
  BY AddFieldIs
<1> HIDE DEF next
<1>3. step \in [1 .. N -> [Lines -> Lines]] /\ \A n \in 1 .. N, l \in Lines : step[n][l] = next(l, n)
  BY <1>2
<1> HIDE DEF step, N
<1>4. PICK f \in [0 .. N -> Lines] :
        f[0] = EmptyLine /\ \A n \in 1 .. N : f[n] = step[n][f[n - 1]]
  <2>1. \E f : IsLoop(f, Lines, N, EmptyLine, step)
    BY <1>1, <1>3, LoopExists
  <2> QED
    BY <2>1 DEF IsLoop
<1>5. LineLoop(f, fields, width)
  <2>1. ASSUME NEW n \in 0 .. N PROVE f[n] = IF n = 0 THEN EmptyLine ELSE next(f[n - 1], n)
    <3>1. CASE n = 0
      BY <1>4, <3>1
    <3>2. CASE n # 0
      <4>1. n \in 1 .. N /\ n - 1 \in 0 .. N
        BY <1>1, <3>2
      <4> QED
        BY <1>3, <1>4, <3>2, <4>1
    <3> QED
      BY <3>1, <3>2
  <2>2. f = [n \in 0 .. N |-> IF n = 0 THEN EmptyLine ELSE next(f[n - 1], n)]
    BY <2>1
  <2> QED
    BY <2>2, Zenon DEF LineLoop, next, N, EmptyLine
<1>6. LineLoop(made, fields, width)
  BY <1>5, Zenon
<1>7. Fitted(fields, width) = made[N].shown
  BY Zenon DEF Fitted, LineLoop, N
<1> HIDE DEF made
<1>8. made[0] = EmptyLine /\ \A n \in 1 .. N : made[n] = next(made[n - 1], n)
  <2>1. made = [n \in 0 .. N |-> IF n = 0 THEN EmptyLine ELSE next(made[n - 1], n)]
    BY <1>6, Zenon DEF LineLoop, next, N, EmptyLine
  <2>2. \A n \in 0 .. N : made[n] = IF n = 0 THEN EmptyLine ELSE next(made[n - 1], n)
    BY <2>1
  <2> QED
    BY <1>1, <2>2
<1> DEFINE paced == fields[1].name = "pace" /\ width >= 16
           S == {n \in 0 .. N : /\ Fits(made[n], fields, width, n)
                                /\ n > 0 /\ paced => Len(made[n].shown) > 0}
<1>9. \A n \in 0 .. N : n \in S
  <2>1. 0 \in S
    BY <1>1, <1>8
  <2>2. ASSUME NEW n \in 1 .. N, n - 1 \in S PROVE n \in S
    <3>1. n \in 0 .. N /\ made[n] = AddField(made[n - 1], fields[n], width)
      BY <1>1, <1>8 DEF next
    <3>2. /\ Fits(made[n - 1], fields, width, n - 1)
          /\ n - 1 > 0 /\ paced => Len(made[n - 1].shown) > 0
      BY <2>2
    <3>3. /\ Fits(made[n], fields, width, n)
          /\ Len(made[n - 1].shown) <= Len(made[n].shown)
          /\ n = 1 /\ fields[1].name = "pace" /\ width >= 16 => Len(made[n].shown) = 1
      BY <3>1, <3>2, FieldAdded DEF N
    <3>4. Len(made[n - 1].shown) \in Nat /\ Len(made[n].shown) \in Nat
      BY <3>2, <3>3 DEF Fits, Lines
    <3>5. paced => Len(made[n].shown) > 0
      <4>1. CASE n = 1
        <5>1. paced => Len(made[n].shown) = 1
          BY <3>3, <4>1, Zenon
        <5>2. Len(made[n].shown) = 1 => Len(made[n].shown) > 0
          BY <3>4
        <5> QED
          BY <5>1, <5>2, Zenon
      <4>2. CASE n # 1
        BY <1>1, <3>2, <3>3, <3>4, <4>2
      <4> QED
        BY <4>1, <4>2
    <3> QED
      BY <3>1, <3>3, <3>5
  <2>3. \A n \in 0 .. N : n \in S
    <3> HIDE DEF S
    <3> QED
      BY <1>1, <2>1, <2>2, Throughout
  <2> QED
    BY <2>3
<1>10. N \in S /\ (fields # <<>> => N > 0)
  BY <1>1, <1>9 DEF N
<1> QED
  BY <1>7, <1>10 DEF N

\* The pace is the first field, if there is one, and no other.
PaceAhead(s, average) ==
  /\ s \in Seq(Fields)
  /\ average => s # <<>> /\ s[1].name = "pace"
  /\ \A i \in 1 .. Len(s) : s[i].name = "pace" => average /\ i = 1

\* Fields put after the first ones leave the pace where it is.
LEMMA PaceStaysAhead ==
  ASSUME NEW average \in BOOLEAN, NEW s, PaceAhead(s, average),
         NEW t \in Seq(Fields), \A f \in ToSet(t) : f.name # "pace"
  PROVE  PaceAhead(s \o t, average)
<1>1. /\ s \in Seq(Fields) /\ s \o t \in Seq(Fields) /\ Len(s \o t) = Len(s) + Len(t)
      /\ Len(s) \in Nat /\ Len(t) \in Nat
  BY DEF PaceAhead
<1>2. ASSUME average PROVE s \o t # <<>> /\ (s \o t)[1].name = "pace"
  <2>1. s # <<>> /\ s[1].name = "pace"
    BY <1>2 DEF PaceAhead
  <2>2. Len(s) > 0
    BY <1>1, <2>1
  <2>3. 1 \in 1 .. Len(s) /\ (s \o t)[1] = s[1]
    BY <1>1, <2>2
  <2> QED
    BY <1>1, <2>1, <2>2, <2>3
<1>3. ASSUME NEW i \in 1 .. Len(s \o t), (s \o t)[i].name = "pace"
      PROVE  average /\ i = 1
  <2>1. CASE i <= Len(s)
    <3>1. i \in 1 .. Len(s) /\ (s \o t)[i] = s[i]
      BY <1>1, <2>1
    <3> QED
      BY <1>3, <3>1 DEF PaceAhead
  <2>2. CASE i > Len(s)
    <3>1. i - Len(s) \in 1 .. Len(t) /\ (s \o t)[i] = t[i - Len(s)]
      BY <1>1, <2>2
    <3>2. t[i - Len(s)] \in ToSet(t)
      BY <3>1 DEF ToSet
    <3> QED
      BY <1>3, <3>1, <3>2
  <2> QED
    BY <1>1, <2>1, <2>2
<1> QED
  BY <1>1, <1>2, <1>3 DEF PaceAhead

\* The fields of a row start with the pace the window has run at so far.
LEMMA PaceComesFirst ==
  ASSUME NEW now \in Nat, NEW w \in OpenWindows(now), NEW rate \in RateEstimates
  PROVE  PaceAhead(DerivedFields(w, rate, now), Pace(w, now) # NoRatio)
<1> DEFINE mark       == StartIsUncertain(w)
           average    == Pace(w, now) # NoRatio
           projection == IF rate = NoRate THEN NoProjection ELSE Project(w, rate, now)
           projected  == projection # NoProjection
           section    == CapSection(w, rate, now)
           f1 == Field("pace", mark, FALSE, "average")
           f2 == Field("now", FALSE, FALSE, "rate")
           f3 == Field("afford", FALSE, FALSE, "window")
           f4 == Field("at_reset", mark /\ ~projected, FALSE,
                       IF projected THEN "rate" ELSE "average")
           c2 == rate # NoRate
           c3 == AffordablePace(w, now) # NoRatio
           c4 == projected \/ average
           s1 == Only(average, f1)
           s2 == Only(c2, f2)
           s3 == Only(c3, f3)
           s4 == Only(c4, f4)
<1>1. w # NoWindow /\ (projected <=> rate # NoRate)
  BY Projected
<1>2. DerivedFields(w, rate, now) = s1 \o s2 \o section \o s3 \o s4
  <2>1. (IF projected THEN CapFromRate(w, projection, now)
         ELSE CapFromAverage(w, mark, now)) = section
    BY <1>1 DEF CapSection
  <2> QED
    BY <1>1, <2>1, Zenon DEF DerivedFields
<1>3. section \in Seq(Fields) /\ \A f \in ToSet(section) : f.name \in {"cap", "at_cap"}
  BY CapOfRate, CapOfAverage DEF CapSection
<1>4. mark \in BOOLEAN /\ average \in BOOLEAN /\ c2 \in BOOLEAN /\ c3 \in BOOLEAN
        /\ c4 \in BOOLEAN /\ projected \in BOOLEAN
  BY DEF StartIsUncertain
<1> HIDE DEF mark, average, projection, projected, section, c2, c3, c4
<1>5. /\ f1 \in Fields /\ f2 \in Fields /\ f3 \in Fields /\ f4 \in Fields
      /\ f1.name = "pace" /\ f2.name = "now" /\ f3.name = "afford" /\ f4.name = "at_reset"
  <2>1. /\ "pace" \in Names /\ "now" \in Names /\ "afford" \in Names
        /\ "at_reset" \in Names /\ "average" \in Sources /\ "rate" \in Sources
        /\ "window" \in Sources /\ FALSE \in BOOLEAN
        /\ (IF projected THEN "rate" ELSE "average") \in Sources
        /\ (mark /\ ~projected) \in BOOLEAN
    BY DEF Names, Sources
  <2>2. f1 \in Fields /\ f2 \in Fields /\ f3 \in Fields /\ f4 \in Fields
    BY <1>4, <2>1, FieldIs
  <2>3. /\ f1.name = "pace" /\ f2.name = "now"
        /\ f3.name = "afford" /\ f4.name = "at_reset"
    BY DEF Field
  <2> QED
    BY <2>2, <2>3
<1> HIDE DEF f1, f2, f3, f4
<1>6. /\ s2 \in Seq(Fields) /\ ToSet(s2) = {g \in {f2} : c2}
      /\ s3 \in Seq(Fields) /\ ToSet(s3) = {g \in {f3} : c3}
      /\ s4 \in Seq(Fields) /\ ToSet(s4) = {g \in {f4} : c4}
  BY <1>4, <1>5, OnlyIs
<1>7. PaceAhead(s1, average)
  <2>1. CASE average
    <3>1. s1 = <<f1>>
      BY <2>1 DEF Only
    <3>2. <<f1>> \in Seq(Fields) /\ Len(<<f1>>) = 1 /\ <<f1>>[1] = f1 /\ <<f1>> # <<>>
      BY <1>5
    <3> HIDE DEF s1
    <3> QED
      BY <1>5, <2>1, <3>1, <3>2 DEF PaceAhead
  <2>2. CASE ~average
    <3>1. s1 = <<>>
      BY <2>2 DEF Only
    <3> HIDE DEF s1
    <3> QED
      BY <2>2, <3>1 DEF PaceAhead
  <2> QED
    BY <2>1, <2>2
<1> HIDE DEF s1, s2, s3, s4
<1>8. /\ \A f \in ToSet(s2) : f.name # "pace"
      /\ \A f \in ToSet(section) : f.name # "pace"
      /\ \A f \in ToSet(s3) : f.name # "pace"
      /\ \A f \in ToSet(s4) : f.name # "pace"
  BY <1>3, <1>5, <1>6
<1>9. PaceAhead(s1 \o s2, average)
  BY <1>4, <1>6, <1>7, <1>8, PaceStaysAhead, Zenon
<1>10. PaceAhead(s1 \o s2 \o section, average)
  BY <1>3, <1>4, <1>8, <1>9, PaceStaysAhead, Zenon
<1>11. PaceAhead(s1 \o s2 \o section \o s3, average)
  BY <1>4, <1>6, <1>8, <1>10, PaceStaysAhead, Zenon
<1>12. PaceAhead(s1 \o s2 \o section \o s3 \o s4, average)
  BY <1>4, <1>6, <1>8, <1>11, PaceStaysAhead, Zenon
<1> QED
  BY <1>2, <1>12 DEF average

\* A row keeps to its place on a list of two, whatever its fields, the width of
\* the pane and its height: its figures fit the pane, the pace is told once,
\* and no row is pushed off the list (derived_line, window_lines, gauge_line,
\* render_quotas).
THEOREM RowsFit ==
  ASSUME NEW q \in WarningQuestions, EffectiveWindow(q.view, q.now).used # None,
         NEW width \in Nat, NEW height \in Nat, height >= 3
  PROVE  RowFits(q, width, height)
<1> DEFINE w == EffectiveWindow(q.view, q.now)
           fields == DerivedFields(w, q.rate, q.now)
           average == Pace(w, q.now) # NoRatio
           windows == <<fields, fields>>
           lines == RenderQuotas(1, windows, width, height)
           two == 1 + 2 * Len(windows) <= height
           gauge == GaugeLine(width, ~two)
           shown == lines[1].derived
           below == {i \in DOMAIN lines : lines[i].derived # <<>>}
           told == {i \in DOMAIN shown : shown[i].name = "pace"}
<1>1. PaceAhead(fields, average)
  <2>1. q.now \in Nat /\ q.rate \in RateEstimates
    BY DEF WarningQuestions
  <2>2. w \in OpenWindows(q.now)
    BY WindowInProgress
  <2> HIDE DEF w
  <2> QED
    BY <2>1, <2>2, PaceComesFirst
<1> HIDE DEF w, fields, average
<1>2. fields \in Seq(Fields)
  BY <1>1 DEF PaceAhead
<1>3. two <=> height >= 5
  <2>1. Len(windows) = 2
    OBVIOUS
  <2> QED
    BY <2>1
<1>4. lines = [i \in 1 .. 2 |-> WindowLines(fields, width, two)]
  <2>1. DOMAIN windows = 1 .. 2 /\ \A i \in 1 .. 2 : windows[i] = fields
    OBVIOUS
  <2> HIDE DEF windows
  <2> QED
    BY <2>1 DEF RenderQuotas
<1> HIDE DEF two, windows
<1>5. /\ lines[1] = WindowLines(fields, width, two) /\ DOMAIN lines = 1 .. 2
      /\ Len(lines) = 2
  BY <1>4
<1> HIDE DEF lines
<1>6. lines[1].gauge = gauge /\ shown = IF two THEN Fitted(fields, width) ELSE <<>>
  BY <1>5 DEF WindowLines
<1>7. /\ gauge.pace <=> ~two /\ width >= 67
      /\ width >= 52 => gauge.cells <= width
      /\ gauge.pace \in BOOLEAN
  <2> DEFINE show == ~two /\ width >= 2 + 24 + 7 + 11 + 15 + MIN_BAR
             column == IF show THEN 15 ELSE 0
             bar == Clamp(width - (2 + 24 + 7 + 11) - column, MIN_BAR, 48)
  <2>1. gauge = [pace |-> show, cells |-> 2 + 24 + 7 + 11 + bar + column]
    BY DEF GaugeLine
  <2>2. (show <=> ~two /\ width >= 67) /\ show \in BOOLEAN
    BY DEF MIN_BAR
  <2>3. column \in {0, 15} /\ (column = 15 => width >= 67)
    BY <2>2
  <2> HIDE DEF show, column
  <2>4. width >= 52 => bar <= width - 44 - column /\ bar \in Int
    <3> SUFFICES ASSUME width >= 52 PROVE bar <= width - 44 - column /\ bar \in Int
      OBVIOUS
    <3> DEFINE x == width - (2 + 24 + 7 + 11) - column
               y == Max({x, MIN_BAR})
    <3>1. x \in Int /\ x >= 8 /\ x = width - 44 - column /\ MIN_BAR = 8
      BY <2>3 DEF MIN_BAR
    <3> HIDE DEF x
    <3>2. y = x
      <4>1. MIN_BAR \in Int
        BY <3>1
      <4> QED
        BY <3>1, <4>1, MinMaxOfTwo, ZenonT(40)
    <3>3. Min({y, 48}) <= y /\ Min({y, 48}) \in Int
      <4>1. y \in Int /\ 48 \in Int
        BY <3>1, <3>2
      <4> HIDE DEF y
      <4> QED
        BY <4>1, MinMaxOfTwo
    <3>4. bar = Min({y, 48})
      BY DEF Clamp, x
    <3> HIDE DEF bar, y
    <3> QED
      BY <3>1, <3>2, <3>3, <3>4
  <2> HIDE DEF bar
  <2>5. gauge.pace = show /\ gauge.cells = 44 + bar + column
    <3>1. gauge.pace = show /\ gauge.cells = 2 + 24 + 7 + 11 + bar + column
      BY <2>1
    <3> QED
      BY <3>1
  <2> HIDE DEF gauge
  <2>6. (gauge.pace <=> ~two /\ width >= 67) /\ gauge.pace \in BOOLEAN
    <3>1. gauge.pace = show
      BY <2>5
    <3> QED
      BY <2>2, <3>1, Zenon
  <2>7. width >= 52 => gauge.cells <= width
    <3>1. gauge.cells = 44 + bar + column
      BY <2>5
    <3> QED
      BY <2>3, <2>4, <3>1
  <2> QED
    BY <2>6, <2>7, Zenon
<1> HIDE DEF gauge
<1>8. ASSUME two
      PROVE  /\ Cardinality(told) \in {0, 1}
             /\ average /\ width >= 67 => Cardinality(told) = 1
             /\ shown # <<>> => Cells(shown) <= width
             /\ \A i \in DOMAIN shown : shown[i].name = fields[i].name
  <2>1. PICK line : /\ Fitted(fields, width) = line.shown
                    /\ Fits(line, fields, width, Len(fields))
                    /\ fields # <<>> /\ fields[1].name = "pace" /\ width >= 16
                         => Len(line.shown) > 0
    BY <1>2, FittedFits
  <2>2. shown = line.shown
    BY <1>6, <1>8, <2>1
  <2>3. /\ shown \in Seq(Shown) /\ Len(shown) <= Len(fields) /\ DOMAIN shown = 1 .. Len(shown)
        /\ Len(shown) \in Nat /\ Len(fields) \in Nat
    BY <1>2, <2>1, <2>2 DEF Fits, Lines
  <2>4. \A i \in 1 .. Len(shown) : shown[i].name = fields[i].name
    BY <2>1, <2>2 DEF Fits
  <2>5. shown # <<>> => Cells(shown) <= width
    BY <2>1, <2>2 DEF Fits
  <2>6. average /\ width >= 67 => 1 \in 1 .. Len(shown) /\ fields[1].name = "pace"
    BY <1>1, <2>1, <2>2, <2>3 DEF PaceAhead
  <2>7. \A i \in 1 .. Len(shown) : fields[i].name = "pace" => i = 1
    BY <1>1, <2>3 DEF PaceAhead
  <2> HIDE DEF shown
  <2>8. told \subseteq {1} /\ (average /\ width >= 67 => told = {1})
    BY <2>3, <2>4, <2>6, <2>7
  <2> HIDE DEF told
  <2>9. told \in {{}, {1}}
    BY <2>8
  <2>10. Cardinality(told) \in {0, 1} /\ (told = {1} => Cardinality(told) = 1)
    BY <2>9, FS_EmptySet, FS_Singleton
  <2> QED
    BY <2>3, <2>4, <2>5, <2>8, <2>10
<1>9. ASSUME ~two PROVE shown = <<>> /\ Cardinality(told) = 0 /\ below = {}
  <2>1. shown = <<>>
    BY <1>6, <1>9
  <2>2. told = {}
    BY <2>1
  <2>3. below = {}
    <3>1. ASSUME NEW i \in 1 .. 2 PROVE lines[i].derived = <<>>
      BY <1>4, <1>9 DEF WindowLines
    <3> HIDE DEF shown
    <3> QED
      BY <1>5, <3>1
  <2> QED
    BY <2>1, <2>2, <2>3, FS_EmptySet
<1>10. Cardinality(below) \in Nat /\ Cardinality(below) <= 2
  <2>1. below \subseteq 1 .. 2 /\ IsFiniteSet(1 .. 2) /\ Cardinality(1 .. 2) = 2
    <3>1. IsFiniteSet(1 .. 2) /\ Cardinality(1 .. 2) = 2
      <4>1. 1 .. 2 = {1} \cup {2} /\ 2 \notin {1}
        OBVIOUS
      <4>2. IsFiniteSet({1}) /\ Cardinality({1}) = 1
        BY FS_Singleton
      <4>3. IsFiniteSet({1} \cup {2}) /\ Cardinality({1} \cup {2}) = 1 + 1
        BY <4>1, <4>2, FS_AddElement
      <4>4. 1 + 1 = 2
        OBVIOUS
      <4> QED
        BY <4>1, <4>3, <4>4
    <3> QED
      BY <1>5, <3>1
  <2> HIDE DEF below
  <2> QED
    BY <2>1, FS_Subset, FS_CardinalityType
<1>11. 1 + Len(lines) + Cardinality(below) <= height
  <2>1. ~two => Cardinality(below) = 0
    BY <1>9, FS_EmptySet
  <2> HIDE DEF below
  <2> QED
    BY <1>3, <1>5, <1>10, <2>1
<1> DEFINE paces == (IF lines[1].gauge.pace THEN 1 ELSE 0) + Cardinality(told)
<1>12. /\ paces <= 1 /\ (average /\ width >= 67 => paces = 1)
       /\ shown # <<>> => Cells(shown) <= width
       /\ \A i \in DOMAIN shown : shown[i].name = fields[i].name
  <2>1. CASE two
    <3>1. ~lines[1].gauge.pace
      BY <1>6, <1>7, <2>1
    <3> HIDE DEF shown, told
    <3> QED
      BY <1>8, <2>1, <3>1
  <2>2. CASE ~two
    <3>1. lines[1].gauge.pace <=> width >= 67
      BY <1>6, <1>7, <2>2
    <3>2. shown = <<>> /\ Cardinality(told) = 0 /\ DOMAIN shown = {}
      BY <1>9, <2>2
    <3> HIDE DEF shown, told
    <3> QED
      BY <3>1, <3>2
  <2> QED
    BY <2>1, <2>2
<1>13. width >= 52 => lines[1].gauge.cells <= width
  BY <1>6, <1>7
<1> QED
  BY <1>11, <1>12, <1>13, Zenon
     DEF RowFits, lines, windows, fields, w, average

-----------------------------------------------------------------------------
(* What a row says.                                                        *)

\* A row does not contradict itself (eta_to_cap, affordable_pace, derived_line,
\* projection_cone, start_is_uncertain): whatever the window, its usage and the
\* recent rate, it shows one cap at most, which warns when, and but for the
\* rounding to a second only when, the pace it is told from is not affordable
\* and the chart's cone meets the cap before the reset; its bands are in order;
\* a start not marked as an estimate is a fortieth of the window off at most;
\* and the row fits its place on the list.
THEOREM WarningsCorrect ==
  ASSUME asked \in WarningQuestions
  PROVE  WarningsAgree
<1> DEFINE now == asked.now
           rate == asked.rate
           w == EffectiveWindow(asked.view, now)
           caps == CapsShown(w, rate, now)
           p == Project(w, rate, now)
<1> SUFFICES ASSUME w.used # None
             PROVE  /\ Cardinality(caps) <= 1
                    /\ w.used < FULL => \A cap \in caps :
                         LET told == IF cap.from = "rate" THEN High(rate) ELSE Pace(w, now)
                         IN  /\ cap.warns => Less(AffordablePace(w, now), told)
                             /\ told.n > 0 /\ (FULL - w.used) * told.d
                                                <= ((w.reset - now) - 1) * told.n
                                  => cap.warns
                    /\ rate # NoRate =>
                         /\ \A edge \in ProjectionCone(w, rate, now, TRUE) :
                              edge.edge = "fast" =>
                                (edge.end.ts < w.reset <=> \E cap \in caps : cap.warns)
                         /\ ~Less(p.at_reset.mid, p.at_reset.low)
                         /\ ~Less(p.at_reset.high, p.at_reset.mid)
                         /\ p.runway.mid # None => p.runway.low \in 0 .. p.runway.mid
                         /\ p.runway.high # None => p.runway.mid \in 0 .. p.runway.high
                    /\ w.uncertainty > 0 /\ ~StartIsUncertain(w) =>
                         \A began \in asked.view.not_before .. asked.view.not_after :
                           40 * (w.start - began) \in -SpanOf(w) - 40 .. SpanOf(w) + 40
                    /\ \A width \in {20, 45, 52, 67, 85}, height \in {3, 5} :
                         RowFits(asked, width, height)
  BY Zenon DEF WarningsAgree, CapsShown
<1>0. ASSUME NEW width \in {20, 45, 52, 67, 85}, NEW height \in {3, 5}
      PROVE  RowFits(asked, width, height)
  <2>1. width \in Nat /\ height \in Nat /\ height >= 3
    OBVIOUS
  <2> QED
    BY <2>1, RowsFit
<1>1. now \in Nat /\ rate \in RateEstimates
  BY DEF WarningQuestions
<1>2. /\ w \in OpenWindows(now)
      /\ w.uncertainty > 0 /\ ~StartIsUncertain(w) =>
           \A began \in asked.view.not_before .. asked.view.not_after :
             40 * (w.start - began) \in -SpanOf(w) - 40 .. SpanOf(w) + 40
  BY WindowInProgress
<1> HIDE DEF now, rate, w
<1>3. Cardinality(caps) <= 1
  <2>1. caps = ToSet(CapSection(w, rate, now))
    BY <1>1, <1>2, CapsAre
  <2>2. \A f, g \in caps : f = g
    <3>1. CASE rate # NoRate
      <4>1. caps = ToSet(CapFromRate(w, p, now))
        BY <2>1, <3>1 DEF CapSection
      <4>2. \A f, g \in ToSet(CapFromRate(w, p, now)) : f = g
        BY <1>1, <1>2, CapOfRate
      <4> QED
        BY <4>1, <4>2, Zenon
    <3>2. CASE rate = NoRate
      BY <1>1, <1>2, <2>1, <3>2, CapOfAverage, Zenon DEF CapSection
    <3> QED
      BY <3>1, <3>2
  <2>3. CASE caps = {}
    BY <2>3, FS_EmptySet
  <2>4. ASSUME NEW f \in caps PROVE Cardinality(caps) = 1
    <3>1. caps = {f}
      BY <2>2, <2>4
    <3> QED
      BY <3>1, FS_Singleton
  <2> QED
    BY <2>3, <2>4
<1>4. ASSUME w.used < FULL, NEW cap \in caps
      PROVE  LET told == IF cap.from = "rate" THEN High(rate) ELSE Pace(w, now)
             IN  /\ cap.warns => Less(AffordablePace(w, now), told)
                 /\ told.n > 0 /\ (FULL - w.used) * told.d <= ((w.reset - now) - 1) * told.n
                      => cap.warns
  BY <1>1, <1>2, <1>4, CapFollowsPace, Zenon
<1>5. ASSUME rate # NoRate
      PROVE  /\ \A edge \in ProjectionCone(w, rate, now, TRUE) :
                  edge.edge = "fast" =>
                    (edge.end.ts < w.reset <=> \E cap \in caps : cap.warns)
             /\ ~Less(p.at_reset.mid, p.at_reset.low)
             /\ ~Less(p.at_reset.high, p.at_reset.mid)
             /\ p.runway.mid # None => p.runway.low \in 0 .. p.runway.mid
             /\ p.runway.high # None => p.runway.mid \in 0 .. p.runway.high
  <2>1. \A edge \in ProjectionCone(w, rate, now, TRUE) :
          edge.edge = "fast" =>
            (edge.end.ts < w.reset <=> \E cap \in caps : cap.warns)
    BY <1>1, <1>2, <1>5, ConeMeetsCap, Zenon
  <2>2. /\ Low(rate) \in Paces /\ Mid(rate) \in Paces /\ High(rate) \in Paces
        /\ Low(rate).d = Mid(rate).d /\ Mid(rate).d = High(rate).d
        /\ Low(rate).n <= Mid(rate).n /\ Mid(rate).n <= High(rate).n
    BY <1>1, <1>5, EndsOfRate
  <2>3. /\ ~Less(AtReset(w, Mid(rate), now), AtReset(w, Low(rate), now))
        /\ RunwayAt(w, Low(rate)) # None =>
             RunwayAt(w, Mid(rate)) \in 0 .. RunwayAt(w, Low(rate))
    BY <1>1, <1>2, <2>2, FasterIsSooner
  <2>4. /\ ~Less(AtReset(w, High(rate), now), AtReset(w, Mid(rate), now))
        /\ RunwayAt(w, Mid(rate)) # None =>
             RunwayAt(w, High(rate)) \in 0 .. RunwayAt(w, Mid(rate))
    BY <1>1, <1>2, <2>2, FasterIsSooner
  <2> QED
    BY <1>1, <1>2, <2>1, <2>3, <2>4, Projected, Zenon
<1> QED
  BY <1>0, <1>2, <1>3, <1>4, <1>5, Zenon

-----------------------------------------------------------------------------
(* Sums.                                                                   *)

\* What SumFunction recurses by: a set's sum from one of its elements and the
\* sum of the others.
OneOf(s) == CHOOSE x \in s : TRUE
Added(f, g, s) == IF s = {} THEN 0 ELSE f[OneOf(s)] + g[s \ {OneOf(s)}]
Sums(g, f, S) == g = [s \in SUBSET S |-> Added(f, g, s)]

LEMMA SumIsChosen ==
  ASSUME NEW f
  PROVE  SumFunction(f) = (CHOOSE g : Sums(g, f, DOMAIN f))[DOMAIN f]
BY DEF SumFunction, SumFunctionOnSet, FoldFunctionOnSet, MapThenFoldSet, Sums, Added, OneOf

\* The others are one fewer.
LEMMA OthersAreFewer ==
  ASSUME NEW S, IsFiniteSet(S), NEW s \in SUBSET S, s # {}
  PROVE  /\ OneOf(s) \in s /\ OneOf(s) \in S /\ s \ {OneOf(s)} \in SUBSET S
         /\ Cardinality(s) \in Nat /\ Cardinality(s \ {OneOf(s)}) \in Nat
         /\ Cardinality(s \ {OneOf(s)}) = Cardinality(s) - 1
<1>1. OneOf(s) \in s
  BY DEF OneOf
<1>2. IsFiniteSet(s)
  BY FS_Subset
<1> DEFINE x == OneOf(s)
<1> HIDE DEF x
<1>3. IsFiniteSet(s \ {x}) /\ Cardinality(s \ {x}) = Cardinality(s) - 1
  BY <1>1, <1>2, FS_RemoveElement DEF x
<1> QED
  BY <1>1, <1>2, <1>3, FS_CardinalityType DEF x

\* Set by set, by their size, there is such a function.
LEMMA SumsExist ==
  ASSUME NEW S, IsFiniteSet(S), NEW f \in [S -> Nat]
  PROVE  \E g : Sums(g, f, S)
<1> DEFINE Right(g, n) == /\ g \in [SUBSET S -> Nat]
                          /\ \A s \in SUBSET S : Cardinality(s) <= n => g[s] = Added(f, g, s)
           Bad == {n \in Nat : ~ \E g : Right(g, n)}
<1>1. ASSUME NEW s \in SUBSET S, NEW g \in [SUBSET S -> Nat]
      PROVE  Added(f, g, s) \in Nat
  <2>1. CASE s = {}
    BY <2>1 DEF Added
  <2>2. CASE s # {}
    <3>1. OneOf(s) \in S /\ s \ {OneOf(s)} \in SUBSET S
      BY <2>2, OthersAreFewer
    <3>2. f[OneOf(s)] \in Nat /\ g[s \ {OneOf(s)}] \in Nat
      BY <3>1
    <3> QED
      BY <2>2, <3>2 DEF Added
  <2> QED
    BY <2>1, <2>2
<1>2. 0 \notin Bad
  <2> DEFINE g == [s \in SUBSET S |-> 0]
  <2>1. g \in [SUBSET S -> Nat]
    OBVIOUS
  <2>2. ASSUME NEW s \in SUBSET S, Cardinality(s) <= 0 PROVE g[s] = Added(f, g, s)
    <3>1. s = {}
      <4>1. IsFiniteSet(s) /\ Cardinality(s) \in Nat
        BY FS_Subset, FS_CardinalityType
      <4> QED
        BY <2>2, <4>1, FS_EmptySet
    <3> QED
      BY <3>1 DEF Added
  <2>3. Right(g, 0)
    BY <2>1, <2>2
  <2> HIDE DEF g, Right
  <2> QED
    BY <2>3
<1>3. ASSUME NEW n \in Nat, n \notin Bad PROVE n + 1 \notin Bad
  <2>1. PICK g : Right(g, n)
    BY <1>3
  <2> DEFINE h == [s \in SUBSET S |-> Added(f, g, s)]
  <2>2. h \in [SUBSET S -> Nat]
    BY <1>1, <2>1
  <2>3. ASSUME NEW s \in SUBSET S, Cardinality(s) <= n + 1 PROVE h[s] = Added(f, h, s)
    <3>1. CASE s = {}
      BY <3>1 DEF Added
    <3>2. CASE s # {}
      <4> DEFINE t == s \ {OneOf(s)}
      <4>1. t \in SUBSET S /\ Cardinality(t) <= n
        BY <2>3, <3>2, OthersAreFewer
      <4> HIDE DEF t
      <4>2. h[t] = Added(f, g, t) /\ g[t] = Added(f, g, t)
        BY <2>1, <4>1
      <4>3. h[s] = f[OneOf(s)] + g[t]
        BY <3>2 DEF Added, t
      <4> HIDE DEF h
      <4> QED
        BY <3>2, <4>2, <4>3 DEF Added, t
    <3> QED
      BY <3>1, <3>2
  <2>4. Right(h, n + 1)
    BY <2>2, <2>3
  <2> HIDE DEF h, Right
  <2> QED
    BY <2>4
<1>4. Bad = {}
  <2> SUFFICES ASSUME Bad # {} PROVE FALSE
    OBVIOUS
  <2> DEFINE m == Min(Bad)
  <2> HIDE DEF Right
  <2>1. Bad \subseteq Nat
    OBVIOUS
  <2> HIDE DEF Bad
  <2>2. m \in Bad /\ \A y \in Bad : m <= y
    BY <2>1, MinIsLeast
  <2> HIDE DEF m
  <2>3. m \in Nat /\ m # 0
    BY <1>2, <2>1, <2>2
  <2>4. m - 1 \in Nat /\ m - 1 \notin Bad
    BY <2>2, <2>3
  <2>5. m - 1 + 1 \notin Bad
    BY <1>3, <2>4
  <2> QED
    BY <2>2, <2>3, <2>5
<1>5. Cardinality(S) \in Nat
  BY FS_CardinalityType
<1>6. PICK g : Right(g, Cardinality(S))
  <2> HIDE DEF Right
  <2> QED
    BY <1>4, <1>5
<1>7. \A s \in SUBSET S : g[s] = Added(f, g, s)
  BY <1>6, FS_Subset
<1>8. g = [s \in SUBSET S |-> Added(f, g, s)]
  BY <1>6, <1>7
<1> QED
  BY <1>8 DEF Sums

\* A sum of naturals.
LEMMA SumIsNatural ==
  ASSUME NEW S, IsFiniteSet(S), NEW f \in [S -> Nat]
  PROVE  SumFunction(f) \in Nat
<1> DEFINE g == CHOOSE h : Sums(h, f, S)
           Bad == {Cardinality(s) : s \in {t \in SUBSET S : g[t] \notin Nat}}
<1>1. Sums(g, f, S)
  BY SumsExist, Zenon
<1>2. SumFunction(f) = g[S]
  <2>1. DOMAIN f = S
    OBVIOUS
  <2> QED
    BY <2>1, SumIsChosen, Zenon
<1> HIDE DEF g
<1>3. \A s \in SUBSET S : g[s] = Added(f, g, s)
  BY <1>1 DEF Sums
<1>4. Bad \subseteq Nat
  BY FS_Subset, FS_CardinalityType
<1>5. ASSUME Bad # {} PROVE FALSE
  <2> DEFINE m == Min(Bad)
  <2>1. m \in Bad /\ \A y \in Bad : m <= y
    <3> HIDE DEF Bad
    <3> QED
      BY <1>4, <1>5, MinIsLeast
  <2> HIDE DEF m
  <2>2. PICK s \in SUBSET S : g[s] \notin Nat /\ m = Cardinality(s)
    BY <2>1
  <2>3. s # {}
    <3>1. g[s] = Added(f, g, s)
      BY <1>3
    <3>2. s = {} => Added(f, g, s) = 0
      BY DEF Added
    <3> QED
      BY <2>2, <3>1, <3>2
  <2> DEFINE t == s \ {OneOf(s)}
  <2>4. /\ t \in SUBSET S /\ Cardinality(t) < m /\ OneOf(s) \in S
        /\ Cardinality(t) \in Nat /\ m \in Nat
    BY <2>2, <2>3, OthersAreFewer
  <2> HIDE DEF t
  <2>5. g[t] \in Nat
    BY <2>1, <2>4
  <2>6. g[s] = f[OneOf(s)] + g[t] /\ f[OneOf(s)] \in Nat
    BY <1>3, <2>3, <2>4 DEF Added, t
  <2> QED
    BY <2>2, <2>5, <2>6
<1>6. g[S] \in Nat
  BY <1>5
<1> QED
  BY <1>2, <1>6

\* Of some subsets of a finite set one is the smallest.
LEMMA SmallestSubset ==
  ASSUME NEW S, IsFiniteSet(S), NEW B \in SUBSET (SUBSET S), B # {}
  PROVE  \E s \in B : \A t \in B : Cardinality(s) <= Cardinality(t)
<1> DEFINE sizes == {Cardinality(s) : s \in B}
<1>1. sizes \subseteq Nat /\ sizes # {}
  BY FS_Subset, FS_CardinalityType
<1>2. Min(sizes) \in sizes /\ \A y \in sizes : Min(sizes) <= y
  <2> HIDE DEF sizes
  <2> QED
    BY <1>1, MinIsLeast
<1>3. PICK s \in B : Min(sizes) = Cardinality(s)
  BY <1>2
<1>4. \A t \in B : Cardinality(t) \in sizes
  OBVIOUS
<1> HIDE DEF sizes
<1> QED
  BY <1>2, <1>3, <1>4

\* What is summed by two functions that agree.
LEMMA SumsAgree ==
  ASSUME NEW S, IsFiniteSet(S), NEW T \in SUBSET S, NEW f, NEW r,
         \A x \in T : f[x] = r[x], NEW g, NEW h, Sums(g, f, S), Sums(h, r, T)
  PROVE  \A t \in SUBSET T : g[t] = h[t]
<1> DEFINE B == {t \in SUBSET T : g[t] # h[t]}
<1>1. IsFiniteSet(T)
  BY FS_Subset
<1>2. ASSUME B # {} PROVE FALSE
  <2>1. PICK s \in B : \A t \in B : Cardinality(s) <= Cardinality(t)
    <3>1. B \in SUBSET (SUBSET T)
      OBVIOUS
    <3> HIDE DEF B
    <3> QED
      BY <1>1, <1>2, <3>1, SmallestSubset
  <2>2. s \in SUBSET T /\ s \in SUBSET S /\ g[s] # h[s]
    BY <2>1
  <2>3. g[s] = Added(f, g, s) /\ h[s] = Added(r, h, s)
    BY <2>2 DEF Sums
  <2>4. s # {}
    BY <2>2, <2>3 DEF Added
  <2> DEFINE t == s \ {OneOf(s)}
  <2>5. /\ OneOf(s) \in T /\ t \in SUBSET T /\ Cardinality(t) < Cardinality(s)
        /\ Cardinality(t) \in Nat /\ Cardinality(s) \in Nat
    BY <1>1, <2>2, <2>4, OthersAreFewer
  <2>6. t \notin B
    <3> HIDE DEF B, t
    <3> QED
      BY <2>1, <2>5
  <2>7. g[t] = h[t]
    BY <2>5, <2>6
  <2> QED
    BY <2>2, <2>3, <2>4, <2>5, <2>7 DEF Added
<1> QED
  BY <1>2

\* The sums over a finite set exist.
LEMMA SumsExistOn ==
  ASSUME NEW T, IsFiniteSet(T), NEW f, \A x \in T : f[x] \in Nat
  PROVE  \E g : Sums(g, f, T)
<1> DEFINE r == [x \in T |-> f[x]]
<1>1. r \in [T -> Nat] /\ \A x \in T : r[x] = f[x]
  OBVIOUS
<1> HIDE DEF r
<1>2. PICK g : Sums(g, r, T)
  BY <1>1, SumsExist
<1>3. ASSUME NEW s \in SUBSET T PROVE Added(r, g, s) = Added(f, g, s)
  <2>1. CASE s = {}
    BY <2>1 DEF Added
  <2>2. CASE s # {}
    <3>1. OneOf(s) \in T
      BY <2>2, OthersAreFewer
    <3> QED
      BY <1>1, <3>1 DEF Added
  <2> QED
    BY <2>1, <2>2
<1>4. g = [s \in SUBSET T |-> Added(f, g, s)]
  BY <1>2, <1>3 DEF Sums
<1> QED
  BY <1>4 DEF Sums

\* What SumFunctionOnSet chooses.
LEMMA SumOnSetIsChosen ==
  ASSUME NEW f, NEW T
  PROVE  SumFunctionOnSet(f, T) = (CHOOSE g : Sums(g, f, T))[T]
BY DEF SumFunctionOnSet, FoldFunctionOnSet, MapThenFoldSet, Sums, Added, OneOf

\* The sums of a set hold those of its subsets.
LEMMA SumOfSubset ==
  ASSUME NEW S, IsFiniteSet(S), NEW f, \A x \in S : f[x] \in Nat,
         NEW g, Sums(g, f, S), NEW T \in SUBSET S, NEW r, \A x \in T : f[x] = r[x]
  PROVE  g[T] = SumFunctionOnSet(r, T)
<1> DEFINE h == CHOOSE h : Sums(h, r, T)
<1>1. IsFiniteSet(T) /\ \A x \in T : r[x] \in Nat
  BY FS_Subset
<1>2. Sums(h, r, T)
  BY <1>1, SumsExistOn, Zenon
<1> HIDE DEF h
<1>3. \A t \in SUBSET T : g[t] = h[t]
  BY <1>2, SumsAgree
<1>4. SumFunctionOnSet(r, T) = h[T]
  BY SumOnSetIsChosen, Zenon DEF h
<1> QED
  BY <1>3, <1>4

\* A sum depends on the values alone.
LEMMA SumOfSame ==
  ASSUME NEW T, IsFiniteSet(T), NEW f, NEW r, \A x \in T : f[x] \in Nat /\ f[x] = r[x]
  PROVE  SumFunctionOnSet(f, T) = SumFunctionOnSet(r, T)
<1>1. PICK g : Sums(g, f, T)
  BY SumsExistOn
<1>2. g[T] = SumFunctionOnSet(f, T) /\ g[T] = SumFunctionOnSet(r, T)
  BY <1>1, SumOfSubset
<1> QED
  BY <1>2

\* A sum, one element first and the others after it.
LEMMA SumStepByStep ==
  ASSUME NEW T, IsFiniteSet(T), NEW f, \A x \in T : f[x] \in Nat
  PROVE  /\ T = {} => SumFunctionOnSet(f, T) = 0
         /\ T # {} => SumFunctionOnSet(f, T)
                        = f[OneOf(T)] + SumFunctionOnSet(f, T \ {OneOf(T)})
         /\ SumFunctionOnSet(f, T) \in Nat
<1>1. PICK g : Sums(g, f, T)
  BY SumsExistOn
<1>2. \A s \in SUBSET T : g[s] = SumFunctionOnSet(f, s) /\ g[s] = Added(f, g, s)
  <2>1. \A s \in SUBSET T : g[s] = SumFunctionOnSet(f, s)
    BY <1>1, SumOfSubset
  <2> QED
    BY <1>1, <2>1 DEF Sums
<1>3. SumFunctionOnSet(f, T) \in Nat
  <2> DEFINE r == [x \in T |-> f[x]]
  <2>1. r \in [T -> Nat] /\ DOMAIN r = T /\ \A x \in T : f[x] = r[x]
    OBVIOUS
  <2> HIDE DEF r
  <2>2. SumFunction(r) \in Nat
    BY <2>1, SumIsNatural
  <2>3. SumFunction(r) = SumFunctionOnSet(r, T)
    BY <2>1, Zenon DEF SumFunction
  <2>4. SumFunctionOnSet(f, T) = SumFunctionOnSet(r, T)
    BY <2>1, SumOfSame
  <2> QED
    BY <2>2, <2>3, <2>4
<1>4. T \in SUBSET T /\ T \ {OneOf(T)} \in SUBSET T
  OBVIOUS
<1>5. g[T] = SumFunctionOnSet(f, T)
      /\ g[T \ {OneOf(T)}] = SumFunctionOnSet(f, T \ {OneOf(T)})
      /\ g[T] = Added(f, g, T)
  BY <1>2, <1>4, Zenon
<1> QED
  BY <1>3, <1>5 DEF Added

\* Any element may come first.
LEMMA SumWithout ==
  ASSUME NEW T, IsFiniteSet(T), NEW f, \A x \in T : f[x] \in Nat, NEW x \in T
  PROVE  SumFunctionOnSet(f, T) = f[x] + SumFunctionOnSet(f, T \ {x})
<1> DEFINE sum(s) == SumFunctionOnSet(f, s)
           B == {s \in SUBSET T : \E y \in s : sum(s) # f[y] + sum(s \ {y})}
<1>1. \A s \in SUBSET T : /\ IsFiniteSet(s) /\ sum(s) \in Nat
                          /\ s # {} => sum(s) = f[OneOf(s)] + sum(s \ {OneOf(s)})
  <2>1. ASSUME NEW s \in SUBSET T PROVE IsFiniteSet(s) /\ \A y \in s : f[y] \in Nat
    BY FS_Subset
  <2> QED
    BY <2>1, SumStepByStep
<1> HIDE DEF sum
<1>2. ASSUME B # {} PROVE FALSE
  <2>1. PICK s \in B : \A t \in B : Cardinality(s) <= Cardinality(t)
    <3>1. B \in SUBSET (SUBSET T)
      OBVIOUS
    <3> HIDE DEF B
    <3> QED
      BY <1>2, <3>1, SmallestSubset
  <2>2. PICK y \in s : sum(s) # f[y] + sum(s \ {y})
    BY <2>1
  <2> DEFINE c == OneOf(s)
             s1 == s \ {c}
             s2 == s \ {y}
             s3 == s \ {c, y}
  <2>3. s \in SUBSET T /\ s # {} /\ c \in s /\ c \in T /\ y \in T
    BY <2>1, <2>2, OthersAreFewer
  <2>4. sum(s) = f[c] + sum(s1) /\ c # y
    BY <1>1, <2>2, <2>3
  <2> HIDE DEF c
  <2>5. \A z \in s : s \ {z} \notin B
    <3> SUFFICES ASSUME NEW z \in s PROVE s \ {z} \notin B
      OBVIOUS
    <3>1. /\ IsFiniteSet(s)
          /\ Cardinality(s \ {z}) = Cardinality(s) - 1
          /\ Cardinality(s) \in Nat
      BY <1>1, <2>3, FS_RemoveElement, FS_CardinalityType
    <3> HIDE DEF B
    <3> QED
      BY <2>1, <3>1
  <2>6. s1 \in SUBSET T /\ s2 \in SUBSET T /\ s3 \in SUBSET T
        /\ y \in s1 /\ c \in s2 /\ s1 \ {y} = s3 /\ s2 \ {c} = s3
    BY <2>3, <2>4
  <2>7. s1 \notin B /\ s2 \notin B
    BY <2>3, <2>5
  <2> HIDE DEF s1, s2, s3
  <2>8. sum(s1) = f[y] + sum(s3)
    BY <2>6, <2>7
  <2>9. sum(s2) = f[c] + sum(s3)
    BY <2>6, <2>7
  <2>10. f[c] \in Nat /\ f[y] \in Nat /\ sum(s3) \in Nat
    BY <1>1, <2>3, <2>6
  <2>11. sum(s) # f[y] + sum(s2)
    BY <2>2 DEF s2
  <2> QED
    BY <2>4, <2>8, <2>9, <2>10, <2>11
<1>3. sum(T) = f[x] + sum(T \ {x})
  BY <1>2
<1> QED
  BY <1>3 DEF sum

\* One more summand.
LEMMA SumOfMore ==
  ASSUME NEW T, IsFiniteSet(T), NEW x, x \notin T, NEW f, \A y \in T \cup {x} : f[y] \in Nat
  PROVE  SumFunctionOnSet(f, T \cup {x}) = f[x] + SumFunctionOnSet(f, T)
<1> DEFINE U == T \cup {x}
<1>1. x \in U /\ U \ {x} = T /\ IsFiniteSet(U) /\ \A y \in U : f[y] \in Nat
  BY FS_AddElement
<1> HIDE DEF U
<1>2. SumFunctionOnSet(f, U) = f[x] + SumFunctionOnSet(f, U \ {x})
  BY <1>1, SumWithout
<1> QED
  BY <1>1, <1>2 DEF U

\* A sum over two sets apart.
LEMMA SumOfBoth ==
  ASSUME NEW S, IsFiniteSet(S), NEW T, IsFiniteSet(T), S \cap T = {},
         NEW f, \A x \in S \cup T : f[x] \in Nat
  PROVE  SumFunctionOnSet(f, S \cup T) = SumFunctionOnSet(f, S) + SumFunctionOnSet(f, T)
<1> DEFINE sum(s) == SumFunctionOnSet(f, s)
           B == {t \in SUBSET T : sum(S \cup t) # sum(S) + sum(t)}
<1>1. ASSUME B # {} PROVE FALSE
  <2>1. PICK t \in B : \A u \in B : Cardinality(t) <= Cardinality(u)
    <3>1. B \in SUBSET (SUBSET T)
      OBVIOUS
    <3> HIDE DEF B
    <3> QED
      BY <1>1, <3>1, SmallestSubset
  <2>2. t \in SUBSET T /\ sum(S \cup t) # sum(S) + sum(t)
    BY <2>1
  <2>3. /\ \A s \in SUBSET T : IsFiniteSet(s) /\ sum(s) \in Nat
        /\ sum(S) \in Nat /\ sum({}) = 0
    <3>1. ASSUME NEW s \in SUBSET T PROVE IsFiniteSet(s) /\ \A y \in s : f[y] \in Nat
      BY FS_Subset
    <3>2. \A y \in S : f[y] \in Nat
      OBVIOUS
    <3>3. {} \in SUBSET T
      OBVIOUS
    <3>4. sum({}) = 0
      BY <3>1, <3>3, SumStepByStep
    <3> QED
      BY <3>1, <3>2, <3>4, SumStepByStep
  <2>4. t # {}
    <3>1. S \cup {} = S
      OBVIOUS
    <3> HIDE DEF sum
    <3> QED
      BY <2>2, <2>3, <3>1
  <2> DEFINE x == OneOf(t)
             u == t \ {x}
  <2>5. /\ x \in t /\ x \in T /\ u \in SUBSET T /\ Cardinality(u) = Cardinality(t) - 1
        /\ Cardinality(t) \in Nat
    BY <2>2, <2>4, OthersAreFewer
  <2> HIDE DEF x
  <2>6. sum(S \cup u) = sum(S) + sum(u)
    <3>1. u \notin B
      <4> HIDE DEF B, u
      <4> QED
        BY <2>1, <2>5
    <3> HIDE DEF sum, u
    <3> QED
      BY <2>5, <3>1
  <2>7. sum(t) = f[x] + sum(u) /\ f[x] \in Nat
    BY <2>2, <2>3, <2>5, SumWithout
  <2>8. sum(S \cup t) = f[x] + sum(S \cup u)
    <3>1. IsFiniteSet(S \cup u) /\ x \notin S \cup u /\ (S \cup u) \cup {x} = S \cup t
          /\ \A y \in (S \cup u) \cup {x} : f[y] \in Nat
      <4>1. IsFiniteSet(u)
        BY <2>3, <2>5
      <4>2. IsFiniteSet(S \cup u)
        BY <4>1, FS_Union
      <4> QED
        BY <2>2, <2>5, <4>2
    <3> DEFINE V == S \cup u
    <3> HIDE DEF V
    <3>2. sum(V \cup {x}) = f[x] + sum(V)
      BY <3>1, SumOfMore DEF V
    <3> HIDE DEF sum
    <3> QED
      BY <3>1, <3>2 DEF V
  <2>9. sum(u) \in Nat
    BY <2>3, <2>5
  <2> HIDE DEF sum, u
  <2> QED
    BY <2>2, <2>3, <2>6, <2>7, <2>8, <2>9
<1>2. T \notin B
  BY <1>1
<1> QED
  BY <1>2

\* More summands, a greater sum.
LEMMA SumGrows ==
  ASSUME NEW T, IsFiniteSet(T), NEW S \in SUBSET T, NEW f, \A x \in T : f[x] \in Nat
  PROVE  SumFunctionOnSet(f, S) <= SumFunctionOnSet(f, T)
<1> DEFINE rest == T \ S
<1>1. /\ IsFiniteSet(S) /\ IsFiniteSet(rest) /\ S \cap rest = {} /\ S \cup rest = T
      /\ \A x \in S : f[x] \in Nat
      /\ \A x \in rest : f[x] \in Nat
  BY FS_Subset, FS_Difference
<1>2. \A x \in S \cup rest : f[x] \in Nat
  OBVIOUS
<1> HIDE DEF rest
<1>3. SumFunctionOnSet(f, S \cup rest) = SumFunctionOnSet(f, S) + SumFunctionOnSet(f, rest)
  BY <1>1, <1>2, SumOfBoth
<1>4. SumFunctionOnSet(f, S) \in Nat /\ SumFunctionOnSet(f, rest) \in Nat
  BY <1>1, SumStepByStep
<1>5. SumFunctionOnSet(f, T) = SumFunctionOnSet(f, S) + SumFunctionOnSet(f, rest)
  BY <1>1, <1>3, Zenon
<1> DEFINE a == SumFunctionOnSet(f, S)
           b == SumFunctionOnSet(f, rest)
           c == SumFunctionOnSet(f, T)
<1> HIDE DEF a, b, c
<1>6. a \in Nat /\ b \in Nat /\ c = a + b
  BY <1>4, <1>5, Zenon DEF a, b, c
<1>7. a <= c
  BY <1>6
<1> QED
  BY <1>7 DEF a, c

-----------------------------------------------------------------------------
(* Burn by hour.                                                           *)

\* Any length of time, any use of its ticks, any polls missed.
BurnFor(n) ==
  [about : {"burn"}, use : [1 .. n -> Nat], restart : 0 .. n, published : BOOLEAN,
   polled : SUBSET (0 .. n)]
BurnQuestions == UNION {BurnFor(n) : n \in Nat}

\* What is used in some ticks is a sum of naturals.
LEMMA UsedIsNatural ==
  ASSUME NEW n \in Nat, NEW q \in BurnFor(n), NEW A
  PROVE  /\ UsedIn(q, A) \in Nat /\ UsedIn(q, A) = SumFunctionOnSet(q.use, A \cap (1 .. n))
         /\ IsFiniteSet(A \cap (1 .. n)) /\ \A t \in A \cap (1 .. n) : q.use[t] \in Nat
<1>1. DOMAIN q.use = 1 .. n /\ \A t \in 1 .. n : q.use[t] \in Nat
  BY DEF BurnFor
<1>2. IsFiniteSet(1 .. n)
  BY FS_Interval
<1> DEFINE T == A \cap (1 .. n)
<1>3. IsFiniteSet(T) /\ \A t \in T : q.use[t] \in Nat
  BY <1>1, <1>2, FS_Subset
<1> HIDE DEF T
<1>4. SumFunctionOnSet(q.use, T) \in Nat
  BY <1>3, SumStepByStep
<1>5. UsedIn(q, A) = SumFunctionOnSet(q.use, T)
  BY <1>1 DEF UsedIn, T
<1> QED
  BY <1>3, <1>4, <1>5 DEF T

\* More ticks, more use.
LEMMA UsedGrows ==
  ASSUME NEW n \in Nat, NEW q \in BurnFor(n), NEW A, NEW B, A \cap (1 .. n) \subseteq B
  PROVE  UsedIn(q, A) <= UsedIn(q, B)
<1> DEFINE S == A \cap (1 .. n)
           T == B \cap (1 .. n)
<1>1. S \in SUBSET T
  OBVIOUS
<1>2. /\ IsFiniteSet(T) /\ \A t \in T : q.use[t] \in Nat
      /\ UsedIn(q, A) = SumFunctionOnSet(q.use, S) /\ UsedIn(q, B) = SumFunctionOnSet(q.use, T)
  BY UsedIsNatural
<1> HIDE DEF S, T
<1>3. SumFunctionOnSet(q.use, S) <= SumFunctionOnSet(q.use, T)
  BY <1>1, <1>2, SumGrows
<1> QED
  BY <1>2, <1>3

\* What is used in ticks apart is used in each.
LEMMA UsedInBoth ==
  ASSUME NEW n \in Nat, NEW q \in BurnFor(n), NEW A, NEW B, A \cap B = {}
  PROVE  UsedIn(q, A \cup B) = UsedIn(q, A) + UsedIn(q, B)
<1> DEFINE S == A \cap (1 .. n)
           T == B \cap (1 .. n)
<1>1. S \cap T = {} /\ (A \cup B) \cap (1 .. n) = S \cup T
  OBVIOUS
<1>2. /\ IsFiniteSet(T) /\ \A t \in T : q.use[t] \in Nat
      /\ IsFiniteSet(S) /\ \A t \in S : q.use[t] \in Nat
      /\ UsedIn(q, A) = SumFunctionOnSet(q.use, S) /\ UsedIn(q, B) = SumFunctionOnSet(q.use, T)
      /\ UsedIn(q, A \cup B) = SumFunctionOnSet(q.use, (A \cup B) \cap (1 .. n))
  BY UsedIsNatural
<1> HIDE DEF S, T
<1>3. \A t \in S \cup T : q.use[t] \in Nat
  BY <1>2
<1>4. SumFunctionOnSet(q.use, S \cup T)
        = SumFunctionOnSet(q.use, S) + SumFunctionOnSet(q.use, T)
  BY <1>1, <1>2, <1>3, SumOfBoth
<1> QED
  BY <1>1, <1>2, <1>4, Zenon

\* What is used in a stretch of ticks, then in the next.
LEMMA UsedInTurn ==
  ASSUME NEW n \in Nat, NEW q \in BurnFor(n), NEW l \in Nat, NEW m \in Nat, NEW u \in Nat,
         l <= m + 1, m <= u
  PROVE  UsedIn(q, l .. u) = UsedIn(q, l .. m) + UsedIn(q, m + 1 .. u)
<1> DEFINE A == l .. m
           B == m + 1 .. u
<1>1. A \cap B = {} /\ l .. u = A \cup B
  OBVIOUS
<1> HIDE DEF A, B
<1>2. UsedIn(q, A \cup B) = UsedIn(q, A) + UsedIn(q, B)
  BY <1>1, UsedInBoth
<1> QED
  BY <1>1, <1>2 DEF A, B

\* What a poll after a tick reads.
Level(q, t) ==
  IF q.restart = NoRestart \/ t < q.restart THEN UsedIn(q, 1 .. t) ELSE UsedIn(q, q.restart .. t)

\* The level a poll reports rises by what was used since the one before,
\* unless the window restarted between the two.
LEMMA LevelsRise ==
  ASSUME NEW n \in Nat, NEW q \in BurnFor(n), NEW a \in 0 .. n, NEW b \in 0 .. n, a < b
  PROVE  /\ Level(q, a) \in Nat /\ Level(q, b) \in Nat
         /\ Level(q, b) - Level(q, a) <= UsedIn(q, a + 1 .. b)
<1>1. q.restart \in 0 .. n /\ NoRestart = 0
  BY DEF BurnFor, NoRestart
<1> DEFINE U(l, u) == UsedIn(q, l .. u)
<1>2. /\ U(1, a) \in Nat /\ U(1, b) \in Nat /\ U(a + 1, b) \in Nat
      /\ U(q.restart, a) \in Nat /\ U(q.restart, b) \in Nat
  BY UsedIsNatural
<1>3. CASE q.restart = 0 \/ b < q.restart
  <2>1. Level(q, a) = U(1, a) /\ Level(q, b) = U(1, b)
    BY <1>1, <1>3 DEF Level
  <2>2. U(1, b) = U(1, a) + U(a + 1, b)
    BY UsedInTurn
  <2> HIDE DEF U
  <2>3. Level(q, b) - Level(q, a) <= U(a + 1, b)
    BY <1>2, <2>1, <2>2
  <2> QED
    BY <1>2, <2>1, <2>3 DEF U
<1>4. CASE q.restart # 0 /\ ~(b < q.restart) /\ a < q.restart
  <2>1. Level(q, a) = U(1, a) /\ Level(q, b) = U(q.restart, b)
    BY <1>1, <1>4 DEF Level
  <2>2. U(q.restart, b) <= U(a + 1, b)
    <3>1. (q.restart .. b) \cap (1 .. n) \subseteq a + 1 .. b
      BY <1>1, <1>4
    <3> QED
      BY <3>1, UsedGrows
  <2> HIDE DEF U
  <2>3. Level(q, b) - Level(q, a) <= U(a + 1, b)
    BY <1>2, <2>1, <2>2
  <2> QED
    BY <1>2, <2>1, <2>3 DEF U
<1>5. CASE q.restart # 0 /\ ~(a < q.restart)
  <2>1. Level(q, a) = U(q.restart, a) /\ Level(q, b) = U(q.restart, b)
    BY <1>1, <1>5 DEF Level
  <2>2. U(q.restart, b) = U(q.restart, a) + U(a + 1, b)
    <3>1. q.restart \in Nat /\ a \in Nat /\ b \in Nat /\ q.restart <= a + 1 /\ a <= b
      BY <1>1, <1>5
    <3> QED
      BY <3>1, UsedInTurn
  <2> HIDE DEF U
  <2>3. Level(q, b) - Level(q, a) <= U(a + 1, b)
    BY <1>2, <2>1, <2>2
  <2> QED
    BY <1>2, <2>1, <2>3 DEF U
<1> QED
  BY <1>1, <1>3, <1>4, <1>5

\* The readings of a question, each at its tick.
LEMMA BurnReadingsAre ==
  ASSUME NEW n \in Nat, NEW q \in BurnFor(n)
  PROVE  /\ Timed(BurnReadings(q))
         /\ \A p \in BurnReadings(q) : /\ p.ts \in q.polled /\ p.ts \in 0 .. n
                                       /\ p.used = Level(q, p.ts)
         /\ \A p \in BurnReadings(q) : q.restart = NoRestart => p.reset = 9
         /\ \A t \in q.polled : \E p \in BurnReadings(q) : p.ts = t
<1> DEFINE reset(t) == IF q.restart = NoRestart \/ t < q.restart \/ ~q.published THEN 9 ELSE 19
           reading(t) == [ts |-> t, used |-> Level(q, t), reset |-> reset(t)]
           S == {reading(t) : t \in q.polled}
<1>1. BurnReadings(q) = S
  BY Zenon DEF BurnReadings, Level
<1>2. q.polled \in SUBSET (0 .. n)
  BY DEF BurnFor
<1>3. \A t : /\ reading(t).ts = t /\ reading(t).used = Level(q, t)
             /\ q.restart = NoRestart => reading(t).reset = 9
  OBVIOUS
<1> HIDE DEF reading
<1>4. IsFiniteSet(S)
  <2>1. IsFiniteSet(0 .. n)
    BY FS_Interval
  <2>2. IsFiniteSet(q.polled)
    BY <1>2, <2>1, FS_Subset
  <2> DEFINE T == q.polled
             image == [t \in T |-> reading(t)]
  <2>3. image \in Surjection(T, S)
    BY DEF Surjection
  <2> HIDE DEF T, S, image
  <2> QED
    BY <2>2, <2>3, FS_Surjection DEF T
<1>5. /\ \A p \in S : /\ p.ts \in q.polled /\ p.ts \in 0 .. n /\ p.used = Level(q, p.ts)
                      /\ q.restart = NoRestart => p.reset = 9
                      /\ p = reading(p.ts)
      /\ \A t \in q.polled : \E p \in S : p.ts = t
  BY <1>2, <1>3
<1> HIDE DEF S
<1>6. Timed(S)
  BY <1>4, <1>5 DEF Timed
<1> QED
  BY <1>1, <1>5, <1>6

\* A step that is placed is what was used between its two readings.
LEMMA StepIsUsed ==
  ASSUME NEW n \in Nat, NEW q \in BurnFor(n), NEW a \in BurnReadings(q),
         NEW b \in BurnReadings(q), a.ts < b.ts
  PROVE  /\ BurnStep(a, b) \in Nat
         /\ BurnStep(a, b) <= UsedIn(q, a.ts + 1 .. b.ts)
         /\ BurnStep(a, b) > 0 => b.ts - a.ts <= HOUR
<1>1. /\ a.ts \in 0 .. n /\ a.used = Level(q, a.ts)
      /\ b.ts \in 0 .. n /\ b.used = Level(q, b.ts)
  BY BurnReadingsAre
<1>2. /\ a.used \in Nat /\ b.used \in Nat
      /\ b.used - a.used <= UsedIn(q, a.ts + 1 .. b.ts)
  BY <1>1, LevelsRise
<1>3. UsedIn(q, a.ts + 1 .. b.ts) \in Nat
  BY UsedIsNatural
<1> DEFINE step == BurnStep(a, b)
<1>4. \/ step = 0
      \/ step = b.used - a.used /\ b.used > a.used /\ b.ts - a.ts <= HOUR
  BY DEF BurnStep
<1> HIDE DEF step
<1>5. CASE step = 0
  BY <1>3, <1>5 DEF step
<1>6. CASE step = b.used - a.used /\ b.used > a.used /\ b.ts - a.ts <= HOUR
  BY <1>2, <1>6 DEF step
<1> QED
  BY <1>4, <1>5, <1>6

\* The steps between the readings, in order.
StepsOf(run) == [i \in 2 .. Len(run) |-> BurnStep(run[i - 1], run[i])]

\* The readings in order, and their steps.
LEMMA RunOfReadings ==
  ASSUME NEW n \in Nat, NEW q \in BurnFor(n)
  PROVE  LET run   == ByTime(BurnReadings(q))
             steps == StepsOf(run)
         IN  /\ Len(run) \in Nat
             /\ \A i \in 1 .. Len(run) : run[i] \in BurnReadings(q) /\ run[i].ts \in 0 .. n
             /\ \A i, j \in 1 .. Len(run) : i < j => run[i].ts < run[j].ts
             /\ \A t \in q.polled : \E i \in 1 .. Len(run) : run[i].ts = t
             /\ \A i \in 2 .. Len(run) :
                  /\ steps[i] = BurnStep(run[i - 1], run[i]) /\ steps[i] \in Nat
                  /\ steps[i] <= UsedIn(q, run[i - 1].ts + 1 .. run[i].ts)
                  /\ steps[i] > 0 => run[i].ts - run[i - 1].ts <= HOUR
<1> DEFINE R     == BurnReadings(q)
           run   == ByTime(R)
           steps == StepsOf(run)
<1>1. /\ Timed(R) /\ (\A p \in R : p.ts \in 0 .. n)
      /\ \A t \in q.polled : \E p \in R : p.ts = t
  BY BurnReadingsAre
<1> HIDE DEF R
<1>2. /\ run \in Seq(R)
      /\ \A p \in R : \E i \in 1 .. Len(run) : run[i] = p
      /\ \A i, j \in 1 .. Len(run) : i < j => run[i].ts < run[j].ts
  BY <1>1, ByTimeSorts
<1>3. \A i \in 2 .. Len(run) : steps[i] = BurnStep(run[i - 1], run[i])
  BY DEF StepsOf
<1> HIDE DEF run, steps
<1>4. Len(run) \in Nat /\ \A i \in 1 .. Len(run) : run[i] \in R
  BY <1>2
<1>5. ASSUME NEW i \in 2 .. Len(run)
      PROVE  /\ steps[i] \in Nat
             /\ steps[i] <= UsedIn(q, run[i - 1].ts + 1 .. run[i].ts)
             /\ steps[i] > 0 => run[i].ts - run[i - 1].ts <= HOUR
  <2>1. i \in 1 .. Len(run) /\ i - 1 \in 1 .. Len(run) /\ i - 1 < i
    BY <1>4
  <2>2. run[i - 1] \in R /\ run[i] \in R /\ run[i - 1].ts < run[i].ts
    BY <1>2, <1>4, <2>1
  <2> QED
    BY <1>3, <2>2, StepIsUsed DEF R
<1>6. \A t \in q.polled : \E i \in 1 .. Len(run) : run[i].ts = t
  BY <1>1, <1>2
<1>7. \A i \in 1 .. Len(run) : run[i] \in R /\ run[i].ts \in 0 .. n
  BY <1>1, <1>4
<1> QED
  BY <1>2, <1>3, <1>4, <1>5, <1>6, <1>7, Zenon DEF R, run, steps

\* The ticks whose use an hour may show.
Reaching(q, h) == {t \in DOMAIN q.use : \E u \in t .. t + HOUR - 1 : HourOf(u) = h}

\* An hour shows no more than the ticks that reach into it used.
LEMMA HourShowsItsUse ==
  ASSUME NEW n \in Nat, NEW q \in BurnFor(n), NEW h
  PROVE  LET run   == ByTime(BurnReadings(q))
             steps == StepsOf(run)
         IN  SumFunctionOnSet(steps, {i \in 2 .. Len(run) : HourOf(run[i].ts) = h})
               <= UsedIn(q, Reaching(q, h))
<1> DEFINE run   == ByTime(BurnReadings(q))
           steps == StepsOf(run)
           N     == Len(run)
           C(k)  == {i \in 2 .. k : HourOf(run[i].ts) = h}
           sum(k) == SumFunctionOnSet(steps, C(k))
           upto(k) == UsedIn(q, Reaching(q, h) \cap (1 .. run[k].ts))
           S == {k \in 0 .. N : k = 0 \/ sum(k) <= upto(k)}
<1>1. /\ N \in Nat
      /\ \A i \in 1 .. N : run[i].ts \in 0 .. n
      /\ \A i, j \in 1 .. N : i < j => run[i].ts < run[j].ts
      /\ \A i \in 2 .. N :
           /\ steps[i] \in Nat
           /\ steps[i] <= UsedIn(q, run[i - 1].ts + 1 .. run[i].ts)
           /\ steps[i] > 0 => run[i].ts - run[i - 1].ts <= HOUR
  BY RunOfReadings, Zenon
<1> HIDE DEF run, steps, N
<1>2. DOMAIN q.use = 1 .. n
  BY DEF BurnFor
<1>3. ASSUME NEW k \in 0 .. N
      PROVE  /\ IsFiniteSet(C(k)) /\ sum(k) \in Nat
             /\ C(k) \subseteq 2 .. N
             /\ \A i \in C(k) : steps[i] \in Nat
             /\ C(k) = {} => sum(k) = 0
  <2>1. C(k) \subseteq 2 .. k /\ 2 .. k \subseteq 2 .. N
    BY <1>1
  <2>2. IsFiniteSet(2 .. k)
    BY <1>1, FS_Interval
  <2> DEFINE T == C(k)
  <2> HIDE DEF C
  <2>3. IsFiniteSet(T) /\ \A i \in T : steps[i] \in Nat
    BY <1>1, <2>1, <2>2, FS_Subset
  <2> HIDE DEF T
  <2>4. SumFunctionOnSet(steps, T) \in Nat /\ (T = {} => SumFunctionOnSet(steps, T) = 0)
    BY <2>3, SumStepByStep
  <2> QED
    BY <2>1, <2>3, <2>4 DEF T
<1>4. \A k : upto(k) \in Nat
  BY UsedIsNatural
<1>5. 0 \in S
  BY <1>1
<1>6. ASSUME NEW k \in 1 .. N, k - 1 \in S PROVE sum(k) <= upto(k)
  <2>0. k \in 0 .. N /\ k - 1 \in 0 .. N
    BY <1>1
  <2>1. CASE k = 1
    <3>1. C(k) = {}
      BY <2>1
    <3>2. sum(k) = 0
      BY <1>3, <2>0, <3>1
    <3> HIDE DEF sum, upto
    <3> QED
      BY <1>4, <3>2
  <2>2. CASE k # 1
    <3> DEFINE a == run[k - 1].ts
               b == run[k].ts
               near == Reaching(q, h)
    <3>1. k \in 2 .. N /\ k - 1 \in 1 .. N /\ k - 1 < k
      BY <1>1, <2>2
    <3>2. a \in 0 .. n /\ b \in 0 .. n /\ a < b
      BY <1>1, <3>1
    <3>3. sum(k - 1) <= upto(k - 1)
      BY <1>6, <3>1
    <3> DEFINE more == UsedIn(q, near \cap (a + 1 .. b))
    <3>4. upto(k) = upto(k - 1) + more
      <4> DEFINE A == near \cap (1 .. a)
                 B == near \cap (a + 1 .. b)
      <4>1. A \cap B = {} /\ A \cup B = near \cap (1 .. b)
        <5> HIDE DEF near, a, b
        <5> QED
          BY <3>2
      <4> HIDE DEF A, B
      <4>2. UsedIn(q, A \cup B) = UsedIn(q, A) + UsedIn(q, B)
        BY <4>1, UsedInBoth
      <4>3. upto(k) = UsedIn(q, A \cup B) /\ upto(k - 1) = UsedIn(q, A)
        BY <4>1 DEF A
      <4> HIDE DEF upto
      <4> QED
        BY <4>2, <4>3 DEF B
    <3>5. more \in Nat /\ upto(k - 1) \in Nat
      BY UsedIsNatural
    <3>8. sum(k - 1) \in Nat
      BY <1>3, <2>0
    <3>6. CASE HourOf(b) # h
      <4>1. C(k) = C(k - 1)
        BY <3>1, <3>6
      <4>2. sum(k) = sum(k - 1)
        BY <4>1
      <4> HIDE DEF sum, upto, more
      <4> QED
        BY <3>3, <3>4, <3>5, <3>8, <4>2
    <3>7. CASE HourOf(b) = h
      <4>1. C(k) = C(k - 1) \cup {k} /\ k \notin C(k - 1)
        BY <3>1, <3>7
      <4>2. sum(k) = steps[k] + sum(k - 1)
        <5> DEFINE T == C(k - 1)
        <5>1. IsFiniteSet(T) /\ k \notin T /\ \A i \in T \cup {k} : steps[i] \in Nat
          BY <1>1, <1>3, <2>0, <3>1, <4>1
        <5> HIDE DEF T
        <5>2. SumFunctionOnSet(steps, T \cup {k}) = steps[k] + SumFunctionOnSet(steps, T)
          BY <5>1, SumOfMore
        <5> QED
          BY <4>1, <5>2 DEF T
      <4>3. steps[k] <= more /\ steps[k] \in Nat
        <5>1. steps[k] \in Nat /\ steps[k] <= UsedIn(q, a + 1 .. b)
              /\ (steps[k] > 0 => b - a <= HOUR)
          BY <1>1, <3>1
        <5>2. CASE steps[k] > 0
          <6>1. \A t \in a + 1 .. b : b \in t .. t + HOUR - 1 /\ t \in 1 .. n
            <7> HIDE DEF a, b
            <7>1. HOUR \in Nat
              BY ChartsAssumption
            <7> QED
              BY <3>2, <5>1, <5>2, <7>1
          <6>2. a + 1 .. b \subseteq near
            <7> HIDE DEF a, b
            <7> QED
              BY <1>2, <3>7, <6>1 DEF Reaching
          <6>3. near \cap (a + 1 .. b) = a + 1 .. b
            <7> HIDE DEF near
            <7> QED
              BY <6>2
          <6> QED
            BY <5>1, <6>3
        <5>3. CASE ~(steps[k] > 0)
          <6> HIDE DEF more
          <6> QED
            BY <3>5, <5>1, <5>3
        <5> QED
          BY <5>2, <5>3
      <4> HIDE DEF sum, upto, more
      <4> QED
        BY <3>3, <3>4, <3>5, <3>8, <4>2, <4>3
    <3> QED
      BY <3>6, <3>7
  <2> QED
    BY <2>1, <2>2
<1>7. N \in S
  <2>1. \A k \in 1 .. N : k - 1 \in S => k \in S
    <3> HIDE DEF sum, upto
    <3> QED
      BY <1>6
  <2>2. N \in 0 .. N
    BY <1>1
  <2> HIDE DEF S
  <2> QED
    BY <1>1, <1>5, <2>1, <2>2, Throughout
<1>8. sum(N) <= UsedIn(q, Reaching(q, h))
  <2>1. CASE N = 0
    <3>1. C(N) = {}
      BY <2>1
    <3>2. sum(N) = 0
      BY <1>1, <1>3, <2>1, <3>1
    <3>3. UsedIn(q, Reaching(q, h)) \in Nat
      BY UsedIsNatural
    <3> HIDE DEF sum
    <3> QED
      BY <3>2, <3>3
  <2>2. CASE N # 0
    <3>1. sum(N) <= upto(N)
      BY <1>7, <2>2
    <3>2. upto(N) <= UsedIn(q, Reaching(q, h))
      <4>1. (Reaching(q, h) \cap (1 .. run[N].ts)) \cap (1 .. n) \subseteq Reaching(q, h)
        OBVIOUS
      <4> QED
        BY <4>1, UsedGrows
    <3>3. sum(N) \in Nat /\ upto(N) \in Nat /\ UsedIn(q, Reaching(q, h)) \in Nat
      <4>1. N \in 0 .. N
        BY <1>1
      <4>2. sum(N) \in Nat
        BY <1>3, <4>1
      <4> QED
        BY <4>2, UsedIsNatural
    <3> HIDE DEF sum, upto
    <3> QED
      BY <3>1, <3>2, <3>3
  <2> QED
    BY <2>1, <2>2
<1> QED
  BY <1>8 DEF run, steps, N

\* Each element is in the part of its class, and `b` has the sum of each part.
ByClass(I, f, M, class, part, b) ==
  /\ IsFiniteSet(I) /\ M \in Nat
  /\ \A i \in I : f[i] \in Nat /\ class[i] \in 0 .. M - 1
  /\ \A h \in 0 .. M - 1 : /\ part[h] \in SUBSET I
                           /\ \A i \in I : i \in part[h] <=> class[i] = h
                           /\ b[h] = SumFunctionOnSet(f, part[h])

\* A sum by classes.
LEMMA SumByClass ==
  ASSUME NEW I, NEW f, NEW M, NEW class, NEW part, NEW b, ByClass(I, f, M, class, part, b)
  PROVE  SumFunctionOnSet(b, 0 .. M - 1) = SumFunctionOnSet(f, I)
<1> USE DEF ByClass
<1> DEFINE below(m) == {i \in I : class[i] < m}
           S == {m \in 0 .. M : SumFunctionOnSet(b, 0 .. m - 1) = SumFunctionOnSet(f, below(m))}
<1>1. ASSUME NEW J \in SUBSET I PROVE IsFiniteSet(J) /\ \A i \in J : f[i] \in Nat
  BY FS_Subset
<1>2. ASSUME NEW h \in 0 .. M - 1 PROVE b[h] \in Nat
  <2> DEFINE J == part[h]
  <2>1. J \in SUBSET I
    OBVIOUS
  <2> HIDE DEF J
  <2>2. SumFunctionOnSet(f, J) \in Nat
    BY <1>1, <2>1, SumStepByStep
  <2> QED
    BY <2>2 DEF J
<1>3. 0 \in S
  <2>1. 0 .. 0 - 1 = {} /\ below(0) = {}
    OBVIOUS
  <2>2. IsFiniteSet({})
    BY FS_EmptySet
  <2>3. SumFunctionOnSet(b, {}) = 0 /\ SumFunctionOnSet(f, {}) = 0
    BY <2>2, SumStepByStep
  <2>4. SumFunctionOnSet(b, 0 .. 0 - 1) = SumFunctionOnSet(f, below(0))
    BY <2>1, <2>3, Zenon
  <2>5. 0 \in 0 .. M
    OBVIOUS
  <2> QED
    BY <2>4, <2>5, Zenon
<1>4. ASSUME NEW m \in 1 .. M, m - 1 \in S PROVE m \in S
  <2> DEFINE J == below(m - 1)
             K == part[m - 1]
             T == 0 .. (m - 1) - 1
  <2>1. J \in SUBSET I /\ K \in SUBSET I /\ J \cap K = {} /\ below(m) = J \cup K
    <3>1. m - 1 \in 0 .. M - 1
      OBVIOUS
    <3>2. K \in SUBSET I /\ \A i \in I : i \in K <=> class[i] = m - 1
      BY <3>1
    <3> HIDE DEF K
    <3> QED
      BY <3>2
  <2>2. /\ 0 .. m - 1 = T \cup {m - 1} /\ m - 1 \notin T /\ T \cup {m - 1} \subseteq 0 .. M - 1
        /\ m - 1 \in 0 .. M - 1
    OBVIOUS
  <2>3. IsFiniteSet(T)
    BY FS_Interval
  <2>4. SumFunctionOnSet(b, T) = SumFunctionOnSet(f, J)
    BY <1>4
  <2>5. b[m - 1] = SumFunctionOnSet(f, K)
    BY <2>2
  <2> HIDE DEF J, K, T, below
  <2>6. SumFunctionOnSet(b, T \cup {m - 1}) = b[m - 1] + SumFunctionOnSet(b, T)
    <3>1. \A y \in T \cup {m - 1} : b[y] \in Nat
      BY <1>2, <2>2
    <3>2. m - 1 \notin T
      BY <2>2
    <3> DEFINE k == m - 1
    <3>3. k \notin T /\ \A y \in T \cup {k} : b[y] \in Nat
      BY <3>1, <3>2
    <3> HIDE DEF k, ByClass
    <3>4. SumFunctionOnSet(b, T \cup {k}) = b[k] + SumFunctionOnSet(b, T)
      BY <2>3, <3>3, SumOfMore, ZenonT(40)
    <3> QED
      BY <3>4 DEF k
  <2>7. SumFunctionOnSet(f, J \cup K) = SumFunctionOnSet(f, J) + SumFunctionOnSet(f, K)
    <3>1. \A i \in J \cup K : f[i] \in Nat
      BY <2>1
    <3> QED
      <4>1. IsFiniteSet(J) /\ IsFiniteSet(K)
        BY <1>1, <2>1, Zenon
      <4>2. J \cap K = {}
        BY <2>1
      <4> QED
        BY <3>1, <4>1, <4>2, SumOfBoth
  <2> DEFINE x == SumFunctionOnSet(f, J)
             y == SumFunctionOnSet(f, K)
  <2>8. x \in Nat /\ y \in Nat
    BY <1>1, <2>1, SumStepByStep
  <2>9. SumFunctionOnSet(b, 0 .. m - 1) = y + x /\ SumFunctionOnSet(f, below(m)) = x + y
    BY <2>1, <2>2, <2>4, <2>5, <2>6, <2>7, Zenon
  <2> HIDE DEF x, y
  <2>10. x + y = y + x
    BY <2>8
  <2> QED
    BY <2>9, <2>10
<1>5. M \in S
  <2>1. \A m \in 1 .. M : m - 1 \in S => m \in S
    <3> HIDE DEF S
    <3> QED
      BY <1>4
  <2>2. M \in 0 .. M
    OBVIOUS
  <2> HIDE DEF S
  <2> QED
    BY <1>3, <2>1, <2>2, Throughout
<1>6. below(M) = I
  OBVIOUS
<1> HIDE DEF below
<1> QED
  BY <1>5, <1>6

\* With every poll made and no restart the steps add up to all that was used.
LEMMA AllUseShown ==
  ASSUME NEW n \in Nat, NEW q \in BurnFor(n), q.polled = {0} \cup (1 .. n),
         q.restart = NoRestart
  PROVE  LET run == ByTime(BurnReadings(q))
         IN  SumFunctionOnSet(StepsOf(run), 2 .. Len(run)) = UsedIn(q, 1 .. n)
<1> DEFINE run    == ByTime(BurnReadings(q))
           steps  == StepsOf(run)
           N      == Len(run)
           sum(k) == SumFunctionOnSet(steps, 2 .. k)
           S == {k \in 0 .. N : k = 0 \/ sum(k) = UsedIn(q, 1 .. run[k].ts)}
<1>1. /\ N \in Nat
      /\ \A i \in 1 .. N : run[i] \in BurnReadings(q) /\ run[i].ts \in 0 .. n
      /\ \A i, j \in 1 .. N : i < j => run[i].ts < run[j].ts
      /\ \A t \in q.polled : \E i \in 1 .. N : run[i].ts = t
      /\ \A i \in 2 .. N : steps[i] = BurnStep(run[i - 1], run[i]) /\ steps[i] \in Nat
  BY RunOfReadings, Zenon
<1>2. \A p \in BurnReadings(q) : p.used = UsedIn(q, 1 .. p.ts) /\ p.reset = 9
  <2>1. \A p \in BurnReadings(q) : p.used = Level(q, p.ts) /\ p.reset = 9
    BY BurnReadingsAre
  <2>2. \A t : Level(q, t) = UsedIn(q, 1 .. t)
    BY DEF Level
  <2> QED
    BY <2>1, <2>2
<1> HIDE DEF run, steps, N
<1>3. ASSUME NEW k \in 1 .. N, k = 1 PROVE run[k].ts = 0
  <2>1. PICK i \in 1 .. N : run[i].ts = 0
    BY <1>1
  <2>2. run[1].ts \in 0 .. n /\ (1 < i => run[1].ts < run[i].ts)
    BY <1>1, <1>3
  <2> QED
    BY <1>3, <2>1, <2>2
<1>4. ASSUME NEW k \in 2 .. N PROVE run[k].ts = run[k - 1].ts + 1
  <2> DEFINE t == run[k - 1].ts + 1
  <2>1. k \in 1 .. N /\ k - 1 \in 1 .. N /\ k - 1 < k
    BY <1>1
  <2>2. run[k - 1].ts \in 0 .. n /\ run[k].ts \in 0 .. n /\ run[k - 1].ts < run[k].ts
    BY <1>1, <2>1
  <2>3. t \in q.polled
    BY <2>2
  <2>4. PICK i \in 1 .. N : run[i].ts = t
    BY <1>1, <2>3
  <2>5. i = k
    <3>1. CASE i < k - 1
      BY <1>1, <2>1, <2>2, <2>4, <3>1
    <3>2. CASE i = k - 1
      BY <2>2, <2>4, <3>2
    <3>3. CASE i > k
      <4>1. run[k].ts < run[i].ts
        BY <1>1, <2>1, <3>3
      <4> QED
        BY <2>2, <2>4, <4>1
    <3> QED
      BY <3>1, <3>2, <3>3
  <2> QED
    BY <2>4, <2>5
<1>5. ASSUME NEW k \in 2 .. N
      PROVE  steps[k] = UsedIn(q, 1 .. run[k].ts) - UsedIn(q, 1 .. run[k - 1].ts)
  <2> DEFINE a == run[k - 1]
             b == run[k]
  <2>1. k \in 1 .. N /\ k - 1 \in 1 .. N
    BY <1>1
  <2>2. a \in BurnReadings(q) /\ b \in BurnReadings(q) /\ a.ts \in Nat /\ b.ts = a.ts + 1
        /\ steps[k] = BurnStep(a, b)
    BY <1>1, <1>4, <2>1
  <2> HIDE DEF a, b
  <2>3. /\ a.used = UsedIn(q, 1 .. a.ts) /\ b.used = UsedIn(q, 1 .. b.ts)
        /\ a.reset = 9 /\ b.reset = 9 /\ a.used \in Nat /\ b.used \in Nat
    BY <1>2, <2>2, UsedIsNatural, ZenonT(40)
  <2>4. a.used <= b.used
    <3>1. (1 .. a.ts) \cap (1 .. n) \subseteq 1 .. b.ts
      BY <2>2
    <3>2. UsedIn(q, 1 .. a.ts) <= UsedIn(q, 1 .. b.ts)
      BY <3>1, UsedGrows
    <3> QED
      BY <2>3, <3>2
  <2>5. b.ts - a.ts <= HOUR /\ b.reset - a.reset \in -RESET_TOLERANCE .. RESET_TOLERANCE
    BY <2>2, <2>3, ChartsAssumption, MetricsAssumption, SMTT(40)
  <2>6. BurnStep(a, b) = b.used - a.used
    <3>1. CASE b.used > a.used
      BY <2>5, <3>1 DEF BurnStep
    <3>2. CASE b.used = a.used
      BY <2>3, <3>2 DEF BurnStep
    <3> QED
      BY <2>3, <2>4, <3>1, <3>2
  <2> QED
    BY <2>2, <2>3, <2>6 DEF a, b
<1>6. ASSUME NEW k \in 0 .. N PROVE sum(k) \in Nat /\ (k < 2 => sum(k) = 0)
  <2> DEFINE T == 2 .. k
  <2>1. IsFiniteSet(T) /\ (\A i \in T : steps[i] \in Nat) /\ (k < 2 => T = {})
    BY <1>1, FS_Interval
  <2> HIDE DEF T
  <2>2. SumFunctionOnSet(steps, T) \in Nat /\ (T = {} => SumFunctionOnSet(steps, T) = 0)
    BY <2>1, SumStepByStep
  <2> QED
    BY <2>1, <2>2 DEF T
<1>7. ASSUME NEW k \in 1 .. N, k - 1 \in S PROVE sum(k) = UsedIn(q, 1 .. run[k].ts)
  <2>1. CASE k = 1
    <3>1. sum(k) = 0
      BY <1>1, <1>6, <2>1
    <3>2. run[k].ts = 0
      BY <1>3, <2>1
    <3>3. UsedIn(q, 1 .. 0) = 0
      <4>1. (1 .. 0) \cap (1 .. n) = {}
        OBVIOUS
      <4>2. UsedIn(q, 1 .. 0) = SumFunctionOnSet(q.use, (1 .. 0) \cap (1 .. n))
        BY UsedIsNatural
      <4>3. SumFunctionOnSet(q.use, {}) = 0
        BY FS_EmptySet, SumStepByStep
      <4> QED
        BY <4>1, <4>2, <4>3
    <3> QED
      BY <3>1, <3>2, <3>3
  <2>2. CASE k # 1
    <3>1. k \in 2 .. N /\ k - 1 \in 1 .. N /\ k - 1 \in 0 .. N
      BY <1>1, <2>2
    <3>2. sum(k - 1) = UsedIn(q, 1 .. run[k - 1].ts)
      BY <1>7, <3>1
    <3> DEFINE T == 2 .. k - 1
    <3>3. 2 .. k = T \cup {k} /\ k \notin T /\ IsFiniteSet(T)
          /\ \A i \in T \cup {k} : steps[i] \in Nat
      <4>1. IsFiniteSet(T)
        BY FS_Interval
      <4> QED
        BY <1>1, <3>1, <4>1
    <3>4. sum(k) = steps[k] + sum(k - 1)
      <4> HIDE DEF T
      <4>1. SumFunctionOnSet(steps, T \cup {k}) = steps[k] + SumFunctionOnSet(steps, T)
        BY <3>3, SumOfMore
      <4> QED
        BY <3>3, <4>1 DEF T
    <3>5. UsedIn(q, 1 .. run[k].ts) \in Nat /\ UsedIn(q, 1 .. run[k - 1].ts) \in Nat
      BY UsedIsNatural
    <3> HIDE DEF sum
    <3> QED
      BY <1>5, <3>1, <3>2, <3>4, <3>5
  <2> QED
    BY <2>1, <2>2
<1>8. N \in S
  <2>1. \A k \in 1 .. N : k - 1 \in S => k \in S
    <3> HIDE DEF sum
    <3> QED
      BY <1>7
  <2>2. N \in 0 .. N
    BY <1>1
  <2>3. 0 \in S
    BY <1>1
  <2> HIDE DEF S
  <2> QED
    BY <1>1, <2>1, <2>2, <2>3, Throughout
<1>9. N # 0 /\ run[N].ts = n
  <2>1. PICK i \in 1 .. N : run[i].ts = n
    BY <1>1
  <2>2. N \in 1 .. N /\ run[N].ts \in 0 .. n /\ (i < N => run[i].ts < run[N].ts)
    BY <1>1
  <2> QED
    BY <2>1, <2>2
<1> QED
  BY <1>8, <1>9 DEF run, steps, N

\* Burn is shown where it happened (burn_bars), for any length of time, any use
\* of it, a restart at any tick or none, and any polls missed: no hour of the
\* day is credited with more than was used in it and within the hour before its
\* readings, and with every poll made and no restart nothing is missing.
THEOREM BurnCorrect ==
  ASSUME asked \in BurnQuestions
  PROVE  BurnPlaced
<1>1. PICK n \in Nat : asked \in BurnFor(n)
  BY DEF BurnQuestions
<1> DEFINE q     == asked
           run   == ByTime(BurnReadings(q))
           steps == StepsOf(run)
           burn  == Burn(BurnReadings(q))
           class(h) == {i \in DOMAIN steps : HourOf(run[i].ts) = h}
<1>2. DOMAIN q.use = 1 .. n /\ q.restart \in Nat
  BY <1>1 DEF BurnFor
<1>3. DOMAIN steps = 2 .. Len(run)
  BY DEF StepsOf
<1>4. burn = [h \in 0 .. HOURS - 1 |-> SumFunctionOnSet(steps, class(h))]
  BY Zenon DEF Burn, StepsOf
<1>5. ASSUME NEW h \in 0 .. HOURS - 1
      PROVE  /\ burn[h] = SumFunctionOnSet(steps, {i \in 2 .. Len(run) : HourOf(run[i].ts) = h})
             /\ burn[h] <= UsedIn(q, Reaching(q, h))
  <2>1. burn[h] = SumFunctionOnSet(steps, class(h))
    BY <1>4
  <2>2. class(h) = {i \in 2 .. Len(run) : HourOf(run[i].ts) = h}
    BY <1>3
  <2>3. burn[h] = SumFunctionOnSet(steps, {i \in 2 .. Len(run) : HourOf(run[i].ts) = h})
    BY <2>1, <2>2, Zenon
  <2>4. SumFunctionOnSet(steps, {i \in 2 .. Len(run) : HourOf(run[i].ts) = h})
          <= UsedIn(q, Reaching(q, h))
    BY <1>1, HourShowsItsUse
  <2> HIDE DEF burn, steps, run
  <2> QED
    BY <2>3, <2>4
<1>6. ASSUME q.polled = {0} \cup DOMAIN q.use, q.restart = NoRestart
      PROVE  SumFunction(burn) = UsedIn(q, DOMAIN q.use)
  <2> DEFINE I  == 2 .. Len(run)
             at == [i \in I |-> HourOf(run[i].ts)]
  <2>1. /\ Len(run) \in Nat /\ (\A i \in 1 .. Len(run) : run[i].ts \in 0 .. n)
        /\ \A i \in I : steps[i] \in Nat
    BY <1>1, RunOfReadings, Zenon
  <2>2. SumFunctionOnSet(steps, I) = UsedIn(q, 1 .. n)
    BY <1>1, <1>2, <1>6, AllUseShown
  <2>3. SumFunction(burn) = SumFunctionOnSet(burn, 0 .. HOURS - 1)
    <3>1. DOMAIN burn = 0 .. HOURS - 1
      BY <1>4
    <3> HIDE DEF burn
    <3> QED
      BY <3>1 DEF SumFunction
  <2> HIDE DEF run, steps, burn
  <2>4. \A i \in I : at[i] \in 0 .. HOURS - 1
    <3>1. ASSUME NEW i \in I PROVE HourOf(run[i].ts) \in 0 .. HOURS - 1
      <4>1. run[i].ts \in Nat
        BY <2>1
      <4>2. run[i].ts \div HOUR \in Nat
        BY <4>1, ChartsAssumption
      <4> QED
        BY <4>2, ChartsAssumption DEF HourOf
    <3> QED
      BY <3>1
  <2>5. \A h \in 0 .. HOURS - 1 : burn[h] = SumFunctionOnSet(steps, {i \in I : at[i] = h})
    <3>1. \A h : {i \in I : at[i] = h} = {i \in I : HourOf(run[i].ts) = h}
      OBVIOUS
    <3> QED
      BY <1>5, <3>1
  <2>6. IsFiniteSet(I) /\ HOURS \in Nat
    BY <2>1, FS_Interval, ChartsAssumption
  <2> HIDE DEF I, at
  <2>7. SumFunctionOnSet(burn, 0 .. HOURS - 1) = SumFunctionOnSet(steps, I)
    <3> DEFINE M == HOURS
               f == steps
               b == burn
               part == [h \in 0 .. M - 1 |-> {i \in I : at[i] = h}]
    <3>1. \A i \in I : f[i] \in Nat
      BY <2>1
    <3>2. ASSUME NEW h \in 0 .. M - 1
          PROVE  /\ b[h] = SumFunctionOnSet(f, part[h]) /\ part[h] \in SUBSET I
                 /\ \A i \in I : i \in part[h] <=> at[i] = h
      <4>1. part[h] = {i \in I : at[i] = h}
        OBVIOUS
      <4>2. b[h] = SumFunctionOnSet(f, {i \in I : at[i] = h})
        BY <2>5
      <4> QED
        BY <4>1, <4>2
    <3>3. IsFiniteSet(I) /\ M \in Nat /\ \A i \in I : at[i] \in 0 .. M - 1
      BY <2>4, <2>6
    <3> HIDE DEF M, f, b, part
    <3>4. ByClass(I, f, M, at, part, b)
      <4>1. \A i \in I : f[i] \in Nat /\ at[i] \in 0 .. M - 1
        BY <3>1, <3>3, Zenon
      <4>2. \A h \in 0 .. M - 1 :
              /\ part[h] \in SUBSET I
              /\ \A i \in I : i \in part[h] <=> at[i] = h
              /\ b[h] = SumFunctionOnSet(f, part[h])
        BY <3>2, Zenon
      <4> QED
        BY <3>3, <4>1, <4>2, Zenon DEF ByClass
    <3>5. SumFunctionOnSet(b, 0 .. M - 1) = SumFunctionOnSet(f, I)
      BY <3>4, SumByClass
    <3> QED
      BY <3>5 DEF M, f, b
  <2> QED
    BY <1>2, <2>2, <2>3, <2>7
<1>7. DOMAIN burn = 0 .. HOURS - 1
  BY <1>4
<1> QED
  BY <1>5, <1>6, <1>7, Zenon DEF BurnPlaced, Reaching

-----------------------------------------------------------------------------
(* The interval of a rate.                                                 *)

\* The square root of a natural, rounded down.
LEMMA RootExists ==
  ASSUME NEW n \in Nat
  PROVE  Isqrt(n) \in Nat
<1> DEFINE S == {r \in 0 .. n : r * r <= n}
<1>1. S \subseteq 0 .. n /\ S \subseteq Nat
  OBVIOUS
<1>2. 0 \in S
  OBVIOUS
<1>3. IsFiniteSet(S)
  <2>1. \A r \in S : r <= n
    OBVIOUS
  <2> HIDE DEF S
  <2> QED
    BY <1>1, <2>1, FS_BoundedSetOfNaturals
<1> DEFINE r == Max(S)
<1>4. r \in S /\ \A y \in S : r >= y
  <2> HIDE DEF S
  <2> QED
    BY <1>1, <1>2, <1>3, MaxIsGreatest
<1> HIDE DEF r
<1>5. r \in 0 .. n /\ r * r <= n /\ r + 1 \in Nat /\ r \in Nat
  BY <1>4
<1>6. n < (r + 1) * (r + 1)
  <2>1. ASSUME (r + 1) * (r + 1) <= n PROVE FALSE
    <3>1. r + 1 <= (r + 1) * (r + 1)
      <4>1. \A k \in Nat : k <= k * k
        OBVIOUS
      <4> QED
        BY <1>5, <4>1
    <3>2. r + 1 \in 0 .. n
      BY <1>5, <2>1, <3>1
    <3>3. r + 1 \in S
      BY <2>1, <3>2
    <3> QED
      BY <1>4, <1>5, <3>3
  <2> QED
    BY <1>5, <2>1
<1>7. \E x \in 0 .. n : x * x <= n /\ n < (x + 1) * (x + 1)
  BY <1>5, <1>6
<1>8. Isqrt(n) \in 0 .. n
  BY <1>7, Zenon DEF Isqrt
<1> QED
  BY <1>8

LEMMA QuantileIsNatural ==
  ASSUME NEW dof \in Nat, dof > 0
  PROVE  TQuantile(dof) \in Nat
<1>1. \A i \in 1 .. 31 : T_QUANTILE[i] \in Nat
  BY DEF T_QUANTILE
<1>2. Min({dof, 31}) \in 1 .. 31
  <2>1. \A m \in Int : Min({dof, m}) = IF dof <= m THEN dof ELSE m
    BY MinMaxOfTwo
  <2>2. 31 \in Int
    OBVIOUS
  <2>3. Min({dof, 31}) = IF dof <= 31 THEN dof ELSE 31
    BY <2>1, <2>2, Zenon
  <2> QED
    BY <2>3
<1> QED
  BY <1>1, <1>2 DEF TQuantile

\* Readings that have a time and a usage.
Counted(M) == \A p \in M : p.ts \in Nat /\ p.used \in Nat

\* The half-width that the scatter leaves.
LEMMA StatisticalIsNatural ==
  ASSUME NEW M, Counted(M), NEW run \in Seq(M), Len(run) >= 2,
         NEW burn \in Int, NEW elapsed \in Nat, elapsed > 0
  PROVE  Statistical(run, burn, elapsed) \in Nat
<1> DEFINE steps == Len(run) - 1
           off(i) == (run[i + 1].used - run[i].used) * elapsed
                       - burn * (run[i + 1].ts - run[i].ts)
           squares == [i \in 1 .. steps |-> off(i) * off(i)]
           scatter == Scatter(run, burn, elapsed)
<1>1. Len(run) \in Nat /\ steps \in Nat /\ steps >= 1
  OBVIOUS
<1>2. squares \in [1 .. steps -> Nat]
  <2> SUFFICES ASSUME NEW i \in 1 .. steps PROVE off(i) * off(i) \in Nat
    OBVIOUS
  <2>1. run[i] \in M /\ run[i + 1] \in M
    BY <1>1
  <2> DEFINE u == run[i + 1].used - run[i].used
             t == run[i + 1].ts - run[i].ts
  <2>2. u \in Int /\ t \in Int
    BY <2>1 DEF Counted
  <2>3. off(i) = u * elapsed - burn * t
    OBVIOUS
  <2> HIDE DEF u, t, off
  <2>4. u * elapsed \in Int /\ burn * t \in Int
    BY <2>2
  <2>5. off(i) \in Int
    BY <2>3, <2>4
  <2>6. \A z \in Int : z * z \in Nat
    OBVIOUS
  <2> QED
    BY <2>5, <2>6
<1>3. scatter = SumFunction(squares)
  BY DEF Scatter
<1> HIDE DEF squares, off
<1>4. scatter \in Nat
  <2>1. IsFiniteSet(1 .. steps)
    BY <1>1, PlacesCounted
  <2> HIDE DEF scatter, steps
  <2> QED
    BY <1>2, <1>3, <2>1, SumIsNatural
<1>5. CASE steps = 1
  BY <1>5 DEF Statistical
<1>6. CASE steps # 1
  <2> DEFINE mean == (scatter * steps) \div (steps - 1)
             root == Isqrt(100 * mean)
             t    == TQuantile(steps - 1)
  <2>1. Statistical(run, burn, elapsed) = (t * root) \div (10 * elapsed)
    BY <1>6 DEF Statistical
  <2> HIDE DEF scatter, steps
  <2>2. steps - 1 \in Nat /\ steps - 1 > 0
    BY <1>1, <1>6
  <2>3. mean \in Nat
    <3>1. scatter * steps \in Nat
      BY <1>1, <1>4
    <3> QED
      BY <2>2, <3>1, Quotient
  <2> HIDE DEF mean
  <2>4. root \in Nat
    BY <2>3, RootExists, SMTT(40)
  <2>5. t \in Nat
    BY <2>2, QuantileIsNatural
  <2> HIDE DEF root, t
  <2>6. t * root \in Nat /\ 10 * elapsed \in Nat /\ 10 * elapsed > 0
    BY <2>4, <2>5
  <2> QED
    BY <2>1, <2>6, Quotient
<1> QED
  BY <1>5, <1>6

\* An interval holds a rate that its readings follow to within `g`, when its
\* half-width allows for that.
Holds(rate, true) == ~Less(true, Low(rate)) /\ ~Less(High(rate), true)

LEMMA IntervalHolds ==
  ASSUME NEW run, NEW quantum, NEW burn \in Int, NEW elapsed \in Nat, NEW half \in Nat,
         NEW num \in Nat, NEW den \in Nat, NEW g \in Nat,
         burn * den <= num * elapsed + g * den,
         num * elapsed <= burn * den + g * den,
         1000 * g <= half
  PROVE  Holds(Interval(run, quantum, burn, elapsed, half), [n |-> num, d |-> den])
<1> DEFINE rate == Interval(run, quantum, burn, elapsed, half)
           a == 1000 * burn - half
           b == 1000 * burn + half
           x == num * elapsed
           y == burn * den
           z == g * den
           h == half * den
<1>1. /\ rate.low = Max({a, 0}) /\ rate.high = Max({b, 0}) /\ rate.d = 1000 * elapsed
  BY DEF Interval
<1> HIDE DEF rate
<1>2. a \in Int /\ b \in Int
  OBVIOUS
<1>3. x \in Nat /\ y \in Int /\ z \in Nat /\ h \in Nat
  OBVIOUS
<1>4. a * den = 1000 * y - h /\ b * den = 1000 * y + h /\ num * (1000 * elapsed) = 1000 * x
  OBVIOUS
<1>5. 1000 * z <= h
  <2>1. 1000 * g \in Int /\ (1000 * g) * den = 1000 * z
    OBVIOUS
  <2>2. (1000 * g) * den <= half * den
    BY <2>1, ProductRises
  <2> QED
    BY <2>1, <2>2
<1>6. y <= x + z /\ x <= y + z
  OBVIOUS
<1> HIDE DEF a, b, x, y, z, h
<1>7. rate.low * den <= 1000 * x
  <2>1. CASE a >= 0
    <3>1. rate.low = a
      BY <1>1, <1>2, <2>1, MaxWithZero
    <3> QED
      BY <1>3, <1>4, <1>5, <1>6, <3>1
  <2>2. CASE ~(a >= 0)
    <3>1. rate.low = 0
      BY <1>1, <1>2, <2>2, MaxWithZero
    <3> QED
      BY <1>3, <3>1
  <2> QED
    BY <2>1, <2>2
<1>8. 1000 * x <= rate.high * den
  <2>1. CASE b >= 0
    <3>1. rate.high = b
      BY <1>1, <1>2, <2>1, MaxWithZero
    <3> QED
      BY <1>3, <1>4, <1>5, <1>6, <3>1
  <2>2. CASE ~(b >= 0)
    <3>1. rate.high = 0
      BY <1>1, <1>2, <2>2, MaxWithZero
    <3>2. b * den <= 0 * den /\ 0 * den = 0
      BY <1>2, <2>2, ProductRises
    <3> QED
      BY <1>3, <1>4, <1>5, <1>6, <3>1, <3>2
  <2> QED
    BY <2>1, <2>2
<1>9. rate.low \in Nat /\ rate.high \in Nat
  BY <1>1, <1>2, MaxWithZero
<1>10. /\ Less([n |-> num, d |-> den], Low(rate)) <=> 1000 * x < rate.low * den
       /\ Less(High(rate), [n |-> num, d |-> den]) <=> rate.high * den < 1000 * x
  BY <1>1, <1>4 DEF Less, Low, High
<1>11. rate.low * den \in Int /\ rate.high * den \in Int /\ 1000 * x \in Int
  BY <1>3, <1>9
<1> QED
  BY <1>7, <1>8, <1>10, <1>11 DEF Holds, rate

\* Two intervals that hold one rate do not disagree.
LEMMA HoldersAgree ==
  ASSUME NEW num \in Nat, NEW den \in Nat, den > 0, NEW a, NEW b,
         {a.low, a.high, a.d, b.low, b.high, b.d} \subseteq Nat,
         Holds(a, [n |-> num, d |-> den]), Holds(b, [n |-> num, d |-> den])
  PROVE  ~Disjoint(a, b)
<1>1. ASSUME NEW high \in Nat, NEW d \in Nat, NEW low \in Nat, NEW e \in Nat,
             ~(high * den < num * d), ~(num * e < low * den)
      PROVE  ~(high * e < low * d)
  <2> DEFINE p == high * e
             q == low * d
             u == high * den
             v == num * d
             x == num * e
             y == low * den
  <2>1. p \in Nat /\ q \in Nat /\ u \in Nat /\ v \in Nat /\ x \in Nat /\ y \in Nat
    OBVIOUS
  <2>2. p * den = u * e /\ q * den = y * d /\ v * e = x * d
    OBVIOUS
  <2> HIDE DEF p, q, u, v, x, y
  <2>3. v <= u /\ y <= x
    BY <1>1, <2>1 DEF u, v, x, y
  <2>4. v * e <= u * e /\ y * d <= x * d
    BY <2>1, <2>3, ProductRises
  <2>5. q * den <= p * den
    BY <2>1, <2>2, <2>4
  <2>6. ASSUME p + 1 <= q PROVE FALSE
    <3>1. (p + 1) * den <= q * den
      BY <2>1, <2>6, ProductRises
    <3>2. (p + 1) * den = p * den + den /\ p * den \in Int /\ q * den \in Int
      BY <2>1
    <3> QED
      BY <2>5, <3>1, <3>2
  <2> QED
    BY <2>1, <2>6 DEF p, q
<1>2. /\ ~(num * a.d < a.low * den) /\ ~(a.high * den < num * a.d)
      /\ ~(num * b.d < b.low * den) /\ ~(b.high * den < num * b.d)
  BY DEF Holds, Less, Low, High
<1>3. ~(a.high * b.d < b.low * a.d) /\ ~(b.high * a.d < a.low * b.d)
  BY <1>1, <1>2
<1> QED
  BY <1>3 DEF Disjoint, Less

-----------------------------------------------------------------------------
(* A steady burn.                                                          *)

\* The questions about a steady burn: any rate, phase and rounding, and any
\* polls missed that leave no hole beyond the tolerance.
SteadyQuestions ==
  {q \in [about : {"steady"}, rate : Nat, phase : Nat, quantum : {1, 5, 10},
          missing : SUBSET (1 .. Ticks - 1)] :
     \A t \in (0 .. Ticks - 1) \ q.missing :
       \E u \in (0 .. Ticks) \ q.missing : t < u /\ u <= t + GapTolerance(1)}

\* Between two readings the usage follows the rate to within its rounding.
LEMMA SteadyFollows ==
  ASSUME NEW q \in SteadyQuestions, NEW p \in SteadyReadings(q),
         NEW r \in SteadyReadings(q), p.ts <= r.ts
  PROVE  LET burn    == r.used - p.used
             elapsed == r.ts - p.ts
             num     == q.quantum * q.rate
         IN  /\ burn \in Nat /\ elapsed \in Nat /\ num \in Nat
             /\ burn * RateTicks <= num * elapsed + q.quantum * RateTicks
             /\ num * elapsed <= burn * RateTicks + q.quantum * RateTicks
<1> DEFINE m == q.quantum
           c == q.rate
           d == RateTicks
           at(t) == c * t + q.phase
<1>1. m \in Nat /\ c \in Nat /\ q.phase \in Nat /\ d \in Nat /\ d > 0 /\ Ticks \in Nat
  BY CalculationsAssumption DEF SteadyQuestions
<1>2. PICK s \in 0 .. Ticks, t \in 0 .. Ticks :
        /\ p.ts = s /\ p.used = m * (at(s) \div d)
        /\ r.ts = t /\ r.used = m * (at(t) \div d)
  BY DEF SteadyReadings
<1> DEFINE x == at(s)
           y == at(t)
           i == x \div d
           j == y \div d
           e == t - s
<1>3. s \in Nat /\ t \in Nat /\ s <= t /\ e \in Nat
  BY <1>1, <1>2
<1>4. x \in Nat /\ y \in Nat /\ y - x = c * e /\ c * e \in Nat
  <2>1. c * s \in Nat /\ c * t \in Nat /\ c * e \in Nat /\ c * e = c * t - c * s
    BY <1>1, <1>3
  <2> QED
    BY <1>1, <2>1
<1>5. p.used = m * i /\ r.used = m * j
  BY <1>2
<1> HIDE DEF at, x, y, e, m, c, d
<1>6. i \in Nat /\ j \in Nat /\ i * d <= x /\ x < i * d + d /\ j * d <= y /\ y < j * d + d
  BY <1>1, <1>4, Quotient
<1> HIDE DEF i, j
<1> DEFINE b == j - i
           bd == b * d
           ce == c * e
<1>7. b \in Int /\ bd = j * d - i * d /\ bd \in Int /\ i * d \in Int /\ j * d \in Int
  BY <1>1, <1>6
<1>8. bd <= ce + d /\ ce <= bd + d /\ ce \in Nat
  BY <1>1, <1>4, <1>6, <1>7
<1>9. b >= 0
  <2>1. ASSUME j + 1 <= i PROVE FALSE
    <3>1. (j + 1) * d <= i * d
      BY <1>1, <1>6, <2>1, ProductRises
    <3>2. (j + 1) * d = j * d + d
      BY <1>1, <1>6
    <3> QED
      BY <1>1, <1>4, <1>6, <1>7, <3>1, <3>2
  <2> QED
    BY <1>6, <2>1
<1>10. /\ m * j - m * i = m * b /\ (m * b) * d = bd * m /\ (m * c) * e = ce * m
       /\ m * b \in Nat /\ m * c \in Nat /\ m * d \in Nat
       /\ (ce + d) * m = ce * m + m * d /\ (bd + d) * m = bd * m + m * d
       /\ ce * m \in Int /\ bd * m \in Int
  BY <1>1, <1>3, <1>6, <1>7, <1>9
<1> HIDE DEF b, bd, ce
<1>11. bd * m <= (ce + d) * m /\ ce * m <= (bd + d) * m
  BY <1>1, <1>7, <1>8, ProductRises
<1>12. r.used - p.used = m * b /\ r.ts - p.ts = e
  BY <1>2, <1>5, <1>10 DEF e
<1> QED
  BY <1>3, <1>10, <1>11, <1>12 DEF m, c, d

Rising(run) == \A i, j \in 1 .. Len(run) : i < j => run[i].ts < run[j].ts

LEMMA ToleranceIsNatural ==
  GapTolerance(1) \in Nat /\ GapTolerance(1) > 0
<1>1. GAP_MIN \in Nat
  BY MetricsAssumption
<1>2. \A k \in Int : Max({k, GAP_MIN}) = IF k >= GAP_MIN THEN k ELSE GAP_MIN
  BY <1>1, MinMaxOfTwo
<1>3. 4 * 1 \in Int
  OBVIOUS
<1>4. GapTolerance(1) = IF 4 * 1 >= GAP_MIN THEN 4 * 1 ELSE GAP_MIN
  BY <1>2, <1>3, Zenon DEF GapTolerance
<1> QED
  BY <1>1, <1>4

LEMMA SteadyReadingsAre ==
  ASSUME NEW q \in SteadyQuestions
  PROVE  LET M == SteadyReadings(q)
         IN  /\ Counted(M) /\ Timed(M)
             /\ \A p \in M : p.ts \in (0 .. Ticks) \ q.missing /\ p.reset = WeekSpan
             /\ \A t \in (0 .. Ticks) \ q.missing : \E p \in M : p.ts = t
             /\ \A p \in M : \E i \in Nat : p.used = q.quantum * i
<1> DEFINE M == SteadyReadings(q)
           times == (0 .. Ticks) \ q.missing
           used(t) == q.quantum * ((q.rate * t + q.phase) \div RateTicks)
           f == [t \in times |-> [ts |-> t, reset |-> WeekSpan, used |-> used(t)]]
<1>1. /\ q.quantum \in Nat /\ q.rate \in Nat /\ q.phase \in Nat
      /\ RateTicks \in Nat /\ RateTicks > 0 /\ Ticks \in Nat
  BY CalculationsAssumption DEF SteadyQuestions
<1>2. M = {f[t] : t \in times}
  BY DEF SteadyReadings
<1>3. ASSUME NEW t \in times
      PROVE  \E i \in Nat : used(t) = q.quantum * i /\ used(t) \in Nat
  <2> DEFINE x == q.rate * t + q.phase
             i == x \div RateTicks
  <2>1. x \in Nat
    <3>1. t \in Nat
      BY <1>1
    <3>2. q.rate * t \in Nat
      BY <1>1, <3>1
    <3> QED
      BY <1>1, <3>2
  <2> HIDE DEF x
  <2>2. i \in Nat
    BY <1>1, <2>1, Quotient
  <2> HIDE DEF i
  <2>3. q.quantum * i \in Nat
    BY <1>1, <2>2
  <2> QED
    BY <2>2, <2>3 DEF i, x
<1>4. \A t \in times : f[t].ts = t /\ f[t].reset = WeekSpan /\ f[t].used = used(t)
  OBVIOUS
<1> HIDE DEF used, f
<1>5. /\ \A p \in M : p.ts \in times /\ p.reset = WeekSpan
      /\ \A t \in times : \E p \in M : p.ts = t
      /\ \A p \in M : \E i \in Nat : p.used = q.quantum * i
      /\ \A p \in M : p.used \in Nat
      /\ \A p, r \in M : p.ts = r.ts => p = r
  BY <1>2, <1>3, <1>4
<1>6. IsFiniteSet(M)
  <2>1. IsFiniteSet(times)
    <3>1. times \subseteq Nat /\ \A t \in times : t <= Ticks
      BY <1>1
    <3> HIDE DEF times
    <3> QED
      BY <1>1, <3>1, FS_BoundedSetOfNaturals
  <2> HIDE DEF times, M
  <2> QED
    BY <1>2, <2>1, ImageIsFinite
<1>7. \A p \in M : p.ts \in Nat
  BY <1>1, <1>5
<1> QED
  BY <1>5, <1>6, <1>7 DEF Counted, Timed

\* The steady readings, oldest first, from the first tick to the last and
\* without a break.
LEMMA SteadyRun ==
  ASSUME NEW q \in SteadyQuestions
  PROVE  LET M   == SteadyReadings(q)
             run == Matching(SteadyWindow(q), M, Ticks)
         IN  /\ run \in Seq(M) /\ Rising(run) /\ Len(run) >= 2
             /\ run[1].ts = 0 /\ run[Len(run)].ts = Ticks
             /\ Stretch(run, GapTolerance(1)) = run
<1> DEFINE M   == SteadyReadings(q)
           run == Matching(SteadyWindow(q), M, Ticks)
           n   == Len(run)
           gap == GapTolerance(1)
<1>1. /\ Counted(M) /\ Timed(M)
      /\ \A p \in M : p.ts \in (0 .. Ticks) \ q.missing /\ p.reset = WeekSpan
      /\ \A t \in (0 .. Ticks) \ q.missing : \E p \in M : p.ts = t
  BY SteadyReadingsAre
<1>2. Ticks \in Nat /\ Ticks > 0 /\ WeekSpan \in Nat /\ RESET_TOLERANCE \in Nat
  BY CalculationsAssumption, MetricsAssumption
<1> HIDE DEF M
<1>3. run = ByTime(M)
  <2> DEFINE w == SteadyWindow(q)
             S == {p \in M : /\ p.ts >= w.start /\ p.ts <= Ticks
                             /\ InSameWindow(p, w)
                             /\ p.used # None}
  <2>1. w.start = 0 /\ w.reset = WeekSpan
    BY DEF SteadyWindow
  <2>2. \A p \in M : p \in S
    <3> TAKE p \in M
    <3>1. p.ts >= w.start /\ p.ts <= Ticks /\ p.used # None
      BY <1>1, <1>2, <2>1 DEF Counted, None
    <3>2. InSameWindow(p, w)
      BY <1>1, <1>2, <2>1 DEF InSameWindow, None
    <3> QED
      BY <3>1, <3>2
  <2>3. S = M
    BY <2>2
  <2> QED
    BY <2>3 DEF Matching
<1> HIDE DEF run
<1>4. /\ run \in Seq(M) /\ \A p \in M : \E i \in 1 .. n : run[i] = p
      /\ Rising(run)
  BY <1>1, <1>3, ByTimeSorts DEF Rising
<1>5. n \in Nat /\ \A i \in 1 .. n : run[i] \in M /\ run[i].ts \in 0 .. Ticks
  BY <1>1, <1>4
<1>6. 0 \in (0 .. Ticks) \ q.missing /\ Ticks \in (0 .. Ticks) \ q.missing
  <2>1. q.missing \in SUBSET (1 .. Ticks - 1)
    BY DEF SteadyQuestions
  <2> QED
    BY <1>2, <2>1
<1>7. PICK i \in 1 .. n : run[i].ts = 0
  BY <1>1, <1>4, <1>6, ZenonT(40)
<1>8. PICK j \in 1 .. n : run[j].ts = Ticks
  BY <1>1, <1>4, <1>6, ZenonT(40)
<1>9. i = 1
  <2>1. ASSUME 1 < i PROVE FALSE
    <3>1. 1 \in 1 .. n
      BY <1>5
    <3>2. run[1].ts < run[i].ts
      BY <1>4, <2>1, <3>1 DEF Rising
    <3> QED
      BY <1>2, <1>5, <1>7, <3>1, <3>2
  <2> QED
    BY <2>1
<1>10. j = n
  <2>1. ASSUME j < n PROVE FALSE
    <3>1. n \in 1 .. n
      BY <1>5
    <3>2. run[j].ts < run[n].ts
      BY <1>4, <2>1, <3>1 DEF Rising
    <3> QED
      BY <1>2, <1>5, <1>8, <3>1, <3>2
  <2> QED
    BY <1>5, <2>1
<1>11. n >= 2
  BY <1>2, <1>5, <1>7, <1>8, <1>9, <1>10
<1>12. \A a, b \in 1 .. n : a < b => run[a].ts < run[b].ts
  BY <1>4 DEF Rising
<1>13. ASSUME NEW k \in 1 .. n - 1 PROVE ~Breaks(run[k], run[k + 1], gap)
  <2> DEFINE p == run[k]
             r == run[k + 1]
  <2>1. k \in 1 .. n /\ k + 1 \in 1 .. n /\ k < k + 1
    BY <1>5
  <2>2. p \in M /\ r \in M /\ p.ts \in Nat /\ r.ts \in Nat /\ p.ts < r.ts /\ r.ts <= Ticks
    <3>1. run[k] \in M /\ run[k + 1] \in M
      BY <1>5, <2>1
    <3>2. run[k].ts \in 0 .. Ticks /\ run[k + 1].ts \in 0 .. Ticks
      BY <1>5, <2>1
    <3>3. run[k].ts < run[k + 1].ts
      BY <1>12, <2>1
    <3> QED
      BY <1>2, <3>1, <3>2, <3>3
  <2>3. gap \in Nat
    BY ToleranceIsNatural
  <2>4. p.ts \in (0 .. Ticks - 1) \ q.missing
    BY <1>1, <1>2, <2>2
  <2>5. PICK u \in (0 .. Ticks) \ q.missing : p.ts < u /\ u <= p.ts + gap
    BY <2>4 DEF SteadyQuestions
  <2>6. PICK l \in 1 .. n : run[l].ts = u
    BY <1>1, <1>4, ZenonT(40)
  <2>7. l >= k + 1
    <3>1. ASSUME l < k PROVE FALSE
      <4>1. run[l].ts < p.ts
        BY <1>12, <2>1, <3>1
      <4> QED
        BY <1>2, <2>2, <2>5, <2>6, <4>1
    <3>2. l # k
      BY <2>2, <2>5, <2>6
    <3> QED
      BY <1>5, <3>1, <3>2
  <2>8. r.ts <= u
    <3>1. CASE l = k + 1
      BY <2>2, <2>6, <3>1
    <3>2. CASE l > k + 1
      <4>1. r.ts < run[l].ts
        BY <1>12, <2>1, <3>2
      <4> QED
        BY <1>2, <2>2, <2>6, <4>1
    <3> QED
      BY <2>7, <3>1, <3>2
  <2>9. ~(r.ts - p.ts > gap)
    BY <1>2, <2>2, <2>3, <2>5, <2>8
  <2>10. r.used - p.used \in Nat /\ r.used \in Nat /\ p.used \in Nat
    BY <1>1, <2>2, SteadyFollows, SMTT(40) DEF M, Counted
  <2> HIDE DEF p, r, gap
  <2>11. ~Breaks(p, r, gap)
    BY <2>9, <2>10 DEF Breaks, FALL_EPSILON
  <2> QED
    BY <2>11 DEF p, r
<1>14. Stretch(run, gap) = run
  <2> DEFINE breaks == {k \in 1 .. n - 1 : Breaks(run[k], run[k + 1], gap)}
             S == {1} \cup {k + 1 : k \in breaks}
  <2>1. breaks = {}
    BY <1>13
  <2>2. S = {1}
    BY <2>1
  <2>3. Max(S) = 1
    <3>1. \A x \in Int : Max({x}) = x
      BY DEF Max
    <3>2. 1 \in Int
      OBVIOUS
    <3> HIDE DEF S
    <3> QED
      BY <2>2, <3>1, <3>2, Zenon
  <2>4. Stretch(run, gap) = SubSeq(run, Max(S), n)
    BY DEF Stretch
  <2> HIDE DEF S
  <2>5. SubSeq(run, 1, n) = run
    BY <1>4, <1>5
  <2> QED
    BY <2>3, <2>4, <2>5
<1> QED
  BY <1>4, <1>7, <1>8, <1>9, <1>10, <1>11, <1>14 DEF M, run

\* The rounding that the readings show is no finer than the one they have.
LEMMA QuantumCovers ==
  ASSUME NEW q \in SteadyQuestions, NEW run \in Seq(SteadyReadings(q))
  PROVE  ReadingQuantum(run) \in Nat /\ q.quantum <= ReadingQuantum(run)
<1> DEFINE fits(step) == \A i \in DOMAIN run : run[i].used % step = 0
<1>1. ReadingQuantum(run) = IF fits(10) THEN 10 ELSE IF fits(5) THEN 5 ELSE 1
  BY DEF ReadingQuantum
<1>2. q.quantum \in {1, 5, 10}
  BY DEF SteadyQuestions
<1>3. \A i \in DOMAIN run : \E k \in Nat : run[i].used = q.quantum * k
  <2>1. \A p \in SteadyReadings(q) : \E k \in Nat : p.used = q.quantum * k
    BY SteadyReadingsAre
  <2>2. \A i \in DOMAIN run : run[i] \in SteadyReadings(q)
    OBVIOUS
  <2> QED
    BY <2>1, <2>2
<1>4. q.quantum = 10 => fits(10)
  <2>1. \A k \in Nat : (10 * k) % 10 = 0
    OBVIOUS
  <2> QED
    BY <1>3, <2>1
<1>5. q.quantum = 5 => fits(5)
  <2>1. \A k \in Nat : (5 * k) % 5 = 0
    OBVIOUS
  <2> QED
    BY <1>3, <2>1
<1> HIDE DEF fits
<1> QED
  BY <1>1, <1>2, <1>4, <1>5

\* A rate that is fitted to steady readings holds the rate they are burnt at.
LEMMA SteadyFit ==
  ASSUME NEW q \in SteadyQuestions, NEW s \in Seq(SteadyReadings(q)), Rising(s),
         NEW quantum \in Nat, q.quantum <= quantum
  PROVE  LET rate == Fit(s, quantum)
             true == [n |-> q.quantum * q.rate, d |-> RateTicks]
         IN  /\ rate # NoRate => /\ Holds(rate, true)
                                 /\ {rate.low, rate.high, rate.d} \subseteq Nat
             /\ Len(s) >= 2 /\ s[Len(s)].ts - s[1].ts >= MIN_SAMPLE
                  => rate # NoRate /\ rate.from = s[1].ts
<1> DEFINE M == SteadyReadings(q)
           p == Head(s)
           r == Last(s)
           burn == r.used - p.used
           elapsed == r.ts - p.ts
           rate == Fit(s, quantum)
           num == q.quantum * q.rate
<1>1. Counted(M)
  BY SteadyReadingsAre
<1>2. MIN_SAMPLE \in Nat /\ MIN_SAMPLE > 0 /\ RateTicks \in Nat /\ q.quantum \in Nat
  BY MetricsAssumption, CalculationsAssumption DEF SteadyQuestions
<1>3. CASE Len(s) < 2 \/ elapsed < MIN_SAMPLE
  <2>1. rate = NoRate
    BY <1>3 DEF Fit
  <2>2. ~(Len(s) >= 2 /\ s[Len(s)].ts - s[1].ts >= MIN_SAMPLE)
    <3>1. ASSUME Len(s) >= 2 PROVE ~(elapsed >= MIN_SAMPLE) /\ p = s[1] /\ r = s[Len(s)]
      <4>1. Len(s) \in Nat /\ p = s[1] /\ r = s[Len(s)] /\ p \in M /\ r \in M
        BY <3>1 DEF Last
      <4>2. elapsed \in Int
        BY <1>1, <4>1 DEF Counted
      <4> HIDE DEF elapsed, p, r
      <4> QED
        BY <1>2, <1>3, <3>1, <4>1, <4>2
    <3> QED
      BY <3>1
  <2> QED
    BY <2>1, <2>2
<1>4. CASE ~(Len(s) < 2 \/ elapsed < MIN_SAMPLE)
  <2>1. Len(s) \in Nat /\ Len(s) >= 2 /\ p = s[1] /\ r = s[Len(s)] /\ p \in M /\ r \in M
    BY <1>4 DEF Last
  <2>2. p.ts < r.ts /\ p.ts \in Nat /\ r.ts \in Nat
    <3>1. 1 \in 1 .. Len(s) /\ Len(s) \in 1 .. Len(s) /\ 1 < Len(s)
      BY <2>1
    <3>2. s[1].ts < s[Len(s)].ts
      BY <3>1 DEF Rising
    <3> QED
      BY <1>1, <2>1, <3>2 DEF Counted
  <2>3. /\ burn \in Nat /\ elapsed \in Nat /\ num \in Nat /\ elapsed > 0
        /\ burn * RateTicks <= num * elapsed + q.quantum * RateTicks
        /\ num * elapsed <= burn * RateTicks + q.quantum * RateTicks
    BY <2>1, <2>2, SteadyFollows, SMTT(40)
  <2> DEFINE half == Max({Statistical(s, burn, elapsed), 1000 * quantum})
  <2>4. rate = Interval(s, quantum, burn, elapsed, half)
    BY <1>4, ZenonT(40) DEF Fit, FitElapsed
  <2>5. rate.from = p.ts /\ rate.d = 1000 * elapsed
    BY <2>4 DEF Interval
  <2> HIDE DEF burn, elapsed, num, p, r
  <2>6. half \in Nat /\ 1000 * q.quantum <= half
    <3>1. Statistical(s, burn, elapsed) \in Nat
      BY <1>1, <2>1, <2>3, StatisticalIsNatural
    <3> DEFINE x == Statistical(s, burn, elapsed)
               y == 1000 * quantum
    <3>2. x \in Int /\ x >= 0 /\ y \in Int /\ y >= 0 /\ 1000 * q.quantum <= y
      BY <1>2, <3>1
    <3> HIDE DEF x, y
    <3>3. Max({x, y}) = IF x >= y THEN x ELSE y
      <4>1. x \in Int /\ y \in Int
        BY <3>2
      <4> QED
        BY <4>1, MinMaxOfTwo, Zenon
    <3> QED
      BY <1>2, <3>2, <3>3 DEF x, y
  <2> HIDE DEF half
  <2>7. Holds(rate, [n |-> num, d |-> RateTicks])
    <3> DEFINE g == q.quantum
    <3>1. burn \in Int
      BY <2>3
    <3> HIDE DEF g, rate
    <3>2. Holds(Interval(s, quantum, burn, elapsed, half), [n |-> num, d |-> RateTicks])
      BY <1>2, <2>3, <2>6, <3>1, IntervalHolds, ZenonT(40) DEF g
    <3> QED
      BY <2>4, <3>2
  <2>8. rate.low \in Nat /\ rate.high \in Nat
    <3> DEFINE a == 1000 * burn - half
               b == 1000 * burn + half
    <3>1. a \in Int /\ b \in Int
      BY <2>3, <2>6
    <3>2. rate.low = Max({a, 0}) /\ rate.high = Max({b, 0})
      BY <2>4 DEF Interval
    <3> HIDE DEF a, b, rate
    <3> QED
      BY <3>1, <3>2, MaxWithZero
  <2>9. rate.d \in Nat /\ rate.d > 0
    BY <2>3, <2>5
  <2>10. rate # NoRate
    BY <2>9 DEF NoRate
  <2> QED
    BY <2>1, <2>5, <2>7, <2>8, <2>9, <2>10 DEF num
<1> QED
  BY <1>3, <1>4

\* The doubled lookbacks.
Doubles(f, lookback, age) ==
  f = [k \in 0 .. age |-> IF k = 0 THEN lookback ELSE 2 * f[k - 1]]

LEMMA DoublesExist ==
  ASSUME NEW lookback \in Nat, NEW age \in Nat
  PROVE  \E f : Doubles(f, lookback, age)
<1> DEFINE Bad == {n \in Nat : ~ \E f : Doubles(f, lookback, n)}
<1>1. 0 \notin Bad
  <2> DEFINE f == [k \in 0 .. 0 |-> lookback]
  <2>1. f = [k \in 0 .. 0 |-> IF k = 0 THEN lookback ELSE 2 * f[k - 1]]
    <3>1. \A k \in 0 .. 0 : k = 0
      OBVIOUS
    <3> QED
      BY <3>1
  <2>2. Doubles(f, lookback, 0)
    BY <2>1 DEF Doubles
  <2> HIDE DEF f
  <2> QED
    BY <2>2
<1>2. ASSUME NEW n \in Nat, n \notin Bad PROVE n + 1 \notin Bad
  <2>1. PICK f : Doubles(f, lookback, n)
    BY <1>2
  <2>2. \A k \in 0 .. n : f[k] = IF k = 0 THEN lookback ELSE 2 * f[k - 1]
    BY <2>1 DEF Doubles
  <2> DEFINE g == [k \in 0 .. n + 1 |-> IF k <= n THEN f[k] ELSE 2 * f[n]]
  <2>3. ASSUME NEW k \in 0 .. n + 1
        PROVE  g[k] = IF k = 0 THEN lookback ELSE 2 * g[k - 1]
    <3>1. CASE k <= n
      <4>1. k \in 0 .. n /\ g[k] = f[k]
        BY <3>1
      <4>2. CASE k = 0
        BY <2>2, <4>1, <4>2
      <4>3. CASE k # 0
        <5>1. k - 1 \in 0 .. n + 1 /\ k - 1 <= n
          BY <3>1, <4>3
        <5>2. g[k - 1] = f[k - 1]
          BY <5>1
        <5> HIDE DEF g
        <5> QED
          BY <2>2, <4>1, <4>3, <5>2
      <4> QED
        BY <4>2, <4>3
    <3>2. CASE ~(k <= n)
      <4>1. k = n + 1 /\ k # 0 /\ k - 1 = n /\ n \in 0 .. n + 1
        BY <3>2
      <4>2. g[k] = 2 * f[n] /\ g[n] = f[n]
        BY <3>2, <4>1
      <4> HIDE DEF g
      <4> QED
        BY <4>1, <4>2
    <3> QED
      BY <3>1, <3>2
  <2>4. g = [k \in 0 .. n + 1 |-> g[k]]
    OBVIOUS
  <2> HIDE DEF g
  <2>5. Doubles(g, lookback, n + 1)
    BY <2>3, <2>4 DEF Doubles
  <2> QED
    BY <2>5
<1>3. Bad = {}
  <2> SUFFICES ASSUME Bad # {} PROVE FALSE
    OBVIOUS
  <2> DEFINE m == Min(Bad)
  <2>1. Bad \subseteq Nat
    OBVIOUS
  <2> HIDE DEF Bad
  <2>2. m \in Bad /\ \A y \in Bad : m <= y
    BY <2>1, MinIsLeast
  <2> HIDE DEF m
  <2>3. m \in Nat /\ m # 0
    BY <1>1, <2>1, <2>2
  <2>4. m - 1 \in Nat /\ m - 1 \notin Bad
    BY <2>2, <2>3
  <2>5. m - 1 + 1 \notin Bad
    BY <1>2, <2>4
  <2> QED
    BY <2>2, <2>3, <2>5
<1> QED
  BY <1>3

LEMMA DoublesGrow ==
  ASSUME NEW lookback \in Nat, lookback > 0, NEW age \in Nat, NEW f,
         Doubles(f, lookback, age)
  PROVE  f[age] \in Nat /\ f[age] > age
<1> DEFINE Bad == {k \in 0 .. age : ~(f[k] \in Nat /\ f[k] > k)}
<1>1. \A k \in 0 .. age : f[k] = IF k = 0 THEN lookback ELSE 2 * f[k - 1]
  BY DEF Doubles
<1>2. ASSUME Bad # {} PROVE FALSE
  <2> DEFINE m == Min(Bad)
  <2>1. Bad \subseteq Nat
    OBVIOUS
  <2>2. m \in Bad /\ \A y \in Bad : m <= y
    <3> HIDE DEF Bad
    <3> QED
      BY <1>2, <2>1, MinIsLeast
  <2> HIDE DEF m
  <2>3. m \in 0 .. age /\ ~(f[m] \in Nat /\ f[m] > m)
    BY <2>2
  <2>4. m # 0
    BY <1>1, <2>3
  <2>5. m - 1 \in 0 .. age /\ m - 1 \notin Bad
    BY <2>2, <2>3, <2>4
  <2>6. f[m - 1] \in Nat /\ f[m - 1] > m - 1
    BY <2>5
  <2>7. f[m] = 2 * f[m - 1]
    BY <1>1, <2>3, <2>4
  <2> QED
    BY <2>3, <2>4, <2>6, <2>7
<1>3. age \in 0 .. age
  OBVIOUS
<1> QED
  BY <1>2, <1>3

\* What is cut off a run at either end leaves a run.
LEMMA PiecesRise ==
  ASSUME NEW M, NEW run \in Seq(M), Rising(run), NEW ts
  PROVE  /\ From(run, ts) \in Seq(M) /\ Rising(From(run, ts))
         /\ UpTo(run, ts) \in Seq(M) /\ Rising(UpTo(run, ts))
<1>1. From(run, ts) \in Seq(M) /\ Rising(From(run, ts))
  <2>1. PICK a \in 1 .. Len(run) + 1 : From(run, ts) = SubSeq(run, a, Len(run))
    BY FromIsSuffix
  <2> DEFINE s == SubSeq(run, a, Len(run))
  <2>2. /\ s \in Seq(M) /\ Len(s) = Len(run) - a + 1
        /\ \A i \in 1 .. Len(s) : s[i] = run[a + i - 1]
    BY SuffixOf
  <2> HIDE DEF s
  <2>3. ASSUME NEW i \in 1 .. Len(s), NEW j \in 1 .. Len(s), i < j
        PROVE  s[i].ts < s[j].ts
    <3>1. /\ a + i - 1 \in 1 .. Len(run) /\ a + j - 1 \in 1 .. Len(run)
          /\ a + i - 1 < a + j - 1
      BY <2>2, <2>3
    <3>2. run[a + i - 1].ts < run[a + j - 1].ts
      BY <3>1, Zenon DEF Rising
    <3> QED
      BY <2>2, <3>2
  <2> QED
    BY <2>1, <2>2, <2>3 DEF Rising, s
<1>2. UpTo(run, ts) \in Seq(M) /\ Rising(UpTo(run, ts))
  <2> DEFINE S == {i \in DOMAIN run : run[i].ts <= ts}
             c == Cardinality(S)
             s == SubSeq(run, 1, c)
  <2>1. S \in SUBSET (1 .. Len(run)) /\ Len(run) \in Nat
    OBVIOUS
  <2>2. UpTo(run, ts) = s
    BY DEF UpTo
  <2> HIDE DEF S
  <2>3. c \in 0 .. Len(run)
    BY <2>1, PlacesCounted
  <2> HIDE DEF c
  <2>4. /\ s \in Seq(M) /\ Len(s) = c
        /\ \A i \in 1 .. Len(s) : s[i] = run[i]
    BY <2>1, <2>3
  <2> HIDE DEF s
  <2>5. ASSUME NEW i \in 1 .. Len(s), NEW j \in 1 .. Len(s), i < j
        PROVE  s[i].ts < s[j].ts
    <3>1. i \in 1 .. Len(run) /\ j \in 1 .. Len(run)
      BY <2>3, <2>4
    <3>2. run[i].ts < run[j].ts
      BY <2>5, <3>1, Zenon DEF Rising
    <3> QED
      BY <2>4, <3>2
  <2> QED
    BY <2>2, <2>4, <2>5 DEF Rising
<1> QED
  BY <1>1, <1>2

\* A lookback that reaches back to the first reading keeps them all.
LEMMA AllKept ==
  ASSUME NEW M, Counted(M), NEW run \in Seq(M), Rising(run), Len(run) >= 2,
         NEW ts \in Int, ts <= run[1].ts
  PROVE  From(run, ts) = run
<1> DEFINE S == {i \in DOMAIN run : run[i].ts < ts}
<1>1. ASSUME NEW i \in 1 .. Len(run) PROVE ~(run[i].ts < ts)
  <2>1. 1 \in 1 .. Len(run) /\ run[1] \in M /\ run[i] \in M
    OBVIOUS
  <2>2. run[1].ts \in Nat /\ run[i].ts \in Nat
    BY <2>1 DEF Counted
  <2>3. run[1].ts <= run[i].ts
    <3>1. CASE i = 1
      BY <2>2, <3>1
    <3>2. CASE i # 1
      <4>1. run[1].ts < run[i].ts
        BY <2>1, <3>2 DEF Rising
      <4> QED
        BY <2>2, <4>1
    <3> QED
      BY <3>1, <3>2
  <2> QED
    BY <2>2, <2>3
<1>2. S = {}
  BY <1>1
<1>3. From(run, ts) = SubSeq(run, 1 + Cardinality(S), Len(run))
  BY DEF From
<1>4. Cardinality(S) = 0
  BY <1>2, FS_EmptySet
<1> HIDE DEF S
<1>5. From(run, ts) = SubSeq(run, 1, Len(run))
  BY <1>3, <1>4
<1> QED
  BY <1>5

\* The steady rate is never ruled out, whatever the pieces it is measured over.
LEMMA NeverRuledOut ==
  ASSUME NEW q \in SteadyQuestions, NEW quantum \in Nat, q.quantum <= quantum,
         NEW s \in Seq(SteadyReadings(q)), Rising(s),
         NEW kept \in Seq(SteadyReadings(q)), Rising(kept)
  PROVE  ~RulesOut(Fit(s, quantum), kept, quantum)
<1> DEFINE num == q.quantum * q.rate
           a == Fit(s, quantum)
           b == Fit(UpTo(kept, a.from), quantum)
<1>1. num \in Nat /\ RateTicks \in Nat /\ RateTicks > 0
  <2>1. q.quantum \in Nat /\ q.rate \in Nat
    BY DEF SteadyQuestions
  <2> QED
    BY <2>1, CalculationsAssumption
<1>2. UpTo(kept, a.from) \in Seq(SteadyReadings(q)) /\ Rising(UpTo(kept, a.from))
  BY PiecesRise
<1> SUFFICES ASSUME a # NoRate, b # NoRate PROVE ~Disjoint(b, a)
  BY DEF RulesOut
<1>3. Holds(a, [n |-> num, d |-> RateTicks]) /\ {a.low, a.high, a.d} \subseteq Nat
  BY SteadyFit
<1>4. Holds(b, [n |-> num, d |-> RateTicks]) /\ {b.low, b.high, b.d} \subseteq Nat
  BY <1>2, SteadyFit
<1> HIDE DEF a, b, num
<1> QED
  BY <1>1, <1>3, <1>4, HoldersAgree

LEMMA LookbackIsPositive ==
  ASSUME NEW span \in Nat
  PROVE  RecentLookback(span) \in Nat /\ RecentLookback(span) > 0
<1> DEFINE x == span \div 10
           y == Max({x, LOOK_MIN})
<1>1. x \in Nat
  OBVIOUS
<1>2. LOOK_MIN \in Nat /\ LOOK_MIN > 0 /\ LOOK_MAX \in Nat /\ LOOK_MAX >= LOOK_MIN
  BY MetricsAssumption
<1> HIDE DEF x
<1>3. y = IF x >= LOOK_MIN THEN x ELSE LOOK_MIN
  BY <1>1, <1>2, MinMaxOfTwo
<1>4. RecentLookback(span) = Min({y, LOOK_MAX})
  BY DEF RecentLookback, Clamp, x
<1> QED
  BY <1>1, <1>2, <1>3, <1>4, MinMaxOfTwo

\* The steady rate, however far its lookback widens.
LEMMA SteadyWidens ==
  ASSUME NEW q \in SteadyQuestions, NEW run \in Seq(SteadyReadings(q)), Rising(run),
         Len(run) >= 2, run[1].ts = 0, run[Len(run)].ts = Ticks,
         NEW quantum \in Nat, q.quantum <= quantum, NEW span,
         NEW lookback \in Nat, lookback > 0
  PROVE  LET rate == Widen(run, quantum, span, lookback)
         IN  /\ rate # NoRate
             /\ Holds(rate, [n |-> q.quantum * q.rate, d |-> RateTicks])
             /\ rate.from = 0 \/ IsPrecise(rate, span)
<1> DEFINE age   == Last(run).ts - Head(run).ts
           width == CHOOSE f : Doubles(f, lookback, age)
           kept(k) == From(run, Last(run).ts - width[k])
           estimate(k) == Fit(kept(k), quantum)
           other(k) == k > 0 /\ RulesOut(estimate(k - 1), kept(k), quantum)
           ends(k)  == other(k) \/ kept(k) = run \/ IsPrecise(estimate(k), span)
           widenings == CHOOSE k \in 0 .. age : ends(k) /\ \A j \in 0 .. k - 1 : ~ends(j)
           rate == Widen(run, quantum, span, lookback)
           M == SteadyReadings(q)
<1>1. rate = estimate(IF other(widenings) THEN widenings - 1 ELSE widenings)
  BY Zenon DEF Widen, Doubles
<1>2. Ticks \in Nat /\ MIN_SAMPLE \in Nat /\ Ticks >= MIN_SAMPLE
  BY CalculationsAssumption, MetricsAssumption
<1>3. Head(run) = run[1] /\ Last(run) = run[Len(run)] /\ Last(run).ts = Ticks /\ age = Ticks
  BY <1>2 DEF Last
<1>4. Doubles(width, lookback, age)
  <2>1. \E f : Doubles(f, lookback, age)
    BY <1>2, <1>3, DoublesExist
  <2> QED
    BY <2>1, Zenon
<1> HIDE DEF width
<1>5. kept(age) = run
  <2>1. width[age] \in Nat /\ width[age] > age
    BY <1>2, <1>3, <1>4, DoublesGrow
  <2> DEFINE ts == Last(run).ts - width[age]
  <2>2. ts \in Int /\ ts <= run[1].ts
    BY <1>2, <1>3, <2>1
  <2>3. Counted(M)
    BY SteadyReadingsAre
  <2> HIDE DEF ts
  <2>4. From(run, ts) = run
    BY <2>2, <2>3, AllKept
  <2> QED
    BY <2>4 DEF ts
<1>6. ASSUME NEW k PROVE kept(k) \in Seq(M) /\ Rising(kept(k))
  BY PiecesRise
<1> HIDE DEF kept, age, M
<1>7. ASSUME NEW k PROVE ~other(k)
  BY <1>6, NeverRuledOut DEF M
<1> HIDE DEF other
<1>8. PICK k \in 0 .. age : rate = estimate(k) /\ (kept(k) = run \/ IsPrecise(estimate(k), span))
  <2> DEFINE S == {j \in 0 .. age : ends(j)}
  <2>1. age \in Nat
    BY <1>2, <1>3
  <2>2. ends(age)
    BY <1>5
  <2> HIDE DEF ends
  <2>3. S \subseteq Nat /\ age \in S
    BY <2>1, <2>2
  <2>4. Min(S) \in S /\ \A y \in S : Min(S) <= y
    <3> HIDE DEF S
    <3> QED
      BY <2>3, MinIsLeast
  <2> DEFINE m == Min(S)
  <2> HIDE DEF m
  <2>5. m \in 0 .. age /\ ends(m) /\ \A j \in 0 .. m - 1 : ~ends(j)
    BY <2>1, <2>4, SMTT(40) DEF m
  <2>6. widenings \in 0 .. age /\ ends(widenings)
    BY <2>5, Zenon
  <2> HIDE DEF widenings
  <2>7. rate = estimate(widenings)
    BY <1>1, <1>7
  <2> QED
    BY <1>7, <2>6, <2>7 DEF ends
<1>9. rate # NoRate /\ (rate.from = 0 \/ IsPrecise(rate, span))
  <2>1. CASE kept(k) = run
    <3>1. rate = Fit(run, quantum)
      BY <1>8, <2>1
    <3>2. run[Len(run)].ts - run[1].ts >= MIN_SAMPLE
      BY <1>2
    <3>3. Fit(run, quantum) # NoRate /\ Fit(run, quantum).from = run[1].ts
      BY <3>2, SteadyFit
    <3> QED
      BY <3>1, <3>3
  <2>2. CASE IsPrecise(estimate(k), span)
    <3>1. IsPrecise(rate, span)
      BY <1>8, <2>2
    <3>2. rate.readings > 2
      BY <3>1 DEF IsPrecise
    <3>3. NoRate.readings = 0
      BY DEF NoRate
    <3> HIDE DEF rate
    <3> QED
      BY <3>1, <3>2, <3>3
  <2> QED
    BY <1>8, <2>1, <2>2
<1>10. Holds(rate, [n |-> q.quantum * q.rate, d |-> RateTicks])
  <2>1. kept(k) \in Seq(SteadyReadings(q)) /\ Rising(kept(k))
    BY <1>6 DEF M
  <2> QED
    BY <1>8, <1>9, <2>1, SteadyFit
<1> QED
  BY <1>9, <1>10

\* A quota that is burnt at one rate is read as burning at that rate
\* (estimate_rate, fit): whatever the rate, its phase, the rounding of the
\* readings and the polls that were missed, the true rate lies within the
\* interval, older readings never seem to disagree with newer ones, and the
\* lookback ends only at a readable interval or at the first reading.
THEOREM SteadyCorrect ==
  ASSUME asked \in SteadyQuestions
  PROVE  SteadyRateMeasured
<1> DEFINE q == asked
           w == SteadyWindow(q)
           M == SteadyReadings(q)
           run == Matching(w, M, Ticks)
           rate == SteadyRate(q)
           lookback == RecentLookback(WeekSpan)
           true == [n |-> q.quantum * q.rate, d |-> RateTicks]
<1>1. /\ run \in Seq(M) /\ Rising(run) /\ Len(run) >= 2
      /\ run[1].ts = 0 /\ run[Len(run)].ts = Ticks
      /\ Stretch(run, GapTolerance(1)) = run
  BY SteadyRun
<1>2. WeekSpan \in Nat /\ WeekSpan > 0 /\ Ticks \in Nat /\ SpanOf(w) = WeekSpan
  BY CalculationsAssumption DEF SpanOf, SteadyWindow
<1>3. rate = Widen(run, ReadingQuantum(run), WeekSpan, lookback)
  <2> DEFINE gap == GapTolerance(1)
  <2>1. rate = EstimateRate(w, M, gap, Ticks)
    BY DEF SteadyRate
  <2>2. gap \in Nat
    BY ToleranceIsNatural
  <2> HIDE DEF w, M, gap, run
  <2>3. run # <<>> /\ Last(run).ts = Ticks
    BY <1>1 DEF Last
  <2>4. ~(Ticks - Last(run).ts > gap)
    BY <1>2, <2>2, <2>3
  <2>5. EstimateRate(w, M, gap, Ticks) = RateOfRun(run, WeekSpan, gap, Ticks)
    BY <1>2 DEF EstimateRate, run
  <2>6. RateOfRun(run, WeekSpan, gap, Ticks) = RateOfStretch(Stretch(run, gap), WeekSpan)
    BY <2>3, <2>4 DEF RateOfRun
  <2>7. Stretch(run, gap) = run
    BY <1>1 DEF gap
  <2> QED
    BY <2>1, <2>5, <2>6, <2>7 DEF RateOfStretch
<1>4. ReadingQuantum(run) \in Nat /\ q.quantum <= ReadingQuantum(run)
  BY <1>1, QuantumCovers
<1>5. lookback \in Nat /\ lookback > 0
  BY <1>2, LookbackIsPositive
<1> HIDE DEF run, lookback
<1>6. /\ rate # NoRate /\ Holds(rate, true)
      /\ rate.from = 0 \/ IsPrecise(rate, WeekSpan)
  BY <1>1, <1>3, <1>4, <1>5, SteadyWidens
<1> HIDE DEF rate
<1> QED
  BY <1>6 DEF SteadyRateMeasured, Holds, rate

-----------------------------------------------------------------------------
(* Names and their slugs.                                                  *)

SlugLoop(f, name) ==
  f = [n \in 0 .. Len(name) |->
         IF n = 0 THEN <<>>
         ELSE IF name[n] \in Separators THEN f[n - 1]
         ELSE Append(f[n - 1], Lowercase(name[n]))]

LEMMA SlugIs ==
  ASSUME NEW Words, NEW name \in Seq(Words)
  PROVE  \E f \in [0 .. Len(name) -> Seq({Lowercase(word) : word \in Words})] :
           /\ ModelSlug(name) = f[Len(name)]
           /\ f[0] = <<>>
           /\ \A n \in 1 .. Len(name) :
                f[n] = IF name[n] \in Separators THEN f[n - 1]
                       ELSE Append(f[n - 1], Lowercase(name[n]))
<1> DEFINE T == {Lowercase(word) : word \in Words}
           W == Seq(T)
           N == Len(name)
           next(s, n) == IF name[n] \in Separators THEN s ELSE Append(s, Lowercase(name[n]))
           step == [n \in 1 .. N |-> [s \in W |-> next(s, n)]]
           slug == CHOOSE f : SlugLoop(f, name)
<1>1. N \in Nat /\ <<>> \in W
  OBVIOUS
<1>2. ASSUME NEW n \in 1 .. N, NEW s \in W PROVE next(s, n) \in W
  <2>1. Lowercase(name[n]) \in T
    OBVIOUS
  <2> HIDE DEF T
  <2> QED
    BY <2>1
<1> HIDE DEF W, T, next
<1>3. step \in [1 .. N -> [W -> W]]
  BY <1>2
<1>4. \A n \in 1 .. N, s \in W : step[n][s] = next(s, n)
  OBVIOUS
<1> HIDE DEF step, N
<1>5. PICK f \in [0 .. N -> W] : f[0] = <<>> /\ \A n \in 1 .. N : f[n] = step[n][f[n - 1]]
  <2>1. \E f : IsLoop(f, W, N, <<>>, step)
    BY <1>1, <1>3, LoopExists
  <2> QED
    BY <2>1 DEF IsLoop
<1>6. SlugLoop(f, name)
  <2>1. ASSUME NEW n \in 0 .. N PROVE f[n] = IF n = 0 THEN <<>> ELSE next(f[n - 1], n)
    <3>1. CASE n = 0
      BY <1>5, <3>1
    <3>2. CASE n # 0
      <4>1. n \in 1 .. N /\ n - 1 \in 0 .. N
        BY <1>1, <3>2
      <4> QED
        BY <1>4, <1>5, <3>2, <4>1
    <3> QED
      BY <3>1, <3>2
  <2>2. f = [n \in 0 .. N |-> f[n]]
    OBVIOUS
  <2>3. f = [n \in 0 .. N |-> IF n = 0 THEN <<>> ELSE next(f[n - 1], n)]
    BY <2>1, <2>2
  <2> QED
    BY <2>3, Zenon DEF SlugLoop, next, N
<1>7. SlugLoop(slug, name)
  BY <1>6, Zenon
<1>8. ModelSlug(name) = slug[N]
  BY Zenon DEF ModelSlug, SlugLoop, N
<1> HIDE DEF slug
<1>9. slug = [n \in 0 .. N |-> IF n = 0 THEN <<>> ELSE next(slug[n - 1], n)]
  BY <1>7, Zenon DEF SlugLoop, next, N
<1>10. /\ slug[0] = <<>>
       /\ \A n \in 1 .. N : slug[n] = next(slug[n - 1], n)
  <2>1. \A n \in 0 .. N : slug[n] = IF n = 0 THEN <<>> ELSE next(slug[n - 1], n)
    BY <1>9
  <2> QED
    BY <1>1, <2>1
<1>11. \A n \in 0 .. N : slug[n] \in W
  <2> DEFINE S == {n \in 0 .. N : slug[n] \in W}
  <2>1. 0 \in S
    BY <1>1, <1>10
  <2>2. \A n \in 1 .. N : n - 1 \in S => n \in S
    BY <1>1, <1>2, <1>10
  <2>3. \A n \in 0 .. N : n \in S
    <3> HIDE DEF S
    <3> QED
      BY <1>1, <2>1, <2>2, Throughout
  <2> QED
    BY <2>3
<1>12. slug \in [0 .. N -> W]
  BY <1>9, <1>11
<1> QED
  BY <1>8, <1>10, <1>12 DEF N, W, T, next

-----------------------------------------------------------------------------
(* The windows of a payload.                                               *)

\* A fixed bucket that is read, and a row of the limits that is reported.
BucketRead(usage, i) ==
  LET bucket == usage.buckets[Specs[i].bucket]
  IN  bucket.carried /\ bucket.used # Unreadable

BucketWindow(usage, i) ==
  [id |-> Specs[i].id, scope |-> Specs[i].model,
   used |-> usage.buckets[Specs[i].bucket].used,
   reset_at |-> usage.buckets[Specs[i].bucket].resets_at]

RowCounts(usage, row) ==
  /\ NamesACap(row) /\ row.percent # Unreadable
  /\ \A m \in FixedModels(usage) : ~SameModel(SlugOf(row.model), m)

RowWindow(row) ==
  [id |-> WindowIdOf(SlugOf(row.model)), scope |-> SlugOf(row.model),
   used |-> row.percent, reset_at |-> row.resets_at]

BucketWindows(usage) == {BucketWindow(usage, i) : i \in {j \in 1 .. 4 : BucketRead(usage, j)}}

RowWindows(usage, rows) ==
  {RowWindow(rows[i]) : i \in {j \in 1 .. Len(rows) : RowCounts(usage, rows[j])}}

BucketLoop(f, usage) ==
  f = [n \in 0 .. Len(Specs) |->
         IF n = 0 THEN <<>>
         ELSE AddBucket(f[n - 1], Specs[n], usage.buckets[Specs[n].bucket])]

RowLoop(f, usage, rows) ==
  f = [n \in 0 .. Len(rows) |->
         IF n = 0 THEN FixedWindows(usage)
         ELSE AddRow(f[n - 1], rows[n], FixedModels(usage))]

\* The windows of the fixed buckets are those of the buckets that are read.
LEMMA FixedWindowsAre ==
  ASSUME NEW usage
  PROVE  /\ FixedWindows(usage) \in Seq(BucketWindows(usage))
         /\ \A w \in BucketWindows(usage) :
              \E k \in 1 .. Len(FixedWindows(usage)) : FixedWindows(usage)[k] = w
<1> DEFINE T == BucketWindows(usage)
           W == Seq(T)
           next(s, n) == AddBucket(s, Specs[n], usage.buckets[Specs[n].bucket])
           step == [n \in 1 .. 4 |-> [s \in W |-> next(s, n)]]
           read == CHOOSE f : BucketLoop(f, usage)
<1>1. Len(Specs) = 4
  BY DEF Specs
<1>2. ASSUME NEW n \in 1 .. 4, NEW s
      PROVE  next(s, n) = IF BucketRead(usage, n) THEN Append(s, BucketWindow(usage, n)) ELSE s
  BY Zenon DEF AddBucket, BucketRead, BucketWindow
<1>3. ASSUME NEW n \in 1 .. 4, BucketRead(usage, n) PROVE BucketWindow(usage, n) \in T
  BY <1>3 DEF BucketWindows
<1> HIDE DEF T, next
<1>4. ASSUME NEW n \in 1 .. 4, NEW s \in W PROVE next(s, n) \in W
  <2>1. CASE BucketRead(usage, n)
    <3>1. next(s, n) = Append(s, BucketWindow(usage, n)) /\ BucketWindow(usage, n) \in T
      BY <1>2, <1>3, <2>1
    <3> QED
      BY <3>1
  <2>2. CASE ~BucketRead(usage, n)
    BY <1>2, <2>2
  <2> QED
    BY <2>1, <2>2
<1>5. <<>> \in W
  OBVIOUS
<1> HIDE DEF W
<1>6. step \in [1 .. 4 -> [W -> W]] /\ \A n \in 1 .. 4, s \in W : step[n][s] = next(s, n)
  BY <1>4
<1> HIDE DEF step
<1>7. PICK f \in [0 .. 4 -> W] : f[0] = <<>> /\ \A n \in 1 .. 4 : f[n] = step[n][f[n - 1]]
  <2>1. \A N \in Nat : step \in [1 .. N -> [W -> W]] =>
          \E f : IsLoop(f, W, N, <<>>, step)
    BY <1>5, LoopExists
  <2>2. \E f : IsLoop(f, W, 4, <<>>, step)
    BY <1>6, <2>1
  <2> QED
    BY <2>2 DEF IsLoop
<1>8. BucketLoop(f, usage)
  <2>1. ASSUME NEW n \in 0 .. 4 PROVE f[n] = IF n = 0 THEN <<>> ELSE next(f[n - 1], n)
    <3>1. CASE n = 0
      BY <1>7, <3>1
    <3>2. CASE n # 0
      <4>1. n \in 1 .. 4 /\ n - 1 \in 0 .. 4
        BY <3>2
      <4> QED
        BY <1>6, <1>7, <3>2, <4>1
    <3> QED
      BY <3>1, <3>2
  <2>2. f = [n \in 0 .. 4 |-> f[n]]
    OBVIOUS
  <2>3. f = [n \in 0 .. 4 |-> IF n = 0 THEN <<>> ELSE next(f[n - 1], n)]
    BY <2>1, <2>2
  <2> QED
    BY <1>1, <2>3, Zenon DEF BucketLoop, next
<1>9. BucketLoop(read, usage)
  BY <1>8, Zenon
<1>10. FixedWindows(usage) = read[4]
  BY <1>1, Zenon DEF FixedWindows, BucketLoop
<1> HIDE DEF read
<1>11. read = [n \in 0 .. 4 |-> IF n = 0 THEN <<>> ELSE next(read[n - 1], n)]
  BY <1>1, <1>9, Zenon DEF BucketLoop, next
<1>12. read[0] = <<>> /\ \A n \in 1 .. 4 : read[n] = next(read[n - 1], n)
  <2>1. \A n \in 0 .. 4 : read[n] = IF n = 0 THEN <<>> ELSE next(read[n - 1], n)
    BY <1>11
  <2> QED
    BY <2>1
<1> DEFINE Has(n, i) == BucketRead(usage, i) =>
                          \E k \in 1 .. Len(read[n]) : read[n][k] = BucketWindow(usage, i)
           S == {n \in 0 .. 4 : read[n] \in W /\ \A i \in 1 .. n : Has(n, i)}
<1>13. 0 \in S
  BY <1>5, <1>12
<1>14. ASSUME NEW n \in 1 .. 4, n - 1 \in S PROVE n \in S
  <2>1. n - 1 \in 0 .. 4 /\ read[n - 1] \in W /\ \A i \in 1 .. n - 1 : Has(n - 1, i)
    BY <1>14
  <2>2. read[n] = IF BucketRead(usage, n) THEN Append(read[n - 1], BucketWindow(usage, n))
                  ELSE read[n - 1]
    BY <1>2, <1>12
  <2>3. read[n] \in W
    BY <1>4, <1>12, <2>1
  <2>4. ASSUME NEW i \in 1 .. n, BucketRead(usage, i)
        PROVE  \E k \in 1 .. Len(read[n]) : read[n][k] = BucketWindow(usage, i)
    <3> DEFINE s == read[n - 1]
    <3>1. s \in Seq(T)
      BY <2>1 DEF W
    <3>2. CASE i = n
      <4>1. read[n] = Append(s, BucketWindow(usage, i)) /\ BucketWindow(usage, i) \in T
        BY <1>3, <2>2, <2>4, <3>2
      <4> HIDE DEF s
      <4>2. Len(read[n]) = Len(s) + 1 /\ read[n][Len(s) + 1] = BucketWindow(usage, i)
        BY <3>1, <4>1
      <4> QED
        BY <3>1, <4>2
    <3>3. CASE i # n
      <4>1. i \in 1 .. n - 1
        BY <3>3
      <4>2. PICK k \in 1 .. Len(s) : s[k] = BucketWindow(usage, i)
        BY <2>1, <2>4, <4>1
      <4>3. CASE BucketRead(usage, n)
        <5>1. read[n] = Append(s, BucketWindow(usage, n)) /\ BucketWindow(usage, n) \in T
          BY <1>3, <2>2, <4>3
        <5> HIDE DEF s
        <5>2. k \in 1 .. Len(read[n]) /\ read[n][k] = s[k]
          BY <3>1, <5>1
        <5> QED
          BY <4>2, <5>2
      <4>4. CASE ~BucketRead(usage, n)
        BY <2>2, <4>2, <4>4
      <4> QED
        BY <4>3, <4>4
    <3> QED
      BY <3>2, <3>3
  <2>5. \A i \in 1 .. n : Has(n, i)
    BY <2>4
  <2> HIDE DEF Has
  <2> QED
    BY <2>3, <2>5
<1> HIDE DEF Has
<1>15. 4 \in S
  <2> HIDE DEF S
  <2>1. \A N \in Nat : (\A n \in 1 .. N : n - 1 \in S => n \in S) => \A n \in 0 .. N : n \in S
    BY <1>13, Throughout
  <2> QED
    BY <1>14, <2>1
<1>16. read[4] \in W /\ \A i \in 1 .. 4 : Has(4, i)
  BY <1>15
<1> QED
  BY <1>10, <1>16 DEF Has, W, T, BucketWindows

Reported(windows, id) == \E k \in 1 .. Len(windows) : windows[k].id = id

\* The windows of a payload are those of the buckets that are read, and of the
\* rows that count: the first of each id.
LEMMA AllWindowsAre ==
  ASSUME NEW usage, NEW rows, rows = LimitRows(usage.limits), Len(rows) \in Nat
  PROVE  /\ AllWindows(usage) \in Seq(BucketWindows(usage) \cup RowWindows(usage, rows))
         /\ \A w \in BucketWindows(usage) :
              \E k \in 1 .. Len(AllWindows(usage)) : AllWindows(usage)[k] = w
         /\ \A i \in 1 .. Len(rows) : RowCounts(usage, rows[i]) =>
              Reported(AllWindows(usage), WindowIdOf(SlugOf(rows[i].model)))
<1> DEFINE T == BucketWindows(usage) \cup RowWindows(usage, rows)
           W == Seq(T)
           N == Len(rows)
           id(n) == WindowIdOf(SlugOf(rows[n].model))
           fixed == FixedWindows(usage)
           next(s, n) == AddRow(s, rows[n], FixedModels(usage))
           counts(n) == RowCounts(usage, rows[n])
           new(n)    == RowWindow(rows[n])
           fresh(s, n) == \A i \in DOMAIN s : s[i].id # id(n)
           step == [n \in 1 .. N |-> [s \in W |-> next(s, n)]]
           read == CHOOSE f : RowLoop(f, usage, rows)
<1>1. ASSUME NEW s, NEW n
      PROVE  next(s, n) = IF counts(n) /\ fresh(s, n) THEN Append(s, new(n)) ELSE s
  BY Zenon DEF AddRow, RowCounts, RowWindow
<1>2. ASSUME NEW n \in 1 .. N, counts(n) PROVE new(n) \in T /\ new(n).id = id(n)
  BY <1>2 DEF RowWindows, RowWindow
<1>3. fixed \in W /\ \A w \in BucketWindows(usage) : \E k \in 1 .. Len(fixed) : fixed[k] = w
  <2>1. BucketWindows(usage) \subseteq T
    OBVIOUS
  <2> HIDE DEF T
  <2> QED
    BY <2>1, FixedWindowsAre
<1> HIDE DEF T, next, counts, new, fixed, N
<1>4. ASSUME NEW n \in 1 .. N, NEW s \in W PROVE next(s, n) \in W
  <2>1. CASE counts(n) /\ fresh(s, n)
    <3>1. next(s, n) = Append(s, new(n)) /\ new(n) \in T
      BY <1>1, <1>2, <2>1
    <3> QED
      BY <3>1
  <2>2. CASE ~(counts(n) /\ fresh(s, n))
    BY <1>1, <2>2
  <2> QED
    BY <2>1, <2>2
<1> HIDE DEF W
<1>5. step \in [1 .. N -> [W -> W]] /\ \A n \in 1 .. N, s \in W : step[n][s] = next(s, n)
  BY <1>4
<1> HIDE DEF step
<1>6. N \in Nat
  BY DEF N
<1>7. PICK f \in [0 .. N -> W] : f[0] = fixed /\ \A n \in 1 .. N : f[n] = step[n][f[n - 1]]
  <2>1. \E f : IsLoop(f, W, N, fixed, step)
    BY <1>3, <1>5, <1>6, LoopExists
  <2> QED
    BY <2>1 DEF IsLoop
<1>8. RowLoop(f, usage, rows)
  <2>1. ASSUME NEW n \in 0 .. N PROVE f[n] = IF n = 0 THEN fixed ELSE next(f[n - 1], n)
    <3>1. CASE n = 0
      BY <1>7, <3>1
    <3>2. CASE n # 0
      <4>1. n \in 1 .. N /\ n - 1 \in 0 .. N
        BY <1>6, <3>2
      <4> QED
        BY <1>5, <1>7, <3>2, <4>1
    <3> QED
      BY <3>1, <3>2
  <2>2. f = [n \in 0 .. N |-> f[n]]
    OBVIOUS
  <2>3. f = [n \in 0 .. N |-> IF n = 0 THEN fixed ELSE next(f[n - 1], n)]
    BY <2>1, <2>2
  <2> QED
    BY <2>3, Zenon DEF RowLoop, next, N, fixed
<1>9. RowLoop(read, usage, rows)
  BY <1>8, Zenon
<1>10. AllWindows(usage) = read[N]
  BY Zenon DEF AllWindows, RowLoop, N
<1> HIDE DEF read
<1>11. read = [n \in 0 .. N |-> IF n = 0 THEN fixed ELSE next(read[n - 1], n)]
  BY <1>9, Zenon DEF RowLoop, next, N, fixed
<1>12. read[0] = fixed /\ \A n \in 1 .. N : read[n] = next(read[n - 1], n)
  <2>1. \A n \in 0 .. N : read[n] = IF n = 0 THEN fixed ELSE next(read[n - 1], n)
    BY <1>11
  <2> QED
    BY <1>6, <2>1
<1> DEFINE Has(n, w) == \E k \in 1 .. Len(read[n]) : read[n][k] = w
           Told(n, i) == \E k \in 1 .. Len(read[n]) : read[n][k].id = id(i)
           Good(n) == /\ read[n] \in W
                      /\ \A w \in BucketWindows(usage) : Has(n, w)
                      /\ \A i \in 1 .. n : counts(i) => Told(n, i)
           S == {n \in 0 .. N : Good(n)}
<1> HIDE DEF id
<1>13. 0 \in S
  <2>1. Good(0)
    BY <1>3, <1>12
  <2> QED
    BY <1>6, <2>1
<1>14. ASSUME NEW n \in 1 .. N, n - 1 \in S PROVE n \in S
  <2> DEFINE s == read[n - 1]
             t == read[n]
  <2>1. Good(n - 1)
    BY <1>14
  <2>2. s \in W /\ t = next(s, n)
    BY <1>12, <2>1
  <2>3. t \in W
    BY <1>4, <2>2
  <2>4. s \in Seq(T) /\ t \in Seq(T)
    BY <2>2, <2>3 DEF W
  <2>5. \A k \in 1 .. Len(s) : k \in 1 .. Len(t) /\ t[k] = s[k]
    <3> HIDE DEF s, t
    <3>1. CASE counts(n) /\ fresh(s, n)
      <4>1. t = Append(s, new(n)) /\ new(n) \in T
        BY <1>1, <1>2, <2>2, <3>1
      <4> QED
        BY <2>4, <4>1
    <3>2. CASE ~(counts(n) /\ fresh(s, n))
      BY <1>1, <2>2, <3>2
    <3> QED
      BY <3>1, <3>2
  <2>6. ASSUME NEW w \in BucketWindows(usage) PROVE Has(n, w)
    <3>1. PICK k \in 1 .. Len(s) : s[k] = w
      BY <2>1
    <3> QED
      BY <2>5, <3>1
  <2>7. ASSUME NEW i \in 1 .. n, counts(i) PROVE Told(n, i)
    <3>1. CASE i # n
      <4>1. i \in 1 .. n - 1
        BY <3>1
      <4>2. PICK k \in 1 .. Len(s) : s[k].id = id(i)
        BY <2>1, <2>7, <4>1
      <4> QED
        BY <2>5, <4>2
    <3>2. CASE i = n /\ fresh(s, n)
      <4>1. t = Append(s, new(n)) /\ new(n) \in T /\ new(n).id = id(n)
        BY <1>1, <1>2, <2>2, <2>7, <3>2
      <4>2. Len(t) \in 1 .. Len(t) /\ t[Len(t)] = new(n)
        <5> HIDE DEF s, t
        <5> QED
          BY <2>4, <4>1
      <4> QED
        BY <3>2, <4>1, <4>2
    <3>3. CASE i = n /\ ~fresh(s, n)
      <4>1. PICK k \in DOMAIN s : s[k].id = id(n)
        BY <3>3
      <4>2. k \in 1 .. Len(s)
        <5> HIDE DEF s
        <5> QED
          BY <2>4, <4>1
      <4> QED
        BY <2>5, <3>3, <4>1, <4>2
    <3> QED
      BY <3>1, <3>2, <3>3
  <2>8. Good(n)
    BY <2>3, <2>6, <2>7
  <2> HIDE DEF Good
  <2> QED
    BY <1>6, <2>8
<1>15. N \in S
  <2> HIDE DEF S
  <2>1. N \in 0 .. N
    BY <1>6
  <2> QED
    BY <1>6, <1>13, <1>14, <2>1, Throughout
<1>16. Good(N)
  BY <1>15
<1> QED
  BY <1>10, <1>16, SMTT(40) DEF N, W, T, counts, id, Reported

-----------------------------------------------------------------------------
(* Payloads: any number of rows, models called anything, buckets carried or *)
(* not, and each reading there or not.  The readings tell the rows apart.  *)

AnyBucket == [used : {Unreadable, 0}, resets_at : Int, carried : BOOLEAN]

AnyRow(Words) ==
  [decodes : BOOLEAN, kind : {"weekly_scoped", "weekly_all"},
   model : [id : Seq(Words), name : Seq(Words)], percent : Int, resets_at : Int]

AnyUsage(Words) ==
  {usage \in [buckets : [five_hour : AnyBucket, seven_day : AnyBucket,
                         seven_day_opus : AnyBucket, seven_day_sonnet : AnyBucket],
              limits : [is_array : BOOLEAN, rows : Seq(AnyRow(Words))]] :
     \A i \in DOMAIN usage.limits.rows : usage.limits.rows[i].percent \in {Unreadable, i}}

PayloadQuestions(Words) ==
  [about : {"payload"}, arrived : BOOLEAN, status : Nat, is_json : BOOLEAN,
   usage : AnyUsage(Words)]

LEMMA SlugIsSequence ==
  ASSUME NEW Words, NEW model \in [id : Seq(Words), name : Seq(Words)]
  PROVE  SlugOf(model) \in Seq({Lowercase(word) : word \in Words})
<1>1. ASSUME NEW name \in Seq(Words)
      PROVE  ModelSlug(name) \in Seq({Lowercase(word) : word \in Words})
  <2> DEFINE T == Seq({Lowercase(word) : word \in Words})
  <2>1. PICK f \in [0 .. Len(name) -> T] : ModelSlug(name) = f[Len(name)]
    BY SlugIs
  <2> HIDE DEF T
  <2>2. Len(name) \in 0 .. Len(name)
    OBVIOUS
  <2>3. f[Len(name)] \in T
    BY <2>2
  <2> QED
    BY <2>1, <2>3 DEF T
<1>2. model.id \in Seq(Words) /\ model.name \in Seq(Words)
  OBVIOUS
<1> QED
  BY <1>1, <1>2, Zenon DEF SlugOf

LEMMA IdsTellSlugs ==
  ASSUME NEW T, NEW s \in Seq(T), NEW t \in Seq(T), WindowIdOf(s) = WindowIdOf(t)
  PROVE  s = t
<1> DEFINE a == <<"weekly">> \o s
           b == <<"weekly">> \o t
<1>1. a = b
  BY DEF WindowIdOf
<1>2. Len(a) = Len(s) + 1 /\ \A i \in 1 .. Len(s) : a[i + 1] = s[i]
  OBVIOUS
<1>3. Len(b) = Len(t) + 1 /\ \A i \in 1 .. Len(t) : b[i + 1] = t[i]
  OBVIOUS
<1> HIDE DEF a, b
<1>4. Len(s) = Len(t) /\ \A i \in 1 .. Len(s) : s[i] = t[i]
  BY <1>1, <1>2, <1>3
<1> QED
  BY <1>4

LEMMA SpecsAre ==
  /\ Len(Specs) = 4 /\ DOMAIN Specs = 1 .. 4
  /\ Specs[1] = [bucket |-> "five_hour", id |-> <<"session", "5h">>, model |-> <<>>]
  /\ Specs[2] = [bucket |-> "seven_day", id |-> <<"weekly">>, model |-> <<>>]
  /\ Specs[3] = [bucket |-> "seven_day_opus", id |-> <<"weekly", "opus">>,
                 model |-> <<"opus">>]
  /\ Specs[4] = [bucket |-> "seven_day_sonnet", id |-> <<"weekly", "sonnet">>,
                 model |-> <<"sonnet">>]
  /\ ToSet(Specs) = {Specs[1], Specs[2], Specs[3], Specs[4]}
<1>1. Len(Specs) = 4 /\ DOMAIN Specs = 1 .. 4
  BY DEF Specs
<1>2. ToSet(Specs) = {Specs[i] : i \in 1 .. 4}
  BY <1>1 DEF ToSet
<1>3. {Specs[i] : i \in 1 .. 4} = {Specs[1], Specs[2], Specs[3], Specs[4]}
  OBVIOUS
<1> QED
  BY <1>1, <1>2, <1>3 DEF Specs

\* Where a window that is parsed comes from.
LEMMA ParsedFrom ==
  ASSUME NEW Words, NEW p \in PayloadQuestions(Words), NEW w \in ToSet(Parse(p).windows)
  PROVE  LET rows == LimitRows(p.usage.limits)
         IN  /\ p.status = 200 /\ p.is_json
             /\ \/ \E i \in 1 .. 4 : BucketRead(p.usage, i) /\ w = BucketWindow(p.usage, i)
                \/ \E i \in 1 .. Len(rows) : RowCounts(p.usage, rows[i]) /\ w = RowWindow(rows[i])
<1> DEFINE rows == LimitRows(p.usage.limits)
           all == AllWindows(p.usage)
           T == BucketWindows(p.usage) \cup RowWindows(p.usage, rows)
<1>1. Len(rows) \in Nat
  BY DEF LimitRows, PayloadQuestions, AnyUsage
<1> HIDE DEF rows
<1>2. all \in Seq(T)
  BY <1>1, AllWindowsAre DEF rows
<1>3. ToSet(<<>>) = {}
  BY DEF ToSet
<1>4. p.status = 200 /\ p.is_json /\ w \in ToSet(all)
  BY <1>3, Zenon DEF Parse, SchemaDrift
<1> HIDE DEF all
<1>5. w \in T
  <2> HIDE DEF T
  <2> QED
    BY <1>2, <1>4 DEF ToSet
<1> QED
  BY <1>4, <1>5 DEF BucketWindows, RowWindows, rows

\* A row that counts is reported under its id.
LEMMA RowReported ==
  ASSUME NEW Words, NEW p \in PayloadQuestions(Words), p.status = 200, p.is_json,
         NEW i \in 1 .. Len(LimitRows(p.usage.limits)),
         RowCounts(p.usage, LimitRows(p.usage.limits)[i])
  PROVE  \E k \in DOMAIN Parse(p).windows :
           Parse(p).windows[k].id = WindowIdOf(SlugOf(LimitRows(p.usage.limits)[i].model))
<1> DEFINE rows == LimitRows(p.usage.limits)
           all == AllWindows(p.usage)
           T == BucketWindows(p.usage) \cup RowWindows(p.usage, rows)
<1>1. Len(rows) \in Nat
  BY DEF LimitRows, PayloadQuestions, AnyUsage
<1>2. all \in Seq(T)
  BY <1>1, AllWindowsAre
<1>3. PICK k \in 1 .. Len(all) : all[k].id = WindowIdOf(SlugOf(rows[i].model))
  <2>1. i \in 1 .. Len(rows) /\ RowCounts(p.usage, rows[i])
    OBVIOUS
  <2>2. rows = LimitRows(p.usage.limits)
    OBVIOUS
  <2> HIDE DEF rows
  <2>3. \A j \in 1 .. Len(rows) : RowCounts(p.usage, rows[j]) =>
          Reported(all, WindowIdOf(SlugOf(rows[j].model)))
    BY <1>1, <2>2, AllWindowsAre, ZenonT(40)
  <2> HIDE DEF all
  <2> QED
    BY <2>1, <2>3 DEF Reported
<1> HIDE DEF rows, all, T
<1>4. all # <<>> /\ k \in DOMAIN all
  BY <1>2, <1>3
<1>5. Parse(p).windows = all
  BY <1>4 DEF Parse, all
<1> QED
  BY <1>3, <1>4, <1>5 DEF rows

\* A payload read again carries the same buckets and names the same models; a
\* row reads its own number or nothing.
LEMMA RereadIs ==
  ASSUME NEW Words, NEW p \in PayloadQuestions(Words), NEW opus \in BOOLEAN,
         NEW rows \in [DOMAIN p.usage.limits.rows -> BOOLEAN]
  PROVE  LET r    == Reread(p, opus, rows)
             mine == p.usage.limits.rows
             its  == r.usage.limits.rows
         IN  /\ r \in PayloadQuestions(Words)
             /\ r.status = p.status /\ r.is_json = p.is_json /\ r.arrived = p.arrived
             /\ r.usage.limits.is_array = p.usage.limits.is_array
             /\ Len(its) = Len(mine)
             /\ \A i \in 1 .. Len(mine) :
                  /\ its[i].model = mine[i].model
                  /\ NamesACap(its[i]) <=> NamesACap(mine[i])
                  /\ its[i].percent = IF rows[i] THEN i ELSE Unreadable
             /\ FixedModels(r.usage) = FixedModels(p.usage)
<1> DEFINE r     == Reread(p, opus, rows)
           mine  == p.usage.limits.rows
           its   == [i \in DOMAIN mine |->
                       [mine[i] EXCEPT !.percent = IF rows[i] THEN i ELSE Unreadable]]
           old   == p.usage.buckets
           cap   == [old.seven_day_opus EXCEPT !.used = IF opus THEN 0 ELSE Unreadable]
           new   == [old EXCEPT !.seven_day_opus = cap]
           limits == [p.usage.limits EXCEPT !.rows = its]
           usage == [p.usage EXCEPT !.buckets = new, !.limits = limits]
<1>1. r = [p EXCEPT !.usage = usage]
  BY DEF Reread, PayloadQuestions, AnyUsage
<1>2. /\ p.usage.limits \in [is_array : BOOLEAN, rows : Seq(AnyRow(Words))]
      /\ old \in [five_hour : AnyBucket, seven_day : AnyBucket,
                  seven_day_opus : AnyBucket, seven_day_sonnet : AnyBucket]
      /\ p.usage = [buckets |-> old, limits |-> p.usage.limits]
  BY DEF PayloadQuestions, AnyUsage
<1>3. mine \in Seq(AnyRow(Words)) /\ DOMAIN mine = 1 .. Len(mine) /\ Len(mine) \in Nat
  BY <1>2
<1>4. cap \in AnyBucket /\ cap.carried = old.seven_day_opus.carried
  BY <1>2 DEF AnyBucket
<1> HIDE DEF cap
<1>5. /\ new \in [five_hour : AnyBucket, seven_day : AnyBucket,
                  seven_day_opus : AnyBucket, seven_day_sonnet : AnyBucket]
      /\ new.five_hour = old.five_hour /\ new.seven_day = old.seven_day
      /\ new.seven_day_opus = cap /\ new.seven_day_sonnet = old.seven_day_sonnet
  BY <1>2, <1>4
<1>6. ASSUME NEW i \in 1 .. Len(mine)
      PROVE  /\ its[i] \in AnyRow(Words)
             /\ its[i].model = mine[i].model /\ its[i].kind = mine[i].kind
             /\ its[i].decodes = mine[i].decodes
             /\ its[i].percent = IF rows[i] THEN i ELSE Unreadable
  <2>1. mine[i] \in AnyRow(Words)
    BY <1>3
  <2>2. its[i] = [mine[i] EXCEPT !.percent = IF rows[i] THEN i ELSE Unreadable]
    BY <1>3
  <2> DEFINE row == mine[i]
             percent == IF rows[i] THEN i ELSE Unreadable
             copy == [row EXCEPT !.percent = percent]
  <2>3. percent \in Int
    BY DEF Unreadable
  <2> HIDE DEF mine, its, row, percent
  <2>4. copy \in AnyRow(Words)
    BY <2>1, <2>3 DEF AnyRow, row
  <2>5. copy.model = row.model /\ copy.kind = row.kind /\ copy.percent = percent
    BY <2>1 DEF AnyRow, row
  <2>6. copy.decodes = row.decodes
    BY <2>1 DEF AnyRow, row
  <2> QED
    BY <2>2, <2>4, <2>5, <2>6, Zenon DEF row, percent
<1>7. its \in Seq(AnyRow(Words)) /\ Len(its) = Len(mine) /\ DOMAIN its = 1 .. Len(mine)
  <2>1. DOMAIN its = 1 .. Len(mine)
    BY <1>3
  <2>2. its \in [1 .. Len(mine) -> AnyRow(Words)]
    BY <1>3, <1>6
  <2> HIDE DEF its, mine
  <2> QED
    BY <1>3, <2>1, <2>2
<1> HIDE DEF new, its
<1>8. /\ limits \in [is_array : BOOLEAN, rows : Seq(AnyRow(Words))]
      /\ limits.rows = its /\ limits.is_array = p.usage.limits.is_array
  <2> DEFINE l == p.usage.limits
             S == Seq(AnyRow(Words))
  <2>1. its \in S /\ l \in [is_array : BOOLEAN, rows : S]
    BY <1>2, <1>7
  <2> HIDE DEF l, S
  <2>2. limits = [l EXCEPT !.rows = its]
    BY DEF l
  <2> HIDE DEF limits
  <2>3. limits \in [is_array : BOOLEAN, rows : S] /\ limits.rows = its
    BY <2>1, <2>2
  <2>4. limits.is_array = l.is_array
    BY <2>1, <2>2
  <2> QED
    BY <2>3, <2>4 DEF l, S
<1> HIDE DEF limits
<1>9. usage = [buckets |-> new, limits |-> limits]
  <2> DEFINE u == p.usage
             l == p.usage.limits
  <2>1. u = [buckets |-> old, limits |-> l]
    BY <1>2
  <2>2. usage = [u EXCEPT !.buckets = new, !.limits = limits]
    OBVIOUS
  <2> HIDE DEF u, l, old, usage
  <2> QED
    BY <2>1, <2>2
<1>10. usage \in AnyUsage(Words)
  <2>1. \A i \in DOMAIN its : its[i].percent \in {Unreadable, i}
    BY <1>6, <1>7
  <2> HIDE DEF usage
  <2> QED
    BY <1>5, <1>8, <1>9, <2>1 DEF AnyUsage
<1> HIDE DEF usage
<1>11. /\ r \in PayloadQuestions(Words) /\ r.usage = usage
       /\ r.status = p.status /\ r.is_json = p.is_json /\ r.arrived = p.arrived
  BY <1>1, <1>10 DEF PayloadQuestions
<1>12. FixedModels(usage) = FixedModels(p.usage)
  <2>1. \A s \in ToSet(Specs) :
          usage.buckets[s.bucket].carried = p.usage.buckets[s.bucket].carried
    BY <1>4, <1>5, <1>9, SpecsAre
  <2> QED
    BY <2>1, Zenon DEF FixedModels
<1>13. \A i \in 1 .. Len(mine) : NamesACap(its[i]) <=> NamesACap(mine[i])
  BY <1>6 DEF NamesACap
<1> HIDE DEF r
<1> QED
  BY <1>6, <1>7, <1>8, <1>9, <1>11, <1>12, <1>13 DEF r

LEMMA FixedModelsAre ==
  ASSUME NEW usage
  PROVE  /\ \A m \in FixedModels(usage) :
              \/ m = <<"opus">> /\ usage.buckets.seven_day_opus.carried
              \/ m = <<"sonnet">> /\ usage.buckets.seven_day_sonnet.carried
         /\ usage.buckets.seven_day_opus.carried => <<"opus">> \in FixedModels(usage)
<1>1. ASSUME NEW m \in FixedModels(usage)
      PROVE  \/ m = <<"opus">> /\ usage.buckets.seven_day_opus.carried
             \/ m = <<"sonnet">> /\ usage.buckets.seven_day_sonnet.carried
  <2>1. PICK s \in ToSet(Specs) : /\ m = s.model /\ s.model # <<>>
                                  /\ usage.buckets[s.bucket].carried
    BY DEF FixedModels
  <2> QED
    BY <2>1, SpecsAre
<1>2. ASSUME usage.buckets.seven_day_opus.carried PROVE <<"opus">> \in FixedModels(usage)
  <2>1. /\ Specs[3] \in ToSet(Specs) /\ Specs[3].model = <<"opus">> /\ Specs[3].model # <<>>
        /\ usage.buckets[Specs[3].bucket].carried
    BY <1>2, SpecsAre
  <2> QED
    BY <2>1 DEF FixedModels
<1> QED
  BY <1>1, <1>2

\* No other fixed bucket is mistaken for the one of Opus.
LEMMA OthersAreNotOpus ==
  CanonicalModel(<<>>) # <<"opus">> /\ CanonicalModel(<<"sonnet">>) # <<"opus">>
<1>1. CanonicalModel(<<>>) # <<"opus">>
  BY DEF CanonicalModel, WithoutVendor
<1>2. CanonicalModel(<<"sonnet">>) # <<"opus">>
  <2> DEFINE s == <<"sonnet">>
             k == SelectLastInSeq(s, LAMBDA p : p \notin Digits)
  <2>1. WithoutVendor(s) = s /\ s # <<>> /\ s[1] \notin Digits /\ Len(s) = 1
    BY DEF WithoutVendor, Digits
  <2>2. CanonicalModel(s) = SubSeq(s, 1, k)
    BY <2>1 DEF CanonicalModel
  <2>3. k = 1
    <3> DEFINE I == {i \in 1 .. Len(s) : s[i] \notin Digits}
    <3>1. I = {1}
      BY <2>1
    <3>2. k = Max(I)
      BY <3>1 DEF SelectLastInSeq
    <3>3. Max({1}) = 1
      <4>1. \A x \in {1} : x >= 1
        OBVIOUS
      <4>2. \E x \in {1} : \A y \in {1} : x >= y
        OBVIOUS
      <4>3. Max({1}) \in {1}
        BY <4>2, Zenon DEF Max
      <4> QED
        BY <4>3
    <3> HIDE DEF I, k
    <3> QED
      BY <3>1, <3>2, <3>3
  <2> HIDE DEF k
  <2>4. SubSeq(s, 1, 1)[1] = "sonnet"
    OBVIOUS
  <2> QED
    BY <2>2, <2>3, <2>4
<1> QED
  BY <1>1, <1>2

\* A cap keeps its id however its readings come and go, whatever the number of
\* rows and the names of their models (parser.rs parse, same_model; state.rs
\* warn_on_orphaned_window_history).
THEOREM CapsKeepTheirIds ==
  ASSUME NEW Words, asked \in PayloadQuestions(Words)
  PROVE  CapIdentityStable
<1> SUFFICES ASSUME NEW opus \in BOOLEAN,
                    NEW rows \in [DOMAIN asked.usage.limits.rows -> BOOLEAN]
             PROVE  LET before == Parse(asked).windows
                        after  == Parse(Reread(asked, opus, rows)).windows
                    IN  /\ \A w \in ToSet(before), x \in ToSet(after) :
                             /\ w.used = x.used /\ w.used > 0 => w.id = x.id
                             /\ asked.usage.buckets.seven_day_opus.carried
                                  /\ w.id = <<"weekly", "opus">>
                                  => x.id = w.id \/ CanonicalModel(x.scope) # <<"opus">>
                        /\ OrphanedIds(before, after) \cap ReadableIds(asked, rows) = {}
  BY DEF CapIdentityStable
<1> DEFINE p == asked
           r == Reread(asked, opus, rows)
           mine == p.usage.limits.rows
           its  == r.usage.limits.rows
           before == Parse(p).windows
           after  == Parse(r).windows
<1>1. /\ r \in PayloadQuestions(Words)
      /\ r.status = p.status /\ r.is_json = p.is_json
      /\ r.usage.limits.is_array = p.usage.limits.is_array
      /\ Len(its) = Len(mine)
      /\ \A i \in 1 .. Len(mine) :
           /\ its[i].model = mine[i].model
           /\ NamesACap(its[i]) <=> NamesACap(mine[i])
           /\ its[i].percent = IF rows[i] THEN i ELSE Unreadable
      /\ FixedModels(r.usage) = FixedModels(p.usage)
  BY RereadIs
<1>2. LimitRows(p.usage.limits) = IF p.usage.limits.is_array THEN mine ELSE <<>>
  BY DEF LimitRows
<1>3. LimitRows(r.usage.limits) = IF p.usage.limits.is_array THEN its ELSE <<>>
  BY <1>1 DEF LimitRows
<1>4. /\ mine \in Seq(AnyRow(Words)) /\ \A i \in 1 .. Len(mine) : mine[i].percent \in {Unreadable, i}
      /\ its \in Seq(AnyRow(Words)) /\ \A i \in 1 .. Len(its) : its[i].percent \in {Unreadable, i}
      /\ \A i \in 1 .. 4 : p.usage.buckets[Specs[i].bucket].used \in {Unreadable, 0}
      /\ \A i \in 1 .. 4 : r.usage.buckets[Specs[i].bucket].used \in {Unreadable, 0}
  <2>1. ASSUME NEW q \in PayloadQuestions(Words)
        PROVE  /\ q.usage.limits.rows \in Seq(AnyRow(Words))
               /\ \A i \in 1 .. Len(q.usage.limits.rows) : q.usage.limits.rows[i].percent \in {Unreadable, i}
    BY DEF PayloadQuestions, AnyUsage
  <2>2. ASSUME NEW q \in PayloadQuestions(Words), NEW i \in 1 .. 4
        PROVE  q.usage.buckets[Specs[i].bucket].used \in {Unreadable, 0}
    <3>1. i \in {1, 2, 3, 4}
      OBVIOUS
    <3> QED
      BY <3>1, SpecsAre DEF PayloadQuestions, AnyUsage, AnyBucket
  <2> QED
    BY <1>1, <2>1, <2>2
<1>5. ASSUME NEW w \in ToSet(before)
      PROVE  /\ p.status = 200 /\ p.is_json
             /\ \/ \E i \in 1 .. 4 : /\ BucketRead(p.usage, i)
                                     /\ w = BucketWindow(p.usage, i) /\ w.used = 0
                \/ /\ p.usage.limits.is_array
                   /\ \E i \in 1 .. Len(mine) :
                        RowCounts(p.usage, mine[i]) /\ w = RowWindow(mine[i]) /\ w.used = i
  <2> DEFINE list == LimitRows(p.usage.limits)
  <2>1. /\ p.status = 200 /\ p.is_json
        /\ \/ \E i \in 1 .. 4 : BucketRead(p.usage, i) /\ w = BucketWindow(p.usage, i)
           \/ \E i \in 1 .. Len(list) : RowCounts(p.usage, list[i]) /\ w = RowWindow(list[i])
    BY ParsedFrom
  <2>2. CASE \E i \in 1 .. 4 : BucketRead(p.usage, i) /\ w = BucketWindow(p.usage, i)
    <3>1. PICK i \in 1 .. 4 : BucketRead(p.usage, i) /\ w = BucketWindow(p.usage, i)
      BY <2>2, SMTT(40)
    <3>2. w.used = 0
      BY <1>4, <3>1, SMTT(40) DEF BucketRead, BucketWindow
    <3> QED
      BY <2>1, <3>1, <3>2
  <2>3. CASE \E i \in 1 .. Len(list) : RowCounts(p.usage, list[i]) /\ w = RowWindow(list[i])
    <3>1. PICK i \in 1 .. Len(list) : RowCounts(p.usage, list[i]) /\ w = RowWindow(list[i])
      BY <2>3
    <3>2. p.usage.limits.is_array /\ list = mine
      <4> HIDE DEF mine
      <4> QED
        BY <1>2, <3>1, SMTT(40)
    <3>3. w.used = i
      BY <1>4, <3>1, <3>2 DEF RowCounts, RowWindow
    <3> QED
      BY <2>1, <3>1, <3>2, <3>3
  <2> QED
    BY <2>1, <2>2, <2>3
<1>6. ASSUME NEW x \in ToSet(after)
      PROVE  \/ \E i \in 1 .. 4 : /\ BucketRead(r.usage, i)
                                  /\ x = BucketWindow(r.usage, i) /\ x.used = 0
             \/ \E i \in 1 .. Len(mine) :
                  RowCounts(r.usage, its[i]) /\ x = RowWindow(its[i]) /\ x.used = i
  <2> DEFINE list == LimitRows(r.usage.limits)
  <2>1. \/ \E i \in 1 .. 4 : BucketRead(r.usage, i) /\ x = BucketWindow(r.usage, i)
        \/ \E i \in 1 .. Len(list) : RowCounts(r.usage, list[i]) /\ x = RowWindow(list[i])
    <3>1. r \in PayloadQuestions(Words) /\ x \in ToSet(Parse(r).windows)
      BY <1>1
    <3> HIDE DEF r
    <3> QED
      BY <3>1, ParsedFrom, SMTT(40)
  <2>2. CASE \E i \in 1 .. 4 : BucketRead(r.usage, i) /\ x = BucketWindow(r.usage, i)
    <3>1. PICK i \in 1 .. 4 : BucketRead(r.usage, i) /\ x = BucketWindow(r.usage, i)
      BY <2>2, SMTT(40)
    <3>2. x.used = 0
      BY <1>4, <3>1, SMTT(40) DEF BucketRead, BucketWindow
    <3> QED
      BY <3>1, <3>2
  <2>3. CASE \E i \in 1 .. Len(list) : RowCounts(r.usage, list[i]) /\ x = RowWindow(list[i])
    <3>1. PICK i \in 1 .. Len(list) : RowCounts(r.usage, list[i]) /\ x = RowWindow(list[i])
      BY <2>3
    <3>2. list = its
      <4> HIDE DEF its
      <4> QED
        BY <1>3, <3>1, SMTT(40)
    <3>3. x.used = i
      BY <1>4, <3>1, <3>2 DEF RowCounts, RowWindow
    <3> QED
      BY <1>1, <3>1, <3>2, <3>3
  <2> QED
    BY <2>1, <2>2, <2>3
<1> HIDE DEF p, r, mine, its, before, after
<1>7. ASSUME NEW w \in ToSet(before), NEW x \in ToSet(after), w.used = x.used, w.used > 0
      PROVE  w.id = x.id
  <2>1. PICK i \in 1 .. Len(mine) : w = RowWindow(mine[i]) /\ w.used = i
    BY <1>5, <1>7
  <2>2. PICK j \in 1 .. Len(mine) : x = RowWindow(its[j]) /\ x.used = j
    BY <1>6, <1>7
  <2>3. i = j /\ its[j].model = mine[i].model
    BY <1>1, <1>7, <2>1, <2>2
  <2> QED
    BY <2>1, <2>2, <2>3 DEF RowWindow
<1>8. ASSUME NEW w \in ToSet(before), NEW x \in ToSet(after),
             p.usage.buckets.seven_day_opus.carried, w.id = <<"weekly", "opus">>,
             x.id # w.id
      PROVE  CanonicalModel(x.scope) # <<"opus">>
  <2>1. CASE \E i \in 1 .. 4 : x = BucketWindow(r.usage, i)
    <3>1. PICK i \in {1, 2, 3, 4} : x = BucketWindow(r.usage, i)
      BY <2>1
    <3>2. x.id = Specs[i].id /\ x.scope = Specs[i].model
      BY <3>1 DEF BucketWindow
    <3>3. x.scope = <<>> \/ x.scope = <<"sonnet">>
      BY <1>8, <3>2, SpecsAre
    <3> QED
      BY <3>3, OthersAreNotOpus
  <2>2. CASE \E i \in 1 .. Len(mine) : RowCounts(r.usage, its[i]) /\ x = RowWindow(its[i])
    <3>1. PICK i \in 1 .. Len(mine) : RowCounts(r.usage, its[i]) /\ x = RowWindow(its[i])
      BY <2>2
    <3>2. <<"opus">> \in FixedModels(r.usage)
      BY <1>1, <1>8, FixedModelsAre
    <3>3. x.scope = SlugOf(its[i].model) /\ ~SameModel(SlugOf(its[i].model), <<"opus">>)
      BY <3>1, <3>2 DEF RowCounts, RowWindow
    <3> QED
      BY <3>3 DEF SameModel
  <2> QED
    BY <1>6, <2>1, <2>2
<1>9. ASSUME NEW id \in OrphanedIds(before, after), id \in ReadableIds(p, rows) PROVE FALSE
  <2>1. PICK v \in ToSet(before) : /\ id = v.id /\ v.scope # <<>> /\ IsServerDerived(v.id)
                                   /\ \A k \in DOMAIN after : after[k].id # v.id
    BY DEF OrphanedIds
  <2>2. PICK j \in DOMAIN rows : /\ rows[j] /\ NamesACap(mine[j])
                                 /\ id = WindowIdOf(SlugOf(mine[j].model))
    BY <1>9 DEF ReadableIds, mine
  <2>3. j \in 1 .. Len(mine)
    <3>1. DOMAIN rows = DOMAIN mine
      BY DEF mine, p
    <3> QED
      BY <1>4, <2>2, <3>1
  <2>4. ~ \E i \in 1 .. 4 : v = BucketWindow(p.usage, i)
    <3> SUFFICES ASSUME NEW i \in 1 .. 4, v = BucketWindow(p.usage, i) PROVE FALSE
      OBVIOUS
    <3>1. v.id = Specs[i].id /\ i \in DOMAIN Specs
      BY SpecsAre DEF BucketWindow
    <3> QED
      BY <2>1, <3>1 DEF IsServerDerived
  <2>5. p.status = 200 /\ p.is_json /\ p.usage.limits.is_array
    BY <1>5, <2>4
  <2>6. PICK i \in 1 .. Len(mine) : RowCounts(p.usage, mine[i]) /\ v = RowWindow(mine[i])
    BY <1>5, <2>4
  <2>7. SlugOf(mine[i].model) = SlugOf(mine[j].model)
    <3> DEFINE T == {Lowercase(word) : word \in Words}
    <3>1. ASSUME NEW k \in 1 .. Len(mine)
          PROVE  mine[k].model \in [id : Seq(Words), name : Seq(Words)]
      <4>1. mine[k] \in AnyRow(Words)
        BY <1>4
      <4> QED
        BY <4>1 DEF AnyRow
    <3>2. /\ mine[i].model \in [id : Seq(Words), name : Seq(Words)]
          /\ mine[j].model \in [id : Seq(Words), name : Seq(Words)]
      BY <2>3, <3>1
    <3>3. SlugOf(mine[i].model) \in Seq(T) /\ SlugOf(mine[j].model) \in Seq(T)
      BY <3>2, SlugIsSequence
    <3>4. WindowIdOf(SlugOf(mine[i].model)) = WindowIdOf(SlugOf(mine[j].model))
      BY <2>1, <2>2, <2>6 DEF RowWindow
    <3> HIDE DEF T
    <3> QED
      BY <3>3, <3>4, IdsTellSlugs
  <2>8. RowCounts(r.usage, its[j])
    <3>1. /\ NamesACap(its[j]) /\ its[j].model = mine[j].model /\ its[j].percent = j
      BY <1>1, <2>2, <2>3
    <3>2. its[j].percent # Unreadable
      BY <2>3, <3>1 DEF Unreadable
    <3>3. \A m \in FixedModels(r.usage) : ~SameModel(SlugOf(its[j].model), m)
      BY <1>1, <2>6, <2>7, <3>1 DEF RowCounts
    <3> QED
      BY <3>1, <3>2, <3>3 DEF RowCounts
  <2>9. LimitRows(r.usage.limits) = its /\ j \in 1 .. Len(its)
    BY <1>1, <1>3, <2>3, <2>5
  <2>10. \E k \in DOMAIN after : after[k].id = WindowIdOf(SlugOf(its[j].model))
    <3>1. r.status = 200 /\ r.is_json
      BY <1>1, <2>5, Zenon
    <3>2. /\ j \in 1 .. Len(LimitRows(r.usage.limits))
          /\ RowCounts(r.usage, LimitRows(r.usage.limits)[j])
      BY <2>8, <2>9, Zenon
    <3>3. \E k \in DOMAIN Parse(r).windows :
            Parse(r).windows[k].id = WindowIdOf(SlugOf(LimitRows(r.usage.limits)[j].model))
      BY <1>1, <3>1, <3>2, RowReported
    <3> QED
      BY <2>9, <3>3 DEF after
  <2> QED
    BY <1>1, <2>1, <2>2, <2>3, <2>10
<1> QED
  BY <1>7, <1>8, <1>9 DEF p, r, before, after

-----------------------------------------------------------------------------
(* What the names of the run are slugs of.                                 *)

LEMMA SlugOfNothing == ModelSlug(<<>>) = <<>>
<1> DEFINE name == <<>>
<1>1. name \in Seq({}) /\ Len(name) = 0
  OBVIOUS
<1> HIDE DEF name
<1>2. ModelSlug(name) = <<>>
  BY <1>1, SlugIs
<1> QED
  BY <1>2 DEF name

LEMMA SlugOfOne ==
  ASSUME NEW a
  PROVE  ModelSlug(<<a>>) = IF a \in Separators THEN <<>> ELSE <<Lowercase(a)>>
<1> DEFINE name == <<a>>
           l == Lowercase(a)
<1>1. name \in Seq({a}) /\ Len(name) = 1 /\ name[1] = a
  OBVIOUS
<1> HIDE DEF name, l
<1>2. PICK f : /\ ModelSlug(name) = f[Len(name)] /\ f[0] = <<>>
               /\ \A n \in 1 .. Len(name) :
                    f[n] = IF name[n] \in Separators THEN f[n - 1]
                           ELSE Append(f[n - 1], Lowercase(name[n]))
  BY <1>1, SlugIs
<1>3. f[1] = IF a \in Separators THEN f[0] ELSE Append(f[0], l)
  <2>1. PICK i \in 1 .. Len(name) : i = 1
    BY <1>1
  <2>2. f[i] = IF name[i] \in Separators THEN f[i - 1] ELSE Append(f[i - 1], Lowercase(name[i]))
    BY <1>2
  <2>3. i - 1 = 0
    BY <2>1
  <2> QED
    BY <1>1, <2>1, <2>2, <2>3, Zenon DEF l
<1> QED
  BY <1>1, <1>2, <1>3 DEF name, l

LEMMA PairIs ==
  ASSUME NEW l, NEW m
  PROVE  Append(<<l>>, m) = <<l, m>>
<1>1. ASSUME NEW T, NEW s \in Seq(T), NEW x \in T, NEW y \in T, Len(s) = 1, s[1] = y,
             NEW u \in Seq(T), Len(u) = 2, u[1] = y, u[2] = x
      PROVE  Append(s, x) = u
  <2>1. /\ Append(s, x) \in Seq(T) /\ Len(Append(s, x)) = Len(s) + 1
        /\ Append(s, x)[Len(s) + 1] = x
        /\ \A i \in 1 .. Len(s) : Append(s, x)[i] = s[i]
    OBVIOUS
  <2>2. Len(s) + 1 = 2 /\ 1 \in 1 .. Len(s)
    BY <1>1
  <2>3. Append(s, x) \in Seq(T) /\ Len(Append(s, x)) = 2
    BY <2>1, <2>2
  <2>4. Append(s, x)[2] = x /\ Append(s, x)[1] = y
    BY <1>1, <2>1, <2>2, Zenon
  <2> DEFINE t == Append(s, x)
  <2> HIDE DEF t
  <2>5. t \in Seq(T) /\ Len(t) = 2 /\ t[2] = x /\ t[1] = y
    BY <2>3, <2>4 DEF t
  <2>6. \A i \in 1 .. 2 : t[i] = u[i]
    BY <1>1, <2>5
  <2>7. t = u
    BY <1>1, <2>5, <2>6
  <2> QED
    BY <2>7 DEF t
<1> DEFINE T == {l, m}
           s == <<l>>
           u == <<l, m>>
<1>2. l \in T /\ m \in T /\ s \in Seq(T) /\ Len(s) = 1 /\ s[1] = l
  OBVIOUS
<1>3. u \in Seq(T) /\ Len(u) = 2 /\ u[1] = l /\ u[2] = m
  OBVIOUS
<1> HIDE DEF s, u, T
<1>4. Append(s, m) = u
  BY <1>1, <1>2, <1>3
<1> QED
  BY <1>4 DEF s, u

LEMMA SlugOfThree ==
  ASSUME NEW a, NEW b, NEW c, a \notin Separators, b \in Separators, c \notin Separators
  PROVE  ModelSlug(<<a, b, c>>) = <<Lowercase(a), Lowercase(c)>>
<1> DEFINE name == <<a, b, c>>
           l == Lowercase(a)
           m == Lowercase(c)
<1>1. name \in Seq({a, b, c}) /\ Len(name) = 3 /\ name[1] = a /\ name[2] = b /\ name[3] = c
  OBVIOUS
<1> HIDE DEF name, l, m
<1>2. PICK f : /\ ModelSlug(name) = f[Len(name)] /\ f[0] = <<>>
               /\ \A n \in 1 .. Len(name) :
                    f[n] = IF name[n] \in Separators THEN f[n - 1]
                           ELSE Append(f[n - 1], Lowercase(name[n]))
  BY <1>1, SlugIs, SMTT(40)
<1>3. f[1] = Append(<<>>, l) /\ f[2] = f[1] /\ f[3] = Append(f[2], m)
  <2>1. PICK i \in 1 .. Len(name), j \in 1 .. Len(name), k \in 1 .. Len(name) :
          i = 1 /\ j = 2 /\ k = 3
    BY <1>1
  <2>2. /\ f[i] = IF name[i] \in Separators THEN f[i - 1]
                  ELSE Append(f[i - 1], Lowercase(name[i]))
        /\ f[j] = IF name[j] \in Separators THEN f[j - 1]
                  ELSE Append(f[j - 1], Lowercase(name[j]))
        /\ f[k] = IF name[k] \in Separators THEN f[k - 1]
                  ELSE Append(f[k - 1], Lowercase(name[k]))
    BY <1>2
  <2>3. i - 1 = 0 /\ j - 1 = 1 /\ k - 1 = 2
    BY <2>1
  <2> QED
    BY <1>1, <1>2, <2>1, <2>2, <2>3, Zenon DEF l, m
<1>4. f[3] = <<l, m>>
  <2>1. f[1] = <<l>> /\ f[3] = Append(f[1], m)
    BY <1>3
  <2> DEFINE g == f[1]
  <2> HIDE DEF g
  <2>2. g = <<l>> /\ f[3] = Append(g, m)
    BY <2>1 DEF g
  <2>3. Append(<<l>>, m) = <<l, m>>
    BY PairIs
  <2> QED
    BY <2>2, <2>3, Zenon
<1> QED
  BY <1>1, <1>2, <1>4 DEF name, l, m

\* None of the other names is Opus.
LEMMA OtherNamesAreNotOpus ==
  ASSUME NEW name \in OtherNames, ModelSlug(name) # <<>>
  PROVE  ~SameModel(ModelSlug(name), <<"opus">>)
<1>1. CASE name = <<"Opus", " ", "Mini">>
  <2> DEFINE s == <<"opus", "mini">>
             I == {i \in 1 .. Len(s) : s[i] \notin Digits}
             k == SelectLastInSeq(s, LAMBDA p : p \notin Digits)
  <2>1. ModelSlug(name) = s
    BY <1>1, SlugOfThree, ZenonT(40) DEF Separators, Lowercase, Capitals
  <2>2. WithoutVendor(s) = s /\ s # <<>> /\ s[1] \notin Digits /\ Len(s) = 2
    BY DEF WithoutVendor, Digits
  <2>3. CanonicalModel(s) = SubSeq(s, 1, k)
    BY <2>2 DEF CanonicalModel
  <2>4. I = {1, 2}
    BY DEF Digits
  <2>5. k = Max(I)
    BY <2>4 DEF SelectLastInSeq
  <2>6. Max({1, 2}) = 2
    <3>1. \E x \in {1, 2} : \A y \in {1, 2} : x >= y
      OBVIOUS
    <3>2. Max({1, 2}) \in {1, 2} /\ \A y \in {1, 2} : Max({1, 2}) >= y
      BY <3>1, Zenon DEF Max
    <3> QED
      BY <3>2
  <2> HIDE DEF k, I
  <2>7. SubSeq(s, 1, 2) # <<"opus">>
    OBVIOUS
  <2> QED
    BY <2>1, <2>3, <2>4, <2>5, <2>6, <2>7 DEF SameModel
<1>2. CASE name = <<"Fable">>
  <2> DEFINE s == <<"fable">>
             I == {i \in 1 .. Len(s) : s[i] \notin Digits}
             k == SelectLastInSeq(s, LAMBDA p : p \notin Digits)
  <2>1. ModelSlug(name) = s
    BY <1>2, SlugOfOne DEF Separators, Lowercase, Capitals
  <2>2. WithoutVendor(s) = s /\ s # <<>> /\ s[1] \notin Digits /\ Len(s) = 1
    BY DEF WithoutVendor, Digits
  <2>3. CanonicalModel(s) = SubSeq(s, 1, k)
    BY <2>2 DEF CanonicalModel
  <2>4. I = {1}
    BY DEF Digits
  <2>5. k = Max(I)
    BY <2>4 DEF SelectLastInSeq
  <2>6. Max({1}) = 1
    <3>1. \E x \in {1} : \A y \in {1} : x >= y
      OBVIOUS
    <3>2. Max({1}) \in {1}
      BY <3>1, Zenon DEF Max
    <3> QED
      BY <3>2
  <2> HIDE DEF k, I
  <2>7. SubSeq(s, 1, 1) # <<"opus">>
    <3> DEFINE t == SubSeq(s, 1, 1)
               u == <<"opus">>
    <3>1. t[1] = "fable" /\ u[1] = "opus"
      OBVIOUS
    <3> HIDE DEF t, u
    <3>2. t # u
      BY <3>1
    <3> QED
      BY <3>2 DEF t, u
  <2> QED
    BY <2>1, <2>3, <2>4, <2>5, <2>6, <2>7 DEF SameModel
<1>3. CASE name = <<"4", ".", "5">>
  <2> DEFINE s == <<"4", "5">>
  <2>1. ModelSlug(name) = s
    BY <1>3, SlugOfThree, ZenonT(40) DEF Separators, Lowercase, Capitals
  <2>2. CanonicalModel(s) = s /\ s # <<"opus">>
    BY DEF CanonicalModel, WithoutVendor, Digits
  <2> QED
    BY <2>1, <2>2 DEF SameModel
<1>4. CASE name = <<"-">>
  BY <1>4, SlugOfOne DEF Separators
<1> QED
  BY <1>1, <1>2, <1>3, <1>4 DEF OtherNames

\* What a poll says of a payload.
LEMMA OutcomeIs ==
  ASSUME NEW Words, NEW p \in PayloadQuestions(Words)
  PROVE  LET outcome == PollOutcome(TRUE, p)
             usable  == p.arrived /\ p.status = 200 /\ p.is_json
             all     == AllWindows(p.usage)
         IN  /\ outcome.windows = IF usable THEN all ELSE <<>>
             /\ usable /\ all = <<>> => outcome.outcome = "schema_drift"
             /\ outcome.outcome = "success" <=> usable /\ all # <<>>
<1> DEFINE outcome == PollOutcome(TRUE, p)
           usable  == p.arrived /\ p.status = 200 /\ p.is_json
           all     == AllWindows(p.usage)
<1>1. p.status \in Nat
  BY DEF PayloadQuestions
<1>2. /\ p.arrived /\ p.status = 200 => Probe(p) = "raw"
      /\ ~p.arrived => Probe(p) = "network"
      /\ Probe(p) \in {"network", "auth", "rate_limited", "raw", "provider"}
  BY <1>1 DEF Probe
<1>3. /\ outcome.windows = IF Probe(p) = "raw" THEN Parse(p).windows ELSE <<>>
      /\ Probe(p) = "raw" => outcome.outcome = IF Parse(p).drift THEN "schema_drift" ELSE "success"
      /\ Probe(p) # "raw" => outcome.outcome # "success"
  BY <1>2 DEF PollOutcome
<1>4. IF p.status = 200 /\ p.is_json /\ all # <<>>
      THEN Parse(p).windows = all /\ ~Parse(p).drift
      ELSE Parse(p).windows = <<>> /\ Parse(p).drift
  BY DEF Parse, SchemaDrift
<1> HIDE DEF all, outcome
<1>5. CASE Probe(p) = "raw"
  <2>1. p.arrived
    BY <1>2, <1>5
  <2> QED
    BY <1>3, <1>4, <1>5, <2>1 DEF all, outcome
<1>6. CASE Probe(p) # "raw"
  BY <1>2, <1>3, <1>6 DEF all, outcome
<1> QED
  BY <1>5, <1>6

\* The payloads whose rows are called what the run calls them, without a bucket
\* for Sonnet, in which only a bucket that is there has a reading.
NamedPayloads(Words) ==
  {p \in PayloadQuestions(Words) :
     /\ \A i \in DOMAIN p.usage.limits.rows : p.usage.limits.rows[i].model \in Models
     /\ ~p.usage.buckets.seven_day_sonnet.carried
     /\ p.usage.buckets.seven_day_opus.used # Unreadable
          => p.usage.buckets.seven_day_opus.carried}

\* No cap the user is charged against goes missing, however many rows the
\* payload has and in whatever order, and a poll fails as drift exactly when
\* the payload has nothing readable (parser.rs parse, same_model,
\* canonical_model, model_slug; scheduler.rs poll_outcome).
THEOREM EveryCapReported ==
  ASSUME NEW Words, asked \in NamedPayloads(Words)
  PROVE  NoCapLost
<1> DEFINE p       == asked
           outcome == PollOutcome(TRUE, p)
           ids     == {w.id : w \in ToSet(outcome.windows)}
           rows    == LimitRows(p.usage.limits)
           read    == {i \in DOMAIN rows : rows[i].percent # Unreadable
                                            /\ NamesACap(rows[i])}
           named(i) == IF rows[i].model.id # <<>> THEN rows[i].model.id
                       ELSE rows[i].model.name
           usable  == p.arrived /\ p.status = 200 /\ p.is_json
           all     == AllWindows(p.usage)
           opus    == p.usage.buckets.seven_day_opus
           T       == BucketWindows(p.usage) \cup RowWindows(p.usage, rows)
<1>1. /\ p \in PayloadQuestions(Words) /\ ~p.usage.buckets.seven_day_sonnet.carried
      /\ opus.used # Unreadable => opus.carried
  BY DEF NamedPayloads
<1>2. rows \in Seq(AnyRow(Words)) /\ \A i \in DOMAIN rows : rows[i].model \in Models
  <2>1. /\ p.usage.limits.rows \in Seq(AnyRow(Words))
        /\ \A i \in DOMAIN p.usage.limits.rows : p.usage.limits.rows[i].model \in Models
    BY DEF NamedPayloads, PayloadQuestions, AnyUsage
  <2>2. <<>> \in Seq(AnyRow(Words)) /\ DOMAIN <<>> = {}
    OBVIOUS
  <2> QED
    BY <2>1, <2>2 DEF LimitRows
<1>3. /\ outcome.windows = IF usable THEN all ELSE <<>>
      /\ usable /\ all = <<>> => outcome.outcome = "schema_drift"
      /\ outcome.outcome = "success" <=> usable /\ all # <<>>
  BY <1>1, OutcomeIs
<1>4. Len(rows) \in Nat /\ DOMAIN rows = 1 .. Len(rows)
  BY <1>2
<1>5. /\ all \in Seq(T)
      /\ \A w \in BucketWindows(p.usage) : \E k \in 1 .. Len(all) : all[k] = w
      /\ \A i \in 1 .. Len(rows) : RowCounts(p.usage, rows[i]) =>
           Reported(all, WindowIdOf(SlugOf(rows[i].model)))
  BY <1>4, AllWindowsAre
<1> HIDE DEF p, rows, all, T, outcome
<1>6. ids = IF usable THEN {all[k].id : k \in 1 .. Len(all)} ELSE {}
  <2>1. ToSet(<<>>) = {} /\ ToSet(all) = {all[k] : k \in 1 .. Len(all)}
    BY <1>5 DEF ToSet
  <2> QED
    BY <1>3, <2>1
<1> HIDE DEF ids
<1>7. ASSUME usable, NEW i \in read
      PROVE  \/ WindowIdOf(SlugOf(rows[i].model)) \in ids
             \/ named(i) \in OpusNames /\ opus.carried
  <2> DEFINE model == rows[i].model
  <2>1. /\ i \in 1 .. Len(rows) /\ rows[i].percent # Unreadable /\ NamesACap(rows[i])
        /\ model \in Models
    BY <1>2, <1>4
  <2>2. CASE RowCounts(p.usage, rows[i])
    BY <1>5, <1>6, <1>7, <2>1, <2>2 DEF Reported
  <2>3. CASE ~RowCounts(p.usage, rows[i])
    <3>1. PICK m \in FixedModels(p.usage) : SameModel(SlugOf(model), m)
      BY <2>1, <2>3 DEF RowCounts
    <3>2. m = <<"opus">> /\ opus.carried
      BY <1>1, <3>1, FixedModelsAre
    <3>3. model # NoModel /\ SlugOf(model) # <<>>
      BY <2>1 DEF NamesACap
    <3>4. model.id \in {<<>>} \cup OpusNames /\ model.name \in OpusNames \cup OtherNames
      BY <2>1, <3>3 DEF Models
    <3>5. CASE model.id # <<>>
      BY <3>2, <3>4, <3>5
    <3>6. CASE model.id = <<>>
      <4>1. SlugOf(model) = ModelSlug(model.name)
        BY <3>6, SlugOfNothing DEF SlugOf
      <4>2. model.name \notin OtherNames
        BY <3>1, <3>2, <3>3, <4>1, OtherNamesAreNotOpus
      <4> QED
        BY <3>2, <3>4, <3>6, <4>2
    <3> QED
      BY <3>5, <3>6
  <2> QED
    BY <2>2, <2>3
<1>8. ASSUME usable, opus.used # Unreadable PROVE <<"weekly", "opus">> \in ids
  <2>1. BucketRead(p.usage, 3)
    BY <1>1, <1>8, SpecsAre DEF BucketRead
  <2>2. BucketWindow(p.usage, 3) \in BucketWindows(p.usage)
    BY <2>1 DEF BucketWindows
  <2>3. BucketWindow(p.usage, 3).id = <<"weekly", "opus">>
    BY SpecsAre DEF BucketWindow
  <2>4. PICK k \in 1 .. Len(all) : all[k] = BucketWindow(p.usage, 3)
    BY <1>5, <2>2
  <2> QED
    BY <1>6, <1>8, <2>3, <2>4
<1>9. ids # {} <=> usable /\ all # <<>>
  <2>1. all # <<>> <=> 1 \in 1 .. Len(all)
    BY <1>5
  <2>2. all = <<>> => 1 .. Len(all) = {}
    OBVIOUS
  <2>3. CASE usable
    <3>1. ids = {all[k].id : k \in 1 .. Len(all)}
      BY <1>6, <2>3
    <3>2. CASE all = <<>>
      BY <2>2, <3>1, <3>2
    <3>3. CASE all # <<>>
      <4>1. all[1].id \in ids
        BY <2>1, <3>1, <3>3
      <4> QED
        BY <2>3, <3>3, <4>1
    <3> QED
      BY <3>2, <3>3
  <2>4. CASE ~usable
    BY <1>6, <2>4
  <2> QED
    BY <2>3, <2>4
<1>10. usable /\ ids = {} => outcome.outcome = "schema_drift"
  BY <1>3, <1>9
<1>11. ids # {} <=> outcome.outcome = "success"
  BY <1>3, <1>9
<1> HIDE DEF usable, named
<1> QED
  BY <1>7, <1>8, <1>10, <1>11 DEF NoCapLost, p, outcome, ids, rows, usable, named

-----------------------------------------------------------------------------
(* The questions that are asked are among those the theorems are about.    *)

\* The words of the names of the models.
NameWords == {"Opus", "Claude", " ", "4", ".", "5", "claude", "-", "opus", "1", "Mini",
              "Fable"}

Covered ==
  /\ asked.about = "steady"   => asked \in SteadyQuestions
  /\ asked.about = "series"   => asked \in SeriesQuestions
  /\ asked.about = "warnings" => asked \in WarningQuestions
  /\ asked.about = "edit"     => asked \in EditQuestions
  /\ asked.about = "history"  => asked \in HistoryQuestions
  /\ asked.about = "payload"  => asked \in NamedPayloads(NameWords)
  /\ asked.about = "chart"    => asked \in ChartQuestions
  /\ asked.about = "page"     => asked \in PageQuestions
  /\ asked.about = "bars"     => BarQuestion(asked)
  /\ asked.about = "burn"     => asked \in BurnQuestions

LEMMA SteadyCovered == AskSteady => asked' \in SteadyQuestions
<1> SUFFICES ASSUME AskSteady PROVE asked' \in SteadyQuestions
  OBVIOUS
<1> DEFINE gap == GapTolerance(1)
<1>1. PICK rate \in Rates, phase \in 0 .. RateTicks - 1, quantum \in {1, 5, 10},
           missing \in UNION {kSubset(k, 1 .. Ticks - 1) : k \in 0 .. MaxMissing} :
        asked' = [about |-> "steady", rate |-> rate, phase |-> phase,
                  quantum |-> quantum, missing |-> missing]
  BY DEF AskSteady
<1>2. /\ rate \in Nat /\ RateTicks \in Nat /\ Ticks \in Nat
      /\ MaxMissing \in Nat /\ MaxMissing < gap
  BY CalculationsAssumption
<1>3. gap \in Nat
  BY ToleranceIsNatural
<1> HIDE DEF gap
<1>4. PICK k \in 0 .. MaxMissing : missing \in kSubset(k, 1 .. Ticks - 1)
  BY <1>1
<1>5. missing \in SUBSET (1 .. Ticks - 1) /\ Cardinality(missing) = k
  BY <1>4 DEF kSubset
<1>6. phase \in Nat
  BY <1>2
<1>7. ASSUME NEW t \in (0 .. Ticks - 1) \ missing
      PROVE  \E u \in (0 .. Ticks) \ missing : t < u /\ u <= t + gap
  <2>1. CASE t + gap >= Ticks
    <3>1. Ticks \notin missing
      BY <1>2, <1>5
    <3> QED
      BY <1>2, <2>1, <3>1
  <2>2. CASE t + gap < Ticks
    <3> DEFINE next == t + 1 .. t + gap
    <3>1. IsFiniteSet(next) /\ Cardinality(next) = gap
      <4>1. t + 1 \in Int /\ t + gap \in Int
        BY <1>2, <1>3
      <4>2. /\ IsFiniteSet(next)
            /\ Cardinality(next) = IF t + 1 > t + gap THEN 0 ELSE (t + gap) - (t + 1) + 1
        BY <4>1, FS_Interval
      <4> HIDE DEF next
      <4> QED
        BY <1>2, <1>3, <4>2
    <3>2. IsFiniteSet(missing)
      <4>1. missing \subseteq Nat /\ \A x \in missing : x <= Ticks
        BY <1>2, <1>5
      <4> QED
        BY <1>2, <4>1, FS_BoundedSetOfNaturals
    <3>3. ~(next \subseteq missing)
      <4> SUFFICES ASSUME next \subseteq missing PROVE FALSE
        OBVIOUS
      <4> HIDE DEF next
      <4>1. Cardinality(next) <= Cardinality(missing)
        BY <3>2, FS_Subset
      <4> QED
        BY <1>2, <1>3, <1>5, <3>1, <4>1
    <3>4. PICK u \in next : u \notin missing
      BY <3>3
    <3> QED
      BY <1>2, <1>3, <2>2, <3>4
  <2> QED
    BY <1>2, <1>3, <2>1, <2>2
<1> QED
  BY <1>1, <1>2, <1>5, <1>6, <1>7 DEF SteadyQuestions, gap

LEMMA StoredRowIs ==
  ASSUME NEW window \in WindowNames \ {AnyWindow}, NEW ts \in Nat, NEW used \in Nat,
         NEW limited \in BOOLEAN, NEW reset \in Nat \cup {None}
  PROVE  [window |-> window, ts |-> ts, used |-> used, limited |-> limited,
          reset |-> reset] \in StoredRows
BY DEF StoredRows

LEMMA SeriesCovered == AskSeries => asked' \in SeriesQuestions
<1> SUFFICES ASSUME AskSeries PROVE asked' \in SeriesQuestions
  OBVIOUS
<1>1. PICK used \in [SeriesTimes -> {0, 30}], unlimited \in {None, 7},
           reset \in [ResetTimes -> {None, 20, 30}] \cup [ResetTimes -> {20, 21}],
           current \in CurrentWindows, range \in SeriesRanges :
        asked' = [about |-> "series", span |-> SeriesSpan, current |-> current,
                  window |-> "5h", interval |-> 1, range |-> range,
                  until |-> Max(SeriesTimes),
                  stored |-> {[window |-> "5h", ts |-> t, used |-> used[t],
                               limited |-> t # unlimited,
                               reset |-> reset[Max(ResetTimes \cap 0 .. t)]] :
                                t \in SeriesTimes}
                             \cup {[window |-> "7d", ts |-> t, used |-> t,
                                    limited |-> TRUE, reset |-> 20] :
                                     t \in SeriesTimes}]
  BY DEF AskSeries
<1> DEFINE at(t)    == reset[Max(ResetTimes \cap 0 .. t)]
           five(t)  == [window |-> "5h", ts |-> t, used |-> used[t],
                        limited |-> t # unlimited, reset |-> at(t)]
           seven(t) == [window |-> "7d", ts |-> t, used |-> t, limited |-> TRUE, reset |-> 20]
           short    == {five(t) : t \in SeriesTimes}
           long     == {seven(t) : t \in SeriesTimes}
           stored   == short \cup long
           until    == Max(SeriesTimes)
<1>2. /\ SeriesTimes \subseteq Nat /\ IsFiniteSet(SeriesTimes) /\ until \in Nat
      /\ \A t \in SeriesTimes : used[t] \in Nat
  <2>1. SeriesTimes \subseteq Nat /\ SeriesTimes # {} /\ \A t \in SeriesTimes : t <= 8
    BY DEF SeriesTimes
  <2>2. \A m \in Nat : (\A t \in SeriesTimes : t <= m) => IsFiniteSet(SeriesTimes)
    BY <2>1, FS_BoundedSetOfNaturals
  <2>3. IsFiniteSet(SeriesTimes)
    BY <2>1, <2>2
  <2>4. until \in SeriesTimes
    BY <2>1, <2>3, MaxIsGreatest
  <2> HIDE DEF until
  <2>5. \A t \in SeriesTimes : used[t] \in {0, 30}
    OBVIOUS
  <2>6. \A t \in SeriesTimes : used[t] \in Nat
    BY <2>5
  <2>7. until \in Nat
    BY <2>1, <2>4
  <2> QED
    BY <2>1, <2>3, <2>6, <2>7
<1>3. \A t \in SeriesTimes : at(t) \in Nat \cup {None}
  <2> TAKE t \in SeriesTimes
  <2> DEFINE T == ResetTimes \cap 0 .. t
  <2>1. T \subseteq Nat /\ T \subseteq ResetTimes /\ 0 \in T /\ t \in Nat /\ \A u \in T : u <= t
    BY <1>2 DEF ResetTimes
  <2> HIDE DEF T
  <2>2. IsFiniteSet(T)
    BY <2>1, FS_BoundedSetOfNaturals
  <2>3. Max(T) \in ResetTimes
    BY <2>1, <2>2, MaxIsGreatest
  <2>4. \A u \in ResetTimes : reset[u] \in Nat \cup {None}
    OBVIOUS
  <2> QED
    BY <2>3, <2>4 DEF T
<1> HIDE DEF at, until
<1>4. "5h" \in WindowNames \ {AnyWindow} /\ "7d" \in WindowNames \ {AnyWindow}
  BY DEF WindowNames, AnyWindow
<1>5. \A t \in SeriesTimes : five(t) \in StoredRows
  <2> TAKE t \in SeriesTimes
  <2>1. t \in Nat /\ used[t] \in Nat /\ at(t) \in Nat \cup {None}
    BY <1>2, <1>3
  <2>2. (t # unlimited) \in BOOLEAN
    BY Zenon
  <2> QED
    BY <1>4, <2>1, <2>2, StoredRowIs, Zenon
<1>6. \A t \in SeriesTimes : seven(t) \in StoredRows
  <2> TAKE t \in SeriesTimes
  <2>1. t \in Nat /\ TRUE \in BOOLEAN /\ 20 \in Nat \cup {None}
    BY <1>2
  <2> QED
    BY <1>4, <2>1, StoredRowIs, Zenon
<1>7. IsFiniteSet(stored)
  <2> DEFINE f == [t \in SeriesTimes |-> five(t)]
             g == [t \in SeriesTimes |-> seven(t)]
  <2>1. short = {f[t] : t \in SeriesTimes}
    OBVIOUS
  <2>2. long = {g[t] : t \in SeriesTimes}
    OBVIOUS
  <2> HIDE DEF f, g, short, long
  <2>3. IsFiniteSet(SeriesTimes)
    BY <1>2
  <2>4. IsFiniteSet(short)
    BY ONLY <2>1, <2>3, ImageIsFinite
  <2>5. IsFiniteSet(long)
    BY ONLY <2>2, <2>3, ImageIsFinite
  <2> QED
    BY <2>4, <2>5, FS_Union
<1>8. \A r, s \in stored : r.window = s.window /\ r.ts = s.ts => r = s
  <2> SUFFICES ASSUME NEW r \in stored, NEW s \in stored, r.window = s.window, r.ts = s.ts
               PROVE  r = s
    OBVIOUS
  <2>1. \A x \in short : \E t \in SeriesTimes : x = five(t) /\ x.ts = t /\ x.window = "5h"
    OBVIOUS
  <2>2. \A x \in long : \E t \in SeriesTimes : x = seven(t) /\ x.ts = t /\ x.window = "7d"
    OBVIOUS
  <2> HIDE DEF five, seven, short, long
  <2>3. "5h" # "7d"
    OBVIOUS
  <2> QED
    BY <2>1, <2>2, <2>3
<1>9. current \in Windows \cup {NoWindow}
  BY DEF CurrentWindows, Windows
<1>10. range \in [duration : Nat, max_points : Nat \ {0}]
  BY DEF SeriesRanges
<1>11. stored \in SUBSET StoredRows
  BY <1>5, <1>6
<1>12. asked' = [about |-> "series", span |-> SeriesSpan, current |-> current,
                 window |-> "5h", interval |-> 1, range |-> range,
                 until |-> until, stored |-> stored]
  BY <1>1 DEF at, until
<1> HIDE DEF stored
<1> QED
  BY <1>2, <1>4, <1>7, <1>8, <1>9, <1>10, <1>11, <1>12 DEF SeriesQuestions, SeriesSpan

LEMMA WarningsCovered == AskWarnings => asked' \in WarningQuestions
<1> SUFFICES ASSUME AskWarnings PROVE asked' \in WarningQuestions
  OBVIOUS
<1> DEFINE not_after(start, width) == IF start = None THEN None ELSE start + width
           rate(low, more, most) ==
             IF low + more + most = 210 THEN NoRate
             ELSE [NoRate EXCEPT !.low = low, !.mid = low + more,
                     !.high = low + more + most, !.d = 3]
<1>1. PICK used \in Usages, now \in 0 .. WeekSpan + 1,
           start \in Starts \cup {None}, width \in {0, 2, 4},
           low \in {0, 20, 70}, more \in {0, 20, 70}, most \in {0, 20, 70} :
        asked' = [about |-> "warnings", now |-> now,
                  view |-> [reset |-> WeekSpan, span |-> WeekSpan, used |-> used,
                            not_before |-> start, not_after |-> not_after(start, width)],
                  rate |-> rate(low, more, most)]
  BY DEF AskWarnings
<1>2. /\ used \in Nat /\ start \in Nat \cup {None} /\ WeekSpan \in Nat \ {0}
      /\ now \in Nat
  BY CalculationsAssumption
<1>3. not_after(start, width) \in Nat \cup {None}
  BY <1>2 DEF None
<1>4. <<start, not_after(start, width)>> \in Brackets
  BY <1>2 DEF Brackets, None
<1>5. rate(low, more, most) \in RateEstimates
  <2>1. CASE low + more + most = 210
    BY <2>1 DEF RateEstimates
  <2>2. CASE low + more + most # 210
    <3>1. rate(low, more, most)
            = [low |-> low, mid |-> low + more, high |-> low + more + most, d |-> 3,
               from |-> None, to |-> None, readings |-> 0, quantum |-> 0]
      BY <2>2 DEF NoRate
    <3>2. /\ low \in Nat /\ low + more \in Nat /\ low + more + most \in Nat
          /\ low <= low + more /\ low + more <= low + more + most
          /\ None \in Int /\ 3 \in Nat \ {0} /\ 0 \in Nat
      BY DEF None
    <3> HIDE DEF rate
    <3> QED
      BY <3>1, <3>2 DEF RateEstimates
  <2> QED
    BY <2>1, <2>2
<1>6. WeekSpan - WeekSpan <= now
  BY <1>2
<1> HIDE DEF rate, not_after
<1> QED
  BY <1>1, <1>2, <1>3, <1>4, <1>5, <1>6, SMTT(40) DEF WarningQuestions

LEMMA EditCovered == AskEdit => asked' \in EditQuestions
BY DEF AskEdit, EditQuestions, Settings, NoSetting, MIN_POLL_INTERVAL_SECS

LEMMA ModelsAreNamed ==
  /\ Models \subseteq [id : Seq(NameWords), name : Seq(NameWords)]
<1> DEFINE S == Seq(NameWords)
<1>1. <<>> \in S
  OBVIOUS
<1>2. OpusNames \subseteq S
  <2>1. <<"Opus">> \in S
    BY DEF NameWords
  <2>2. <<"Claude", " ", "Opus", " ", "4", ".", "5">> \in S
    BY DEF NameWords
  <2>3. <<"claude", "-", "opus", "-", "4", "-", "1">> \in S
    BY DEF NameWords
  <2> HIDE DEF S
  <2> QED
    BY <2>1, <2>2, <2>3 DEF OpusNames
<1>3. OtherNames \subseteq S
  <2>1. <<"Opus", " ", "Mini">> \in S
    BY DEF NameWords
  <2>2. <<"Fable">> \in S /\ <<"-">> \in S
    BY DEF NameWords
  <2>3. <<"4", ".", "5">> \in S
    BY DEF NameWords
  <2> HIDE DEF S
  <2> QED
    BY <2>1, <2>2, <2>3 DEF OtherNames
<1> HIDE DEF S
<1>4. Models \subseteq [id : S, name : S]
  BY <1>1, <1>2, <1>3 DEF Models, NoModel
<1> QED
  BY <1>4 DEF S

LEMMA BucketsAre ==
  /\ Buckets \subseteq AnyBucket /\ Absent \in AnyBucket /\ ~Absent.carried
  /\ \A b \in Buckets : b.used # Unreadable => b.carried
<1> DEFINE Silent == [used |-> Unreadable, resets_at |-> Unreadable, carried |-> TRUE]
           Read   == [used |-> 0, resets_at |-> 1, carried |-> TRUE]
<1>1. Absent \in AnyBucket /\ Absent.used = Unreadable /\ ~Absent.carried
  BY DEF Absent, AnyBucket, Unreadable
<1>2. Buckets = {Absent, Silent, Read}
  BY DEF Buckets, Absent
<1>3. Silent \in AnyBucket /\ Silent.carried /\ Read \in AnyBucket /\ Read.carried
  BY DEF AnyBucket, Unreadable
<1> HIDE DEF Silent, Read
<1> QED
  BY <1>1, <1>2, <1>3

LEMMA EntriesAre ==
  ASSUME NEW i \in Nat, NEW row \in LimitEntries(i)
  PROVE  row \in AnyRow(NameWords) /\ row.model \in Models /\ row.percent \in {Unreadable, i}
<1>1. PICK kind \in {"weekly_scoped", "weekly_all"}, model \in Models,
           percent \in {Unreadable, i} :
        row = [decodes |-> TRUE, kind |-> kind, model |-> model, percent |-> percent,
               resets_at |-> Unreadable]
  BY DEF LimitEntries
<1>2. percent \in Int /\ Unreadable \in Int
  BY DEF Unreadable
<1>3. model \in [id : Seq(NameWords), name : Seq(NameWords)]
  BY ModelsAreNamed
<1> QED
  BY <1>1, <1>2, <1>3 DEF AnyRow

PayloadOf(arrived, status, is_json, is_array, weekly, opus, rows) ==
  [about |-> "payload", arrived |-> arrived, status |-> status, is_json |-> is_json,
   usage |-> [buckets |-> [five_hour |-> Absent, seven_day |-> weekly,
                           seven_day_opus |-> opus, seven_day_sonnet |-> Absent],
              limits |-> [is_array |-> is_array, rows |-> rows]]]

\* A payload of such rows and buckets is among those the theorems are about.
LEMMA PayloadIs ==
  ASSUME NEW arrived \in BOOLEAN, NEW status \in Nat, NEW is_json \in BOOLEAN,
         NEW is_array \in BOOLEAN, NEW weekly \in Buckets, NEW opus \in Buckets,
         NEW rows \in Seq(AnyRow(NameWords)),
         \A i \in DOMAIN rows : rows[i].model \in Models /\ rows[i].percent \in {Unreadable, i}
  PROVE  PayloadOf(arrived, status, is_json, is_array, weekly, opus, rows)
           \in NamedPayloads(NameWords)
<1> DEFINE buckets == [five_hour |-> Absent, seven_day |-> weekly,
                       seven_day_opus |-> opus, seven_day_sonnet |-> Absent]
           limits  == [is_array |-> is_array, rows |-> rows]
           usage   == [buckets |-> buckets, limits |-> limits]
           p       == [about |-> "payload", arrived |-> arrived, status |-> status,
                       is_json |-> is_json, usage |-> usage]
<1>1. /\ buckets \in [five_hour : AnyBucket, seven_day : AnyBucket,
                      seven_day_opus : AnyBucket, seven_day_sonnet : AnyBucket]
      /\ buckets.seven_day_opus = opus /\ buckets.seven_day_sonnet = Absent
  BY BucketsAre
<1> HIDE DEF buckets
<1>2. limits \in [is_array : BOOLEAN, rows : Seq(AnyRow(NameWords))] /\ limits.rows = rows
  OBVIOUS
<1> HIDE DEF limits
<1>3. usage \in AnyUsage(NameWords) /\ usage.buckets = buckets /\ usage.limits = limits
  BY <1>1, <1>2 DEF AnyUsage
<1> HIDE DEF usage
<1>4. p \in PayloadQuestions(NameWords) /\ p.usage = usage
  BY <1>3 DEF PayloadQuestions
<1> HIDE DEF p
<1>5. p \in NamedPayloads(NameWords)
  BY <1>1, <1>2, <1>3, <1>4, BucketsAre DEF NamedPayloads
<1> QED
  BY <1>5, Zenon DEF PayloadOf, p, usage, limits, buckets

LEMMA PayloadCovered == AskPayload => asked' \in NamedPayloads(NameWords)
<1> SUFFICES ASSUME AskPayload PROVE asked' \in NamedPayloads(NameWords)
  OBVIOUS
<1>1. PICK weekly \in Buckets, opus \in Buckets, first \in LimitEntries(1),
           second \in LimitEntries(2) :
        asked' = [about |-> "payload", arrived |-> TRUE, status |-> 200,
                  is_json |-> TRUE,
                  usage |-> [buckets |-> [five_hour |-> Absent, seven_day |-> weekly,
                                          seven_day_opus |-> opus,
                                          seven_day_sonnet |-> Absent],
                             limits |-> [is_array |-> TRUE, rows |-> <<first, second>>]]]
  BY ZenonT(40) DEF AskPayload
<1> DEFINE rows == <<first, second>>
<1>2. /\ first \in AnyRow(NameWords) /\ first.model \in Models
      /\ first.percent \in {Unreadable, 1}
  BY EntriesAre
<1>3. /\ second \in AnyRow(NameWords) /\ second.model \in Models
      /\ second.percent \in {Unreadable, 2}
  BY EntriesAre
<1>4. /\ rows \in Seq(AnyRow(NameWords)) /\ DOMAIN rows = {1, 2}
      /\ rows[1] = first /\ rows[2] = second
  BY <1>2, <1>3
<1> HIDE DEF rows
<1>5. \A i \in DOMAIN rows : rows[i].model \in Models /\ rows[i].percent \in {Unreadable, i}
  BY <1>2, <1>3, <1>4
<1>6. TRUE \in BOOLEAN /\ 200 \in Nat
  OBVIOUS
<1> QED
  <2>1. asked' = PayloadOf(TRUE, 200, TRUE, TRUE, weekly, opus, rows)
    BY <1>1, Zenon DEF PayloadOf, rows
  <2>2. \A t \in BOOLEAN, status \in Nat :
          PayloadOf(t, status, t, t, weekly, opus, rows) \in NamedPayloads(NameWords)
    BY <1>4, <1>5, PayloadIs
  <2> QED
    BY <1>6, <2>1, <2>2, Zenon

LEMMA ReplyCovered == AskReply => asked' \in NamedPayloads(NameWords)
<1> SUFFICES ASSUME AskReply PROVE asked' \in NamedPayloads(NameWords)
  OBVIOUS
<1>1. PICK arrived \in BOOLEAN, is_json \in BOOLEAN, is_array \in BOOLEAN,
           status \in {200, 204, 401, 429, 500}, opus \in Buckets,
           row \in {r \in LimitEntries(1) : r.model.id = <<>>} :
        asked' = [about |-> "payload", arrived |-> arrived, status |-> status,
                  is_json |-> is_json,
                  usage |-> [buckets |-> [five_hour |-> Absent, seven_day |-> Absent,
                                          seven_day_opus |-> opus,
                                          seven_day_sonnet |-> Absent],
                             limits |-> [is_array |-> is_array, rows |-> <<row>>]]]
  BY Zenon DEF AskReply
<1> DEFINE rows == <<row>>
<1>2. row \in AnyRow(NameWords) /\ row.model \in Models /\ row.percent \in {Unreadable, 1}
  BY EntriesAre
<1>3. rows \in Seq(AnyRow(NameWords)) /\ DOMAIN rows = {1} /\ rows[1] = row
  BY <1>2
<1> HIDE DEF rows
<1>4. \A i \in DOMAIN rows : rows[i].model \in Models /\ rows[i].percent \in {Unreadable, i}
  BY <1>2, <1>3
<1>5. status \in Nat /\ Absent \in Buckets
  BY DEF Buckets
<1> QED
  <2>1. asked' = PayloadOf(arrived, status, is_json, is_array, Absent, opus, rows)
    BY <1>1, Zenon DEF PayloadOf, rows
  <2>2. PayloadOf(arrived, status, is_json, is_array, Absent, opus, rows)
          \in NamedPayloads(NameWords)
    BY <1>3, <1>4, <1>5, PayloadIs
  <2> QED
    BY <2>1, <2>2

LEMMA RowIs ==
  ASSUME NEW window \in WindowNames \ {AnyWindow}, NEW ts \in Nat, NEW used \in Nat,
         NEW readable \in BOOLEAN
  PROVE  [window |-> window, ts |-> ts, used |-> used, readable |-> readable] \in PageRows
BY DEF PageRows

LEMMA HistoryCovered == AskHistory => asked' \in HistoryQuestions
<1> SUFFICES ASSUME AskHistory PROVE asked' \in HistoryQuestions
  OBVIOUS
<1>1. PICK used \in [PageTimes -> NotRead .. 3], since \in {0, 1},
           until \in {1, 3, Now}, max_points \in {NoBudget, 0, 2, 5},
           unreadable \in {Now, 2}, window \in {AnyWindow, "5h"} :
        asked' = [about |-> "history", now |-> Max(PageTimes),
                  rows |-> {[window |-> "5h", ts |-> t, used |-> used[t],
                             readable |-> t # unreadable] :
                              t \in {u \in PageTimes : used[u] # NotRead}}
                           \cup {[window |-> "7d", ts |-> t, used |-> t,
                                  readable |-> TRUE] : t \in PageTimes},
                  query |-> [since |-> since, until |-> until, window |-> window,
                             max_points |-> max_points]]
  BY DEF AskHistory
<1> DEFINE five(t)  == [window |-> "5h", ts |-> t, used |-> used[t],
                        readable |-> t # unreadable]
           seven(t) == [window |-> "7d", ts |-> t, used |-> t, readable |-> TRUE]
           times    == {u \in PageTimes : used[u] # NotRead}
           short    == {five(t) : t \in times}
           long     == {seven(t) : t \in PageTimes}
           query    == [since |-> since, until |-> until, window |-> window,
                        max_points |-> max_points]
<1>2. /\ PageTimes \subseteq Nat /\ IsFiniteSet(PageTimes) /\ IsFiniteSet(times)
      /\ Max(PageTimes) \in Nat
  <2>1. PageTimes = 0 .. 4
    BY DEF PageTimes
  <2>2. IsFiniteSet(PageTimes)
    <3>1. \A a, b \in Int : IsFiniteSet(a .. b)
      BY FS_Interval
    <3>2. 0 \in Int /\ 4 \in Int
      OBVIOUS
    <3> QED
      BY <2>1, <3>1, <3>2, Zenon
  <2>3. IsFiniteSet(times)
    BY <2>2, FS_Subset
  <2>4. \A n \in PageTimes : n <= 4
    BY <2>1
  <2>5. Max(PageTimes) \in PageTimes
    BY <2>1, <2>2, <2>4, MaxIsGreatest
  <2> QED
    BY <2>1, <2>2, <2>3, <2>5
<1>3. IsFiniteSet(short)
  <2> DEFINE f == [t \in times |-> five(t)]
             T == {f[t] : t \in times}
  <2>1. T = short
    OBVIOUS
  <2> HIDE DEF f, short
  <2>2. IsFiniteSet(T)
    BY <1>2, ImageIsFinite
  <2> QED
    BY <2>1, <2>2
<1>4. IsFiniteSet(long)
  <2> DEFINE f == [t \in PageTimes |-> seven(t)]
             T == {f[t] : t \in PageTimes}
  <2>1. T = long
    OBVIOUS
  <2> HIDE DEF f, long
  <2>2. IsFiniteSet(T)
    BY <1>2, ImageIsFinite, ZenonT(40)
  <2> QED
    BY <2>1, <2>2
<1>5. IsFiniteSet(short \cup long)
  BY <1>3, <1>4, FS_Union
<1>6. "5h" \in WindowNames \ {AnyWindow} /\ "7d" \in WindowNames \ {AnyWindow}
      /\ AnyWindow \in WindowNames
  BY DEF WindowNames, AnyWindow
<1>7. \A t \in times : five(t) \in PageRows
  <2> TAKE t \in times
  <2>1. t \in Nat /\ used[t] \in Nat
    BY <1>2 DEF NotRead
  <2>2. (t # unreadable) \in BOOLEAN
    BY Zenon
  <2> QED
    BY <1>6, <2>1, <2>2, RowIs, Zenon
<1>8. \A t \in PageTimes : seven(t) \in PageRows
  <2> TAKE t \in PageTimes
  <2>1. t \in Nat /\ TRUE \in BOOLEAN
    BY <1>2
  <2> QED
    BY <1>6, <2>1, RowIs, Zenon
<1>11. query \in HistoryQueries
  <2>1. /\ since \in Nat /\ until \in Nat \cup {Now}
        /\ max_points \in Nat \cup {NoBudget} /\ window \in WindowNames
    BY <1>6
  <2> QED
    BY <2>1 DEF HistoryQueries
<1> HIDE DEF five, seven, times, query
<1>9. short \cup long \subseteq PageRows
  BY <1>7, <1>8
<1>10. asked' = [about |-> "history", now |-> Max(PageTimes),
                 rows |-> short \cup long, query |-> query]
  BY <1>1, Zenon DEF five, seven, times, query
<1> HIDE DEF short, long
<1> QED
  BY <1>2, <1>5, <1>9, <1>10, <1>11, SMTT(40) DEF HistoryQuestions

LEMMA BurnCovered == AskBurn => asked' \in BurnQuestions
<1> SUFFICES ASSUME AskBurn PROVE asked' \in BurnQuestions
  OBVIOUS
<1>1. PICK use \in [1 .. 4 -> {0, 2}], restart \in {0} \cup (1 .. 4),
           published \in BOOLEAN, polled \in SUBSET (0 .. 4) :
        asked' = [about |-> "burn", use |-> use, restart |-> restart,
                  published |-> published, polled |-> polled]
  BY Zenon DEF AskBurn, BurnTicks, NoRestart
<1>2. use \in [1 .. 4 -> Nat] /\ restart \in 0 .. 4
  OBVIOUS
<1>3. asked' \in BurnFor(4)
  BY <1>1, <1>2 DEF BurnFor
<1> QED
  BY <1>3 DEF BurnQuestions

LEMMA ChartCovered == AskChart => asked' \in ChartQuestions
<1> SUFFICES ASSUME AskChart PROVE asked' \in ChartQuestions
  OBVIOUS
<1> DEFINE T == {0, 7, 8, 15, 16, 25, 36, 40}
<1>1. PICK times \in SUBSET T, reset \in {None, 45, 50, 70},
           gap \in {8, 12}, late \in {0, 3}, live \in BOOLEAN, width \in {5, 7} :
        asked' = [about |-> "chart", times |-> times, gap |-> gap, live |-> live,
                  width |-> width, now |-> 40 + late,
                  trend |-> [until |-> 40, rollovers |-> {},
                             range |-> [duration |-> 40, max_points |-> 10]],
                  view |-> [reset |-> reset, span |-> 30, used |-> 0,
                            not_before |-> None, not_after |-> None]]
  BY Zenon DEF AskChart
<1>2. IsFiniteSet(times) /\ times \in SUBSET Nat
  <2>1. T \in SUBSET (0 .. 40)
    OBVIOUS
  <2>2. IsFiniteSet(0 .. 40)
    <3>1. 0 \in Int /\ 40 \in Int
      OBVIOUS
    <3> QED
      BY <3>1, FS_Interval, Zenon
  <2>3. times \in SUBSET (0 .. 40)
    BY <2>1
  <2>4. IsFiniteSet(times)
    BY <2>2, <2>3, FS_Subset
  <2> QED
    BY <2>3, <2>4
<1> DEFINE trend == [until |-> 40, rollovers |-> {},
                     range |-> [duration |-> 40, max_points |-> 10]]
           view  == [reset |-> reset, span |-> 30, used |-> 0,
                     not_before |-> None, not_after |-> None]
<1>3. /\ trend \in [until : Nat, rollovers : SUBSET PageRollovers,
                    range : [duration : Nat, max_points : Nat \ {0}]]
      /\ trend.range.duration = 40
  OBVIOUS
<1>4. view \in [reset : Nat \cup {None}, span : Nat, used : Nat \cup {None},
                not_before : Nat \cup {None}, not_after : Nat \cup {None}]
  BY DEF None
<1>5. asked' = [about |-> "chart", times |-> times, gap |-> gap, live |-> live,
                width |-> width, now |-> 40 + late, trend |-> trend, view |-> view]
  BY <1>1
<1>6. gap \in Nat /\ width \in Nat \ {0} /\ 40 + late \in Nat /\ 40 >= width
  OBVIOUS
<1> HIDE DEF trend, view
<1> QED
  BY <1>2, <1>3, <1>4, <1>5, <1>6 DEF ChartQuestions

LEMMA PageCovered == AskPage => asked' \in PageQuestions
<1> SUFFICES ASSUME AskPage PROVE asked' \in PageQuestions
  OBVIOUS
<1> DEFINE D == {10, 11, 15, 30}
<1>1. PICK kinds \in [D -> {"none", "scheduled", "early", "unannounced"}],
           reset \in {None, 45, 70}, started \in {None, 9, 15}, live \in BOOLEAN,
           unit \in {"percent", "count"}, limit \in {None, 0, 20} :
        asked' = [about |-> "page", now |-> 40, live |-> live,
                  unit |-> unit, limit |-> limit, readings |-> {[used |-> 30], [used |-> 2]},
                  trend |-> [until |-> 40,
                             rollovers |-> {[observed_at |-> t, kind |-> kinds[t]] :
                               t \in {u \in DOMAIN kinds : kinds[u] # "none"}},
                             range |-> [duration |-> 40, max_points |-> 10]],
                  view |-> [reset |-> reset, span |-> 30, used |-> 0,
                            not_before |-> started, not_after |-> started]]
  BY Zenon DEF AskPage
<1> DEFINE ros      == {[observed_at |-> t, kind |-> kinds[t]] :
                          t \in {u \in DOMAIN kinds : kinds[u] # "none"}}
           readings == {[used |-> 30], [used |-> 2]}
           trend    == [until |-> 40, rollovers |-> ros,
                        range |-> [duration |-> 40, max_points |-> 10]]
           view     == [reset |-> reset, span |-> 30, used |-> 0,
                        not_before |-> started, not_after |-> started]
<1>2. \A r : r \in ros <=> \E t \in D : r = [observed_at |-> t, kind |-> kinds[t]]
                                         /\ kinds[t] # "none"
  OBVIOUS
<1> HIDE DEF ros
<1>3. /\ ros \subseteq PageRollovers
      /\ \A r \in ros : r.observed_at >= 0 /\ r.observed_at <= 40
      /\ \A r, s \in ros : r.observed_at = s.observed_at => r = s
  <2>1. ASSUME NEW r \in ros
        PROVE  /\ r \in PageRollovers /\ r.observed_at \in D
               /\ r = [observed_at |-> r.observed_at, kind |-> kinds[r.observed_at]]
    <3>1. PICK t \in D : r = [observed_at |-> t, kind |-> kinds[t]] /\ kinds[t] # "none"
      BY <1>2
    <3>2. kinds[t] \in {"scheduled", "early", "unannounced"} /\ t \in Nat
      BY <3>1
    <3> QED
      BY <3>1, <3>2 DEF PageRollovers
  <2> QED
    BY <2>1
<1>4. readings \subseteq [used : Nat] /\ IsFiniteSet(readings)
  <2>1. IsFiniteSet({[used |-> 30]})
    BY FS_Singleton
  <2>2. readings = {[used |-> 30]} \cup {[used |-> 2]}
    OBVIOUS
  <2>3. IsFiniteSet(readings)
    <3> DEFINE x == [used |-> 30]
               y == [used |-> 2]
    <3>1. IsFiniteSet({x}) /\ readings = {x} \cup {y}
      BY <2>1, <2>2
    <3> HIDE DEF x, y, readings
    <3>2. IsFiniteSet({x} \cup {y})
      BY <3>1, FS_AddElement, Zenon
    <3> QED
      BY <3>1, <3>2
  <2> QED
    BY <2>3
<1>5. /\ trend \in [until : Nat, rollovers : SUBSET PageRollovers,
                    range : [duration : Nat, max_points : Nat \ {0}]]
      /\ trend.rollovers = ros /\ trend.until = 40 /\ trend.range.duration = 40
  BY <1>3
<1>6. view \in [reset : Nat \cup {None}, span : Nat, used : Nat \cup {None},
                not_before : Nat \cup {None}, not_after : Nat \cup {None}]
  BY DEF None
<1>7. asked' = [about |-> "page", now |-> 40, live |-> live, unit |-> unit, limit |-> limit,
                readings |-> readings, trend |-> trend, view |-> view]
  BY <1>1 DEF ros
<1>8. limit \in Nat \cup {None}
  OBVIOUS
<1> HIDE DEF trend, view, readings
<1> QED
  BY <1>3, <1>4, <1>5, <1>6, <1>7, <1>8 DEF PageQuestions

LEMMA BarsCovered == AskBars \/ AskHours => BarQuestion(asked')
<1>1. ASSUME AskBars PROVE BarQuestion(asked')
  <2>1. PICK ended \in 0 .. 4, running \in BOOLEAN, plot \in {2, 3, 5, 6, 9, 14, 30} :
          asked' = [about |-> "bars", bars |-> OutcomeBars(1 .. ended, running, plot)]
    BY <1>1 DEF AskBars
  <2>2. IsFiniteSet(1 .. ended) /\ plot \in Nat \ {0}
    BY FS_Interval
  <2>3. asked'.about = "bars" /\ asked'.bars = OutcomeBars(1 .. ended, running, plot)
    BY <2>1
  <2> QED
    BY <2>2, <2>3 DEF BarQuestion
<1>2. ASSUME AskHours PROVE BarQuestion(asked')
  <2>1. PICK plot \in {HOURS * k + j : k \in 2 .. 7, j \in {-1, 0, 5}} :
          asked' = [about |-> "bars", bars |-> BurnBars(plot)]
    BY <1>2 DEF AskHours
  <2>2. PICK k \in 2 .. 7, j \in {-1, 0, 5} : plot = HOURS * k + j
    BY <2>1
  <2>3. HOURS \in Nat /\ HOURS >= 1
    BY ChartsAssumption
  <2>4. HOURS * k >= 2 * HOURS
    BY <2>3
  <2>5. plot \in Nat /\ plot >= 2 * HOURS - 1
    BY <2>2, <2>3, <2>4
  <2>6. asked'.about = "bars" /\ asked'.bars = BurnBars(plot)
    BY <2>1
  <2> QED
    BY <2>5, <2>6 DEF BarQuestion
<1> QED
  BY <1>1, <1>2

\* Every answer of the run is right, whatever the constants: the questions it
\* asks about steady burns, series, rows, edits, pages of history, payloads,
\* charts, bars and burns are ones that the theorems above are about
\* (estimate_rate, rate_series, derived_line, step_interval, history, burn_bars).
THEOREM AnswersAlwaysRight ==
  Spec => [](SteadyRateMeasured /\ SeriesAgreesWithRow /\ LinesBridgeNothing /\ WarningsAgree
               /\ EditsDoWhatTheySay /\ PageIsFaithful /\ CapIdentityStable
               /\ NoCapLost /\ PressPicksWhatIsDrawn /\ BurnPlaced)
<1>1. Init => Covered
  BY DEF Init, Covered, To
<1>2. Covered /\ [Next]_vars => Covered'
  <2> SUFFICES ASSUME Covered, [Next]_vars PROVE Covered'
    OBVIOUS
  <2>1. CASE AskSteady
    <3>1. asked' \in SteadyQuestions /\ asked'.about = "steady"
      BY <2>1, SteadyCovered DEF SteadyQuestions
    <3> QED
      BY <3>1 DEF Covered
  <2>2. CASE AskSeries
    <3>1. asked' \in SeriesQuestions /\ asked'.about = "series"
      BY <2>2, SeriesCovered DEF SeriesQuestions
    <3> QED
      BY <3>1 DEF Covered
  <2>3. CASE AskWarnings
    <3>1. asked' \in WarningQuestions /\ asked'.about = "warnings"
      BY <2>3, WarningsCovered DEF WarningQuestions
    <3> QED
      BY <3>1 DEF Covered
  <2>4. CASE AskEdit
    <3>1. asked' \in EditQuestions /\ asked'.about = "edit"
      BY <2>4, EditCovered DEF EditQuestions
    <3> QED
      BY <3>1 DEF Covered
  <2>5. CASE AskBoundaries
    <3>1. asked'.about = "boundaries"
      BY <2>5 DEF AskBoundaries
    <3> QED
      BY <3>1 DEF Covered
  <2>6. CASE UNCHANGED vars
    BY <2>6 DEF vars, Covered
  <2>7. CASE AskHistory
    <3>1. asked' \in HistoryQuestions /\ asked'.about = "history"
      BY <2>7, HistoryCovered DEF HistoryQuestions
    <3> QED
      BY <3>1 DEF Covered
  <2>8. CASE AskPayload \/ AskReply
    <3>1. asked' \in NamedPayloads(NameWords)
      BY <2>8, PayloadCovered, ReplyCovered
    <3>2. asked'.about = "payload"
      BY <3>1 DEF NamedPayloads, PayloadQuestions
    <3> QED
      BY <3>1, <3>2 DEF Covered
  <2>9. CASE AskChart
    <3>1. asked' \in ChartQuestions /\ asked'.about = "chart"
      BY <2>9, ChartCovered DEF ChartQuestions
    <3> QED
      BY <3>1 DEF Covered
  <2>10. CASE AskPage
    <3>1. asked' \in PageQuestions /\ asked'.about = "page"
      BY <2>10, PageCovered DEF PageQuestions
    <3> QED
      BY <3>1 DEF Covered
  <2>11. CASE AskBars \/ AskHours
    <3>1. BarQuestion(asked') /\ asked'.about = "bars"
      BY <2>11, BarsCovered DEF BarQuestion
    <3> QED
      BY <3>1 DEF Covered
  <2>12. CASE AskBurn
    <3>1. asked' \in BurnQuestions
      BY <2>12, BurnCovered
    <3>2. asked'.about = "burn"
      BY <3>1 DEF BurnQuestions, BurnFor
    <3> QED
      BY <3>1, <3>2 DEF Covered
  <2> QED
    BY <2>1, <2>2, <2>3, <2>4, <2>5, <2>6, <2>7, <2>8, <2>9, <2>10, <2>11, <2>12 DEF Next
<1>3. Covered => SteadyRateMeasured /\ SeriesAgreesWithRow /\ LinesBridgeNothing /\ WarningsAgree
                   /\ EditsDoWhatTheySay /\ PageIsFaithful /\ CapIdentityStable
                   /\ NoCapLost /\ PressPicksWhatIsDrawn /\ BurnPlaced
  <2> SUFFICES ASSUME Covered
               PROVE  SteadyRateMeasured /\ SeriesAgreesWithRow /\ LinesBridgeNothing
                        /\ WarningsAgree
                        /\ EditsDoWhatTheySay /\ PageIsFaithful
                        /\ CapIdentityStable /\ NoCapLost
                        /\ PressPicksWhatIsDrawn /\ BurnPlaced
    OBVIOUS
  <2>1. SteadyRateMeasured
    BY SteadyCorrect DEF Covered, SteadyRateMeasured
  <2>2. SeriesAgreesWithRow
    BY SeriesCorrect DEF Covered, SeriesAgreesWithRow
  <2>3. WarningsAgree
    BY WarningsCorrect DEF Covered, WarningsAgree
  <2>4. EditsDoWhatTheySay
    BY EditsCorrect DEF Covered, EditsDoWhatTheySay
  <2>5. PageIsFaithful
    BY PageCorrect DEF Covered, PageIsFaithful
  <2>6. CapIdentityStable
    <3>1. asked \in NamedPayloads(NameWords) => asked \in PayloadQuestions(NameWords)
      BY DEF NamedPayloads
    <3> QED
      BY <3>1, CapsKeepTheirIds DEF Covered, CapIdentityStable
  <2>7. NoCapLost
    BY EveryCapReported DEF Covered, NoCapLost
  <2>8. PressPicksWhatIsDrawn
    <3>1. asked.about \in {"chart", "page", "bars"} => PressPicksWhatIsDrawn
      BY ChartsCorrect, BarsAndRulesCorrect DEF Covered
    <3>2. asked.about \notin {"chart", "page", "bars"} => PressPicksWhatIsDrawn
      BY DEF PressPicksWhatIsDrawn
    <3> QED
      BY <3>1, <3>2
  <2>9. BurnPlaced
    BY BurnCorrect DEF Covered, BurnPlaced
  <2>10. LinesBridgeNothing
    BY LinesCorrect DEF Covered, LinesBridgeNothing
  <2> QED
    BY <2>1, <2>2, <2>3, <2>4, <2>5, <2>6, <2>7, <2>8, <2>9, <2>10
<1> QED
  BY <1>1, <1>2, <1>3, PTL DEF Spec

=============================================================================
