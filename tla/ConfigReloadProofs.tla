------------------------- MODULE ConfigReloadProofs -------------------------
(***************************************************************************)
(* Proofs about ConfigReload, for any texts, edits, range and bounds.      *)
(***************************************************************************)
EXTENDS ConfigReload, TLAPS

-----------------------------------------------------------------------------
(* What an install leaves behind.                                          *)

StatusType ==
  /\ config \in [global : Accepted, provider : Accepted, enabled : {Unset, 0, 1}]
  /\ warnings \in BOOLEAN
  /\ error \in {"none", "unreadable", "invalid"}
  /\ generation \in Nat
  /\ accepted \in TextType

\* A text that parses has settings within the accepted range (config.rs
\* `parse`, `interval`).
LEMMA ParsedSettings ==
  ASSUME NEW text \in TextType, Parses(text)
  PROVE  Settings(text) \in [global : Accepted, provider : Accepted,
                             enabled : {Unset, 0, 1}]
BY ConfigReloadAssumption, SMT
   DEF Parses, InRange, Settings, TextType, Accepted, Unset

\* The empty text is a text, and parses.
LEMMA EmptyText ==
  /\ Empty \in TextType /\ Broken \in TextType
  /\ Parses(Empty)
<1>1. Empty \in TextType
  BY DEF Empty, TextType, Unset
<1>2. Broken \in TextType
  BY <1>1 DEF Broken, TextType
<1>3. Parses(Empty)
  BY DEF Empty, Parses, InRange
<1> QED
  BY <1>1, <1>2, <1>3

\* An edit of a text is a text (config.rs `apply_edit`).
LEMMA EditedText ==
  ASSUME NEW text \in TextType, NEW edit \in EditType
  PROVE  ApplyEdit(text, edit) \in TextType
<1>1. CASE edit.key = "global"
  BY <1>1, SMT DEF ApplyEdit, TextType, EditType, Unset
<1>2. CASE edit.key = "provider"
  BY <1>2, SMT DEF ApplyEdit, TextType, EditType, Unset
<1>3. CASE edit.key = "enabled"
  BY <1>3, SMT DEF ApplyEdit, TextType, EditType, Unset
<1> QED
  BY <1>1, <1>2, <1>3, SMT DEF EditType

\* Whatever text is installed, the status stays well-typed and its settings
\* and warnings stay those of one text (state.rs `install_config`).
LEMMA InstallKeeps ==
  ASSUME NEW text \in TextType, Install(text),
         StatusType, WarningsMatchSettings
  PROVE  StatusType' /\ WarningsMatchSettings'
<1>1. CASE Parses(text) /\ ApplyConfig(text)
  <2>1. StatusType'
    BY <1>1, ParsedSettings, SMT DEF ApplyConfig, StatusType, TextType
  <2> QED
    BY <1>1, <2>1 DEF ApplyConfig, WarningsMatchSettings
<1>2. CASE RejectConfig("invalid")
  <2>1. StatusType'
    BY <1>2, SMT DEF RejectConfig, StatusType
  <2> QED
    BY <1>2, <2>1 DEF RejectConfig, WarningsMatchSettings
<1> QED
  BY <1>1, <1>2 DEF Install

LEMMA RejectKeeps ==
  ASSUME NEW why \in {"unreadable", "invalid"}, RejectConfig(why),
         StatusType, WarningsMatchSettings
  PROVE  StatusType' /\ WarningsMatchSettings'
<1>1. StatusType'
  BY SMT DEF RejectConfig, StatusType
<1> QED
  BY <1>1 DEF RejectConfig, WarningsMatchSettings

-----------------------------------------------------------------------------
(* The status invariant: types, and settings and warnings of one text.     *)

SInv == TypeOK /\ WarningsMatchSettings

LEMMA TypeIsStatus == TypeOK => StatusType
BY DEF TypeOK, StatusType

\* The part of TypeOK that is not about the status.
RestType ==
  /\ file \in TextType
  /\ readable \in BOOLEAN
  /\ editor \in {"idle", "truncated", "orphaned"}
  /\ draft \in TextType
  /\ overlap \in BOOLEAN
  /\ daemon \in Stages
  /\ out \in TextType
  /\ watch \in WatchStates
  /\ pending \in BOOLEAN
  /\ seen \in TextType
  /\ reply \in {"none", "config", "err"}
  /\ spent \in [saves : Nat, requests : Nat, outages : Nat, crashes : Nat,
                noise : Nat]

LEMMA TypeParts == TypeOK <=> RestType /\ StatusType
BY DEF TypeOK, RestType, StatusType

LEMMA InitSInv == Init => SInv
<1> SUFFICES ASSUME Init PROVE SInv
  OBVIOUS
<1>1. Settings(Empty) \in [global : Accepted, provider : Accepted,
                           enabled : {Unset, 0, 1}]
  BY EmptyText, ParsedSettings
<1>2. RestType
  BY EmptyText, ConfigReloadAssumption
     DEF Init, RestType, Stages, WatchStates
<1>3. StatusType
  BY <1>1, EmptyText DEF Init, StatusType
<1>4. WarningsMatchSettings
  BY DEF Init, WarningsMatchSettings, Empty
<1> QED
  BY <1>2, <1>3, <1>4, TypeParts DEF SInv

\* The actions that leave the status alone.
Untouched == UNCHANGED status

LEMMA UntouchedKeeps ==
  ASSUME StatusType, WarningsMatchSettings, Untouched
  PROVE  StatusType' /\ WarningsMatchSettings'
BY DEF StatusType, WarningsMatchSettings, Untouched, status

LEMMA SpendType ==
  ASSUME RestType,
         NEW what \in {"saves", "requests", "outages", "crashes", "noise"},
         Spend(what)
  PROVE  spent' \in [saves : Nat, requests : Nat, outages : Nat,
                     crashes : Nat, noise : Nat]
<1>1. CASE what = "saves"
  BY <1>1, SMT DEF Spend, RestType
<1>2. CASE what = "requests"
  BY <1>2, SMT DEF Spend, RestType
<1>3. CASE what = "outages"
  BY <1>3, SMT DEF Spend, RestType
<1>4. CASE what = "crashes"
  BY <1>4, SMT DEF Spend, RestType
<1>5. CASE what = "noise"
  BY <1>5, SMT DEF Spend, RestType
<1> QED
  BY <1>1, <1>2, <1>3, <1>4, <1>5

\* Every step keeps the status and the rest well-typed.
LEMMA NextSInv == SInv /\ [Next]_vars => SInv'
<1> SUFFICES ASSUME SInv, [Next]_vars PROVE SInv'
  OBVIOUS
<1>a. RestType /\ StatusType /\ WarningsMatchSettings
  BY TypeParts DEF SInv
<1> SUFFICES RestType' /\ StatusType' /\ WarningsMatchSettings'
  BY TypeParts DEF SInv, TypeOK, RestType, StatusType
<1> USE DEF Stages, WatchStates, disk
<1>1. CASE ReadSeen
  <2>1. RestType'
    BY <1>1, <1>a, EmptyText DEF ReadSeen, RestType
  <2> QED
    BY <1>1, <1>a, <2>1, UntouchedKeeps DEF ReadSeen, Untouched
<1>2. CASE LoadInitial
  <2>1. RestType'
    BY <1>2, <1>a DEF LoadInitial, RestType
  <2>2. CASE readable /\ Install(file)
    BY <2>1, <2>2, <1>a, InstallKeeps DEF RestType
  <2>3. CASE RejectConfig("unreadable")
    BY <2>1, <2>3, <1>a, RejectKeeps
  <2> QED
    BY <1>2, <2>2, <2>3 DEF LoadInitial
<1>3. ASSUME NEW state \in {"idle", "off"}, StartWatching(state)
      PROVE  RestType' /\ StatusType' /\ WarningsMatchSettings'
  <2>1. RestType'
    BY <1>3, <1>a DEF StartWatching, RestType
  <2> QED
    BY <1>3, <1>a, <2>1, UntouchedKeeps DEF StartWatching, Untouched
<1>4. CASE WatchEvent
  <2>1. RestType'
    BY <1>4, <1>a DEF WatchEvent, RestType
  <2> QED
    BY <1>4, <1>a, <2>1, UntouchedKeeps DEF WatchEvent, Untouched
<1>5. CASE Settled
  <2>1. RestType'
    BY <1>5, <1>a DEF Settled, RestType
  <2> QED
    BY <1>5, <1>a, <2>1, UntouchedKeeps DEF Settled, Untouched
<1>6. CASE Reload
  <2>1. RestType'
    BY <1>6, <1>a DEF Reload, RestType
  <2>2. CASE UNCHANGED <<status, seen>>
    BY <1>a, <2>1, <2>2, UntouchedKeeps DEF Untouched
  <2>3. CASE Install(file)
    BY <2>1, <2>3, <1>a, InstallKeeps DEF RestType
  <2>4. CASE RejectConfig("unreadable") /\ UNCHANGED seen
    BY <2>1, <2>4, <1>a, RejectKeeps
  <2> QED
    BY <1>6, <2>2, <2>3, <2>4 DEF Reload
<1>7. CASE WriteDone
  <2>1. RestType'
    BY <1>7, <1>a DEF WriteDone, RestType, Notify
  <2>2. Install(out) /\ out \in TextType
    BY <1>7, <1>a DEF WriteDone, RestType
  <2> QED
    BY <2>1, <2>2, <1>a, InstallKeeps
<1>8. CASE WriteFails
  <2>1. RestType'
    BY <1>8, <1>a DEF WriteFails, RestType
  <2> QED
    BY <1>8, <1>a, <2>1, UntouchedKeeps DEF WriteFails, Untouched
<1>9. ASSUME NEW edit \in Edits, SetConfig(edit)
      PROVE  RestType' /\ StatusType' /\ WarningsMatchSettings'
  <2>1. spent' \in [saves : Nat, requests : Nat, outages : Nat,
                    crashes : Nat, noise : Nat]
    BY <1>9, <1>a, SpendType DEF SetConfig
  <2>2. ApplyEdit(file, edit) \in TextType
    BY <1>a, EditedText, ConfigReloadAssumption DEF RestType
  <2>3. RestType'
    BY <1>9, <1>a, <2>1, <2>2 DEF SetConfig, RestType
  <2> QED
    BY <1>9, <1>a, <2>3, UntouchedKeeps DEF SetConfig, Untouched
<1>10. ASSUME NEW text \in Texts, SaveByRename(text)
       PROVE  RestType' /\ StatusType' /\ WarningsMatchSettings'
  <2>1. spent' \in [saves : Nat, requests : Nat, outages : Nat,
                    crashes : Nat, noise : Nat]
    BY <1>10, <1>a, SpendType DEF SaveByRename
  <2>2. RestType'
    BY <1>10, <1>a, <2>1, ConfigReloadAssumption
       DEF SaveByRename, RestType, Notify
  <2> QED
    BY <1>10, <1>a, <2>2, UntouchedKeeps DEF SaveByRename, Untouched
<1>11. ASSUME NEW text \in Texts, NEW torn \in {Empty, Broken},
              SaveInPlace(text, torn)
       PROVE  RestType' /\ StatusType' /\ WarningsMatchSettings'
  <2>1. spent' \in [saves : Nat, requests : Nat, outages : Nat,
                    crashes : Nat, noise : Nat]
    BY <1>11, <1>a, SpendType DEF SaveInPlace
  <2>2. RestType'
    BY <1>11, <1>a, <2>1, EmptyText, ConfigReloadAssumption
       DEF SaveInPlace, RestType, Notify
  <2> QED
    BY <1>11, <1>a, <2>2, UntouchedKeeps DEF SaveInPlace, Untouched
<1>12. CASE FinishSave
  <2>1. RestType'
    BY <1>12, <1>a DEF FinishSave, RestType, Notify
  <2> QED
    BY <1>12, <1>a, <2>1, UntouchedKeeps DEF FinishSave, Untouched
<1>13. CASE Outage
  <2>1. spent' \in [saves : Nat, requests : Nat, outages : Nat,
                    crashes : Nat, noise : Nat]
    BY <1>13, <1>a, SpendType DEF Outage
  <2>2. RestType'
    BY <1>13, <1>a, <2>1 DEF Outage, RestType, Notify
  <2> QED
    BY <1>13, <1>a, <2>2, UntouchedKeeps DEF Outage, Untouched
<1>14. CASE OutageEnds
  <2>1. RestType'
    BY <1>14, <1>a DEF OutageEnds, RestType, Notify
  <2> QED
    BY <1>14, <1>a, <2>1, UntouchedKeeps DEF OutageEnds, Untouched
<1>15. CASE Noise
  <2>1. spent' \in [saves : Nat, requests : Nat, outages : Nat,
                    crashes : Nat, noise : Nat]
    BY <1>15, <1>a, SpendType DEF Noise
  <2>2. RestType'
    BY <1>15, <1>a, <2>1 DEF Noise, RestType, Notify
  <2> QED
    BY <1>15, <1>a, <2>2, UntouchedKeeps DEF Noise, Untouched
<1>16. CASE Crash
  <2>1. spent' \in [saves : Nat, requests : Nat, outages : Nat,
                    crashes : Nat, noise : Nat]
    BY <1>16, <1>a, SpendType DEF Crash
  <2>2. RestType'
    BY <1>16, <1>a, <2>1, EmptyText DEF Crash, RestType
  <2>3. StatusType'
    BY <1>16, EmptyText, ParsedSettings DEF Crash, StatusType
  <2>4. WarningsMatchSettings'
    BY <1>16 DEF Crash, WarningsMatchSettings, Empty
  <2> QED
    BY <2>2, <2>3, <2>4
<1>17. CASE UNCHANGED vars
  <2>1. RestType'
    BY <1>17, <1>a DEF vars, RestType
  <2> QED
    BY <1>17, <1>a, <2>1, UntouchedKeeps DEF vars, status, Untouched
<1> QED
  BY <1>1, <1>2, <1>3, <1>4, <1>5, <1>6, <1>7, <1>8, <1>9, <1>10, <1>11,
     <1>12, <1>13, <1>14, <1>15, <1>16, <1>17
     DEF Next, Daemon, Environment

LEMMA SpecSInv == Spec => []SInv
BY InitSInv, NextSInv, PTL DEF Spec

\* Every reachable state is well-typed: in particular the settings in effect
\* are always within the accepted range, whatever is in the file.
THEOREM TypeCorrect == Spec => []TypeOK
<1>1. SInv => TypeOK
  BY DEF SInv
<1> QED
  BY <1>1, SpecSInv, PTL

\* Settings and warnings are always those of one text, for any sequence of
\* loads, edits and rejections (state.rs `install_config`).
THEOREM WarningsCorrect == Spec => []WarningsMatchSettings
<1>1. SInv => WarningsMatchSettings
  BY DEF SInv
<1> QED
  BY <1>1, SpecSInv, PTL

\* The cadence in effect is always within the accepted range (config.rs
\* `interval`, `validate_edit`, Config::poll_interval).
THEOREM LimitsCorrect == Spec => []IntervalWithinLimits
<1>1. SInv => IntervalWithinLimits
  BY ConfigReloadAssumption, SMT
     DEF SInv, TypeOK, IntervalWithinLimits, PollInterval, Accepted, Unset
<1> QED
  BY <1>1, SpecSInv, PTL

-----------------------------------------------------------------------------
(* The watcher never overlooks a save.                                     *)

\* Before the watcher is registered nothing has changed since its text was
\* read, and afterwards every change left an event behind.
CInv ==
  /\ TypeOK
  /\ daemon \in {"boot", "seen", "discovering"} => watch = "off"
  /\ daemon \in {"seen", "discovering"} /\ readable => seen = file
  /\ watch = "idle" /\ ~pending /\ readable => seen = file

LEMMA InitCInv == Init => CInv
BY InitSInv DEF Init, CInv, SInv

\* A step that touches the file leaves an event behind, every other step
\* leaves the file alone.
LEMMA NextCInv ==
  ASSUME QuietStart = TRUE
  PROVE  CInv /\ TypeOK' /\ [Next]_vars => CInv'
<1> SUFFICES ASSUME CInv, TypeOK', [Next]_vars PROVE CInv'
  OBVIOUS
<1> USE DEF CInv, disk
<1>1. CASE ReadSeen
  BY <1>1 DEF ReadSeen
<1>2. CASE LoadInitial
  BY <1>2 DEF LoadInitial
<1>3. CASE \E state \in {"idle", "off"} : StartWatching(state)
  BY <1>3 DEF StartWatching
<1>4. CASE WatchEvent
  BY <1>4 DEF WatchEvent
<1>5. CASE Settled
  BY <1>5 DEF Settled
<1>6. CASE Reload
  BY <1>6 DEF Reload, TypeOK, Stages
<1>7. CASE WriteDone
  BY <1>7 DEF WriteDone, Notify
<1>8. CASE WriteFails
  BY <1>8 DEF WriteFails
<1>9. CASE \E edit \in Edits : SetConfig(edit)
  BY <1>9 DEF SetConfig, Idle
<1>10. CASE \E text \in Texts : SaveByRename(text)
  BY <1>10 DEF SaveByRename, Notify, Touchable
<1>11. CASE \E text \in Texts, torn \in {Empty, Broken} :
              SaveInPlace(text, torn)
  BY <1>11 DEF SaveInPlace, Notify, Touchable
<1>12. CASE FinishSave
  <2>1. daemon \in {"serving", "writing"} /\ UNCHANGED <<daemon, watch>>
    BY <1>12 DEF FinishSave, Touchable
  <2>2. CASE file' = draft /\ Notify
    BY <1>12, <2>1, <2>2 DEF FinishSave, Notify
  <2>3. CASE UNCHANGED <<file, pending>>
    BY <1>12, <2>1, <2>3 DEF FinishSave
  <2> QED
    BY <1>12, <2>2, <2>3 DEF FinishSave
<1>13. CASE Outage
  BY <1>13 DEF Outage, Notify, Touchable
<1>14. CASE OutageEnds
  BY <1>14 DEF OutageEnds, Notify, Touchable
<1>15. CASE Noise
  BY <1>15 DEF Noise, Notify
<1>16. CASE Crash
  BY <1>16 DEF Crash
<1>17. CASE UNCHANGED vars
  BY <1>17 DEF vars
<1> QED
  BY <1>1, <1>2, <1>3, <1>4, <1>5, <1>6, <1>7, <1>8, <1>9, <1>10, <1>11,
     <1>12, <1>13, <1>14, <1>15, <1>16, <1>17
     DEF Next, Daemon, Environment

\* If nobody touches the file while the daemon starts, the watcher has always
\* compared the newest text once it is idle (watch.rs `watch_config`).
THEOREM WatcherCaughtUp ==
  ASSUME QuietStart = TRUE
  PROVE  Spec => []CaughtUp
<1>1. CInv => CaughtUp
  BY DEF CInv, CaughtUp, Quiescent
<1> QED
  BY <1>1, InitCInv, NextCInv, TypeCorrect, PTL DEF Spec

-----------------------------------------------------------------------------
(* With the editor as the only writer, the file is in effect.              *)

\* The status is what installing the text gives.
Reflects(text) ==
  IF Parses(text) THEN config = Settings(text) /\ error = "none"
  ELSE error # "none"

\* While only the editor has touched the file, it is readable, no client writes
\* it, and the status reflects the text the watcher compares against.
Undisturbed ==
  /\ readable /\ daemon # "writing"
  /\ daemon \in {"discovering", "serving"} => Reflects(seen)

EInv == CInv /\ (OnlyTheEditor => Undisturbed)

LEMMA InstallReflects ==
  ASSUME NEW text, Install(text)
  PROVE  IF Parses(text) THEN config' = Settings(text) /\ error' = "none"
         ELSE error' # "none"
BY DEF Install, ApplyConfig, RejectConfig

\* Saves, noise and crashes leave it to the editor; a request and an outage do
\* not.
LEMMA SpendKeeps ==
  ASSUME TypeOK, NEW what \in {"saves", "noise", "crashes"}, Spend(what),
         OnlyTheEditor'
  PROVE  OnlyTheEditor
BY SMT DEF TypeOK, Spend, OnlyTheEditor

LEMMA SpendEnds ==
  ASSUME TypeOK, NEW what \in {"requests", "outages"}, Spend(what)
  PROVE  ~OnlyTheEditor'
BY SMT DEF TypeOK, Spend, OnlyTheEditor

LEMMA NextEInv ==
  ASSUME QuietStart = TRUE
  PROVE  EInv /\ CInv' /\ [Next]_vars => EInv'
<1> SUFFICES ASSUME EInv, CInv', [Next]_vars, OnlyTheEditor'
             PROVE  Undisturbed'
  BY DEF EInv
<1>a. TypeOK /\ (OnlyTheEditor => Undisturbed)
  BY DEF EInv, CInv
<1>b. ASSUME UNCHANGED <<status, seen>> PROVE Reflects(seen) => Reflects(seen)'
  BY <1>b DEF status, Reflects
<1>c. ASSUME UNCHANGED spent PROVE Undisturbed
  BY <1>a, <1>c DEF OnlyTheEditor
<1>d. ASSUME NEW what \in {"saves", "noise", "crashes"}, Spend(what)
      PROVE  Undisturbed
  BY <1>a, <1>d, SpendKeeps
<1>1. CASE ReadSeen
  BY <1>1, <1>c DEF Undisturbed, ReadSeen, disk
<1>2. CASE LoadInitial
  <2>1. Install(file) /\ seen = file /\ seen' = seen
    BY <1>2, <1>c DEF Undisturbed, EInv, CInv, LoadInitial
  <2>2. Reflects(seen)'
    BY <2>1, InstallReflects DEF Reflects
  <2> QED
    BY <1>2, <1>c, <2>2 DEF Undisturbed, LoadInitial, disk
<1>3. CASE \E state \in {"idle", "off"} : StartWatching(state)
  BY <1>3, <1>b, <1>c DEF Undisturbed, StartWatching, disk
<1>4. CASE WatchEvent
  BY <1>4, <1>b, <1>c DEF Undisturbed, WatchEvent, disk
<1>5. CASE Settled
  BY <1>5, <1>b, <1>c DEF Undisturbed, Settled
<1>6. CASE Reload
  <2>1. CASE UNCHANGED <<status, seen>>
    BY <1>6, <2>1, <1>b, <1>c DEF Undisturbed, Reload, disk
  <2>2. CASE Install(file) /\ seen' = file
    <3>1. Reflects(seen)'
      BY <2>2, InstallReflects DEF Reflects
    <3> QED
      BY <1>6, <1>c, <3>1 DEF Undisturbed, Reload, disk
  <2> QED
    BY <1>6, <1>c, <2>1, <2>2 DEF Undisturbed, Reload
<1>7. CASE WriteDone \/ WriteFails
  BY <1>7, <1>c DEF Undisturbed, WriteDone, WriteFails
<1>8. CASE \E edit \in Edits : SetConfig(edit)
  BY <1>8, <1>a, SpendEnds DEF SetConfig
<1>9. CASE \E text \in Texts : SaveByRename(text)
  BY <1>9, <1>b, <1>d DEF Undisturbed, SaveByRename
<1>10. CASE \E text \in Texts, torn \in {Empty, Broken} :
              SaveInPlace(text, torn)
  BY <1>10, <1>b, <1>d DEF Undisturbed, SaveInPlace
<1>11. CASE FinishSave
  BY <1>11, <1>b, <1>c DEF Undisturbed, FinishSave
<1>12. CASE Outage
  BY <1>12, <1>a, SpendEnds DEF Outage
<1>13. CASE OutageEnds
  BY <1>13, <1>c DEF Undisturbed, OutageEnds
<1>14. CASE Noise
  BY <1>14, <1>b, <1>d DEF Undisturbed, Noise, disk
<1>15. CASE Crash
  BY <1>15, <1>d DEF Undisturbed, Crash
<1>16. CASE UNCHANGED vars
  BY <1>16, <1>b, <1>c DEF Undisturbed, vars, status
<1> QED
  BY <1>1, <1>2, <1>3, <1>4, <1>5, <1>6, <1>7, <1>8, <1>9, <1>10, <1>11,
     <1>12, <1>13, <1>14, <1>15, <1>16
     DEF Next, Daemon, Environment

\* While only the editor has touched a file that was left alone during startup,
\* the file is in effect, or reported as invalid, whenever the watcher is idle:
\* no sequence of good and bad saves, of either kind, with or without crashes,
\* leaves old settings or a stale error behind (watch.rs `reload`).
THEOREM EditorSavesTakeEffect ==
  ASSUME QuietStart = TRUE
  PROVE  Spec => []SavesTakeEffect
<1>1. Init => EInv
  BY InitCInv DEF Init, EInv, Undisturbed
<1>2. EInv => SavesTakeEffect
  BY DEF EInv, Undisturbed, CInv, SavesTakeEffect, InEffect, Quiescent, Reflects
<1>3. EInv /\ TypeOK' /\ [Next]_vars => EInv'
  BY NextEInv, NextCInv DEF EInv
<1> QED
  BY <1>1, <1>2, <1>3, TypeCorrect, PTL DEF Spec

=============================================================================
