--------------------------- MODULE DisplayScreens ---------------------------
(***************************************************************************)
(* What the display shows (DisplayEngine/DisplayScheduler and the alarms   *)
(* page of DisplayPages): the pages in turn, with the alarms page among    *)
(* them while there is an alarm; the alarms page at once when an alarm is  *)
(* new, for the time of a hold; and screens that go before all of that,    *)
(* for the result of a reset, a firmware update and the set-up.            *)
(*                                                                         *)
(* One step is one update(), once per fast pass; times are in such steps.  *)
(* The clock of 32 bits is only ever compared by differences, so that they *)
(* are ages here.                                                          *)
(***************************************************************************)
EXTENDS Integers, FiniteSets

CONSTANTS Alarms,           \* number of alarms; an alarm is its bit
          PerSubPage,       \* DISPLAY_ALARMS_PER_SUBPAGE
          Pages,            \* pages without the alarms page
          Period,           \* what the setting of the rotation may be
          Hold, SubPage, ResetResult,    \* DISPLAY_ALARM_HOLD_MS, ...
          SetupSlot, SlotWrap            \* DISPLAY_SETUP_ALARM_SLOT; the wrap of _slotIndex

Alarm == 0..(Alarms - 1)
SubPages(set) == (Cardinality(set) + PerSubPage - 1) \div PerSubPage    \* alarmSubPageCount()

VARIABLES mask,       \* CommonState.alarms.activeMask
          ota, setup, \* CommonState: an update, the access point
          period,     \* the setting
          sched,      \* DisplayScheduler
          screen,     \* what the last update() put up
          unseen      \* history: steps since an alarm was on the screen

vars == <<mask, ota, setup, period, sched, screen, unseen>>

Longest == CHOOSE p \in Period : \A q \in Period : q <= p
Longer(a, b) == IF a > b THEN a ELSE b

\* An alarm waits for the other sub-pages of the round it was last in, for the other pages,
\* and for the other sub-pages of the next round.
Round == Pages * Longest
Lap == (SubPages(Alarm) - 1) * SubPage
Bound == Round + 2 * Lap
More(n, most) == IF n < most THEN n + 1 ELSE most

-----------------------------------------------------------------------------
(* Parts of update(). *)

\* subPageAt().
SubPageAt(age) == (age \div SubPage) % Longer(SubPages(mask), 1)

\* Mistake: the alarms page stays no longer than any other.
DwellOfAPage == period

\* alarmsDwell().
AlarmsDwell == Longer(SubPages(mask) * SubPage, period)

\* renderAlarmsPage(): the alarms of a sub-page.
Shown(sub) ==
  {a \in mask : LET before == Cardinality({b \in mask : b < a}) IN
                before >= sub * PerSubPage /\ before < (sub + 1) * PerSubPage}

AlarmsAt(age) == [name |-> "Alarms", page |-> 0, alarms |-> Shown(SubPageAt(age))]
Screen(name, page) == [name |-> name, page |-> page, alarms |-> {}]

Restart(s) == [s EXCEPT !.page = 0, !.onAlarms = FALSE, !.pageAge = 0, !.dwell = period]

\* The pages in turn, and the alarms page while there is an alarm.
InRotation(s) == IF mask # {} THEN Pages + 1 ELSE Pages

\* 9. Rotation.
Turned(s) ==
  LET next == (s.page + 1) % InRotation(s) IN
  IF s.pageAge < s.dwell THEN s
  ELSE [s EXCEPT !.page = next, !.onAlarms = next = Pages, !.pageAge = 0,
                 !.dwell = IF next = Pages THEN AlarmsDwell ELSE period]
Rotated(s) == Turned(IF s.onAlarms /\ mask = {} THEN Restart(s) ELSE s)

\* 6. Set-up: in every few slots the alarms, if there are any.
Slotted(s) ==
  IF s.override # "Setup" THEN [s EXCEPT !.slot = 0, !.slotAge = 0]
  ELSE IF s.slotAge >= period THEN [s EXCEPT !.slot = (@ + 1) % SlotWrap, !.slotAge = 0]
  ELSE s

\* What update() makes of the scheduler s, and the screen it puts up.
ResetScreen(s) ==
  /\ s.resetResult > 0
  /\ sched' = [s EXCEPT !.hold = -1, !.override = "ResetResult"]
  /\ screen' = Screen("ResetResult", 0)
OtaScreen(s) ==
  /\ s.resetResult = 0 /\ ota
  /\ sched' = [s EXCEPT !.hold = -1, !.override = "Ota"]
  /\ screen' = Screen("Ota", 0)
SetupScreen(s) ==
  /\ s.resetResult = 0 /\ ~ota /\ setup
  /\ \E t \in {[Slotted(s) EXCEPT !.hold = -1, !.override = "Setup"]} :
       /\ sched' = t
       /\ screen' = IF mask # {} /\ t.slot % SetupSlot = SetupSlot - 1 THEN AlarmsAt(t.slotAge)
                    ELSE Screen("Setup", 0)

\* 7., 8. After that the rotation begins anew; a new alarm is held, as long as there is one.
Freed(s) == IF s.override = "None" THEN s ELSE [Restart(s) EXCEPT !.override = "None"]
Held(s, rising) == IF rising # {} THEN [s EXCEPT !.hold = 0] ELSE s
Released(s) ==
  IF s.hold >= 0 /\ (mask = {} \/ s.hold >= Hold) THEN [Restart(s) EXCEPT !.hold = -1] ELSE s

PageScreen(s, rising) ==
  /\ s.resetResult = 0 /\ ~ota /\ ~setup
  /\ \E t \in {Released(Held(Freed(s), rising))} :
       IF t.hold >= 0 THEN sched' = t /\ screen' = AlarmsAt(t.hold)
       ELSE \E u \in {Rotated(t)} :
              /\ sched' = u
              /\ screen' = IF u.onAlarms THEN AlarmsAt(u.pageAge) ELSE Screen("Page", u.page)

\* The time since the last update has passed.
Aged(s) ==
  [s EXCEPT !.pageAge = More(@, Longer(s.dwell, Longest)), !.slotAge = More(@, Longest),
            !.hold = IF @ >= 0 THEN More(@, Hold) ELSE @, !.resetResult = IF @ > 0 THEN @ - 1 ELSE 0]

Update ==
  /\ \E s \in {[Aged(sched) EXCEPT !.prev = mask]} :
       ResetScreen(s) \/ OtaScreen(s) \/ SetupScreen(s) \/ PageScreen(s, mask \ sched.prev)
  /\ unseen' = [a \in Alarm |->
                  IF a \in mask /\ mask = sched.prev /\ screen'.name \in {"Page", "Alarms"}
                     /\ a \notin screen'.alarms /\ ~setup
                  THEN More(unseen[a], Bound + 1) ELSE 0]
  /\ UNCHANGED <<mask, ota, setup, period>>

-----------------------------------------------------------------------------
(* What the others do between two updates. *)

AlarmChange ==
  /\ \E a \in Alarm : mask' = IF a \in mask THEN mask \ {a} ELSE mask \cup {a}
  /\ UNCHANGED <<ota, setup, period, sched, screen, unseen>>

StateChange ==
  /\ \/ ota' = ~ota /\ UNCHANGED <<setup, period>>
     \/ setup' = ~setup /\ UNCHANGED <<ota, period>>
     \/ period' \in Period \ {period} /\ UNCHANGED <<ota, setup>>
  /\ UNCHANGED <<mask, sched, screen, unseen>>

\* begin(); the first update() starts the clocks of the first page.
Init ==
  /\ mask \in SUBSET Alarm /\ ota = FALSE /\ setup \in BOOLEAN /\ period \in Period
  /\ \E result \in {0, ResetResult + 1} :
       sched = [page |-> 0, onAlarms |-> FALSE, pageAge |-> -1, dwell |-> period, hold |-> -1,
                prev |-> {}, resetResult |-> result, slot |-> 0, slotAge |-> 0, override |-> "None"]
  /\ screen = Screen("Page", 0)
  /\ unseen = [a \in Alarm |-> 0]

Next == Update \/ AlarmChange \/ StateChange

Spec == Init /\ [][Next]_vars

-----------------------------------------------------------------------------
(* Properties. *)

\* Every alarm comes round: while the alarms stay as they are and nothing goes before the
\* pages, no alarm is off the screen for longer than the other pages take, and twice the
\* other alarms: they may all be shown after it before its page is left, and before it on
\* the next round.
AlarmsComeRound == \A a \in Alarm : unseen[a] <= Bound

-----------------------------------------------------------------------------
(* The inductive invariant behind it.                                      *)

ScreensAssumption ==
  /\ {Alarms, PerSubPage, Pages, SubPage, SetupSlot, SlotWrap} \subseteq Nat \ {0}
  /\ {Hold, ResetResult} \subseteq Nat
  /\ Period \subseteq Nat \ {0} /\ \E p \in Period : \A q \in Period : q <= p
  /\ SubPages(Alarm) * SubPage <= Hold      \* a hold shows every alarm

\* The sub-page of an alarm, where the alarms are those of a set.
SubPageOf(set, a) == Cardinality({b \in set : b < a}) \div PerSubPage

\* How long an alarm of sub-page `own` of `all` has not been shown, `rest` steps into the
\* x-th sub-page since the alarms page came up: on its own sub-page it is shown; after that,
\* for the time since; before that, for what was left of the round before, or since the
\* lap before.
Waited(own, all, x, rest, wait) ==
  LET at == x % all IN
  /\ at = own => wait = 0
  /\ at > own => wait <= (at - own - 1) * SubPage + rest + 1
  /\ at < own /\ x < all => wait <= Lap + Round + at * SubPage + rest + 1
  /\ at < own /\ x >= all => wait <= (all - 1 - own + at) * SubPage + rest + 1

OnAlarms(age) ==
  \A a \in sched.prev : Waited(SubPageOf(sched.prev, a), SubPages(sched.prev), age \div SubPage,
                               age % SubPage, unseen[a])

Scheduler ==
  [page : 0..Pages, onAlarms : BOOLEAN, pageAge : Int, dwell : Nat \ {0}, hold : Int,
   prev : SUBSET Alarm, resetResult : Nat, slot : Nat, slotAge : Nat,
   override : {"None", "Setup", "Ota", "ResetResult"}]

SchedFits ==
  /\ mask \subseteq Alarm /\ ota \in BOOLEAN /\ setup \in BOOLEAN /\ period \in Period
  /\ sched \in Scheduler
  /\ unseen \in [Alarm -> Nat]
  /\ sched.onAlarms <=> sched.page = Pages
  /\ sched.override # "None" => sched.hold < 0

\* Only an alarm that was there at the last update, while the pages turn, has waited.
WaitFits == \A a \in Alarm : a \notin sched.prev \/ sched.override # "None" => unseen[a] = 0

HoldFits == sched.hold >= 0 => sched.hold < Hold /\ sched.prev # {} /\ OnAlarms(sched.hold)

\* The alarms page stays for a lap at least; a page before it, for its period, and an alarm
\* has waited for the pages before.
AlarmsFit ==
  sched.hold < 0 /\ sched.override = "None" /\ sched.onAlarms =>
    /\ sched.prev # {} /\ sched.pageAge >= 0 /\ sched.pageAge < sched.dwell
    /\ sched.dwell >= SubPages(sched.prev) * SubPage /\ OnAlarms(sched.pageAge)
PageFits ==
  sched.hold < 0 /\ sched.override = "None" /\ ~sched.onAlarms =>
    /\ sched.dwell \in Period /\ sched.pageAge < sched.dwell /\ sched.pageAge >= -1
    /\ \A a \in sched.prev : unseen[a] <= Lap + sched.page * Longest + sched.pageAge + 1

ScreensFit == SchedFits /\ WaitFits /\ HoldFits /\ AlarmsFit /\ PageFits
=============================================================================
