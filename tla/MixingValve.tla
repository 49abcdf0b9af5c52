----------------------------- MODULE MixingValve -----------------------------
(***************************************************************************)
(* The mixing valve K1 of the heating controller: the position estimate,   *)
(* the control modes and the recalibration (K1Logic, K1Math), the step     *)
(* test that measures the plant (K1StepTest), the slow pass of the runtime *)
(* that ties them to the pulse driver, and the anti-seize stroke that      *)
(* borrows the driver while the pump P4 is off.                            *)
(*                                                                         *)
(* The loop makes a fast pass every time unit and a slow pass every        *)
(* SlowPeriod.  Positions are measured in time units of travel.  Outside   *)
(* the code are the valve, whose true position is `valve`, the readings,   *)
(* the pump relay and the inhibit of firmware updates.                     *)
(*                                                                         *)
(* Abstracted: the settings are constants; the 5 minutes of history that   *)
(* precede a test are the Boolean `steady` of the readings, and the tuning *)
(* a test suggests is left out.                                            *)
(***************************************************************************)
EXTENDS Integers, Ages

CONSTANTS DeadTime, MaxPulse,   \* of the driver
          SlowPeriod,           \* CORE_LOOP_PERIOD_MS
          Lock,                 \* relayLock, as far as P4 is concerned
          Travel, Overdrive,    \* k1Travel, k1Resync
          RecalSlack,           \* a recalibration may end this much short
          MinPulse, MaxFeedback, Gain, Deadband, Period, \* k1...
          FailPos, FfStep, SmallDiff,
          H2Set,
          StepPulse,            \* k1StepPulse
          MoveBand, SettleBand, H3Band, SettleTime, Observe, \* STEP_...
          Readings,             \* per plant: what the runtime may see in a slow pass
          MaxUpdates,           \* bound of the model: inhibits of one behaviour
          Plants                \* what happens beside control: see Plant

Recal == Travel + Overdrive     \* k1RecalMs()

\* Bound of the model: an instance has strokes of the anti-seize scheduler, or
\* step tests.  (A stroke needs the pump off, a test needs it on.)
Plant == {"exercised", "tested"}

Reading == [heating : BOOLEAN, p4 : BOOLEAN, steady : BOOLEAN, h1 : Int, h2 : Int, h3 : Int,
            health : [h1 : {"Ok", "Failed", "Pending"}, h2 : {"Ok", "Failed", "Pending"},
                      h3 : {"Ok", "Failed", "Pending"}]]

\* The ranges of the settings (k1Resync is at least 5 % of 30 s or more, the
\* slack 1 s), times to settle and to observe longer than any step pulse, and a
\* dead time (the two of a reversal, at least) that no slow pass falls short of:
\* both are a second.
MixingValveAssumption ==
  /\ SlowPeriod <= 2 * DeadTime
  /\ {H2Set, MoveBand, SettleBand, H3Band, FfStep} \subseteq Int /\ SmallDiff \in Nat
  /\ \A p \in Plants : Readings[p] \subseteq Reading
  /\ {DeadTime, MaxPulse, SlowPeriod, Travel, MinPulse, MaxFeedback, Period, StepPulse} \subseteq Nat \ {0}
  /\ {Lock, MaxUpdates, Overdrive, RecalSlack, Gain, Deadband, SettleTime, Observe} \subseteq Nat
  /\ Overdrive >= RecalSlack
  /\ MaxPulse >= Recal
  /\ FailPos \in 0..Travel
  /\ MaxFeedback >= MinPulse
  /\ SettleTime > StepPulse + 2 * DeadTime + SlowPeriod
  /\ Observe > StepPulse + 2 * DeadTime
  /\ Plants \subseteq Plant

VARIABLES plant,
          k1,           \* the driver
          valve,        \* the true position
          logic,        \* K1Logic
          test,         \* K1StepTest and the runtime's two latches
          stroke,       \* the anti-seize stroke
          seen,         \* the readings of the last slow pass
          p4,           \* the pump relay
          held,         \* the outputs are inhibited
          updates,      \* how often they have been
          at, since,    \* the loop: the pass to come, time since the slow one
          drive         \* history: what the motor did since the test began

vars == <<plant, k1, valve, logic, test, stroke, seen, p4, held, updates, at, since, drive>>

K1 == INSTANCE K1Driver WITH Durations <- 0..MaxPulse, MaxGap <- 1, StartsMod <- 2,
                             AgeCap <- DeadTime, MaxTravel <- 0,
                             sinceTick <- 0, travelled <- 0

Mode == {"Unknown", "Recalibrating", "Closed", "Wait", "Normal", "FeedbackOnly",
         "FeedforwardOnly", "FailPosFeedback", "FailPosFixed"}
Failed(r) == {h \in {"h1", "h2", "h3"} : r.health[h] = "Failed"}
AllOk(r) == \A h \in {"h1", "h2", "h3"} : r.health[h] = "Ok"

\* Fields of the driver nobody reads here.
Plain(k) == [k EXCEPT !.starts = 0, !.hasMoved = FALSE, !.sinceMove = 0]

-----------------------------------------------------------------------------
(* K1Math. *)

Between(low, v, high) == IF v < low THEN low ELSE IF v > high THEN high ELSE v
Abs(v) == IF v < 0 THEN -v ELSE v

NoMove == [dir |-> "close", ms |-> 0]
Close(ms) == [dir |-> "close", ms |-> ms]
Open(ms) == [dir |-> "open", ms |-> ms]
ToEnd(from, open) == IF open THEN Open(Travel - from + Overdrive) ELSE Close(from + Overdrive)

Integrated(pct, motion) == Between(0, pct + motion["open"] - motion["close"], Travel)

FeedforwardTarget(r) ==
  IF r.h3 - r.h1 <= SmallDiff THEN Travel
  ELSE Between(0, ((H2Set - r.h1) * Travel) \div (r.h3 - r.h1), Travel)

PlanMoveTo(from, target) ==
  CASE target <= 0 -> IF from <= 0 THEN NoMove ELSE ToEnd(from, FALSE)
    [] target >= Travel -> IF from >= Travel THEN NoMove ELSE ToEnd(from, TRUE)
    [] OTHER -> IF Abs(target - from) < MinPulse THEN NoMove
                ELSE IF target > from THEN Open(target - from) ELSE Close(from - target)

\* Mistake: a valve at its end is driven on against the stop.
PlanFeedbackOn(from, r) ==
  LET err == H2Set - r.h2
  IN IF Abs(err) <= Deadband THEN NoMove ELSE ToEnd(from, err > 0)

PlanFeedback(from, r) ==
  LET err == H2Set - r.h2
      ms == Between(0, Gain * Abs(err), MaxFeedback)
      end == IF err > 0 THEN Travel ELSE 0
  IN CASE Abs(err) <= Deadband \/ ms < MinPulse \/ from = end -> NoMove
       [] Abs(end - from) <= ms -> ToEnd(from, err > 0)
       [] OTHER -> IF err > 0 THEN Open(ms) ELSE Close(ms)

-----------------------------------------------------------------------------
(* K1Logic. *)

\* reset().
ResetLogic ==
  [known |-> FALSE, pct |-> 0, booted |-> FALSE, recal |-> FALSE, closed |-> 0,
   mode |-> "Unknown", ff |-> FALSE, x |-> 0, anchored |-> FALSE,
   needEval |-> TRUE, sinceEval |-> 0,
   p4 |-> FALSE, heating |-> FALSE, held |-> FALSE, hold |-> FALSE]

\* selectMode() with computeFailMode().
SelectMode(r, p4Running) ==
  CASE ~r.heating -> "Closed"
    [] r.heating /\ \E a, b \in Failed(r) : a # b -> "FailPosFixed"
    [] OTHER ->
       IF ~p4Running THEN "Closed"
       ELSE CASE "h3" \in Failed(r) -> "FailPosFeedback"
              [] "h2" \in Failed(r) -> IF r.health.h1 = "Ok" /\ r.health.h3 = "Ok"
                                       THEN "FeedforwardOnly" ELSE "Wait"
              [] "h1" \in Failed(r) -> IF r.health.h2 = "Ok" THEN "FeedbackOnly" ELSE "Wait"
              [] OTHER -> IF r.health.h1 = "Ok" /\ r.health.h2 = "Ok" THEN "Normal" ELSE "Wait"

\* Step 1: the motion since the last pass; opening spoils a recalibration.
\* Mistake: it does not.
MovedKeeping(l, motion) ==
  [l EXCEPT !.pct = Integrated(@, motion),
            !.closed = IF ~l.recal THEN @ ELSE @ + motion["close"]]

Moved(l, motion) ==
  [l EXCEPT !.pct = Integrated(@, motion),
            !.closed = IF ~l.recal THEN @
                       ELSE IF motion["open"] > 0 THEN 0 ELSE @ + motion["close"]]

\* Step 2.
Triggered(l, in) == ~l.booted \/ (l.p4 /\ ~in.r.p4) \/ (l.heating /\ ~in.r.heating)
RecalStarts(l, in) == Triggered(l, in) /\ ~l.recal
CloseAtOnce(l, in) == RecalStarts(l, in) /\ ~in.held /\ ~in.owned

\* (What is not read again before it is set is reset: x, sinceEval, closed.)
Rearm(l) == [l EXCEPT !.ff = FALSE, !.x = 0, !.needEval = TRUE, !.sinceEval = 0]

\* Steps 2 and 3: the start, and what the end of an inhibit or a hold re-arms.
Prepared(l, in) ==
  LET started == [l EXCEPT !.booted = TRUE, !.recal = @ \/ Triggered(l, in),
                           !.closed = IF RecalStarts(l, in) THEN 0 ELSE @]
  IN IF (l.held /\ ~in.held) \/ (l.hold /\ ~in.hold) THEN Rearm(started) ELSE started

CanMove(in) == ~in.busy /\ ~in.held /\ ~in.owned

\* Step 4.
RecalIsOver(l) == l.closed + RecalSlack > Recal
Recalibrated(l) == [l EXCEPT !.pct = 0, !.known = TRUE, !.recal = FALSE, !.closed = 0]

\* Step 5.
Enter(l, mode) == IF mode = l.mode THEN l
                  ELSE [Rearm(l) EXCEPT !.mode = mode, !.anchored = FALSE]

Evaluated(l) == [l EXCEPT !.needEval = FALSE, !.sinceEval = 0]

\* Step 6: the command, and the logic after it.
Evaluate(l, r) ==
  LET x == FeedforwardTarget(r)
      forward == l.mode \in {"Normal", "FeedforwardOnly"}
      applied == [Evaluated(l) EXCEPT !.ff = TRUE, !.x = x]
  IN IF forward /\ (~l.ff \/ Abs(x - l.x) >= FfStep)
     THEN [logic |-> applied, cmd |-> PlanMoveTo(l.pct, x)]
     ELSE [logic |-> Evaluated(l),
           cmd |-> IF l.mode = "FeedforwardOnly" \/ r.health.h2 # "Ok"
                   THEN NoMove ELSE PlanFeedback(l.pct, r)]

Control(l, in) ==
  LET idle == [logic |-> l, cmd |-> NoMove]
  IN CASE ~CanMove(in) \/ l.mode = "Wait" -> idle
       [] CanMove(in) /\ l.mode = "Closed" -> [logic |-> l, cmd |-> PlanMoveTo(l.pct, 0)]
       [] CanMove(in) /\ l.mode = "FailPosFixed" ->
            [logic |-> l, cmd |-> PlanMoveTo(l.pct, FailPos)]
       [] CanMove(in) /\ l.mode = "FailPosFeedback" /\ ~l.anchored ->
            [logic |-> [Evaluated(l) EXCEPT !.anchored = TRUE],
             cmd |-> PlanMoveTo(l.pct, FailPos)]
       [] OTHER -> IF in.hold \/ (~l.needEval /\ l.sinceEval < Period) THEN idle
                   ELSE Evaluate(l, in.r)

\* update(): a recalibration owns the valve; otherwise the mode decides.
Decide(l, in) ==
  LET ready == Prepared(Moved(l, in.motion), in)
      going == [ready EXCEPT !.mode = "Recalibrating"]
      free == IF ready.recal THEN Recalibrated(ready) ELSE ready
      d == IF ready.recal /\ ~RecalIsOver(ready)
           THEN [logic |-> going,
                 cmd |-> IF CloseAtOnce(l, in) THEN Close(Recal)
                         ELSE IF CanMove(in) THEN Close(Recal - ready.closed) ELSE NoMove]
           ELSE Control(Enter(free, SelectMode(in.r, in.p4Running)), in)
  IN [d EXCEPT !.logic.p4 = in.r.p4, !.logic.heating = in.r.heating,
               !.logic.held = in.held, !.logic.hold = in.hold]

-----------------------------------------------------------------------------
(* K1StepTest, in the same pass, on the decision d just made. *)

NoTest == [running |-> FALSE, start |-> FALSE, cancel |-> FALSE, may |-> FALSE,
           age |-> 0, h2 |-> 0, h3 |-> 0, dead |-> FALSE,
           window |-> 0, low |-> 0, high |-> 0, last |-> "None"]

\* evaluateBlock(): no reason against a start.
MayStart(t, in, d) ==
  /\ ~t.running /\ in.r.heating /\ ~in.held /\ in.r.p4 /\ in.p4Running /\ ~in.owned
  /\ AllOk(in.r)
  /\ d.logic.mode = "Normal" /\ d.logic.known
  /\ ~in.busy /\ d.cmd.ms = 0
  /\ d.logic.pct + StepPulse < Travel
  /\ in.r.steady

\* abortReason().
\* Mistake: a test goes on over the pump's stopping.
MustAbortNot(t, in, d, recalStarts) == t.cancel \/ ~in.r.heating \/ ~AllOk(in.r)
MustAbort(t, in, d, recalStarts) ==
  \/ t.cancel \/ ~in.r.heating \/ in.held \/ ~(in.r.p4 /\ in.p4Running) \/ in.owned
  \/ recalStarts
  \/ ~AllOk(in.r) \/ d.logic.mode # "Normal"
  \/ Abs(in.r.h3 - t.h3) > H3Band

Window(t, h2) == [t EXCEPT !.window = 0, !.low = h2, !.high = h2]

\* The first movement ends the dead time; then the window that must stay narrow.
Measured(t, h2) ==
  LET wider == [t EXCEPT !.low = IF h2 < @ THEN h2 ELSE @,
                         !.high = IF h2 > @ THEN h2 ELSE @]
  IN IF ~t.dead
     THEN IF Abs(h2 - t.h2) >= MoveBand THEN [Window(t, h2) EXCEPT !.dead = TRUE] ELSE t
     ELSE IF wider.high - wider.low >= SettleBand THEN Window(t, h2) ELSE wider

Settled(t, m) == t.dead /\ m.window >= SettleTime

End(t, outcome) == [NoTest EXCEPT !.last = outcome]

Go(t, in) == [Window(NoTest, in.r.h2) EXCEPT !.running = TRUE, !.last = t.last,
                                              !.h2 = in.r.h2, !.h3 = in.r.h3]

\* update(), without the pulse: the latches are used up by the pass.
StepTest(t, in, d, recalStarts) ==
  LET m == Measured(t, in.r.h2)
      over == Settled(t, m) \/ t.age >= Observe
      quiet == [t EXCEPT !.start = FALSE, !.cancel = FALSE]
      after == CASE t.running /\ MustAbort(t, in, d, recalStarts) -> End(t, "Aborted")
                 [] t.running /\ ~MustAbort(t, in, d, recalStarts) /\ over ->
                      End(t, IF m.dead /\ in.r.h2 > t.h2 THEN "Result" ELSE "NoResponse")
                 [] t.running /\ ~MustAbort(t, in, d, recalStarts) /\ ~over -> m
                 [] OTHER -> IF t.start /\ MayStart(t, in, d) THEN Go(t, in) ELSE quiet
  IN [after EXCEPT !.cancel = FALSE, !.may = MayStart(after, in, d)]

-----------------------------------------------------------------------------
(* The anti-seize stroke: hw.tick() of a slow pass, before the controller. *)

StrokeStep(s, k, due) ==
  LET busy == K1!Busy(k)
      ours == K1!OwnerOf(k) = "AntiSeize"
  IN CASE s = "none" -> IF due /\ ~p4.on /\ ~busy
                        THEN [stroke |-> "open", k1 |-> K1!RequestPulse(k, "open", Recal, "AntiSeize")]
                        ELSE [stroke |-> s, k1 |-> k]
       [] s # "none" /\ busy /\ ~ours -> [stroke |-> "none", k1 |-> k]
       [] s # "none" /\ busy /\ ours ->
            IF p4.on THEN [stroke |-> "none", k1 |-> K1!Cancel(k)] ELSE [stroke |-> s, k1 |-> k]
       [] OTHER -> IF ~p4.on /\ s = "open"
                   THEN [stroke |-> "close", k1 |-> K1!RequestPulse(k, "close", Recal, "AntiSeize")]
                   ELSE [stroke |-> "none", k1 |-> k]

-----------------------------------------------------------------------------
(* The loop. *)

Fresh == /\ \E up \in {0, DeadTime} : k1' = Plain(K1!AtRest(up))
         /\ logic' = ResetLogic /\ test' = NoTest /\ stroke' = "none"
         /\ p4' = [on |-> FALSE, age |-> 0] /\ held' = FALSE /\ UNCHANGED updates
         /\ at' = "slow" /\ since' = 0

Init == /\ plant \in Plants
        /\ k1 = Plain(K1!AtRest(0)) /\ logic = ResetLogic /\ test = NoTest
        /\ stroke = "none" /\ p4 = [on |-> FALSE, age |-> 0] /\ held = FALSE /\ updates = 0
        /\ at = "slow" /\ since = 0
        /\ valve \in 0..Travel
        /\ seen \in Readings[plant]
        /\ drive = [open |-> 0, close |-> 0]

\* RelayBank.update() of the pump: its request, no earlier than the lock.
Followed(relay, request) ==
  IF relay.on # request /\ relay.age >= Lock THEN [on |-> request, age |-> 0] ELSE relay

P4Followed(relay, request) == IF held THEN relay ELSE Followed(relay, request)

\* handleCommand(), before the pass: Start against the last block, Cancel.
StartTest == /\ plant = "tested" /\ at = "slow"
             /\ ~test.running /\ ~test.start /\ test.may
             /\ test' = [test EXCEPT !.start = TRUE]
             /\ UNCHANGED <<plant, k1, valve, logic, stroke, seen, p4, held, updates, at, since, drive>>

CancelTest == /\ at = "slow" /\ (test.running \/ test.start)
              /\ test' = [test EXCEPT !.cancel = test.running, !.start = FALSE]
              /\ UNCHANGED <<plant, k1, valve, logic, stroke, seen, p4, held, updates, at, since, drive>>

\* HwRuntime's part of a pass: the driver ticks, or is cancelled while held off.
Ticked(k) == IF ~held THEN K1!Tick(k) ELSE IF K1!Busy(k) THEN K1!Cancel(k) ELSE k

Pulsed(k, cmd) == K1!RequestPulse(k, cmd.dir, cmd.ms, "Control")

\* What the runtime gathers for the controller.
Inputs(r, k, relay) ==
  [r |-> r, p4Running |-> r.p4 /\ relay.on, motion |-> k.motion,
   busy |-> K1!Busy(k), owned |-> K1!OwnerOf(k) = "AntiSeize",
   held |-> held, hold |-> test.running]

\* hw.tick() and ctl.tick().
SlowPass ==
  /\ at = "slow" /\ at' = "fast" /\ since' = 0
  /\ seen' \in Readings[plant]
  /\ \E due \in (IF plant = "exercised" THEN BOOLEAN ELSE {FALSE}) :
     \E hw \in {IF held THEN [stroke |-> stroke, k1 |-> k1] ELSE StrokeStep(stroke, k1, due)} :
     \E k \in {Ticked(hw.k1)}, relay \in {P4Followed(p4, logic.p4)} :
     \E in \in {Inputs(seen', k, relay)} :
     \E d \in {Decide(logic, in)} :
     \E t \in {StepTest(test, in, d, RecalStarts(logic, in))} :
       /\ stroke' = hw.stroke
       /\ p4' = relay
       /\ logic' = d.logic
       /\ test' = t
       /\ k1' = Plain(Pulsed(Pulsed(K1!TakeMotion(k), d.cmd),
                            IF t.running /\ ~test.running THEN Open(StepPulse) ELSE NoMove))
       /\ drive' = IF t.running /\ ~test.running THEN [open |-> 0, close |-> 0] ELSE drive
  /\ UNCHANGED <<plant, valve, held, updates>>

\* setOutputsInhibited(): at once, all relays off.
Dropped == IF p4.on THEN [on |-> FALSE, age |-> 0] ELSE p4

Update == ~held /\ updates < MaxUpdates /\ updates' = updates + 1

\* net.fastTick() and hw.fastTick(): the inhibit changes, even both ways in one
\* call of an update that starts and fails; then the driver ticks.
FastPass ==
  /\ at = "fast" /\ at' = "pause"
  /\ \/ /\ k1' = Plain(Ticked(k1))
        /\ p4' = P4Followed(p4, logic.p4)
        /\ UNCHANGED <<held, updates>>
     \/ /\ Update /\ held' = TRUE
        /\ k1' = Plain(K1!Cancel(k1))
        /\ p4' = Dropped
     \/ /\ held /\ held' = FALSE /\ UNCHANGED updates
        /\ k1' = Plain(K1!Tick(k1))
        /\ p4' = Followed(p4, logic.p4)
     \/ /\ Update /\ UNCHANGED held
        /\ k1' = Plain(K1!Tick(K1!Cancel(k1)))
        /\ p4' = P4Followed(Dropped, logic.p4)
  /\ UNCHANGED <<plant, valve, logic, test, stroke, seen, since, drive>>

Elapse ==
  /\ at = "pause"
  /\ since' = since + 1
  /\ at' = IF since + 1 = SlowPeriod THEN "slow" ELSE "fast"
  /\ k1' = Plain(K1!Aged(k1, 1))
  /\ valve' = IF ~k1.power THEN valve
              ELSE Between(0, IF k1.dirOpen THEN valve + 1 ELSE valve - 1, Travel)
  /\ drive' = IF ~(k1.power /\ test.running) THEN drive
              ELSE IF k1.dirOpen THEN [drive EXCEPT !.open = @ + 1]
                                 ELSE [drive EXCEPT !.close = @ + 1]
  /\ p4' = [p4 EXCEPT !.age = Older(@, 1, Lock)]
  /\ logic' = [logic EXCEPT !.sinceEval = IF logic.needEval THEN 0
                                            ELSE Older(@, 1, Period)]
  /\ test' = IF ~test.running THEN test
             ELSE [test EXCEPT !.age = Older(@, 1, Observe),
                               !.window = IF test.dead THEN Older(@, 1, SettleTime) ELSE 0]
  /\ UNCHANGED <<plant, stroke, seen, held, updates>>

Restart == /\ Fresh /\ UNCHANGED <<plant, valve, seen>>
           /\ drive' = [open |-> 0, close |-> 0]

Next == StartTest \/ CancelTest \/ SlowPass \/ FastPass \/ Elapse \/ Restart

\* The loop task never stops: it goes from place to place.  Nothing is assumed of its
\* surroundings.
Moves == at' \in {"slow", "fast", "pause"}
Spec == Init /\ [][Next]_vars /\ WF_at(Moves)

-----------------------------------------------------------------------------
(* Properties. *)

\* Where the valve is if it was at `from` when the motion was last taken: it has made
\* the motion not yet taken, and the run under way.
Underway(k) == IF ~k.running THEN 0 ELSE IF k.runDir = "open" THEN k.ran ELSE -k.ran
Place(k, from) ==
  Between(0, Between(0, from + k.motion["open"] - k.motion["close"], Travel) + Underway(k), Travel)

\* K1Logic, D6: once the position is known it is the true one, through the end
\* stops, cancelled pulses, reversals, strokes that are not the controller's,
\* firmware updates and interrupted recalibrations.
EstimateIsTrue == logic.known => Place(k1, logic.pct) = valve

\* K1StepTest: a result is measured on the whole pulse and on nothing else: said of
\* a step.
ResultIsOfThePulse ==
  test.running /\ ~test'.running /\ test'.last = "Result"
    => drive = [open |-> StepPulse, close |-> 0]

\* When the surroundings stand still (Quiet for good, Steady in every step) the valve
\* comes to stand too, wherever the mode wants it: no hunting, no recalibration that
\* never ends.
Quiet == ~held /\ stroke = "none" /\ ~test.running
Steady == seen' = seen /\ p4.on' = p4.on /\ ~Restart
Rests == /\ ~K1!Busy(k1)
         /\ logic.mode = "Closed" => valve = 0
         /\ logic.mode = "FailPosFixed" => Abs(valve - FailPos) < MinPulse
ValveComesToRest == <>[]Quiet /\ <>[][Steady]_vars => <>[]Rests

-----------------------------------------------------------------------------
(* The inductive invariant behind EstimateIsTrue.                          *)

Logic == [known : BOOLEAN, pct : 0..Travel, booted : BOOLEAN, recal : BOOLEAN, closed : Nat,
          mode : Mode, ff : BOOLEAN, x : Int, anchored : BOOLEAN, needEval : BOOLEAN,
          sinceEval : Nat, p4 : BOOLEAN, heating : BOOLEAN, held : BOOLEAN, hold : BOOLEAN]

Test == [running : BOOLEAN, start : BOOLEAN, cancel : BOOLEAN, may : BOOLEAN, age : Nat,
         h2 : Int, h3 : Int, dead : BOOLEAN, window : Nat, low : Int, high : Int,
         last : {"None", "Aborted", "Result", "NoResponse"}]

TypeFits ==
  /\ plant \in Plants /\ k1 \in K1!Driver /\ valve \in 0..Travel /\ logic \in Logic
  /\ test \in Test /\ stroke \in {"none", "open", "close"} /\ seen \in Readings[plant]
  /\ p4 \in [on : BOOLEAN, age : Nat] /\ held \in BOOLEAN
  /\ at \in {"slow", "fast", "pause"}
  /\ since \in 0..(IF at = "slow" THEN SlowPeriod ELSE SlowPeriod - 1)

\* The motor goes the way a run says, and nothing waits beside a run.
DriverFits ==
  /\ k1.power = k1.running
  /\ k1.running => ~k1.pending /\ k1.dirOpen = (k1.runDir = "open")
  /\ k1.pending => K1!Accepted(k1.pendDur)
  /\ ~k1.running => k1.ran = 0

\* One run at a time is told: a run that is stopped by a reversal is taken before the
\* next one starts, since that needs two dead times.
TakingFits ==
  k1.motion # K1!NoMotion =>
    /\ ~k1.running
    /\ k1.pending => /\ k1.pendDir = "close"
                     /\ IF k1.dirOpen THEN k1.sinceOff <= since
                        ELSE k1.sinceDir + DeadTime <= since

\* Where the valve was when the motion was last taken, and what recalibration knows of it.
PlaceFits ==
  \E from \in 0..Travel :
    /\ logic.known => from = logic.pct
    /\ logic.recal => from = 0 \/ from + logic.closed <= Travel
    /\ Place(k1, from) = valve

ValveFits == TypeFits /\ DriverFits /\ TakingFits /\ PlaceFits

(* The one behind ResultIsOfThePulse, for a lock of the pump's relay longer than a pass. *)

\* How long until the pulse of a test is over.
Due(k) == IF k.running THEN k.left
          ELSE StepPulse + IF k.dirOpen THEN DeadTime - k.sinceDir ELSE 2 * DeadTime - k.sinceOff

\* The pulse waits, runs or is done.  The pass before a pause has moved it on.
Waits == /\ ~k1.running /\ k1.pending /\ k1.pendDir = "open" /\ k1.pendDur = StepPulse
         /\ drive = [open |-> 0, close |-> 0]
Runs == /\ k1.running /\ k1.runDir = "open" /\ k1.left >= 0 /\ k1.ran + k1.left = StepPulse
        /\ drive = [open |-> k1.ran, close |-> 0]
Done == ~k1.running /\ ~k1.pending /\ drive = [open |-> StepPulse, close |-> 0]

InTime == /\ test.window <= test.age /\ test.age + Due(k1) <= StepPulse + 2 * DeadTime
          /\ at = "pause" => Due(k1) > IF k1.running THEN 0
                                         ELSE StepPulse + IF k1.dirOpen THEN 0 ELSE DeadTime

\* Or an update has come between: then the pump is off, and not long enough to return.
PulseFits ==
  /\ test.start \/ test.running => plant = "tested"
  /\ plant = "tested" => stroke = "none"
  /\ test.running =>
       \/ ~p4.on /\ p4.age <= since
       \/ ~held /\ p4.on /\ logic.p4 /\ (Done \/ ((Waits \/ Runs) /\ InTime))
=============================================================================
