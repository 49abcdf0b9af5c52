------------------------------ MODULE AntiSeize ------------------------------
(***************************************************************************)
(* AntiSeizeScheduler (common/lib/HwEngine): exercises outputs that have   *)
(* been idle too long.  The scheduler acts on the relay bank and on the    *)
(* K1 driver it shares with the controllers, so every operator below takes *)
(* and returns a record w of the three objects, [bank, k1, seize].         *)
(*                                                                         *)
(* Abstracted: lastRun is `idle`, its age; pendingSinceMs, runStartMs and  *)
(* holdStartMs are ages too.  The local time of a tick is "invalid",       *)
(* "before" the start minute or "after" it; `checked` stands for           *)
(* dayIndex <= _lastCheckDay, so a day that begins clears it, and a clock  *)
(* set back does not.  Output::inhibited has no caller and is left out.    *)
(* The scheduler does not tick while the outputs are held off: an inhibit  *)
(* longer than AgeCap hides what ran in the slow period before it, and     *)
(* makes `idle` too long by at most that period.                           *)
(***************************************************************************)
EXTENDS Integers, Sequences, Ages

CONSTANTS Channel, Lockable, Logged, Emergency, Exercised, LockValues, AgeCap,
          DeadTime, MaxPulse, Durations, MaxGap, StartsMod, MaxTravel,
          Outputs,      \* the descriptors: a sequence of [kind, channel, blockers]
          Strokes,      \* lengths the K1 stroke may be set to
          Interval,     \* asInterval
          Slack,        \* CHECK_SLACK_MS
          SafetyNet,    \* SAFETY_NET_MS
          Duration,     \* asDuration
          Timeout       \* asDuration + 660 s: a run that never reached its target

Out == 1..Len(Outputs)
IdleCap == Interval + SafetyNet

\* What HwRuntime assumes of them.  A relay age is told apart from older ones
\* below AgeCap only; the scheduler reads it every slow tick, so an activity it
\* has not yet seen is younger.
AntiSeizeAssumption ==
  /\ Outputs \in Seq([kind : {"Pump", "Toggle", "ValveStroke"}, channel : Channel,
                      blockers : SUBSET Channel])
  /\ \A i \in Out : Outputs[i].kind # "ValveStroke" => Outputs[i].channel \in Exercised
  /\ {Interval, Slack, SafetyNet, Duration, Timeout} \subseteq Nat
  /\ Interval > AgeCap
  /\ Timeout >= Duration
  /\ Strokes \subseteq Nat

Bank == INSTANCE RelayBank WITH bank <- 0, log <- 0, noticed <- 0
K1 == INSTANCE K1Driver WITH k1 <- 0, sinceTick <- 0, travelled <- 0

Phase == {"None", "WaitOn", "Hold", "K1Open", "K1Close"}
LocalTime == {"invalid", "before", "after"}

Seize == [enabled : SUBSET Out, pending : SUBSET Out, running : SUBSET Out,
          phase : [Out -> Phase],
          idle : [Out -> 0..IdleCap],
          pendingFor : [Out -> 0..AgeCap],
          ranFor : [Out -> 0..Timeout],
          heldFor : [Out -> 0..Duration],
          target : [Out -> BOOLEAN],            \* toggleTarget
          stroke : Strokes,
          checked : BOOLEAN]

\* configure(): boot counts as "just ran".
Configured(stroke) ==
  [enabled |-> {}, pending |-> {}, running |-> {},
   phase |-> [i \in Out |-> "None"], idle |-> [i \in Out |-> 0],
   pendingFor |-> [i \in Out |-> 0], ranFor |-> [i \in Out |-> 0],
   heldFor |-> [i \in Out |-> 0], target |-> [i \in Out |-> FALSE],
   stroke |-> stroke, checked |-> FALSE]

Kind(i)     == Outputs[i].kind
Ch(i)       == Outputs[i].channel
IsOn(w, i)  == Ch(i) \in w.bank.actual

BlockerOn(i, w)    == Outputs[i].blockers \cap w.bank.actual # {}
SafetyActive(i, w) == w.bank.safety[Ch(i)] # "unset"

-----------------------------------------------------------------------------
(* tick(), steps (1) to (3): what is due. *)

\* activityOf: the age of the output's last activity, AgeCap if it has none.
Activity(i, w) == CASE Kind(i) = "Pump"   -> w.bank.sinceOn[Ch(i)]
                    [] Kind(i) = "Toggle" -> w.bank.since[Ch(i)]
                    [] OTHER -> IF w.k1.hasMoved THEN w.k1.sinceMove ELSE AgeCap

Refresh(w) ==
  [w EXCEPT !.seize.idle = [i \in Out |->
      IF Activity(i, w) < AgeCap /\ Activity(i, w) < @[i] THEN Activity(i, w) ELSE @[i]]]

\* (2) It has run since, or was disabled.
ClearPending(s) ==
  [s EXCEPT !.pending = {i \in @ : i \in s.enabled /\ s.idle[i] > s.pendingFor[i]}]

\* (3) Daily checkpoint, uptime without a clock, safety net.
Checkpoint(s, local) == local = "after" /\ ~s.checked

\* Mistake: there is no safety net.
DueByClock(s, i, local) ==
  \/ Checkpoint(s, local) /\ s.idle[i] + Slack >= Interval
  \/ local = "invalid" /\ s.idle[i] >= Interval

Due(s, i, local) == \/ Checkpoint(s, local) /\ s.idle[i] + Slack >= Interval
                    \/ local = "invalid" /\ s.idle[i] >= Interval
                    \/ s.idle[i] >= Interval + SafetyNet

Trigger(s, local) ==
  LET triggered == {i \in s.enabled \ (s.running \cup s.pending) : Due(s, i, local)}
  IN [s EXCEPT !.pending = @ \cup triggered,
               !.pendingFor = [i \in Out |-> IF i \in triggered THEN 0 ELSE @[i]],
               !.checked = @ \/ Checkpoint(s, local)]

-----------------------------------------------------------------------------
(* tick(), step (4): advance the runs. *)

Stopped(s, i) == [s EXCEPT !.running = @ \ {i}, !.phase[i] = "None", !.ranFor[i] = 0,
                           !.heldFor[i] = 0, !.target[i] = FALSE]

Release(w, i) == [w EXCEPT !.bank = Bank!SetExercise(@, Ch(i), "unset"),
                           !.seize = Stopped(@, i)]

Reached(w, i) == IF Kind(i) = "Pump" THEN IsOn(w, i)
                 ELSE IsOn(w, i) = w.seize.target[i]

Over(w, i) == LET s == w.seize IN
  \/ i \notin s.enabled
  \/ SafetyActive(i, w)
  \/ s.ranFor[i] >= Timeout
  \/ s.phase[i] = "Hold" /\ s.heldFor[i] >= Duration

AdvanceRelay(w, i) ==
  IF Over(w, i) THEN Release(w, i)
  ELSE IF w.seize.phase[i] = "WaitOn" /\ Reached(w, i)
  THEN [w EXCEPT !.seize.phase[i] = "Hold", !.seize.heldFor[i] = 0]
  ELSE w

\* Someone else's pulse: let go of it.  Blocked: cancel our own.  A finished
\* leg: the close leg follows the open one, unless its length is refused.
AdvanceStroke(w, i) ==
  LET s == w.seize
      busy == K1!Busy(w.k1)
      ours == K1!OwnerOf(w.k1) = "AntiSeize"
      blocked == i \notin s.enabled \/ BlockerOn(i, w) \/ SafetyActive(i, w)
      letGo == [w EXCEPT !.seize = Stopped(@, i)]
  IN CASE busy /\ ~ours -> letGo
       [] blocked /\ busy /\ ours -> [letGo EXCEPT !.k1 = K1!Cancel(@)]
       [] blocked /\ ~busy -> letGo
       [] ~blocked /\ busy /\ ours -> w
       [] ~blocked /\ ~busy /\ s.phase[i] = "K1Open" /\ K1!Accepted(s.stroke) ->
            [w EXCEPT !.k1 = K1!RequestPulse(@, "close", s.stroke, "AntiSeize"),
                      !.seize.phase[i] = "K1Close"]
       [] OTHER -> letGo

AdvanceRun(w, i) == IF i \notin w.seize.running THEN w
                    ELSE IF Kind(i) = "ValveStroke" THEN AdvanceStroke(w, i)
                    ELSE AdvanceRelay(w, i)

-----------------------------------------------------------------------------
(* tick(), step (5): start what is pending and not blocked, in array order. *)

StrokeBlockedBy(w, i) == \E j \in w.seize.running :
                           Kind(j) = "ValveStroke" /\ Ch(i) \in Outputs[j].blockers

Blocked(w, i) == \/ SafetyActive(i, w)
                 \/ BlockerOn(i, w)
                 \/ IF Kind(i) = "ValveStroke" THEN K1!Busy(w.k1)
                                               ELSE StrokeBlockedBy(w, i)

Run(w, i, phase) == [w EXCEPT !.seize.running = @ \cup {i},
                              !.seize.pending = @ \ {i},
                              !.seize.phase[i] = phase,
                              !.seize.ranFor[i] = 0]

\* startOutput().
StartRelay(w, i) ==
  LET on == Kind(i) = "Pump" \/ ~IsOn(w, i)
  IN [Run(w, i, "WaitOn") EXCEPT
        !.bank = Bank!SetExercise(@, Ch(i), IF on THEN "on" ELSE "off"),
        !.seize.target[i] = on]

\* A refused stroke consumes the pending flag and runs nothing.
StartStroke(w, i) ==
  IF K1!Accepted(w.seize.stroke)
  THEN [Run(w, i, "K1Open") EXCEPT
          !.k1 = K1!RequestPulse(@, "open", w.seize.stroke, "AntiSeize")]
  ELSE [w EXCEPT !.seize.pending = @ \ {i}]

StartPending(w, i) ==
  IF i \notin (w.seize.pending \cap w.seize.enabled) \ w.seize.running \/ Blocked(w, i)
  THEN w
  ELSE IF Kind(i) = "ValveStroke" THEN StartStroke(w, i) ELSE StartRelay(w, i)

-----------------------------------------------------------------------------
Triggered(w, local) == [Refresh(w) EXCEPT !.seize = Trigger(ClearPending(@), local)]

Advanced(w) ==
  LET run[i \in 0..Len(Outputs)] == IF i = 0 THEN w ELSE AdvanceRun(run[i - 1], i)
  IN run[Len(Outputs)]

Started(w) ==
  LET run[i \in 0..Len(Outputs)] == IF i = 0 THEN w ELSE StartPending(run[i - 1], i)
  IN run[Len(Outputs)]

Tick(w, local) == Started(Advanced(Triggered(w, local)))

\* d time units pass; the ages of what is not going on stay 0.
Aged(s, d) ==
  [s EXCEPT !.idle = [i \in Out |-> Older(@[i], d, IdleCap)],
            !.pendingFor = [i \in Out |-> IF i \in s.pending
                                            THEN Older(@[i], d, AgeCap) ELSE 0],
            !.ranFor = [i \in Out |-> IF s.phase[i] \in {"WaitOn", "Hold"}
                                        THEN Older(@[i], d, Timeout) ELSE 0],
            !.heldFor = [i \in Out |-> IF s.phase[i] = "Hold"
                                         THEN Older(@[i], d, Duration) ELSE 0]]
=============================================================================
