------------------------------ MODULE K1Driver ------------------------------
(***************************************************************************)
(* K1Driver (common/lib/HwEngine): the power (R2) and direction (R3) pulse *)
(* state machine of the mixing-valve motor.  `k1` is the whole object and  *)
(* every operation an operator from a driver to a driver.                  *)
(*                                                                         *)
(* Abstracted: timestamps are ages (module Ages), except _runEndMs, which  *)
(* is `left`, the time to the end of the run (negative when overdue);      *)
(* _lastMoveMs is `sinceMove`.  The fields of a run and of a request are   *)
(* reset when it is over, where the code leaves values it never reads.     *)
(***************************************************************************)
EXTENDS Integers, Ages

CONSTANTS DeadTime,     \* DEAD_TIME_MS
          MaxPulse,     \* MAX_PULSE_MS
          Durations,    \* the durations callers ask for, refused ones included
          MaxGap,       \* longest time the loop lets pass between two ticks
          StartsMod,    \* runStarts counts modulo this (2^32)
          AgeCap,       \* ages saturate here
          MaxTravel     \* bound of the model: motion not yet taken

ASSUME K1DriverAssumption ==
  /\ DeadTime \in Nat \ {0}
  /\ MaxPulse \in Nat \ {0}
  /\ Durations \subseteq Nat
  /\ MaxGap \in Nat \ {0}
  /\ StartsMod \in Nat \ {0, 1}
  /\ AgeCap \in Nat /\ AgeCap >= DeadTime
  /\ MaxTravel \in Nat

VARIABLES k1,           \* the K1Driver object
          sinceTick,    \* time since the loop last called tick()
          travelled     \* history: time the motor really ran each way, less
                        \* what takeMotion() has reported

vars == <<k1, sinceTick, travelled>>

Dir   == {"close", "open"}
Owner == {"None", "Control", "AntiSeize"}

Driver == [power : BOOLEAN, dirOpen : BOOLEAN,
           sinceOff : 0..AgeCap, sinceDir : 0..AgeCap,
           running : BOOLEAN, runDir : Dir, ran : Nat, left : Int,
           owner : Owner,
           pending : BOOLEAN, pendDir : Dir, pendDur : Nat, pendOwner : Owner,
           motion : [Dir -> Nat],
           hasMoved : BOOLEAN, sinceMove : 0..AgeCap,
           starts : 0..StartsMod - 1]

-----------------------------------------------------------------------------
(* The operations. *)

NoMotion == [d \in Dir |-> 0]

\* begin(): `up` is the time since power-up, a full dead time or less.
AtRest(up) ==
  [power |-> FALSE, dirOpen |-> FALSE, sinceOff |-> 0, sinceDir |-> up,
   running |-> FALSE, runDir |-> "close", ran |-> 0, left |-> 0, owner |-> "None",
   pending |-> FALSE, pendDir |-> "close", pendDur |-> 0, pendOwner |-> "None",
   motion |-> NoMotion, hasMoved |-> FALSE, sinceMove |-> 0, starts |-> 0]

StopRun(k) ==
  [k EXCEPT !.motion = [k.motion EXCEPT ![k.runDir] = @ + k.ran],
            !.hasMoved = TRUE, !.sinceMove = 0,
            !.power = FALSE, !.running = FALSE, !.sinceOff = 0,
            !.runDir = "close", !.ran = 0, !.left = 0, !.owner = "None"]

Drop(k) == [k EXCEPT !.pending = FALSE, !.pendDir = "close", !.pendDur = 0,
                     !.pendOwner = "None"]

Accepted(duration) == duration \in 1..MaxPulse

\* Mistake: a new request restarts the dead time that the pending one has been
\* waiting for.
PendRestarting(k, dir, duration, owner) ==
  [k EXCEPT !.pending = TRUE, !.pendDir = dir, !.pendDur = duration,
            !.pendOwner = owner, !.sinceDir = 0]

Extend(k, duration, owner) == [k EXCEPT !.left = duration, !.owner = owner]

Pend(k, dir, duration, owner) ==
  [k EXCEPT !.pending = TRUE, !.pendDir = dir, !.pendDur = duration,
            !.pendOwner = owner]

\* The policy "replace": extend, reverse, or replace what is pending.
RequestPulse(k, dir, duration, owner) ==
  IF ~Accepted(duration) THEN k
  ELSE IF k.running /\ k.runDir = dir THEN Extend(k, duration, owner)
  ELSE Pend(IF k.running THEN StopRun(k) ELSE k, dir, duration, owner)

Cancel(k) == Drop(IF k.running THEN StopRun(k) ELSE k)

\* Mistake: a run that ends is not added to the motion.
EndRunUnreported(k) ==
  IF k.running /\ k.left <= 0
  THEN [StopRun(k) EXCEPT !.motion = k.motion] ELSE k

\* tick(), first half: a run that has reached its end stops.
EndRun(k) == IF ~k.running THEN k
             ELSE IF k.left <= 0 THEN StopRun(k)
             ELSE [k EXCEPT !.sinceMove = 0]

\* Mistake: the time of the turn is not taken.
TurnUnstamped(k) == [k EXCEPT !.dirOpen = ~@]

Turn(k) == [k EXCEPT !.dirOpen = ~@, !.sinceDir = 0]

Start(k) ==
  [Drop(k) EXCEPT
            !.power = TRUE, !.running = TRUE, !.starts = (@ + 1) % StartsMod,
            !.runDir = k.pendDir, !.left = k.pendDur, !.owner = k.pendOwner,
            !.hasMoved = TRUE, !.sinceMove = 0]

\* tick(), second half: turn, start, or return to rest, never two of them.
Advance(k) ==
  LET wantOpen == k.pending /\ k.pendDir = "open"
  IN IF k.running THEN k
     ELSE IF k.dirOpen # wantOpen
     THEN IF ~k.power /\ k.sinceOff >= DeadTime THEN Turn(k) ELSE k
     ELSE IF k.pending /\ k.sinceDir >= DeadTime THEN Start(k) ELSE k

Tick(k) == Advance(EndRun(k))

TakeMotion(k) == [k EXCEPT !.motion = NoMotion]

Busy(k) == k.pending \/ k.running
OwnerOf(k) == IF k.running THEN k.owner ELSE IF k.pending THEN k.pendOwner ELSE "None"

\* d time units pass.
Aged(k, d) ==
  [k EXCEPT !.sinceOff = Older(@, d, AgeCap), !.sinceDir = Older(@, d, AgeCap),
            !.sinceMove = Older(@, d, AgeCap),
            !.ran = IF k.running THEN @ + d ELSE @,
            !.left = IF k.running THEN @ - d ELSE @]

-----------------------------------------------------------------------------
(* A driver whose callers ask for anything between two ticks of the loop.  *)

Init == /\ \E up \in 0..DeadTime : k1 = AtRest(up)
        /\ sinceTick = 0
        /\ travelled = NoMotion

\* Bound of the model: callers wait for the motion to be taken.
Untaken == k1.motion["open"] + k1.motion["close"] + k1.ran

Request == /\ \E dir \in Dir, duration \in Durations, owner \in Owner \ {"None"} :
                /\ Untaken + duration + MaxGap <= MaxTravel
                /\ k1' = RequestPulse(k1, dir, duration, owner)
           /\ UNCHANGED <<sinceTick, travelled>>

DoCancel == k1' = Cancel(k1) /\ UNCHANGED <<sinceTick, travelled>>

DoTick == /\ k1' = Tick(k1)
          /\ sinceTick' = 0
          /\ UNCHANGED travelled

\* K1Logic reads and clears the accumulated motion once per slow tick.
DoTakeMotion == /\ k1' = TakeMotion(k1)
                /\ travelled' = [d \in Dir |-> travelled[d] - k1.motion[d]]
                /\ UNCHANGED sinceTick

\* The motor moves the way its two contacts stand.
Heading == IF k1.dirOpen THEN "open" ELSE "close"

Elapse == \E d \in 1..MaxGap :
             /\ sinceTick + d <= MaxGap
             /\ sinceTick' = sinceTick + d
             /\ k1' = Aged(k1, d)
             /\ travelled' = IF k1.power THEN [travelled EXCEPT ![Heading] = @ + d]
                                         ELSE travelled

Begin == /\ \E up \in 0..DeadTime : k1' = AtRest(up)
         /\ sinceTick' = 0
         /\ travelled' = NoMotion

Next == Request \/ DoCancel \/ DoTick \/ DoTakeMotion \/ Elapse \/ Begin

Spec == Init /\ [][Next]_vars

\* The loop keeps ticking the driver and taking its motion; time passes.
FairSpec == Spec /\ WF_vars(DoTick) /\ WF_vars(DoTakeMotion) /\ WF_vars(Elapse)

-----------------------------------------------------------------------------
(* Properties. *)

\* The variables have their types.
TypeOK == /\ k1 \in Driver
          /\ sinceTick \in 0..MaxGap
          /\ travelled \in [Dir -> Nat]

\* K1Driver.h: the direction never moves while the motor is on, and there is a
\* dead time between every switch-off and a turn, and between a turn and every
\* switch-on, whatever is requested, replaced, extended or cancelled.
Wiring == INSTANCE InterlockedDrive WITH
            power <- k1.power, open <- k1.dirOpen,
            offFor <- k1.sinceOff, stillFor <- k1.sinceDir
DriveIsInterlocked == Wiring!Spec

\* takeMotion(): the position estimator is told exactly the time the motor was
\* powered in each direction, across extensions, reversals and cancellations.
MotionIsAccounted ==
  \A d \in Dir : travelled[d] = k1.motion[d]
                   + (IF k1.running /\ k1.runDir = d THEN k1.ran ELSE 0)

\* README, "K1 motor-valve driver": a pulse ends within one pass of the loop
\* of its requested length.
PulseIsBounded == k1.running => k1.left > -MaxGap

\* runStarts(): the counter advances exactly when power is energised; an
\* extension is not a start, and a reversal is one.
StartsCountEnergisations ==
  [][~Begin => ((k1'.starts # k1.starts) <=> (~k1.power /\ k1'.power))]_vars

\* A request that stays the same way round does not wait for ever: it starts.
PendingStarts == \A dir \in Dir : ~ <>[](k1.pending /\ k1.pendDir = dir)

\* A drive that is left alone goes back to rest, its direction de-energised.
IdleComesToRest == <>[]~Busy(k1) => <>[](~k1.power /\ ~k1.dirOpen)

\* What is asked for settles: a request starts, and a drive left alone rests.
RequestsSettle == PendingStarts /\ IdleComesToRest
=============================================================================
