---------------------------- MODULE MCHwRuntime ----------------------------
(* The outputs of the two controllers.  A fast pass is 1; the dead time and *)
(* the slow period are equal in the code, and are 2 passes here.            *)
EXTENDS HwRuntime
CONSTANTS pump,         \* P4 of the home, or P1 of the boiler room
          power, dir    \* K1

None == {}
Pumps == {pump}
Valve == {power, dir}
Home == {pump, power, dir}

NoOutputs == << >>
PumpOutput == [kind |-> "Pump", channel |-> pump, blockers |-> {}]
ValveOutput == [kind |-> "ValveStroke", channel |-> power, blockers |-> {pump}]
PumpAndValve == <<PumpOutput, ValveOutput>>

NoLock == {0}
Lock == {2}
LongLock == {3}                 \* longer than from one slow pass to the next
Lengths == {1, 3, 4}            \* 4 is refused
Requests == {<<"open", 1>>, <<"open", 3>>}
LongRequest == {<<"open", 3>>}
OnePass == {1}
AnyPass == {1, 2}
Stroke == {1}
NoClock == {"invalid"}
AnyClock == {"invalid", "before", "after"}

\* What the runs of the scheduler and the slots they use depend on: not on what
\* is counted and logged, nor on the latch, nor on an age beyond the dead time
\* of what is only compared with it.
Rested(age) == IF age < DeadTime THEN age ELSE DeadTime
Shown == <<seize, settings, ready, inhibited, at, sinceSlow,
           bank.control, bank.safety, bank.exercise, bank.actual, bank.lock, bank.inhibited,
           [c \in Lockable |-> <<bank.since[c], bank.sinceOn[c]>>],
           [k1 EXCEPT !.starts = 0, !.motion = << >>,
                      !.sinceOff = Rested(@), !.sinceDir = Rested(@)],
           [wire EXCEPT !.offFor = Rested(@), !.stillFor = Rested(@)]>>
=============================================================================
