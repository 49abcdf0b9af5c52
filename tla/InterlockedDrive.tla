-------------------------- MODULE InterlockedDrive --------------------------
(***************************************************************************)
(* What the wiring of a reversible valve motor may be asked to do: the     *)
(* direction contact moves only while the motor is off and has been off    *)
(* for a dead time, and the motor is switched on only after the direction  *)
(* contact has been still for a dead time.  Switching off is always        *)
(* allowed.  A reset of the controller de-energises both contacts.         *)
(***************************************************************************)
EXTENDS Integers, Ages

CONSTANTS DeadTime,     \* the pause on either side of a direction change
          AgeCap

VARIABLES power,        \* the motor is on
          open,         \* the direction contact is energised
          offFor,       \* how long ago the motor was last switched off
          stillFor      \* how long ago the direction contact last moved

vars == <<power, open, offFor, stillFor>>

Rest(up) == /\ power = FALSE /\ open = FALSE /\ offFor = 0 /\ stillFor = up

\* At rest the direction counts as settled, unless the controller itself has
\* not been up for a dead time.
Init == \E up \in 0..DeadTime : Rest(up)

Wait == /\ \E d \in 1..AgeCap : /\ offFor' = Older(offFor, d, AgeCap)
                                /\ stillFor' = Older(stillFor, d, AgeCap)
        /\ UNCHANGED <<power, open>>

SwitchOff == /\ power
             /\ power' = FALSE
             /\ offFor' = 0
             /\ UNCHANGED <<open, stillFor>>

Turn == /\ ~power
        /\ offFor >= DeadTime
        /\ open' = ~open
        /\ stillFor' = 0
        /\ UNCHANGED <<power, offFor>>

SwitchOn == /\ ~power
            /\ stillFor >= DeadTime
            /\ power' = TRUE
            /\ UNCHANGED <<open, offFor, stillFor>>

Reset == \E up \in 0..DeadTime : /\ power' = FALSE /\ open' = FALSE
                                 /\ offFor' = 0 /\ stillFor' = up

Next == Wait \/ SwitchOff \/ Turn \/ SwitchOn \/ Reset

Spec == Init /\ [][Next]_vars
=============================================================================
