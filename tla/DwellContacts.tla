--------------------------- MODULE DwellContacts ---------------------------
(***************************************************************************)
(* What the relay layer promises the pumps: a protected contact, once it   *)
(* has moved, stays where it is for the minimum dwell time in force.  Only *)
(* three things may cut a dwell short: a standing emergency demand for the *)
(* very position the contact goes to, the cut-off (a firmware update),     *)
(* which opens every contact and holds all of them open, and a restart of  *)
(* the controller, after which every contact is open and its rest begins.  *)
(* Nothing is said of who asks for what: that is the relay bank's affair.  *)
(***************************************************************************)
EXTENDS Integers, Ages

CONSTANTS Contact,      \* the contacts
          Protected,    \* those with a minimum dwell time
          Dwells,       \* the dwell times an operator may choose
          AgeCap        \* rest times are not told apart from here on

VARIABLES closed,       \* the contacts that are closed (ON)
          rest,         \* how long each contact has been where it is
          dwell,        \* the minimum dwell time in force
          demand,       \* the emergency demand on each contact
          cut           \* the cut-off is in force

vars == <<closed, rest, dwell, demand, cut>>

Demand == {"unset", "off", "on"}

\* Boot: everything open, nothing demanded, and the rest starts now.
Init == /\ closed = {}
        /\ rest = [c \in Contact |-> 0]
        /\ dwell \in Dwells
        /\ demand = [c \in Contact |-> "unset"]
        /\ cut = FALSE

Wait == /\ \E d \in 1..AgeCap : rest' = [c \in Contact |-> Older(rest[c], d, AgeCap)]
        /\ UNCHANGED <<closed, dwell, demand, cut>>

\* The operator changes the dwell time, a controller its emergency demands.
Decide == /\ dwell' \in Dwells
          /\ demand' \in [Contact -> Demand]
          /\ UNCHANGED <<closed, rest, cut>>

Goes(c) == IF c \in closed THEN "off" ELSE "on"

Free(c) == \/ c \notin Protected
           \/ rest[c] >= dwell
           \/ demand[c] = Goes(c)

Restarted(S) == [c \in Contact |-> IF c \in S THEN 0 ELSE rest[c]]

\* Any number of contacts move together, each one free to.
Move == \E S \in SUBSET Contact :
           /\ ~cut
           /\ \A c \in S : Free(c)
           /\ closed' = (closed \ S) \cup (S \ closed)
           /\ rest' = Restarted(S)
           /\ UNCHANGED <<dwell, demand, cut>>

CutOff == /\ cut' = TRUE
          /\ closed' = {}
          /\ rest' = Restarted(closed)
          /\ UNCHANGED <<dwell, demand>>

Restore == /\ cut' = FALSE
           /\ UNCHANGED <<closed, rest, dwell, demand>>

Restart == /\ closed' = {}
           /\ rest' = [c \in Contact |-> 0]
           /\ dwell' \in Dwells
           /\ demand' = [c \in Contact |-> "unset"]
           /\ cut' = FALSE

Next == Wait \/ Decide \/ Move \/ CutOff \/ Restore \/ Restart

Spec == Init /\ [][Next]_vars
=============================================================================
