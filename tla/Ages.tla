-------------------------------- MODULE Ages --------------------------------
(***************************************************************************)
(* The controllers keep timestamps (uint64_t milliseconds) and only ever   *)
(* compare `now - timestamp` with a period.  The specifications keep that  *)
(* difference, an AGE, instead: it grows as time passes and stops growing  *)
(* at a cap that is at least as large as every period it is compared with, *)
(* so every comparison has the value the program gives it, and time needs  *)
(* no upper bound.                                                         *)
(***************************************************************************)
LOCAL INSTANCE Integers

\* The age of a timestamp that was `age` old, d time units later.
Older(age, d, cap) == IF age + d < cap THEN age + d ELSE cap
=============================================================================
