----------------------------- MODULE MCK1Driver -----------------------------
(* Pulses shorter and longer than the dead time, and both refused lengths. *)
EXTENDS K1Driver
MCDurations == {0, 1, 3, 4}
=============================================================================
