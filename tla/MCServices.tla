----------------------------- MODULE MCServices -----------------------------
(***************************************************************************)
(* The services, each on a small instance.                                 *)
(***************************************************************************)
EXTENDS Services

Moments == {0, 43199, 43200, 86399}     \* the seconds at which the chip is read and written
=============================================================================
