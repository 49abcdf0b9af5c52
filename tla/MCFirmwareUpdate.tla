--------------------------- MODULE MCFirmwareUpdate ---------------------------
(* A pass is 500 ms; the long times keep their order.                       *)
EXTENDS FirmwareUpdate
CONSTANTS c1, c2
One == {c1}
Two == {c1, c2}
=============================================================================
