---------------------------- MODULE MCRelayBank ----------------------------
(* A lockable, logged pump and one channel that is neither (as K1's are).  *)
EXTENDS RelayBank
CONSTANTS pump, valve
MCChannel == {pump, valve}
MCPump == {pump}
MCLocks == {0, 2}
=============================================================================
