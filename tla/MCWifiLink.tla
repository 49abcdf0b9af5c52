----------------------------- MODULE MCWifiLink -----------------------------
(* The Wi-Fi of a controller by itself, for what README.md says of its      *)
(* access point.                                                            *)
EXTENDS WifiLink
=============================================================================
