-------------------------- MODULE MCConnectTimeout --------------------------
(* ConnectTimeout with timeouts of up to three units and two signals.       *)
EXTENDS ConnectTimeout
=============================================================================
