----------------------------- MODULE MCDatagram -----------------------------
(* Datagram with three clients that share two ports or process ids, and two *)
(* servers, started together or one after the other.                        *)
EXTENDS Datagram
=============================================================================
