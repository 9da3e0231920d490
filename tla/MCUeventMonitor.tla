-------------------------- MODULE MCUeventMonitor --------------------------
(* UeventMonitor with few devices, a short expiry and a small socket buffer. *)
EXTENDS UeventMonitor, TLC

Symmetry == Permutations(Devices)
=============================================================================
