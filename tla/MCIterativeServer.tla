-------------------------- MODULE MCIterativeServer --------------------------
(* IterativeServer with three clients, more than the queue holds.           *)
EXTENDS IterativeServer
=============================================================================
