---------------------------- MODULE MCInterpreter ----------------------------
(* Interpreter with all the programs, three tasks, one of which raises, and *)
(* two calls of stop().                                                     *)
EXTENDS Interpreter
=============================================================================
