---------------------------- MODULE MCEchoSession ----------------------------
(* EchoSession on every input of a few bytes, with buffers of a few bytes.  *)
EXTENDS EchoSession
=============================================================================
