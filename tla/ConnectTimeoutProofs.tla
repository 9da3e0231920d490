------------------------ MODULE ConnectTimeoutProofs ------------------------
(***************************************************************************)
(* Machine-checked proofs about ConnectTimeout, for every timeout and any  *)
(* number of signals.                                                      *)
(***************************************************************************)
EXTENDS ConnectTimeout, TLAPS

\* While the function runs the socket is open, and what select() may still
\* sleep and what it has slept add up to the timeout.
Running ==
    pc \in {"call", "select", "answered", "timedout"} =>
        /\ fd = "open" /\ closes = 0 /\ result = "none"
        /\ pc = "call" => waited = 0 /\ mode = "blocking"
        /\ pc = "select" /\ ~ Endless => waited + left = timeout
        /\ pc = "select" => handshake # "idle"
        /\ pc = "answered" => handshake \in {"established", "refused"}
        /\ pc = "timedout" => ~ Endless /\ waited = timeout

\* When it has returned, only C may have closed the socket, and only then.
Returned ==
    pc \in {"returned", "ended"} =>
        /\ result # "none"
        /\ pc = "returned" /\ fd = "closed" => language = "c" /\ result # "ok"
        /\ fd = "open" => closes = 0
        /\ result = "ok" => handshake = "established"
        /\ pc = "returned" /\ result = "ok" => mode = "blocking"

\* The inductive invariant.
Inv == /\ TypeOK /\ Running /\ Returned
       /\ TimeIsKept /\ ClosedOnce /\ FlagsRestored

LEMMA InitInv == Init => Inv
BY ConnectAssumption
DEF Init, Inv, Endless, TypeOK, Running, Returned, TimeIsKept, ClosedOnce, FlagsRestored

LEMMA NextKeepsInv == Inv /\ [Next]_vars => Inv'
<1> SUFFICES ASSUME Inv, [Next]_vars PROVE Inv'
  OBVIOUS
<1> USE ConnectAssumption DEF Inv, Endless, call
<1>1. CASE ConnectAtOnce
  BY <1>1 DEF ConnectAtOnce, Restore, TypeOK, Running, Returned, TimeIsKept,
              ClosedOnce, FlagsRestored
<1>2. CASE ConnectInProgress
  BY <1>2 DEF ConnectInProgress, TypeOK, Running, Returned, TimeIsKept,
              ClosedOnce, FlagsRestored
<1>3. CASE SelectReturns
  BY <1>3 DEF SelectReturns, TypeOK, Running, Returned, TimeIsKept,
              ClosedOnce, FlagsRestored
<1>4. CASE Answered
  BY <1>4 DEF Answered, Restore, Close, TypeOK, Running, Returned, TimeIsKept,
              ClosedOnce, FlagsRestored
<1>5. CASE TimedOut
  BY <1>5 DEF TimedOut, Restore, Close, TypeOK, Running, Returned, TimeIsKept,
              ClosedOnce, FlagsRestored
<1>6. CASE CallerEnds
  BY <1>6 DEF CallerEnds, Close, TypeOK, Running, Returned, TimeIsKept,
              ClosedOnce, FlagsRestored
<1>7. CASE Tick
  BY <1>7 DEF Tick, TypeOK, Running, Returned, TimeIsKept, ClosedOnce, FlagsRestored
<1>8. CASE HandshakeEnds
  BY <1>8 DEF HandshakeEnds, TypeOK, Running, Returned, TimeIsKept, ClosedOnce,
              FlagsRestored
<1>9. CASE SelectInterrupted
  BY <1>9 DEF SelectInterrupted, Again, TypeOK, Running, Returned, TimeIsKept,
              ClosedOnce, FlagsRestored
<1>10. CASE UNCHANGED vars
  BY <1>10 DEF vars, TypeOK, Running, Returned, TimeIsKept, ClosedOnce, FlagsRestored
<1> QED
  BY <1>1, <1>2, <1>3, <1>4, <1>5, <1>6, <1>7, <1>8, <1>9, <1>10
  DEF Next, Function, Ended, WaitsOn

LEMMA InvHolds == Spec => []Inv
BY InitInv, NextKeepsInv, PTL DEF Spec

\* Signals neither lengthen the wait nor end it early.
THEOREM Punctual == Spec => []TimeIsKept
<1>1. Inv => TimeIsKept
  BY DEF Inv
<1> QED
  BY <1>1, InvHolds, PTL

\* A late answer never passes for a connection that may be used.
THEOREM OkMeansConnected == Spec => []SuccessIsUsable
<1>1. Inv => SuccessIsUsable
  BY DEF Inv, TypeOK, Returned, SuccessIsUsable
<1> QED
  BY <1>1, InvHolds, PTL

\* No way through the function and its caller closes the descriptor twice.
THEOREM ClosesOnce == Spec => [](TypeOK /\ ClosedOnce)
<1>1. Inv => TypeOK /\ ClosedOnce
  BY DEF Inv
<1> QED
  BY <1>1, InvHolds, PTL

\* C++ gives a socket back as it was, also by an exception.
THEOREM RestoresFlags == Spec => []FlagsRestored
<1>1. Inv => FlagsRestored
  BY DEF Inv
<1> QED
  BY <1>1, InvHolds, PTL
=============================================================================
