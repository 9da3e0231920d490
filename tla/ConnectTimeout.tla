--------------------------- MODULE ConnectTimeout ---------------------------
(***************************************************************************)
(* connect with a timeout and its caller: connect_nonb (C) and the         *)
(* Connect of Socket that takes a timeout (C++).  The socket is made       *)
(* non-blocking, connect() starts the handshake, and select() waits for    *)
(* its end.                                                                *)
(***************************************************************************)
EXTENDS Naturals

CONSTANTS
    Languages,   \* those of the function and its caller: "c", "cxx"
    MaxTimeout,  \* bound: the longest timeout asked for, in units of time
    MaxSignals,  \* bound: signals that interrupt select()
    MaxTime      \* bound: how long a wait without end is watched

ASSUME ConnectAssumption ==
    /\ Languages \subseteq {"c", "cxx"}
    /\ MaxTimeout \in Nat /\ MaxSignals \in Nat
    /\ MaxTime \in Nat /\ MaxTime > MaxTimeout

VARIABLES
    language,    \* which of them
    timeout,     \* nsec, or timeout_sec
    pc,          \* "call", "select", "answered", "timedout", "returned", "ended"
    handshake,   \* in the kernel: "idle", "pending", "established" or "refused"
    mode,        \* of the descriptor: "blocking" or "nonblocking" (O_NONBLOCK)
    fd,          \* the descriptor: "open" or "closed"
    closes,      \* history: how often it has been closed
    left,        \* tval: what is left of the timeout
    waited,      \* history: time spent in connect_nonb
    signals,     \* history: signals that interrupted select()
    result       \* of connect_nonb: "none", "ok", "timedout" or "error"

call == <<language, timeout>>
vars == <<call, pc, handshake, mode, fd, closes, left, waited, signals, result>>

\* nsec = 0 means no timeout in C; in C++ it means not to wait.
Endless == language = "c" /\ timeout = 0

Close == fd' = "closed" /\ closes' = closes + 1

\* A mistake: the flags are set to O_NONBLOCK once more.
RestoreForgotten == UNCHANGED mode

\* Fcntl(sockfd, F_SETFL, flags), or the destructor of ScopedFcntl.
Restore == mode' = "blocking"

-----------------------------------------------------------------------------
\* connect() succeeds at once, or fails at once: C then leaves O_NONBLOCK set,
\* C++ restores the flags on every way out.
ConnectAtOnce ==
    /\ pc = "call"
    /\ pc' = "returned"
    /\ \/ /\ handshake' = "established" /\ result' = "ok"
          /\ Restore
       \/ /\ handshake' = "refused" /\ result' = "error"
          /\ IF language = "cxx" THEN Restore ELSE mode' = "nonblocking"
    /\ UNCHANGED <<call, fd, closes, left, waited, signals>>

\* connect() fails with EINPROGRESS: on to select().
ConnectInProgress ==
    /\ pc = "call"
    /\ pc' = "select"
    /\ handshake' = "pending"
    /\ mode' = "nonblocking"
    /\ left' = timeout
    /\ UNCHANGED <<call, fd, closes, waited, signals, result>>

\* The peer answers, or the kernel gives up: also after the timeout.
HandshakeEnds ==
    /\ handshake = "pending"
    /\ handshake' \in {"established", "refused"}
    /\ UNCHANGED <<call, pc, mode, fd, closes, left, waited, signals, result>>

\* select() sleeps no longer than it may.
Tick ==
    /\ pc = "select" /\ handshake = "pending"
    /\ waited < MaxTime
    /\ Endless \/ left > 0
    /\ waited' = waited + 1
    /\ left' = IF Endless THEN left ELSE left - 1
    /\ UNCHANGED <<call, pc, handshake, mode, fd, closes, signals, result>>

\* A mistake: every call of select() is given the whole timeout.
AgainInFull == left' = timeout

\* On EINTR Select() calls select() again with the tval it was given, which
\* Linux has set to the time that was left.
Again == UNCHANGED left

SelectInterrupted ==
    /\ pc = "select"
    /\ signals < MaxSignals
    /\ signals' = signals + 1
    /\ Again
    /\ UNCHANGED <<call, pc, handshake, mode, fd, closes, waited, result>>

\* A mistake: the timeout is left to the kernel.
SelectReturnsOnAnswer ==
    /\ pc = "select"
    /\ handshake # "pending" /\ pc' = "answered"
    /\ UNCHANGED <<call, handshake, mode, fd, closes, left, waited, signals,
                   result>>

\* An answer, or the end of the timeout; an answer that is there wins.
SelectReturns ==
    /\ pc = "select"
    /\ \/ handshake # "pending" /\ pc' = "answered"
       \/ ~ Endless /\ left = 0 /\ handshake = "pending" /\ pc' = "timedout"
    /\ UNCHANGED <<call, handshake, mode, fd, closes, left, waited, signals,
                   result>>

\* A mistake: the socket is readable and writable, so it is connected.
AnsweredUnchecked ==
    /\ pc = "answered"
    /\ pc' = "returned"
    /\ Restore
    /\ result' = "ok"
    /\ UNCHANGED <<call, handshake, fd, closes, left, waited, signals>>

\* A mistake: the C++ function closes the socket as the C function does, and
\* the destructor of the caller's Socket closes it again.
AnsweredClosesInCxx ==
    /\ pc = "answered"
    /\ pc' = "returned"
    /\ Restore
    /\ result' = IF handshake = "established" THEN "ok" ELSE "error"
    /\ IF handshake = "established" THEN UNCHANGED <<fd, closes>> ELSE Close
    /\ UNCHANGED <<call, handshake, left, waited, signals>>

\* SO_ERROR tells success from failure.  On failure C closes the socket.
Answered ==
    /\ pc = "answered"
    /\ pc' = "returned"
    /\ Restore
    /\ result' = IF handshake = "established" THEN "ok" ELSE "error"
    /\ IF handshake # "established" /\ language = "c"
       THEN Close ELSE UNCHANGED <<fd, closes>>
    /\ UNCHANGED <<call, handshake, left, waited, signals>>

\* C closes the socket and leaves its flags alone; C++ throws, and the guard
\* restores the flags.
TimedOut ==
    /\ pc = "timedout"
    /\ pc' = "returned"
    /\ result' = "timedout"
    /\ IF language = "c"
       THEN Close /\ UNCHANGED mode
       ELSE Restore /\ UNCHANGED <<fd, closes>>
    /\ UNCHANGED <<call, handshake, left, waited, signals>>

\* connect_to: C closes the socket after a success and exits (err_sys) after a
\* failure, when the kernel closes what is open; C++ leaves it to ~Socket.
CallerEnds ==
    /\ pc = "returned"
    /\ pc' = "ended"
    /\ IF language = "c" /\ result # "ok"
       THEN fd' = "closed" /\ UNCHANGED closes
       ELSE Close
    /\ UNCHANGED <<call, handshake, mode, left, waited, signals, result>>

-----------------------------------------------------------------------------
Init ==
    /\ language \in Languages
    /\ timeout \in 0..MaxTimeout
    /\ pc = "call" /\ handshake = "idle" /\ mode = "blocking"
    /\ fd = "open" /\ closes = 0 /\ left = 0 /\ waited = 0 /\ signals = 0
    /\ result = "none"

\* The caller has ended, or waits for ever because it asked to.
Ended == pc = "ended" /\ UNCHANGED vars
WaitsOn == pc = "select" /\ Endless /\ UNCHANGED vars

Function == ConnectAtOnce \/ ConnectInProgress \/ SelectReturns \/ Answered \/ TimedOut
Next == Function \/ CallerEnds \/ Tick \/ HandshakeEnds \/ SelectInterrupted
        \/ Ended \/ WaitsOn

Spec == Init /\ [][Next]_vars

\* The process runs and time passes.  The peer may never answer.
FairSpec == Spec /\ WF_vars(Function) /\ WF_vars(CallerEnds) /\ WF_vars(Tick)

-----------------------------------------------------------------------------
TypeOK ==
    /\ language \in Languages
    /\ timeout \in 0..MaxTimeout
    /\ pc \in {"call", "select", "answered", "timedout", "returned", "ended"}
    /\ handshake \in {"idle", "pending", "established", "refused"}
    /\ mode \in {"blocking", "nonblocking"}
    /\ fd \in {"open", "closed"} /\ closes \in 0..1
    /\ left \in 0..MaxTimeout /\ waited \in 0..MaxTime /\ signals \in 0..MaxSignals
    /\ result \in {"none", "ok", "timedout", "error"}

\* What is reported as a connection is one: the handshake has succeeded, and
\* the socket is open and blocks again, as its user expects.
SuccessIsUsable ==
    pc = "returned" /\ result = "ok" =>
        handshake = "established" /\ fd = "open" /\ mode = "blocking"

\* However many signals interrupt it, the call takes no longer than asked for,
\* and it reports a timeout only when all of that time has passed.
TimeIsKept ==
    ~ Endless => /\ waited <= timeout
                 /\ pc = "timedout" \/ result = "timedout" => waited = timeout

\* The descriptor is closed once, by the function or its caller, on every way
\* through both; C may leave it to the end of the process.
ClosedOnce ==
    /\ closes <= 1
    /\ fd = "open" => closes = 0
    /\ pc = "ended" => fd = "closed"

\* C++ leaves a socket it does not close as it found it.
FlagsRestored == language = "cxx" /\ pc = "returned" => mode = "blocking"

\* The call returns, although the peer may never answer, unless it was asked to
\* wait for ever and nobody answers.
CallReturns == <>(pc = "ended") \/ <>[](Endless /\ handshake = "pending")
=============================================================================
