----------------------------- MODULE Interpreter -----------------------------
(***************************************************************************)
(* The threads of the Python uevent monitors, the interpreter lock they    *)
(* share, and Ctrl-C, around the worker thread of WorkerThread.  A design  *)
(* is one of the programs:                                                 *)
(*    "single"  the main thread calls recv() of the C++ module;            *)
(*    "thread"  a daemon thread does (uevent_monitor2.py, netlink.cpp of   *)
(*              python_failed);                                            *)
(*    "exit"    the same with the module of netlink_signal.cpp;            *)
(*    "native"  a thread of the C++ module calls back into Python;         *)
(*    "worker"  so it does, and makes a task for a worker thread of it;    *)
(*    "other"   anything else that uses a worker thread.                   *)
(*                                                                         *)
(* The monitor has been constructed, and its receiver started (but that of *)
(* "worker", which starts its threads itself), in the initial state.       *)
(* Messages in the socket's buffer are counted; those for which no task is *)
(* left are the ones too short to be valid.                                *)
(***************************************************************************)
EXTENDS WorkerThread

CONSTANTS
    Designs,   \* which of the programs
    SockBuf    \* how many messages the socket's receive buffer holds

ASSUME InterpreterAssumption ==
    /\ Designs \subseteq {"single", "thread", "exit", "native", "worker", "other"}
    /\ SockBuf \in Nat \ {0}

VARIABLES
    design,    \* the program
    lock,      \* the thread that holds the interpreter lock, or "nobody"
    at,        \* where the main and the receiving thread are
    netlink,   \* messages in the socket's receive buffer
    overrun,   \* the kernel had to drop one: recv() will fail with ENOBUFS
    tripped,   \* SIGINT has arrived and its Python handler has not run
    process    \* "running"; "stopping": the main thread is through and the
               \* interpreter waits for the worker; "ended" or "aborted"

kernel == <<netlink, overrun>>
procVars == <<design, lock, at, kernel, tripped, process, vars>>

First == {"thread", "exit"}      \* a Python thread receives
Fixed == {"native", "worker"}    \* a native thread receives
Up == process \in {"running", "stopping"}
Native == design \in Fixed /\ at["receiver"] # "none"   \* its thread runs

Goes(t, place) == at' = [at EXCEPT ![t] = place]
Release(t) == lock = t /\ lock' = "nobody"

\* A task for the worker, if the program has one.
Submit ==
    \/ design = "worker" /\ \E task \in Tasks : PutTask(task)
    \/ UNCHANGED vars

-----------------------------------------------------------------------------
(* The kernel and the user.                                                *)

Broadcast ==
    /\ Up /\ design # "other"
    /\ IF netlink < SockBuf THEN netlink' = netlink + 1 /\ UNCHANGED overrun
                            ELSE overrun' = TRUE /\ UNCHANGED netlink
    /\ UNCHANGED <<design, lock, at, tripped, process, vars>>

\* A mistake: the C++ handler returns instead of calling exit().
InterruptOnlyNoted ==
    /\ Up /\ design # "other"
    /\ IF at["main"] = "recv"
       THEN process' = "ended" /\ UNCHANGED tripped
       ELSE tripped' = TRUE /\ UNCHANGED process
    /\ UNCHANGED <<design, lock, at, kernel, vars>>

\* Ctrl-C.  CPython's own handler only makes a note; a recv() in the main thread
\* fails with EINTR, which Socket::Recv throws as any other error.  The handler
\* of netlink_signal.cpp calls exit().
Interrupt ==
    /\ Up /\ design # "other"
    /\ IF design = "exit" \/ at["main"] = "recv"
       THEN process' = "ended" /\ UNCHANGED tripped
       ELSE tripped' = TRUE /\ UNCHANGED process
    /\ UNCHANGED <<design, lock, at, kernel, vars>>

-----------------------------------------------------------------------------
(* The interpreter.                                                        *)

Wants(t) == IF t = "worker" THEN worker = "running" ELSE at[t] = "wait"

\* A thread that waits for the lock gets it.  The main thread looks for signals
\* before it goes on.
Acquire(t) ==
    /\ Up
    /\ lock = "nobody" /\ Wants(t)
    /\ lock' = t
    /\ CASE t = "main" -> Goes(t, "eval")
         [] t = "receiver" -> Goes(t, "call")
         [] t = "worker" -> UNCHANGED at
    /\ UNCHANGED <<design, kernel, tripped, process, vars>>

\* The interpreter, about to end, joins the worker thread, which is no daemon.
Shutdown ==
    /\ process' = "stopping"
    /\ Goes("main", "join")
    /\ Release("main")
    /\ Join

\* receive_signal only prints.  Otherwise KeyboardInterrupt ends the main thread,
\* and with it the process, unless a worker thread is there to wait for; when it
\* waits already, the wait ends.  A std::thread that still runs when it is
\* destroyed aborts the process, if the interpreter gets to destroy it.
HandleSignal ==
    /\ tripped
    /\ tripped' = FALSE
    /\ \/ /\ design = "thread"
          /\ Goes("main", "call")
          /\ UNCHANGED <<lock, process, vars>>
       \/ /\ design = "worker" /\ process = "running"
          /\ Shutdown
       \/ /\ \/ design \in {"single", "native"}
             \/ design = "worker" /\ (worker = "new" \/ process = "stopping")
          /\ process' \in IF Native THEN {"ended", "aborted"} ELSE {"ended"}
          /\ UNCHANGED <<at, lock, vars>>

Eval ==
    /\ Up
    /\ at["main"] = "eval"
    /\ \/ HandleSignal
       \/ /\ ~ tripped
          /\ Goes("main", "call")
          /\ UNCHANGED <<lock, tripped, process, vars>>
    /\ UNCHANGED <<design, kernel>>

-----------------------------------------------------------------------------
(* The main thread, beyond the point where it looks for signals.           *)

\* The monitor's run() starts the worker, then the native thread.
StartWorker ==
    /\ Up
    /\ design = "worker" /\ at["main"] = "call"
    /\ Start
    /\ at' = [main |-> "wait", receiver |-> "recv"]
    /\ Release("main")
    /\ UNCHANGED <<design, kernel, tripped, process>>

\* It prints and sleeps, or the scheduler does, and has the worker check the
\* pending events; sleeping lets the lock go.
Sleep ==
    /\ Up
    /\ design \notin {"single", "other"} /\ at["main"] = "call"
    /\ design = "worker" => worker # "new"
    /\ Submit
    /\ Goes("main", "sleep")
    /\ Release("main")
    /\ UNCHANGED <<design, kernel, tripped, process>>

\* From sleep after its time, or at once when a signal arrives; from the join by
\* a signal only, for nobody stops the worker.
Wake ==
    /\ Up
    /\ at["main"] = "sleep" \/ (at["main"] = "join" /\ tripped)
    /\ Goes("main", "wait")
    /\ UNCHANGED <<design, lock, kernel, tripped, process, vars>>

-----------------------------------------------------------------------------
(* Receiving.                                                              *)

\* The first design: recv() blocks and keeps the lock.
CallRecv(t) ==
    /\ Up
    /\ \/ t = "main" /\ design = "single"
       \/ t = "receiver" /\ design \in First
    /\ at[t] = "call"
    /\ Goes(t, "recv")
    /\ UNCHANGED <<design, lock, kernel, tripped, process, vars>>

\* recv() has a message; printing it lets the lock go.  A failure ends the
\* thread: the process, if it is the main thread.
RecvReturns(t) ==
    /\ Up
    /\ design \notin Fixed /\ at[t] = "recv"
    /\ \/ /\ overrun
          /\ Goes(t, "none")
          /\ IF t = "main" THEN process' = "ended" ELSE UNCHANGED process
          /\ UNCHANGED netlink
       \/ /\ ~ overrun /\ netlink > 0
          /\ netlink' = netlink - 1
          /\ Goes(t, "wait")
          /\ UNCHANGED process
    /\ Release(t)
    /\ UNCHANGED <<design, overrun, tripped, vars>>

\* A mistake: the callback does not acquire the lock.
NativeReceivesUnlocked ==
    /\ Up
    /\ design \in Fixed /\ at["receiver"] = "recv"
    /\ ~ overrun /\ netlink > 0
    /\ netlink' = netlink - 1
    /\ Goes("receiver", "call")
    /\ UNCHANGED <<design, lock, overrun, tripped, process, vars>>

\* The second design: recv() holds no lock, the callback waits for it.  A failure
\* is an exception that leaves a std::thread.
NativeReceives ==
    /\ Up
    /\ design \in Fixed /\ at["receiver"] = "recv"
    /\ \/ /\ overrun
          /\ process' = "aborted"
          /\ UNCHANGED <<netlink, at>>
       \/ /\ ~ overrun /\ netlink > 0
          /\ netlink' = netlink - 1
          /\ Goes("receiver", "wait")
          /\ UNCHANGED process
    /\ UNCHANGED <<design, lock, overrun, tripped, vars>>

\* A mistake: the callback does not let the lock go before the next recv().
CallbackKeepsLock ==
    /\ Up
    /\ design \in Fixed /\ at["receiver"] = "call"
    /\ Submit
    /\ Goes("receiver", "recv")
    /\ UNCHANGED <<design, lock, kernel, tripped, process>>

\* onReceiveUevent, which prints the message or makes a task of it.
Callback ==
    /\ Up
    /\ design \in Fixed /\ at["receiver"] = "call"
    /\ Submit
    /\ Goes("receiver", "recv")
    /\ Release("receiver")
    /\ UNCHANGED <<design, kernel, tripped, process>>

-----------------------------------------------------------------------------
(* The worker, and its users in other programs.                            *)

\* get() waits without the lock; what it returns is executed with it.
WorkerFetches ==
    /\ Up
    /\ Fetch
    /\ UNCHANGED <<design, lock, at, kernel, tripped, process>>

WorkerExecutes ==
    /\ Up
    /\ Execute
    /\ Release("worker")
    /\ UNCHANGED <<design, at, kernel, tripped, process>>

OtherUse ==
    /\ design = "other"
    /\ Callers \/ JoinReturns
    /\ UNCHANGED <<design, lock, at, kernel, tripped, process>>

-----------------------------------------------------------------------------
ProcInit ==
    /\ Init
    /\ design \in Designs
    /\ lock = "nobody"
    /\ at = [main |-> IF design = "other" THEN "none" ELSE "wait",
             receiver |-> CASE design = "native" -> "recv"
                            [] design \in First -> "wait"
                            [] OTHER -> "none"]
    /\ netlink = 0 /\ overrun = FALSE
    /\ tripped = FALSE /\ process = "running"

Main == \/ Eval \/ StartWorker \/ Sleep \/ Wake
        \/ CallRecv("main") \/ RecvReturns("main")
Receiver == CallRecv("receiver") \/ RecvReturns("receiver") \/ NativeReceives \/ Callback
Worker == WorkerFetches \/ WorkerExecutes
Locking == \E t \in {"main", "receiver", "worker"} : Acquire(t)

ProcNext == Broadcast \/ Interrupt \/ Locking \/ Main \/ Receiver \/ Worker \/ OtherUse

ProcSpec == ProcInit /\ [][ProcNext]_procVars

\* Each thread runs whenever it can, and the interpreter lock, whose holder is
\* made to give way to a thread that has waited for 5 ms, is fair.
FairProcSpec ==
    /\ ProcSpec
    /\ WF_procVars(Main) /\ WF_procVars(Receiver) /\ WF_procVars(Worker)
    /\ WF_procVars(JoinReturns /\ OtherUse)
    /\ \A t \in {"main", "receiver", "worker"} : SF_procVars(Acquire(t))

-----------------------------------------------------------------------------
ProcTypeOK ==
    /\ design \in Designs
    /\ lock \in {"nobody", "main", "receiver", "worker"}
    /\ at \in [{"main", "receiver"} ->
                  {"none", "wait", "eval", "call", "sleep", "join", "recv"}]
    /\ netlink \in 0..SockBuf /\ overrun \in BOOLEAN
    /\ tripped \in BOOLEAN
    /\ process \in {"running", "stopping", "ended", "aborted"}

\* No two threads run Python code at once: the main thread does so, and a thread
\* of C++ calls back, with the lock in hand, and the first design's recv() has it.
LockIsHeld ==
    \A t \in {"main", "receiver"} :
        at[t] \in {"eval", "call"} \/ (at[t] = "recv" /\ design \notin Fixed) => lock = t

\* Ctrl-C is not swallowed: the main thread stops, or the process, or the handler
\* of "thread" prints; and Ctrl-C again ends the process that waits for its
\* worker.  The first design needs messages that keep coming for that: its recv()
\* keeps the lock, and where the main thread calls it the signal may arrive just
\* before the call.
InterruptIsHandled ==
    design \in Fixed \cup {"exit", "other"} \/ []<><<Broadcast>>_procVars
    => /\ tripped ~> (process # "running" \/ (design = "thread" /\ ~ tripped))
       /\ (tripped /\ process = "stopping") ~> ~ Up

\* The main thread is never locked out, unless it was interrupted or the process
\* is gone; in the first design only messages let it run.
MainKeepsRunning ==
    design \in Fixed \/ (design \in First /\ []<><<Broadcast>>_procVars)
    => []<>(at["main"] \in {"eval", "join"} \/ ~ Up)

\* Every task put is executed, also while the interpreter waits for the worker
\* after Ctrl-C, unless a StopTask comes before it or the process ends.
TasksAreExecuted ==
    \A task \in Tasks :
        (worker # "new" /\ \E i \in 1..Len(put) : put[i] = task)
        ~> ((\E i \in 1..Len(ran) : ran[i] = task) \/ worker = "ended" \/ ~ Up)
=============================================================================
