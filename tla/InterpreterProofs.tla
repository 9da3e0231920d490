-------------------------- MODULE InterpreterProofs --------------------------
(***************************************************************************)
(* Machine-checked proofs about Interpreter, for any tasks and any number  *)
(* of messages, of programs and of interrupts.                             *)
(***************************************************************************)
EXTENDS Interpreter, WorkerThreadProofs

-----------------------------------------------------------------------------
(* What happens to the worker in the process is what WorkerThread allows.  *)

LEMMA SubmitIsNext == Submit => [Next]_vars
BY DEF Submit, Next, Callers, Items

LEMMA ProcStepIsNext == [ProcNext]_procVars => [Next]_vars
<1> SUFFICES ASSUME ProcNext PROVE [Next]_vars
  BY DEF procVars
<1>1. CASE Broadcast \/ Interrupt \/ Locking
  BY <1>1 DEF Broadcast, Interrupt, Locking, Acquire
<1>2. CASE Main
  <2>1. CASE Eval
    BY <2>1 DEF Eval, HandleSignal, Shutdown, Next, Callers
  <2>2. CASE StartWorker
    BY <2>2 DEF StartWorker, Next, Callers
  <2>3. CASE Sleep
    BY <2>3, SubmitIsNext DEF Sleep
  <2>4. CASE Wake \/ CallRecv("main") \/ RecvReturns("main")
    BY <2>4 DEF Wake, CallRecv, RecvReturns
  <2> QED
    BY <1>2, <2>1, <2>2, <2>3, <2>4 DEF Main
<1>3. CASE Receiver
  BY <1>3, SubmitIsNext DEF Receiver, CallRecv, RecvReturns, NativeReceives, Callback
<1>4. CASE Worker
  BY <1>4 DEF Worker, WorkerFetches, WorkerExecutes, Next, Thread
<1>5. CASE OtherUse
  BY <1>5 DEF OtherUse, Next
<1> QED
  BY <1>1, <1>2, <1>3, <1>4, <1>5 DEF ProcNext

\* In every program the tasks and the worker behave as WorkerThread says,
\* whatever the lock, the signals and the other threads do.
THEOREM UsesWorkerThread == ProcSpec => Spec
<1>1. ProcInit => Init
  BY DEF ProcInit
<1> QED
  BY <1>1, ProcStepIsNext, PTL DEF ProcSpec, Spec

\* So what is proved of the worker thread alone holds in every program.
THEOREM TasksInOrderInProcess ==
    ProcSpec => [](FirstInFirstOut /\ EndsWithStop)
BY UsesWorkerThread, TasksInOrder, OnlyStopEnds, PTL

-----------------------------------------------------------------------------
(* The lock.                                                               *)

Lock == ProcTypeOK /\ LockIsHeld

LEMMA LockInit == ProcInit => Lock
<1> SUFFICES ASSUME ProcInit PROVE Lock
  OBVIOUS
<1>1. /\ design \in Designs /\ lock = "nobody" /\ netlink = 0
      /\ overrun \in BOOLEAN /\ tripped \in BOOLEAN /\ process = "running"
  BY DEF ProcInit
<1>2. at = [main |-> at.main, receiver |-> at.receiver]
  BY DEF ProcInit
<1>3. at.main \in {"none", "wait"} /\ at.receiver \in {"none", "wait", "recv"}
  BY DEF ProcInit
<1>4. at.receiver = "recv" => design \in Fixed
  BY DEF ProcInit, Fixed
<1>5. ProcTypeOK
  BY <1>1, <1>2, <1>3, InterpreterAssumption DEF ProcTypeOK
<1>6. LockIsHeld
  BY <1>3, <1>4 DEF LockIsHeld
<1> QED
  BY <1>5, <1>6 DEF Lock

LEMMA LockStep == Lock /\ [ProcNext]_procVars => Lock'
<1> SUFFICES ASSUME Lock, [ProcNext]_procVars PROVE Lock'
  OBVIOUS
<1> USE InterpreterAssumption DEF Lock, ProcTypeOK, LockIsHeld, Goes, Release, kernel
<1>1. CASE Broadcast
  <2>1. SockBuf \in Nat /\ netlink \in 0..SockBuf
    OBVIOUS
  <2>2. netlink' = netlink \/ (netlink < SockBuf /\ netlink' = netlink + 1)
    BY <1>1 DEF Broadcast
  <2>3. netlink' \in 0..SockBuf
    BY <2>1, <2>2
  <2>4. overrun' = overrun \/ overrun' = TRUE
    BY <1>1 DEF Broadcast
  <2>5. overrun' \in BOOLEAN
    BY <2>4
  <2> QED
    BY <1>1, <2>3, <2>5 DEF Broadcast
<1>2. CASE Interrupt
  BY <1>2 DEF Interrupt
<1>3. ASSUME NEW t \in {"main", "receiver", "worker"}, Acquire(t)
      PROVE  Lock'
  BY <1>3 DEF Acquire, Wants
<1>4. CASE Eval
  <2>1. CASE HandleSignal
    BY <1>4, <2>1 DEF Eval, HandleSignal, Shutdown
  <2>2. CASE ~ HandleSignal
    BY <1>4, <2>2 DEF Eval
  <2> QED
    BY <2>1, <2>2
<1>5. CASE StartWorker
  BY <1>5 DEF StartWorker, Fixed
<1>6. CASE Sleep
  BY <1>6 DEF Sleep
<1>7. CASE Wake
  BY <1>7 DEF Wake
<1>8. ASSUME NEW t \in {"main", "receiver"}, CallRecv(t)
      PROVE  Lock'
  BY <1>8 DEF CallRecv
<1>9. ASSUME NEW t \in {"main", "receiver"}, RecvReturns(t)
      PROVE  Lock'
  BY <1>9 DEF RecvReturns
<1>10. CASE NativeReceives
  BY <1>10 DEF NativeReceives
<1>11. CASE Callback
  BY <1>11 DEF Callback
<1>12. CASE WorkerFetches
  BY <1>12 DEF WorkerFetches
<1>13. CASE WorkerExecutes
  BY <1>13 DEF WorkerExecutes
<1>14. CASE OtherUse
  BY <1>14 DEF OtherUse
<1>15. CASE UNCHANGED procVars
  BY <1>15 DEF procVars
<1> QED
  BY <1>1, <1>2, <1>3, <1>4, <1>5, <1>6, <1>7, <1>8, <1>9, <1>10, <1>11, <1>12,
     <1>13, <1>14, <1>15 DEF ProcNext, Locking, Main, Receiver, Worker

\* No two threads run Python code at once.
THEOREM LockIsExclusive == ProcSpec => [](ProcTypeOK /\ LockIsHeld)
<1>1. Lock => ProcTypeOK /\ LockIsHeld
  BY DEF Lock
<1> QED
  BY <1>1, LockInit, LockStep, PTL DEF ProcSpec
=============================================================================
