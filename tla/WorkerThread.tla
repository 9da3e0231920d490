---------------------------- MODULE WorkerThread ----------------------------
(***************************************************************************)
(* worker_thread.py of netlink/uevent_monitor/python_fixed: a thread that  *)
(* executes the tasks of a queue until it meets the one that stop() puts   *)
(* there.  Any thread puts tasks, also a running task does.                *)
(***************************************************************************)
EXTENDS Naturals, Sequences

CONSTANTS
    Tasks,     \* the tasks that may be put, each at most once
    Raising,   \* those whose call raises an exception
    Stops      \* the StopTasks that calls of stop() make

ASSUME WorkerAssumption == Raising \subseteq Tasks /\ Tasks \cap Stops = {}

VARIABLES
    queue,     \* task_queue
    worker,    \* the thread: "new", "waiting" in get(), "running" a task, "ended"
    current,   \* what it has fetched, as a sequence of at most one
    joiner,    \* the thread that joins it: "no", "waiting" in join(), "returned"
    put,       \* history: everything put so far
    ran        \* history: everything executed so far

vars == <<queue, worker, current, joiner, put, ran>>

Items == Tasks \cup Stops

-----------------------------------------------------------------------------
\* putTask, by any thread; stop() puts a StopTask.
PutTask(item) ==
    /\ \A i \in 1..Len(put) : put[i] # item
    /\ queue' = Append(queue, item)
    /\ put' = Append(put, item)
    /\ UNCHANGED <<worker, current, joiner, ran>>

Start ==
    /\ worker = "new"
    /\ worker' = "waiting"
    /\ UNCHANGED <<queue, current, joiner, put, ran>>

\* A mistake: a stack instead of a queue.
FetchNewest ==
    /\ worker = "waiting" /\ queue # << >>
    /\ current' = <<queue[Len(queue)]>>
    /\ queue' = SubSeq(queue, 1, Len(queue) - 1)
    /\ worker' = "running"
    /\ UNCHANGED <<joiner, put, ran>>

\* task_queue.get() returns the oldest task.
Fetch ==
    /\ worker = "waiting" /\ queue # << >>
    /\ current' = <<Head(queue)>>
    /\ queue' = Tail(queue)
    /\ worker' = "running"
    /\ UNCHANGED <<joiner, put, ran>>

\* A mistake: the clause for StopWorkerThreadException comes second.
AfterTaskCaughtAll(item) == worker' = "waiting"

\* A mistake: only StopWorkerThreadException is caught.
AfterTaskUncaught(item) ==
    worker' = IF item \in Stops \cup Raising THEN "ended" ELSE "waiting"

\* What run() does after the task: only StopWorkerThreadException ends the loop,
\* any other exception is logged.
AfterTask(item) == worker' = IF item \in Stops THEN "ended" ELSE "waiting"

Execute ==
    /\ worker = "running"
    /\ ran' = Append(ran, current[1])
    /\ AfterTask(current[1])
    /\ current' = << >>
    /\ UNCHANGED <<queue, joiner, put>>

\* join(): an error before start(), so the caller comes after it.
Join ==
    /\ joiner = "no" /\ worker # "new"
    /\ joiner' = "waiting"
    /\ UNCHANGED <<queue, worker, current, put, ran>>

JoinReturns ==
    /\ joiner = "waiting" /\ worker = "ended"
    /\ joiner' = "returned"
    /\ UNCHANGED <<queue, worker, current, put, ran>>

-----------------------------------------------------------------------------
Init ==
    /\ queue = << >> /\ worker = "new" /\ current = << >> /\ joiner = "no"
    /\ put = << >> /\ ran = << >>

Callers == (\E item \in Items : PutTask(item)) \/ Start \/ Join
Thread == Fetch \/ Execute
Next == Callers \/ Thread \/ JoinReturns

Spec == Init /\ [][Next]_vars

-----------------------------------------------------------------------------
TypeOK ==
    /\ queue \in Seq(Items) /\ put \in Seq(Items) /\ ran \in Seq(Items)
    /\ worker \in {"new", "waiting", "running", "ended"}
    /\ current \in Seq(Items) /\ Len(current) = IF worker = "running" THEN 1 ELSE 0
    /\ joiner \in {"no", "waiting", "returned"}

\* Everything put is executed, being executed or in the queue, once and in the
\* order in which it was put, whatever exceptions the tasks raise.
FirstInFirstOut ==
    /\ Len(put) = Len(ran) + Len(current) + Len(queue)
    /\ \A i \in 1..Len(ran) : ran[i] = put[i]
    /\ \A i \in 1..Len(current) : current[i] = put[Len(ran) + i]
    /\ \A i \in 1..Len(queue) : queue[i] = put[Len(ran) + Len(current) + i]

\* The thread ends with the first StopTask, and only with one.
EndsWithStop ==
    /\ \A i \in 1..Len(ran) : ran[i] \in Stops => i = Len(ran) /\ worker = "ended"
    /\ worker = "ended" => Len(ran) > 0 /\ ran[Len(ran)] \in Stops

\* When join() has returned, every task put before the first StopTask has been
\* executed, and none put after it has been.
JoinMeansDone ==
    joiner = "returned" =>
        /\ \E i \in 1..Len(put) : put[i] \in Stops
        /\ \A i \in 1..Len(put) :
              i <= Len(ran) <=> \A j \in 1..(i - 1) : put[j] \notin Stops

\* After start() and stop() the thread ends, whoever keeps putting tasks and
\* whatever they raise.
StopEndsThread ==
    (worker # "new" /\ \E i \in 1..Len(put) : put[i] \in Stops) ~> worker = "ended"
=============================================================================
