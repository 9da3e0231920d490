--------------------------- MODULE UeventMonitor ---------------------------
(***************************************************************************)
(* The uevent monitor of netlink/uevent_monitor/python_fixed: a native     *)
(* thread reads the netlink socket and calls back into Python, a worker    *)
(* thread executes the tasks this makes, and the main thread's scheduler   *)
(* has the worker look again, every interval, at the partitions that were  *)
(* added but are not mounted yet.                                          *)
(*                                                                         *)
(* A message is its number in emitted.  A partition is mounted or not:     *)
(* mount points are left out.  The unit of time is the check interval.     *)
(***************************************************************************)
EXTENDS Naturals, Sequences, FiniteSets, SequencesExt

CONSTANTS
    Devices,      \* names of partitions
    Expiry,       \* pending_expired_time_sec, in check intervals (6 in the code)
    SockBuf,      \* how many messages the socket's receive buffer holds
    MaxEvents,    \* bound: messages broadcast
    MaxChecks,    \* bound: checks in the task queue
    MaxFailures   \* bound: failures of psutil.disk_partitions

ASSUME UeventAssumption ==
    /\ Expiry \in Nat /\ SockBuf \in Nat \ {0}
    /\ MaxEvents \in Nat /\ MaxChecks \in Nat \ {0} /\ MaxFailures \in Nat

VARIABLES
    plugged,    \* partitions whose device is plugged in
    mounted,    \* the mount table
    emitted,    \* history: every message broadcast
    netlink,    \* messages in the socket's receive buffer
    overrun,    \* the kernel had to drop a message: recv() will fail with ENOBUFS
    hand,       \* the message the native thread has received and not passed on
    tasks,      \* task_queue of the worker: messages, and Check
    pending,    \* pending_event_list
    adding,     \* the event for which onPartitionAdd has refreshed the map
    rest,       \* what doCheckPendingEvent still has to go through of its old list
    late,       \* messages in rest that had expired when it began
    known,      \* dev_mountpoint_map
    age,        \* intervals since a message's receive_time
    seen,       \* history: add events whose partition was mounted at some moment since
    timer,      \* the scheduler's next check: "off", "entered" or "due"
    process,    \* "starting", "running" or "aborted"
    settled,    \* history: <<message, what was logged about it>>
    lost,       \* history: messages no longer anywhere
    failures    \* history: failures of psutil.disk_partitions

world == <<plugged, mounted>>
native == <<netlink, overrun, hand>>
outcome == <<settled, lost>>
list == <<pending, adding, rest, late>>
since == <<age, seen>>
vars == <<world, emitted, native, tasks, list, known, since, timer, process,
          outcome, failures>>

Check == 0
ChecksQueued == Cardinality({i \in DOMAIN tasks : tasks[i] = Check})

-----------------------------------------------------------------------------
(* The kernel, udev and the user.                                          *)

\* A message reaches the socket's buffer unless that is full.
Broadcast(kind, dev) ==
    LET m == Len(emitted) + 1
    IN  /\ m <= MaxEvents
        /\ emitted' = Append(emitted, [kind |-> kind, dev |-> dev])
        /\ IF Len(netlink) < SockBuf
           THEN netlink' = Append(netlink, m) /\ UNCHANGED <<overrun, lost>>
           ELSE overrun' = TRUE /\ lost' = lost \cup {m} /\ UNCHANGED netlink
        /\ UNCHANGED <<mounted, hand, tasks, list, known, since, timer, process,
                       settled, failures>>

Plug(d) == /\ d \notin plugged
           /\ plugged' = plugged \cup {d}
           /\ Broadcast("add", d)

Unplug(d) == /\ d \in plugged
             /\ plugged' = plugged \ {d}
             /\ Broadcast("remove", d)

\* Anything doProcessEvent returns from early: whole disks, other actions, the
\* kernel's own copy of a message (its DEVNAME does not begin with /dev); or a text
\* that onReceiveUevent refuses.
OtherUevent(d) == Broadcast("other", d) /\ UNCHANGED plugged

\* The add events that have their receive_time and are not settled yet; of other
\* messages it is never asked for.
Adds(S) == {m \in S \ {Check} : emitted[m].kind = "add"}
Aging == Adds(ToSet(tasks) \cup ToSet(rest) \cup ToSet(adding) \cup ToSet(pending))

Mount(d) == /\ d \in plugged \ mounted
            /\ mounted' = mounted \cup {d}
            /\ seen' = seen \cup {m \in Aging : emitted[m].dev = d}
            /\ UNCHANGED <<plugged, emitted, native, tasks, list, known, age, timer,
                           process, outcome, failures>>

\* Before the device is unplugged or some time afterwards.
Unmount(d) == /\ d \in mounted
              /\ mounted' = mounted \ {d}
              /\ UNCHANGED <<plugged, emitted, native, tasks, list, known, since, timer,
                             process, outcome, failures>>

\* One interval passes.
Tick == /\ process = "running"
        /\ timer' = IF timer = "entered" THEN "due" ELSE timer
        /\ age' = [m \in 1..MaxEvents |->
                      IF m \in Aging /\ age[m] <= Expiry THEN age[m] + 1 ELSE age[m]]
        /\ UNCHANGED <<world, emitted, native, tasks, list, known, seen, process,
                       outcome, failures>>

-----------------------------------------------------------------------------
(* The native thread.                                                      *)

\* recv() fails after an overrun; nobody catches the exception, so the thread
\* takes the process with it.
Receive ==
    /\ process = "running"
    /\ hand = << >>
    /\ \/ /\ overrun
          /\ process' = "aborted"
          /\ UNCHANGED native
       \/ /\ ~ overrun
          /\ netlink # << >>
          /\ hand' = <<Head(netlink)>>
          /\ netlink' = Tail(netlink)
          /\ UNCHANGED <<overrun, process>>
    /\ UNCHANGED <<world, emitted, tasks, list, known, since, timer, outcome, failures>>

\* The message gets its receive_time.
Received == seen' = seen \cup {m \in Adds(ToSet(hand)) : emitted[m].dev \in mounted}

\* onReceiveUevent returns at once: shorter than any message about a partition.
InvalidMessage ==
    /\ emitted[Head(hand)].kind = "other"
    /\ lost' = lost \cup {Head(hand)}
    /\ UNCHANGED <<tasks, seen>>

\* A mistake: a queue.LifoQueue.
OnReceiveUeventOnTop ==
    /\ process = "running"
    /\ hand # << >>
    /\ tasks' = hand \o tasks /\ Received
    /\ hand' = << >>
    /\ UNCHANGED <<world, emitted, netlink, overrun, list, known, age, timer, process,
                   outcome, failures>>

\* notifyObservers: onReceiveUevent parses the message and makes a task of it.
OnReceiveUevent ==
    /\ process = "running"
    /\ hand # << >>
    /\ hand' = << >>
    /\ \/ tasks' = tasks \o hand /\ Received /\ UNCHANGED lost
       \/ InvalidMessage
    /\ UNCHANGED <<world, emitted, netlink, overrun, list, known, age, timer, process,
                   settled, failures>>

-----------------------------------------------------------------------------
(* The main thread.                                                        *)

\* run(): the first look at the mount table, then the threads and the
\* scheduler; if the look fails, nobody catches that.
Run ==
    /\ process = "starting"
    /\ \/ /\ known' = mounted
          /\ process' = "running"
          /\ timer' = "entered"
          /\ UNCHANGED failures
       \/ /\ failures < MaxFailures
          /\ failures' = failures + 1
          /\ process' = "aborted"
          /\ UNCHANGED <<known, timer>>
    /\ UNCHANGED <<world, emitted, native, tasks, list, since, outcome>>

\* A mistake: the check is not entered into the scheduler again.
CheckPendingEventOnce ==
    /\ process = "running"
    /\ timer = "due"
    /\ ChecksQueued < MaxChecks
    /\ tasks' = Append(tasks, Check)
    /\ timer' = "off"
    /\ UNCHANGED <<world, emitted, native, list, known, since, process, outcome, failures>>

\* checkPendingEvent: a task for the worker, and the next check in an interval.
CheckPendingEvent ==
    /\ process = "running"
    /\ timer = "due"
    /\ ChecksQueued < MaxChecks
    /\ tasks' = Append(tasks, Check)
    /\ timer' = "entered"
    /\ UNCHANGED <<world, emitted, native, list, known, since, process, outcome, failures>>

-----------------------------------------------------------------------------
(* The worker thread.                                                      *)

Log(m, verdict) == settled' = Append(settled, <<m, verdict>>) /\ UNCHANGED lost

\* A mistake: the map is taken for good as it is.
UpdateMountpointSkipped(m) ==
    /\ adding' = <<m>>
    /\ UNCHANGED <<known, pending, outcome, failures>>

\* onPartitionAdd begins: it refreshes the map for the event.
UpdateMountpoint(m) ==
    /\ known' = mounted
    /\ adding' = <<m>>
    /\ UNCHANGED <<pending, outcome, failures>>

\* updateMountpoint raises: the task ends, the worker's except clause logs it,
\* and what the task held in its hands is gone.
UpdateMountpointFails(held) ==
    /\ failures < MaxFailures
    /\ failures' = failures + 1
    /\ lost' = lost \cup held
    /\ UNCHANGED <<settled, pending, adding, known>>

\* A mistake: a partition that is mounted is reported and stays pending.
OnPartitionAddTwice ==
    /\ process = "running"
    /\ adding # << >>
    /\ pending' = pending \o adding
    /\ IF emitted[Head(adding)].dev \in known
       THEN Log(Head(adding), "added")
       ELSE UNCHANGED outcome
    /\ adding' = << >>
    /\ UNCHANGED <<world, emitted, native, tasks, rest, late, known, since, timer,
                   process, failures>>

\* onPartitionAdd goes on, by the map, whatever was mounted or unmounted meanwhile:
\* it reports the partition or puts the event at the end of pending_event_list.
OnPartitionAdd ==
    /\ process = "running"
    /\ adding # << >>
    /\ IF emitted[Head(adding)].dev \in known
       THEN Log(Head(adding), "added") /\ UNCHANGED pending
       ELSE pending' = pending \o adding /\ UNCHANGED outcome
    /\ adding' = << >>
    /\ UNCHANGED <<world, emitted, native, tasks, rest, late, known, since, timer,
                   process, failures>>

\* onPartitionRemove looks the partition up in the map as it is: by now it may
\* be unmounted, the map remembers it from the last look.
OnPartitionRemove(m) ==
    /\ Log(m, IF emitted[m].dev \in known THEN "removed" ELSE "unknown")
    /\ UNCHANGED <<pending, adding, known, failures>>

WorkerIdle == process = "running" /\ adding = << >> /\ rest = << >> /\ tasks # << >>
NextTask == Head(tasks)

DoProcessEvent ==
    /\ WorkerIdle
    /\ NextTask # Check
    /\ tasks' = Tail(tasks)
    /\ CASE emitted[NextTask].kind = "add" ->
                UpdateMountpoint(NextTask) \/ UpdateMountpointFails({NextTask})
         [] emitted[NextTask].kind = "remove" -> OnPartitionRemove(NextTask)
         [] OTHER -> /\ Log(NextTask, "ignored")
                     /\ UNCHANGED <<pending, adding, known, failures>>
    /\ UNCHANGED <<world, emitted, native, rest, late, since, timer, process>>

\* A mistake: >= instead of >.
ExpiredNowOrOlder == {m \in ToSet(pending) : age[m] >= Expiry}

\* Messages received more than pending_expired_time_sec ago.
ExpiredNow == {m \in ToSet(pending) : age[m] > Expiry}

\* A mistake: the loop runs over a copy, and the list itself is kept.
DoCheckPendingEventCopy ==
    /\ WorkerIdle
    /\ NextTask = Check
    /\ tasks' = Tail(tasks)
    /\ rest' = pending
    /\ late' = ExpiredNow
    /\ UNCHANGED <<world, emitted, native, pending, adding, known, since, timer,
                   process, outcome, failures>>

\* doCheckPendingEvent begins: it takes the list and leaves an empty one.
DoCheckPendingEvent ==
    /\ WorkerIdle
    /\ NextTask = Check
    /\ tasks' = Tail(tasks)
    /\ rest' = pending
    /\ pending' = << >>
    /\ late' = ExpiredNow
    /\ UNCHANGED <<world, emitted, native, adding, known, since, timer, process,
                   outcome, failures>>

\* One turn of its loop; each looks at the mount table anew.
CheckNextEvent ==
    /\ process = "running"
    /\ adding = << >> /\ rest # << >>
    /\ LET m == Head(rest)
       IN  \/ /\ m \in late
              /\ Log(m, "expired")
              /\ rest' = Tail(rest)
              /\ UNCHANGED <<pending, adding, known, failures>>
           \/ /\ m \notin late
              /\ UpdateMountpoint(m)
              /\ rest' = Tail(rest)
           \/ /\ m \notin late
              /\ UpdateMountpointFails(ToSet(rest))
              /\ rest' = << >>
    /\ late' = late \cap ToSet(rest')
    /\ UNCHANGED <<world, emitted, native, tasks, since, timer, process>>

-----------------------------------------------------------------------------
Init ==
    /\ plugged \in SUBSET Devices
    /\ mounted \in SUBSET plugged
    /\ emitted = << >> /\ netlink = << >> /\ overrun = FALSE /\ hand = << >>
    /\ tasks = << >> /\ pending = << >> /\ adding = << >>
    /\ rest = << >> /\ late = {}
    /\ known = {} /\ timer = "off" /\ process = "starting"
    /\ age = [m \in 1..MaxEvents |-> 0] /\ seen = {}
    /\ settled = << >> /\ lost = {} /\ failures = 0

World == \E d \in Devices :
            Plug(d) \/ Unplug(d) \/ OtherUevent(d) \/ Mount(d) \/ Unmount(d)
Native == Receive \/ OnReceiveUevent
Main == Run \/ CheckPendingEvent
Worker == DoProcessEvent \/ DoCheckPendingEvent \/ CheckNextEvent \/ OnPartitionAdd

\* std::terminate has ended the process.
Aborted == process = "aborted" /\ UNCHANGED vars

Next == World \/ Tick \/ Native \/ Main \/ Worker \/ Aborted

Spec == Init /\ [][Next]_vars

\* Time passes and each of the three threads keeps running.
FairSpec == /\ Spec
            /\ WF_vars(Tick) /\ WF_vars(Native) /\ WF_vars(Main) /\ WF_vars(Worker)

-----------------------------------------------------------------------------
Ids == 1..Len(emitted)

TypeOK ==
    /\ plugged \subseteq Devices /\ mounted \subseteq Devices /\ known \subseteq Devices
    /\ emitted \in Seq([kind : {"add", "remove", "other"}, dev : Devices])
    /\ Len(emitted) <= MaxEvents
    /\ netlink \in Seq(Ids) /\ Len(netlink) <= SockBuf
    /\ overrun \in BOOLEAN /\ timer \in {"off", "entered", "due"}
    /\ hand \in Seq(Ids) /\ Len(hand) <= 1
    /\ tasks \in Seq(Ids \cup {Check})
    /\ pending \in Seq(Ids) /\ adding \in Seq(Ids) /\ Len(adding) <= 1
    /\ rest \in Seq(Ids) /\ late \subseteq ToSet(rest)
    /\ age \in [1..MaxEvents -> 0..(Expiry + 1)] /\ seen \subseteq Ids
    /\ process \in {"starting", "running", "aborted"}
    /\ settled \in Seq(Ids \X {"added", "removed", "unknown", "ignored", "expired"})
    /\ lost \subseteq Ids /\ failures \in 0..MaxFailures

\* Everything on its way, from the longest under way to the newest, checks too.
Pipeline == pending \o adding \o rest \o tasks \o hand \o netlink

\* The messages of s, whatever checks are between them, are in the order in which
\* they were broadcast, and none is there twice.
Increasing(s) ==
    \A i, j \in 1..Len(s) : i < j /\ s[i] # Check /\ s[j] # Check => s[i] < s[j]

\* Messages are nowhere overtaken on their way through the threads, whatever is
\* taken back into the pending list: the oldest is always in front.
PipelineInOrder == Increasing(Pipeline)

\* Every message broadcast is in exactly one place: on its way, or logged, once,
\* or lost, and then the socket's buffer was full or psutil failed, or it was no
\* message about a partition.
OnWay == ToSet(Pipeline) \ {Check}
SettledIds == {settled[i][1] : i \in 1..Len(settled)}
ExactlyOnce ==
    /\ OnWay \cup SettledIds \cup lost = Ids
    /\ OnWay \cap SettledIds = {} /\ OnWay \cap lost = {} /\ SettledIds \cap lost = {}
    /\ \A i, j \in 1..Len(settled) : i # j => settled[i][1] # settled[j][1]
    /\ \A m \in lost : emitted[m].kind = "other" \/ overrun \/ failures > 0

\* Only an add event that waited for longer than the limit is logged as expired.
ExpiredAreLate ==
    \A i \in 1..Len(settled) :
        settled[i][2] = "expired" => /\ emitted[settled[i][1]].kind = "add"
                                     /\ age[settled[i][1]] > Expiry

\* What is logged later than a newer message is an add event, which waited for its
\* partition to be mounted: a removal is never logged out of turn, though it may
\* be before the add that it follows, when that still waits.
OnlyAddsAreOvertaken ==
    \A i, j \in 1..Len(settled) :
        i < j /\ settled[i][1] > settled[j][1] => emitted[settled[j][1]].kind = "add"

\* A partition is reported as added only if it was mounted at some moment since the
\* event was received: it may be unmounted again by then, as onPartitionAdd tests a
\* map, but no event is held against a map that is older than itself, whatever was
\* mounted in an earlier life of the partition and however long the event waited.
AddedWereMounted ==
    \A i \in 1..Len(settled) : settled[i][2] = "added" => settled[i][1] \in seen

\* No event waits for ever: each is reported, expires, or is lost, unless the
\* process aborts.
EveryEventSettles ==
    \A m \in 1..MaxEvents :
        (m \in OnWay) ~> (m \notin OnWay \/ process = "aborted")

-----------------------------------------------------------------------------
(* Why it is safe: the inductive invariant.                                *)

\* Every message of S was broadcast before every one of T.
Before(S, T) == \A m \in S \ {Check} : \A n \in T \ {Check} : m < n

\* Each place is in order, and older than what is behind it.
OrderInv ==
    LET P == ToSet(pending)  A == ToSet(adding)  R == ToSet(rest)
        T == ToSet(tasks)    H == ToSet(hand)    N == ToSet(netlink)
    IN  /\ Increasing(pending) /\ Increasing(rest) /\ Increasing(tasks) /\ Increasing(netlink)
        /\ Before(P, A \cup R \cup T \cup H \cup N) /\ Before(A, R \cup T \cup H \cup N)
        /\ Before(R, T \cup H \cup N) /\ Before(T, H \cup N) /\ Before(H, N)

\* What is looked at again is the news of a partition; what is about to be given
\* up has waited for too long.
PendingInv ==
    /\ \A m \in ToSet(pending) \cup ToSet(adding) \cup ToSet(rest) :
          emitted[m].kind = "add"
    /\ \A m \in late : age[m] > Expiry

UeventInv == TypeOK /\ OrderInv /\ ExactlyOnce /\ PendingInv /\ ExpiredAreLate

\* The messages that the worker has not seen yet are newer than all it has logged.
Coming == ToSet(tasks) \cup ToSet(hand) \cup ToSet(netlink)
LogInv == Before(SettledIds, Coming) /\ OnlyAddsAreOvertaken

\* What is mounted now, or was when the map was refreshed for an event in hand, was
\* mounted since the events about it were received.
SeenInv ==
    /\ \A m \in Aging : emitted[m].dev \in mounted => m \in seen
    /\ \A m \in ToSet(adding) : emitted[m].dev \in known => m \in seen
    /\ AddedWereMounted
=============================================================================
