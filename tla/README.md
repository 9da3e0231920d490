# A verification project for the Linux network programming tutorial

TLA+ models, TLC runs and TLAPS proofs about the client and server programs of
this repository and the two socket libraries under them, `lib/c` and `lib/cxx`.
The programs are small, but each has two or more parties (client, server,
kernel, user, timer, device) whose steps interleave, and the interesting
behaviour is there: short reads and writes, peers that vanish, answers that
race a timeout, events that race a change of state.

## The system

| Part | Where | State it keeps | Operations | Hard behaviour |
|------|-------|----------------|------------|----------------|
| Length-prefixed blocks | `lib/{c,cxx}/blocks.*`, `tcp/send_block` | position in the stream on both sides, the static `read_buf`/`buf_size` of `GetBlock` | `PutBlock`, `GetBlock`, `SendAll`, `RecvAll`, `Send` | arbitrary chunking, short sends, signals, a peer killed inside a frame, unsigned wrap of `block_length+1` |
| Uevent monitor | `netlink/uevent_monitor` | netlink socket queue, task queue of `WorkerThread`, `pending_event_list`, `dev_mountpoint_map`, scheduler | native receiver thread, `onReceiveUevent`, `doProcessEvent`, `doCheckPendingEvent`, `putTask`, `stop` | three threads and the mount table; a stale map; an exception inside a loop; expiry |
| First design, and the interpreter | `netlink/uevent_monitor/python_failed`, the threads of `python_fixed` | interpreter lock, SIGINT flag, place of each thread | `recv` of the C++ module, callback, `sleep`, `join` at exit, signal handlers | `recv()` that keeps the lock, Ctrl-C with a worker that nobody stops, `ENOBUFS` |
| Connect with a timeout | `lib/c/connect_nonb.c`, `Socket::Connect(timeout)`, `tcp/set_connect_timeout`, `dns/tcp_ping` | descriptor flags, `fd_set`s, remaining time | `connect_nonb`, `Select`, `ScopedFcntl` | late answer against timeout, `EINTR` restart, flags restored or not, descriptor closed once |
| Echo sessions | `tcp/str_echo`, `lib/c/readline.c`, `lib/cxx/{read_buffer,socket_istream}.*` | read-ahead buffers, the user's input | `str_cli`, `str_echo`, `Readline`, `underflow` | lock-step dialogue over a byte stream, lines without newline, both ends sending |
| Datagram clients and servers | `udp/send_local`, `unix_domain/send_dgram` | receive buffers, ports, socket paths and whose they are | `Sendto`, `Recvfrom`, `Bind`, `Unlink` | loss, full buffers, ports and process ids used again, paths that outlive their socket, servers that start together, killed processes |
| Iterative stream servers | `tcp/daytime`, `tcp/send_fixed_length_bytes`, `tcp/send_all_then_close` | listen queue, one connection | `Accept` loop, `RecvAll`, shutdown of one direction | one bad client ends the whole server, aborted connections |
| Formatting and addresses | `lib/cxx/format.hpp`, `sock_ntop`, `socket_address.cpp`, `utility/endian` | none | `util::Format`, `Sock_ntop`, conversions | replacement-field grammar, numbering modes |
| Name service tools | `dns` (but `tcp_ping`) | none | one library call, printing | none: sequential wrappers of `getaddrinfo` |
| Vendored web pages | `netlink/uevent_monitor/doc` | - | - | not part of the program |

Client and server processes interact only through kernel objects (a TCP stream,
datagrams, a netlink socket, the mount table); the monitor's threads interact
through the task queue, the scheduler and the GIL.

What makes each part correct, and where it is stated:

* Blocks: each block arrives once, whole and in order, however the stream is cut
  (`BlocksDelivered`, `FramesWhole`, `ImplementsChannel`); an end of the stream inside a
  frame is never taken for a block, nor for the end of the list (the other
  conjuncts of `BlocksDelivered`); nobody waits for ever (`NobodyWaitsForever`); the reader stays inside its buffer (`BufferHoldsBlock`).
* Uevent monitor: every message is settled once or lost for a known reason
  (`ExactlyOnce`, `EveryEventSettles`), none overtakes another on its way
  (`PipelineInOrder`) nor in the log, unless the older one is a partition that had to
  wait (`OnlyAddsAreOvertaken`), what is reported as added was mounted since its event
  was received (`AddedWereMounted`), and nothing is given up early (`ExpiredAreLate`). Its worker executes tasks in order and ends with `stop()` only
  (`FirstInFirstOut`, `EndsWithStop`, `JoinMeansDone`, `StopEndsThread`).
* Threads of the interpreter: one at a time runs Python code (`LockIsHeld`), none is
  locked out for ever (`MainKeepsRunning`, `TasksAreExecuted`), and Ctrl-C has its
  effect (`InterruptIsHandled`).
* Connect with a timeout: success means a connection (`SuccessIsUsable`), signals do
  not stretch the wait (`TimeIsKept`, `CallReturns`), and the descriptor comes back as
  the caller may expect it (`ClosedOnce`, `FlagsRestored`).
* Echo sessions: each line is answered before the next is sent
  (`AnswerBeforeNextLine`), "server terminated" is said only when it has
  (`PrematureIsTrue`, `FalseAlarmByEmptyLine`), a client that ends normally does not
  take the server with it (`ServerOutlivesClient`), the two do not block each other
  (`NoMutualWait`), and the session ends (`SessionEnds`).
* Iterative servers: nobody is answered before he was heard, so whoever waits for an
  answer and ends normally was heard (`AnsweredWhenHeard`); no client takes the server
  with it unless it is killed (`FailsByClientOnly`); a stream that is printed is whole unless
  its sender was killed (`MessageIsWhole`); everybody gets his turn (`EveryoneServed`).
* Datagrams: a client prints the answer to its own request (`AnswerIsMine`), a request
  is handled and answered once or lost for a known reason (`ExactlyOnce`), clients that
  end normally do not take a server with them (`ServerFailsByKill`), servers that
  start together do not unlink each other away (`ServerIsReached`), and a client whose
  request is not lost does not wait for ever (`ClientIsAnswered`).

## Which module models what

| Module | Part | Proofs |
|--------|------|--------|
| `BlockStream`, `BlockChannel` | blocks over a byte stream; the abstract channel they implement | `BlockStreamProofs` |
| `UeventMonitor` | `python_fixed` with its three threads | `UeventMonitorProofs` |
| `WorkerThread` | `worker_thread.py` for itself, as a component | `WorkerThreadProofs` |
| `Interpreter` | `python_failed` and the threads of `python_fixed`: interpreter lock, Ctrl-C, exit, around `WorkerThread` | `InterpreterProofs` |
| `ConnectTimeout` | connect with a timeout, C and C++ | `ConnectTimeoutProofs` |
| `EchoSession` | one session of the echo client and server, four clients | `EchoSessionProofs` |
| `IterativeServer` | daytime, sixteen bytes, streamer: queue, server, clients | `IterativeServerProofs` |
| `Datagram` | UDP and Unix datagram clients and servers in the three languages | `DatagramProofs` |

`MC<Module>` holds what the runs need beyond the constants of the `.cfg` files.
Definitions whose comment begins with "A mistake" are not part of a
specification: each is the form a definition would have with a plausible bug,
kept to show that the properties would notice it.

### `BlockStream`: blocks over a byte stream

* `KernelTakes`, `SendReturns`, `SendCutShort`, `SendEintr`, `SendReset`: one `send()`
  call as the kernel serves it. `NextPart` is the control of `PutBlock` and of
  `client`, which puts the blocks one after the other, the empty one last, and
  closes. The languages differ in what follows a short count: C's `Send` ends
  the process, C++'s `SendAll` sends the rest, Python's `put_block` drops the count.
* `Recv`, `HeaderRead`, `BodyRead`, `EndOfStream`: `RecvAll` of the header and of the
  body in `GetBlock`, and the loop of `server`. `bufSize` is the static buffer of the
  C version; `GrownTo` computes `block_length+1` modulo `Modulus` as the code does.
* A byte is identified by its frame and its place in it, so that "the block
  arrived" is about identity and not about length only.

`BlockChannel` says what the pair promises: whole blocks, once, in order;
a server that gives up has had all that was put whole. `ImplementsChannel` is the
refinement, for a C or C++ client.

A signal cuts a blocked `send()` short only if its handler returns and the
call is not restarted, or if the process is stopped and continued (Ctrl-Z and `fg`)
after some bytes were taken. The tutorial's programs install no handler; the
library functions are there for programs that do.

### `UeventMonitor`: three threads and the mount table

`emitted` is everything broadcast. A message goes from the socket buffer (`netlink`)
through the native thread (`hand`), the task queue (`tasks`) and, for a partition
that is not mounted yet, `pending` (`pending_event_list`); `rest` is what the loop of
`doCheckPendingEvent` still has to look at. `Pipeline` is all these places, one behind
the other, with `adding`, the event that `onPartitionAdd` has in hand; the checks of the scheduler (`Check`), which stand in the task queue
between the messages, are left out where messages are compared (`Increasing`, `Before`). `known` is `dev_mountpoint_map`: the mount
table as it was at the last look. `settled` is the log, `lost` what no log entry will
ever come for. `Plug`, `Unplug`, `Mount`, `Unmount`, `OtherUevent` are udev and the user;
`Receive`, `OnReceiveUevent` the native thread; `Run`, `CheckPendingEvent` the main
thread; `DoProcessEvent`, `DoCheckPendingEvent`, `CheckNextEvent`, `OnPartitionAdd` the worker.

`onPartitionAdd` takes two steps, because the user mounts and unmounts meanwhile:
`UpdateMountpoint` reads the table, `OnPartitionAdd` tests what it read and reports. So a
partition may be unmounted again when it is reported as added, and may have been
mounted in time and be put on the list. What the code does assure is that the map is
younger than the event: `seen` holds the add events whose partition was mounted at
some moment since `onReceiveUevent` gave them their time, and only those are reported
(`AddedWereMounted`). An event whose time is over at a check is given up without a
look, mounted or not; and one that still waits when its partition is unplugged and
plugged in again is reported with the new one's mount, which makes two reports.

A text that `onReceiveUevent` refuses as too short makes no task (`InvalidMessage`). The
kernel sends none about a partition, so only `OtherUevent`'s messages can be such.
`disk_partitions` is one step: it reads `/proc/mounts`, a few lines, in one go.

`psutil.disk_partitions` may fail at each look (`UpdateMountpointFails`): the worker
logs the exception and what the task held is lost; before the threads run, it
ends the program.

### `WorkerThread`

`PutTask` by any thread, `Fetch` and `Execute` by the worker, `Start` and `Join`. What an
execution raises decides how `run()` goes on (`AfterTask`). `UeventMonitor` uses the
component in the form this module shows to be right: a queue, one task at a time.

### `Interpreter`

The composition of `WorkerThread`, which it extends, with the rest of the process:
every step of the worker thread is a step here that also needs, keeps or lets go
the interpreter lock. `design` is the program: the three of `python_failed`, where the main thread or a
Python thread calls `recv()` of the C++ module, with or without the signal handler
of `netlink_signal.cpp`; the two of `python_fixed`, whose native thread calls back;
and any other user of a worker thread, so that `stop()` and `join()`, which the
monitors never call, are exercised too.

* `Acquire` is the lock, `Eval` the point where the main thread looks for signals,
  `HandleSignal` what follows: `receive_signal` prints, or `KeyboardInterrupt` ends the
  main thread, and the interpreter joins the worker (`Shutdown`), which is no daemon.
  Nobody has stopped it, so the process stays until Ctrl-C is pressed again.
* `CallRecv` and `RecvReturns` are the first design's `recv()`: the lock is held all the
  while, so the main thread runs only as long as messages keep coming.
  `NativeReceives` and `Callback` are the second design's.
* A lost message leaves the socket with `ENOBUFS` (`overrun`): the first design's thread
  ends, the second's exception leaves a `std::thread` and aborts the process.

### `Datagram`

A datagram is the client whose request it is, or whose request it answers.
`owner` maps an address to the process that bound it, which for a path may be a
process that is gone: `Reached` says whom `sendto()` finds. `Ends` is a process that
ends, with its socket and what was in the buffer.

* `BindClient`, `SendUnix`, or `SendUdp`; `ReceiveAnswer`, `CloseClient` are the client. Its address
  is made of its process id, or is a free port: both are used again when nobody has
  them (`Free`).
* `LookOrUnlink`, `UnlinkFound`, `BindServer` are a server's start, in steps because another
  server may start at the same time; Python asks whether the path exists before
  it removes it. `ReceiveRequest` and `SendAnswer` are its loop.
* `Kill` is a signal to any process at any time, for a server the only end there is.
* UDP drops a datagram that finds nobody or no room (`lost`); over Unix sockets the
  sender blocks while there is no room, and fails when nobody is there.

### `ConnectTimeout`

The states of `pc` are the places where the function can be overtaken: before
`connect()`, in `select()`, looking at `SO_ERROR`, and the caller's end. `left` is what
`select()` has written back to the `timeval` (Linux), which the `EINTR` loop of `Select`
passes on. `language` decides whether 0 means no timeout, who closes the
descriptor, and when the flags are restored (by hand in C, by `ScopedFcntl` in C++).

### `EchoSession`

Both directions of the connection are queues of bounded capacity. `ReadInput`,
`SendLine`, `GetLine`, `LineCutShort` are `str_cli`; `FillBuffer` is the `read()` of whichever
read-ahead buffer the client uses; `LineEnds` and `SendlineEnd` hold the limits of 1023
bytes, which differ from client to client. `ServerRecv`, `ServerSend`, `ServerEof` are
`str_echo`. `Reset` is what TCP does with a connection closed with bytes unread.
`StaleLine` is the second C++ client after its `istream` has broken: `std::getline`
leaves the old line where it is, and the client prints it again.

### `IterativeServer`

`queue` holds established connections in the order in which `Accept` will return
them; `link` is the server's end of each. One connection at a time goes through
`Prepare`, `ServerRecv`, `ServerSend`, `Close`, as far as the `program` has these steps. Any failure
of a call ends the server (`Fail`), and the kernel then resets what it held
(`CloseAll`). The streamer's server serves one connection and ends.

`got` is what the server has received of each client, and is kept when the
connection is closed: what a client was told can be compared with what the
server had heard. A streamer is told nothing. It ends when its bytes are sent,
also in the queue of a server that will never accept it, so no property says that
a streamer that ends normally was heard; `MessageIsWhole` is about the one accepted.

`Shutdown` of one direction fails only on a connection that was reset: for the
server it is a case of `Prepare`, for the client, which has sent nothing yet, of
`ClientReset`. Python's `accept()` is not repeated after `ECONNABORTED`; the server then
ends, as it does a step later when it is given the connection that was reset.

## What is checked

Small instances keep the cases that matter: buffers smaller than a message, so
that every call can be cut anywhere and senders do block; at least two of
whatever can be confused (blocks, lines, devices, clients); one more than a
limit (clients than the queue holds, a line than `maxlen`, a block than the buffer).

| Run | Shows | Bounds |
|-----|-------|--------|
| `blocks` | C or C++ client, server in any language: nothing lost, doubled, mixed, no torn end taken for a good one; `GetBlock`'s static buffer is large enough; both ends stop; `ImplementsChannel`; the invariant `InStep` | every list of up to 3 blocks of 1-3 bytes, header 2 bytes, buffers 3 bytes; all chunkings, signals, kills |
| `blocks_py` | Python client, C server: both ends stop even when out of step | four lists of blocks, lengths modulo 4 |
| `blocks_short_send` | **violated**: a short send leaves a torn frame (Python) | same, no kills |
| `blocks_longest` | **violated**: `block_length+1` wraps for the longest block | modulus 4 |
| `uevent_safety` | order under way and in the log, exactly-once, expiry, "added" only what was mounted since | 2 devices, 3 messages, socket buffer 2, one failure, expiry after 1 interval |
| `uevent_live` | every message settles | 1 device |
| `interpreter` | first in first out, `stop()`, `join()`, the interpreter lock, Ctrl-C, nobody locked out | six programs; 3 tasks, one raising, 2 stops; socket buffer 2; interrupts and messages without bound |
| `connect` | success is usable, time kept, closed once, flags restored, the call returns | C and C++, timeouts 0-3, 2 signals |
| `echo` | question and answer stay in step; no false alarm but by an empty line; the server survives; no mutual wait; the session ends | all four clients, every input up to 6 bytes with newlines anywhere, `maxlen` 3, buffers 2 bytes |
| `echo_premature` | **violated**: an empty line is taken for the server's end | the client over an `istream` alone, inputs up to 5 bytes |
| `iter` | answered after the whole request, in turn; failure only by a killed client | all three programs, 3 clients, queue of 2, messages of 2 bytes |
| `datagram` | the right answer, once; servers fail by killed clients only; starts that interleave; no client forgotten | UDP and three Unix programs, 3 clients, 2 servers, 2 ports or process ids, buffers of 1 datagram, 2 kills |

Three clients with two addresses are the least with which an address has a
second owner while another client is there; two servers are the least that can
race for the path; a buffer of one datagram is full at once. With two kills a
client and a server, two clients or two servers die.

The type invariants are all proved, and not model-checked again.

Where the languages or programs differ, the one that runs is a variable chosen
in `Init` and never changed, and the constant (`Senders`, `Receivers`, `Languages`,
`Programs`) is the set it is chosen from: one run then covers them all, and the
proofs hold for any such set.

The queues are positional and the programs treat bytes alike, so a fault in
cutting, order or counting shows with two or three bytes as it does with
thousands; the arithmetic limits (2^32, 1023, 24) are constants and are given
small values at which the limit is reached. `MaxEvents`, `MaxChecks`, `MaxFailures`,
`MaxTime`, `MaxSignals`, `MaxSize` only bound the exploration and are named as bounds
where they are declared.

The three violated runs are faults of the code and are listed as findings, each
with the sentence of the repository it contradicts. Other behaviour found on
the way, without such a sentence, is recorded as a hazard: for instance, the
C++ echo client's answers lag after a line of more than 1023 bytes, and closing
with the remainder unread resets the connection and ends the server.

### Fairness

Fairness is weak, per process or thread: a program that can take its next step
does so in the end, which is what the scheduler gives to a runnable thread.
The kernel moves bytes (`Client`, `Reset`), time passes (`Tick`), the user goes on typing
to the end of the input, and clients are not stopped. Nobody is obliged to
plug, mount, signal, kill or answer: these actions have no fairness, and in
`ConnectTimeout` the peer may stay silent for ever. Within a thread one fairness
condition covers the disjunction of its actions, because one is enabled at a time.

Strong fairness is assumed once: of getting the interpreter lock
(`FairProcSpec`). A thread that waits for it finds it free again and again while others
run; CPython makes the holder give way to a thread that has waited for the
switch interval of 5 ms and does not take it back before another has had it.
It does not help against a holder that is blocked in `recv()`: there
`InterruptIsHandled` and `MainKeepsRunning` state what the first design needs, messages
that keep coming.

`ClientIsAnswered` has two exceptions, both in its statement. A request or answer may
be lost, and there is no timeout and no repetition. And when more clients with
one process id were killed than a buffer holds answers (`Jammed`), the server may
block in `sendto()` to the client that has the id now, while this one blocks in its
`sendto()` to the server: with buffers of one datagram TLC finds this deadlock with
two killed clients and two more, one of which fills the server's buffer. Linux's
limit is ten datagrams (`net.unix.max_dgram_qlen`), so there it takes as many.

## What is proved

For every value of the constants that the assumptions allow, by TLAPS:

* `BlockStreamProofs`: `InStep` is inductive for a C or C++ client. It says that
  frames lie behind one another on the stream (`FramesAdjacent`), each holding its
  own bytes as far as it has come (`FramesWritten`), with the client's position in
  the last (`ClientPlace`), and that the server's next header begins where the
  frames printed so far end (`ServerInv`). The properties alone are not inductive:
  they do not say where the reader stands in the stream. From `InStep` follow
  `FramesAreWhole`, `Delivery`, `BufferSuffices`, and `Implements`: the initial state maps to
  an initial state of the channel and each step to a step or a stutter.
  `TypeCorrect` holds for Python clients also.
* `WorkerThreadProofs`: order, `stop()` and `join()`, for any tasks and exceptions. The
  property is nearly inductive; the end of `join()` must be tied to that of the thread.
* `InterpreterProofs`: each program's process refines `WorkerThread` (`UsesWorkerThread`: every
  step is a step of the worker or leaves it alone), so that order, `stop()` and `join()`
  carry over to all of them; and the interpreter lock excludes (`LockIsExclusive`),
  which is inductive together with the types.
* `DatagramProofs`: `DatagramInv` is inductive, for any number of clients, servers,
  addresses and kills and any buffers. That a client gets its own answer does
  not follow from itself: what is under way goes to the address it came from
  (`MatchInv`), running clients have different addresses that lead to them
  (`AddressInv`), a request is in one place only (`OnePlace`, `HoldInv`), and in one exactly
  when it was sent (`SentInv`). So whatever else a client finds in its buffer was
  for a killed one with its address (`InBuffer`), and an answer that finds nobody was
  for one too (`ReachedClient`), which gives `AnswerIsMine` and `ServerFailsByKill`. `PathInv` ties the
  servers' path to those between unlink and bind.
* `ConnectTimeoutProofs`: the timeout is kept, success is usable, the descriptor is
  closed once, and the C++ version leaves the socket with the flags it
  found; for any timeout and any number of signals.
* `IterativeServerProofs`: `Inv` is inductive: one connection is open at a time and
  those in the queue are distinct and not it (`QueueInv`, `LinkInv`); while the server
  is there, only a killed client's connection is reset (`BlameInv`); a reply is sent
  whole (`ReplyInv`), and by a server that has received the whole request of that
  connection (`ServerInv`), of which it had nothing while it was in the queue
  (`QueueInv`). Hence `AnsweredWhenHeard`, which by itself says nothing of requests half
  received. `CloseAll` is shown once to keep
  it (`EndKeeps`), for every way in which the server can end.

* `EchoSessionProofs`: `EchoInv` is inductive, for inputs, lines and buffers of any
  length. A byte is its position in the input, so a place that holds bytes in order
  holds a run of numbers. `StreamInv` says that the places between the input and the
  terminal (`unsent`, `up`, `held`, `down`, `ahead`, `line`, `printed`) hold such runs, each
  beginning where the one behind it ends (`UnsentAt` to `LineAt`), and `LineInv` that what
  is under way is one line, cut where its client's reader stops (`OneLine`). With these
  `AnswerBeforeNextLine` follows by counting: when the client turns to the next line,
  nothing fits between what is printed and what is not yet read. By itself the
  property says nothing of the states in between. `ResetInv` says who is to blame
  for a reset, from which `ServerOutlivesClient`: a client that is done has left no byte
  unread. `FalseAlarmByEmptyLine` needs that the line of the `istream` client begins behind
  a newline. All this holds as long as client and server talk (`Talking`); a client
  that is killed or gives up may leave bytes anywhere.
  `WaitInv`, inductive on top of `EchoInv`, says that whoever is in a loop of sends has
  something left to send and that no reader has passed a newline; then two sides
  that wait for each other hold a line between them that has no newline where the
  input ends, or more bytes than both directions take (`NoMutualWait`).
* `UeventMonitorProofs`: `UeventInv` is inductive, for any number of messages, devices,
  checks and failures, any expiry and any socket buffer. `PipelineInOrder`
  follows from `OrderInv`, which is easier to reason with: each place is increasing,
  and older than the places behind it (`Before`). So a message at the front of
  a place is nowhere else, which keeps `ExactlyOnce` when it is logged, taken back or
  lost; and what `doCheckPendingEvent` takes back is newer than what is in the list
  already and older than what it has not looked at. `PendingInv` says what waits in the
  list: add events, and in `late` only those whose time is over; without it
  `ExpiredAreLate` is not inductive. `LogInv`, inductive on top, says that what the worker
  has not seen is newer than all it has logged; hence `OnlyAddsAreOvertaken`.
  `SeenInv`, also on top, ties the map to the events: what waits and is mounted, and
  the event in hand if the map knows its partition, is in `seen`; without the latter
  nothing would be known at the report, when the table may have changed again
  (`AddedWereMounted`).

All safety invariants and action properties of the runs that pass are thus proved. Only
model-checked is liveness (`NobodyWaitsForever`, `EveryEventSettles`, `StopEndsThread`,
`InterruptIsHandled`, `MainKeepsRunning`, `TasksAreExecuted`, `CallReturns`, `SessionEnds`,
`EveryoneServed`, `ClientIsAnswered`), since proofs of fairness and `ENABLED` are out of
the prover's reach. For the echo session `NoMutualWait` states the part of `SessionEnds`
that is safety, and is proved.

## Not modelled

* The JavaScript in the repository. All 45 `.js` files belong to web pages saved with
  the browser, under `netlink/uevent_monitor/doc/*_files`: scripts of the blog sites and of
  advertisers, many of them minified. No program of the repository loads them and
  they have nothing to do with its topic. Tools that count only the files of the
  repository's nominal language see none of its programs, which are C, C++ and
  Python; the models refer to some 1500 lines of these.
* `origin` (the book's or the kernel's sample as it was copied) and the Makefiles.
* Socket set-up, command lines, printing, and the wording of messages.
* The contents of messages where only their length matters
  (`IterativeServer`, `EchoSession`). So reading a buffer without terminator, as
  `tcp_sixteen_client.c` does with `%s`, is not visible.
* NUL bytes in what is sent. The C block server stops at a block that begins with one
  (`tcp_block_server.c` tests `block[0]`), not only at the empty block; the clients of the
  repository put text. `str_cli.c` sends `strlen(sendline)` bytes, so a line typed with a NUL
  in it goes out without its newline, and `Readline` waits.
* `connect()` that times out because the queue stays full (`IterativeServer`), and a clock
  that is set back or stands still (`UeventMonitor`).
* `Datagram`: truncation of datagrams, senders other than these programs, and clients
  over Unix sockets that do not bind (those of the repository do).
* `util::Format`: every template in the repository consists of automatic `{}` fields, for
  which it is a copy with replacements. Numbered fields, and mixing both kinds,
  which `format.hpp` calls unsupported, are used nowhere. `sock_ntop`, addresses, byte
  order: each wraps one library call.
* Name service tools (`dns`): each is one call of the resolver. Uevent printers in
  C and C++: one loop of `recv` and `printf`, a receiver that `UeventMonitor` and
  `Interpreter` have already.
* `EINTR` where no handler exists in the program modelled.

## The plan

Done, in the order of importance: blocks and their channel, uevent monitor,
worker thread, connect with timeout, echo sessions, iterative servers, the
interpreter's threads, datagrams; and the proofs of all their safety properties.
What remains: for the other components, too, the safety behind the liveness
properties, in the way of `NoMutualWait` (in which states nobody can move), so
that no more than fairness itself rests on small instances.
