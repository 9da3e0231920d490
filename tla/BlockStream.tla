---------------------------- MODULE BlockStream ----------------------------
(***************************************************************************)
(* Length-prefixed blocks over a TCP connection: PutBlock in the client,   *)
(* GetBlock in the server, and the send/recv loops of the socket library   *)
(* underneath them, in the three languages of the tutorial (C, C++ and     *)
(* Python).                                                                *)
(*                                                                         *)
(* A byte on the stream is the pair <<b, i>>: byte i of frame b.  Bytes    *)
(* 1..HdrSize of a frame are the big-endian length, the others its body.   *)
(* The stream is kept whole in wire (an immutable queue); the kernel's     *)
(* socket buffers hold the bytes after position rd, at most Cap of them.   *)
(* Connection set-up is over in the initial state.                         *)
(***************************************************************************)
EXTENDS Integers, Sequences

CONSTANTS
    MaxBlocks,   \* no list of blocks, with its terminator, is longer
    Lists,       \* the possible lists of non-empty blocks, each given by its length
    HdrSize,     \* sizeof(block_length): 4 in the code
    Modulus,     \* 2^32: block_length is an unsigned integer modulo this number
    Cap,         \* what the two socket buffers hold together
    Senders,     \* the languages of the client: "c", "cxx", "py"
    Receivers,   \* the languages of the server
    Interrupts,  \* can a signal cut a send() short?
    Crashes      \* can either process be killed?

Languages == {"c", "cxx", "py"}

ASSUME BlockStreamAssumption ==
    /\ MaxBlocks \in Nat \ {0}
    /\ HdrSize \in Nat \ {0}
    /\ Modulus \in Nat \ {0}
    /\ Cap \in Nat \ {0}
    /\ \A list \in Lists : /\ list \in Seq(Nat \ {0}) /\ Len(list) < MaxBlocks
                           /\ \A b \in 1..Len(list) : list[b] < Modulus
    /\ Senders \subseteq Languages /\ Receivers \subseteq Languages
    /\ Interrupts \in BOOLEAN
    /\ Crashes \in BOOLEAN

VARIABLES
    sender,      \* the language the client is written in
    receiver,    \* and that of the server
    blocks,      \* lengths of the blocks to send; the last is the empty terminator
    spc,         \* client: sending a "hdr" or a "body", or "done", "failed", "killed"
    k,           \* the frame the client is putting
    off,         \* bytes of frame k handed to the kernel, or given up
    taken,       \* bytes the current send() call has handed to the kernel
    wire,        \* every byte handed to the kernel so far
    start,       \* history: Len(wire) when PutBlock of frame b began
    rpc,         \* server: reading a "hdr" or a "body", or "done", "failed", "killed"
    rd,          \* bytes of wire the server has read
    from,        \* the buffer of the current RecvAll is wire[from+1..rd]
    blockLength, \* block_length of the block being read
    bufSize,     \* buf_size of the C server: capacity of its static read_buf
    got          \* the blocks the server has printed

senderVars == <<spc, k, off, taken, wire, start>>
receiverVars == <<rpc, rd, from, blockLength, bufSize, got>>
parties == <<sender, receiver>>
vars == <<parties, blocks, senderVars, receiverVars>>

Parts == {"hdr", "body"}
MinOf(m, n) == IF m < n THEN m ELSE n

Byte == (Nat \ {0}) \X (Nat \ {0})
FrameLen(b) == HdrSize + blocks[b]
Chunk(b, n, m) == [j \in 1..m |-> <<b, n + j>>]  \* m bytes of b after byte n
FrameBytes(b) == [i \in 1..FrameLen(b) |-> <<b, i>>]
Body(b) == [i \in 1..blocks[b] |-> <<b, HdrSize + i>>]
InFlight == Len(wire) - rd

-----------------------------------------------------------------------------
(* The client: PutBlock for each block, the last one empty, then Close.    *)

\* Where in frame k the send of the current part ends.
PartEnd == IF spc = "hdr" THEN HdrSize ELSE FrameLen(k)

\* The kernel copies some bytes of the outstanding send() into its buffer.
KernelTakes ==
    /\ spc \in Parts
    /\ \E m \in 1..MinOf(PartEnd - off, Cap - InFlight) :
          /\ wire' = wire \o Chunk(k, off, m)
          /\ off' = off + m
          /\ taken' = taken + m
    /\ UNCHANGED <<parties, blocks, spc, k, start, receiverVars>>

\* On to the body, to the next block, or to Close after the terminator.
NextPart ==
    /\ taken' = 0
    /\ \/ /\ spc = "hdr"
          /\ spc' = "body"
          /\ off' = HdrSize
          /\ UNCHANGED <<k, start>>
       \/ /\ spc = "body" /\ k < Len(blocks)
          /\ spc' = "hdr"
          /\ k' = k + 1
          /\ off' = 0
          /\ start' = Append(start, Len(wire))
       \/ /\ spc = "body" /\ k = Len(blocks)
          /\ spc' = "done"
          /\ UNCHANGED <<k, off, start>>

\* err_sys / an exception nobody catches: the process exits.
Fail == spc' = "failed" /\ UNCHANGED <<k, off, taken, start>>

\* send() has returned the length it was given.
SendReturns ==
    /\ spc \in Parts
    /\ off = PartEnd
    /\ NextPart
    /\ UNCHANGED <<parties, blocks, wire, receiverVars>>

\* A mistake in C and C++: what send() returns is not looked at.
ShortSendIgnored == NextPart

\* C PutBlock: Send() takes any other result than the full length as fatal.
ShortSendC == Fail

\* C++ PutBlock: SendAll() calls send() again with the rest.
ShortSendCxx == taken' = 0 /\ UNCHANGED <<spc, k, off, start>>

\* Python put_block: the count sock.send() returns is dropped.
ShortSendPy == NextPart

\* send() returns a count short of what it was given.
SendCutShort ==
    /\ taken > 0
    /\ off < PartEnd
    /\ \/ sender = "c" /\ ShortSendC
       \/ sender = "cxx" /\ ShortSendCxx
       \/ sender = "py" /\ ShortSendPy
    /\ UNCHANGED <<parties, blocks, wire, receiverVars>>

\* EINTR, no byte taken: fatal in C; SendAll and the Python interpreter call
\* send() again, which changes nothing here.
SendEintr ==
    /\ taken = 0
    /\ off < PartEnd
    /\ sender = "c" /\ Fail
    /\ UNCHANGED <<parties, blocks, wire, receiverVars>>

\* A signal the process handles ends a blocked send().
SendInterrupted ==
    /\ Interrupts
    /\ spc \in Parts
    /\ SendCutShort \/ SendEintr

\* The server is gone and left bytes unread, so that its kernel resets the
\* connection: a send() in progress returns what it has, a new one fails
\* (EPIPE, ECONNRESET or SIGPIPE).  SendAll makes no call for an empty rest.
Reset == rpc \notin Parts /\ InFlight > 0
SendRefused ==
    /\ taken = 0
    /\ off < PartEnd \/ sender # "cxx"
    /\ Fail
    /\ UNCHANGED <<parties, blocks, wire, receiverVars>>
SendReset ==
    /\ Reset
    /\ spc \in Parts
    /\ SendCutShort \/ SendRefused

ClientKilled ==
    /\ Crashes
    /\ spc \in Parts
    /\ spc' = "killed"
    /\ UNCHANGED <<parties, blocks, k, off, taken, wire, start, receiverVars>>

-----------------------------------------------------------------------------
(* The server: GetBlock until the empty block.                             *)

\* How many bytes the current RecvAll was asked for.
Wanted == IF rpc = "hdr" THEN HdrSize ELSE blockLength

\* recv() returns between one byte and all that is missing.
Recv ==
    /\ rpc \in Parts
    /\ \E m \in 1..MinOf(Wanted - (rd - from), InFlight) : rd' = rd + m
    /\ UNCHANGED <<parties, blocks, senderVars, rpc, from, blockLength, bufSize, got>>

\* What ntohl makes of the bytes of a header: the length PutBlock stored, or
\* an arbitrary number if they are not one header.
Decoded(bytes) ==
    IF \E b \in 1..Len(blocks) : bytes = [i \in 1..HdrSize |-> <<b, i>>]
    THEN {blocks[bytes[1][1]] % Modulus}
    ELSE 0..(Modulus - 1)

\* A mistake: no room for the NUL.
GrownToLength(len) == IF bufSize < len THEN len ELSE bufSize

\* C GetBlock: block_length+1 is computed modulo 2^32, and the static buffer
\* only grows.
GrownTo(len) ==
    LET needed == (len + 1) % Modulus
    IN  IF bufSize < needed THEN needed ELSE bufSize

\* RecvAll of the length has returned.
HeaderRead ==
    /\ rpc = "hdr"
    /\ rd - from = HdrSize
    /\ \E len \in Decoded(SubSeq(wire, from + 1, rd)) :
          /\ blockLength' = len
          /\ bufSize' = IF receiver = "c" THEN GrownTo(len) ELSE bufSize
    /\ rpc' = "body"
    /\ from' = rd
    /\ UNCHANGED <<parties, blocks, senderVars, rd, got>>

\* A mistake: one recv() in place of RecvAll, so a block may come short.
BodyReadAtOnce ==
    /\ rpc = "body"
    /\ blockLength = 0 \/ rd > from
    /\ from' = rd
    /\ rpc' = IF blockLength = 0 THEN "done" ELSE "hdr"
    /\ got' = IF blockLength = 0 THEN got ELSE Append(got, SubSeq(wire, from + 1, rd))
    /\ UNCHANGED <<parties, blocks, senderVars, rd, blockLength, bufSize>>

\* RecvAll of the body has returned: the server prints the block and asks for
\* the next one, or stops at the empty block and closes both its sockets.  (The C
\* server stops at any block that begins with a NUL byte: no client here sends one.)
BodyRead ==
    /\ rpc = "body"
    /\ rd - from = blockLength
    /\ from' = rd
    /\ \/ /\ blockLength = 0
          /\ rpc' = "done"
          /\ UNCHANGED got
       \/ /\ blockLength # 0
          /\ rpc' = "hdr"
          /\ got' = Append(got, SubSeq(wire, from + 1, rd))
    /\ UNCHANGED <<parties, blocks, senderVars, rd, blockLength, bufSize>>

\* A mistake: the server gives up with bytes still unread.
EndOfStreamEarly ==
    /\ rpc \in Parts
    /\ spc \notin Parts
    /\ rpc' = "failed"
    /\ UNCHANGED <<parties, blocks, senderVars, rd, from, blockLength, bufSize, got>>

\* A mistake: recv() returning 0 is taken for EINTR and repeated.
EndOfStreamIgnored ==
    /\ rpc \in Parts
    /\ rd - from < Wanted
    /\ InFlight = 0
    /\ spc \notin Parts
    /\ UNCHANGED vars

\* recv() returned 0 before RecvAll had its bytes: the server gives up.
EndOfStream ==
    /\ rpc \in Parts
    /\ rd - from < Wanted
    /\ InFlight = 0
    /\ spc \notin Parts
    /\ rpc' = "failed"
    /\ UNCHANGED <<parties, blocks, senderVars, rd, from, blockLength, bufSize, got>>

ServerKilled ==
    /\ Crashes
    /\ rpc \in Parts
    /\ rpc' = "killed"
    /\ UNCHANGED <<parties, blocks, senderVars, rd, from, blockLength, bufSize, got>>

-----------------------------------------------------------------------------
Init ==
    /\ sender \in Senders /\ receiver \in Receivers
    /\ blocks \in {Append(list, 0) : list \in Lists}
    /\ spc = "hdr" /\ k = 1 /\ off = 0 /\ taken = 0
    /\ wire = << >> /\ start = <<0>>
    /\ rpc = "hdr" /\ rd = 0 /\ from = 0
    /\ blockLength = 0 /\ bufSize = 0 /\ got = << >>

\* Both processes have ended.
Stopped == spc \notin Parts /\ rpc \notin Parts
Ended == Stopped /\ UNCHANGED vars

Client == KernelTakes \/ SendReturns \/ SendReset
Server == Recv \/ HeaderRead \/ BodyRead \/ EndOfStream
Next == Client \/ SendInterrupted \/ ClientKilled \/ Server \/ ServerKilled \/ Ended

Spec == Init /\ [][Next]_vars

\* The two processes keep running and the kernel keeps moving bytes; signals
\* and kills may happen but need not.
FairSpec == Spec /\ WF_vars(Client) /\ WF_vars(Server)

-----------------------------------------------------------------------------
SenderTypeOK ==
    /\ blocks \in Seq(Nat)
    /\ spc \in Parts \cup {"done", "failed", "killed"}
    /\ k \in 1..Len(blocks)
    /\ off \in 0..FrameLen(k)
    /\ taken \in Nat
    /\ wire \in Seq(Byte)
    /\ start \in Seq(Nat) /\ Len(start) = k

ReceiverTypeOK ==
    /\ rpc \in Parts \cup {"done", "failed", "killed"}
    /\ rd \in 0..Len(wire)
    /\ from \in 0..rd
    /\ blockLength \in 0..(Modulus - 1)
    /\ bufSize \in Nat
    /\ got \in Seq(Seq(Byte))

PartiesTypeOK == sender \in Senders /\ receiver \in Receivers

TypeOK == PartiesTypeOK /\ SenderTypeOK /\ ReceiverTypeOK

\* Every frame whose PutBlock has returned is on the stream whole: its length
\* prefix, then exactly its bytes, with nothing of another block in between.
FramesWhole ==
    \A b \in 1..(k - 1) : SubSeq(wire, start[b] + 1, start[b + 1]) = FrameBytes(b)

\* Blocks whose frame is on the stream to its last byte.
Sent == IF off = FrameLen(k) THEN k ELSE k - 1

\* What the server has printed is what the client put, block for block and in
\* order, whatever chunks the stream was cut into and whoever failed.  It ends
\* normally only after the last block; a server that gives up has printed every
\* block whose frame got onto the stream whole, and the client has failed too.
BlocksDelivered ==
    /\ Len(got) < Len(blocks)
    /\ \A b \in 1..Len(got) : got[b] = Body(b)
    /\ rpc = "done" => Len(got) = Len(blocks) - 1
    /\ rpc = "failed" => Len(got) = Sent /\ spc # "done"

\* While the C server reads a body, its buffer holds the block and the
\* terminating NUL that GetBlock writes after it.
BufferHoldsBlock ==
    receiver = "c" /\ rpc = "body" => blockLength + 1 <= bufSize

\* Neither process waits for ever: every run ends with both of them stopped,
\* also when the other one was killed at the worst moment.
NobodyWaitsForever == <>Stopped

-----------------------------------------------------------------------------
(* The byte stream implements the channel of whole blocks.                 *)

ClientStatus == IF spc \in Parts THEN "running"
                ELSE IF spc = "done" THEN "done" ELSE "stopped"
ServerStatus == CASE rpc \in Parts -> "running"
                  [] rpc = "done" -> "done"
                  [] rpc = "failed" -> "stopped"
                  [] rpc = "killed" -> "crashed"

Channel == INSTANCE BlockChannel WITH
    Limit <- MaxBlocks, total <- Len(blocks), sent <- Sent, received <- Len(got),
    client <- ClientStatus, server <- ServerStatus

\* PutBlock and GetBlock over TCP behave as a channel of whole blocks: each is
\* received at most once, in order, only after it was put whole; a server that
\* gives up has had every block the client put whole.
ImplementsChannel == Channel!ChanSpec

-----------------------------------------------------------------------------
(* Why it works (unless the client is Python): the inductive invariant.    *)

\* Only the terminator is empty, and every length fits block_length.
BlocksInv ==
    /\ Len(blocks) \in 1..MaxBlocks
    /\ \A b \in 1..Len(blocks) :
          blocks[b] < Modulus /\ (blocks[b] = 0 <=> b = Len(blocks))

\* The frames lie on the stream one behind the other.
FramesAdjacent ==
    /\ start[1] = 0
    /\ \A b \in 1..(k - 1) : start[b + 1] = start[b] + FrameLen(b)
    /\ \A b \in 1..k : start[b] <= start[k]
    /\ Len(wire) = start[k] + off

\* Each holds its own bytes in order, as far as it has come.
FramesWritten ==
    \A b \in 1..k : \A i \in 1..FrameLen(b) :
        start[b] + i <= Len(wire) => wire[start[b] + i] = <<b, i>>

\* The client is where its position in frame k says.
ClientPlace ==
    /\ spc = "hdr" => off <= HdrSize
    /\ spc = "body" => off >= HdrSize
    /\ spc = "done" => k = Len(blocks) /\ off = FrameLen(k)

ClientInv == FramesAdjacent /\ FramesWritten /\ ClientPlace

\* Where the server expects the next header: behind the last block printed.
Base == IF Len(got) = 0 THEN 0 ELSE start[Len(got)] + FrameLen(Len(got))

\* The server reads in step with the frames.
ServerInv ==
    /\ Len(got) <= Sent /\ Len(got) < Len(blocks)
    /\ \A b \in 1..Len(got) : got[b] = Body(b)
    /\ rpc = "hdr" => from = Base /\ rd <= from + HdrSize
    /\ rpc = "body" => /\ Len(got) < k
                       /\ from = Base + HdrSize
                       /\ blockLength = blocks[Len(got) + 1]
                       /\ rd <= from + blockLength
    /\ rpc = "done" => Len(got) = Len(blocks) - 1 /\ Sent = Len(blocks)
    /\ rpc = "failed" => Len(got) = Sent /\ spc \notin Parts \cup {"done"}

\* The inductive invariant: the two ends agree on where every frame begins.
InStep == BlocksInv /\ ClientInv /\ ServerInv
=============================================================================
