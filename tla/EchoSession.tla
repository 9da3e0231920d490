----------------------------- MODULE EchoSession -----------------------------
(***************************************************************************)
(* One session of the echo client and server of tcp/str_echo: str_cli      *)
(* sends a line of the user's input and prints the line that comes back,   *)
(* str_echo sends back what it reads.  The clients differ in how they read *)
(* a line: readline (C), ReadBuffer (C++), SocketInputStream (the second   *)
(* C++ program) or makefile (Python).                                      *)
(*                                                                         *)
(* A byte is its position in the user's input; a client may add a newline, *)
(* which is numbered one more than the input is long.  The connection      *)
(* exists in the initial state.  The programs install no signal handlers,  *)
(* so no call fails with EINTR.                                            *)
(***************************************************************************)
EXTENDS Naturals, Sequences, FiniteSetsExt

CONSTANTS
    Programs,   \* the clients: "c", "cxx", "istream", "py"
    MaxSize,    \* bound: bytes the user types
    LineMax,    \* 1023: what fits into a char[1024], and maxlen - 1 of Readline
    Block,      \* 1024: what the server's recv() asks for
    ReadAhead,  \* what the client's read() asks for, at most
    Cap         \* what the socket buffers hold in each direction

ASSUME EchoAssumption ==
    /\ Programs \subseteq {"c", "cxx", "istream", "py"}
    /\ MaxSize \in Nat
    /\ LineMax \in Nat \ {0} /\ Block \in Nat \ {0}
    /\ ReadAhead \in Nat \ {0} /\ Cap \in Nat \ {0}

VARIABLES
    program,    \* the client that runs
    size,       \* how many bytes the user types
    newlines,   \* which of them are '\n'
    next,       \* the first byte the client has not taken from its input
    unsent,     \* what is left of sendline
    up,         \* bytes on their way to the server
    held,       \* what is left in the server's buf
    down,       \* bytes on their way back
    ahead,      \* bytes the client has read and not used: read_buf
    line,       \* recvline
    printed,    \* everything the client has printed
    broken,     \* the state of sock_stream: no longer good
    client,     \* "input", "sending", "reading"; "done", "premature", "failed", "killed"
    server,     \* "recv", "send"; "closed", "failed", "killed"
    connection  \* "open" or "reset"

text == <<program, size, newlines>>
buffers == <<unsent, up, held, down>>
reading == <<ahead, line, printed, broken>>
vars == <<text, next, buffers, reading, client, server, connection>>

ClientGone == client \in {"done", "premature", "failed", "killed"}
ServerGone == server \in {"closed", "failed", "killed"}

Bytes(i, j) == [n \in 1..(j + 1 - i) |-> i + n - 1]
Take(s, n) == SubSeq(s, 1, n)
Drop(s, n) == SubSeq(s, n + 1, Len(s))
Least(m, n) == IF m < n THEN m ELSE n
IsNewline(b) == b \in newlines \/ b = size + 1

-----------------------------------------------------------------------------
(* The client: str_cli.                                                    *)

\* The end of the line that begins at byte next.
LineEnd == Min({j \in next..size : j \in newlines} \cup {size})

\* A mistake: sendline is one byte longer than recvline.
SendlineEndUneven == IF program = "c" THEN Least(LineEnd, next + LineMax) ELSE LineEnd

\* The last byte of sendline: fgets() stops when the buffer is full; C++ adds
\* the newline to a last line that has none.
SendlineEnd ==
    CASE program = "c" -> Least(LineEnd, next + LineMax - 1)
      [] program = "py" -> LineEnd
      [] OTHER -> IF LineEnd \in newlines THEN LineEnd ELSE size + 1

ReadInput ==
    /\ client = "input" /\ next <= size
    /\ unsent' = Bytes(next, SendlineEnd)
    /\ next' = SendlineEnd + 1
    /\ client' = "sending"
    /\ UNCHANGED <<text, up, held, down, reading, server, connection>>

\* The end of the input: the client closes the socket.
InputEnds ==
    /\ client = "input" /\ next > size
    /\ client' = "done"
    /\ UNCHANGED <<text, next, buffers, reading, server, connection>>

\* One send() of SendAll takes what fits into the socket buffer.
SendLine ==
    /\ client = "sending" /\ connection = "open"
    /\ \E n \in 1..Least(Len(unsent), Cap - Len(up)) :
          /\ up' = up \o Take(unsent, n)
          /\ unsent' = Drop(unsent, n)
    /\ client' = IF unsent' = << >> THEN "reading" ELSE "sending"
    /\ UNCHANGED <<text, next, held, down, reading, server, connection>>

\* EPIPE, ECONNRESET or SIGPIPE.
SendLineFails ==
    /\ client = "sending" /\ connection = "reset"
    /\ client' = "failed"
    /\ UNCHANGED <<text, next, buffers, reading, server, connection>>

\* my_read, get_char or underflow find their buffer empty and call read().
FillBuffer ==
    /\ client = "reading" /\ ~ broken
    /\ ahead = << >>
    /\ \E n \in 1..Least(Len(down), ReadAhead) :
          /\ ahead' = Take(down, n)
          /\ down' = Drop(down, n)
    /\ UNCHANGED <<text, next, unsent, up, held, line, printed, broken, client,
                   server, connection>>

\* A mistake: readline without maxlen.
LineEndsUnbounded == {n \in 1..Len(ahead) : IsNewline(ahead[n])}

\* Where in the buffer the line may end: at a newline, and in C and in the
\* first C++ program also when maxlen is reached.
LineEnds ==
    {n \in 1..Len(ahead) :
        \/ IsNewline(ahead[n])
        \/ program \in {"c", "cxx"} /\ Len(line) + n = LineMax}

PrintLine(s) == printed' = printed \o s /\ client' = "input"

\* A mistake: every client strips the newline before it looks at the line.
LooksEmptyStripped(n) == Len(line) + n = 1

\* The istream client looks at the line without its newline, and takes an empty
\* one for the end of the stream.
LooksEmpty(n) == program = "istream" /\ Len(line) + n = 1

\* A mistake: what one read() returned is taken for the line.
GetLineAtOnce ==
    /\ client = "reading" /\ ahead # << >>
    /\ PrintLine(ahead)
    /\ ahead' = << >>
    /\ UNCHANGED <<text, next, buffers, line, broken, server, connection>>

\* readline, ReadBuffer::Readline, std::getline or readline() takes bytes from
\* the buffer until the line ends or the buffer is empty.
GetLine ==
    /\ client = "reading" /\ ahead # << >>
    /\ \/ /\ LineEnds = {}
          /\ line' = line \o ahead
          /\ ahead' = << >>
          /\ UNCHANGED <<printed, client>>
       \/ /\ LineEnds # {}
          /\ LET n == Min(LineEnds)
             IN  /\ IF LooksEmpty(n)
                    THEN client' = "premature" /\ UNCHANGED printed
                    ELSE PrintLine(line \o Take(ahead, n))
                 /\ ahead' = Drop(ahead, n)
          /\ line' = << >>
    /\ UNCHANGED <<text, next, buffers, broken, server, connection>>

\* A mistake: the end of the stream is taken for an empty read, and tried again.
LineCutShortRetried == UNCHANGED <<line, printed, broken, client>>

\* The stream has ended: nothing read means that the server terminated too
\* early; a part of a line is printed as if it were one.  The istream client
\* adds the newline, keeps the line, and can never read again.
LineCutShort ==
    /\ IF line = << >>
       THEN client' = "premature" /\ UNCHANGED <<line, printed, broken>>
       ELSE IF program = "istream"
       THEN /\ line' = Append(line, size + 1)
            /\ PrintLine(line')
            /\ broken' = TRUE
       ELSE /\ PrintLine(line)
            /\ line' = << >>
            /\ UNCHANGED broken

\* read() returns 0; or it fails, which ends the client, but not the istream
\* client: its stream catches the exception.
EndOfStream ==
    /\ client = "reading" /\ ~ broken
    /\ ahead = << >> /\ down = << >>
    /\ \/ ServerGone /\ connection = "open" /\ LineCutShort
       \/ connection = "reset" /\ program = "istream" /\ LineCutShort
       \/ /\ connection = "reset" /\ program # "istream"
          /\ client' = "failed"
          /\ UNCHANGED <<line, printed, broken>>
    /\ UNCHANGED <<text, next, buffers, ahead, server, connection>>

\* std::getline leaves recvline alone when the stream is not good, so the old
\* line, with one more newline, is printed again.
StaleLine ==
    /\ client = "reading" /\ broken
    /\ line' = Append(line, size + 1)
    /\ PrintLine(line')
    /\ UNCHANGED <<text, next, buffers, ahead, broken, server, connection>>

ClientKilled ==
    /\ ~ ClientGone
    /\ client' = "killed"
    /\ UNCHANGED <<text, next, buffers, reading, server, connection>>

-----------------------------------------------------------------------------
(* The server: str_echo.                                                   *)

ServerRecv ==
    /\ server = "recv"
    /\ \E n \in 1..Least(Len(up), Block) :
          /\ held' = Take(up, n)
          /\ up' = Drop(up, n)
    /\ server' = "send"
    /\ UNCHANGED <<text, next, unsent, down, reading, client, connection>>

ServerSend ==
    /\ server = "send" /\ connection = "open"
    /\ \E n \in 1..Least(Len(held), Cap - Len(down)) :
          /\ down' = down \o Take(held, n)
          /\ held' = Drop(held, n)
    /\ server' = IF held' = << >> THEN "recv" ELSE "send"
    /\ UNCHANGED <<text, next, unsent, up, reading, client, connection>>

\* recv() returns 0, str_echo returns, and the server closes the connection.
ServerEof ==
    /\ server = "recv" /\ up = << >>
    /\ ClientGone /\ connection = "open"
    /\ server' = "closed"
    /\ UNCHANGED <<text, next, buffers, reading, client, connection>>

\* recv() or send() fails: err_sys, or an exception nobody catches, ends the
\* server, not only the session.
ServerFails ==
    /\ connection = "reset"
    /\ (server = "recv" /\ up = << >>) \/ server = "send"
    /\ server' = "failed"
    /\ UNCHANGED <<text, next, buffers, reading, client, connection>>

ServerKilled ==
    /\ ~ ServerGone
    /\ server' = "killed"
    /\ UNCHANGED <<text, next, buffers, reading, client, connection>>

-----------------------------------------------------------------------------
(* The kernel.                                                             *)

\* Bytes that nobody will read make TCP reset the connection; some of those on
\* their way to the other side may be lost with it.
Reset ==
    /\ connection = "open"
    /\ \/ /\ ClientGone /\ down # << >>
          /\ \E n \in 0..Len(up) : up' = Take(up, n)
          /\ UNCHANGED down
       \/ /\ ServerGone /\ up # << >>
          /\ \E n \in 0..Len(down) : down' = Take(down, n)
          /\ UNCHANGED up
    /\ connection' = "reset"
    /\ UNCHANGED <<text, next, unsent, held, reading, client, server>>

-----------------------------------------------------------------------------
Init ==
    /\ program \in Programs
    /\ size \in 0..MaxSize /\ newlines \in SUBSET (1..size)
    /\ next = 1 /\ unsent = << >> /\ up = << >> /\ held = << >> /\ down = << >>
    /\ ahead = << >> /\ line = << >> /\ printed = << >> /\ broken = FALSE
    /\ client = "input" /\ server = "recv" /\ connection = "open"

StrCli == \/ ReadInput \/ InputEnds \/ SendLine \/ SendLineFails \/ FillBuffer
          \/ GetLine \/ EndOfStream \/ StaleLine
StrEcho == ServerRecv \/ ServerSend \/ ServerEof \/ ServerFails

\* The session is over; the user, or who starts the server, may have killed a
\* process, and what the other one does then has been done.
Over == ClientGone /\ ServerGone /\ UNCHANGED vars

Next == StrCli \/ StrEcho \/ Reset \/ ClientKilled \/ ServerKilled \/ Over

Spec == Init /\ [][Next]_vars

\* The user goes on to the end of his input; both programs and the kernel run.
FairSpec == Spec /\ WF_vars(StrCli) /\ WF_vars(StrEcho) /\ WF_vars(Reset)

-----------------------------------------------------------------------------
\* Positions of input bytes, and the newline that may be added.
Byte == 1..(size + 1)

TypeOK ==
    /\ program \in Programs
    /\ size \in 0..MaxSize /\ newlines \subseteq 1..size
    /\ next \in 1..(size + 2)
    /\ \A s \in {unsent, up, held, down, ahead, line, printed} : s \in Seq(Byte)
    /\ Len(up) <= Cap /\ Len(down) <= Cap
    /\ Len(held) <= Block /\ Len(ahead) <= ReadAhead
    /\ program \in {"c", "cxx"} => Len(line) < LineMax
    /\ client \in {"input", "sending", "reading", "done", "premature", "failed", "killed"}
    /\ server \in {"recv", "send", "closed", "failed", "killed"}
    /\ broken \in BOOLEAN /\ connection \in {"open", "reset"}

\* The input has a line of more than n bytes.
LongerLine(n) ==
    \E i \in 1..(size + 1 - n) : \A j \in i..(i + n - 1) : j \notin newlines

\* The first C++ client reads at most LineMax bytes for each line it sends.
InStep == program = "cxx" => ~ LongerLine(LineMax)

\* Question and answer stay in step: when the client turns to its next line, or
\* ends normally, it has printed exactly what it has sent, byte for byte and in
\* order, and no byte is left in any buffer, however the stream was cut up.
AnswerBeforeNextLine ==
    InStep /\ client \in {"input", "done"} /\ server \notin {"failed", "killed"}
    => /\ printed = Bytes(1, next - 1)
       /\ up = << >> /\ held = << >> /\ down = << >> /\ ahead = << >> /\ line = << >>

\* "server terminated prematurely" is said only of a server that is gone.
PrematureIsTrue == client = "premature" => ServerGone

\* Only an empty line can make a client take a server that is there for gone,
\* and only the istream client.
EmptyLine == \E i \in newlines : i = 1 \/ i - 1 \in newlines
FalseAlarmByEmptyLine ==
    client = "premature" /\ ~ ServerGone => program = "istream" /\ EmptyLine

\* A client that ends at the end of its input never takes the server with it.
ServerOutlivesClient == InStep /\ client = "done" => server # "failed"

\* Both sides wait for the other and nothing is under way that would wake one: the
\* client for the rest of its line, the server for more to echo; or each blocks
\* in send() because the other, blocked itself, does not read.
EachWaits ==
    /\ connection = "open"
    /\ \/ /\ client = "reading" /\ server = "recv"
          /\ up = << >> /\ down = << >> /\ ahead = << >>
       \/ /\ client = "sending" /\ server = "send"
          /\ Len(up) = Cap /\ Len(down) = Cap

\* The last line ends as readline() expects; the buffers on the way hold what is
\* sent before the client reads.
LineIsAnswered == program \in {"c", "py"} => size = 0 \/ size \in newlines
LineFits == ~ LongerLine(2 * Cap + 1)

\* They do so only over a last line without newline (C, Python) or a line that is
\* too long for all the buffers on its way, never because an answer that was
\* there has been missed, or a line been cut where its reader does not stop.
NoMutualWait == InStep /\ EachWaits => ~ (LineIsAnswered /\ LineFits)

\* Neither side waits for ever for the other, whichever is killed, provided
\* that the last line ends with a newline and that the buffers on the way hold
\* the longest line that is sent.
SessionEnds ==
    LineIsAnswered /\ LineFits /\ InStep => <>(ClientGone /\ ServerGone)

-----------------------------------------------------------------------------
(* Why it is safe: the inductive invariant.                                *)

\* s holds bytes that follow one another, from byte a on.
Run(s, a) == \A i \in 1..Len(s) : s[i] = a + i - 1

\* Where the bytes in each place begin if the places hold, one behind the other,
\* all that was taken from the input and not printed.
UnsentAt == next - Len(unsent)
UpAt == UnsentAt - Len(up)
HeldAt == UpAt - Len(held)
DownAt == HeldAt - Len(down)
AheadAt == DownAt - Len(ahead)
LineAt == AheadAt - Len(line)

\* Until a client gives up, or somebody is killed, and unless the first C++
\* client is sent a line it cannot read back,
Talking == /\ client \in {"input", "sending", "reading", "done"}
           /\ server \notin {"failed", "killed"}
           /\ InStep

\* the places do so, and printed has what comes before.
StreamInv ==
    Talking =>
        /\ Run(unsent, UnsentAt) /\ Run(up, UpAt) /\ Run(held, HeldAt) /\ Run(down, DownAt)
        /\ Run(ahead, AheadAt) /\ Run(line, LineAt) /\ Run(printed, 1)
        /\ Len(printed) + 1 = LineAt
        /\ server = "recv" => held = << >>

\* What is under way is one line: no newline before its last byte, and no more
\* bytes than the client will look at; unless the input ends there, it ends as
\* the client expects, so that the client stops at its last byte, not sooner.
OneLine(i, j) ==
    /\ i <= j /\ i <= size
    /\ \A b \in i..(j - 1) : ~ IsNewline(b)
    /\ program \in {"c", "cxx"} => j + 1 - i <= LineMax
    /\ \/ IsNewline(j)
       \/ program \in {"c", "py"} /\ j = size
       \/ program = "c" /\ j + 1 - i = LineMax

LineInv ==
    Talking =>
        /\ client \in {"input", "done"} => LineAt = next
        /\ client \in {"sending", "reading"} => OneLine(LineAt, next - 1)
        /\ client = "sending" => ahead = << >> /\ line = << >>
        /\ client = "reading" => unsent = << >>
        /\ program = "istream" => LineAt = 1 \/ IsNewline(LineAt - 1)

\* Before the client ends only a kill ends the server, or resets the connection.
ResetInv ==
    /\ ~ ClientGone => server \notin {"closed", "failed"}
    /\ connection = "reset" => (ClientGone /\ ~ Talking) \/ server = "killed"
    /\ broken => program = "istream" /\ server = "killed"

EchoInv ==
    /\ TypeOK /\ StreamInv /\ LineInv /\ ResetInv
    /\ FalseAlarmByEmptyLine /\ ServerOutlivesClient

\* Whoever sends has something to send, and readline() has not passed a newline.
WaitInv ==
    Talking =>
        /\ client = "sending" => unsent # << >>
        /\ server = "send" => held # << >>
        /\ \A i \in 1..Len(line) : ~ IsNewline(line[i])
=============================================================================
