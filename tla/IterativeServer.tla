--------------------------- MODULE IterativeServer ---------------------------
(***************************************************************************)
(* The servers that serve one connection after the other, and their        *)
(* clients: tcp/daytime (the server sends the time and closes),            *)
(* tcp/send_fixed_length_bytes (sixteen bytes each way) and                *)
(* tcp/send_all_then_close (the client sends and closes; the server serves *)
(* one connection and ends).                                               *)
(*                                                                         *)
(* Messages are counted in bytes.  The clients send theirs by one or more  *)
(* send() calls; the server's reply goes into an empty socket buffer, which *)
(* takes it at once.  recv() returns any part of what has arrived.         *)
(***************************************************************************)
EXTENDS Naturals, Sequences

CONSTANTS
    Programs,  \* "daytime", "sixteen", "streamer"
    Clients,   \* the client processes; each makes one connection
    Nobody,    \* not a client
    Backlog,   \* the argument of listen(); Linux queues one connection more
    Size       \* bytes in a message: 16, the text of the time, or the whole stream

ASSUME IterativeAssumption ==
    /\ Programs \subseteq {"daytime", "sixteen", "streamer"}
    /\ Nobody \notin Clients
    /\ Backlog \in Nat /\ Size \in Nat \ {0}

VARIABLES
    program,   \* the one that clients and server belong to
    client,    \* "idle", "connected", "done", "failed", "killed"
    sent,      \* bytes each client has sent
    read,      \* bytes each client has received
    replied,   \* bytes the server has sent to each client
    link,      \* the server's end: "none", "queued", "accepted", "closed", "reset"
    queue,     \* connections established and not accepted yet
    server,    \* "accept", "prepare", "recv", "send", "close"; "done", "failed", "killed"
    serving,   \* whose connection the server has accepted
    got        \* bytes it has received of each client, also when that is closed

clientVars == <<client, sent, read>>
serverVars == <<server, serving, got, replied>>
vars == <<program, clientVars, serverVars, link, queue>>

Request == IF program = "daytime" THEN 0 ELSE Size
Reply == IF program = "streamer" THEN 0 ELSE Size

Ended == {"done", "failed", "killed"}
Gone(c) == client[c] \in Ended
Serving == server \notin Ended

-----------------------------------------------------------------------------
(* The clients.                                                            *)

\* connect() is done when the connection is in the queue; while that is full,
\* the kernel tries again.
Connect(c) ==
    /\ client[c] = "idle"
    /\ Serving /\ Len(queue) <= Backlog
    /\ client' = [client EXCEPT ![c] = "connected"]
    /\ link' = [link EXCEPT ![c] = "queued"]
    /\ queue' = Append(queue, c)
    /\ UNCHANGED <<program, sent, read, serverVars>>

\* ECONNREFUSED.
ConnectRefused(c) ==
    /\ client[c] = "idle"
    /\ ~ Serving
    /\ client' = [client EXCEPT ![c] = "failed"]
    /\ UNCHANGED <<program, sent, read, serverVars, link, queue>>

\* One send() of SendAll or SendMsg.  The answer to bytes sent to an end that is
\* closed is a reset.
ClientSend(c) ==
    /\ client[c] = "connected" /\ sent[c] < Request
    /\ link[c] # "reset"
    /\ \E n \in 1..(Request - sent[c]) : sent' = [sent EXCEPT ![c] = @ + n]
    /\ link' = [link EXCEPT ![c] = IF @ = "closed" THEN "reset" ELSE @]
    /\ UNCHANGED <<program, client, read, serverVars, queue>>

ClientRecv(c) ==
    /\ client[c] = "connected" /\ sent[c] = Request
    /\ \E n \in 1..(replied[c] - read[c]) : read' = [read EXCEPT ![c] = @ + n]
    /\ UNCHANGED <<program, client, sent, serverVars, link, queue>>

\* RecvAll has its sixteen bytes; there is nothing to read for a streamer.
AllRead(c) == read[c] = Reply

\* The daytime client reads on until the end of the stream.
ClientDone(c) ==
    /\ client[c] = "connected" /\ sent[c] = Request
    /\ program # "daytime" /\ AllRead(c)
    /\ client' = [client EXCEPT ![c] = "done"]
    /\ UNCHANGED <<program, sent, read, serverVars, link, queue>>

\* recv() returns 0: the daytime client takes that for the end of the reply,
\* RecvAll for an error.
ClientEof(c) ==
    /\ client[c] = "connected" /\ sent[c] = Request
    /\ link[c] = "closed" /\ read[c] = replied[c] /\ ~ (program # "daytime" /\ AllRead(c))
    /\ client' = [client EXCEPT ![c] = IF program = "daytime" THEN "done" ELSE "failed"]
    /\ UNCHANGED <<program, sent, read, serverVars, link, queue>>

\* send() or recv() fails, perhaps before all that had arrived was read.
ClientReset(c) ==
    /\ client[c] = "connected" /\ link[c] = "reset"
    /\ sent[c] < Request \/ program = "daytime" \/ ~ AllRead(c)
    /\ client' = [client EXCEPT ![c] = "failed"]
    /\ UNCHANGED <<program, sent, read, serverVars, link, queue>>

\* The client is killed: the other end reads what was sent and then the end of
\* the stream, or the connection is reset.
ClientKilled(c) ==
    /\ client[c] = "connected"
    /\ client' = [client EXCEPT ![c] = "killed"]
    /\ \/ UNCHANGED link
       \/ link' = [link EXCEPT ![c] = "reset"]
    /\ UNCHANGED <<program, sent, read, serverVars, queue>>

-----------------------------------------------------------------------------
(* The server.                                                             *)

\* What its kernel does with the connections of a process that ends: those in
\* the queue are reset, and so is one with bytes nobody has read.
CloseAll ==
    /\ link' = [c \in Clients |->
                  CASE link[c] = "queued" -> "reset"
                    [] link[c] = "accepted" -> IF sent[c] > got[c] THEN "reset" ELSE "closed"
                    [] OTHER -> link[c]]
    /\ queue' = << >>
    /\ serving' = Nobody

\* err_sys, err_quit, or an exception nobody catches.
Fail == server' = "failed" /\ CloseAll /\ UNCHANGED <<got, replied>>

\* Accept() tries again after ECONNABORTED (the Python servers fail, as they do at
\* their next call when they are given a connection that was reset): a connection
\* that was reset in the queue is passed over, or it is accepted all the same.
Accept ==
    /\ server = "accept" /\ queue # << >>
    /\ queue' = Tail(queue)
    /\ \/ /\ server' = IF program = "daytime" THEN "send" ELSE "prepare"
          /\ serving' = Head(queue)
          /\ link' = [link EXCEPT ![Head(queue)] = IF @ = "reset" THEN @ ELSE "accepted"]
       \/ /\ link[Head(queue)] = "reset"
          /\ UNCHANGED <<server, serving, link>>
    /\ UNCHANGED <<program, clientVars, got, replied>>

\* Getsockname and Getpeername of the sixteen bytes' server, Shutdown(SHUT_WR) of the
\* streamer's: they fail (ENOTCONN) after a reset.
Prepare ==
    /\ server = "prepare"
    /\ \/ /\ link[serving] = "accepted"
          /\ server' = "recv"
          /\ UNCHANGED <<serving, got, replied, link, queue>>
       \/ /\ link[serving] = "reset"
          /\ Fail
    /\ UNCHANGED <<program, clientVars>>

\* A mistake: whatever one recv() returns is the message.
AfterRecvAtOnce == IF program = "sixteen" THEN "send" ELSE "close"

\* RecvAll goes on to its sixteenth byte, the streamer to the end of the stream.
AfterRecv == IF program = "sixteen" /\ got'[serving] = Request THEN "send" ELSE "recv"

\* A mistake: any other count than the one asked for is an error, as in Send.
ServerRecvExactly ==
    /\ server = "recv"
    /\ \E n \in 1..(sent[serving] - got[serving]) :
          IF got[serving] + n = Request
          THEN /\ got' = [got EXCEPT ![serving] = @ + n]
               /\ server' = "send"
               /\ UNCHANGED <<serving, replied, link, queue>>
          ELSE Fail
    /\ UNCHANGED <<program, clientVars>>

ServerRecv ==
    /\ server = "recv"
    /\ \E n \in 1..(sent[serving] - got[serving]) : got' = [got EXCEPT ![serving] = @ + n]
    /\ server' = AfterRecv
    /\ UNCHANGED <<program, clientVars, serving, replied, link, queue>>

\* recv() returns 0: the end of the streamer's message; an error for RecvAll.
ServerEof ==
    /\ server = "recv"
    /\ link[serving] = "accepted"
    /\ Gone(serving) /\ got[serving] = sent[serving]
    /\ \/ /\ program = "streamer"
          /\ server' = "close"
          /\ UNCHANGED <<serving, got, replied, link, queue>>
       \/ /\ program = "sixteen"
          /\ Fail
    /\ UNCHANGED <<program, clientVars>>

\* recv() or send() fails.
ServerReset ==
    /\ server \in {"recv", "send"}
    /\ link[serving] = "reset"
    /\ Fail
    /\ UNCHANGED <<program, clientVars>>

\* A client that is gone does not make send() fail, unless it was reset.
ServerSend ==
    /\ server = "send"
    /\ link[serving] # "reset"
    /\ replied' = [replied EXCEPT ![serving] = Reply]
    /\ server' = "close"
    /\ UNCHANGED <<program, clientVars, serving, got, link, queue>>

\* A mistake: the connection is not closed.
CloseForgotten ==
    /\ server = "close"
    /\ server' = "accept"
    /\ serving' = Nobody
    /\ UNCHANGED <<program, clientVars, got, replied, link, queue>>

\* Close, and back to Accept; the streamer ends.
Close ==
    /\ server = "close"
    /\ IF program = "streamer"
       THEN server' = "done" /\ CloseAll
       ELSE /\ server' = "accept"
            /\ serving' = Nobody
            /\ link' = [link EXCEPT ![serving] = IF @ = "reset" THEN @ ELSE "closed"]
            /\ UNCHANGED queue
    /\ UNCHANGED <<program, clientVars, got, replied>>

ServerKilled ==
    /\ Serving
    /\ server' = "killed"
    /\ CloseAll
    /\ UNCHANGED <<program, clientVars, got, replied>>

-----------------------------------------------------------------------------
Init ==
    /\ program \in Programs
    /\ client = [c \in Clients |-> "idle"]
    /\ sent = [c \in Clients |-> 0] /\ read = [c \in Clients |-> 0]
    /\ replied = [c \in Clients |-> 0] /\ link = [c \in Clients |-> "none"]
    /\ queue = << >> /\ server = "accept" /\ serving = Nobody
    /\ got = [c \in Clients |-> 0]

Run(c) == \/ Connect(c) \/ ConnectRefused(c) \/ ClientSend(c) \/ ClientRecv(c)
          \/ ClientDone(c) \/ ClientEof(c) \/ ClientReset(c)
Serve == \/ Accept \/ Prepare \/ ServerRecv \/ ServerEof \/ ServerReset
         \/ ServerSend \/ Close

\* All clients have ended; the server may wait for more.
Over == (\A c \in Clients : Gone(c)) /\ UNCHANGED vars

Next == (\E c \in Clients : Run(c) \/ ClientKilled(c)) \/ Serve \/ ServerKilled \/ Over

Spec == Init /\ [][Next]_vars

\* Every process runs; nobody has to be killed.
FairSpec == Spec /\ WF_vars(Serve) /\ \A c \in Clients : WF_vars(Run(c))

-----------------------------------------------------------------------------
TypeOK ==
    /\ program \in Programs
    /\ client \in [Clients -> {"idle", "connected"} \cup Ended]
    /\ sent \in [Clients -> 0..Request]
    /\ replied \in [Clients -> 0..Reply]
    /\ \A c \in Clients : read[c] \in 0..replied[c]
    /\ link \in [Clients -> {"none", "queued", "accepted", "closed", "reset"}]
    /\ queue \in Seq(Clients) /\ Len(queue) <= Backlog + 1
    /\ server \in {"accept", "prepare", "recv", "send", "close"} \cup Ended
    /\ IF server \in {"accept"} \cup Ended THEN serving = Nobody ELSE serving \in Clients
    /\ got \in [Clients -> 0..Request]

\* Nobody is answered before the server has his whole request, in however many
\* pieces that came, so a client of the sixteen bytes that ends normally was heard
\* to its last byte, whatever became of the server since.  A daytime client that
\* ends normally has the whole text or nothing of it, nothing only if the server
\* ended.  A streamer is promised nothing: it ends when its bytes are sent, perhaps
\* while it is still in the queue of a server that accepts nobody else.
AnsweredWhenHeard ==
    \A c \in Clients :
        /\ replied[c] > 0 => got[c] = Request
        /\ client[c] = "done" =>
              /\ program = "sixteen" => got[c] = Size
              /\ program = "daytime" => read[c] = Size \/ (read[c] = 0 /\ ~ Serving)

\* The server ends by an error only after a client was killed.
FailsByClientOnly ==
    server = "failed" => \E c \in Clients : client[c] = "killed"

\* What the streamer's server prints as the message is every byte its client
\* sent, and all three lines unless that client was killed before their end.
MessageIsWhole ==
    program = "streamer" /\ server = "close" =>
        /\ got[serving] = sent[serving]
        /\ got[serving] = Size \/ client[serving] = "killed"

\* No client waits for ever: each is served, unless it is killed, or the server
\* has ended before its turn.
EveryoneServed ==
    \A c \in Clients :
        <>(client[c] \in {"done", "killed"} \/ (client[c] = "failed" /\ ~ Serving))
-----------------------------------------------------------------------------
(* Why it works: the inductive invariant.                                  *)

\* One connection is open at a time, the one being served; those in the queue
\* have not been answered; a connection that was closed has its reply.
LinkInv(c) ==
    /\ client[c] = "idle" => link[c] = "none"
    /\ link[c] \in {"none", "queued"} => got[c] = 0
    /\ link[c] = "accepted" => c = serving
    /\ link[c] = "none" => client[c] \in {"idle", "failed"}
    /\ c = serving => link[c] \in {"accepted", "reset"}
    /\ Serving /\ link[c] = "closed" => replied[c] = Reply /\ sent[c] = Request

\* While the server is there, only clients that were killed have failed it.
BlameInv(c) ==
    /\ Serving /\ link[c] = "reset" => client[c] = "killed"
    /\ Serving => client[c] # "failed"

\* A reply is sent whole; a client that ended normally had sent its whole request,
\* and had a reply if it waits for one.
ReplyInv(c) ==
    /\ got[c] <= sent[c]
    /\ replied[c] \in {0, Reply}
    /\ client[c] = "done" => sent[c] = Request
    /\ client[c] = "done" /\ program = "sixteen" => replied[c] > 0
    /\ client[c] = "done" => sent[c] = Request

\* Every connection in the queue is there once, and not the one being served.
QueueInv ==
    /\ \A i \in 1..Len(queue) : link[queue[i]] \in {"queued", "reset"}
    /\ \A i \in 1..Len(queue) : queue[i] # serving /\ got[queue[i]] = 0
    /\ \A i, j \in 1..Len(queue) : queue[i] = queue[j] => i = j

ServerInv ==
    /\ program = "sixteen" /\ server \in {"prepare", "recv"} => got[serving] < Request
    /\ program = "sixteen" /\ server \in {"send", "close"} => got[serving] = Request
    /\ server = "close" => replied[serving] = Reply
    /\ program = "daytime" => server \notin {"prepare", "recv"}
    /\ program = "streamer" => server # "send"

\* The inductive invariant.
Inv ==
    /\ TypeOK /\ QueueInv /\ ServerInv
    /\ AnsweredWhenHeard /\ FailsByClientOnly /\ MessageIsWhole
    /\ \A c \in Clients : LinkInv(c) /\ BlameInv(c) /\ ReplyInv(c)
=============================================================================
