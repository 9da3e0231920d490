------------------------------ MODULE Datagram ------------------------------
(***************************************************************************)
(* The datagram clients and servers of udp/send_local and                  *)
(* unix_domain/send_dgram: a client sends one request to the server's      *)
(* address and waits for one datagram, a server answers every request to   *)
(* the address it came from.                                               *)
(*                                                                         *)
(* The three languages do the same over UDP.  Over Unix sockets they       *)
(* differ in how they treat the file that a socket's path is.  A datagram  *)
(* is the client whose request it is, or answers.                          *)
(***************************************************************************)
EXTENDS Naturals, Sequences, FiniteSets, FiniteSetsExt, SequencesExt

CONSTANTS
    NClients, NServers, \* bounds: how many of each are started
    Addresses,          \* process ids of clients, or the ports the kernel gives them
    Programs,           \* which of the programs: "udp", or over Unix sockets "c", "cxx", "py"
    Buffer,             \* how many datagrams a socket's receive buffer holds
    MaxKills            \* bound: processes that are killed

ServerAddress == "server"   \* 127.0.0.1:1060, or DEFAULT_PATH
Nobody == 0
Nowhere == "nowhere"

\* Processes, numbered in the order in which the clients, and the servers, start.
Clients == 1..NClients
Servers == (NClients + 1)..(NClients + NServers)
Processes == Clients \cup Servers

ASSUME DatagramAssumption ==
    /\ NClients \in Nat /\ NServers \in Nat
    /\ ServerAddress \notin Addresses /\ Nowhere \notin Addresses
    /\ Programs \subseteq {"udp", "c", "cxx", "py"}
    /\ Buffer \in Nat \ {0} /\ MaxKills \in Nat

VARIABLES
    program,   \* the programs that run
    pc,        \* where each process is
    address,   \* a client's process id or port
    owner,     \* whose socket an address names: a path outlives its socket
    inbox,     \* the receive buffer of each process's socket
    hold,      \* the request a server has received and not answered
    answer,    \* the request whose answer a client has received
    lost       \* history: requests that will not be answered any more

vars == <<program, pc, address, owner, inbox, hold, answer, lost>>

Udp == program = "udp"
Gone == {"done", "failed", "refused", "killed"}
Alive(p) == pc[p] \notin Gone \cup {"start"}

\* The process that a datagram sent to address a reaches.
Reached(a) == IF owner[a] # Nobody /\ Alive(owner[a]) THEN owner[a] ELSE Nobody
HasRoom(p) == Len(inbox[p]) < Buffer

In(p) == ToSet(inbox[p])

\* Process p ends, and its socket with what is in its buffer.
Ends(p, how, unanswered) ==
    /\ pc' = [pc EXCEPT ![p] = how]
    /\ inbox' = [inbox EXCEPT ![p] = << >>]
    /\ lost' = lost \cup In(p) \cup unanswered

\* The addresses that name p's socket no longer do.
Release(p) == owner' = [a \in DOMAIN owner |-> IF owner[a] = p THEN Nobody ELSE owner[a]]

\* A process that does not tidy up: a port is free again, a path stays.
Abandon(p) == IF Udp THEN Release(p) ELSE UNCHANGED owner

-----------------------------------------------------------------------------
(* The clients.                                                            *)

IsNext(p, kind) == pc[p] = "start" /\ \A q \in kind : q < p => pc[q] # "start"

\* No running process has the process id, no open socket the port.
Free(a) == \A c \in Clients : address[c] = a => ~ Alive(c)

\* A mistake: one path for all clients, without the process id.
BindFixedPath(c) ==
    /\ ~ Udp
    /\ IsNext(c, Clients)
    /\ \E a \in Addresses :
          /\ address' = [address EXCEPT ![c] = a]
          /\ owner' = [owner EXCEPT ![a] = c]
    /\ pc' = [pc EXCEPT ![c] = "bound"]
    /\ UNCHANGED <<program, inbox, hold, answer, lost>>

\* Over Unix sockets: the path has the process id in it; what an earlier
\* process with that id has left there is unlinked, and the path bound.
BindClient(c) ==
    /\ ~ Udp
    /\ IsNext(c, Clients)
    /\ \E a \in Addresses :
          /\ Free(a)
          /\ address' = [address EXCEPT ![c] = a]
          /\ owner' = [owner EXCEPT ![a] = c]
    /\ pc' = [pc EXCEPT ![c] = "bound"]
    /\ UNCHANGED <<program, inbox, hold, answer, lost>>

\* UDP: sendto() binds the socket to a free port; a datagram that finds nobody
\* or no room is dropped, and the client not told.
SendUdp(c) ==
    /\ Udp
    /\ IsNext(c, Clients)
    /\ \E a \in Addresses :
          /\ Free(a)
          /\ address' = [address EXCEPT ![c] = a]
          /\ owner' = [owner EXCEPT ![a] = c]
    /\ pc' = [pc EXCEPT ![c] = "waiting"]
    /\ LET s == Reached(ServerAddress)
       IN  IF s # Nobody /\ HasRoom(s)
           THEN inbox' = [inbox EXCEPT ![s] = Append(@, c)] /\ UNCHANGED lost
           ELSE lost' = lost \cup {c} /\ UNCHANGED inbox
    /\ UNCHANGED <<program, hold, answer>>

\* Unix sockets: sendto() fails (ENOENT, ECONNREFUSED) if nobody is there, and
\* the client exits without removing its path; it blocks while there is no room.
SendUnix(c) ==
    /\ pc[c] = "bound"
    /\ LET s == Reached(ServerAddress)
       IN  \/ /\ s = Nobody
              /\ Ends(c, "failed", {})
           \/ /\ s # Nobody /\ HasRoom(s)
              /\ inbox' = [inbox EXCEPT ![s] = Append(@, c)]
              /\ pc' = [pc EXCEPT ![c] = "waiting"]
              /\ UNCHANGED lost
    /\ UNCHANGED <<program, address, owner, hold, answer>>

\* recvfrom() takes a datagram from whoever sent it.
ReceiveAnswer(c) ==
    /\ pc[c] = "waiting"
    /\ inbox[c] # << >>
    /\ answer' = [answer EXCEPT ![c] = Head(inbox[c])]
    /\ inbox' = [inbox EXCEPT ![c] = Tail(@)]
    /\ pc' = [pc EXCEPT ![c] = "answered"]
    /\ UNCHANGED <<program, address, owner, hold, lost>>

\* A mistake: the client does not wait for its answer.
CloseAtOnce(c) ==
    /\ pc[c] \in {"waiting", "answered"}
    /\ Ends(c, "done", {})
    /\ Release(c)
    /\ UNCHANGED <<program, address, hold, answer>>

\* Close, and unlink the path before (C) or after that (Python); C++ leaves the
\* path.  One step: between the two nobody can send to the path either.
CloseClient(c) ==
    /\ pc[c] = "answered"
    /\ Ends(c, "done", {})
    /\ IF program = "cxx" THEN UNCHANGED owner ELSE Release(c)
    /\ UNCHANGED <<program, address, hold, answer>>

-----------------------------------------------------------------------------
(* The servers.                                                            *)

\* C and C++ unlink the path whether there is one or not; Python looks first.
LookOrUnlink(s) ==
    /\ ~ Udp
    /\ IsNext(s, Servers)
    /\ IF program = "py"
       THEN /\ pc' = [pc EXCEPT ![s] = IF owner[ServerAddress] = Nobody
                                        THEN "unlinked" ELSE "found"]
            /\ UNCHANGED owner
       ELSE /\ pc' = [pc EXCEPT ![s] = "unlinked"]
            /\ owner' = [owner EXCEPT ![ServerAddress] = Nobody]
    /\ UNCHANGED <<program, address, inbox, hold, answer, lost>>

\* Python: os.unlink of the path that was there.
UnlinkFound(s) ==
    /\ pc[s] = "found"
    /\ IF owner[ServerAddress] = Nobody
       THEN pc' = [pc EXCEPT ![s] = "refused"]
       ELSE pc' = [pc EXCEPT ![s] = "unlinked"]
    /\ owner' = [owner EXCEPT ![ServerAddress] = Nobody]
    /\ UNCHANGED <<program, address, inbox, hold, answer, lost>>

\* A mistake: a server that cannot bind removes the path when it gives up.
BindOrRemove(s) ==
    /\ IF Udp THEN IsNext(s, Servers) ELSE pc[s] = "unlinked"
    /\ IF owner[ServerAddress] = Nobody
       THEN /\ pc' = [pc EXCEPT ![s] = "serving"]
            /\ owner' = [owner EXCEPT ![ServerAddress] = s]
       ELSE /\ pc' = [pc EXCEPT ![s] = "refused"]
            /\ owner' = [owner EXCEPT ![ServerAddress] = Nobody]
    /\ UNCHANGED <<program, address, inbox, hold, answer, lost>>

\* bind() fails if the address is taken.
BindServer(s) ==
    /\ IF Udp THEN IsNext(s, Servers) ELSE pc[s] = "unlinked"
    /\ IF owner[ServerAddress] = Nobody
       THEN /\ pc' = [pc EXCEPT ![s] = "serving"]
            /\ owner' = [owner EXCEPT ![ServerAddress] = s]
       ELSE pc' = [pc EXCEPT ![s] = "refused"] /\ UNCHANGED owner
    /\ UNCHANGED <<program, address, inbox, hold, answer, lost>>

\* A mistake: MSG_PEEK, so that the request is received again.
PeekRequest(s) ==
    /\ pc[s] = "serving"
    /\ inbox[s] # << >>
    /\ hold' = [hold EXCEPT ![s] = {Head(inbox[s])}]
    /\ pc' = [pc EXCEPT ![s] = "answering"]
    /\ UNCHANGED <<program, address, owner, inbox, answer, lost>>

ReceiveRequest(s) ==
    /\ pc[s] = "serving"
    /\ inbox[s] # << >>
    /\ hold' = [hold EXCEPT ![s] = {Head(inbox[s])}]
    /\ inbox' = [inbox EXCEPT ![s] = Tail(@)]
    /\ pc' = [pc EXCEPT ![s] = "answering"]
    /\ UNCHANGED <<program, address, owner, answer, lost>>

\* A mistake: no loop around the two calls.
AnswerOnce(s) ==
    /\ pc[s] = "answering"
    /\ \E c \in hold[s] : LET to == Reached(address[c]) IN
          /\ to # Nobody /\ HasRoom(to)
          /\ inbox' = [inbox EXCEPT ![to] = Append(@, c)]
    /\ pc' = [pc EXCEPT ![s] = "done"]
    /\ hold' = [hold EXCEPT ![s] = {}]
    /\ UNCHANGED <<program, address, owner, answer, lost>>

\* sendto() the address the request came from, whoever has it now.  Over Unix
\* sockets it blocks while there is no room, and fails if nobody is there: the
\* server ends.  Over UDP the answer is dropped in both cases.
SendAnswer(s) ==
    /\ pc[s] = "answering"
    /\ \E c \in hold[s] : LET to == Reached(address[c]) IN
          \/ /\ to # Nobody /\ HasRoom(to)
             /\ inbox' = [inbox EXCEPT ![to] = Append(@, c)]
             /\ pc' = [pc EXCEPT ![s] = "serving"]
             /\ UNCHANGED lost
          \/ /\ Udp
             /\ to # Nobody => ~ HasRoom(to)
             /\ lost' = lost \cup {c}
             /\ pc' = [pc EXCEPT ![s] = "serving"]
             /\ UNCHANGED inbox
          \/ /\ ~ Udp
             /\ to = Nobody
             /\ Ends(s, "failed", {c})
    /\ hold' = [hold EXCEPT ![s] = {}]
    /\ UNCHANGED <<program, address, owner, answer>>

-----------------------------------------------------------------------------
\* Any process may be killed at any moment; a server by Ctrl-C, there is no
\* other way to end one.
Kill(p) ==
    /\ Alive(p)
    /\ Cardinality({q \in Processes : pc[q] = "killed"}) < MaxKills
    /\ Ends(p, "killed", IF p \in Servers THEN hold[p] ELSE {})
    /\ hold' = [s \in Servers |-> IF s = p THEN {} ELSE hold[s]]
    /\ Abandon(p)
    /\ UNCHANGED <<program, address, answer>>

Init ==
    /\ program \in Programs
    /\ pc = [p \in Processes |-> "start"]
    /\ address = [c \in Clients |-> Nowhere]
    /\ owner = [a \in Addresses \cup {ServerAddress} |-> Nobody]
    /\ inbox = [p \in Processes |-> << >>]
    /\ hold = [s \in Servers |-> {}]
    /\ answer = [c \in Clients |-> Nobody]
    /\ lost = {}

\* The user starts a program.
Start == \/ \E c \in Clients : BindClient(c) \/ SendUdp(c)
         \/ \E s \in Servers : LookOrUnlink(s) \/ (Udp /\ BindServer(s))

Client(c) == SendUnix(c) \/ ReceiveAnswer(c) \/ CloseClient(c)
Server(s) == \/ UnlinkFound(s) \/ (~ Udp /\ BindServer(s))
             \/ ReceiveRequest(s) \/ SendAnswer(s)

Next == \/ Start
        \/ \E c \in Clients : Client(c)
        \/ \E s \in Servers : Server(s)
        \/ \E p \in Processes : Kill(p)

Spec == Init /\ [][Next]_vars

\* A program that was started keeps running.
FairSpec == /\ Spec
            /\ \A c \in Clients : WF_vars(Client(c))
            /\ \A s \in Servers : WF_vars(Server(s))

-----------------------------------------------------------------------------
TypeOK ==
    /\ program \in Programs
    /\ pc \in [Processes -> {"start", "bound", "waiting", "answered", "found", "unlinked",
                             "serving", "answering"} \cup Gone]
    /\ address \in [Clients -> Addresses \cup {Nowhere}]
    /\ owner \in [Addresses \cup {ServerAddress} -> Processes \cup {Nobody}]
    /\ inbox \in [Processes -> Seq(Clients)]
    /\ \A p \in Processes : Len(inbox[p]) <= Buffer
    /\ hold \in [Servers -> SUBSET Clients]
    /\ answer \in [Clients -> Clients \cup {Nobody}]
    /\ lost \subseteq Clients

\* A client prints the answer to its own request; only where a killed client
\* had the same port or process id can it be the answer to another one.
AnswerIsMine ==
    \A c \in Clients : answer[c] \notin {c, Nobody} =>
        \E d \in Clients : pc[d] = "killed" /\ address[d] = address[c]

\* Every request sent is in one place: waiting at a server or in its hands, or
\* its answer waiting at a client or printed by one, or it is lost; and none is
\* lost unless a process ended too early or, over UDP, there was no room or
\* no server.
Places(c) ==
    Cardinality({p \in Processes : c \in In(p)})
    + Cardinality({s \in Servers : c \in hold[s]})
    + Cardinality({d \in Clients : answer[d] = c})
    + Cardinality({c} \cap lost)
LostForReason == lost # {} => Udp \/ \E p \in Processes : pc[p] \in {"killed", "failed"}
ExactlyOnce ==
    /\ \A c \in Clients :
          /\ Places(c) <= 1
          /\ pc[c] \in {"waiting", "answered", "done"} => Places(c) = 1
    /\ LostForReason

\* A server ends by itself only over Unix sockets, and only because a client was
\* killed: the answer to that one, or the one to the client that got it instead,
\* finds nobody.  Clients that end normally never take the server with them.
ServerFailsByKill ==
    (\E s \in Servers : pc[s] = "failed") => ~ Udp /\ \E c \in Clients : pc[c] = "killed"

\* However the steps of servers that start together interleave, once one of them
\* listens and none is between unlink and bind, clients reach one that listens.
Listening == {"serving", "answering"}
ServerIsReached ==
    /\ \E s \in Servers : pc[s] \in Listening
    /\ \A s \in Servers : pc[s] \notin {"unlinked", "failed", "killed"}
    => Reached(ServerAddress) # Nobody

\* More clients with one process id were killed than a buffer holds answers.
\* Then a server may block in sendto() to a client that has that id now, and
\* this client in its sendto() to the server.
Jammed == \E a \in Addresses :
              Cardinality({c \in Clients : pc[c] = "killed" /\ address[c] = a}) > Buffer

\* No client waits for ever, unless its request or the answer is lost.
ClientIsAnswered ==
    \A c \in Clients : (pc[c] \in {"bound", "waiting"})
                           ~> (pc[c] \notin {"bound", "waiting"} \/ c \in lost \/ Jammed)

-----------------------------------------------------------------------------
(* Why it is safe: the inductive invariant.                                *)

\* A client has an address from its first step on.  Those of running clients
\* are distinct and lead to them; no address leads to a client that has another.
AddressInv ==
    /\ \A c \in Clients : address[c] = Nowhere <=> pc[c] = "start"
    /\ \A c, d \in Clients : Alive(c) /\ Alive(d) /\ address[c] = address[d] => c = d
    /\ \A c \in Clients : Alive(c) => owner[address[c]] = c
    /\ \A a \in Addresses :
          owner[a] # Nobody => owner[a] \in Clients /\ address[owner[a]] = a

\* No request is in two places, nor twice in one.
OnePlace ==
    /\ \A p \in Processes : IsInjective(inbox[p]) /\ In(p) \cap lost = {}
    /\ \A p, q \in Processes : p # q => In(p) \cap In(q) = {}
    /\ \A s, t \in Servers : s # t => hold[s] \cap hold[t] = {}
    /\ \A s \in Servers : hold[s] \cap lost = {} /\ \A p \in Processes : In(p) \cap hold[s] = {}
    /\ \A c, d \in Clients : answer[c] = answer[d] /\ answer[c] # Nobody => c = d
    /\ \A c \in Clients : /\ answer[c] \notin lost
                          /\ \A p \in Processes : answer[c] \notin In(p)
                          /\ \A s \in Servers : answer[c] \notin hold[s]

\* A server has a request in hand only while it answers it, and only one.
HoldInv ==
    \A s \in Servers : /\ pc[s] # "answering" => hold[s] = {}
                       /\ \A c, d \in hold[s] : c = d

\* A request is somewhere if and only if its client has sent it.
Somewhere(c) == \/ c \in lost
                \/ \E p \in Processes : c \in In(p)
                \/ \E s \in Servers : c \in hold[s]
                \/ \E d \in Clients : answer[d] = c
SentInv ==
    \A c \in Clients :
        /\ Somewhere(c) => pc[c] \in {"waiting", "answered", "done", "killed"}
        /\ pc[c] \in {"waiting", "answered", "done"} => Somewhere(c)
        /\ pc[c] \in {"start", "bound", "waiting"} => answer[c] = Nobody
        /\ pc[c] \in {"answered", "done"} => answer[c] # Nobody

\* An answer goes to the address its request came from.
MatchInv ==
    \A d \in Clients : /\ \A c \in In(d) : address[c] = address[d]
                       /\ answer[d] # Nobody => address[answer[d]] = address[d]

\* The path is that of a server that has bound it, and if there is none although
\* one listens, then somebody is about to bind it, or has failed or been killed.
PathInv ==
    /\ owner[ServerAddress] # Nobody =>
          /\ owner[ServerAddress] \in Servers
          /\ pc[owner[ServerAddress]] \in Listening \cup {"failed", "killed"}
    /\ (\E s \in Servers : pc[s] \in Listening) /\ owner[ServerAddress] = Nobody
       => \E s \in Servers : pc[s] \in {"unlinked", "failed", "killed"}

DatagramInv ==
    /\ TypeOK /\ AddressInv /\ OnePlace /\ HoldInv /\ SentInv /\ MatchInv
    /\ AnswerIsMine /\ ServerFailsByKill /\ LostForReason /\ PathInv
=============================================================================
