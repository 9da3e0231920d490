----------------------- MODULE IterativeServerProofs -----------------------
(***************************************************************************)
(* Machine-checked proofs about IterativeServer, for each of the programs, *)
(* any clients, any backlog and messages of any length.                    *)
(***************************************************************************)
EXTENDS IterativeServer, TLAPS

\* Two sizes that depend on the program.
LEMMA SizesAreNat == /\ Request \in Nat /\ Reply \in Nat
                     /\ program = "streamer" => Request = Size /\ Reply = 0
                     /\ program = "sixteen" => Request = Size /\ Reply = Size
                     /\ program = "daytime" => Request = 0 /\ Reply = Size
                     /\ Size > 0 /\ Size \in Nat
BY IterativeAssumption DEF Request, Reply

LEMMA SizesStay == UNCHANGED program => Request' = Request /\ Reply' = Reply
BY DEF Request, Reply

\* Appending an element keeps what was there.
LEMMA AppendKeeps ==
    ASSUME NEW S, NEW s \in Seq(S), NEW x \in S
    PROVE  /\ Append(s, x) \in Seq(S)
           /\ Len(s) \in Nat /\ Len(Append(s, x)) = Len(s) + 1
           /\ \A i \in 1..Len(s) : Append(s, x)[i] = s[i]
           /\ Append(s, x)[Len(s) + 1] = x
OBVIOUS

\* Taking the oldest element moves the others one place up.
LEMMA TailMoves ==
    ASSUME NEW S, NEW s \in Seq(S), s # << >>
    PROVE  /\ Head(s) \in S /\ Head(s) = s[1]
           /\ Tail(s) \in Seq(S)
           /\ Len(s) \in Nat /\ Len(s) >= 1
           /\ Len(Tail(s)) = Len(s) - 1
           /\ \A i \in 1..Len(Tail(s)) : Tail(s)[i] = s[i + 1]
OBVIOUS

LEMMA InitInv == Init => Inv
BY IterativeAssumption, SizesAreNat DEF Init, Inv, TypeOK, QueueInv, ServerInv, AnsweredWhenHeard,
   FailsByClientOnly, MessageIsWhole, LinkInv, BlameInv, ReplyInv, Ended, Serving

LEMMA ConnectKeeps ==
    ASSUME Inv, NEW d \in Clients, Connect(d)
    PROVE  Inv'
<1> USE IterativeAssumption, SizesAreNat DEF Connect, Inv, Serving, Ended, serverVars
<1>a. Request' = Request /\ Reply' = Reply
  BY SizesStay DEF Connect
<1> USE <1>a
<1>0. /\ queue' \in Seq(Clients) /\ Len(queue) \in Nat /\ Len(queue') = Len(queue) + 1
      /\ \A i \in 1..Len(queue) : queue'[i] = queue[i] /\ queue[i] \in Clients
      /\ queue'[Len(queue) + 1] = d
  BY AppendKeeps DEF TypeOK
<1>1. TypeOK'
  BY <1>0 DEF TypeOK
<1>2. QueueInv'
  <2>1. link[d] = "none" /\ d # serving
    BY DEF LinkInv
  <2>2. \A i \in 1..Len(queue) : queue'[i] # d /\ queue'[i] # serving
    BY <1>0, <2>1 DEF QueueInv
  <2>3. ASSUME NEW i \in 1..Len(queue')
        PROVE  \/ i \in 1..Len(queue) /\ queue'[i] = queue[i]
               \/ i = Len(queue) + 1 /\ queue'[i] = d
    BY <1>0
  <2>4. \A i \in 1..Len(queue') : link'[queue'[i]] \in {"queued", "reset"}
    BY <1>0, <2>1, <2>2, <2>3 DEF TypeOK, QueueInv
  <2>5. \A i \in 1..Len(queue') : queue'[i] # serving' /\ got'[queue'[i]] = 0
    BY <1>0, <2>1, <2>2, <2>3 DEF QueueInv, LinkInv
  <2>6. \A i, j \in 1..Len(queue') : queue'[i] = queue'[j] => i = j
    BY <2>2, <2>3 DEF QueueInv
  <2> QED
    BY <2>4, <2>5, <2>6 DEF QueueInv
<1>3. ServerInv'
  BY DEF TypeOK, ServerInv, LinkInv
<1>4. AnsweredWhenHeard' /\ FailsByClientOnly' /\ MessageIsWhole'
  BY DEF TypeOK, ServerInv, LinkInv, BlameInv, ReplyInv,
         AnsweredWhenHeard, FailsByClientOnly, MessageIsWhole
<1>5. ASSUME NEW c \in Clients
      PROVE LinkInv(c)' /\ BlameInv(c)' /\ ReplyInv(c)'
  BY DEF TypeOK, QueueInv, ServerInv, LinkInv, BlameInv, ReplyInv
<1> QED
  BY <1>1, <1>2, <1>3, <1>4, <1>5

LEMMA ConnectRefusedKeeps ==
    ASSUME Inv, NEW d \in Clients, ConnectRefused(d)
    PROVE  Inv'
<1> USE IterativeAssumption, SizesAreNat DEF ConnectRefused, Inv, Serving, Ended, serverVars
<1>a. Request' = Request /\ Reply' = Reply
  BY SizesStay DEF ConnectRefused
<1> USE <1>a
<1>1. TypeOK'
  BY DEF TypeOK, LinkInv, BlameInv, ReplyInv
<1>2. QueueInv'
  BY DEF TypeOK, QueueInv, LinkInv
<1>3. ServerInv'
  BY DEF TypeOK, ServerInv, LinkInv
<1>4. AnsweredWhenHeard' /\ FailsByClientOnly' /\ MessageIsWhole'
  BY DEF TypeOK, ServerInv, LinkInv, BlameInv, ReplyInv,
         AnsweredWhenHeard, FailsByClientOnly, MessageIsWhole
<1>5. ASSUME NEW c \in Clients
      PROVE LinkInv(c)' /\ BlameInv(c)' /\ ReplyInv(c)'
  BY DEF TypeOK, QueueInv, ServerInv, LinkInv, BlameInv, ReplyInv
<1> QED
  BY <1>1, <1>2, <1>3, <1>4, <1>5

LEMMA ClientSendKeeps ==
    ASSUME Inv, NEW d \in Clients, ClientSend(d)
    PROVE  Inv'
<1> USE IterativeAssumption, SizesAreNat DEF ClientSend, Inv, Serving, Ended, serverVars
<1>a. Request' = Request /\ Reply' = Reply
  BY SizesStay DEF ClientSend
<1> USE <1>a
<1>1. TypeOK'
  BY DEF TypeOK, LinkInv, BlameInv, ReplyInv
<1>2. QueueInv'
  <2>1. \A i \in 1..Len(queue) : queue[i] \in Clients
    BY DEF TypeOK
  <2>2. \A c \in Clients : link[c] \in {"queued", "reset"} => link'[c] = link[c]
    BY DEF TypeOK
  <2>3. UNCHANGED <<queue, serving>>
    OBVIOUS
  <2> QED
    BY <2>1, <2>2, <2>3 DEF QueueInv
<1>3. ServerInv'
  BY DEF TypeOK, ServerInv, LinkInv
<1>4. AnsweredWhenHeard' /\ FailsByClientOnly' /\ MessageIsWhole'
  BY DEF TypeOK, ServerInv, LinkInv, BlameInv, ReplyInv,
         AnsweredWhenHeard, FailsByClientOnly, MessageIsWhole
<1>5. ASSUME NEW c \in Clients
      PROVE LinkInv(c)' /\ BlameInv(c)' /\ ReplyInv(c)'
  BY DEF TypeOK, QueueInv, ServerInv, LinkInv, BlameInv, ReplyInv
<1> QED
  BY <1>1, <1>2, <1>3, <1>4, <1>5

LEMMA ClientRecvKeeps ==
    ASSUME Inv, NEW d \in Clients, ClientRecv(d)
    PROVE  Inv'
<1> USE IterativeAssumption, SizesAreNat DEF ClientRecv, Inv, Serving, Ended, serverVars
<1>a. Request' = Request /\ Reply' = Reply
  BY SizesStay DEF ClientRecv
<1> USE <1>a
<1>1. TypeOK'
  BY DEF TypeOK, LinkInv, BlameInv, ReplyInv
<1>2. QueueInv'
  BY DEF TypeOK, QueueInv, LinkInv
<1>3. ServerInv'
  BY DEF TypeOK, ServerInv, LinkInv
<1>4. AnsweredWhenHeard' /\ FailsByClientOnly' /\ MessageIsWhole'
  BY DEF TypeOK, ServerInv, LinkInv, BlameInv, ReplyInv,
         AnsweredWhenHeard, FailsByClientOnly, MessageIsWhole
<1>5. ASSUME NEW c \in Clients
      PROVE LinkInv(c)' /\ BlameInv(c)' /\ ReplyInv(c)'
  BY DEF TypeOK, QueueInv, ServerInv, LinkInv, BlameInv, ReplyInv
<1> QED
  BY <1>1, <1>2, <1>3, <1>4, <1>5

LEMMA ClientDoneKeeps ==
    ASSUME Inv, NEW d \in Clients, ClientDone(d)
    PROVE  Inv'
<1> USE IterativeAssumption, SizesAreNat DEF ClientDone, Inv, AllRead, Serving, Ended, serverVars
<1>a. Request' = Request /\ Reply' = Reply
  BY SizesStay DEF ClientDone
<1> USE <1>a
<1>1. TypeOK'
  BY DEF TypeOK, LinkInv, BlameInv, ReplyInv
<1>2. QueueInv'
  BY DEF TypeOK, QueueInv, LinkInv
<1>3. ServerInv'
  BY DEF TypeOK, ServerInv, LinkInv
<1>4. AnsweredWhenHeard' /\ FailsByClientOnly' /\ MessageIsWhole'
  BY DEF TypeOK, ServerInv, LinkInv, BlameInv, ReplyInv,
         AnsweredWhenHeard, FailsByClientOnly, MessageIsWhole
<1>5. ASSUME NEW c \in Clients
      PROVE LinkInv(c)' /\ BlameInv(c)' /\ ReplyInv(c)'
  BY DEF TypeOK, QueueInv, ServerInv, LinkInv, BlameInv, ReplyInv
<1> QED
  BY <1>1, <1>2, <1>3, <1>4, <1>5

LEMMA ClientEofKeeps ==
    ASSUME Inv, NEW d \in Clients, ClientEof(d)
    PROVE  Inv'
<1> USE IterativeAssumption, SizesAreNat DEF ClientEof, Inv, AllRead, Serving, Ended, serverVars
<1>a. Request' = Request /\ Reply' = Reply
  BY SizesStay DEF ClientEof
<1> USE <1>a
<1>1. TypeOK'
  BY DEF TypeOK, LinkInv, BlameInv, ReplyInv
<1>2. QueueInv'
  BY DEF TypeOK, QueueInv, LinkInv
<1>3. ServerInv'
  BY DEF TypeOK, ServerInv, LinkInv
<1>4. AnsweredWhenHeard' /\ FailsByClientOnly' /\ MessageIsWhole'
  BY DEF TypeOK, ServerInv, LinkInv, BlameInv, ReplyInv,
         AnsweredWhenHeard, FailsByClientOnly, MessageIsWhole
<1>5. ASSUME NEW c \in Clients
      PROVE LinkInv(c)' /\ BlameInv(c)' /\ ReplyInv(c)'
  BY DEF TypeOK, QueueInv, ServerInv, LinkInv, BlameInv, ReplyInv
<1> QED
  BY <1>1, <1>2, <1>3, <1>4, <1>5

LEMMA ClientResetKeeps ==
    ASSUME Inv, NEW d \in Clients, ClientReset(d)
    PROVE  Inv'
<1> USE IterativeAssumption, SizesAreNat DEF ClientReset, Inv, Serving, Ended, serverVars
<1>a. Request' = Request /\ Reply' = Reply
  BY SizesStay DEF ClientReset
<1> USE <1>a
<1>1. TypeOK'
  BY DEF TypeOK, LinkInv, BlameInv, ReplyInv
<1>2. QueueInv'
  BY DEF TypeOK, QueueInv, LinkInv
<1>3. ServerInv'
  BY DEF TypeOK, ServerInv, LinkInv
<1>4. AnsweredWhenHeard' /\ FailsByClientOnly' /\ MessageIsWhole'
  BY DEF TypeOK, ServerInv, LinkInv, BlameInv, ReplyInv,
         AnsweredWhenHeard, FailsByClientOnly, MessageIsWhole
<1>5. ASSUME NEW c \in Clients
      PROVE LinkInv(c)' /\ BlameInv(c)' /\ ReplyInv(c)'
  BY DEF TypeOK, QueueInv, ServerInv, LinkInv, BlameInv, ReplyInv
<1> QED
  BY <1>1, <1>2, <1>3, <1>4, <1>5

LEMMA ClientKilledKeeps ==
    ASSUME Inv, NEW d \in Clients, ClientKilled(d)
    PROVE  Inv'
<1> USE IterativeAssumption, SizesAreNat DEF ClientKilled, Inv, Serving, Ended, serverVars
<1>a. Request' = Request /\ Reply' = Reply
  BY SizesStay DEF ClientKilled
<1> USE <1>a
<1>1. TypeOK'
  BY DEF TypeOK, LinkInv, BlameInv, ReplyInv
<1>2. QueueInv'
  <2>1. \A i \in 1..Len(queue) : queue[i] \in Clients
    BY DEF TypeOK
  <2>2. \A c \in Clients : link[c] \in {"queued", "reset"} => link'[c] \in {"queued", "reset"}
    BY DEF TypeOK
  <2>3. UNCHANGED <<queue, serving, got>>
    BY DEF serverVars
  <2> QED
    BY <2>1, <2>2, <2>3 DEF QueueInv
<1>3. ServerInv'
  BY DEF TypeOK, ServerInv, LinkInv
<1>4. AnsweredWhenHeard' /\ FailsByClientOnly' /\ MessageIsWhole'
  BY DEF TypeOK, ServerInv, LinkInv, BlameInv, ReplyInv,
         AnsweredWhenHeard, FailsByClientOnly, MessageIsWhole
<1>5. ASSUME NEW c \in Clients
      PROVE LinkInv(c)' /\ BlameInv(c)' /\ ReplyInv(c)'
  BY DEF TypeOK, QueueInv, ServerInv, LinkInv, BlameInv, ReplyInv
<1> QED
  BY <1>1, <1>2, <1>3, <1>4, <1>5

\* What happens to the connections when the server's process ends.
LEMMA EndKeeps ==
    ASSUME Inv, CloseAll, UNCHANGED <<program, clientVars, got, replied>>,
           server' \in Ended,
           server' = "failed" => \E c \in Clients : client[c] = "killed"
    PROVE  Inv'
<1> USE DEF Inv, CloseAll, Serving, Ended, clientVars
<1>0. /\ UNCHANGED <<program, client, sent, read, got, replied>>
      /\ Request' = Request /\ Reply' = Reply
  BY SizesStay
<1>1. ASSUME NEW c \in Clients
      PROVE  /\ link[c] \in {"none", "queued", "accepted", "closed", "reset"}
             /\ link'[c] \in {"none", "closed", "reset"}
             /\ link'[c] = "none" <=> link[c] = "none"
  BY <1>1 DEF TypeOK
<1>2. TypeOK'
  <2>1. link' \in [Clients -> {"none", "queued", "accepted", "closed", "reset"}]
    BY <1>1
  <2>2. queue' \in Seq(Clients) /\ Len(queue') <= Backlog + 1
    BY IterativeAssumption DEF TypeOK
  <2> QED
    BY <1>0, <2>1, <2>2, SizesAreNat DEF TypeOK
<1>3. QueueInv'
  BY DEF QueueInv
<1>4. ServerInv'
  BY <1>0, IterativeAssumption, SizesAreNat DEF TypeOK, ServerInv
<1>5. AnsweredWhenHeard' /\ FailsByClientOnly' /\ MessageIsWhole'
  BY <1>0 DEF AnsweredWhenHeard, FailsByClientOnly, MessageIsWhole
<1>6. ASSUME NEW c \in Clients
      PROVE LinkInv(c)' /\ BlameInv(c)' /\ ReplyInv(c)'
  BY <1>0, <1>1, IterativeAssumption DEF LinkInv, BlameInv, ReplyInv
<1> QED
  BY <1>2, <1>3, <1>4, <1>5, <1>6

\* Only a client that was killed resets a connection of a server that is there.
LEMMA ResetMeansKilled ==
    ASSUME Inv, Serving, serving \in Clients, link[serving] = "reset"
    PROVE  \E c \in Clients : client[c] = "killed"
BY DEF Inv, BlameInv

LEMMA AcceptKeeps ==
    ASSUME Inv, Accept
    PROVE  Inv'
<1> DEFINE c0 == Head(queue)
<1>0. /\ UNCHANGED <<program, client, sent, read, got, replied>>
      /\ Request' = Request /\ Reply' = Reply
  BY SizesStay DEF Accept, clientVars
<1>1. /\ c0 \in Clients /\ c0 = queue[1]
      /\ queue' \in Seq(Clients) /\ queue' = Tail(queue)
      /\ Len(queue) \in Nat /\ Len(queue) >= 1 /\ Len(queue') = Len(queue) - 1
      /\ \A i \in 1..Len(queue') : i + 1 \in 1..Len(queue) /\ queue'[i] = queue[i + 1]
  BY TailMoves DEF Inv, TypeOK, Accept
<1>2. /\ link[c0] \in {"queued", "reset"}
      /\ \A i \in 1..Len(queue') : queue'[i] # c0
  <2>1. 1 \in 1..Len(queue)
    BY <1>1
  <2>2. ASSUME NEW i \in 1..Len(queue'), queue'[i] = c0 PROVE FALSE
    <3>1. i + 1 \in 1..Len(queue) /\ queue[i + 1] = queue[1]
      BY <1>1, <2>2
    <3>2. i + 1 = 1
      BY <2>1, <3>1 DEF Inv, QueueInv
    <3> QED
      BY <1>1, <3>2
  <2> QED
    BY <1>1, <2>1, <2>2 DEF Inv, QueueInv
<1>3. \A i, j \in 1..Len(queue') : queue'[i] = queue'[j] => i = j
  <2>1. ASSUME NEW i \in 1..Len(queue'), NEW j \in 1..Len(queue'), queue'[i] = queue'[j]
        PROVE  i = j
    <3>1. i + 1 = j + 1
      BY <1>1, <2>1 DEF Inv, QueueInv
    <3> QED
      BY <1>1, <3>1
  <2> QED
    BY <2>1
<1>4. /\ got[c0] = 0
      /\ \A i \in 1..Len(queue') : /\ link[queue'[i]] \in {"queued", "reset"}
                                   /\ queue'[i] \in Clients /\ got[queue'[i]] = 0
  BY <1>1 DEF Inv, TypeOK, QueueInv
<1>5. /\ link' \in [Clients -> {"none", "queued", "accepted", "closed", "reset"}]
      /\ \A c \in Clients : c # c0 => link'[c] = link[c]
      /\ serving' \in {Nobody, c0}
      /\ serving' = c0 => link'[c0] = IF link[c0] = "reset" THEN "reset" ELSE "accepted"
      /\ serving' = Nobody => link'[c0] = "reset" /\ link[c0] = "reset"
  <2>1. /\ serving = Nobody /\ Nobody # c0
        /\ link \in [Clients -> {"none", "queued", "accepted", "closed", "reset"}]
    BY <1>1, IterativeAssumption DEF Inv, TypeOK, Accept
  <2> QED
    BY <1>1, <2>1 DEF Accept
<1>5a. \/ server' = "accept" /\ serving' = Nobody
       \/ /\ serving' = c0
          /\ \/ program = "daytime" /\ server' = "send"
             \/ program \in {"sixteen", "streamer"} /\ server' = "prepare"
  <2>1. program \in {"daytime", "sixteen", "streamer"}
    BY IterativeAssumption DEF Inv, TypeOK
  <2>2. serving = Nobody
    BY DEF Inv, TypeOK, Accept
  <2> QED
    BY <2>1, <2>2 DEF Accept
<1>6. TypeOK'
  <2>1. Len(queue') <= Backlog + 1
    BY <1>1, IterativeAssumption DEF Inv, TypeOK
  <2>2. queue' \in Seq(Clients) /\ c0 \in Clients
    BY <1>1
  <2> QED
    BY <1>0, <1>5, <1>5a, <2>1, <2>2, IterativeAssumption, SizesAreNat DEF Inv, TypeOK, Ended
<1>7. QueueInv'
  <2>1. \A i \in 1..Len(queue') : link'[queue'[i]] \in {"queued", "reset"}
    BY <1>2, <1>4, <1>5
  <2>2. \A i \in 1..Len(queue') : queue'[i] # serving' /\ got'[queue'[i]] = 0
    BY <1>0, <1>2, <1>4, <1>5, IterativeAssumption
  <2> QED
    BY <1>3, <2>1, <2>2 DEF QueueInv
<1>8. ServerInv'
  <2>1. CASE server' = "accept" /\ serving' = Nobody
    BY <1>0, <2>1 DEF ServerInv
  <2>2. CASE serving' = c0 /\ server' # "accept"
    BY <1>0, <1>4, <1>5a, <2>2, SizesAreNat DEF ServerInv
  <2> QED
    BY <1>5a, <2>1, <2>2
<1>9. AnsweredWhenHeard' /\ FailsByClientOnly' /\ MessageIsWhole'
  BY <1>0, <1>5a DEF Inv, AnsweredWhenHeard, FailsByClientOnly, MessageIsWhole, Accept,
     Serving, Ended
<1>10. ASSUME NEW c \in Clients PROVE LinkInv(c)' /\ BlameInv(c)' /\ ReplyInv(c)'
  <2>1. /\ UNCHANGED <<program, client, sent, read, replied>>
        /\ Serving /\ Serving' /\ serving = Nobody /\ Nobody # c
    BY IterativeAssumption DEF Inv, TypeOK, Accept, clientVars, Serving, Ended
  <2>2. LinkInv(c) /\ BlameInv(c) /\ ReplyInv(c)
    BY DEF Inv
  <2>3. CASE c = c0
    BY <1>0, <1>2, <1>5, <2>1, <2>2, <2>3 DEF LinkInv, BlameInv, ReplyInv
  <2>4. CASE c # c0
    BY <1>0, <1>2, <1>5, <2>1, <2>2, <2>4 DEF LinkInv, BlameInv, ReplyInv
  <2> QED
    BY <2>3, <2>4
<1> QED
  BY <1>6, <1>7, <1>8, <1>9, <1>10 DEF Inv

LEMMA PrepareKeeps ==
    ASSUME Inv, Prepare
    PROVE  Inv'
<1>1. serving \in Clients /\ Serving
  BY DEF Inv, TypeOK, Prepare, Serving, Ended
<1>2. CASE link[serving] = "reset"
  BY <1>1, <1>2, EndKeeps, ResetMeansKilled DEF Prepare, Fail, Ended
<1>3. CASE link[serving] # "reset"
  <2> USE <1>1, <1>3, IterativeAssumption, SizesAreNat, SizesStay
      DEF Prepare, Inv, Serving, Ended, clientVars
  <2>0. /\ UNCHANGED <<program, client, sent, read, replied, serving, got, link, queue>>
        /\ server = "prepare" /\ server' = "recv"
    OBVIOUS
  <2>1. TypeOK' /\ QueueInv'
    BY <2>0 DEF TypeOK, QueueInv
  <2>2. ServerInv'
    BY <2>0 DEF TypeOK, ServerInv
  <2>3. AnsweredWhenHeard' /\ FailsByClientOnly' /\ MessageIsWhole'
    BY <2>0 DEF AnsweredWhenHeard, FailsByClientOnly, MessageIsWhole
  <2>4. ASSUME NEW c \in Clients PROVE LinkInv(c)' /\ BlameInv(c)' /\ ReplyInv(c)'
    BY <2>0 DEF LinkInv, BlameInv, ReplyInv
  <2> QED
    BY <2>1, <2>2, <2>3, <2>4
<1> QED
  BY <1>2, <1>3

LEMMA ServerRecvKeeps ==
    ASSUME Inv, ServerRecv
    PROVE  Inv'
<1> USE IterativeAssumption, SizesAreNat DEF ServerRecv, AfterRecv, Inv, Serving, Ended, clientVars
<1>a. Request' = Request /\ Reply' = Reply
  BY SizesStay DEF ServerRecv
<1> USE <1>a
<1>1. TypeOK'
  BY DEF TypeOK, LinkInv, BlameInv, ReplyInv
<1>2. QueueInv'
  <2>1. \A i \in 1..Len(queue) : queue[i] \in Clients
    BY DEF TypeOK
  <2>1a. \A i \in 1..Len(queue) : queue[i] # serving
    BY DEF QueueInv
  <2>2. UNCHANGED <<queue, serving, link>> /\ \A c \in Clients : c # serving => got'[c] = got[c]
    BY DEF TypeOK
  <2> QED
    BY <2>1, <2>1a, <2>2 DEF QueueInv
<1>3. ServerInv'
  BY DEF TypeOK, ServerInv, LinkInv
<1>4. AnsweredWhenHeard' /\ FailsByClientOnly' /\ MessageIsWhole'
  BY DEF TypeOK, ServerInv, LinkInv, BlameInv, ReplyInv,
         AnsweredWhenHeard, FailsByClientOnly, MessageIsWhole
<1>5. ASSUME NEW c \in Clients
      PROVE LinkInv(c)' /\ BlameInv(c)' /\ ReplyInv(c)'
  BY DEF TypeOK, QueueInv, ServerInv, LinkInv, BlameInv, ReplyInv
<1> QED
  BY <1>1, <1>2, <1>3, <1>4, <1>5

LEMMA ServerEofKeeps ==
    ASSUME Inv, ServerEof
    PROVE  Inv'
<1>1. /\ serving \in Clients /\ Serving
      /\ Gone(serving) /\ got[serving] = sent[serving]
      /\ client[serving] \in {"done", "killed"}
  BY DEF Inv, TypeOK, BlameInv, ServerEof, Serving, Gone, Ended
<1>2. CASE program = "sixteen"
  <2>1. client[serving] = "killed"
    BY <1>1, <1>2, SizesAreNat, SizesStay DEF Inv, TypeOK, ServerInv, ReplyInv, ServerEof
  <2> QED
    BY <1>1, <1>2, <2>1, EndKeeps DEF ServerEof, Fail, Ended
<1>3. CASE program = "streamer"
  <2> USE <1>1, <1>3, IterativeAssumption, SizesAreNat, SizesStay DEF Inv, Serving, Ended, clientVars
  <2>1. /\ UNCHANGED <<program, client, sent, read, replied, serving, got, link, queue>>
        /\ server = "recv" /\ server' = "close"
    BY DEF ServerEof
  <2>2. TypeOK' /\ QueueInv'
    BY <2>1 DEF TypeOK, QueueInv
  <2>3. ServerInv'
    BY <2>1 DEF TypeOK, ServerInv, ReplyInv
  <2>4. MessageIsWhole'
    BY <2>1 DEF MessageIsWhole, ReplyInv
  <2>5. AnsweredWhenHeard' /\ FailsByClientOnly'
    BY <2>1 DEF AnsweredWhenHeard, FailsByClientOnly
  <2>6. ASSUME NEW c \in Clients PROVE LinkInv(c)' /\ BlameInv(c)' /\ ReplyInv(c)'
    BY <2>1 DEF LinkInv, BlameInv, ReplyInv
  <2> QED
    BY <2>2, <2>3, <2>4, <2>5, <2>6
<1> QED
  BY <1>2, <1>3 DEF ServerEof

LEMMA ServerResetKeeps ==
    ASSUME Inv, ServerReset
    PROVE  Inv'
<1>1. serving \in Clients /\ Serving
  BY DEF Inv, TypeOK, ServerReset, Serving, Ended
<1> QED
  BY <1>1, EndKeeps, ResetMeansKilled DEF ServerReset, Fail, Ended

LEMMA ServerSendKeeps ==
    ASSUME Inv, ServerSend
    PROVE  Inv'
<1> USE IterativeAssumption, SizesAreNat DEF ServerSend, Inv, Serving, Ended, clientVars
<1>a. Request' = Request /\ Reply' = Reply
  BY SizesStay DEF ServerSend
<1> USE <1>a
<1>1. TypeOK'
  BY DEF TypeOK, LinkInv, BlameInv, ReplyInv
<1>2. QueueInv'
  BY DEF TypeOK, QueueInv, LinkInv
<1>3. ServerInv'
  BY DEF TypeOK, ServerInv, LinkInv
<1>4. AnsweredWhenHeard' /\ FailsByClientOnly' /\ MessageIsWhole'
  BY DEF TypeOK, ServerInv, LinkInv, BlameInv, ReplyInv,
         AnsweredWhenHeard, FailsByClientOnly, MessageIsWhole
<1>5. ASSUME NEW c \in Clients
      PROVE LinkInv(c)' /\ BlameInv(c)' /\ ReplyInv(c)'
  BY DEF TypeOK, QueueInv, ServerInv, LinkInv, BlameInv, ReplyInv
<1> QED
  BY <1>1, <1>2, <1>3, <1>4, <1>5

LEMMA CloseKeeps ==
    ASSUME Inv, Close
    PROVE  Inv'
<1>1. CASE program = "streamer"
  BY <1>1, EndKeeps DEF Close, Ended
<1>2. CASE program # "streamer"
  <2> USE <1>2, IterativeAssumption, SizesAreNat, SizesStay DEF Inv, Serving, Ended, clientVars
  <2>1. /\ UNCHANGED <<program, client, sent, read, replied, got, queue>>
        /\ server = "close" /\ server' = "accept" /\ serving' = Nobody /\ serving \in Clients
        /\ link' = [link EXCEPT ![serving] = IF @ = "reset" THEN @ ELSE "closed"]
    BY DEF TypeOK, Close
  <2>2. TypeOK'
    BY <2>1 DEF TypeOK
  <2>3. QueueInv'
    <3>1. \A i \in 1..Len(queue) : queue[i] \in Clients /\ queue[i] # serving
      BY DEF TypeOK, QueueInv
    <3> QED
      BY <2>1, <3>1 DEF TypeOK, QueueInv
  <2>4. ServerInv' /\ AnsweredWhenHeard' /\ FailsByClientOnly' /\ MessageIsWhole'
    BY <2>1 DEF ServerInv, AnsweredWhenHeard, FailsByClientOnly, MessageIsWhole
  <2>5. sent[serving] = Request /\ replied[serving] = Reply
    BY <2>1 DEF TypeOK, ServerInv, ReplyInv
  <2>6. ASSUME NEW c \in Clients PROVE LinkInv(c)' /\ BlameInv(c)' /\ ReplyInv(c)'
    BY <2>1, <2>5 DEF TypeOK, LinkInv, BlameInv, ReplyInv
  <2> QED
    BY <2>2, <2>3, <2>4, <2>6
<1> QED
  BY <1>1, <1>2

LEMMA ServerKilledKeeps ==
    ASSUME Inv, ServerKilled
    PROVE  Inv'
BY EndKeeps DEF ServerKilled, Ended

LEMMA StepInv == Inv /\ [Next]_vars => Inv'
<1> SUFFICES ASSUME Inv, [Next]_vars PROVE Inv'
  OBVIOUS
<1>1. ASSUME NEW c \in Clients, Run(c) PROVE Inv'
  BY <1>1, ConnectKeeps, ConnectRefusedKeeps, ClientSendKeeps, ClientRecvKeeps,
     ClientDoneKeeps, ClientEofKeeps, ClientResetKeeps DEF Run
<1>2. ASSUME Serve PROVE Inv'
  BY <1>2, AcceptKeeps, PrepareKeeps, ServerRecvKeeps, ServerEofKeeps, ServerResetKeeps,
     ServerSendKeeps, CloseKeeps DEF Serve
<1>3. CASE UNCHANGED vars
  BY <1>3, SizesStay DEF Inv, TypeOK, QueueInv, ServerInv, AnsweredWhenHeard, FailsByClientOnly,
     MessageIsWhole, LinkInv, BlameInv, ReplyInv, Serving, vars, clientVars, serverVars
<1> QED
  BY <1>1, <1>2, <1>3, ClientKilledKeeps, ServerKilledKeeps DEF Next, Over

-----------------------------------------------------------------------------
\* Inv holds in every state the programs can reach.
THEOREM Invariance == Spec => []Inv
BY InitInv, StepInv, PTL DEF Spec

\* The types of the variables; at most Backlog + 1 connections wait.
THEOREM TypeCorrect == Spec => []TypeOK
<1>1. Inv => TypeOK
  BY DEF Inv
<1> QED
  BY <1>1, Invariance, PTL

\* For any number of clients and requests of any length: no reply before the whole
\* request (RecvAll), so a client that has its sixteen bytes was heard; and a daytime
\* client that ends normally has the text, or nothing from a server that has ended.
THEOREM RepliesFollowRequests == Spec => []AnsweredWhenHeard
<1>1. Inv => AnsweredWhenHeard
  BY DEF Inv
<1> QED
  BY <1>1, Invariance, PTL

\* As long as nobody kills a client, no call of the server fails.
THEOREM ServerFailsByClientOnly == Spec => []FailsByClientOnly
<1>1. Inv => FailsByClientOnly
  BY DEF Inv
<1> QED
  BY <1>1, Invariance, PTL

\* The streamer's server prints the whole message, or that of a client killed.
THEOREM StreamIsWhole == Spec => []MessageIsWhole
<1>1. Inv => MessageIsWhole
  BY DEF Inv
<1> QED
  BY <1>1, Invariance, PTL
=============================================================================
