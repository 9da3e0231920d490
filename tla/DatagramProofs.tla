--------------------------- MODULE DatagramProofs ---------------------------
(***************************************************************************)
(* Machine-checked proofs about Datagram, for any number of clients,       *)
(* servers, addresses and killed processes, and any size of the buffers.   *)
(***************************************************************************)
EXTENDS Datagram, FiniteSetTheorems, TLAPS

-----------------------------------------------------------------------------
(* Buffers.                                                                *)

\* An empty buffer.
LEMMA EmptyBuffer ==
    ASSUME NEW S, NEW s \in Seq(S), Len(s) = 0
    PROVE  ToSet(s) = {} /\ IsInjective(s)
<1>1. DOMAIN s = {}
  OBVIOUS
<1>2. ToSet(s) = {}
  BY <1>1 DEF ToSet
<1>3. IsInjective(s)
  BY <1>1 DEF IsInjective
<1> QED
  BY <1>2, <1>3

LEMMA ElementsOf == ASSUME NEW S, NEW s \in Seq(S) PROVE ToSet(s) \subseteq S
BY DEF ToSet

\* One more element, behind the others.
LEMMA AppendAdds ==
    ASSUME NEW S, NEW s \in Seq(S), NEW x \in S
    PROVE  /\ Append(s, x) \in Seq(S) /\ Len(Append(s, x)) = Len(s) + 1
           /\ ToSet(Append(s, x)) = ToSet(s) \cup {x}
           /\ IsInjective(s) /\ x \notin ToSet(s) => IsInjective(Append(s, x))
<1> DEFINE t == Append(s, x)
<1>1. /\ t \in Seq(S) /\ Len(s) \in Nat /\ Len(t) = Len(s) + 1
      /\ DOMAIN s = 1..Len(s) /\ DOMAIN t = 1..(Len(s) + 1)
      /\ \A i \in 1..Len(s) : t[i] = s[i]
      /\ t[Len(s) + 1] = x
  OBVIOUS
<1> HIDE DEF t
<1>2. ToSet(t) = ToSet(s) \cup {x}
  BY <1>1 DEF ToSet
<1>3. IsInjective(s) /\ x \notin ToSet(s) => IsInjective(t)
  BY <1>1 DEF ToSet, IsInjective
<1> QED
  BY <1>1, <1>2, <1>3 DEF t

\* The oldest element is taken out.
LEMMA TailLacks ==
    ASSUME NEW S, NEW s \in Seq(S), s # << >>
    PROVE  /\ Head(s) \in S /\ Tail(s) \in Seq(S) /\ Len(Tail(s)) <= Len(s)
           /\ Head(s) \in ToSet(s)
           /\ ToSet(s) = ToSet(Tail(s)) \cup {Head(s)}
           /\ IsInjective(s) => IsInjective(Tail(s)) /\ Head(s) \notin ToSet(Tail(s))
<1> DEFINE t == Tail(s)
<1>1. /\ Head(s) = s[1] /\ t \in Seq(S) /\ Len(s) \in Nat /\ Len(s) >= 1
      /\ Len(t) = Len(s) - 1
      /\ DOMAIN s = 1..Len(s) /\ DOMAIN t = 1..(Len(s) - 1)
      /\ \A i \in 1..(Len(s) - 1) : t[i] = s[i + 1]
      /\ \A i \in 1..Len(s) : s[i] \in S
  OBVIOUS
<1> HIDE DEF t
<1>2. ToSet(s) = ToSet(t) \cup {Head(s)}
  <2>1. ASSUME NEW x \in ToSet(s) PROVE x \in ToSet(t) \cup {Head(s)}
    <3>1. PICK i \in 1..Len(s) : x = s[i]
      BY <1>1 DEF ToSet
    <3>2. CASE i = 1
      BY <3>1, <3>2, <1>1
    <3>3. CASE i # 1
      <4>1. i - 1 \in 1..(Len(s) - 1) /\ t[i - 1] = s[i]
        BY <3>3, <1>1
      <4> QED
        BY <3>1, <4>1, <1>1 DEF ToSet
    <3> QED
      BY <3>2, <3>3
  <2>2. ASSUME NEW x \in ToSet(t) PROVE x \in ToSet(s)
    <3>1. PICK i \in 1..(Len(s) - 1) : x = t[i]
      BY <1>1 DEF ToSet
    <3>2. i + 1 \in 1..Len(s) /\ x = s[i + 1]
      BY <3>1, <1>1
    <3> QED
      BY <3>2, <1>1 DEF ToSet
  <2>3. Head(s) \in ToSet(s)
    BY <1>1 DEF ToSet
  <2> QED
    BY <2>1, <2>2, <2>3
<1>3. IsInjective(s) => IsInjective(t)
  <2> SUFFICES ASSUME IsInjective(s), NEW i \in DOMAIN t, NEW j \in DOMAIN t, t[i] = t[j]
               PROVE  i = j
    BY DEF IsInjective
  <2>1. i + 1 \in DOMAIN s /\ j + 1 \in DOMAIN s /\ s[i + 1] = s[j + 1]
    BY <1>1
  <2>2. i + 1 = j + 1
    BY <2>1 DEF IsInjective
  <2> QED
    BY <2>2, <1>1
<1>4. IsInjective(s) => Head(s) \notin ToSet(t)
  <2> SUFFICES ASSUME IsInjective(s), NEW i \in 1..(Len(s) - 1), t[i] = Head(s) PROVE FALSE
    BY <1>1 DEF ToSet
  <2>1. 1 \in DOMAIN s /\ i + 1 \in DOMAIN s /\ s[i + 1] = s[1]
    BY <1>1
  <2>2. i + 1 = 1
    BY <2>1 DEF IsInjective
  <2> QED
    BY <2>2
<1> QED
  BY <1>1, <1>2, <1>3, <1>4 DEF t

-----------------------------------------------------------------------------
(* Processes, and what becomes of the buffers.                             *)

LEMMA Parties ==
    /\ Processes = Clients \cup Servers /\ Clients \cap Servers = {}
    /\ Nobody \notin Processes
    /\ ServerAddress \notin Addresses /\ Nowhere \notin Addresses
    /\ Programs \subseteq {"udp", "c", "cxx", "py"} /\ Buffer \in Nat \ {0}
BY DatagramAssumption DEF Processes, Clients, Servers, Nobody

\* What a buffer holds are requests, or answers to them.
LEMMA InIsClients == ASSUME TypeOK PROVE \A p \in Processes : In(p) \subseteq Clients
BY ElementsOf DEF TypeOK, In

LEMMA Delivers ==
    ASSUME TypeOK, NEW p \in Processes, NEW c \in Clients, HasRoom(p),
           inbox' = [inbox EXCEPT ![p] = Append(@, c)]
    PROVE  /\ inbox' \in [Processes -> Seq(Clients)]
           /\ \A q \in Processes : Len(inbox'[q]) <= Buffer
           /\ \A q \in Processes : In(q)' = IF q = p THEN In(p) \cup {c} ELSE In(q)
           /\ \A q \in Processes :
                 IsInjective(inbox[q]) /\ (q = p => c \notin In(p)) => IsInjective(inbox'[q])
<1>1. inbox[p] \in Seq(Clients) /\ Len(inbox[p]) \in Nat /\ Len(inbox[p]) < Buffer /\ Buffer \in Nat
  BY Parties DEF TypeOK, HasRoom
<1>2. inbox'[p] = Append(inbox[p], c)
  BY DEF TypeOK
<1>3. \A q \in Processes : q # p => inbox'[q] = inbox[q]
  BY DEF TypeOK
<1>4. /\ inbox'[p] \in Seq(Clients) /\ Len(inbox'[p]) <= Buffer
      /\ ToSet(inbox'[p]) = ToSet(inbox[p]) \cup {c}
      /\ IsInjective(inbox[p]) /\ c \notin ToSet(inbox[p]) => IsInjective(inbox'[p])
  BY <1>1, <1>2, AppendAdds
<1> QED
  BY <1>3, <1>4 DEF TypeOK, In

LEMMA Takes ==
    ASSUME TypeOK, NEW p \in Processes, inbox[p] # << >>,
           inbox' = [inbox EXCEPT ![p] = Tail(@)]
    PROVE  /\ inbox' \in [Processes -> Seq(Clients)]
           /\ \A q \in Processes : Len(inbox'[q]) <= Buffer
           /\ Head(inbox[p]) \in Clients /\ Head(inbox[p]) \in In(p)
           /\ \A q \in Processes : q # p => In(q)' = In(q)
           /\ In(p) = In(p)' \cup {Head(inbox[p])}
           /\ \A q \in Processes : IsInjective(inbox[q]) => IsInjective(inbox'[q])
           /\ IsInjective(inbox[p]) => Head(inbox[p]) \notin In(p)'
<1>1. inbox[p] \in Seq(Clients) /\ Len(inbox[p]) \in Nat /\ Len(inbox[p]) <= Buffer /\ Buffer \in Nat
  BY Parties DEF TypeOK
<1>2. inbox'[p] = Tail(inbox[p])
  BY DEF TypeOK
<1>3. \A q \in Processes : q # p => inbox'[q] = inbox[q]
  BY DEF TypeOK
<1>4. /\ inbox'[p] \in Seq(Clients) /\ Len(inbox'[p]) <= Len(inbox[p])
      /\ Head(inbox[p]) \in Clients /\ Head(inbox[p]) \in ToSet(inbox[p])
      /\ ToSet(inbox[p]) = ToSet(inbox'[p]) \cup {Head(inbox[p])}
      /\ IsInjective(inbox[p]) =>
            IsInjective(inbox'[p]) /\ Head(inbox[p]) \notin ToSet(inbox'[p])
  BY <1>1, <1>2, TailLacks
<1>5. Len(inbox'[p]) <= Buffer
  BY <1>1, <1>4
<1> QED
  BY <1>3, <1>4, <1>5 DEF TypeOK, In

LEMMA Clears ==
    ASSUME TypeOK, NEW p \in Processes, inbox' = [inbox EXCEPT ![p] = << >>]
    PROVE  /\ inbox' \in [Processes -> Seq(Clients)]
           /\ \A q \in Processes : Len(inbox'[q]) <= Buffer
           /\ \A q \in Processes : In(q)' = IF q = p THEN {} ELSE In(q)
           /\ \A q \in Processes : IsInjective(inbox[q]) => IsInjective(inbox'[q])
<1>1. inbox'[p] \in Seq(Clients) /\ Len(inbox'[p]) = 0 /\ 0 <= Buffer
  BY Parties DEF TypeOK
<1>2. \A q \in Processes : q # p => inbox'[q] = inbox[q]
  BY DEF TypeOK
<1>3. ToSet(inbox'[p]) = {} /\ IsInjective(inbox'[p])
  BY <1>1, EmptyBuffer
<1>4. inbox'[p] \in Seq(Clients) /\ Len(inbox'[p]) <= Buffer
  BY <1>1
<1> QED
  BY <1>2, <1>3, <1>4 DEF TypeOK, In

LEMMA Keeps ==
    ASSUME TypeOK, UNCHANGED inbox
    PROVE  /\ inbox' \in [Processes -> Seq(Clients)]
           /\ \A q \in Processes : Len(inbox'[q]) <= Buffer
           /\ \A q \in Processes : In(q)' = In(q)
           /\ \A q \in Processes : IsInjective(inbox[q]) => IsInjective(inbox'[q])
BY DEF TypeOK, In

-----------------------------------------------------------------------------
(* The steps.                                                              *)

LEMMA InitInv == Init => DatagramInv
<1> SUFFICES ASSUME Init PROVE DatagramInv
  OBVIOUS
<1>1. \A p \in Processes : inbox[p] \in Seq(Clients) /\ Len(inbox[p]) = 0
  BY DEF Init
<1>2. \A p \in Processes : In(p) = {} /\ IsInjective(inbox[p])
  BY <1>1, EmptyBuffer DEF In
<1>3. TypeOK
  BY <1>1, Parties DEF Init, TypeOK
<1>4. AddressInv /\ HoldInv /\ OnePlace /\ MatchInv
  BY <1>2, Parties DEF Init, AddressInv, HoldInv, OnePlace, MatchInv, Alive
<1>5. SentInv
  BY <1>2, Parties DEF Init, SentInv, Somewhere
<1>6. AnswerIsMine /\ ServerFailsByKill /\ LostForReason /\ PathInv
  BY Parties DEF Init, AnswerIsMine, ServerFailsByKill, LostForReason, PathInv, Listening
<1> QED
  BY <1>3, <1>4, <1>5, <1>6 DEF DatagramInv

\* Nothing waits for a client that has not started, and it has sent nothing.
LEMMA NotStarted ==
    ASSUME DatagramInv, NEW c \in Clients, pc[c] = "start"
    PROVE  ~ Somewhere(c) /\ In(c) = {} /\ answer[c] = Nobody
<1> USE Parties DEF DatagramInv
<1>1. ~ Somewhere(c) /\ answer[c] = Nobody
  BY DEF SentInv
<1>2. ASSUME NEW x \in In(c) PROVE FALSE
  <2>1. x \in Clients
    BY InIsClients
  <2>2. address[x] = address[c]
    BY DEF MatchInv
  <2>3. address[x] = Nowhere
    BY <2>2 DEF AddressInv
  <2>4. Somewhere(x)
    BY DEF Somewhere
  <2> QED
    BY <2>1, <2>3, <2>4 DEF SentInv, AddressInv
<1> QED
  BY <1>1, <1>2

LEMMA BindClientKeeps ==
    ASSUME DatagramInv, NEW c \in Clients, BindClient(c)
    PROVE  DatagramInv'
<1> USE Parties DEF DatagramInv
<1>0. /\ pc[c] = "start" /\ pc' = [pc EXCEPT ![c] = "bound"]
      /\ UNCHANGED <<program, inbox, hold, answer, lost>>
  BY DEF BindClient, IsNext
<1>1. PICK a \in Addresses : /\ Free(a)
                             /\ address' = [address EXCEPT ![c] = a]
                             /\ owner' = [owner EXCEPT ![a] = c]
  BY DEF BindClient
<1>2. /\ \A q \in Processes : In(q)' = In(q)
      /\ \A x : Somewhere(x)' <=> Somewhere(x)
  BY <1>0, Keeps DEF Somewhere
<1>3. TypeOK'
  BY <1>0, <1>1 DEF TypeOK
<1>4. AddressInv'
  BY <1>0, <1>1 DEF AddressInv, TypeOK, Free, Alive, Gone
<1>5. OnePlace' /\ HoldInv'
  BY <1>0, <1>2 DEF OnePlace, HoldInv, TypeOK
<1>6. SentInv'
  BY <1>0, <1>2 DEF SentInv, TypeOK
<1>7. ~ Somewhere(c) /\ In(c) = {} /\ answer[c] = Nobody
  BY <1>0, NotStarted
<1>8. MatchInv'
  BY <1>0, <1>1, <1>2, <1>7, InIsClients DEF MatchInv, Somewhere, TypeOK
<1>9. AnswerIsMine'
  <2> SUFFICES ASSUME NEW e \in Clients, answer[e] \notin {e, Nobody}
               PROVE  \E d \in Clients : pc'[d] = "killed" /\ address'[d] = address'[e]
    BY <1>0 DEF AnswerIsMine
  <2>1. PICK d \in Clients : pc[d] = "killed" /\ address[d] = address[e]
    BY DEF AnswerIsMine
  <2>2. d # c /\ e # c
    BY <2>1, <1>0, <1>7
  <2> QED
    BY <2>1, <2>2, <1>0, <1>1 DEF TypeOK
<1>10. ServerFailsByKill' /\ LostForReason'
  BY <1>0 DEF ServerFailsByKill, LostForReason, TypeOK, Udp
<1>11. PathInv'
  BY <1>0, <1>1 DEF PathInv, TypeOK
<1> QED
  BY <1>3, <1>4, <1>5, <1>6, <1>8, <1>9, <1>10, <1>11

\* A datagram sent to the servers' address reaches a server.
LEMMA ReachedServer ==
    ASSUME DatagramInv, Reached(ServerAddress) # Nobody
    PROVE  Reached(ServerAddress) \in Servers
BY DEF DatagramInv, PathInv, Reached

\* A request or an answer that is nowhere else gets into a buffer.
LEMMA EntersBuffer ==
    ASSUME DatagramInv, NEW p \in Processes, NEW c \in Clients, HasRoom(p),
           inbox' = [inbox EXCEPT ![p] = Append(@, c)],
           \A q \in Processes : c \notin In(q), c \notin lost,
           \A d \in Clients : answer[d] # c
    PROVE  /\ inbox' \in [Processes -> Seq(Clients)]
           /\ \A q \in Processes : Len(inbox'[q]) <= Buffer
           /\ \A q \in Processes : In(q)' = IF q = p THEN In(p) \cup {c} ELSE In(q)
           /\ \A q \in Processes : IsInjective(inbox'[q]) /\ In(q)' \cap lost = {}
           /\ \A q, r \in Processes : q # r => In(q)' \cap In(r)' = {}
           /\ \A d \in Clients, q \in Processes : answer[d] \notin In(q)'
<1> USE Parties DEF DatagramInv
<1>1. /\ inbox' \in [Processes -> Seq(Clients)]
      /\ \A q \in Processes : Len(inbox'[q]) <= Buffer
      /\ \A q \in Processes : In(q)' = IF q = p THEN In(p) \cup {c} ELSE In(q)
      /\ \A q \in Processes :
            IsInjective(inbox[q]) /\ (q = p => c \notin In(p)) => IsInjective(inbox'[q])
  BY Delivers
<1>2. \A q \in Processes : IsInjective(inbox'[q])
  BY <1>1 DEF OnePlace
<1>3. \A q, r \in Processes : q # r => In(q)' \cap In(r)' = {}
  BY <1>1 DEF OnePlace
<1>4. \A q \in Processes : In(q)' \cap lost = {}
  BY <1>1 DEF OnePlace
<1>5. \A d \in Clients, q \in Processes : answer[d] \notin In(q)'
  BY <1>1 DEF OnePlace
<1> QED
  BY <1>1, <1>2, <1>3, <1>4, <1>5

\* A client's request gets into a server's buffer.
LEMMA Posts ==
    ASSUME DatagramInv, NEW c \in Clients, NEW s \in Servers, HasRoom(s), ~ Somewhere(c),
           inbox' = [inbox EXCEPT ![s] = Append(@, c)], UNCHANGED <<hold, answer, lost>>
    PROVE  /\ inbox' \in [Processes -> Seq(Clients)]
           /\ \A q \in Processes : Len(inbox'[q]) <= Buffer
           /\ \A d \in Clients : In(d)' = In(d)
           /\ \A x : Somewhere(x)' <=> Somewhere(x) \/ x = c
           /\ OnePlace'
<1> USE Parties DEF DatagramInv
<1>1. /\ \A q \in Processes : c \notin In(q)
      /\ \A t \in Servers : c \notin hold[t]
      /\ c \notin lost /\ \A d \in Clients : answer[d] # c
  BY DEF Somewhere
<1>2. /\ inbox' \in [Processes -> Seq(Clients)]
      /\ \A q \in Processes : Len(inbox'[q]) <= Buffer
      /\ \A q \in Processes : In(q)' = IF q = s THEN In(s) \cup {c} ELSE In(q)
      /\ \A q \in Processes : IsInjective(inbox'[q]) /\ In(q)' \cap lost = {}
      /\ \A q, r \in Processes : q # r => In(q)' \cap In(r)' = {}
      /\ \A d \in Clients, q \in Processes : answer[d] \notin In(q)'
  BY <1>1, EntersBuffer
<1>3. \A t \in Servers, q \in Processes : In(q)' \cap hold[t] = {}
  BY <1>1, <1>2 DEF OnePlace
<1>4. OnePlace'
  BY <1>2, <1>3 DEF OnePlace
<1>5. \A x : (\E q \in Processes : x \in In(q)') <=> (\E q \in Processes : x \in In(q)) \/ x = c
  BY <1>2
<1>6. \A x : Somewhere(x)' <=> Somewhere(x) \/ x = c
  BY <1>5 DEF Somewhere
<1> QED
  BY <1>2, <1>4, <1>6

LEMMA SendUdpKeeps ==
    ASSUME DatagramInv, NEW c \in Clients, SendUdp(c)
    PROVE  DatagramInv'
<1> USE Parties DEF DatagramInv
<1>0. /\ pc[c] = "start" /\ pc' = [pc EXCEPT ![c] = "waiting"] /\ Udp
      /\ UNCHANGED <<program, hold, answer>>
  BY DEF SendUdp, IsNext
<1>1. PICK a \in Addresses : /\ Free(a)
                             /\ address' = [address EXCEPT ![c] = a]
                             /\ owner' = [owner EXCEPT ![a] = c]
  BY DEF SendUdp
<1>2. ~ Somewhere(c) /\ In(c) = {} /\ answer[c] = Nobody
  BY <1>0, NotStarted
<1>3. /\ inbox' \in [Processes -> Seq(Clients)] /\ lost' \subseteq Clients
      /\ \A q \in Processes : Len(inbox'[q]) <= Buffer
      /\ \A d \in Clients : In(d)' = In(d)
      /\ \A x : Somewhere(x)' <=> Somewhere(x) \/ x = c
      /\ OnePlace'
  <2> DEFINE s == Reached(ServerAddress)
  <2>1. CASE s # Nobody /\ HasRoom(s)
    <3>1. s \in Servers
      BY <2>1, ReachedServer
    <3>2. inbox' = [inbox EXCEPT ![s] = Append(@, c)] /\ lost' = lost
      BY <2>1 DEF SendUdp
    <3> HIDE DEF s
    <3> QED
      BY <1>0, <1>2, <2>1, <3>1, <3>2, Posts DEF TypeOK
  <2>2. CASE ~ (s # Nobody /\ HasRoom(s))
    <3>1. inbox' = inbox /\ lost' = lost \cup {c}
      BY <2>2 DEF SendUdp
    <3>2. \A q \in Processes : In(q)' = In(q)
      BY <3>1, Keeps
    <3>3. OnePlace'
      BY <1>0, <1>2, <3>1, <3>2 DEF OnePlace, Somewhere
    <3>4. \A x : Somewhere(x)' <=> Somewhere(x) \/ x = c
      BY <1>0, <3>1, <3>2 DEF Somewhere
    <3> QED
      BY <3>1, <3>2, <3>3, <3>4 DEF TypeOK
  <2> QED
    BY <2>1, <2>2
<1>4. TypeOK'
  BY <1>0, <1>1, <1>3 DEF TypeOK
<1>5. AddressInv'
  BY <1>0, <1>1 DEF AddressInv, TypeOK, Free, Alive, Gone
<1>6. HoldInv' /\ SentInv'
  BY <1>0, <1>2, <1>3 DEF HoldInv, SentInv, TypeOK
<1>7. MatchInv'
  BY <1>0, <1>1, <1>2, <1>3, InIsClients DEF MatchInv, Somewhere, TypeOK
<1>8. AnswerIsMine'
  <2> SUFFICES ASSUME NEW e \in Clients, answer[e] \notin {e, Nobody}
               PROVE  \E d \in Clients : pc'[d] = "killed" /\ address'[d] = address'[e]
    BY <1>0 DEF AnswerIsMine
  <2>1. PICK d \in Clients : pc[d] = "killed" /\ address[d] = address[e]
    BY DEF AnswerIsMine
  <2>2. d # c /\ e # c
    BY <2>1, <1>0, <1>2
  <2> QED
    BY <2>1, <2>2, <1>0, <1>1 DEF TypeOK
<1>9. ServerFailsByKill' /\ LostForReason'
  BY <1>0 DEF ServerFailsByKill, LostForReason, TypeOK, Udp
<1>10. PathInv'
  BY <1>0, <1>1 DEF PathInv, TypeOK
<1> QED
  BY <1>3, <1>4, <1>5, <1>6, <1>7, <1>8, <1>9, <1>10

\* The steps of servers before they serve: only the servers' address changes.
LEMMA BindingKeeps ==
    ASSUME DatagramInv, NEW s \in Servers, NEW place, NEW named,
           pc[s] \notin {"serving", "answering", "done", "failed", "killed"},
           place \in {"found", "unlinked", "refused", "serving"},
           named \in {owner[ServerAddress], s, Nobody},
           pc' = [pc EXCEPT ![s] = place], owner' = [owner EXCEPT ![ServerAddress] = named],
           UNCHANGED <<program, address, inbox, hold, answer, lost>>,
           PathInv'
    PROVE  DatagramInv'
<1> USE Parties DEF DatagramInv
<1>1. /\ \A q \in Processes : In(q)' = In(q)
      /\ \A x : Somewhere(x)' <=> Somewhere(x)
  BY Keeps DEF Somewhere
<1>2. TypeOK'
  BY DEF TypeOK, Gone
<1>3. AddressInv'
  BY DEF AddressInv, TypeOK, Alive
<1>4. OnePlace' /\ HoldInv'
  BY <1>1 DEF OnePlace, HoldInv, TypeOK
<1>5. SentInv' /\ MatchInv'
  BY <1>1 DEF SentInv, MatchInv, TypeOK
<1>6. AnswerIsMine' /\ ServerFailsByKill' /\ LostForReason'
  BY DEF AnswerIsMine, ServerFailsByKill, LostForReason, TypeOK, Udp
<1> QED
  BY <1>2, <1>3, <1>4, <1>5, <1>6

LEMMA LookOrUnlinkKeeps ==
    ASSUME DatagramInv, NEW s \in Servers, LookOrUnlink(s)
    PROVE  DatagramInv'
<1> USE Parties DEF DatagramInv, LookOrUnlink, IsNext
<1>1. PICK place \in {"found", "unlinked"}, named \in {owner[ServerAddress], Nobody} :
         /\ pc' = [pc EXCEPT ![s] = place]
         /\ owner' = [owner EXCEPT ![ServerAddress] = named]
         /\ named # owner[ServerAddress] => place = "unlinked"
  BY DEF TypeOK
<1>2. PathInv'
  BY <1>1 DEF PathInv, TypeOK, Listening
<1> QED
  BY <1>1, <1>2, BindingKeeps

LEMMA UnlinkFoundKeeps ==
    ASSUME DatagramInv, NEW s \in Servers, UnlinkFound(s)
    PROVE  DatagramInv'
<1> USE Parties DEF DatagramInv, UnlinkFound
<1>1. PICK place \in {"refused", "unlinked"} :
         /\ pc' = [pc EXCEPT ![s] = place]
         /\ owner' = [owner EXCEPT ![ServerAddress] = Nobody]
         /\ owner[ServerAddress] # Nobody => place = "unlinked"
  OBVIOUS
<1>2. PathInv'
  BY <1>1 DEF PathInv, TypeOK, Listening
<1> QED
  BY <1>1, <1>2, BindingKeeps

LEMMA BindServerKeeps ==
    ASSUME DatagramInv, NEW s \in Servers, BindServer(s)
    PROVE  DatagramInv'
<1> USE Parties DEF DatagramInv, BindServer, IsNext
<1>1. PICK place \in {"refused", "serving"}, named \in {owner[ServerAddress], s} :
         /\ pc' = [pc EXCEPT ![s] = place]
         /\ owner' = [owner EXCEPT ![ServerAddress] = named]
         /\ IF owner[ServerAddress] = Nobody
            THEN named = s /\ place = "serving"
            ELSE named = owner[ServerAddress] /\ place = "refused"
  BY DEF TypeOK
<1>2. pc[s] \in {"start", "unlinked"}
  OBVIOUS
<1>3. PathInv'
  BY <1>1, <1>2 DEF PathInv, TypeOK, Listening
<1> QED
  BY <1>1, <1>2, <1>3, BindingKeeps

\* A client whose request or answer is under way waits for it, or it was killed,
\* or it has printed an answer that a killed one was to get.
LEMMA UnderWay ==
    ASSUME DatagramInv, NEW x \in Clients,
           (\E p \in Processes : x \in In(p)) \/ (\E s \in Servers : x \in hold[s])
    PROVE  pc[x] = "waiting" \/ \E d \in Clients : pc[d] = "killed" /\ address[d] = address[x]
<1> USE Parties DEF DatagramInv
<1>1. pc[x] \in {"waiting", "answered", "done", "killed"}
  BY DEF SentInv, Somewhere
<1>2. answer[x] # x
  BY DEF OnePlace
<1>3. CASE pc[x] \in {"answered", "done"}
  <2>1. answer[x] \notin {x, Nobody}
    BY <1>2, <1>3 DEF SentInv
  <2> QED
    BY <2>1 DEF AnswerIsMine
<1> QED
  BY <1>1, <1>3

\* What a running client finds in its buffer is the answer to its own request, or
\* one that a killed client was to get.
LEMMA InBuffer ==
    ASSUME DatagramInv, NEW d \in Clients, Alive(d), NEW x \in In(d),
           x # d \/ pc[d] # "waiting"
    PROVE  \E e \in Clients : pc[e] = "killed" /\ address[e] = address[d]
<1> USE Parties DEF DatagramInv
<1>1. x \in Clients
  BY InIsClients
<1>2. address[x] = address[d]
  BY DEF MatchInv
<1>3. pc[x] = "waiting" \/ \E e \in Clients : pc[e] = "killed" /\ address[e] = address[x]
  BY <1>1, UnderWay
<1>4. ASSUME pc[x] = "waiting" PROVE FALSE
  <2>1. Alive(x)
    BY <1>4 DEF Alive, Gone
  <2>2. x = d
    BY <1>1, <1>2, <2>1 DEF AddressInv
  <2> QED
    BY <1>4, <2>2
<1> QED
  BY <1>2, <1>3, <1>4

\* A process ends: the requests and answers it has are lost, none is doubled.
LEMMA EndsLoses ==
    ASSUME DatagramInv, NEW p \in Processes, NEW how, NEW left \in SUBSET Clients,
           how \in {"done", "failed", "killed"}, Ends(p, how, left),
           UNCHANGED answer, hold' \in [Servers -> SUBSET Clients],
           \A t \in Servers : hold'[t] = IF t = p THEN {} ELSE hold[t],
           left = IF p \in Servers THEN hold[p] ELSE {}
    PROVE  /\ inbox' \in [Processes -> Seq(Clients)] /\ lost' \subseteq Clients
           /\ \A q \in Processes : Len(inbox'[q]) <= Buffer
           /\ \A q \in Processes : In(q)' = IF q = p THEN {} ELSE In(q)
           /\ \A x : Somewhere(x)' <=> Somewhere(x)
           /\ OnePlace' /\ HoldInv'
<1> USE Parties DEF DatagramInv
<1>1. /\ inbox' = [inbox EXCEPT ![p] = << >>] /\ pc' = [pc EXCEPT ![p] = how]
      /\ lost' = lost \cup In(p) \cup left
  BY DEF Ends
<1>2. /\ inbox' \in [Processes -> Seq(Clients)]
      /\ \A q \in Processes : Len(inbox'[q]) <= Buffer
      /\ \A q \in Processes : In(q)' = IF q = p THEN {} ELSE In(q)
      /\ \A q \in Processes : IsInjective(inbox[q]) => IsInjective(inbox'[q])
  BY <1>1, Clears
<1>3. lost' \subseteq Clients
  BY <1>1, InIsClients DEF TypeOK
<1>4. \A x : Somewhere(x)' <=> Somewhere(x)
  <2>1. ASSUME NEW x, Somewhere(x) PROVE Somewhere(x)'
    BY <1>1, <1>2, <2>1 DEF Somewhere
  <2>2. ASSUME NEW x, Somewhere(x)' PROVE Somewhere(x)
    BY <1>1, <1>2, <2>2 DEF Somewhere
  <2> QED
    BY <2>1, <2>2
<1>5. HoldInv'
  BY <1>1 DEF HoldInv, TypeOK
<1>6. \A q \in Processes : IsInjective(inbox'[q]) /\ In(q)' \cap lost' = {}
  BY <1>1, <1>2 DEF OnePlace
<1>7. \A q, r \in Processes : q # r => In(q)' \cap In(r)' = {}
  BY <1>2 DEF OnePlace
<1>8. /\ \A s, t \in Servers : s # t => hold'[s] \cap hold'[t] = {}
      /\ \A s \in Servers, q \in Processes : In(q)' \cap hold'[s] = {}
  BY <1>2 DEF OnePlace
<1>9. \A s \in Servers : hold'[s] \cap lost' = {}
  BY <1>1 DEF OnePlace
<1>10. \A c \in Clients : /\ answer[c] \notin lost'
                          /\ \A q \in Processes : answer[c] \notin In(q)'
                          /\ \A s \in Servers : answer[c] \notin hold'[s]
  <2> TAKE c \in Clients
  <2>1. /\ answer[c] \notin lost
        /\ \A q \in Processes : answer[c] \notin In(q)
        /\ \A s \in Servers : answer[c] \notin hold[s]
    BY DEF OnePlace
  <2>2. answer[c] \notin left
    BY <2>1
  <2> QED
    BY <1>1, <1>2, <2>1, <2>2
<1>11. OnePlace'
  BY <1>6, <1>7, <1>8, <1>9, <1>10 DEF OnePlace
<1> QED
  BY <1>2, <1>3, <1>4, <1>5, <1>11

LEMMA SendUnixKeeps ==
    ASSUME DatagramInv, NEW c \in Clients, SendUnix(c)
    PROVE  DatagramInv'
<1> USE Parties DEF DatagramInv
<1> DEFINE s == Reached(ServerAddress)
<1>0. pc[c] = "bound" /\ UNCHANGED <<program, address, owner, hold, answer>>
  BY DEF SendUnix
<1>1. ~ Somewhere(c)
  BY <1>0 DEF SentInv
<1>2. CASE s = Nobody /\ Ends(c, "failed", {})
  <2>0. /\ pc' = [pc EXCEPT ![c] = "failed"]
        /\ hold' \in [Servers -> SUBSET Clients]
        /\ \A t \in Servers : hold'[t] = IF t = c THEN {} ELSE hold[t]
    BY <1>0, <1>2 DEF Ends, TypeOK
  <2>1. /\ inbox' \in [Processes -> Seq(Clients)] /\ lost' \subseteq Clients
        /\ \A q \in Processes : Len(inbox'[q]) <= Buffer
        /\ \A q \in Processes : In(q)' = IF q = c THEN {} ELSE In(q)
        /\ \A x : Somewhere(x)' <=> Somewhere(x)
        /\ OnePlace' /\ HoldInv'
    BY <1>0, <1>2, <2>0, EndsLoses
  <2>2. TypeOK'
    BY <1>0, <2>0, <2>1 DEF TypeOK, Gone
  <2>3. AddressInv'
    BY <1>0, <2>0 DEF AddressInv, Alive, Gone, TypeOK
  <2>4. SentInv'
    BY <1>0, <1>1, <2>0, <2>1 DEF SentInv, TypeOK
  <2>5. MatchInv' /\ AnswerIsMine'
    BY <1>0, <2>0, <2>1 DEF MatchInv, AnswerIsMine, TypeOK
  <2>6. ServerFailsByKill' /\ PathInv'
    BY <1>0, <2>0 DEF ServerFailsByKill, PathInv, TypeOK, Udp
  <2>7. LostForReason'
    BY <1>0, <2>0 DEF LostForReason, TypeOK, Udp
  <2> QED
    BY <2>1, <2>2, <2>3, <2>4, <2>5, <2>6, <2>7
<1>3. CASE /\ s # Nobody /\ HasRoom(s)
           /\ inbox' = [inbox EXCEPT ![s] = Append(@, c)]
           /\ pc' = [pc EXCEPT ![c] = "waiting"] /\ UNCHANGED lost
  <2>1. s \in Servers
    BY <1>3, ReachedServer
  <2> HIDE DEF s
  <2>2. /\ inbox' \in [Processes -> Seq(Clients)]
        /\ \A q \in Processes : Len(inbox'[q]) <= Buffer
        /\ \A d \in Clients : In(d)' = In(d)
        /\ \A x : Somewhere(x)' <=> Somewhere(x) \/ x = c
        /\ OnePlace'
    BY <1>0, <1>1, <1>3, <2>1, Posts
  <2>3. TypeOK'
    BY <1>0, <1>3, <2>2 DEF TypeOK, Gone
  <2>4. AddressInv' /\ HoldInv'
    BY <1>0, <1>3 DEF AddressInv, HoldInv, Alive, Gone, TypeOK
  <2>5. SentInv'
    BY <1>0, <1>3, <2>2 DEF SentInv, TypeOK
  <2>6. MatchInv' /\ AnswerIsMine'
    BY <1>0, <1>3, <2>2 DEF MatchInv, AnswerIsMine, TypeOK
  <2>7. ServerFailsByKill' /\ PathInv' /\ LostForReason'
    BY <1>0, <1>3 DEF ServerFailsByKill, PathInv, LostForReason, TypeOK, Udp
  <2> QED
    BY <2>2, <2>3, <2>4, <2>5, <2>6, <2>7
<1> QED
  BY <1>2, <1>3 DEF SendUnix

LEMMA ReceiveAnswerKeeps ==
    ASSUME DatagramInv, NEW c \in Clients, ReceiveAnswer(c)
    PROVE  DatagramInv'
<1> USE Parties DEF DatagramInv
<1> DEFINE x == Head(inbox[c])
<1>0. /\ pc[c] = "waiting" /\ pc' = [pc EXCEPT ![c] = "answered"]
      /\ inbox[c] # << >> /\ inbox' = [inbox EXCEPT ![c] = Tail(@)]
      /\ answer' = [answer EXCEPT ![c] = x]
      /\ UNCHANGED <<program, address, owner, hold, lost>>
  BY DEF ReceiveAnswer
<1>1. /\ inbox' \in [Processes -> Seq(Clients)]
      /\ \A q \in Processes : Len(inbox'[q]) <= Buffer
      /\ x \in Clients /\ x \in In(c)
      /\ \A q \in Processes : q # c => In(q)' = In(q)
      /\ In(c) = In(c)' \cup {x}
      /\ \A q \in Processes : IsInjective(inbox[q]) => IsInjective(inbox'[q])
      /\ IsInjective(inbox[c]) => x \notin In(c)'
  BY <1>0, Takes
<1> HIDE DEF x
<1>2. answer[c] = Nobody /\ Alive(c)
  BY <1>0 DEF SentInv, Alive, Gone
<1>3. TypeOK'
  BY <1>0, <1>1 DEF TypeOK, Gone
<1>4. AddressInv' /\ HoldInv'
  BY <1>0 DEF AddressInv, HoldInv, Alive, Gone, TypeOK
<1>5. OnePlace'
  <2>1. x \notin In(c)' /\ \A q \in Processes : In(q)' \subseteq In(q) /\ x \notin In(q)'
    BY <1>1 DEF OnePlace
  <2>2. \A s \in Servers : x \notin hold[s]
    BY <1>1 DEF OnePlace
  <2>3. x \notin lost /\ \A d \in Clients : answer[d] # x
    BY <1>1 DEF OnePlace
  <2>4. \A d \in Clients : answer'[d] = IF d = c THEN x ELSE answer[d]
    BY <1>0 DEF TypeOK
  <2>5. \A q \in Processes : IsInjective(inbox'[q]) /\ In(q)' \cap lost' = {}
    BY <1>0, <1>1, <2>1 DEF OnePlace
  <2>6. \A q, r \in Processes : q # r => In(q)' \cap In(r)' = {}
    BY <2>1 DEF OnePlace
  <2>7. /\ \A s, t \in Servers : s # t => hold'[s] \cap hold'[t] = {}
        /\ \A s \in Servers : hold'[s] \cap lost' = {}
        /\ \A s \in Servers, q \in Processes : In(q)' \cap hold'[s] = {}
    BY <1>0, <2>1 DEF OnePlace
  <2>8. \A d, e \in Clients : answer'[d] = answer'[e] /\ answer'[d] # Nobody => d = e
    BY <2>3, <2>4 DEF OnePlace
  <2>9. \A d \in Clients : /\ answer'[d] \notin lost'
                           /\ \A q \in Processes : answer'[d] \notin In(q)'
                           /\ \A s \in Servers : answer'[d] \notin hold'[s]
    BY <1>0, <2>1, <2>2, <2>3, <2>4 DEF OnePlace
  <2> QED
    BY <2>5, <2>6, <2>7, <2>8, <2>9 DEF OnePlace
<1>6. \A y \in Clients : Somewhere(y)' <=> Somewhere(y)
  <2>1. \A d \in Clients : answer'[d] = IF d = c THEN x ELSE answer[d]
    BY <1>0 DEF TypeOK
  <2> TAKE y \in Clients
  <2>2. (\E q \in Processes : y \in In(q)) <=> (\E q \in Processes : y \in In(q)') \/ y = x
    BY <1>1
  <2>3. (\E d \in Clients : answer'[d] = y) <=> (\E d \in Clients : answer[d] = y) \/ y = x
    BY <1>2, <2>1
  <2> QED
    BY <1>0, <2>2, <2>3 DEF Somewhere
<1>7. SentInv'
  BY <1>0, <1>1, <1>6 DEF SentInv, TypeOK
<1>8. MatchInv'
  <2>1. address[x] = address[c]
    BY <1>1 DEF MatchInv
  <2>2. \A q \in Processes : In(q)' \subseteq In(q)
    BY <1>1
  <2> QED
    BY <1>0, <2>1, <2>2 DEF MatchInv, TypeOK
<1>9. AnswerIsMine'
  <2>1. x # c => \E e \in Clients : pc[e] = "killed" /\ address[e] = address[c]
    BY <1>1, <1>2, InBuffer
  <2>2. \A e \in Clients : pc[e] = "killed" => pc'[e] = "killed"
    BY <1>0 DEF TypeOK
  <2>3. \A d \in Clients : answer'[d] = IF d = c THEN x ELSE answer[d]
    BY <1>0 DEF TypeOK
  <2> QED
    BY <1>0, <2>1, <2>2, <2>3 DEF AnswerIsMine
<1>10. ServerFailsByKill' /\ PathInv' /\ LostForReason'
  BY <1>0 DEF ServerFailsByKill, PathInv, LostForReason, TypeOK, Udp
<1> QED
  BY <1>3, <1>4, <1>5, <1>7, <1>8, <1>9, <1>10

\* What stays as it is when an address is given up.
LEMMA ReleaseIs ==
    ASSUME TypeOK, NEW p \in Processes, Release(p) \/ UNCHANGED owner
    PROVE  /\ owner' \in [Addresses \cup {ServerAddress} -> Processes \cup {Nobody}]
           /\ \A a \in Addresses \cup {ServerAddress} :
                 owner'[a] = owner[a] \/ (owner[a] = p /\ owner'[a] = Nobody)
BY Parties DEF Release, TypeOK

LEMMA CloseClientKeeps ==
    ASSUME DatagramInv, NEW c \in Clients, CloseClient(c)
    PROVE  DatagramInv'
<1> USE Parties DEF DatagramInv
<1>0. /\ pc[c] = "answered" /\ Ends(c, "done", {}) /\ pc' = [pc EXCEPT ![c] = "done"]
      /\ lost' = lost \cup In(c)
      /\ UNCHANGED <<program, address, hold, answer>>
      /\ hold' \in [Servers -> SUBSET Clients]
      /\ \A t \in Servers : hold'[t] = IF t = c THEN {} ELSE hold[t]
  BY DEF CloseClient, Ends, TypeOK
<1>1. /\ inbox' \in [Processes -> Seq(Clients)] /\ lost' \subseteq Clients
      /\ \A q \in Processes : Len(inbox'[q]) <= Buffer
      /\ \A q \in Processes : In(q)' = IF q = c THEN {} ELSE In(q)
      /\ \A x : Somewhere(x)' <=> Somewhere(x)
      /\ OnePlace' /\ HoldInv'
  BY <1>0, EndsLoses
<1>2. /\ owner' \in [Addresses \cup {ServerAddress} -> Processes \cup {Nobody}]
      /\ \A a \in Addresses \cup {ServerAddress} :
            owner'[a] = owner[a] \/ (owner[a] = c /\ owner'[a] = Nobody)
  BY ReleaseIs DEF CloseClient
<1>3. TypeOK'
  BY <1>0, <1>1, <1>2 DEF TypeOK, Gone
<1>4. AddressInv'
  BY <1>0, <1>2 DEF AddressInv, Alive, Gone, TypeOK
<1>5. SentInv'
  BY <1>0, <1>1 DEF SentInv, TypeOK
<1>6. MatchInv' /\ AnswerIsMine'
  <2>1. \A d \in Clients : In(d)' \subseteq In(d)
    BY <1>1
  <2>2. MatchInv'
    BY <1>0, <2>1 DEF MatchInv
  <2>3. AnswerIsMine'
    BY <1>0 DEF AnswerIsMine, TypeOK
  <2> QED
    BY <2>2, <2>3
<1>7. ServerFailsByKill' /\ PathInv'
  BY <1>0, <1>2 DEF ServerFailsByKill, PathInv, Listening, TypeOK, Udp
<1>8. LostForReason'
  <2>1. CASE In(c) = {}
    BY <1>0, <2>1 DEF LostForReason, TypeOK, Udp
  <2>2. CASE In(c) # {}
    <3>1. Alive(c)
      BY <1>0 DEF Alive, Gone
    <3>2. PICK e \in Clients : pc[e] = "killed"
      BY <1>0, <2>2, <3>1, InBuffer
    <3>3. pc'[e] = "killed"
      BY <1>0, <3>2 DEF TypeOK
    <3> QED
      BY <3>3 DEF LostForReason
  <2> QED
    BY <2>1, <2>2
<1> QED
  BY <1>1, <1>3, <1>4, <1>5, <1>6, <1>7, <1>8

LEMMA ReceiveRequestKeeps ==
    ASSUME DatagramInv, NEW s \in Servers, ReceiveRequest(s)
    PROVE  DatagramInv'
<1> USE Parties DEF DatagramInv
<1> DEFINE x == Head(inbox[s])
<1>0. /\ pc[s] = "serving" /\ pc' = [pc EXCEPT ![s] = "answering"]
      /\ inbox[s] # << >> /\ inbox' = [inbox EXCEPT ![s] = Tail(@)]
      /\ hold' = [hold EXCEPT ![s] = {x}]
      /\ UNCHANGED <<program, address, owner, answer, lost>>
  BY DEF ReceiveRequest
<1>1. /\ inbox' \in [Processes -> Seq(Clients)]
      /\ \A q \in Processes : Len(inbox'[q]) <= Buffer
      /\ x \in Clients /\ x \in In(s)
      /\ \A q \in Processes : q # s => In(q)' = In(q)
      /\ In(s) = In(s)' \cup {x}
      /\ \A q \in Processes : IsInjective(inbox[q]) => IsInjective(inbox'[q])
      /\ IsInjective(inbox[s]) => x \notin In(s)'
  BY <1>0, Takes
<1> HIDE DEF x
<1>2. hold[s] = {} /\ \A t \in Servers : hold'[t] = IF t = s THEN {x} ELSE hold[t]
  BY <1>0 DEF HoldInv, TypeOK
<1>3. TypeOK'
  BY <1>0, <1>1 DEF TypeOK, Gone
<1>4. AddressInv' /\ HoldInv'
  BY <1>0, <1>2 DEF AddressInv, HoldInv, Alive, Gone, TypeOK
<1>5. OnePlace'
  <2>1. \A q \in Processes : In(q)' \subseteq In(q) /\ x \notin In(q)'
    BY <1>1 DEF OnePlace
  <2>2. \A t \in Servers : x \notin hold[t]
    BY <1>1 DEF OnePlace
  <2>3. x \notin lost /\ \A d \in Clients : answer[d] # x
    BY <1>1 DEF OnePlace
  <2>4. \A q \in Processes : IsInjective(inbox'[q]) /\ In(q)' \cap lost' = {}
    BY <1>0, <1>1, <2>1 DEF OnePlace
  <2>5. \A q, r \in Processes : q # r => In(q)' \cap In(r)' = {}
    BY <2>1 DEF OnePlace
  <2>6. \A r, t \in Servers : r # t => hold'[r] \cap hold'[t] = {}
    BY <1>2, <2>2 DEF OnePlace
  <2>7. \A t \in Servers : hold'[t] \cap lost' = {}
    BY <1>0, <1>2, <2>3 DEF OnePlace
  <2>8. \A t \in Servers, q \in Processes : In(q)' \cap hold'[t] = {}
    BY <1>2, <2>1 DEF OnePlace
  <2>9. \A d \in Clients : /\ answer'[d] \notin lost'
                           /\ \A q \in Processes : answer'[d] \notin In(q)'
                           /\ \A t \in Servers : answer'[d] \notin hold'[t]
    BY <1>0, <1>2, <2>1, <2>3 DEF OnePlace
  <2>10. \A d, e \in Clients : answer'[d] = answer'[e] /\ answer'[d] # Nobody => d = e
    BY <1>0 DEF OnePlace
  <2> QED
    BY <2>4, <2>5, <2>6, <2>7, <2>8, <2>9, <2>10 DEF OnePlace
<1>6. \A y \in Clients : Somewhere(y)' <=> Somewhere(y)
  <2> TAKE y \in Clients
  <2>1. (\E q \in Processes : y \in In(q)) <=> (\E q \in Processes : y \in In(q)') \/ y = x
    BY <1>1
  <2>2. (\E t \in Servers : y \in hold'[t]) <=> (\E t \in Servers : y \in hold[t]) \/ y = x
    BY <1>2
  <2> QED
    BY <1>0, <2>1, <2>2 DEF Somewhere
<1>7. SentInv'
  BY <1>0, <1>6 DEF SentInv, TypeOK
<1>8. MatchInv' /\ AnswerIsMine'
  <2>1. \A d \in Clients : In(d)' \subseteq In(d)
    BY <1>1
  <2>2. MatchInv'
    BY <1>0, <2>1 DEF MatchInv
  <2>3. AnswerIsMine'
    BY <1>0 DEF AnswerIsMine, TypeOK
  <2> QED
    BY <2>2, <2>3
<1>9. ServerFailsByKill' /\ PathInv' /\ LostForReason'
  BY <1>0 DEF ServerFailsByKill, PathInv, Listening, LostForReason, TypeOK, Udp
<1> QED
  BY <1>3, <1>4, <1>5, <1>7, <1>8, <1>9

\* The answer to c goes to a client that has c's address.
LEMMA ReachedClient ==
    ASSUME DatagramInv, NEW s \in Servers, NEW c \in hold[s]
    PROVE  /\ c \in Clients /\ hold[s] = {c}
           /\ Reached(address[c]) # Nobody =>
                 /\ Reached(address[c]) \in Clients
                 /\ address[Reached(address[c])] = address[c]
           /\ Reached(address[c]) = Nobody => \E d \in Clients : pc[d] = "killed"
<1> USE Parties DEF DatagramInv
<1>1. c \in Clients
  BY DEF TypeOK
<1>2. hold[s] = {c}
  BY DEF HoldInv
<1>3. pc[c] # "start"
  BY <1>1 DEF SentInv, Somewhere
<1>4. address[c] \in Addresses
  BY <1>1, <1>3 DEF AddressInv, TypeOK
<1>5. Reached(address[c]) # Nobody => Reached(address[c]) = owner[address[c]]
  BY DEF Reached
<1>6. ASSUME Reached(address[c]) = Nobody, pc[c] = "waiting" PROVE FALSE
  <2>1. Alive(c)
    BY <1>6 DEF Alive, Gone
  <2>2. owner[address[c]] = c
    BY <1>1, <2>1 DEF AddressInv
  <2> QED
    BY <1>1, <1>6, <2>1, <2>2 DEF Reached
<1>7. Reached(address[c]) = Nobody => \E d \in Clients : pc[d] = "killed"
  BY <1>1, <1>6, UnderWay
<1> QED
  BY <1>1, <1>2, <1>4, <1>5, <1>7 DEF AddressInv

\* An answer gets into a client's buffer, or is lost.
LEMMA AnswerMoves ==
    ASSUME DatagramInv, NEW s \in Servers, NEW c \in Clients, hold[s] = {c},
           hold' = [hold EXCEPT ![s] = {}], UNCHANGED answer,
           \/ /\ UNCHANGED lost
              /\ \E p \in Clients : /\ HasRoom(p)
                                    /\ inbox' = [inbox EXCEPT ![p] = Append(@, c)]
           \/ UNCHANGED inbox /\ lost' = lost \cup {c}
    PROVE  /\ inbox' \in [Processes -> Seq(Clients)]
           /\ \A q \in Processes : Len(inbox'[q]) <= Buffer
           /\ \A x : Somewhere(x)' <=> Somewhere(x)
           /\ OnePlace'
<1> USE Parties DEF DatagramInv
<1>1. \A t \in Servers : hold'[t] = IF t = s THEN {} ELSE hold[t]
  BY DEF TypeOK
<1>2. /\ \A q \in Processes : c \notin In(q)
      /\ \A t \in Servers : c \notin hold'[t]
      /\ c \notin lost /\ \A d \in Clients : answer[d] # c
  BY <1>1 DEF OnePlace
<1>3. \A x : (\E t \in Servers : x \in hold[t]) <=> (\E t \in Servers : x \in hold'[t]) \/ x = c
  BY <1>1
<1>4. /\ \A r, t \in Servers : r # t => hold'[r] \cap hold'[t] = {}
      /\ \A t \in Servers : hold'[t] \subseteq hold[t]
  BY <1>1 DEF OnePlace
<1>5. CASE UNCHANGED inbox /\ lost' = lost \cup {c}
  <2>1. /\ inbox' \in [Processes -> Seq(Clients)]
        /\ \A q \in Processes : Len(inbox'[q]) <= Buffer
        /\ \A q \in Processes : In(q)' = In(q)
        /\ \A q \in Processes : IsInjective(inbox[q]) => IsInjective(inbox'[q])
    BY <1>5, Keeps
  <2>2. \A x : Somewhere(x)' <=> Somewhere(x)
    BY <1>3, <1>5, <2>1 DEF Somewhere
  <2>3. OnePlace'
    BY <1>2, <1>4, <1>5, <2>1 DEF OnePlace
  <2> QED
    BY <2>1, <2>2, <2>3
<1>6. ASSUME NEW p \in Clients, HasRoom(p), inbox' = [inbox EXCEPT ![p] = Append(@, c)],
             UNCHANGED lost
      PROVE  /\ inbox' \in [Processes -> Seq(Clients)]
             /\ \A q \in Processes : Len(inbox'[q]) <= Buffer
             /\ \A x : Somewhere(x)' <=> Somewhere(x)
             /\ OnePlace'
  <2>0. p \in Processes
    OBVIOUS
  <2>1. /\ inbox' \in [Processes -> Seq(Clients)]
        /\ \A q \in Processes : Len(inbox'[q]) <= Buffer
        /\ \A q \in Processes : In(q)' = IF q = p THEN In(p) \cup {c} ELSE In(q)
        /\ \A q \in Processes : IsInjective(inbox'[q]) /\ In(q)' \cap lost = {}
        /\ \A q, r \in Processes : q # r => In(q)' \cap In(r)' = {}
        /\ \A d \in Clients, q \in Processes : answer[d] \notin In(q)'
    BY <1>2, <1>6, <2>0, EntersBuffer
  <2>2. \A x : (\E q \in Processes : x \in In(q)') <=> (\E q \in Processes : x \in In(q)) \/ x = c
    <3>1. \A q \in Processes : In(q) \subseteq In(q)' /\ In(q)' \subseteq In(q) \cup {c}
      BY <2>1
    <3>2. c \in In(p)'
      BY <2>0, <2>1
    <3> QED
      BY <2>0, <3>1, <3>2
  <2>3. \A x : Somewhere(x)' <=> Somewhere(x)
    BY <1>3, <1>6, <2>2 DEF Somewhere
  <2>4. \A t \in Servers, q \in Processes : In(q)' \cap hold'[t] = {}
    <3> TAKE t \in Servers, q \in Processes
    <3>1. In(q) \cap hold[t] = {} /\ hold'[t] \subseteq hold[t] /\ c \notin hold'[t]
      BY <1>2, <1>4 DEF OnePlace
    <3> QED
      BY <2>1, <3>1
  <2>8. OnePlace'
    BY <1>4, <1>6, <2>1, <2>4 DEF OnePlace
  <2> QED
    BY <2>1, <2>3, <2>8
<1> QED
  BY <1>5, <1>6

LEMMA SendAnswerKeeps ==
    ASSUME DatagramInv, NEW s \in Servers, SendAnswer(s)
    PROVE  DatagramInv'
<1> USE Parties DEF DatagramInv
<1>0. /\ pc[s] = "answering" /\ hold' = [hold EXCEPT ![s] = {}]
      /\ UNCHANGED <<program, address, owner, answer>>
  BY DEF SendAnswer
<1>1. PICK c \in hold[s] :
          LET to == Reached(address[c]) IN
          \/ /\ to # Nobody /\ HasRoom(to)
             /\ inbox' = [inbox EXCEPT ![to] = Append(@, c)]
             /\ pc' = [pc EXCEPT ![s] = "serving"]
             /\ UNCHANGED lost
          \/ /\ Udp
             /\ lost' = lost \cup {c}
             /\ pc' = [pc EXCEPT ![s] = "serving"]
             /\ UNCHANGED inbox
          \/ /\ ~ Udp
             /\ to = Nobody
             /\ Ends(s, "failed", {c})
  BY DEF SendAnswer
<1> DEFINE to == Reached(address[c])
<1>2. /\ c \in Clients /\ hold[s] = {c}
      /\ to # Nobody => to \in Clients /\ address[to] = address[c]
      /\ to = Nobody => \E d \in Clients : pc[d] = "killed"
  BY ReachedClient
<1>3. CASE pc' = [pc EXCEPT ![s] = "serving"]
  <2>1. \/ /\ UNCHANGED lost /\ to \in Clients /\ HasRoom(to)
           /\ inbox' = [inbox EXCEPT ![to] = Append(@, c)]
        \/ Udp /\ UNCHANGED inbox /\ lost' = lost \cup {c}
    <3>1. pc[s] # "failed" /\ pc'[s] # "failed"
      BY <1>0, <1>3 DEF TypeOK
    <3>2. ~ Ends(s, "failed", {c})
      BY <3>1 DEF Ends, TypeOK
    <3> QED
      BY <1>1, <1>2, <3>2
  <2> HIDE DEF to
  <2>2. /\ inbox' \in [Processes -> Seq(Clients)]
        /\ \A q \in Processes : Len(inbox'[q]) <= Buffer
        /\ \A x : Somewhere(x)' <=> Somewhere(x)
        /\ OnePlace'
    BY <1>0, <1>2, <2>1, AnswerMoves
  <2>3. TypeOK'
    BY <1>0, <1>2, <1>3, <2>1, <2>2 DEF TypeOK, Gone
  <2>4. AddressInv' /\ HoldInv'
    BY <1>0, <1>3 DEF AddressInv, HoldInv, Alive, Gone, TypeOK
  <2>5. SentInv'
    BY <1>0, <1>3, <2>2 DEF SentInv, TypeOK
  <2>6. \A d \in Clients : In(d)' = In(d) \/ (d = to /\ In(d)' = In(d) \cup {c})
    <3>1. CASE UNCHANGED inbox
      BY <3>1, Keeps
    <3>2. CASE /\ to \in Clients /\ HasRoom(to)
               /\ inbox' = [inbox EXCEPT ![to] = Append(@, c)]
      BY <1>2, <3>2, Delivers
    <3> QED
      BY <2>1, <3>1, <3>2
  <2>7. MatchInv'
    BY <1>0, <1>2, <2>6 DEF MatchInv
  <2>8. AnswerIsMine'
    BY <1>0, <1>3 DEF AnswerIsMine, TypeOK
  <2>9. ServerFailsByKill' /\ PathInv'
    BY <1>0, <1>3 DEF ServerFailsByKill, PathInv, Listening, TypeOK, Udp
  <2>10. LostForReason'
    BY <1>0, <1>3, <2>1 DEF LostForReason, TypeOK, Udp
  <2> QED
    BY <2>2, <2>3, <2>4, <2>5, <2>7, <2>8, <2>9, <2>10
<1>4. CASE ~ Udp /\ to = Nobody /\ Ends(s, "failed", {c})
  <2>0. /\ pc' = [pc EXCEPT ![s] = "failed"]
        /\ hold' \in [Servers -> SUBSET Clients]
        /\ \A t \in Servers : hold'[t] = IF t = s THEN {} ELSE hold[t]
        /\ s \in Processes /\ {c} \in SUBSET Clients
        /\ {c} = IF s \in Servers THEN hold[s] ELSE {}
    BY <1>0, <1>2, <1>4 DEF Ends, TypeOK
  <2>1. /\ inbox' \in [Processes -> Seq(Clients)] /\ lost' \subseteq Clients
        /\ \A q \in Processes : Len(inbox'[q]) <= Buffer
        /\ \A q \in Processes : In(q)' = IF q = s THEN {} ELSE In(q)
        /\ \A x : Somewhere(x)' <=> Somewhere(x)
        /\ OnePlace' /\ HoldInv'
    BY <1>0, <1>4, <2>0, EndsLoses
  <2>2. TypeOK'
    BY <1>0, <2>0, <2>1 DEF TypeOK, Gone
  <2>3. AddressInv'
    BY <1>0, <2>0 DEF AddressInv, Alive, Gone, TypeOK
  <2>4. SentInv'
    BY <1>0, <2>0, <2>1 DEF SentInv, TypeOK
  <2>5. MatchInv'
    BY <1>0, <2>1 DEF MatchInv
  <2>6. AnswerIsMine'
    BY <1>0, <2>0 DEF AnswerIsMine, TypeOK
  <2>7. ServerFailsByKill'
    BY <1>0, <1>2, <1>4, <2>0 DEF ServerFailsByKill, TypeOK, Udp
  <2>8. PathInv' /\ LostForReason'
    BY <1>0, <2>0 DEF PathInv, Listening, LostForReason, TypeOK
  <2> QED
    BY <2>1, <2>2, <2>3, <2>4, <2>5, <2>6, <2>7, <2>8
<1> QED
  BY <1>1, <1>3, <1>4

LEMMA KillKeeps ==
    ASSUME DatagramInv, NEW p \in Processes, Kill(p)
    PROVE  DatagramInv'
<1> USE Parties DEF DatagramInv
<1> DEFINE left == IF p \in Servers THEN hold[p] ELSE {}
<1>0. /\ Alive(p) /\ Ends(p, "killed", left) /\ pc' = [pc EXCEPT ![p] = "killed"]
      /\ left \in SUBSET Clients
      /\ UNCHANGED <<program, address, answer>>
      /\ hold' \in [Servers -> SUBSET Clients]
      /\ \A t \in Servers : hold'[t] = IF t = p THEN {} ELSE hold[t]
  BY DEF Kill, Ends, TypeOK
<1>1. /\ inbox' \in [Processes -> Seq(Clients)] /\ lost' \subseteq Clients
      /\ \A q \in Processes : Len(inbox'[q]) <= Buffer
      /\ \A q \in Processes : In(q)' = IF q = p THEN {} ELSE In(q)
      /\ \A x : Somewhere(x)' <=> Somewhere(x)
      /\ OnePlace' /\ HoldInv'
  BY <1>0, EndsLoses
<1> HIDE DEF left
<1>2. /\ owner' \in [Addresses \cup {ServerAddress} -> Processes \cup {Nobody}]
      /\ \A a \in Addresses \cup {ServerAddress} :
            owner'[a] = owner[a] \/ (owner[a] = p /\ owner'[a] = Nobody)
  BY ReleaseIs DEF Kill, Abandon
<1>3. TypeOK'
  BY <1>0, <1>1, <1>2 DEF TypeOK, Gone
<1>4. AddressInv'
  BY <1>0, <1>2 DEF AddressInv, Alive, Gone, TypeOK
<1>5. SentInv'
  BY <1>0, <1>1 DEF SentInv, TypeOK, Alive, Gone
<1>6. MatchInv'
  BY <1>0, <1>1 DEF MatchInv
<1>7. AnswerIsMine'
  BY <1>0 DEF AnswerIsMine, TypeOK
<1>8. ServerFailsByKill' /\ LostForReason'
  BY <1>0 DEF ServerFailsByKill, LostForReason, TypeOK, Udp
<1>9. PathInv'
  BY <1>0, <1>2 DEF PathInv, Listening, TypeOK
<1> QED
  BY <1>1, <1>3, <1>4, <1>5, <1>6, <1>7, <1>8, <1>9

\* Each step keeps the inductive invariant.
LEMMA NextKeeps == DatagramInv /\ [Next]_vars => DatagramInv'
<1> SUFFICES ASSUME DatagramInv, [Next]_vars PROVE DatagramInv'
  OBVIOUS
<1>1. CASE Start
  BY <1>1, BindClientKeeps, SendUdpKeeps, LookOrUnlinkKeeps, BindServerKeeps DEF Start
<1>2. ASSUME NEW c \in Clients, Client(c) PROVE DatagramInv'
  BY <1>2, SendUnixKeeps, ReceiveAnswerKeeps, CloseClientKeeps DEF Client
<1>3. ASSUME NEW s \in Servers, Server(s) PROVE DatagramInv'
  BY <1>3, UnlinkFoundKeeps, BindServerKeeps, ReceiveRequestKeeps, SendAnswerKeeps DEF Server
<1>4. ASSUME NEW p \in Processes, Kill(p) PROVE DatagramInv'
  BY <1>4, KillKeeps
<1>5. CASE UNCHANGED vars
  <2>1. UNCHANGED <<program, pc, address, owner, inbox, hold, answer, lost>>
    BY <1>5 DEF vars
  <2>2. \A q \in Processes : In(q)' = In(q)
    BY <2>1, Keeps DEF DatagramInv
  <2>3. TypeOK' /\ AddressInv' /\ HoldInv' /\ AnswerIsMine' /\ ServerFailsByKill'
    BY <2>1 DEF DatagramInv, TypeOK, AddressInv, Alive, HoldInv, AnswerIsMine,
                ServerFailsByKill, Udp
  <2>4. OnePlace' /\ MatchInv'
    BY <2>1, <2>2, Parties DEF DatagramInv, OnePlace, MatchInv
  <2>5. SentInv'
    BY <2>1, <2>2 DEF DatagramInv, SentInv, Somewhere
  <2>6. PathInv' /\ LostForReason'
    BY <2>1 DEF DatagramInv, PathInv, LostForReason, Udp
  <2> QED
    BY <2>3, <2>4, <2>5, <2>6 DEF DatagramInv
<1> QED
  BY <1>1, <1>2, <1>3, <1>4, <1>5 DEF Next

\* The invariant holds in every reachable state.
THEOREM InvariantHolds == Spec => []DatagramInv
<1>1. Init => DatagramInv
  BY InitInv
<1>2. DatagramInv /\ [Next]_vars => DatagramInv'
  BY NextKeeps
<1> QED
  BY <1>1, <1>2, PTL DEF Spec

-----------------------------------------------------------------------------
(* What follows from it.                                                   *)

\* The variables have their types; no buffer holds more than it may.
THEOREM TypeCorrect == Spec => []TypeOK
<1>1. DatagramInv => TypeOK
  BY DEF DatagramInv
<1> QED
  BY <1>1, InvariantHolds, PTL

\* A client gets another client's answer only after one with the same port or
\* process id was killed (recvfrom() does not look at the sender).
THEOREM AnswersAreMine == Spec => []AnswerIsMine
<1>1. DatagramInv => AnswerIsMine
  BY DEF DatagramInv
<1> QED
  BY <1>1, InvariantHolds, PTL

\* A server's sendto() fails only after a client was killed.
THEOREM ServersFailOnlyByKill == Spec => []ServerFailsByKill
<1>1. DatagramInv => ServerFailsByKill
  BY DEF DatagramInv
<1> QED
  BY <1>1, InvariantHolds, PTL

\* Between unlink and bind of servers that start together, the path is not left
\* without a server that listens.
THEOREM ServersAreReached == Spec => []ServerIsReached
<1>1. ASSUME DatagramInv, \E s \in Servers : pc[s] \in Listening,
             \A s \in Servers : pc[s] \notin {"unlinked", "failed", "killed"}
      PROVE  Reached(ServerAddress) # Nobody
  <2>1. owner[ServerAddress] # Nobody
    BY <1>1 DEF DatagramInv, PathInv
  <2>2. owner[ServerAddress] \in Servers /\ pc[owner[ServerAddress]] \in Listening
    BY <1>1, <2>1 DEF DatagramInv, PathInv
  <2>3. Alive(owner[ServerAddress])
    BY <2>2 DEF Alive, Gone, Listening
  <2> QED
    BY <2>1, <2>3 DEF Reached
<1>2. DatagramInv => ServerIsReached
  BY <1>1 DEF ServerIsReached
<1> QED
  BY <1>2, InvariantHolds, PTL

\* Counting a set of at most one element.
LEMMA AtMostOne ==
    ASSUME NEW S, \A x, y \in S : x = y
    PROVE  IF S = {} THEN Cardinality(S) = 0 ELSE Cardinality(S) = 1
<1>1. CASE S = {}
  BY <1>1, FS_EmptySet
<1>2. ASSUME NEW x \in S PROVE Cardinality(S) = 1
  <2>1. S = {x}
    OBVIOUS
  <2> QED
    BY <2>1, FS_Singleton
<1> QED
  BY <1>1, <1>2

\* Every request is in one place: none is lost, or answered twice, on its way.
THEOREM RequestsAreOnce == Spec => []ExactlyOnce
<1>1. ASSUME DatagramInv, NEW c \in Clients
      PROVE  Places(c) <= 1 /\ (Somewhere(c) => Places(c) = 1)
  <2> DEFINE P == {p \in Processes : c \in In(p)}
             S == {s \in Servers : c \in hold[s]}
             D == {d \in Clients : answer[d] = c}
             L == {c} \cap lost
  <2> USE <1>1, Parties DEF DatagramInv
  <2>1. \A x, y \in P : x = y
    BY DEF OnePlace
  <2>2. \A x, y \in S : x = y
    BY DEF OnePlace
  <2>3. \A x, y \in D : x = y
    BY DEF OnePlace
  <2>4. \A x, y \in L : x = y
    OBVIOUS
  <2>5. /\ P = {} \/ S = {}
        /\ P = {} \/ D = {}
        /\ P = {} \/ L = {}
    BY DEF OnePlace
  <2>6. /\ S = {} \/ D = {}
        /\ S = {} \/ L = {}
        /\ D = {} \/ L = {}
    BY DEF OnePlace
  <2>7. Somewhere(c) => P # {} \/ S # {} \/ D # {} \/ L # {}
    BY DEF Somewhere
  <2>8. Places(c) = Cardinality(P) + Cardinality(S) + Cardinality(D) + Cardinality(L)
    BY DEF Places
  <2> HIDE DEF P, S, D, L
  <2>9. /\ IF P = {} THEN Cardinality(P) = 0 ELSE Cardinality(P) = 1
        /\ IF S = {} THEN Cardinality(S) = 0 ELSE Cardinality(S) = 1
        /\ IF D = {} THEN Cardinality(D) = 0 ELSE Cardinality(D) = 1
        /\ IF L = {} THEN Cardinality(L) = 0 ELSE Cardinality(L) = 1
    BY <2>1, <2>2, <2>3, <2>4, AtMostOne
  <2> QED
    BY <2>5, <2>6, <2>7, <2>8, <2>9
<1>2. DatagramInv => ExactlyOnce
  BY <1>1 DEF DatagramInv, ExactlyOnce, SentInv
<1> QED
  BY <1>2, InvariantHolds, PTL

=============================================================================
