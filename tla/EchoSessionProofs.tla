-------------------------- MODULE EchoSessionProofs --------------------------
(***************************************************************************)
(* Machine-checked proofs about EchoSession, for inputs, buffers and lines *)
(* of any length, and however the stream is cut up.                        *)
(***************************************************************************)
EXTENDS EchoSession, SequenceTheorems, WellFoundedInduction, TLAPS

-----------------------------------------------------------------------------
(* Numbers and sequences.                                                  *)

\* A set of numbers has a least one.
LEMMA LeastElement ==
    ASSUME NEW S, S \subseteq Nat, S # {}
    PROVE  Min(S) \in S /\ \A y \in S : Min(S) <= y
<1> DEFINE R == OpToRel(<, Nat)
<1>1. \A x, y \in Nat : <<y, x>> \in R <=> y < x
  BY DEF OpToRel
<1>2. IsWellFoundedOn(R, Nat)
  BY NatLessThanWellFounded
<1> HIDE DEF R
<1>3. \E x \in S : \A y \in S : ~ (<<y, x>> \in R)
  BY <1>2, WFMin, Zenon
<1>4. PICK x \in S : \A y \in S : ~ (<<y, x>> \in R)
  BY <1>3
<1>5. \A y \in S : x <= y
  <2> TAKE y \in S
  <2>1. ~ (<<y, x>> \in R)
    BY <1>4
  <2>2. x \in Nat /\ y \in Nat
    OBVIOUS
  <2>3. ~ (y < x)
    BY <1>1, <2>1, <2>2, Zenon
  <2> QED
    BY <2>2, <2>3
<1> QED
  BY <1>5 DEF Min

\* Part of the input.
LEMMA BytesRun ==
    ASSUME NEW i \in Nat, NEW j \in Nat, 1 <= i, i <= j + 1
    PROVE  /\ Len(Bytes(i, j)) = j + 1 - i /\ Run(Bytes(i, j), i)
           /\ \A m \in Nat : j <= m => Bytes(i, j) \in Seq(1..m)
<1> DEFINE n == j + 1 - i
           s == [k \in 1..n |-> i + k - 1]
<1>1. n \in Nat /\ Bytes(i, j) = s
  BY DEF Bytes
<1>2. \A m \in Nat : j <= m => s \in Seq(1..m)
  <2> TAKE m \in Nat
  <2> HAVE j <= m
  <2>1. \A k \in 1..n : i + k - 1 \in 1..m
    OBVIOUS
  <2> HIDE DEF n
  <2> QED
    BY <1>1, <2>1
<1>3. s \in Seq(1..j)
  BY <1>2
<1>4. Len(s) = n
  <2>1. DOMAIN s = 1..n
    OBVIOUS
  <2> HIDE DEF s, n
  <2> QED
    BY <1>1, <1>3, <2>1
<1>5. Run(s, i)
  BY <1>4 DEF Run
<1> QED
  BY <1>1, <1>2, <1>4, <1>5

LEMMA EmptyRun ==
    ASSUME NEW S, NEW s \in Seq(S)
    PROVE  /\ Len(s) \in Nat /\ (Len(s) = 0 <=> s = << >>)
           /\ s = << >> => \A a : Run(s, a)
BY DEF Run

\* One part behind another.
LEMMA ConcatRun ==
    ASSUME NEW S, NEW s \in Seq(S), NEW t \in Seq(S), NEW a \in Int
    PROVE  /\ s \o t \in Seq(S) /\ Len(s \o t) = Len(s) + Len(t)
           /\ Run(s, a) /\ Run(t, a + Len(s)) => Run(s \o t, a)
<1> DEFINE u == s \o t
<1>1. /\ u \in Seq(S) /\ Len(s) \in Nat /\ Len(t) \in Nat /\ Len(u) = Len(s) + Len(t)
      /\ \A i \in 1..(Len(s) + Len(t)) :
            u[i] = IF i <= Len(s) THEN s[i] ELSE t[i - Len(s)]
  BY ConcatProperties
<1> HIDE DEF u
<1>2. ASSUME Run(s, a), Run(t, a + Len(s)) PROVE Run(u, a)
  <2> SUFFICES ASSUME NEW i \in 1..(Len(s) + Len(t)) PROVE u[i] = a + i - 1
    BY <1>1 DEF Run
  <2>1. CASE i <= Len(s)
    BY <1>1, <1>2, <2>1 DEF Run
  <2>2. CASE i > Len(s)
    <3>1. i - Len(s) \in 1..Len(t) /\ u[i] = t[i - Len(s)]
      BY <1>1, <2>2
    <3>2. t[i - Len(s)] = a + Len(s) + (i - Len(s)) - 1
      BY <1>2, <3>1 DEF Run
    <3> QED
      BY <1>1, <3>1, <3>2
  <2> QED
    BY <1>1, <2>1, <2>2
<1> QED
  BY <1>1, <1>2 DEF u

\* The first n bytes, and the others.
LEMMA SplitRun ==
    ASSUME NEW S, NEW s \in Seq(S), NEW n \in Nat, n <= Len(s), NEW a \in Int
    PROVE  /\ Take(s, n) \in Seq(S) /\ Len(Take(s, n)) = n
           /\ Drop(s, n) \in Seq(S) /\ Len(Drop(s, n)) = Len(s) - n
           /\ Run(s, a) => Run(Take(s, n), a) /\ Run(Drop(s, n), a + n)
<1> DEFINE t == SubSeq(s, 1, n)
           d == SubSeq(s, n + 1, Len(s))
<1>0. Len(s) \in Nat /\ \A i \in 1..Len(s) : s[i] \in S
  OBVIOUS
<1>1. /\ t \in Seq(S) /\ Len(t) = n
      /\ \A i \in 1..n : t[i] = s[i]
  BY <1>0, SubSeqProperties
<1>2. /\ d \in Seq(S) /\ Len(d) = Len(s) - n
      /\ \A i \in 1..(Len(s) - n) : d[i] = s[n + i]
  BY <1>0, SubSeqProperties
<1>3. Take(s, n) = t /\ Drop(s, n) = d
  BY DEF Take, Drop
<1> HIDE DEF t, d
<1>4. ASSUME Run(s, a) PROVE Run(t, a) /\ Run(d, a + n)
  BY <1>0, <1>1, <1>2, <1>4 DEF Run
<1> QED
  BY <1>1, <1>2, <1>3, <1>4

\* What has all bytes from the first on, in order, is that part of the input.
LEMMA RunIsBytes ==
    ASSUME NEW n \in Nat, NEW S, NEW s \in Seq(S), Run(s, 1), Len(s) = n
    PROVE  s = Bytes(1, n)
<1>0. \A i \in Nat : i = 1 =>
          /\ Bytes(i, n) \in Seq(1..n) /\ Len(Bytes(i, n)) = n
          /\ Run(Bytes(i, n), i)
  <2> SUFFICES ASSUME NEW i \in Nat, i = 1
               PROVE  /\ Bytes(i, n) \in Seq(1..n) /\ Len(Bytes(i, n)) = n
                      /\ Run(Bytes(i, n), i)
    OBVIOUS
  <2>1. 1 <= i /\ i <= n + 1
    OBVIOUS
  <2>2. /\ Len(Bytes(i, n)) = n + 1 - i /\ Run(Bytes(i, n), i)
        /\ \A m \in Nat : n <= m => Bytes(i, n) \in Seq(1..m)
    BY <2>1, BytesRun
  <2> QED
    BY <2>2
<1>1. /\ Bytes(1, n) \in Seq(1..n) /\ Len(Bytes(1, n)) = n
      /\ Run(Bytes(1, n), 1)
  BY <1>0
<1>2. \A i \in 1..n : s[i] = Bytes(1, n)[i]
  BY <1>1 DEF Run
<1> QED
  <2> DEFINE b == Bytes(1, n)
  <2>1. b \in Seq(1..n) /\ Len(b) = n /\ \A i \in 1..n : s[i] = b[i]
    BY <1>1, <1>2
  <2> HIDE DEF b
  <2>2. s = b
    BY <2>1
  <2> QED
    BY <2>2 DEF b

\* Part of one place goes to the place before it.
LEMMA MoveRun ==
    ASSUME NEW S, NEW s \in Seq(S), NEW t \in Seq(S), NEW n \in Nat, n <= Len(s),
           NEW a \in Int, NEW b \in Int, b = a + Len(t)
    PROVE  /\ t \o Take(s, n) \in Seq(S) /\ Len(t \o Take(s, n)) = Len(t) + n
           /\ Drop(s, n) \in Seq(S) /\ Len(Drop(s, n)) = Len(s) - n
           /\ Run(t, a) /\ Run(s, b) => Run(t \o Take(s, n), a) /\ Run(Drop(s, n), b + n)
<1> DEFINE u == Take(s, n)
<1>1. /\ u \in Seq(S) /\ Len(u) = n
      /\ Drop(s, n) \in Seq(S) /\ Len(Drop(s, n)) = Len(s) - n
      /\ Run(s, b) => Run(u, b) /\ Run(Drop(s, n), b + n)
  BY SplitRun
<1> HIDE DEF u
<1>2. /\ t \o u \in Seq(S) /\ Len(t \o u) = Len(t) + Len(u)
      /\ Run(t, a) /\ Run(u, a + Len(t)) => Run(t \o u, a)
  BY <1>1, ConcatRun
<1> QED
  BY <1>1, <1>2 DEF u

-----------------------------------------------------------------------------
(* The state, and what follows from the invariant.                         *)

LEMMA Types ==
    ASSUME TypeOK
    PROVE  /\ unsent \in Seq(Byte) /\ up \in Seq(Byte) /\ held \in Seq(Byte)
           /\ down \in Seq(Byte) /\ ahead \in Seq(Byte) /\ line \in Seq(Byte)
           /\ printed \in Seq(Byte)
           /\ size \in Nat /\ next \in Nat /\ 1 <= next /\ next <= size + 2
           /\ newlines \subseteq 1..size
BY EchoAssumption DEF TypeOK

\* How long they are, and that they begin somewhere.
LEMMA Lengths ==
    ASSUME TypeOK
    PROVE  /\ Len(unsent) \in Nat /\ Len(up) \in Nat /\ Len(held) \in Nat
           /\ Len(down) \in Nat /\ Len(ahead) \in Nat /\ Len(line) \in Nat
           /\ Len(printed) \in Nat
           /\ UnsentAt \in Int /\ UpAt \in Int /\ HeldAt \in Int
           /\ DownAt \in Int /\ AheadAt \in Int /\ LineAt \in Int
<1>1. /\ Len(unsent) \in Nat /\ Len(up) \in Nat /\ Len(held) \in Nat
      /\ Len(down) \in Nat /\ Len(ahead) \in Nat /\ Len(line) \in Nat
      /\ Len(printed) \in Nat /\ next \in Nat
  BY Types, EmptyRun
<1> QED
  BY <1>1 DEF UnsentAt, UpAt, HeldAt, DownAt, AheadAt, LineAt

\* The user's text stays as it is.
LEMMA TextStays ==
    ASSUME UNCHANGED text
    PROVE  /\ program' = program /\ size' = size /\ newlines' = newlines
           /\ InStep' <=> InStep
           /\ EmptyLine' <=> EmptyLine
           /\ Byte' = Byte
BY DEF text, InStep, LongerLine, EmptyLine, Byte

\* Nothing is under way when the client turns to its next line.
LEMMA AllEmpty ==
    ASSUME EchoInv, Talking, client \in {"input", "done"}
    PROVE  /\ unsent = << >> /\ up = << >> /\ held = << >> /\ down = << >>
           /\ ahead = << >> /\ line = << >>
           /\ LineAt = next /\ printed = Bytes(1, next - 1)
<1> USE DEF EchoInv
<1>1. LineAt = next /\ Len(printed) + 1 = next /\ Run(printed, 1)
  BY DEF StreamInv, LineInv
<1>2. /\ Len(unsent) = 0 /\ Len(up) = 0 /\ Len(held) = 0 /\ Len(down) = 0
      /\ Len(ahead) = 0 /\ Len(line) = 0
  <2>1. LineAt = next - Len(unsent) - Len(up) - Len(held) - Len(down) - Len(ahead) - Len(line)
    BY DEF UnsentAt, UpAt, HeldAt, DownAt, AheadAt, LineAt
  <2>2. /\ Len(unsent) \in Nat /\ Len(up) \in Nat /\ Len(held) \in Nat
        /\ Len(down) \in Nat /\ Len(ahead) \in Nat /\ Len(line) \in Nat
        /\ next \in Nat
    BY Types, Lengths
  <2> QED
    BY <1>1, <2>1, <2>2
<1>3. /\ unsent = << >> /\ up = << >> /\ held = << >> /\ down = << >>
      /\ ahead = << >> /\ line = << >>
  BY <1>2, Types, EmptyRun
<1>4. next - 1 \in Nat /\ Len(printed) = next - 1
  BY <1>1, Lengths, Types
<1>5. printed = Bytes(1, next - 1)
  BY <1>1, <1>4, Types, RunIsBytes
<1> QED
  BY <1>1, <1>3, <1>5

LEMMA InitInv == Init => EchoInv
<1> SUFFICES ASSUME Init PROVE EchoInv
  OBVIOUS
<1>1. << >> \in Seq(Byte) /\ Len(<< >>) = 0 /\ \A a : Run(<< >>, a)
  BY DEF Run
<1>2. size \in Nat /\ newlines \subseteq 1..size
  BY EchoAssumption DEF Init
<1>3. TypeOK
  <2>1. \A s \in {unsent, up, held, down, ahead, line, printed} : s \in Seq(Byte)
    BY <1>1 DEF Init
  <2>2. /\ Len(up) = 0 /\ Len(down) = 0 /\ Len(held) = 0 /\ Len(ahead) = 0 /\ Len(line) = 0
    BY <1>1 DEF Init
  <2>3. next \in 1..(size + 2)
    BY <1>2 DEF Init
  <2>4. /\ program \in Programs /\ size \in 0..MaxSize
        /\ client = "input" /\ server = "recv" /\ broken \in BOOLEAN /\ connection = "open"
    BY DEF Init
  <2>5. 0 <= Cap /\ 0 <= Block /\ 0 <= ReadAhead /\ 0 < LineMax
    BY EchoAssumption
  <2> QED
    BY <1>2, <2>1, <2>2, <2>3, <2>4, <2>5 DEF TypeOK
<1>4. UnsentAt = 1 /\ UpAt = 1 /\ HeldAt = 1 /\ DownAt = 1 /\ AheadAt = 1 /\ LineAt = 1
  BY <1>1 DEF Init, UnsentAt, UpAt, HeldAt, DownAt, AheadAt, LineAt
<1>5. StreamInv /\ LineInv
  BY <1>1, <1>4 DEF Init, StreamInv, LineInv
<1>6. ResetInv /\ FalseAlarmByEmptyLine /\ ServerOutlivesClient
  BY DEF Init, ResetInv, FalseAlarmByEmptyLine, ServerOutlivesClient, ClientGone
<1> QED
  BY <1>3, <1>5, <1>6 DEF EchoInv


-----------------------------------------------------------------------------
(* The steps that move no byte.                                            *)

LEMMA BytesStay ==
    ASSUME UNCHANGED <<text, next, buffers, reading>>
    PROVE  /\ UNCHANGED <<next, unsent, up, held, down>>
           /\ UNCHANGED <<ahead, line, printed, broken>>
           /\ UnsentAt' = UnsentAt /\ UpAt' = UpAt /\ HeldAt' = HeldAt
           /\ DownAt' = DownAt /\ AheadAt' = AheadAt /\ LineAt' = LineAt
           /\ OneLine(LineAt, next - 1)' <=> OneLine(LineAt, next - 1)
           /\ IsNewline(LineAt - 1)' <=> IsNewline(LineAt - 1)
<1>1. /\ UNCHANGED <<next, unsent, up, held, down>>
      /\ UNCHANGED <<ahead, line, printed, broken>>
      /\ UNCHANGED <<program, size, newlines>>
  BY DEF text, buffers, reading
<1>2. /\ UnsentAt' = UnsentAt /\ UpAt' = UpAt /\ HeldAt' = HeldAt
      /\ DownAt' = DownAt /\ AheadAt' = AheadAt /\ LineAt' = LineAt
  BY <1>1 DEF UnsentAt, UpAt, HeldAt, DownAt, AheadAt, LineAt
<1>3. /\ OneLine(LineAt, next - 1)' <=> OneLine(LineAt, next - 1)
      /\ IsNewline(LineAt - 1)' <=> IsNewline(LineAt - 1)
  <2> HIDE DEF LineAt
  <2> QED
    BY <1>1, <1>2 DEF OneLine, IsNewline
<1> QED
  BY <1>1, <1>2, <1>3

\* They keep the bytes in place, and the types.
LEMMA PlacesStay ==
    ASSUME EchoInv, UNCHANGED <<text, next, buffers, reading>>,
           connection' \in {"open", "reset"},
           client' \in {"input", "sending", "reading", "done", "premature", "failed", "killed"},
           server' \in {"recv", "send", "closed", "failed", "killed"},
           Talking' => /\ Talking
                       /\ client' # client => client = "input" /\ client' = "done"
                       /\ server' = "recv" => server = "recv"
    PROVE  TypeOK' /\ StreamInv' /\ LineInv'
<1>0. TypeOK /\ StreamInv /\ LineInv
  BY DEF EchoInv
<1>1. TypeOK'
  <2>1. UNCHANGED <<program, size, newlines, Byte>>
    BY TextStays
  <2> QED
    BY <1>0, <2>1, BytesStay DEF TypeOK
<1>2. StreamInv'
  <2> SUFFICES ASSUME Talking' PROVE StreamInv'
    BY DEF StreamInv
  <2>1. Talking /\ (server' = "recv" => server = "recv")
    OBVIOUS
  <2> QED
    BY <1>0, <2>1, BytesStay DEF StreamInv, Run
<1>3. LineInv'
  <2> SUFFICES ASSUME Talking' PROVE LineInv'
    BY DEF LineInv
  <2>1. /\ Talking
        /\ client' # client => client = "input" /\ client' = "done"
    OBVIOUS
  <2>2. program' = program
    BY TextStays
  <2> QED
    BY <1>0, <2>1, <2>2, BytesStay DEF LineInv
<1> QED
  BY <1>1, <1>2, <1>3

LEMMA NothingHappens ==
    ASSUME EchoInv, UNCHANGED vars
    PROVE  EchoInv'
<1>1. UNCHANGED <<text, next, buffers, reading>> /\ UNCHANGED <<client, server, connection>>
  BY DEF vars
<1>2. (Talking' <=> Talking) /\ (InStep' <=> InStep) /\ (EmptyLine' <=> EmptyLine)
      /\ program' = program /\ broken' = broken
  BY <1>1, TextStays, BytesStay DEF Talking
<1>3. TypeOK' /\ StreamInv' /\ LineInv'
  BY <1>1, <1>2, PlacesStay DEF EchoInv, TypeOK
<1>4. ResetInv' /\ FalseAlarmByEmptyLine' /\ ServerOutlivesClient'
  BY <1>1, <1>2 DEF EchoInv, ResetInv, FalseAlarmByEmptyLine, ServerOutlivesClient,
     ClientGone, ServerGone
<1> QED
  BY <1>3, <1>4 DEF EchoInv

LEMMA InputEndsKeeps ==
    ASSUME EchoInv, InputEnds
    PROVE  EchoInv'
<1>1. /\ UNCHANGED <<text, next, buffers, reading>> /\ UNCHANGED <<server, connection>>
      /\ client = "input" /\ client' = "done"
  BY DEF InputEnds
<1>2. (Talking' <=> Talking) /\ (InStep' <=> InStep)
      /\ program' = program /\ broken' = broken
  BY <1>1, TextStays, BytesStay DEF Talking
<1>3. TypeOK' /\ StreamInv' /\ LineInv'
  BY <1>1, <1>2, PlacesStay DEF EchoInv, TypeOK
<1>4. ResetInv' /\ FalseAlarmByEmptyLine' /\ ServerOutlivesClient'
  BY <1>1, <1>2 DEF EchoInv, ResetInv, FalseAlarmByEmptyLine, ServerOutlivesClient,
     ClientGone, ServerGone
<1> QED
  BY <1>3, <1>4 DEF EchoInv

\* A client that fails, or is killed, is not expected to go on.
LEMMA ClientStopsKeeps ==
    ASSUME EchoInv, SendLineFails \/ ClientKilled
    PROVE  EchoInv'
<1>1. /\ UNCHANGED <<text, next, buffers, reading>> /\ UNCHANGED <<server, connection>>
      /\ client' \in {"failed", "killed"}
  BY DEF SendLineFails, ClientKilled
<1>2. ~ Talking' /\ program' = program /\ broken' = broken
  BY <1>1, TextStays, BytesStay DEF Talking
<1>3. TypeOK' /\ StreamInv' /\ LineInv'
  BY <1>1, <1>2, PlacesStay DEF EchoInv, TypeOK
<1>4. ResetInv' /\ FalseAlarmByEmptyLine' /\ ServerOutlivesClient'
  BY <1>1, <1>2 DEF EchoInv, ResetInv, FalseAlarmByEmptyLine, ServerOutlivesClient,
     ClientGone, ServerGone
<1> QED
  BY <1>3, <1>4 DEF EchoInv

\* The server ends its session, or fails: only after the client has ended.
LEMMA ServerStopsKeeps ==
    ASSUME EchoInv, ServerEof \/ ServerFails \/ ServerKilled
    PROVE  EchoInv'
<1>1. /\ UNCHANGED <<text, next, buffers, reading>> /\ UNCHANGED <<client, connection>>
      /\ \/ server = "recv" /\ server' = "closed" /\ ClientGone /\ connection = "open"
         \/ server \in {"recv", "send"} /\ server' = "failed" /\ connection = "reset"
         \/ server \in {"recv", "send"} /\ server' = "killed"
  BY DEF EchoInv, TypeOK, ServerEof, ServerFails, ServerKilled, ServerGone
<1>2. (Talking' => Talking) /\ (InStep' <=> InStep) /\ (EmptyLine' <=> EmptyLine)
      /\ program' = program /\ broken' = broken
  BY <1>1, TextStays, BytesStay DEF Talking
<1>3. TypeOK' /\ StreamInv' /\ LineInv'
  BY <1>1, <1>2, PlacesStay DEF EchoInv, TypeOK
<1>4. ResetInv' /\ FalseAlarmByEmptyLine'
  BY <1>1, <1>2 DEF EchoInv, ResetInv, FalseAlarmByEmptyLine, ClientGone, ServerGone
<1>5. ServerOutlivesClient'
  <2> SUFFICES ASSUME InStep, client = "done", server' = "failed" PROVE FALSE
    BY <1>1, <1>2 DEF ServerOutlivesClient
  <2>1. server \in {"recv", "send"} /\ connection = "reset"
    BY <1>1
  <2> QED
    BY <2>1 DEF EchoInv, ResetInv, Talking
<1> QED
  BY <1>3, <1>4, <1>5 DEF EchoInv

-----------------------------------------------------------------------------
(* What the steps that move bytes have in common.                          *)

LEMMA TypesFollow ==
    ASSUME TypeOK, UNCHANGED text, next' \in 1..(size + 2),
           unsent' \in Seq(Byte), up' \in Seq(Byte), held' \in Seq(Byte), down' \in Seq(Byte),
           ahead' \in Seq(Byte), line' \in Seq(Byte), printed' \in Seq(Byte),
           Len(up') <= Cap, Len(down') <= Cap, Len(held') <= Block, Len(ahead') <= ReadAhead,
           program \in {"c", "cxx"} => Len(line') < LineMax,
           client' \in {"input", "sending", "reading", "done", "premature", "failed", "killed"},
           server' \in {"recv", "send", "closed", "failed", "killed"},
           broken' \in BOOLEAN, connection' \in {"open", "reset"}
    PROVE  TypeOK'
<1>1. UNCHANGED <<program, size, newlines, Byte>>
  BY TextStays
<1>2. \A s \in {unsent', up', held', down', ahead', line', printed'} : s \in Seq(Byte')
  BY <1>1
<1>3. program \in Programs /\ size \in 0..MaxSize /\ newlines \subseteq 1..size
  BY DEF TypeOK
<1> QED
  BY <1>1, <1>2, <1>3 DEF TypeOK

\* As long as nobody stops, what is said of the end stays true.
LEMMA EndStays ==
    ASSUME EchoInv, UNCHANGED <<text, broken, connection>>,
           client' # client => {client, client'} \subseteq {"input", "sending", "reading"},
           server' # server => {server, server'} \subseteq {"recv", "send"}
    PROVE  /\ Talking' <=> Talking
           /\ ResetInv' /\ FalseAlarmByEmptyLine' /\ ServerOutlivesClient'
<1>1. /\ program' = program /\ (InStep' <=> InStep) /\ (EmptyLine' <=> EmptyLine)
      /\ UNCHANGED <<broken, connection>>
  BY TextStays
<1>2. /\ client' = client \/ {client, client'} \subseteq {"input", "sending", "reading"}
      /\ server' = server \/ {server, server'} \subseteq {"recv", "send"}
  OBVIOUS
<1>3. (Talking' <=> Talking) /\ (ClientGone' <=> ClientGone) /\ (ServerGone' <=> ServerGone)
  BY <1>1, <1>2 DEF Talking, ClientGone, ServerGone
<1>4. ResetInv'
  BY <1>1, <1>2, <1>3 DEF EchoInv, ResetInv, ClientGone
<1>5. FalseAlarmByEmptyLine' /\ ServerOutlivesClient'
  BY <1>1, <1>2, <1>3 DEF EchoInv, FalseAlarmByEmptyLine, ServerOutlivesClient
<1> QED
  BY <1>3, <1>4, <1>5

\* Lines mean the same before and after a step.
LEMMA LinesStay ==
    ASSUME UNCHANGED text, NEW i, NEW j, LineAt' = i
    PROVE  /\ next' - 1 = j /\ OneLine(i, j) => OneLine(LineAt, next - 1)'
           /\ IsNewline(LineAt - 1)' <=> IsNewline(i - 1)
<1> HIDE DEF LineAt
<1> QED
  BY TextStays DEF OneLine, IsNewline

-----------------------------------------------------------------------------
(* The kernel: bytes that nobody will read.                                *)

LEMMA ResetKeeps ==
    ASSUME EchoInv, Reset
    PROVE  EchoInv'
<1>1. /\ UNCHANGED text /\ UNCHANGED <<next, unsent, held, client, server>>
      /\ UNCHANGED <<ahead, line, printed, broken>>
      /\ connection = "open" /\ connection' = "reset"
  BY DEF Reset, reading
<1>2. TypeOK
  BY DEF EchoInv
<1>3. /\ up' \in Seq(Byte) /\ Len(up') <= Cap
      /\ down' \in Seq(Byte) /\ Len(down') <= Cap
  <2>0. /\ Len(up) <= Cap /\ Len(down) <= Cap /\ Len(up) \in Nat /\ Len(down) \in Nat
        /\ Cap \in Nat /\ 0 \in Int /\ up \in Seq(Byte) /\ down \in Seq(Byte)
    BY <1>2, Types, Lengths, EchoAssumption DEF TypeOK
  <2>1. \A s \in Seq(Byte) : \A n \in 0..Len(s) :
           Take(s, n) \in Seq(Byte) /\ Len(Take(s, n)) = n /\ n <= Len(s)
    <3> TAKE s \in Seq(Byte)
    <3> TAKE n \in 0..Len(s)
    <3>1. n \in Nat /\ n <= Len(s)
      BY EmptyRun
    <3>2. \A a \in Int : Take(s, n) \in Seq(Byte) /\ Len(Take(s, n)) = n
      BY <3>1, SplitRun
    <3> QED
      BY <2>0, <3>1, <3>2
  <2>2. \/ down' = down /\ \E n \in 0..Len(up) : up' = Take(up, n)
        \/ up' = up /\ \E n \in 0..Len(down) : down' = Take(down, n)
    BY DEF Reset
  <2>3. CASE down' = down /\ \E n \in 0..Len(up) : up' = Take(up, n)
    <3>1. PICK n \in 0..Len(up) : up' = Take(up, n)
      BY <2>3
    <3>2. up' \in Seq(Byte) /\ Len(up') = n
      BY <2>0, <2>1, <3>1
    <3> QED
      BY <2>0, <2>3, <3>2
  <2>4. CASE up' = up /\ \E n \in 0..Len(down) : down' = Take(down, n)
    <3>1. PICK n \in 0..Len(down) : down' = Take(down, n)
      BY <2>4
    <3>2. down' \in Seq(Byte) /\ Len(down') = n
      BY <2>0, <2>1, <3>1
    <3> QED
      BY <2>0, <2>4, <3>2
  <2> QED
    BY <2>2, <2>3, <2>4
<1>4. TypeOK'
  <2>1. /\ unsent' \in Seq(Byte) /\ held' \in Seq(Byte) /\ ahead' \in Seq(Byte)
        /\ line' \in Seq(Byte) /\ printed' \in Seq(Byte)
    BY <1>1, <1>2, Types
  <2>2. /\ next' \in 1..(size + 2)
        /\ Len(held') <= Block /\ Len(ahead') <= ReadAhead
        /\ program \in {"c", "cxx"} => Len(line') < LineMax
        /\ client' \in {"input", "sending", "reading", "done", "premature", "failed", "killed"}
        /\ server' \in {"recv", "send", "closed", "failed", "killed"}
        /\ broken' \in BOOLEAN
    BY <1>1, <1>2 DEF TypeOK
  <2> QED
    BY <1>1, <1>2, <1>3, <2>1, <2>2, TypesFollow
\* Bytes that nobody will read are left only when somebody has given up.
<1>5. Talking => \/ client \in {"input", "sending", "reading"} /\ server \in {"recv", "send"}
                 \/ up = << >> /\ down = << >>
  <2>1. Talking /\ client = "done" => up = << >> /\ down = << >>
    BY AllEmpty
  <2>2. server = "closed" => ClientGone
    BY DEF EchoInv, ResetInv
  <2>3. server \in {"recv", "send", "closed", "failed", "killed"}
    BY <1>2 DEF TypeOK
  <2>4. client # "done" /\ Talking => server \in {"recv", "send"}
    BY <2>2, <2>3 DEF Talking, ClientGone
  <2> QED
    BY <2>1, <2>4 DEF Talking
<1>6. (ClientGone /\ down # << >>) \/ (ServerGone /\ up # << >>)
  BY DEF Reset
<1>7. ~ Talking
  BY <1>5, <1>6 DEF ClientGone, ServerGone
<1>8. /\ ~ Talking' /\ (ClientGone' <=> ClientGone) /\ (ServerGone' <=> ServerGone)
      /\ program' = program /\ (InStep' <=> InStep) /\ (EmptyLine' <=> EmptyLine)
  BY <1>1, <1>7, TextStays DEF Talking, ClientGone, ServerGone
<1>9. StreamInv' /\ LineInv'
  BY <1>8 DEF StreamInv, LineInv
<1>10. ResetInv'
  BY <1>1, <1>6, <1>8 DEF EchoInv, ResetInv, ServerGone
<1>11. FalseAlarmByEmptyLine' /\ ServerOutlivesClient'
  BY <1>1, <1>8 DEF EchoInv, FalseAlarmByEmptyLine, ServerOutlivesClient
<1> QED
  BY <1>4, <1>9, <1>10, <1>11 DEF EchoInv

-----------------------------------------------------------------------------
(* The client takes a line from its input.                                 *)

LEMMA LineEndIsEnd ==
    ASSUME TypeOK, next <= size
    PROVE  /\ LineEnd \in next..size
           /\ LineEnd \in newlines \/ LineEnd = size
           /\ \A b \in next..(LineEnd - 1) : b \notin newlines
<1> DEFINE S == {j \in next..size : j \in newlines} \cup {size}
<1>1. /\ S \subseteq Nat /\ S # {} /\ size \in next..size
      /\ \A j \in S : j \in next..size /\ (j \in newlines \/ j = size)
      /\ \A j \in next..size : j \in newlines => j \in S
  BY Types
<1>2. LineEnd = Min(S)
  BY DEF LineEnd
<1> HIDE DEF S
<1>3. LineEnd \in S /\ \A y \in S : LineEnd <= y
  BY <1>1, <1>2, LeastElement
<1>4. LineEnd \in next..size /\ (LineEnd \in newlines \/ LineEnd = size)
  BY <1>1, <1>3
<1>5. ASSUME NEW b \in next..(LineEnd - 1) PROVE b \notin newlines
  <2>1. b \in next..size /\ b < LineEnd
    BY <1>4, Types
  <2>2. b \in S => LineEnd <= b
    BY <1>3
  <2> QED
    BY <1>1, <1>4, <2>1, <2>2, Types
<1> QED
  BY <1>4, <1>5

\* What is sent for it is one line, and its last byte is the newline, unless
\* the input has none there.
LEMMA SendlineEndIsEnd ==
    ASSUME TypeOK, next <= size
    PROVE  SendlineEnd \in next..(size + 1) /\ (InStep => OneLine(next, SendlineEnd))
<1>1. /\ size \in Nat /\ next \in Nat /\ 1 <= next /\ newlines \subseteq 1..size
      /\ LineEnd \in next..size
      /\ LineEnd \in newlines \/ LineEnd = size
      /\ \A b \in next..(LineEnd - 1) : b \notin newlines
      /\ LineMax \in Nat \ {0}
      /\ program \in {"c", "cxx", "istream", "py"}
  BY Types, LineEndIsEnd, EchoAssumption DEF TypeOK
<1> DEFINE e == SendlineEnd
<1>2. CASE program = "c"
  <2>1. e = Least(LineEnd, next + LineMax - 1)
    BY <1>2 DEF SendlineEnd
  <2> HIDE DEF e
  <2>2. /\ e \in next..LineEnd /\ e + 1 - next <= LineMax
        /\ e = LineEnd \/ e + 1 - next = LineMax
    BY <1>1, <2>1 DEF Least
  <2>5. IsNewline(e) \/ e = size \/ e + 1 - next = LineMax
    BY <1>1, <2>2 DEF IsNewline
  <2>3. \A b \in next..(e - 1) : ~ IsNewline(b)
    BY <1>1, <2>2 DEF IsNewline
  <2>4. e \in next..(size + 1) /\ OneLine(next, e)
    BY <1>1, <1>2, <2>2, <2>3, <2>5 DEF OneLine
  <2> QED
    BY <2>4 DEF e
<1>3. CASE program = "py"
  <2>1. e = LineEnd
    BY <1>3 DEF SendlineEnd
  <2> HIDE DEF e
  <2>2. \A b \in next..(e - 1) : ~ IsNewline(b)
    BY <1>1, <2>1 DEF IsNewline
  <2>4. IsNewline(e) \/ e = size
    BY <1>1, <2>1 DEF IsNewline
  <2>3. e \in next..(size + 1) /\ OneLine(next, e)
    BY <1>1, <1>3, <2>1, <2>2, <2>4 DEF OneLine
  <2> QED
    BY <2>3 DEF e
<1>4. CASE program \in {"cxx", "istream"}
  <2>1. e = IF LineEnd \in newlines THEN LineEnd ELSE size + 1
    BY <1>4 DEF SendlineEnd
  <2> HIDE DEF e
  <2>2. e \in next..(size + 1) /\ IsNewline(e)
    BY <1>1, <2>1 DEF IsNewline
  <2>3. \A b \in next..(e - 1) : b \notin newlines
    BY <1>1, <2>1
  <2>4. \A b \in next..(e - 1) : ~ IsNewline(b)
    BY <1>1, <2>2, <2>3 DEF IsNewline
  <2>5. ASSUME program = "cxx", InStep PROVE e + 1 - next <= LineMax
    <3> SUFFICES ASSUME e + 1 - next > LineMax PROVE FALSE
      BY <1>1, <2>2
    <3>1. next \in 1..(size + 1 - LineMax)
      BY <1>1, <2>2
    <3>2. \A j \in next..(next + LineMax - 1) : j \notin newlines
      BY <1>1, <2>2, <2>3
    <3> QED
      BY <2>5, <3>1, <3>2 DEF InStep, LongerLine
  <2>6. InStep => OneLine(next, e)
    BY <1>1, <1>4, <2>2, <2>4, <2>5 DEF OneLine
  <2> QED
    BY <2>2, <2>6 DEF e
<1> QED
  BY <1>1, <1>2, <1>3, <1>4


LEMMA ReadInputKeeps ==
    ASSUME EchoInv, ReadInput
    PROVE  EchoInv'
<1> DEFINE e == SendlineEnd
<1>1. /\ UNCHANGED text /\ UNCHANGED <<up, held, down, ahead, line, printed>>
      /\ UNCHANGED <<broken, server, connection>>
      /\ client = "input" /\ client' = "sending" /\ next <= size
      /\ unsent' = Bytes(next, e) /\ next' = e + 1
  BY DEF ReadInput, reading
<1>2. TypeOK /\ StreamInv /\ LineInv
  BY DEF EchoInv
<1>3. e \in next..(size + 1) /\ (InStep => OneLine(next, e))
  BY <1>1, <1>2, SendlineEndIsEnd
<1> HIDE DEF e
<1>4. next \in Nat /\ 1 <= next /\ size \in Nat /\ e \in Nat /\ next <= e /\ e <= size + 1
  BY <1>2, <1>3, Types
<1>5. unsent' \in Seq(Byte) /\ Len(unsent') = e + 1 - next /\ Run(unsent', next)
  <2>1. next <= e + 1 /\ size + 1 \in Nat
    BY <1>4
  <2>2. /\ Len(unsent') = e + 1 - next /\ Run(unsent', next)
        /\ \A m \in Nat : e <= m => unsent' \in Seq(1..m)
    BY <1>1, <1>4, <2>1, BytesRun
  <2> QED
    BY <1>4, <2>1, <2>2 DEF Byte
<1>6. TypeOK'
  <2>1. /\ up' \in Seq(Byte) /\ held' \in Seq(Byte) /\ down' \in Seq(Byte)
        /\ ahead' \in Seq(Byte) /\ line' \in Seq(Byte) /\ printed' \in Seq(Byte)
    BY <1>1, <1>2, Types
  <2>2. next' \in 1..(size + 2)
    BY <1>1, <1>4
  <2>3. /\ Len(up') <= Cap /\ Len(down') <= Cap
        /\ Len(held') <= Block /\ Len(ahead') <= ReadAhead
        /\ program \in {"c", "cxx"} => Len(line') < LineMax
        /\ server' \in {"recv", "send", "closed", "failed", "killed"}
        /\ broken' \in BOOLEAN /\ connection' \in {"open", "reset"}
    BY <1>1, <1>2 DEF TypeOK
  <2> QED
    BY <1>1, <1>2, <1>5, <2>1, <2>2, <2>3, TypesFollow
<1>7. (Talking' <=> Talking) /\ ResetInv' /\ FalseAlarmByEmptyLine' /\ ServerOutlivesClient'
  BY <1>1, EndStays
\* The connection was empty, so that it holds just this line.
<1>8. ASSUME Talking
      PROVE  /\ up' = << >> /\ held' = << >> /\ down' = << >> /\ ahead' = << >> /\ line' = << >>
             /\ UnsentAt' = next /\ UpAt' = next /\ HeldAt' = next
             /\ DownAt' = next /\ AheadAt' = next /\ LineAt' = next /\ LineAt = next
  <2>1. /\ up' = << >> /\ held' = << >> /\ down' = << >> /\ ahead' = << >> /\ line' = << >>
        /\ LineAt = next
    BY <1>1, <1>8, AllEmpty
  <2>2. /\ Len(up') = 0 /\ Len(held') = 0 /\ Len(down') = 0 /\ Len(ahead') = 0 /\ Len(line') = 0
    BY <2>1
  <2>3. /\ UnsentAt' = next /\ UpAt' = next /\ HeldAt' = next
        /\ DownAt' = next /\ AheadAt' = next /\ LineAt' = next
    BY <1>1, <1>4, <1>5, <2>2 DEF UnsentAt, UpAt, HeldAt, DownAt, AheadAt, LineAt
  <2> QED
    BY <2>1, <2>3
<1>9. StreamInv'
  <2> SUFFICES ASSUME Talking PROVE StreamInv'
    BY <1>7 DEF StreamInv
  <2>1. \A a : Run(up', a) /\ Run(held', a) /\ Run(down', a) /\ Run(ahead', a) /\ Run(line', a)
    BY <1>8 DEF Run
  <2>2. Run(printed', 1) /\ Len(printed') + 1 = LineAt'
    BY <1>1, <1>2, <1>8 DEF StreamInv
  <2> QED
    BY <1>5, <1>8, <2>1, <2>2 DEF StreamInv, Run
<1>10. LineInv'
  <2> SUFFICES ASSUME Talking PROVE LineInv'
    BY <1>7 DEF LineInv
  <2>1. next = LineAt' /\ e = next' - 1
    BY <1>1, <1>4, <1>8
  <2>2. OneLine(LineAt, next - 1)'
    BY <1>1, <1>3, <2>1, LinesStay DEF Talking
  <2>3. program = "istream" => LineAt = 1 \/ IsNewline(LineAt - 1)
    BY <1>2 DEF LineInv
  <2>4. program' = program /\ LineAt' = LineAt /\ (IsNewline(LineAt - 1)' <=> IsNewline(LineAt - 1))
    BY <1>1, <1>8, TextStays, LinesStay
  <2> QED
    BY <1>1, <1>8, <2>2, <2>3, <2>4 DEF LineInv
<1> QED
  BY <1>6, <1>7, <1>9, <1>10 DEF EchoInv


-----------------------------------------------------------------------------
(* Bytes go on from one place to the next.                                 *)

LEMMA LineGoesOn ==
    ASSUME LineInv, UNCHANGED <<text, next>>, LineAt' = LineAt, Talking' <=> Talking,
           \/ client' = client /\ UNCHANGED unsent
           \/ client' = "sending" /\ client = "sending"
           \/ client = "sending" /\ client' = "reading" /\ unsent' = << >>,
           client' = "sending" => UNCHANGED <<ahead, line>>
    PROVE  LineInv'
<1> SUFFICES ASSUME Talking PROVE LineInv'
  BY DEF LineInv
<1>1. program' = program
  BY TextStays
<1>2. /\ OneLine(LineAt, next - 1) => OneLine(LineAt, next - 1)'
      /\ IsNewline(LineAt - 1)' <=> IsNewline(LineAt - 1)
  <2>1. next' - 1 = next - 1
    OBVIOUS
  <2> QED
    BY <2>1, LinesStay
<1> QED
  BY <1>1, <1>2 DEF LineInv

\* send() of the client: from sendline to the connection.
LEMMA SendLineKeeps ==
    ASSUME EchoInv, SendLine
    PROVE  EchoInv'
<1>1. /\ UNCHANGED text /\ UNCHANGED <<next, held, down, ahead, line, printed>>
      /\ UNCHANGED <<broken, server, connection>>
      /\ client = "sending" /\ client' \in {"sending", "reading"}
      /\ client' = "reading" => unsent' = << >>
  BY DEF SendLine, reading
<1>2. TypeOK /\ StreamInv /\ LineInv
  BY DEF EchoInv
<1>3. /\ Len(unsent) \in Nat /\ Len(up) \in Nat /\ Len(held) \in Nat
      /\ Len(down) \in Nat /\ Len(ahead) \in Nat /\ Len(line) \in Nat
      /\ next \in Nat /\ UpAt \in Int /\ UnsentAt \in Int /\ Cap \in Nat
      /\ UnsentAt = UpAt + Len(up)
      /\ unsent \in Seq(Byte) /\ up \in Seq(Byte)
  <2>1. /\ Len(unsent) \in Nat /\ Len(up) \in Nat /\ Len(held) \in Nat
        /\ Len(down) \in Nat /\ Len(ahead) \in Nat /\ Len(line) \in Nat
        /\ next \in Nat /\ UpAt \in Int /\ UnsentAt \in Int /\ Cap \in Nat
        /\ unsent \in Seq(Byte) /\ up \in Seq(Byte)
    BY <1>2, Types, Lengths, EchoAssumption
  <2> QED
    BY <2>1 DEF UpAt
<1>4. PICK n \in 1..Least(Len(unsent), Cap - Len(up)) :
         up' = up \o Take(unsent, n) /\ unsent' = Drop(unsent, n)
  BY DEF SendLine
<1>5. n \in Nat /\ n <= Len(unsent) /\ n <= Cap - Len(up)
  BY <1>3, <1>4 DEF Least
<1>6. /\ up' \in Seq(Byte) /\ Len(up') = Len(up) + n
      /\ unsent' \in Seq(Byte) /\ Len(unsent') = Len(unsent) - n
      /\ Run(up, UpAt) /\ Run(unsent, UnsentAt) => Run(up', UpAt) /\ Run(unsent', UnsentAt + n)
  <2>1. /\ up \o Take(unsent, n) \in Seq(Byte) /\ Len(up \o Take(unsent, n)) = Len(up) + n
        /\ Drop(unsent, n) \in Seq(Byte) /\ Len(Drop(unsent, n)) = Len(unsent) - n
        /\ Run(up, UpAt) /\ Run(unsent, UnsentAt)
           => Run(up \o Take(unsent, n), UpAt) /\ Run(Drop(unsent, n), UnsentAt + n)
    <3> DEFINE a == UpAt
               b == UnsentAt
    <3>1. a \in Int /\ b \in Int /\ b = a + Len(up) /\ n \in Nat /\ n <= Len(unsent)
          /\ unsent \in Seq(Byte) /\ up \in Seq(Byte)
      BY <1>3, <1>5
    <3> HIDE DEF a, b
    <3>2. /\ up \o Take(unsent, n) \in Seq(Byte) /\ Len(up \o Take(unsent, n)) = Len(up) + n
          /\ Drop(unsent, n) \in Seq(Byte) /\ Len(Drop(unsent, n)) = Len(unsent) - n
          /\ Run(up, a) /\ Run(unsent, b)
             => Run(up \o Take(unsent, n), a) /\ Run(Drop(unsent, n), b + n)
      BY <3>1, MoveRun
    <3> QED
      BY <3>2 DEF a, b
  <2> QED
    BY <1>4, <2>1
<1>7. TypeOK'
  <2>1. /\ held' \in Seq(Byte) /\ down' \in Seq(Byte)
        /\ ahead' \in Seq(Byte) /\ line' \in Seq(Byte) /\ printed' \in Seq(Byte)
    BY <1>1, <1>2, Types
  <2>2. Len(up') <= Cap
    BY <1>3, <1>5, <1>6
  <2>3. /\ next' \in 1..(size + 2) /\ Len(down') <= Cap
        /\ Len(held') <= Block /\ Len(ahead') <= ReadAhead
        /\ program \in {"c", "cxx"} => Len(line') < LineMax
        /\ server' \in {"recv", "send", "closed", "failed", "killed"}
        /\ broken' \in BOOLEAN /\ connection' \in {"open", "reset"}
    BY <1>1, <1>2 DEF TypeOK
  <2> QED
    BY <1>1, <1>2, <1>6, <2>1, <2>2, <2>3, TypesFollow
<1>8. (Talking' <=> Talking) /\ ResetInv' /\ FalseAlarmByEmptyLine' /\ ServerOutlivesClient'
  BY <1>1, EndStays
<1>9. /\ UnsentAt' = UnsentAt + n /\ UpAt' = UpAt /\ HeldAt' = HeldAt
      /\ DownAt' = DownAt /\ AheadAt' = AheadAt /\ LineAt' = LineAt
  <2>1. UnsentAt' = UnsentAt + n
    BY <1>1, <1>3, <1>5, <1>6 DEF UnsentAt
  <2>2. UpAt' = UpAt
    BY <1>3, <1>5, <1>6, <2>1 DEF UpAt
  <2> QED
    BY <1>1, <2>1, <2>2 DEF HeldAt, DownAt, AheadAt, LineAt
<1>10. StreamInv'
  <2> SUFFICES ASSUME Talking PROVE StreamInv'
    BY <1>8 DEF StreamInv
  <2> QED
    BY <1>1, <1>2, <1>6, <1>9 DEF StreamInv, Run
<1>11. LineInv'
  BY <1>1, <1>2, <1>8, <1>9, LineGoesOn
<1> QED
  BY <1>7, <1>8, <1>10, <1>11 DEF EchoInv

\* recv() of the server: from the connection to buf, which is empty.
LEMMA ServerRecvKeeps ==
    ASSUME EchoInv, ServerRecv
    PROVE  EchoInv'
<1>1. /\ UNCHANGED text /\ UNCHANGED <<next, unsent, down, ahead, line, printed>>
      /\ UNCHANGED <<broken, client, connection>>
      /\ server = "recv" /\ server' = "send"
  BY DEF ServerRecv, reading
<1>2. TypeOK /\ StreamInv /\ LineInv
  BY DEF EchoInv
<1>3. /\ Len(up) \in Nat /\ Len(held) \in Nat /\ Len(up) <= Cap /\ Cap \in Nat
      /\ UpAt \in Int /\ UnsentAt \in Int /\ Block \in Nat
      /\ up \in Seq(Byte) /\ UpAt = UnsentAt - Len(up) /\ HeldAt = UpAt - Len(held)
  BY <1>2, Types, Lengths, EchoAssumption DEF TypeOK, UpAt, HeldAt
<1>4. PICK n \in 1..Least(Len(up), Block) : held' = Take(up, n) /\ up' = Drop(up, n)
  BY DEF ServerRecv
<1>5. n \in Nat /\ n <= Len(up) /\ n <= Block
  BY <1>3, <1>4 DEF Least
<1>6. /\ held' \in Seq(Byte) /\ Len(held') = n
      /\ up' \in Seq(Byte) /\ Len(up') = Len(up) - n
      /\ Run(up, UpAt) => Run(held', UpAt) /\ Run(up', UpAt + n)
  BY <1>3, <1>4, <1>5, SplitRun
<1>7. TypeOK'
  <2>1. /\ unsent' \in Seq(Byte) /\ down' \in Seq(Byte)
        /\ ahead' \in Seq(Byte) /\ line' \in Seq(Byte) /\ printed' \in Seq(Byte)
    BY <1>1, <1>2, Types
  <2>2. Len(up') <= Cap /\ Len(held') <= Block
    BY <1>3, <1>5, <1>6
  <2>3. /\ next' \in 1..(size + 2) /\ Len(down') <= Cap /\ Len(ahead') <= ReadAhead
        /\ program \in {"c", "cxx"} => Len(line') < LineMax
        /\ client' \in {"input", "sending", "reading", "done", "premature", "failed", "killed"}
        /\ broken' \in BOOLEAN /\ connection' \in {"open", "reset"}
    BY <1>1, <1>2 DEF TypeOK
  <2> QED
    BY <1>1, <1>2, <1>6, <2>1, <2>2, <2>3, TypesFollow
<1>8. (Talking' <=> Talking) /\ ResetInv' /\ FalseAlarmByEmptyLine' /\ ServerOutlivesClient'
  BY <1>1, EndStays
<1>9. ASSUME Talking
      PROVE  /\ UnsentAt' = UnsentAt /\ UpAt' = UpAt + n /\ HeldAt' = UpAt /\ HeldAt = UpAt
             /\ DownAt' = DownAt /\ AheadAt' = AheadAt /\ LineAt' = LineAt
  <2>1. UnsentAt' = UnsentAt
    BY <1>1 DEF UnsentAt
  <2>2. UpAt' = UpAt + n
    BY <1>3, <1>5, <1>6, <2>1 DEF UpAt
  <2>3. Len(held) = 0
    <3>1. held = << >>
      BY <1>1, <1>2, <1>9 DEF StreamInv
    <3> QED
      BY <3>1
  <2>4. HeldAt = UpAt
    BY <1>3, <2>3
  <2>5. HeldAt' = UpAt
    BY <1>3, <1>5, <1>6, <2>2 DEF HeldAt
  <2> QED
    BY <1>1, <2>1, <2>2, <2>4, <2>5 DEF DownAt, AheadAt, LineAt
<1>10. StreamInv'
  <2> SUFFICES ASSUME Talking PROVE StreamInv'
    BY <1>8 DEF StreamInv
  <2> QED
    BY <1>1, <1>2, <1>6, <1>9 DEF StreamInv, Run
<1>11. LineInv'
  <2> SUFFICES ASSUME Talking PROVE LineInv'
    BY <1>8 DEF LineInv
  <2> QED
    BY <1>1, <1>2, <1>8, <1>9, LineGoesOn
<1> QED
  BY <1>7, <1>8, <1>10, <1>11 DEF EchoInv


\* send() of the server: from buf to the way back.
LEMMA ServerSendKeeps ==
    ASSUME EchoInv, ServerSend
    PROVE  EchoInv'
<1>1. /\ UNCHANGED text /\ UNCHANGED <<next, unsent, up, ahead, line, printed>>
      /\ UNCHANGED <<broken, client, connection>>
      /\ server = "send" /\ server' \in {"recv", "send"}
      /\ server' = "recv" => held' = << >>
  BY DEF ServerSend, reading
<1>2. TypeOK /\ StreamInv /\ LineInv
  BY DEF EchoInv
<1>3. /\ Len(held) \in Nat /\ Len(down) \in Nat /\ Len(held) <= Block
      /\ HeldAt \in Int /\ UpAt \in Int /\ Block \in Nat /\ Cap \in Nat
      /\ held \in Seq(Byte) /\ down \in Seq(Byte)
      /\ HeldAt = UpAt - Len(held) /\ DownAt = HeldAt - Len(down) /\ DownAt \in Int
  BY <1>2, Types, Lengths, EchoAssumption DEF TypeOK, HeldAt, DownAt
<1>4. PICK n \in 1..Least(Len(held), Cap - Len(down)) :
         down' = down \o Take(held, n) /\ held' = Drop(held, n)
  BY DEF ServerSend
<1>5. n \in Nat /\ n <= Len(held) /\ n <= Cap - Len(down)
  BY <1>3, <1>4 DEF Least
<1>6. /\ down' \in Seq(Byte) /\ Len(down') = Len(down) + n
      /\ held' \in Seq(Byte) /\ Len(held') = Len(held) - n
      /\ Run(down, DownAt) /\ Run(held, HeldAt) => Run(down', DownAt) /\ Run(held', HeldAt + n)
  <2> DEFINE a == DownAt
             b == HeldAt
  <2>1. a \in Int /\ b \in Int /\ b = a + Len(down) /\ n \in Nat /\ n <= Len(held)
        /\ held \in Seq(Byte) /\ down \in Seq(Byte)
    BY <1>3, <1>5
  <2> HIDE DEF a, b
  <2>2. /\ down \o Take(held, n) \in Seq(Byte) /\ Len(down \o Take(held, n)) = Len(down) + n
        /\ Drop(held, n) \in Seq(Byte) /\ Len(Drop(held, n)) = Len(held) - n
        /\ Run(down, a) /\ Run(held, b)
           => Run(down \o Take(held, n), a) /\ Run(Drop(held, n), b + n)
    BY <2>1, MoveRun
  <2> QED
    BY <1>4, <2>2 DEF a, b
<1>7. TypeOK'
  <2>1. /\ unsent' \in Seq(Byte) /\ up' \in Seq(Byte)
        /\ ahead' \in Seq(Byte) /\ line' \in Seq(Byte) /\ printed' \in Seq(Byte)
    BY <1>1, <1>2, Types
  <2>2. Len(down') <= Cap /\ Len(held') <= Block
    BY <1>3, <1>5, <1>6
  <2>3. /\ next' \in 1..(size + 2) /\ Len(up') <= Cap /\ Len(ahead') <= ReadAhead
        /\ program \in {"c", "cxx"} => Len(line') < LineMax
        /\ client' \in {"input", "sending", "reading", "done", "premature", "failed", "killed"}
        /\ broken' \in BOOLEAN /\ connection' \in {"open", "reset"}
    BY <1>1, <1>2 DEF TypeOK
  <2> QED
    BY <1>1, <1>2, <1>6, <2>1, <2>2, <2>3, TypesFollow
<1>8. (Talking' <=> Talking) /\ ResetInv' /\ FalseAlarmByEmptyLine' /\ ServerOutlivesClient'
  BY <1>1, EndStays
<1>9. /\ UnsentAt' = UnsentAt /\ UpAt' = UpAt /\ HeldAt' = HeldAt + n
      /\ DownAt' = DownAt /\ AheadAt' = AheadAt /\ LineAt' = LineAt
  <2>1. UnsentAt' = UnsentAt /\ UpAt' = UpAt
    BY <1>1 DEF UnsentAt, UpAt
  <2>2. HeldAt' = HeldAt + n
    BY <1>3, <1>5, <1>6, <2>1 DEF HeldAt
  <2>3. DownAt' = DownAt
    BY <1>3, <1>5, <1>6, <2>2 DEF DownAt
  <2> QED
    BY <1>1, <2>1, <2>2, <2>3 DEF AheadAt, LineAt
<1>10. StreamInv'
  <2> SUFFICES ASSUME Talking PROVE StreamInv'
    BY <1>8 DEF StreamInv
  <2> QED
    BY <1>1, <1>2, <1>6, <1>9 DEF StreamInv, Run
<1>11. LineInv'
  BY <1>1, <1>2, <1>8, <1>9, LineGoesOn
<1> QED
  BY <1>7, <1>8, <1>10, <1>11 DEF EchoInv

\* read() of the client: from the way back to its buffer, which is empty.
LEMMA FillBufferKeeps ==
    ASSUME EchoInv, FillBuffer
    PROVE  EchoInv'
<1>1. /\ UNCHANGED text /\ UNCHANGED <<next, unsent, up, held, line, printed>>
      /\ UNCHANGED <<broken, client, server, connection>>
      /\ client = "reading" /\ ahead = << >>
  BY DEF FillBuffer
<1>2. TypeOK /\ StreamInv /\ LineInv
  BY DEF EchoInv
<1>3. /\ Len(down) \in Nat /\ Len(ahead) = 0 /\ Len(down) <= Cap /\ Cap \in Nat
      /\ DownAt \in Int /\ HeldAt \in Int /\ ReadAhead \in Nat
      /\ down \in Seq(Byte) /\ DownAt = HeldAt - Len(down) /\ AheadAt = DownAt
  <2>1. /\ Len(down) \in Nat /\ Len(ahead) = 0 /\ Len(down) <= Cap /\ Cap \in Nat
        /\ DownAt \in Int /\ HeldAt \in Int /\ ReadAhead \in Nat /\ down \in Seq(Byte)
    BY <1>1, <1>2, Types, Lengths, EchoAssumption DEF TypeOK
  <2> QED
    BY <2>1 DEF DownAt, AheadAt
<1>4. PICK n \in 1..Least(Len(down), ReadAhead) : ahead' = Take(down, n) /\ down' = Drop(down, n)
  BY DEF FillBuffer
<1>5. n \in Nat /\ n <= Len(down) /\ n <= ReadAhead
  BY <1>3, <1>4 DEF Least
<1>6. /\ ahead' \in Seq(Byte) /\ Len(ahead') = n
      /\ down' \in Seq(Byte) /\ Len(down') = Len(down) - n
      /\ Run(down, DownAt) => Run(ahead', DownAt) /\ Run(down', DownAt + n)
  BY <1>3, <1>4, <1>5, SplitRun
<1>7. TypeOK'
  <2>1. /\ unsent' \in Seq(Byte) /\ up' \in Seq(Byte) /\ held' \in Seq(Byte)
        /\ line' \in Seq(Byte) /\ printed' \in Seq(Byte)
    BY <1>1, <1>2, Types
  <2>2. Len(down') <= Cap /\ Len(ahead') <= ReadAhead
    BY <1>3, <1>5, <1>6
  <2>3. /\ next' \in 1..(size + 2) /\ Len(up') <= Cap /\ Len(held') <= Block
        /\ program \in {"c", "cxx"} => Len(line') < LineMax
        /\ client' \in {"input", "sending", "reading", "done", "premature", "failed", "killed"}
        /\ server' \in {"recv", "send", "closed", "failed", "killed"}
        /\ broken' \in BOOLEAN /\ connection' \in {"open", "reset"}
    BY <1>1, <1>2 DEF TypeOK
  <2> QED
    BY <1>1, <1>2, <1>6, <2>1, <2>2, <2>3, TypesFollow
<1>8. (Talking' <=> Talking) /\ ResetInv' /\ FalseAlarmByEmptyLine' /\ ServerOutlivesClient'
  BY <1>1, EndStays
<1>9. /\ UnsentAt' = UnsentAt /\ UpAt' = UpAt /\ HeldAt' = HeldAt
      /\ DownAt' = DownAt + n /\ AheadAt' = DownAt /\ LineAt' = LineAt
  <2>1. UnsentAt' = UnsentAt /\ UpAt' = UpAt /\ HeldAt' = HeldAt
    BY <1>1 DEF UnsentAt, UpAt, HeldAt
  <2>2. DownAt' = DownAt + n
    BY <1>3, <1>5, <1>6, <2>1 DEF DownAt
  <2>3. AheadAt' = DownAt
    BY <1>3, <1>5, <1>6, <2>2 DEF AheadAt
  <2> QED
    BY <1>1, <1>3, <2>1, <2>2, <2>3 DEF LineAt
<1>10. StreamInv'
  <2> SUFFICES ASSUME Talking PROVE StreamInv'
    BY <1>8 DEF StreamInv
  <2> QED
    BY <1>1, <1>2, <1>6, <1>9 DEF StreamInv, Run
<1>11. LineInv'
  BY <1>1, <1>2, <1>8, <1>9, LineGoesOn
<1> QED
  BY <1>7, <1>8, <1>10, <1>11 DEF EchoInv


-----------------------------------------------------------------------------
(* The client reads a line.                                                *)

\* The buffer is used up, and the line does not end in it.
LEMMA LineGrows ==
    ASSUME EchoInv, GetLine, LineEnds = {}
    PROVE  EchoInv'
<1>1. /\ UNCHANGED text /\ UNCHANGED <<next, unsent, up, held, down, printed>>
      /\ UNCHANGED <<broken, client, server, connection>>
      /\ client = "reading" /\ line' = line \o ahead /\ ahead' = << >>
  BY DEF GetLine, buffers
<1>2. TypeOK /\ StreamInv /\ LineInv
  BY DEF EchoInv
<1>3. /\ Len(ahead) \in Nat /\ Len(line) \in Nat /\ AheadAt \in Int /\ LineAt \in Int
      /\ line \in Seq(Byte) /\ ahead \in Seq(Byte) /\ DownAt \in Int
      /\ LineMax \in Nat /\ 0 <= ReadAhead
  BY <1>2, Types, Lengths, EchoAssumption
<1>4. AheadAt = LineAt + Len(line) /\ DownAt = AheadAt + Len(ahead)
  BY <1>3 DEF LineAt, AheadAt
<1>5. /\ line' \in Seq(Byte) /\ Len(line') = Len(line) + Len(ahead)
      /\ ahead' \in Seq(Byte) /\ Len(ahead') = 0
      /\ Run(line, LineAt) /\ Run(ahead, AheadAt) => Run(line', LineAt)
  <2> DEFINE a == LineAt
             b == AheadAt
  <2>1. a \in Int /\ b = a + Len(line)
    BY <1>3, <1>4
  <2> HIDE DEF a, b
  <2>2. /\ line \o ahead \in Seq(Byte) /\ Len(line \o ahead) = Len(line) + Len(ahead)
        /\ Run(line, a) /\ Run(ahead, b) => Run(line \o ahead, a)
    BY <1>3, <2>1, ConcatRun
  <2> QED
    BY <1>1, <2>2 DEF a, b
<1>6. program \in {"c", "cxx"} => Len(line') < LineMax
  <2> SUFFICES ASSUME program \in {"c", "cxx"}, Len(line) + Len(ahead) >= LineMax
               PROVE  FALSE
    BY <1>3, <1>5
  <2> DEFINE n == LineMax - Len(line)
  <2>1. Len(line) < LineMax
    BY <1>2 DEF TypeOK
  <2>2. n \in 1..Len(ahead) /\ Len(line) + n = LineMax
    BY <1>3, <2>1
  <2> HIDE DEF n
  <2>3. n \in LineEnds
    BY <2>2 DEF LineEnds
  <2> QED
    BY <2>3
<1>7. TypeOK'
  <2>1. /\ unsent' \in Seq(Byte) /\ up' \in Seq(Byte) /\ held' \in Seq(Byte)
        /\ down' \in Seq(Byte) /\ printed' \in Seq(Byte)
    BY <1>1, <1>2, Types
  <2>2. Len(ahead') <= ReadAhead
    BY <1>3, <1>5
  <2>3. /\ next' \in 1..(size + 2)
        /\ Len(up') <= Cap /\ Len(down') <= Cap /\ Len(held') <= Block
        /\ client' \in {"input", "sending", "reading", "done", "premature", "failed", "killed"}
        /\ server' \in {"recv", "send", "closed", "failed", "killed"}
        /\ broken' \in BOOLEAN /\ connection' \in {"open", "reset"}
    BY <1>1, <1>2 DEF TypeOK
  <2> QED
    BY <1>1, <1>2, <1>5, <1>6, <2>1, <2>2, <2>3, TypesFollow
<1>8. (Talking' <=> Talking) /\ ResetInv' /\ FalseAlarmByEmptyLine' /\ ServerOutlivesClient'
  BY <1>1, EndStays
<1>9. /\ UnsentAt' = UnsentAt /\ UpAt' = UpAt /\ HeldAt' = HeldAt
      /\ DownAt' = DownAt /\ AheadAt' = DownAt /\ LineAt' = LineAt
  <2>1. UnsentAt' = UnsentAt /\ UpAt' = UpAt /\ HeldAt' = HeldAt /\ DownAt' = DownAt
    BY <1>1 DEF UnsentAt, UpAt, HeldAt, DownAt
  <2>2. AheadAt' = DownAt
    BY <1>3, <1>5, <2>1 DEF AheadAt
  <2>3. LineAt' = LineAt
    BY <1>3, <1>4, <1>5, <2>2 DEF LineAt
  <2> QED
    BY <2>1, <2>2, <2>3
<1>10. StreamInv'
  <2> SUFFICES ASSUME Talking PROVE StreamInv'
    BY <1>8 DEF StreamInv
  <2>1. Run(ahead', DownAt)
    BY <1>1 DEF Run
  <2> QED
    BY <1>1, <1>2, <1>5, <1>9, <2>1 DEF StreamInv, Run
<1>11. LineInv'
  BY <1>1, <1>2, <1>8, <1>9, LineGoesOn
<1> QED
  BY <1>7, <1>8, <1>10, <1>11 DEF EchoInv

\* The line ends in the buffer where what was sent ended, and nothing is behind
\* it.
LEMMA LineEndsInStep ==
    ASSUME EchoInv, Talking, client = "reading", NEW n, n \in LineEnds
    PROVE  /\ n \in 1..Len(ahead) /\ Len(ahead) = n
           /\ unsent = << >> /\ up = << >> /\ held = << >> /\ down = << >>
           /\ AheadAt + n = next /\ LineAt + Len(line) + n = next
           /\ OneLine(LineAt, next - 1)
<1>1. TypeOK /\ StreamInv /\ LineInv
  BY DEF EchoInv
<1>2. /\ n \in 1..Len(ahead)
      /\ IsNewline(ahead[n]) \/ (program \in {"c", "cxx"} /\ Len(line) + n = LineMax)
  BY DEF LineEnds
<1>3. OneLine(LineAt, next - 1) /\ ahead[n] = AheadAt + n - 1
  BY <1>1, <1>2 DEF LineInv, StreamInv, Run
<1>4. /\ Len(unsent) \in Nat /\ Len(up) \in Nat /\ Len(held) \in Nat
      /\ Len(down) \in Nat /\ Len(ahead) \in Nat /\ Len(line) \in Nat
      /\ next \in Nat /\ LineAt \in Int /\ AheadAt \in Int /\ LineMax \in Nat
  BY <1>1, Types, Lengths, EchoAssumption
<1>5. /\ LineAt = AheadAt - Len(line)
      /\ AheadAt = next - Len(unsent) - Len(up) - Len(held) - Len(down) - Len(ahead)
  BY DEF UnsentAt, UpAt, HeldAt, DownAt, AheadAt, LineAt
<1>6. AheadAt + n = next
  <2> DEFINE p == AheadAt + n - 1
  <2>1. p \in LineAt..(next - 1)
    BY <1>2, <1>4, <1>5
  <2>2. CASE IsNewline(ahead[n])
    <3>1. IsNewline(p)
      BY <1>3, <2>2
    <3>2. \A b \in LineAt..(next - 1 - 1) : ~ IsNewline(b)
      BY <1>3 DEF OneLine
    <3> HIDE DEF p
    <3>3. p = next - 1
      BY <1>4, <2>1, <3>1, <3>2
    <3> QED
      BY <1>2, <1>4, <3>3 DEF p
  <2>3. CASE program \in {"c", "cxx"} /\ Len(line) + n = LineMax
    <3>1. next - 1 + 1 - LineAt <= LineMax
      BY <1>3, <2>3 DEF OneLine
    <3> QED
      BY <1>2, <1>4, <1>5, <2>1, <2>3, <3>1
  <2> QED
    BY <1>2, <2>2, <2>3
<1>7. /\ Len(ahead) = n /\ LineAt + Len(line) + n = next
      /\ Len(unsent) = 0 /\ Len(up) = 0 /\ Len(held) = 0 /\ Len(down) = 0
  BY <1>2, <1>4, <1>5, <1>6
<1>8. unsent = << >> /\ up = << >> /\ held = << >> /\ down = << >>
  BY <1>1, <1>7, Types, EmptyRun
<1> QED
  BY <1>2, <1>3, <1>6, <1>7, <1>8


\* The line is printed, or an empty one is taken for the end of the stream.
LEMMA LineIsRead ==
    ASSUME EchoInv, GetLine, LineEnds # {}
    PROVE  EchoInv'
<1> DEFINE n == Min(LineEnds)
<1>1. /\ UNCHANGED text /\ UNCHANGED <<next, unsent, up, held, down>>
      /\ UNCHANGED <<broken, server, connection>>
      /\ client = "reading" /\ line' = << >> /\ ahead' = Drop(ahead, n)
      /\ \/ LooksEmpty(n) /\ client' = "premature" /\ printed' = printed
         \/ ~ LooksEmpty(n) /\ client' = "input" /\ printed' = printed \o (line \o Take(ahead, n))
  BY DEF GetLine, buffers, PrintLine
<1>2. TypeOK /\ StreamInv /\ LineInv
  BY DEF EchoInv
<1>3. n \in LineEnds
  <2>1. LineEnds \subseteq Nat
    <3>1. Len(ahead) \in Nat
      BY <1>2, Lengths
    <3> QED
      BY <3>1 DEF LineEnds
  <2> QED
    BY <2>1, LeastElement
<1> HIDE DEF n
<1>4. /\ Len(ahead) \in Nat /\ Len(line) \in Nat /\ Len(printed) \in Nat
      /\ AheadAt \in Int /\ LineAt \in Int /\ next \in Nat
      /\ line \in Seq(Byte) /\ ahead \in Seq(Byte) /\ printed \in Seq(Byte)
      /\ Len(ahead) <= ReadAhead /\ ReadAhead \in Nat /\ LineMax \in Nat \ {0}
  BY <1>2, Types, Lengths, EchoAssumption DEF TypeOK
<1>5. n \in Nat /\ n <= Len(ahead)
  BY <1>3, <1>4 DEF LineEnds
<1>6. /\ Take(ahead, n) \in Seq(Byte) /\ Len(Take(ahead, n)) = n
      /\ ahead' \in Seq(Byte) /\ Len(ahead') = Len(ahead) - n
      /\ Run(ahead, AheadAt) => Run(Take(ahead, n), AheadAt)
  <2> DEFINE a == AheadAt
  <2>1. a \in Int
    BY <1>4
  <2> HIDE DEF a
  <2>2. /\ Take(ahead, n) \in Seq(Byte) /\ Len(Take(ahead, n)) = n
        /\ Drop(ahead, n) \in Seq(Byte) /\ Len(Drop(ahead, n)) = Len(ahead) - n
        /\ Run(ahead, a) => Run(Take(ahead, n), a)
    BY <1>4, <1>5, <2>1, SplitRun
  <2> QED
    BY <1>1, <2>2 DEF a
<1>7. /\ line' \in Seq(Byte) /\ Len(line') = 0
  BY <1>1
<1>8. /\ line \o Take(ahead, n) \in Seq(Byte) /\ Len(line \o Take(ahead, n)) = Len(line) + n
      /\ (Run(line, LineAt) /\ Run(ahead, AheadAt) /\ AheadAt = LineAt + Len(line))
         => Run(line \o Take(ahead, n), LineAt)
  <2> DEFINE a == LineAt
             t == Take(ahead, n)
  <2>1. a \in Int /\ t \in Seq(Byte) /\ Len(t) = n
    BY <1>4, <1>6
  <2> HIDE DEF a, t
  <2>2. /\ line \o t \in Seq(Byte) /\ Len(line \o t) = Len(line) + Len(t)
        /\ Run(line, a) /\ Run(t, a + Len(line)) => Run(line \o t, a)
    BY <1>4, <2>1, ConcatRun
  <2> QED
    BY <1>6, <2>1, <2>2 DEF a, t
<1>9. printed' \in Seq(Byte)
  <2> DEFINE u == line \o Take(ahead, n)
  <2>1. u \in Seq(Byte) /\ (printed' = printed \/ printed' = printed \o u)
    BY <1>1, <1>8
  <2> HIDE DEF u
  <2>2. printed \o u \in Seq(Byte)
    BY <1>4, <2>1, ConcatProperties, Zenon
  <2> QED
    BY <1>4, <2>1, <2>2, Zenon
<1>10. TypeOK'
  <2>1. /\ unsent' \in Seq(Byte) /\ up' \in Seq(Byte) /\ held' \in Seq(Byte) /\ down' \in Seq(Byte)
    BY <1>1, <1>2, Types
  <2>2. Len(ahead') <= ReadAhead /\ Len(line') < LineMax
    BY <1>4, <1>5, <1>6, <1>7
  <2>3. /\ next' \in 1..(size + 2)
        /\ Len(up') <= Cap /\ Len(down') <= Cap /\ Len(held') <= Block
        /\ client' \in {"input", "sending", "reading", "done", "premature", "failed", "killed"}
        /\ server' \in {"recv", "send", "closed", "failed", "killed"}
        /\ broken' \in BOOLEAN /\ connection' \in {"open", "reset"}
    BY <1>1, <1>2 DEF TypeOK
  <2> QED
    BY <1>1, <1>2, <1>6, <1>7, <1>9, <2>1, <2>2, <2>3, TypesFollow
\* Here the next line of the input begins.
<1>11. ASSUME Talking
       PROVE  /\ Len(ahead) = n /\ unsent = << >> /\ up = << >> /\ held = << >> /\ down = << >>
              /\ AheadAt + n = next /\ LineAt + Len(line) + n = next
              /\ OneLine(LineAt, next - 1) /\ n \in 1..Len(ahead)
  BY <1>1, <1>3, <1>11, LineEndsInStep
<1>12. CASE client' = "input"
  <2>1. (Talking' <=> Talking) /\ ResetInv' /\ FalseAlarmByEmptyLine' /\ ServerOutlivesClient'
    BY <1>1, <1>12, EndStays
  <2> SUFFICES ASSUME Talking PROVE StreamInv' /\ LineInv'
    BY <1>10, <2>1 DEF EchoInv, StreamInv, LineInv
  <2>3. /\ UnsentAt' = next /\ UpAt' = next /\ HeldAt' = next
        /\ DownAt' = next /\ AheadAt' = next /\ LineAt' = next
    <3>1. /\ Len(unsent') = 0 /\ Len(up') = 0 /\ Len(held') = 0 /\ Len(down') = 0
          /\ Len(ahead') = 0 /\ Len(line') = 0 /\ next' = next
      BY <1>1, <1>4, <1>6, <1>7, <1>11
    <3> QED
      BY <1>4, <3>1 DEF UnsentAt, UpAt, HeldAt, DownAt, AheadAt, LineAt
  <2>4. ahead' = << >>
    <3>1. Len(ahead') = 0
      BY <1>4, <1>6, <1>11
    <3> QED
      BY <1>6, <3>1, EmptyRun
  <2>5. Run(printed', 1) /\ Len(printed') + 1 = next
    <3> DEFINE u == line \o Take(ahead, n)
    <3>1. AheadAt = LineAt + Len(line)
      BY <1>4, <1>5, <1>11
    <3>2. /\ u \in Seq(Byte) /\ Len(u) = Len(line) + n /\ Run(u, LineAt)
          /\ Run(printed, 1) /\ LineAt = 1 + Len(printed)
      BY <1>2, <1>4, <1>8, <3>1 DEF StreamInv
    <3> HIDE DEF u
    <3>3. \A a \in Int : Run(printed, a) /\ Run(u, a + Len(printed)) => Run(printed \o u, a)
      BY <1>4, <3>2, ConcatRun
    <3>4. printed \o u \in Seq(Byte) /\ Len(printed \o u) = Len(printed) + Len(u)
      <4>1. 0 \in Int
        OBVIOUS
      <4> QED
        BY <1>4, <3>2, <4>1, ConcatRun
    <3>5. Run(printed \o u, 1)
      BY <3>2, <3>3
    <3>6. Len(printed \o u) + 1 = next
      BY <1>4, <1>5, <1>11, <3>2, <3>4
    <3>7. printed' = printed \o u
      BY <1>1, <1>12 DEF u
    <3> QED
      BY <3>5, <3>6, <3>7
  <2>6. StreamInv'
    <3>1. \A a : /\ Run(unsent', a) /\ Run(up', a) /\ Run(held', a)
                 /\ Run(down', a) /\ Run(ahead', a) /\ Run(line', a)
      BY <1>1, <1>11, <2>4 DEF Run
    <3>2. held' = << >>
      BY <1>1, <1>11
    <3> QED
      BY <2>3, <2>5, <3>1, <3>2 DEF StreamInv
  <2>7. LineInv'
    <3>1. program = "istream" => IsNewline(next - 1)
      BY <1>11 DEF OneLine
    <3>2. IsNewline(LineAt - 1)' <=> IsNewline(next - 1)
      BY <1>1, <2>3, LinesStay
    <3>3. program' = program
      BY <1>1, TextStays
    <3> QED
      BY <1>1, <1>12, <2>3, <3>1, <3>2, <3>3 DEF LineInv
  <2> QED
    BY <2>6, <2>7
<1>13. CASE client' = "premature"
  <2>1. LooksEmpty(n)
    BY <1>1, <1>13
  <2>2. ~ Talking' /\ ClientGone' /\ (ServerGone' <=> ServerGone)
        /\ program' = program /\ (EmptyLine' <=> EmptyLine)
    BY <1>1, <1>13, TextStays DEF Talking, ClientGone, ServerGone
  <2>3. StreamInv' /\ LineInv' /\ ServerOutlivesClient'
    BY <1>13, <2>2 DEF StreamInv, LineInv, ServerOutlivesClient
  <2>4. ResetInv'
    BY <1>1, <2>2 DEF EchoInv, ResetInv, ClientGone
  \* The empty line is the one that was under way.
  <2>5. ASSUME ~ ServerGone PROVE program = "istream" /\ EmptyLine
    <3>1. program = "istream" /\ Len(line) + n = 1
      BY <2>1 DEF LooksEmpty
    <3>2. Talking
      BY <1>1, <2>5, <3>1 DEF Talking, ServerGone, InStep
    <3>3. LineAt = next - 1 /\ IsNewline(LineAt) /\ LineAt <= size
      <4>1. LineAt = next - 1
        BY <1>4, <1>5, <1>11, <3>1, <3>2
      <4>2. IsNewline(next - 1) /\ LineAt <= size
        BY <1>11, <3>1, <3>2 DEF OneLine
      <4> QED
        BY <4>1, <4>2
    <3>4. LineAt = 1 \/ IsNewline(LineAt - 1)
      BY <1>2, <3>1, <3>2 DEF LineInv
    <3>5. size \in Nat
      BY <1>2, Types
    <3>6. LineAt \in newlines /\ (LineAt = 1 \/ LineAt - 1 \in newlines)
      BY <1>4, <3>3, <3>4, <3>5 DEF IsNewline
    <3> QED
      BY <3>1, <3>6 DEF EmptyLine
  <2>6. FalseAlarmByEmptyLine'
    BY <2>2, <2>5 DEF FalseAlarmByEmptyLine
  <2> QED
    BY <1>10, <2>3, <2>4, <2>6 DEF EchoInv
<1> QED
  BY <1>1, <1>12, <1>13


\* The stream ends only for a client whose server was killed; what it still
\* prints is of no concern.
LEMMA StreamEndsKeeps ==
    ASSUME EchoInv, EndOfStream \/ StaleLine
    PROVE  EchoInv'
<1> DEFINE more == Append(line, size + 1)
<1>1. /\ UNCHANGED text /\ UNCHANGED <<next, unsent, up, held, down, ahead>>
      /\ UNCHANGED <<server, connection>>
      /\ client = "reading" /\ client' \in {"input", "premature", "failed"}
      /\ ServerGone \/ connection = "reset" \/ broken
      /\ printed' = printed \/ printed' = printed \o line \/ printed' = printed \o more
      /\ \/ line' = line \/ line' = << >>
         \/ line' = more /\ (program = "istream" \/ broken)
      /\ broken' = broken \/ (broken' = TRUE /\ program = "istream")
  BY DEF EndOfStream, StaleLine, LineCutShort, PrintLine, buffers
<1>2. TypeOK /\ ResetInv
  BY DEF EchoInv
<1>3. server = "killed" /\ (broken => program = "istream")
  BY <1>1, <1>2 DEF TypeOK, ResetInv, ClientGone, ServerGone
<1>4. /\ line \in Seq(Byte) /\ printed \in Seq(Byte) /\ more \in Seq(Byte)
      /\ LineMax \in Nat \ {0}
  <2>1. size + 1 \in Byte /\ line \in Seq(Byte) /\ printed \in Seq(Byte)
    BY <1>2, Types DEF Byte
  <2> QED
    BY <2>1, EchoAssumption
<1> HIDE DEF more
<1>5. /\ line' \in Seq(Byte)
      /\ program \in {"c", "cxx"} => Len(line') < LineMax
  <2>1. CASE line' = line
    BY <1>2, <1>4, <2>1 DEF TypeOK
  <2>2. CASE line' = << >>
    BY <1>4, <2>2
  <2>3. CASE line' = more /\ (program = "istream" \/ broken)
    BY <1>3, <1>4, <2>3
  <2> QED
    BY <1>1, <2>1, <2>2, <2>3
<1>6. printed' \in Seq(Byte)
  <2>1. printed \o line \in Seq(Byte) /\ printed \o more \in Seq(Byte)
    BY <1>4, ConcatProperties, Zenon
  <2> QED
    BY <1>1, <1>4, <2>1, Zenon
<1>7. TypeOK'
  <2>1. /\ unsent' \in Seq(Byte) /\ up' \in Seq(Byte) /\ held' \in Seq(Byte)
        /\ down' \in Seq(Byte) /\ ahead' \in Seq(Byte)
    BY <1>1, <1>2, Types
  <2>2. /\ next' \in 1..(size + 2)
        /\ Len(up') <= Cap /\ Len(down') <= Cap
        /\ Len(held') <= Block /\ Len(ahead') <= ReadAhead
        /\ client' \in {"input", "sending", "reading", "done", "premature", "failed", "killed"}
        /\ server' \in {"recv", "send", "closed", "failed", "killed"}
        /\ connection' \in {"open", "reset"}
    BY <1>1, <1>2 DEF TypeOK
  <2>3. broken' \in BOOLEAN
    BY <1>1, <1>2 DEF TypeOK
  <2> QED
    BY <1>1, <1>2, <1>5, <1>6, <2>1, <2>2, <2>3, TypesFollow
<1>8. server' = "killed" /\ program' = program
  BY <1>1, <1>3, TextStays
<1>9. ~ Talking' /\ ServerGone'
  BY <1>8 DEF Talking, ServerGone
<1>10. StreamInv' /\ LineInv' /\ FalseAlarmByEmptyLine' /\ ServerOutlivesClient'
  BY <1>8, <1>9 DEF StreamInv, LineInv, FalseAlarmByEmptyLine, ServerOutlivesClient
<1>11. ResetInv'
  BY <1>1, <1>3, <1>8 DEF ResetInv
<1> QED
  BY <1>7, <1>10, <1>11 DEF EchoInv

-----------------------------------------------------------------------------
(* The whole session.                                                      *)

LEMMA NextKeeps == EchoInv /\ [Next]_vars => EchoInv'
<1> SUFFICES ASSUME EchoInv, [Next]_vars PROVE EchoInv'
  OBVIOUS
<1>1. CASE ReadInput
  BY <1>1, ReadInputKeeps
<1>2. CASE InputEnds
  BY <1>2, InputEndsKeeps
<1>3. CASE SendLine
  BY <1>3, SendLineKeeps
<1>4. CASE SendLineFails \/ ClientKilled
  BY <1>4, ClientStopsKeeps
<1>5. CASE FillBuffer
  BY <1>5, FillBufferKeeps
<1>6. CASE GetLine
  BY <1>6, LineGrows, LineIsRead
<1>7. CASE EndOfStream \/ StaleLine
  BY <1>7, StreamEndsKeeps
<1>8. CASE ServerRecv
  BY <1>8, ServerRecvKeeps
<1>9. CASE ServerSend
  BY <1>9, ServerSendKeeps
<1>10. CASE ServerEof \/ ServerFails \/ ServerKilled
  BY <1>10, ServerStopsKeeps
<1>11. CASE Reset
  BY <1>11, ResetKeeps
<1>12. CASE Over \/ UNCHANGED vars
  BY <1>12, NothingHappens DEF Over
<1> QED
  BY <1>1, <1>2, <1>3, <1>4, <1>5, <1>6, <1>7, <1>8, <1>9, <1>10, <1>11, <1>12
     DEF Next, StrCli, StrEcho

\* The bytes under way are always the one line that was sent, in order, each in
\* exactly one place, until a client gives up or somebody is killed.
THEOREM InvariantHolds == Spec => []EchoInv
<1>1. Init => EchoInv
  BY InitInv
<1>2. EchoInv /\ [Next]_vars => EchoInv'
  BY NextKeeps
<1> QED
  BY <1>1, <1>2, PTL DEF Spec

\* No buffer ever holds more than its size, recvline included.
THEOREM TypeCorrect == Spec => []TypeOK
<1>1. EchoInv => TypeOK
  BY DEF EchoInv
<1> QED
  BY <1>1, InvariantHolds, PTL

\* Whatever the sizes of the buffers and however the stream is cut up, a client
\* that turns to its next line has printed what it has sent, byte for byte, and
\* nothing of the answer is left behind to be taken for the next one.
THEOREM AnswersInStep == Spec => []AnswerBeforeNextLine
<1>1. EchoInv => AnswerBeforeNextLine
  <2> SUFFICES ASSUME EchoInv, InStep, client \in {"input", "done"},
                      server \notin {"failed", "killed"}
               PROVE  /\ printed = Bytes(1, next - 1)
                      /\ up = << >> /\ held = << >> /\ down = << >>
                      /\ ahead = << >> /\ line = << >>
    BY DEF AnswerBeforeNextLine
  <2>1. Talking
    BY DEF Talking
  <2> QED
    BY <2>1, AllEmpty
<1> QED
  BY <1>1, InvariantHolds, PTL

\* A client that says the server terminated too early while it is there is the
\* istream client, and the user typed an empty line.
THEOREM FalseAlarms == Spec => []FalseAlarmByEmptyLine
<1>1. EchoInv => FalseAlarmByEmptyLine
  BY DEF EchoInv
<1> QED
  BY <1>1, InvariantHolds, PTL

\* The end of the input never makes the server fail: the connection is not reset
\* under it, as no byte is left that nobody reads.
THEOREM ServerSurvives == Spec => []ServerOutlivesClient
<1>1. EchoInv => ServerOutlivesClient
  BY DEF EchoInv
<1> QED
  BY <1>1, InvariantHolds, PTL

-----------------------------------------------------------------------------
(* Waiting.                                                                *)

LEMMA WaitStays ==
    ASSUME WaitInv, UNCHANGED text, UNCHANGED line, Talking' => Talking,
           client' = "sending" => unsent' # << >> \/ (client = "sending" /\ unsent' = unsent),
           server' = "send" => held' # << >> \/ (server = "send" /\ held' = held)
    PROVE  WaitInv'
<1> SUFFICES ASSUME Talking' PROVE WaitInv'
  BY DEF WaitInv
<1>1. /\ client = "sending" => unsent # << >>
      /\ server = "send" => held # << >>
      /\ \A i \in 1..Len(line) : ~ IsNewline(line[i])
  BY DEF WaitInv
<1>2. \A i \in 1..Len(line) : ~ IsNewline(line[i])'
  BY <1>1, TextStays DEF IsNewline
<1> QED
  BY <1>1, <1>2 DEF WaitInv

\* Nobody starts to talk again.
LEMMA NobodyReturns ==
    ASSUME UNCHANGED text,
           client' # client => client \in {"input", "sending", "reading"},
           server' # server => server \in {"recv", "send"}
    PROVE  Talking' => Talking
BY TextStays DEF Talking

\* What readline() takes without ending the line has no newline.
LEMMA NoNewlinePassed ==
    ASSUME TypeOK, WaitInv, GetLine, Talking
    PROVE  \A i \in 1..Len(line') : ~ IsNewline(line'[i])
<1>1. \/ LineEnds = {} /\ line' = line \o ahead
      \/ line' = << >>
  BY DEF GetLine
<1>2. CASE line' = << >>
  BY <1>2
<1>3. CASE LineEnds = {} /\ line' = line \o ahead
  <2>1. \A i \in 1..Len(line) : ~ IsNewline(line[i])
    BY DEF WaitInv
  <2>2. \A i \in 1..Len(ahead) : ~ IsNewline(ahead[i])
    BY <1>3 DEF LineEnds
  <2>3. line \in Seq(Byte) /\ ahead \in Seq(Byte)
    BY Types
  <2>4. /\ Len(line) \in Nat /\ Len(ahead) \in Nat
        /\ Len(line') = Len(line) + Len(ahead)
        /\ \A i \in 1..(Len(line) + Len(ahead)) :
              line'[i] = IF i <= Len(line) THEN line[i] ELSE ahead[i - Len(line)]
    BY <1>3, <2>3, ConcatProperties
  <2> TAKE i \in 1..Len(line')
  <2>5. CASE i <= Len(line)
    BY <2>1, <2>4, <2>5
  <2>6. CASE i > Len(line)
    <3>1. i - Len(line) \in 1..Len(ahead) /\ line'[i] = ahead[i - Len(line)]
      BY <2>4, <2>6
    <3> QED
      BY <2>2, <3>1
  <2> QED
    BY <2>4, <2>5, <2>6
<1> QED
  BY <1>1, <1>2, <1>3

LEMMA WaitKeeps == EchoInv /\ WaitInv /\ [Next]_vars => WaitInv'
<1> SUFFICES ASSUME EchoInv, WaitInv, [Next]_vars PROVE WaitInv'
  OBVIOUS
<1>0. TypeOK /\ ResetInv
  BY DEF EchoInv
<1>1. CASE ReadInput
  <2>1. UNCHANGED text /\ UNCHANGED <<line, held, server>> /\ client = "input"
        /\ next <= size /\ unsent' = Bytes(next, SendlineEnd)
    BY <1>1 DEF ReadInput, reading
  <2>2. unsent' # << >>
    <3> DEFINE e == SendlineEnd
    <3>1. next \in Nat /\ 1 <= next /\ size \in Nat /\ e \in next..(size + 1)
      BY <1>0, <2>1, SendlineEndIsEnd, Types
    <3> HIDE DEF e
    <3>2. e \in Nat /\ next <= e + 1 /\ e + 1 - next # 0
      BY <3>1
    <3>3. Len(Bytes(next, e)) = e + 1 - next
      BY <3>1, <3>2, BytesRun
    <3>4. Len(<< >>) = 0
      OBVIOUS
    <3> QED
      BY <2>1, <3>2, <3>3, <3>4, Zenon DEF e
  <2>3. Talking' => Talking
    BY <2>1, NobodyReturns
  <2> QED
    BY <2>1, <2>2, <2>3, WaitStays
<1>2. CASE SendLine
  <2>1. UNCHANGED text /\ UNCHANGED <<line, held, server>> /\ client = "sending"
        /\ client' = IF unsent' = << >> THEN "reading" ELSE "sending"
    BY <1>2 DEF SendLine, reading
  <2>2. Talking' => Talking
    BY <2>1, NobodyReturns
  <2> QED
    BY <2>1, <2>2, WaitStays
<1>3. CASE ServerRecv
  <2>1. UNCHANGED text /\ UNCHANGED <<line, unsent, client>> /\ server = "recv"
    BY <1>3 DEF ServerRecv, reading
  <2>2. PICK n \in 1..Least(Len(up), Block) : held' = Take(up, n)
    BY <1>3 DEF ServerRecv
  <2>3. Len(up) \in Nat /\ up \in Seq(Byte) /\ Block \in Nat
    BY <1>0, Types, Lengths, EchoAssumption
  <2>4. n \in Nat /\ n <= Len(up) /\ n # 0
    BY <2>2, <2>3 DEF Least
  <2>5. \A a \in Int : Len(held') = n
    BY <2>2, <2>3, <2>4, SplitRun
  <2>6. 0 \in Int /\ Len(<< >>) = 0
    OBVIOUS
  <2>7. held' # << >>
    BY <2>4, <2>5, <2>6, Zenon
  <2>8. Talking' => Talking
    BY <2>1, NobodyReturns
  <2> QED
    BY <2>1, <2>7, <2>8, WaitStays
<1>4. CASE ServerSend
  <2>1. UNCHANGED text /\ UNCHANGED <<line, unsent, client>> /\ server = "send"
        /\ server' = IF held' = << >> THEN "recv" ELSE "send"
    BY <1>4 DEF ServerSend, reading
  <2>2. Talking' => Talking
    BY <2>1, NobodyReturns
  <2> QED
    BY <2>1, <2>2, WaitStays
<1>5. CASE GetLine
  <2>1. UNCHANGED text /\ UNCHANGED <<held, unsent, server>>
        /\ client = "reading" /\ client' \in {"input", "reading", "premature"}
    BY <1>5 DEF GetLine, buffers, PrintLine
  <2>2. Talking' => Talking
    BY <2>1, NobodyReturns
  <2>3. Talking => \A i \in 1..Len(line') : ~ IsNewline(line'[i])
    BY <1>0, <1>5, NoNewlinePassed
  <2>4. Talking => \A i \in 1..Len(line') : ~ IsNewline(line[i])'
    BY <2>1, <2>3, TextStays DEF IsNewline
  <2> QED
    BY <2>1, <2>2, <2>4 DEF WaitInv
\* Here the server has been killed.
<1>6. CASE EndOfStream \/ StaleLine
  <2>1. UNCHANGED server /\ client = "reading"
        /\ (ServerGone \/ connection = "reset" \/ broken)
    BY <1>6 DEF EndOfStream, StaleLine
  <2>2. server' = "killed"
    BY <1>0, <2>1 DEF TypeOK, ResetInv, ClientGone, ServerGone
  <2> QED
    BY <2>2 DEF WaitInv, Talking
<1>7. CASE \/ InputEnds \/ SendLineFails \/ FillBuffer \/ ClientKilled \/ Reset
           \/ ServerEof \/ ServerFails \/ ServerKilled \/ Over \/ UNCHANGED vars
  <2>1. UNCHANGED text /\ UNCHANGED <<line, unsent, held>>
    BY <1>7 DEF InputEnds, SendLineFails, FillBuffer, ClientKilled, Reset, ServerEof,
       ServerFails, ServerKilled, Over, vars, buffers, reading
  <2>2. /\ client' = client \/ client' \in {"done", "failed", "killed"}
        /\ client' # client => client \in {"input", "sending", "reading"} \/ client' = "killed"
        /\ server' = server \/ server' \in {"closed", "failed", "killed"}
        /\ server' # server => server \in {"recv", "send"} \/ server' = "killed"
    BY <1>7 DEF InputEnds, SendLineFails, FillBuffer, ClientKilled, Reset, ServerEof,
       ServerFails, ServerKilled, Over, vars
  <2>3. Talking' => Talking
    BY <2>1, <2>2, TextStays DEF Talking
  <2> QED
    BY <2>1, <2>2, <2>3, WaitStays
<1> QED
  BY <1>1, <1>2, <1>3, <1>4, <1>5, <1>6, <1>7 DEF Next, StrCli, StrEcho

LEMMA WaitHolds == Spec => [](EchoInv /\ WaitInv)
<1>1. Init => WaitInv
  BY DEF Init, WaitInv
<1>2. EchoInv /\ WaitInv /\ [Next]_vars => WaitInv'
  BY WaitKeeps
<1> QED
  BY <1>1, <1>2, InvariantHolds, PTL DEF Spec

\* The client has read all there is: its line is one that never ends.
LEMMA ReaderWaits ==
    ASSUME EchoInv, WaitInv, Talking, client = "reading", server = "recv",
           up = << >>, down = << >>, ahead = << >>
    PROVE  ~ LineIsAnswered
<1> DEFINE i == LineAt
           j == next - 1
<1>1. TypeOK /\ StreamInv /\ LineInv
  BY DEF EchoInv
<1>2. unsent = << >> /\ held = << >> /\ OneLine(i, j) /\ Run(line, i) /\ Len(printed) + 1 = i
  BY <1>1 DEF LineInv, StreamInv
<1>3. /\ Len(line) \in Nat /\ i \in Int /\ next \in Nat /\ size \in Nat /\ Len(printed) \in Nat
      /\ newlines \subseteq 1..size /\ LineMax \in Nat \ {0}
      /\ program \in {"c", "cxx"} => Len(line) < LineMax
  BY <1>1, Types, Lengths, EchoAssumption DEF TypeOK
<1>4. i = next - Len(line)
  <2>1. /\ Len(unsent) = 0 /\ Len(up) = 0 /\ Len(held) = 0 /\ Len(down) = 0 /\ Len(ahead) = 0
    BY <1>2
  <2> QED
    BY <1>3, <2>1 DEF UnsentAt, UpAt, HeldAt, DownAt, AheadAt, LineAt
<1> HIDE DEF i
<1>5. i <= j /\ i <= size /\ 1 <= i
  BY <1>2, <1>3 DEF OneLine
<1>6. ~ IsNewline(j)
  <2>1. Len(line) \in 1..Len(line) /\ line[Len(line)] = i + Len(line) - 1
    BY <1>2, <1>3, <1>4, <1>5 DEF Run
  <2>2. line[Len(line)] = j
    BY <1>3, <1>4, <2>1
  <2> QED
    BY <2>1, <2>2 DEF WaitInv
<1>7. program \in {"c", "py"} /\ j = size
  <2>1. \/ program \in {"c", "py"} /\ j = size
        \/ program = "c" /\ j + 1 - i = LineMax
    BY <1>2, <1>6 DEF OneLine
  <2> QED
    BY <1>3, <1>4, <2>1
<1> QED
  BY <1>3, <1>5, <1>6, <1>7 DEF LineIsAnswered, IsNewline

\* Both directions are full of one line, and there is more of it on both sides.
LEMMA SendersWait ==
    ASSUME EchoInv, WaitInv, Talking, client = "sending", server = "send",
           Len(up) = Cap, Len(down) = Cap
    PROVE  ~ LineFits
<1> DEFINE i == LineAt
           j == next - 1
           n == 2 * Cap + 1
<1>1. TypeOK /\ StreamInv /\ LineInv
  BY DEF EchoInv
<1>2. /\ OneLine(i, j) /\ Len(printed) + 1 = i /\ ahead = << >> /\ line = << >>
      /\ unsent # << >> /\ held # << >>
  BY <1>1 DEF LineInv, StreamInv, WaitInv
<1>3. /\ i \in Int /\ next \in Nat /\ size \in Nat /\ Len(printed) \in Nat /\ Cap \in Nat
      /\ next <= size + 2 /\ newlines \subseteq 1..size
      /\ Len(unsent) \in Nat /\ Len(held) \in Nat
  BY <1>1, Types, Lengths, EchoAssumption
<1>4. Len(unsent) > 0 /\ Len(held) > 0
  <2>1. Len(unsent) # 0 /\ Len(held) # 0
    BY <1>1, <1>2, Types, EmptyRun
  <2> QED
    BY <1>3, <2>1
<1>5. i = next - Len(unsent) - Cap - Len(held) - Cap
  <2>1. Len(ahead) = 0 /\ Len(line) = 0
    BY <1>2
  <2> QED
    BY <1>3, <2>1 DEF UnsentAt, UpAt, HeldAt, DownAt, AheadAt, LineAt
<1> HIDE DEF i
<1>6. n \in Nat /\ 1 <= i /\ i + n - 1 <= j - 1 /\ j <= size + 1
  BY <1>2, <1>3, <1>4, <1>5
<1> HIDE DEF n
<1>7. i \in 1..(size + 1 - n)
  BY <1>3, <1>6
<1>8. \A b \in i..(i + n - 1) : b \notin newlines
  <2> TAKE b \in i..(i + n - 1)
  <2>1. b \in i..(j - 1)
    BY <1>3, <1>6
  <2> QED
    BY <1>2, <2>1 DEF OneLine, IsNewline
<1>9. LongerLine(n)
  BY <1>7, <1>8 DEF LongerLine
<1> QED
  BY <1>9 DEF LineFits, n

\* Client and server do not block each other unless the user's line forces them
\* to: for buffers and lines of any length, and however the stream is cut up.
THEOREM NoDeadlock == Spec => []NoMutualWait
<1>1. EchoInv /\ WaitInv => NoMutualWait
  <2> SUFFICES ASSUME EchoInv, WaitInv, InStep, EachWaits
               PROVE  ~ (LineIsAnswered /\ LineFits)
    BY DEF NoMutualWait
  <2>1. Talking
    BY DEF EachWaits, Talking
  <2> QED
    BY <2>1, ReaderWaits, SendersWait DEF EachWaits
<1> QED
  BY <1>1, WaitHolds, PTL

=============================================================================
