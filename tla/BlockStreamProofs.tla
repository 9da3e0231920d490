------------------------- MODULE BlockStreamProofs -------------------------
(***************************************************************************)
(* Machine-checked proofs about BlockStream, for every list of blocks,     *)
(* header size, modulus and buffer capacity.                               *)
(***************************************************************************)
EXTENDS BlockStream, TLAPS

USE DEF Parts

-----------------------------------------------------------------------------
(* Sequences: chunks of the stream.                                        *)

\* A chunk handed to the kernel is a sequence of its length.
LEMMA ChunkIsSeq ==
    ASSUME NEW S, NEW m \in Nat, NEW chunk \in [1..m -> S]
    PROVE  chunk \in Seq(S) /\ Len(chunk) = m
OBVIOUS

\* The stream with a chunk behind it.
Extended(s, chunk) == s \o chunk

\* Appending a chunk keeps what was there and adds the chunk behind it.
LEMMA AppendChunk ==
    ASSUME NEW S, NEW s \in Seq(S), NEW m \in Nat, NEW chunk \in [1..m -> S]
    PROVE  /\ Extended(s, chunk) \in Seq(S)
           /\ Len(Extended(s, chunk)) = Len(s) + m
           /\ \A i \in 1..Len(s) : Extended(s, chunk)[i] = s[i]
           /\ \A j \in (Len(s) + 1)..(Len(s) + m) : Extended(s, chunk)[j] = chunk[j - Len(s)]
<1>1. chunk \in Seq(S) /\ Len(chunk) = m
  BY ChunkIsSeq
<1> QED
  BY <1>1 DEF Extended

\* The same of the stream.
LEMMA WireExtends ==
    ASSUME wire \in Seq(Byte), NEW m \in Nat, NEW chunk \in [1..m -> Byte],
           wire' = Extended(wire, chunk)
    PROVE  /\ wire' \in Seq(Byte)
           /\ Len(wire') = Len(wire) + m
           /\ \A i \in 1..Len(wire) : wire'[i] = wire[i]
           /\ \A j \in (Len(wire) + 1)..(Len(wire) + m) :
                 wire'[j] = chunk[j - Len(wire)]
BY AppendChunk

\* What m bytes of frame b behind byte n of it are.
LEMMA ChunkBytes ==
    ASSUME NEW b \in Nat \ {0}, NEW n \in Nat, NEW m \in Nat
    PROVE  /\ Chunk(b, n, m) \in [1..m -> Byte]
           /\ \A i \in 1..m : Chunk(b, n, m)[i] = <<b, n + i>>
BY DEF Byte, Chunk

\* Appending an element keeps what was there.
LEMMA AppendElement ==
    ASSUME NEW S, NEW s \in Seq(S), NEW x \in S
    PROVE  /\ Append(s, x) \in Seq(S)
           /\ Len(Append(s, x)) = Len(s) + 1
           /\ \A i \in 1..Len(s) : Append(s, x)[i] = s[i]
           /\ Append(s, x)[Len(s) + 1] = x
OBVIOUS

\* A segment of a sequence that agrees with f on every position is f.
LEMMA SegmentIs ==
    ASSUME NEW S, NEW s \in Seq(S), NEW m \in Nat, NEW n \in Nat,
           m + n <= Len(s), NEW f \in [1..n -> S],
           \A i \in 1..n : s[m + i] = f[i]
    PROVE  SubSeq(s, m + 1, m + n) = f
<1>1. SubSeq(s, m + 1, m + n) = [i \in 1..n |-> s[m + i]]
  BY SMT
<1> QED
  BY <1>1

-----------------------------------------------------------------------------
(* Type correctness, for all three languages.                              *)

\* The receiver's variables keep their types when the client extends the stream.
LEMMA ReceiverFrame ==
    ASSUME ReceiverTypeOK, Len(wire) \in Nat, Len(wire') \in Nat,
           Len(wire') >= Len(wire), UNCHANGED receiverVars
    PROVE  ReceiverTypeOK'
BY DEF ReceiverTypeOK, receiverVars

\* The client's variables keep their types in a step of the server.
LEMMA SenderFrame ==
    ASSUME SenderTypeOK, UNCHANGED <<blocks, senderVars>>
    PROVE  SenderTypeOK'
BY DEF SenderTypeOK, senderVars, FrameLen

\* Frame lengths are lengths.
LEMMA FrameLenType ==
    ASSUME SenderTypeOK
    PROVE  /\ HdrSize \in Nat \ {0}
           /\ \A b \in 1..Len(blocks) : /\ blocks[b] \in Nat
                                        /\ FrameLen(b) \in Nat
                                        /\ FrameLen(b) >= HdrSize
<1>1. HdrSize \in Nat \ {0}
  BY BlockStreamAssumption
<1>2. blocks \in Seq(Nat)
  BY DEF SenderTypeOK
<1> QED
  BY <1>1, <1>2 DEF FrameLen

\* On to the next part, block or Close: off, k and start stay within bounds.
LEMMA NextPartType ==
    ASSUME SenderTypeOK, spc \in Parts, NextPart, UNCHANGED <<blocks, wire>>
    PROVE  SenderTypeOK'
<1>1. /\ HdrSize \in Nat
      /\ \A b \in 1..Len(blocks) : FrameLen(b) \in Nat /\ FrameLen(b) >= HdrSize
  BY FrameLenType
<1>2. \A b : FrameLen(b)' = FrameLen(b)
  BY DEF FrameLen
<1>3. Len(wire) \in Nat
  BY DEF SenderTypeOK
<1>4. CASE spc = "hdr" /\ spc' = "body" /\ off' = HdrSize /\ UNCHANGED <<k, start>>
  BY <1>1, <1>2, <1>4 DEF NextPart, SenderTypeOK
<1>5. CASE /\ spc = "body" /\ k < Len(blocks) /\ spc' = "hdr" /\ k' = k + 1
           /\ off' = 0 /\ start' = Append(start, Len(wire))
  BY <1>1, <1>2, <1>3, <1>5 DEF NextPart, SenderTypeOK
<1>6. CASE spc' = "done" /\ UNCHANGED <<k, off, start>>
  BY <1>1, <1>2, <1>6 DEF NextPart, SenderTypeOK
<1> QED
  BY <1>4, <1>5, <1>6 DEF NextPart

\* What the kernel takes are the next bytes of the part being sent.
LEMMA TakenBytes ==
    ASSUME SenderTypeOK, ReceiverTypeOK, KernelTakes
    PROVE  \E m \in Nat \ {0} :
              /\ off + m <= PartEnd /\ off' = off + m /\ taken' = taken + m
              /\ wire' \in Seq(Byte)
              /\ Len(wire') = Len(wire) + m
              /\ \A i \in 1..Len(wire) : wire'[i] = wire[i]
              /\ \A j \in (Len(wire) + 1)..(Len(wire) + m) :
                    wire'[j] = <<k, off + (j - Len(wire))>>
<1>1. /\ k \in Nat \ {0} /\ wire \in Seq(Byte) /\ Len(wire) \in Nat
      /\ off \in Nat /\ PartEnd \in Nat /\ Cap \in Nat /\ rd \in Nat
  <2>1. /\ k \in 1..Len(blocks) /\ Len(blocks) \in Nat
        /\ wire \in Seq(Byte) /\ Len(wire) \in Nat
    BY DEF SenderTypeOK
  <2>2. FrameLen(k) \in Nat /\ HdrSize \in Nat
    BY <2>1, FrameLenType
  <2>3. off \in 0..FrameLen(k) /\ rd \in 0..Len(wire)
    BY DEF SenderTypeOK, ReceiverTypeOK
  <2> QED
    BY <2>1, <2>2, <2>3, BlockStreamAssumption DEF PartEnd
<1>2. PICK m \in 1..MinOf(PartEnd - off, Cap - InFlight) :
         /\ wire' = wire \o Chunk(k, off, m)
         /\ off' = off + m
         /\ taken' = taken + m
  BY DEF KernelTakes
<1>3. m \in Nat \ {0} /\ off + m <= PartEnd
  BY <1>1 DEF MinOf, InFlight
<1> DEFINE tail == Chunk(k, off, m)
<1>4. tail \in [1..m -> Byte] /\ \A i \in 1..m : tail[i] = <<k, off + i>>
  BY <1>1, <1>3, ChunkBytes
<1>5. wire' = Extended(wire, tail)
  BY <1>2 DEF Extended
<1> HIDE DEF tail
<1>6. /\ wire' \in Seq(Byte)
      /\ Len(wire') = Len(wire) + m
      /\ \A i \in 1..Len(wire) : wire'[i] = wire[i]
      /\ \A j \in (Len(wire) + 1)..(Len(wire) + m) : wire'[j] = tail[j - Len(wire)]
  <2>1. wire \in Seq(Byte) /\ m \in Nat /\ tail \in [1..m -> Byte]
    BY <1>1, <1>3, <1>4
  <2> QED
    BY <1>5, <2>1, WireExtends, SMTT(30)
<1>7. /\ wire' \in Seq(Byte)
      /\ Len(wire') = Len(wire) + m
      /\ \A i \in 1..Len(wire) : wire'[i] = wire[i]
      /\ \A j \in (Len(wire) + 1)..(Len(wire) + m) :
            wire'[j] = <<k, off + (j - Len(wire))>>
  <2>1. ASSUME NEW j \in (Len(wire) + 1)..(Len(wire) + m)
        PROVE  tail[j - Len(wire)] = <<k, off + (j - Len(wire))>>
    <3>1. j - Len(wire) \in 1..m
      BY <1>1, <1>3
    <3> QED
      BY <1>4, <3>1
  <2> QED
    BY <1>6, <2>1
<1> QED
  BY <1>2, <1>3, <1>7

\* What HeaderRead stores is a value of an unsigned integer.
LEMMA DecodedType ==
    ASSUME SenderTypeOK, NEW bytes, NEW len \in Decoded(bytes)
    PROVE  len \in 0..(Modulus - 1)
<1>0. HdrSize \in Nat \ {0} /\ Modulus \in Nat \ {0}
  BY BlockStreamAssumption
<1>1. CASE \E b \in 1..Len(blocks) : bytes = [i \in 1..HdrSize |-> <<b, i>>]
  <2>1. PICK b \in 1..Len(blocks) : bytes = [i \in 1..HdrSize |-> <<b, i>>]
    BY <1>1
  <2>2. bytes[1][1] = b
    BY <1>0, <2>1
  <2>3. len = blocks[b] % Modulus
    BY <1>1, <2>2 DEF Decoded
  <2>4. blocks[b] \in Nat
    BY FrameLenType
  <2> QED
    BY <1>0, <2>3, <2>4
<1>2. CASE ~ \E b \in 1..Len(blocks) : bytes = [i \in 1..HdrSize |-> <<b, i>>]
  BY <1>2 DEF Decoded
<1> QED
  BY <1>1, <1>2

\* Who the parties are never changes.
LEMMA PartiesStay == [Next]_vars => UNCHANGED parties
BY DEF Next, Client, Server, SendInterrupted, SendReset, SendEintr, SendRefused,
   SendCutShort, Ended, KernelTakes, SendReturns, ClientKilled, Recv, HeaderRead,
   BodyRead, EndOfStream, ServerKilled, vars

\* Every variable keeps its type in every step of the client, the server and
\* the environment.
THEOREM TypeCorrect == Spec => []TypeOK
<1>1. Init => TypeOK
  <2> SUFFICES ASSUME Init PROVE TypeOK
    OBVIOUS
  <2>0. HdrSize \in Nat \ {0} /\ Modulus \in Nat \ {0}
    BY BlockStreamAssumption
  <2>1. PICK list \in Lists : blocks = Append(list, 0)
    BY DEF Init
  <2>2. list \in Seq(Nat)
    BY BlockStreamAssumption
  <2>3. blocks \in Seq(Nat) /\ Len(blocks) > 0
    BY <2>1, <2>2
  <2>4. FrameLen(1) \in Nat
    BY <2>0, <2>3 DEF FrameLen
  <2> QED
    BY <2>0, <2>3, <2>4 DEF Init, TypeOK, PartiesTypeOK, SenderTypeOK, ReceiverTypeOK
<1>2. TypeOK /\ [Next]_vars => TypeOK'
  <2> SUFFICES ASSUME SenderTypeOK, ReceiverTypeOK, [Next]_vars
               PROVE  SenderTypeOK' /\ ReceiverTypeOK'
    BY PartiesStay DEF TypeOK, PartiesTypeOK, parties
  <2>0. Len(wire) \in Nat /\ Len(blocks) \in Nat /\ k \in 1..Len(blocks)
    BY DEF SenderTypeOK
  <2>a. /\ HdrSize \in Nat
        /\ FrameLen(k) \in Nat /\ FrameLen(k) >= HdrSize
    BY <2>0, FrameLenType
  <2>1. CASE KernelTakes
    <3>1. PICK m \in Nat \ {0} :
             /\ off + m <= PartEnd /\ off' = off + m /\ taken' = taken + m
             /\ wire' \in Seq(Byte)
             /\ Len(wire') = Len(wire) + m
      BY <2>1, TakenBytes
    <3>2. off \in Nat /\ PartEnd \in Nat /\ PartEnd <= FrameLen(k)
      BY <2>a DEF SenderTypeOK, PartEnd
    <3>7. SenderTypeOK'
      <4>1. FrameLen(k)' = FrameLen(k) /\ UNCHANGED <<blocks, spc, k, start>>
        BY <2>1 DEF KernelTakes, FrameLen
      <4>2. off' \in 0..FrameLen(k)
        BY <2>a, <3>1, <3>2
      <4>3. taken' \in Nat
        BY <3>1 DEF SenderTypeOK
      <4> QED
        BY <3>1, <4>1, <4>2, <4>3 DEF SenderTypeOK
    <3>6. ReceiverTypeOK'
      BY <2>0, <2>1, <3>1, ReceiverFrame DEF KernelTakes
    <3> QED
      BY <3>6, <3>7
  <2>2. CASE SendReturns
    BY <2>0, <2>2, NextPartType, ReceiverFrame DEF SendReturns
  <2>3. CASE SendCutShort /\ spc \in Parts
    <3>1. CASE ShortSendC
      BY <2>0, <2>3, <3>1, ReceiverFrame
      DEF SendCutShort, ShortSendC, Fail, SenderTypeOK, FrameLen
    <3>2. CASE ShortSendPy
      BY <2>0, <2>3, <3>2, NextPartType, ReceiverFrame DEF SendCutShort, ShortSendPy
    <3>3. CASE ShortSendCxx
      BY <2>0, <2>3, <3>3, ReceiverFrame
      DEF SendCutShort, ShortSendCxx, SenderTypeOK, FrameLen
    <3> QED
      BY <2>3, <3>1, <3>2, <3>3 DEF SendCutShort
  <2>4. CASE Fail /\ UNCHANGED <<blocks, wire, receiverVars>>
    BY <2>0, <2>4, ReceiverFrame DEF Fail, SenderTypeOK, FrameLen
  <2>5. CASE ClientKilled
    BY <2>0, <2>5, ReceiverFrame DEF ClientKilled, SenderTypeOK, FrameLen
  <2>6. CASE Recv
    <3>1. ReceiverTypeOK'
      BY <2>0, <2>6, BlockStreamAssumption
      DEF Recv, senderVars, ReceiverTypeOK, MinOf, InFlight, Wanted
    <3> QED
      BY <2>6, <3>1, SenderFrame DEF Recv
  <2>7. CASE HeaderRead
    <3>1. PICK len \in Decoded(SubSeq(wire, from + 1, rd)) :
             /\ blockLength' = len
             /\ bufSize' = IF receiver = "c" THEN GrownTo(len) ELSE bufSize
      BY <2>7 DEF HeaderRead
    <3>2. len \in 0..(Modulus - 1)
      BY <3>1, DecodedType
    <3>3. bufSize' \in Nat
      BY <3>1, <3>2, BlockStreamAssumption DEF GrownTo, ReceiverTypeOK
    <3>4. ReceiverTypeOK'
      BY <2>0, <2>7, <3>1, <3>2, <3>3 DEF HeaderRead, ReceiverTypeOK, senderVars
    <3> QED
      BY <2>7, <3>4, SenderFrame DEF HeaderRead
  <2>8. CASE BodyRead
    <3>1. SubSeq(wire, from + 1, rd) \in Seq(Byte)
      BY <2>0 DEF SenderTypeOK, ReceiverTypeOK
    <3>2. got' \in Seq(Seq(Byte))
      <4>1. got' = got \/ got' = Append(got, SubSeq(wire, from + 1, rd))
        BY <2>8 DEF BodyRead
      <4>2. got \in Seq(Seq(Byte))
        BY DEF ReceiverTypeOK
      <4> QED
        BY <3>1, <4>1, <4>2, AppendElement
    <3>3. ReceiverTypeOK'
      BY <2>0, <2>8, <3>2 DEF BodyRead, ReceiverTypeOK, senderVars
    <3> QED
      BY <2>8, <3>3, SenderFrame DEF BodyRead
  <2>9. CASE EndOfStream \/ ServerKilled
    <3>1. ReceiverTypeOK'
      BY <2>9 DEF EndOfStream, ServerKilled, senderVars, ReceiverTypeOK
    <3> QED
      BY <2>9, <3>1, SenderFrame DEF EndOfStream, ServerKilled
  <2>10. CASE UNCHANGED vars
    BY <2>0, <2>10, SenderFrame, ReceiverFrame DEF vars, senderVars, receiverVars
  <2> QED
    BY <2>1, <2>2, <2>3, <2>4, <2>5, <2>6, <2>7, <2>8, <2>9, <2>10
    DEF Next, Client, Server, SendInterrupted, SendReset, SendEintr, SendRefused, Ended
<1> QED
  BY <1>1, <1>2, PTL DEF Spec, TypeOK

-----------------------------------------------------------------------------
(* The two ends stay in step: a C or C++ client.                           *)

\* Facts every step below uses about lengths and positions.
LEMMA Positions ==
    ASSUME TypeOK, ClientInv
    PROVE  /\ HdrSize \in Nat \ {0}
           /\ Len(wire) \in Nat /\ Len(blocks) \in Nat /\ Len(got) \in Nat
           /\ k \in 1..Len(blocks) /\ off \in Nat
           /\ rd \in Nat /\ from \in Nat /\ blockLength \in Nat
           /\ \A b \in 1..Len(blocks) : /\ blocks[b] \in Nat
                                        /\ FrameLen(b) \in Nat
                                        /\ FrameLen(b) = HdrSize + blocks[b]
           /\ \A b \in 1..k : start[b] \in Nat
           /\ \A b \in 1..(k - 1) : start[b] + FrameLen(b) <= Len(wire)
           /\ Sent \in {k - 1, k}
           /\ Sent = k <=> off = FrameLen(k)
<1>1. SenderTypeOK /\ ReceiverTypeOK
  BY DEF TypeOK
<1>2. /\ Len(wire) \in Nat /\ Len(blocks) \in Nat /\ k \in 1..Len(blocks)
      /\ \A b \in 1..k : start[b] \in Nat
  BY <1>1 DEF SenderTypeOK
<1>3. /\ HdrSize \in Nat \ {0}
      /\ \A b \in 1..Len(blocks) : blocks[b] \in Nat /\ FrameLen(b) \in Nat
  BY <1>1, FrameLenType
<1>4. off \in Nat
  BY <1>1, <1>2, <1>3 DEF SenderTypeOK
<1>5. rd \in Nat /\ from \in Nat /\ blockLength \in Nat /\ Len(got) \in Nat
  BY <1>1, <1>2, BlockStreamAssumption DEF ReceiverTypeOK
<1>6. \A b \in 1..(k - 1) : start[b] + FrameLen(b) <= Len(wire)
  <2> SUFFICES ASSUME NEW b \in 1..(k - 1)
               PROVE  start[b] + FrameLen(b) <= Len(wire)
    OBVIOUS
  <2>1. start[b + 1] = start[b] + FrameLen(b) /\ Len(wire) = start[k] + off
    BY DEF ClientInv, FramesAdjacent
  <2>2. b + 1 \in 1..k
    BY <1>2
  <2>3. start[b + 1] <= start[k]
    BY <2>2 DEF ClientInv, FramesAdjacent
  <2> QED
    BY <1>2, <1>4, <2>1, <2>2, <2>3
<1> QED
  BY <1>2, <1>3, <1>4, <1>5, <1>6 DEF Sent, FrameLen

\* The server's next header begins where its frame does, or at the end of the
\* stream if the frame was not begun.
LEMMA NextHeader ==
    ASSUME TypeOK, ClientInv, ServerInv
    PROVE  /\ Base \in Nat
           /\ Len(got) < k => Base = start[Len(got) + 1]
           /\ Len(got) >= k => Len(got) = k /\ Base = Len(wire)
<1>1. /\ Len(got) \in Nat /\ k \in 1..Len(blocks) /\ Len(got) <= Sent
      /\ Len(wire) = start[k] + off
      /\ \A b \in 1..k : start[b] \in Nat
      /\ \A b \in 1..Len(blocks) : FrameLen(b) \in Nat
      /\ Sent \in {k - 1, k} /\ (Sent = k <=> off = FrameLen(k))
  BY Positions DEF ClientInv, FramesAdjacent, ServerInv
<1>2. Len(got) \in 0..k
  BY <1>1
<1>3. CASE Len(got) = 0
  BY <1>1, <1>2, <1>3 DEF Base, ClientInv, FramesAdjacent
<1>4. CASE Len(got) \in 1..(k - 1)
  BY <1>1, <1>2, <1>4 DEF Base, ClientInv, FramesAdjacent
<1>5. CASE Len(got) = k
  BY <1>1, <1>5 DEF Base
<1> QED
  BY <1>1, <1>2, <1>3, <1>4, <1>5

\* A step of the client that extends the stream leaves the server in step.
LEMMA ServerKeepsStep ==
    ASSUME TypeOK, ClientInv, ServerInv, spc \in Parts,
           UNCHANGED <<blocks, receiverVars>>,
           k' \in Nat, k' >= k, Sent' \in Nat, Sent' >= Sent, Sent' <= Len(blocks),
           \A b \in 1..k : start'[b] = start[b]
    PROVE  ServerInv'
<1>1. /\ Len(got) \in Nat /\ k \in 1..Len(blocks) /\ Len(got) <= Sent
      /\ Sent \in {k - 1, k}
  BY Positions DEF ServerInv
<1>2. UNCHANGED <<blocks, rpc, rd, from, blockLength, got>>
  BY DEF receiverVars
<1>3. \A b : FrameLen(b)' = FrameLen(b) /\ Body(b)' = Body(b)
  BY <1>2 DEF FrameLen, Body
<1>4. Base' = Base
  BY <1>1, <1>2, <1>3 DEF Base
<1>5. rpc # "failed"
  BY DEF ServerInv
<1> QED
  BY <1>1, <1>2, <1>3, <1>4, <1>5 DEF ServerInv

\* A step of the server does not disturb the client.
LEMMA ClientKeepsStep ==
    ASSUME BlocksInv, ClientInv, UNCHANGED <<blocks, senderVars>>
    PROVE  BlocksInv' /\ ClientInv' /\ Sent' = Sent
BY DEF BlocksInv, ClientInv, FramesAdjacent, FramesWritten, ClientPlace, senderVars,
       FrameLen, Sent

\* The kernel takes the next bytes of frame k: they land behind the others.
LEMMA KernelTakesKeepsStep ==
    ASSUME TypeOK, InStep, KernelTakes
    PROVE  InStep'
<1>0. BlocksInv /\ ClientInv /\ ServerInv
  BY DEF InStep
<1>1. PICK m \in Nat \ {0} :
         /\ off + m <= PartEnd /\ off' = off + m
         /\ Len(wire') = Len(wire) + m
         /\ \A i \in 1..Len(wire) : wire'[i] = wire[i]
         /\ \A j \in (Len(wire) + 1)..(Len(wire) + m) :
               wire'[j] = <<k, off + (j - Len(wire))>>
  BY TakenBytes DEF TypeOK
<1>2. UNCHANGED <<blocks, spc, k, start, receiverVars>> /\ spc \in Parts
  BY DEF KernelTakes
<1>3. \A b : FrameLen(b)' = FrameLen(b)
  BY <1>2 DEF FrameLen
<1>a. Len(wire) = start[k] + off
  BY <1>0 DEF ClientInv, FramesAdjacent
<1>b. FramesWritten /\ ClientPlace
  BY <1>0 DEF ClientInv
<1>c. /\ HdrSize \in Nat \ {0} /\ off \in Nat /\ k \in 1..Len(blocks)
      /\ Len(blocks) \in Nat /\ Len(wire) \in Nat
      /\ \A b \in 1..Len(blocks) : /\ blocks[b] \in Nat
                                   /\ FrameLen(b) \in Nat
                                   /\ FrameLen(b) = HdrSize + blocks[b]
      /\ \A b \in 1..k : start[b] \in Nat
      /\ \A b \in 1..(k - 1) : start[b] + FrameLen(b) <= Len(wire)
      /\ Sent \in {k - 1, k} /\ (Sent = k <=> off = FrameLen(k))
  BY <1>0, Positions
<1>4. FrameLen(k) \in Nat /\ HdrSize <= FrameLen(k)
  <2>1. k \in 1..Len(blocks) /\ SenderTypeOK
    BY <1>c DEF TypeOK
  <2>2. FrameLen(k) \in Nat /\ FrameLen(k) >= HdrSize /\ HdrSize \in Nat
    BY <2>1, FrameLenType
  <2> QED
    BY <2>2
<1>5. PartEnd \in Nat /\ PartEnd <= FrameLen(k) /\ (spc = "hdr" => PartEnd = HdrSize)
  BY <1>4, <1>c DEF PartEnd
<1>7. m \in Nat /\ m >= 1 /\ m <= PartEnd - off
  BY <1>1, <1>5, <1>c
<1>11. BlocksInv'
  BY <1>0, <1>2 DEF BlocksInv
<1>12. ClientInv'
  <2>1. FramesWritten'
    <3> SUFFICES ASSUME NEW b \in 1..k, NEW i \in 1..FrameLen(b),
                        start[b] + i <= Len(wire')
                 PROVE  wire'[start[b] + i] = <<b, i>>
      BY <1>2, <1>3 DEF FramesWritten
    <3>0. start[b] \in Nat /\ i \in Nat /\ i >= 1 /\ b \in Nat
      BY <1>c
    <3>1. CASE start[b] + i <= Len(wire)
      <4>1. start[b] + i \in 1..Len(wire)
        BY <1>c, <3>0, <3>1
      <4>2. wire[start[b] + i] = <<b, i>>
        BY <1>b, <3>1 DEF FramesWritten
      <4> QED
        BY <1>1, <4>1, <4>2
    <3>2. CASE start[b] + i > Len(wire)
      <4>1. i <= FrameLen(b)
        BY <1>c
      <4>2. ~(b \in 1..(k - 1))
        <5>1. ASSUME b \in 1..(k - 1) PROVE FALSE
          <6>1. start[b] + FrameLen(b) <= Len(wire) /\ FrameLen(b) \in Nat
            BY <1>c, <5>1
          <6> QED
            BY <1>c, <3>0, <3>2, <4>1, <6>1
        <5> QED
          BY <5>1
      <4>3. b = k
        BY <1>c, <4>2
      <4>4. i - off \in 1..m /\ start[b] + i = Len(wire) + (i - off)
        <5>1. /\ Len(wire) = start[b] + off /\ Len(wire') = Len(wire) + m
              /\ off \in Nat /\ m \in Nat
          BY <1>a, <1>c, <1>7, <1>1, <4>3
        <5> QED
          BY <3>0, <3>2, <5>1
      <4>5. wire'[Len(wire) + (i - off)] = <<k, off + (i - off)>>
        BY <1>1, <4>4
      <4>6. off + (i - off) = i
        BY <1>c, <3>0
      <4> QED
        BY <4>3, <4>4, <4>5, <4>6
    <3> QED
      BY <1>c, <3>0, <3>1, <3>2
  <2>2. FramesAdjacent'
    <3>1. Len(wire') = start[k] + off'
      BY <1>a, <1>1, <1>c, <1>7, <1>1
    <3> QED
      BY <1>0, <1>2, <1>3, <3>1 DEF ClientInv, FramesAdjacent
  <2>3. ClientPlace'
    BY <1>b, <1>1, <1>2, <1>c, <1>5, <1>7 DEF ClientPlace
  <2> QED
    BY <2>1, <2>2, <2>3 DEF ClientInv
<1>13. ServerInv'
  <2>1. Sent' \in Nat /\ Sent' >= Sent /\ Sent' <= Len(blocks)
    <3>1. off < FrameLen(k)
      BY <1>c, <1>4, <1>5, <1>7
    <3>2. Sent = k - 1 /\ Sent' \in {k - 1, k}
      BY <1>2, <1>3, <1>c, <3>1 DEF Sent
    <3> QED
      BY <1>c, <3>2
  <2> QED
    BY <1>0, <1>2, <1>c, <2>1, ServerKeepsStep
<1> QED
  BY <1>11, <1>12, <1>13 DEF InStep

\* The client starts the next frame at the end of the stream.
LEMMA NextFrameKeepsStep ==
    ASSUME TypeOK, InStep, spc = "body", off = FrameLen(k), k < Len(blocks),
           spc' = "hdr", k' = k + 1, off' = 0,
           \A b \in 1..k : start'[b] = start[b], start'[k + 1] = Len(wire),
           UNCHANGED <<blocks, wire, receiverVars>>
    PROVE  InStep'
<1>0. BlocksInv /\ ClientInv /\ ServerInv
  BY DEF InStep
<1>1. \A b : FrameLen(b)' = FrameLen(b)
  BY DEF FrameLen
<1>2. /\ k \in Nat /\ k >= 1 /\ k + 1 <= Len(blocks)
      /\ HdrSize \in Nat \ {0} /\ k \in 1..Len(blocks)
      /\ Len(blocks) \in Nat /\ Len(wire) \in Nat
      /\ \A b \in 1..Len(blocks) : /\ blocks[b] \in Nat
                                   /\ FrameLen(b) \in Nat
                                   /\ FrameLen(b) = HdrSize + blocks[b]
      /\ \A b \in 1..k : start[b] \in Nat
  BY <1>0, Positions
<1>3. FramesAdjacent /\ FramesWritten
  BY <1>0 DEF ClientInv
<1>5. Sent = k /\ Sent' = k
  <2>1. k + 1 \in 1..Len(blocks)
    BY <1>2
  <2>2. FrameLen(k + 1) # 0
    BY <1>2, <2>1
  <2> QED
    BY <1>1, <1>2, <2>2 DEF Sent
<1>6. Len(wire) = start[k] + FrameLen(k)
  BY <1>3 DEF FramesAdjacent
<1>7. FramesAdjacent'
  <2>1. start'[1] = 0
    BY <1>2, <1>3 DEF FramesAdjacent
  <2>2. \A b \in 1..k : start'[b + 1] = start'[b] + FrameLen(b)
    <3> SUFFICES ASSUME NEW b \in 1..k
                 PROVE  start'[b + 1] = start'[b] + FrameLen(b)
      OBVIOUS
    <3>1. CASE b = k
      BY <1>2, <1>6, <3>1
    <3>2. CASE b \in 1..(k - 1)
      <4>1. b + 1 \in 1..k
        BY <1>2, <3>2
      <4> QED
        BY <1>3, <3>2, <4>1 DEF FramesAdjacent
    <3> QED
      BY <1>2, <3>1, <3>2
  <2>3. \A b \in 1..(k + 1) : start'[b] <= start'[k + 1]
    <3> SUFFICES ASSUME NEW b \in 1..(k + 1)
                 PROVE  start'[b] <= start'[k + 1]
      OBVIOUS
    <3>1. CASE b = k + 1
      BY <1>2, <3>1
    <3>2. CASE b \in 1..k
      <4>1. start[b] <= start[k] /\ start[b] \in Nat /\ start[k] \in Nat
        BY <1>2, <1>3, <3>2 DEF FramesAdjacent
      <4>2. FrameLen(k) \in Nat
        BY <1>2
      <4> QED
        BY <1>6, <3>2, <4>1, <4>2
    <3> QED
      BY <1>2, <3>1, <3>2
  <2>4. Len(wire') = start'[k + 1] + 0
    BY <1>2
  <2> QED
    BY <1>1, <1>2, <2>1, <2>2, <2>3, <2>4 DEF FramesAdjacent
<1>8. FramesWritten'
  <2> SUFFICES ASSUME NEW b \in 1..(k + 1), NEW i \in 1..FrameLen(b),
                      start'[b] + i <= Len(wire)
               PROVE  wire[start'[b] + i] = <<b, i>>
    BY <1>1 DEF FramesWritten
  <2>1. b # k + 1
    <3>1. ASSUME b = k + 1 PROVE FALSE
      BY <1>2, <3>1
    <3> QED
      BY <3>1
  <2>2. b \in 1..k
    BY <1>2, <2>1
  <2> QED
    BY <1>3, <2>2 DEF FramesWritten
<1>9. ClientPlace' /\ BlocksInv'
  BY <1>0, <1>2 DEF ClientPlace, BlocksInv
<1>10. ServerInv'
  BY <1>0, <1>2, <1>5, ServerKeepsStep
<1> QED
  BY <1>7, <1>8, <1>9, <1>10 DEF InStep, ClientInv

\* The client stops, sends again, or goes on without moving in the stream.
LEMMA StayingKeepsStep ==
    ASSUME TypeOK, InStep, spc \in Parts, ClientPlace',
           UNCHANGED <<blocks, wire, receiverVars, k, off, start>>
    PROVE  InStep'
<1>0. BlocksInv /\ ClientInv /\ ServerInv
  BY DEF InStep
<1>1. BlocksInv' /\ ClientInv' /\ Sent' = Sent
  BY <1>0 DEF BlocksInv, ClientInv, FramesAdjacent, FramesWritten, Sent, FrameLen
<1>2. Sent \in Nat /\ Sent <= Len(blocks) /\ k \in Nat
  <2>1. k \in 1..Len(blocks) /\ Len(blocks) \in Nat /\ Sent \in {k - 1, k}
    BY <1>0, Positions
  <2> QED
    BY <2>1
<1>3. ServerInv'
  BY <1>0, <1>1, <1>2, ServerKeepsStep
<1> QED
  BY <1>1, <1>3 DEF InStep

\* The server receives more of what it waits for.
LEMMA RecvKeepsStep ==
    ASSUME TypeOK, InStep, Recv
    PROVE  InStep'
<1>0. BlocksInv /\ ClientInv /\ ServerInv
  BY DEF InStep
<1>1. PICK m \in 1..MinOf(Wanted - (rd - from), InFlight) : rd' = rd + m
  BY DEF Recv
<1>2. /\ UNCHANGED <<blocks, senderVars, rpc, from, blockLength, got>>
      /\ rpc \in Parts
  BY DEF Recv
<1>3. BlocksInv' /\ ClientInv' /\ Sent' = Sent
  BY <1>0, <1>2, ClientKeepsStep
<1>4. /\ HdrSize \in Nat /\ rd \in Nat /\ from \in Nat /\ blockLength \in Nat
      /\ Len(wire) \in Nat
  BY <1>0, Positions
<1>5. rd' <= from + Wanted
  BY <1>1, <1>4 DEF MinOf, InFlight, Wanted
<1>6. UNCHANGED <<blocks, spc, k, start>>
  BY <1>2 DEF senderVars
<1>7. ServerInv'
  BY <1>0, <1>2, <1>3, <1>5, <1>6
  DEF ServerInv, Wanted, Base, Body, FrameLen
<1> QED
  BY <1>3, <1>7 DEF InStep

\* The bytes the server has read as a header are the header of the next frame.
LEMMA HeaderReadKeepsStep ==
    ASSUME TypeOK, InStep, HeaderRead
    PROVE  InStep' /\ blockLength' = blocks[Len(got) + 1] /\ Len(got) < Len(blocks)
<1>0. BlocksInv /\ ClientInv /\ ServerInv
  BY DEF InStep
<1>1. /\ rpc = "hdr" /\ rpc' = "body" /\ rd - from = HdrSize /\ from' = rd
      /\ UNCHANGED <<blocks, senderVars, rd, got>>
      /\ blockLength' \in Decoded(SubSeq(wire, from + 1, rd))
  BY DEF HeaderRead
<1>2. BlocksInv' /\ ClientInv' /\ Sent' = Sent
  BY <1>0, <1>1, ClientKeepsStep
<1>3. /\ HdrSize \in Nat \ {0} /\ rd \in Nat /\ from \in Nat /\ Len(wire) \in Nat
      /\ Len(got) \in Nat /\ k \in 1..Len(blocks) /\ Len(blocks) \in Nat
  BY <1>0, Positions
<1>4. from = Base /\ Len(got) < Len(blocks)
  BY <1>0, <1>1 DEF ServerInv
<1>5. rd <= Len(wire)
  BY DEF TypeOK, ReceiverTypeOK
<1> DEFINE b == Len(got) + 1
<1>6. b \in Nat /\ b >= 1 /\ b \in 1..k /\ Len(got) < k /\ from = start[b]
  <2>1. ~(Len(got) >= k)
    <3>1. ASSUME Len(got) >= k PROVE FALSE
      <4>1. Base = Len(wire)
        BY <1>0, <3>1, NextHeader
      <4> QED
        BY <1>1, <1>3, <1>4, <1>5, <4>1
    <3> QED
      BY <3>1
  <2>2. Len(got) < k /\ b \in 1..k
    BY <1>3, <2>1
  <2> QED
    BY <1>0, <1>3, <1>4, <2>2, NextHeader
<1>7. b \in 1..Len(blocks) /\ blocks[b] \in Nat /\ FrameLen(b) = HdrSize + blocks[b]
  <2>1. b \in 1..Len(blocks)
    BY <1>3, <1>6
  <2> QED
    BY <1>0, <2>1, Positions
<1> HIDE DEF b
<1>8. SubSeq(wire, from + 1, rd) = [i \in 1..HdrSize |-> <<b, i>>]
  <2> DEFINE header == [i \in 1..HdrSize |-> <<b, i>>]
  <2>1. header \in [1..HdrSize -> Byte]
    BY <1>3, <1>6 DEF Byte
  <2>2. \A i \in 1..HdrSize : wire[from + i] = header[i]
    <3> SUFFICES ASSUME NEW i \in 1..HdrSize
                 PROVE  wire[from + i] = <<b, i>>
      OBVIOUS
    <3>1. i \in 1..FrameLen(b) /\ start[b] + i <= Len(wire)
      BY <1>1, <1>3, <1>5, <1>6, <1>7, SMTT(30)
    <3>2. FramesWritten
      BY <1>0 DEF ClientInv
    <3> QED
      BY <1>6, <3>1, <3>2 DEF FramesWritten
  <2> HIDE DEF header
  <2>3. wire \in Seq(Byte)
    BY DEF TypeOK, SenderTypeOK
  <2>4. from + HdrSize = rd /\ from + HdrSize <= Len(wire) /\ HdrSize \in Nat
    BY <1>1, <1>3, <1>5
  <2>5. SubSeq(wire, from + 1, from + HdrSize) = header
    BY <1>3, <2>1, <2>2, <2>3, <2>4, SegmentIs
  <2> QED
    BY <2>4, <2>5 DEF header
<1>9. blockLength' = blocks[b]
  <2> DEFINE bytes == SubSeq(wire, from + 1, rd)
  <2>1. bytes[1][1] = b
    <3>1. [i \in 1..HdrSize |-> <<b, i>>][1] = <<b, 1>>
      BY <1>3
    <3>2. bytes[1] = <<b, 1>>
      BY <1>8, <3>1
    <3> HIDE DEF bytes
    <3> QED
      BY <3>2
  <2>2. Decoded(bytes) = {blocks[b] % Modulus}
    <3>1. \E c \in 1..Len(blocks) : bytes = [i \in 1..HdrSize |-> <<c, i>>]
      BY <1>7, <1>8
    <3> HIDE DEF bytes
    <3> QED
      BY <2>1, <3>1 DEF Decoded
  <2>3. blocks[b] < Modulus /\ Modulus \in Nat \ {0}
    BY <1>0, <1>7, BlockStreamAssumption DEF BlocksInv
  <2>4. blocks[b] % Modulus = blocks[b]
    BY <1>7, <2>3
  <2> QED
    BY <1>1, <2>2, <2>4
<1>10. UNCHANGED <<blocks, spc, k, start, got>>
  BY <1>1 DEF senderVars
<1>11. ServerInv'
  <2>1. from' = Base + HdrSize /\ rd' <= from' + blockLength'
    BY <1>1, <1>3, <1>4, <1>7, <1>9
  <2>2. Base' = Base
    BY <1>10 DEF Base, FrameLen
  <2>3. \A c : Body(c)' = Body(c)
    BY <1>10 DEF Body
  <2> QED
    BY <1>0, <1>1, <1>2, <1>6, <1>9, <1>10, <2>1, <2>2, <2>3 DEF ServerInv, b
<1> QED
  BY <1>2, <1>4, <1>9, <1>11 DEF InStep, b

\* What the server has read behind a header is the body of that frame.
LEMMA BodyReadKeepsStep ==
    ASSUME TypeOK, InStep, BodyRead
    PROVE  InStep'
<1>0. BlocksInv /\ ClientInv /\ ServerInv
  BY DEF InStep
<1> DEFINE b == Len(got) + 1
<1>1. /\ rpc = "body" /\ rd - from = blockLength /\ from' = rd
      /\ UNCHANGED <<blocks, senderVars, rd, blockLength>>
  BY DEF BodyRead
<1>2. BlocksInv' /\ ClientInv' /\ Sent' = Sent
  BY <1>0, <1>1, ClientKeepsStep
<1>3. /\ HdrSize \in Nat \ {0} /\ rd \in Nat /\ from \in Nat /\ Len(wire) \in Nat
      /\ Len(got) \in Nat /\ k \in 1..Len(blocks) /\ Len(blocks) \in Nat
      /\ Sent \in {k - 1, k} /\ (Sent = k <=> off = FrameLen(k)) /\ off \in Nat
  BY <1>0, Positions
<1>4. /\ Len(got) < k /\ from = Base + HdrSize /\ blockLength = blocks[b]
      /\ Len(got) < Len(blocks) /\ Len(got) <= Sent
  BY <1>0, <1>1 DEF ServerInv
<1>5. rd <= Len(wire)
  BY DEF TypeOK, ReceiverTypeOK
<1>6. /\ b = Len(got) + 1 /\ b \in Nat /\ b >= 1 /\ b \in 1..k /\ b \in 1..Len(blocks)
      /\ Base = start[b] /\ start[b] \in Nat
  <2>1. b \in 1..k /\ b \in 1..Len(blocks)
    BY <1>3, <1>4
  <2>2. Base = start[b]
    BY <1>0, <1>4, NextHeader
  <2>3. start[b] \in Nat
    BY <1>0, <2>1, Positions
  <2> QED
    BY <1>3, <2>1, <2>2, <2>3
<1> HIDE DEF b
<1>7. /\ blocks[b] \in Nat /\ FrameLen(b) = HdrSize + blocks[b]
      /\ (blocks[b] = 0 <=> b = Len(blocks))
  <2>1. blocks[b] \in Nat /\ FrameLen(b) = HdrSize + blocks[b]
    BY <1>0, <1>6, Positions
  <2>2. blocks[b] = 0 <=> b = Len(blocks)
    BY <1>0, <1>6 DEF BlocksInv
  <2> QED
    BY <2>1, <2>2
<1>8. rd = start[b] + FrameLen(b)
  BY <1>1, <1>3, <1>4, <1>6, <1>7, SMTT(30)
<1>9. Sent >= b
  <2>1. CASE b < k
    BY <1>3, <1>6, <2>1
  <2>2. CASE b = k
    <3>1. Len(wire) = start[k] + off /\ start[k] \in Nat
      BY <1>0, <1>6, <2>2 DEF ClientInv, FramesAdjacent
    <3>2. off <= FrameLen(k) /\ FrameLen(k) \in Nat
      BY <1>3, <1>7, <2>2 DEF TypeOK, SenderTypeOK
    <3>3. off = FrameLen(k)
      BY <1>3, <1>5, <1>8, <2>2, <3>1, <3>2
    <3> QED
      BY <1>3, <2>2, <3>3
  <2> QED
    BY <1>3, <1>6, <2>1, <2>2
<1>10. UNCHANGED <<blocks, spc, k, start>>
  BY <1>1 DEF senderVars
<1>11. \A c : FrameLen(c)' = FrameLen(c) /\ Body(c)' = Body(c)
  BY <1>10 DEF FrameLen, Body
<1>12. CASE blockLength = 0 /\ rpc' = "done" /\ UNCHANGED got
  <2>1. b = Len(blocks) /\ Sent = Len(blocks)
    BY <1>3, <1>4, <1>7, <1>9, <1>12
  <2>2. ServerInv'
    BY <1>0, <1>2, <1>3, <1>6, <1>10, <1>11, <1>12, <2>1 DEF ServerInv
  <2> QED
    BY <1>2, <2>2 DEF InStep
<1>13. CASE /\ blockLength # 0 /\ rpc' = "hdr"
            /\ got' = Append(got, SubSeq(wire, from + 1, rd))
  <2>1. SubSeq(wire, from + 1, rd) = Body(b)
    <3>1. Body(b) \in [1..blocks[b] -> Byte]
      BY <1>3, <1>6, <1>7, SMTT(30) DEF Body, Byte
    <3>2. \A i \in 1..blocks[b] : wire[from + i] = Body(b)[i]
      <4> SUFFICES ASSUME NEW i \in 1..blocks[b]
                   PROVE  wire[from + i] = <<b, HdrSize + i>>
        BY DEF Body
      <4>1. /\ HdrSize + i \in 1..FrameLen(b)
            /\ start[b] + (HdrSize + i) <= Len(wire)
            /\ from + i = start[b] + (HdrSize + i)
        BY <1>3, <1>4, <1>5, <1>6, <1>7, <1>8, SMTT(30)
      <4>2. FramesWritten
        BY <1>0 DEF ClientInv
      <4> QED
        BY <1>6, <4>1, <4>2 DEF FramesWritten
    <3>3. wire \in Seq(Byte)
      BY DEF TypeOK, SenderTypeOK
    <3>4. rd = from + blocks[b] /\ from + blocks[b] <= Len(wire)
      BY <1>1, <1>3, <1>4, <1>5, <1>7
    <3>5. SubSeq(wire, from + 1, from + blocks[b]) = Body(b)
      BY <1>3, <1>7, <3>1, <3>2, <3>3, <3>4, SegmentIs, SMTT(30)
    <3> QED
      BY <3>4, <3>5
  <2>2. /\ Len(got') = b
        /\ \A c \in 1..Len(got) : got'[c] = got[c]
        /\ got'[b] = Body(b)
    <3>1. got \in Seq(Seq(Byte)) /\ wire \in Seq(Byte)
      BY DEF TypeOK, SenderTypeOK, ReceiverTypeOK
    <3>2. SubSeq(wire, from + 1, rd) \in Seq(Byte)
      BY <1>3, <1>5, <3>1
    <3> DEFINE block == SubSeq(wire, from + 1, rd)
    <3> HIDE DEF block
    <3>3. /\ Len(Append(got, block)) = Len(got) + 1
          /\ \A c \in 1..Len(got) : Append(got, block)[c] = got[c]
          /\ Append(got, block)[Len(got) + 1] = block
      BY <3>1, <3>2, AppendElement DEF block
    <3>4. got' = Append(got, block) /\ block = Body(b)
      BY <1>13, <2>1 DEF block
    <3> QED
      BY <1>6, <3>3, <3>4, Zenon
  <2>3. b # Len(blocks)
    BY <1>4, <1>7, <1>13
  <2>4. Base' = from' /\ rd' <= from' + HdrSize
    <3>1. Base' = start[b] + FrameLen(b)
      BY <1>6, <1>10, <1>11, <2>2 DEF Base
    <3> QED
      BY <1>1, <1>3, <1>8, <3>1
  <2>5. \A c \in 1..Len(got') : got'[c] = Body(c)
    <3> SUFFICES ASSUME NEW c \in 1..b
                 PROVE  got'[c] = Body(c)
      BY <2>2
    <3>1. CASE c = b
      BY <2>2, <3>1
    <3>2. CASE c \in 1..Len(got)
      BY <1>0, <2>2, <3>2 DEF ServerInv
    <3> QED
      BY <1>3, <1>6, <3>1, <3>2
  <2>6. ServerInv'
    <3>1. b <= Sent /\ b < Len(blocks) /\ b \in Nat
      BY <1>3, <1>6, <1>9, <2>3
    <3> QED
      BY <1>2, <1>10, <1>11, <1>13, <2>2, <2>4, <2>5, <3>1 DEF ServerInv
  <2> QED
    BY <1>2, <2>6 DEF InStep
<1> QED
  BY <1>12, <1>13 DEF BodyRead

\* The server finds the stream ended short of what it waits for: it has printed
\* every frame that is whole.
LEMMA EndOfStreamKeepsStep ==
    ASSUME TypeOK, InStep, EndOfStream
    PROVE  InStep'
<1>0. BlocksInv /\ ClientInv /\ ServerInv
  BY DEF InStep
<1>1. /\ rpc \in Parts /\ rd - from < Wanted /\ Len(wire) = rd
      /\ spc \notin Parts /\ rpc' = "failed"
      /\ UNCHANGED <<blocks, senderVars, rd, from, blockLength, got>>
  <2>1. Len(wire) \in Nat /\ rd \in Nat
    BY <1>0, Positions
  <2> QED
    BY <2>1 DEF EndOfStream, InFlight
<1>2. BlocksInv' /\ ClientInv' /\ Sent' = Sent
  BY <1>0, <1>1, ClientKeepsStep
<1>3. /\ HdrSize \in Nat /\ rd \in Nat /\ from \in Nat /\ blockLength \in Nat
      /\ Len(got) \in Nat /\ k \in 1..Len(blocks) /\ Len(blocks) \in Nat
      /\ k \in Nat /\ Sent \in {k - 1, k} /\ (Sent = k <=> off = FrameLen(k))
  BY <1>0, Positions
<1>4. Len(got) <= Sent /\ Len(got) < Len(blocks)
  BY <1>0 DEF ServerInv
<1>5. Sent = Len(got)
  <2>1. ASSUME Len(got) < Sent PROVE FALSE
    <3> DEFINE b == Len(got) + 1
    <3>1. Len(got) < k /\ b \in 1..k /\ b \in 1..Len(blocks) /\ b \in Nat
      BY <1>3, <2>1
    <3>2. Base = start[b] /\ Base \in Nat
      BY <1>0, <3>1, NextHeader
    <3> HIDE DEF b
    <3>3. start[b] + FrameLen(b) <= Len(wire)
      <4>1. CASE b < k
        <5>1. b \in 1..(k - 1)
          BY <1>3, <3>1, <4>1
        <5> QED
          BY <1>0, <5>1, Positions
      <4>2. CASE b = k
        <5>1. Sent = k
          BY <1>3, <2>1, <4>2 DEF b
        <5>2. Len(wire) = start[k] + off
          BY <1>0 DEF ClientInv, FramesAdjacent
        <5>3. FrameLen(k) \in Nat /\ start[k] \in Nat
          BY <1>0, <1>3, <3>1, <4>2, Positions
        <5> QED
          BY <1>3, <4>2, <5>1, <5>2, <5>3
      <4> QED
        BY <1>3, <3>1, <4>1, <4>2
    <3>4. blocks[b] \in Nat /\ FrameLen(b) = HdrSize + blocks[b]
      BY <1>0, <3>1, Positions
    <3>5. CASE rpc = "hdr"
      <4>1. from = Base /\ rd - from < HdrSize
        BY <1>0, <1>1, <3>5 DEF ServerInv, Wanted
      <4> QED
        BY <1>1, <1>3, <3>2, <3>3, <3>4, <4>1
    <3>6. CASE rpc = "body"
      <4>1. from = Base + HdrSize /\ rd - from < blocks[b]
        BY <1>0, <1>1, <3>6 DEF ServerInv, Wanted, b
      <4>2. FrameLen(b) <= rd - start[b] /\ rd - start[b] < HdrSize + blocks[b]
        BY <1>1, <1>3, <3>2, <3>3, <3>4, <4>1, SMTT(30)
      <4> QED
        BY <1>3, <3>2, <3>4, <4>2
    <3> QED
      BY <1>1, <3>5, <3>6
  <2> QED
    BY <1>3, <1>4, <2>1
<1>6. spc # "done"
  <2>1. ASSUME spc = "done" PROVE FALSE
    <3>1. k = Len(blocks) /\ off = FrameLen(k)
      BY <1>0, <2>1 DEF ClientInv, ClientPlace
    <3> QED
      BY <1>3, <1>4, <1>5, <3>1
  <2> QED
    BY <2>1
<1>7. UNCHANGED <<blocks, spc, k, start, got>>
  BY <1>1 DEF senderVars
<1>8. ServerInv'
  BY <1>0, <1>1, <1>2, <1>5, <1>6, <1>7 DEF ServerInv, Body
<1> QED
  BY <1>2, <1>8 DEF InStep

\* Being killed disturbs nothing that was agreed.
LEMMA ServerKilledKeepsStep ==
    ASSUME TypeOK, InStep, ServerKilled
    PROVE  InStep'
<1>0. BlocksInv /\ ClientInv /\ ServerInv
  BY DEF InStep
<1>1. /\ rpc' = "killed"
      /\ UNCHANGED <<blocks, senderVars, rd, from, blockLength, got>>
  BY DEF ServerKilled
<1>2. BlocksInv' /\ ClientInv' /\ Sent' = Sent
  BY <1>0, <1>1, ClientKeepsStep
<1>3. ServerInv'
  BY <1>0, <1>1, <1>2 DEF ServerInv, Body
<1> QED
  BY <1>2, <1>3 DEF InStep

\* Before the first byte the two ends agree.
LEMMA InitInStep ==
    ASSUME Init
    PROVE  InStep
<1>1. HdrSize \in Nat \ {0} /\ Modulus \in Nat \ {0} /\ MaxBlocks \in Nat
  BY BlockStreamAssumption
<1>2. PICK list \in Lists : blocks = Append(list, 0)
  BY DEF Init
<1>3. /\ list \in Seq(Nat \ {0}) /\ Len(list) < MaxBlocks
      /\ \A b \in 1..Len(list) : list[b] < Modulus
  BY BlockStreamAssumption
<1>4. /\ Len(blocks) = Len(list) + 1 /\ Len(list) \in Nat
      /\ \A b \in 1..Len(list) : blocks[b] = list[b] /\ list[b] \in Nat \ {0}
      /\ blocks[Len(list) + 1] = 0
  BY <1>2, <1>3
<1>5. BlocksInv
  <2>1. ASSUME NEW b \in 1..Len(blocks)
        PROVE  blocks[b] < Modulus /\ (blocks[b] = 0 <=> b = Len(blocks))
    <3>1. CASE b = Len(list) + 1
      BY <1>1, <1>4, <3>1
    <3>2. CASE b \in 1..Len(list)
      BY <1>3, <1>4, <3>2
    <3> QED
      BY <1>4, <3>1, <3>2
  <2>2. Len(blocks) \in 1..MaxBlocks
    BY <1>1, <1>3, <1>4
  <2> QED
    BY <2>1, <2>2 DEF BlocksInv
<1>6. /\ spc = "hdr" /\ k = 1 /\ off = 0 /\ wire = << >> /\ start = <<0>>
      /\ rpc = "hdr" /\ rd = 0 /\ from = 0 /\ got = << >>
  BY DEF Init
<1>7. start[1] = 0 /\ Len(wire) = 0 /\ Len(got) = 0
  BY <1>6
<1>8. FrameLen(1) \in Nat /\ FrameLen(1) > 0 /\ Len(blocks) >= 1
  <2>1. 1 \in 1..Len(blocks) /\ Len(blocks) >= 1
    BY <1>4
  <2>2. blocks[1] \in Nat
    <3>1. CASE Len(list) = 0
      BY <1>4, <3>1
    <3>2. CASE 1 \in 1..Len(list)
      BY <1>4, <3>2
    <3> QED
      BY <1>4, <3>1, <3>2
  <2> QED
    BY <1>1, <2>1, <2>2 DEF FrameLen
<1>9. ClientInv
  BY <1>1, <1>6, <1>7, <1>8
  DEF ClientInv, FramesAdjacent, FramesWritten, ClientPlace
<1>10. Sent = 0
  BY <1>6, <1>8 DEF Sent
<1>11. ServerInv
  BY <1>1, <1>6, <1>7, <1>8, <1>10 DEF ServerInv, Base
<1> QED
  BY <1>5, <1>9, <1>11 DEF InStep

\* With a C or C++ client the two ends stay in step in every reachable state:
\* InStep is inductive.
THEOREM StaysInStep ==
    ASSUME "py" \notin Senders
    PROVE  Spec => []InStep
<1>1. Init => InStep
  BY InitInStep
<1>2. TypeOK /\ InStep /\ [Next]_vars => InStep'
  <2> SUFFICES ASSUME TypeOK, InStep, [Next]_vars PROVE InStep'
    OBVIOUS
  <2>p. sender # "py"
    BY DEF TypeOK, PartiesTypeOK
  <2> USE <2>p
  <2>0. ClientPlace
    BY DEF InStep, ClientInv
  <2>1. CASE KernelTakes
    BY <2>1, KernelTakesKeepsStep
  <2>2. CASE SendReturns
    <3>1. spc \in Parts /\ off = PartEnd /\ UNCHANGED <<blocks, wire, receiverVars>>
      BY <2>2 DEF SendReturns
    <3>2. CASE spc = "hdr" /\ spc' = "body" /\ off' = HdrSize /\ UNCHANGED <<k, start>>
      <4>1. off' = off
        BY <3>1, <3>2 DEF PartEnd
      <4>2. ClientPlace'
        <5>1. HdrSize \in Nat
          BY BlockStreamAssumption
        <5> QED
          BY <3>2, <5>1 DEF ClientPlace
      <4> QED
        BY <3>1, <3>2, <4>1, <4>2, StayingKeepsStep
    <3>3. CASE /\ spc = "body" /\ k < Len(blocks) /\ spc' = "hdr" /\ k' = k + 1
               /\ off' = 0 /\ start' = Append(start, Len(wire))
      <4>1. off = FrameLen(k)
        BY <3>1, <3>3 DEF PartEnd
      <4>2. /\ \A b \in 1..k : start'[b] = start[b]
            /\ start'[k + 1] = Len(wire)
        <5>1. start \in Seq(Nat) /\ Len(start) = k /\ Len(wire) \in Nat
          BY DEF TypeOK, SenderTypeOK
        <5> QED
          BY <3>3, <5>1, AppendElement
      <4> QED
        BY <3>1, <3>3, <4>1, <4>2, NextFrameKeepsStep
    <3>4. CASE /\ spc = "body" /\ k = Len(blocks) /\ spc' = "done"
               /\ UNCHANGED <<k, off, start>>
      <4>1. ClientPlace'
        BY <3>1, <3>4 DEF ClientPlace, PartEnd, FrameLen
      <4> QED
        BY <3>1, <3>4, <4>1, StayingKeepsStep
    <3> QED
      BY <2>2, <3>2, <3>3, <3>4 DEF SendReturns, NextPart
  <2>3. CASE SendCutShort /\ spc \in Parts
    <3>1. /\ UNCHANGED <<blocks, wire, receiverVars, k, off, start>>
          /\ spc' \in {spc, "failed"}
      BY <2>3 DEF SendCutShort, ShortSendC, ShortSendCxx, Fail
    <3>2. ClientPlace'
      BY <2>0, <3>1 DEF ClientPlace, FrameLen
    <3> QED
      BY <2>3, <3>1, <3>2, StayingKeepsStep
  <2>4. CASE Fail /\ spc \in Parts /\ UNCHANGED <<blocks, wire, receiverVars>>
    <3>1. ClientPlace'
      BY <2>4 DEF Fail, ClientPlace
    <3> QED
      BY <2>4, <3>1, StayingKeepsStep DEF Fail
  <2>5. CASE ClientKilled
    <3>1. ClientPlace'
      BY <2>5 DEF ClientKilled, ClientPlace
    <3> QED
      BY <2>5, <3>1, StayingKeepsStep DEF ClientKilled
  <2>6. CASE Recv
    BY <2>6, RecvKeepsStep
  <2>7. CASE HeaderRead
    BY <2>7, HeaderReadKeepsStep
  <2>8. CASE BodyRead
    BY <2>8, BodyReadKeepsStep
  <2>9. CASE EndOfStream
    BY <2>9, EndOfStreamKeepsStep
  <2>10. CASE ServerKilled
    BY <2>10, ServerKilledKeepsStep
  <2>11. CASE UNCHANGED vars
    BY <2>11 DEF vars, senderVars, receiverVars, InStep, BlocksInv, ClientInv,
       FramesAdjacent, FramesWritten, ClientPlace, ServerInv, Base, Sent, Body, FrameLen
  <2> QED
    BY <2>1, <2>2, <2>3, <2>4, <2>5, <2>6, <2>7, <2>8, <2>9, <2>10, <2>11
    DEF Next, Client, Server, SendInterrupted, SendReset, SendEintr, SendRefused, Ended
<1> QED
  BY <1>1, <1>2, TypeCorrect, PTL DEF Spec

-----------------------------------------------------------------------------
(* What the invariant gives.                                               *)

\* Every frame whose PutBlock returned lies on the stream whole.
THEOREM FramesAreWhole ==
    ASSUME "py" \notin Senders
    PROVE  Spec => []FramesWhole
<1>1. TypeOK /\ InStep => FramesWhole
  <2> SUFFICES ASSUME TypeOK, InStep, NEW b \in 1..(k - 1)
               PROVE  SubSeq(wire, start[b] + 1, start[b + 1]) = FrameBytes(b)
    BY DEF FramesWhole
  <2>0. ClientInv /\ FramesAdjacent /\ FramesWritten
    BY DEF InStep, ClientInv
  <2>1. /\ k \in 1..Len(blocks) /\ Len(blocks) \in Nat /\ Len(wire) \in Nat
        /\ \A c \in 1..Len(blocks) : FrameLen(c) \in Nat
        /\ \A c \in 1..k : start[c] \in Nat
        /\ \A c \in 1..(k - 1) : start[c] + FrameLen(c) <= Len(wire)
    BY <2>0, Positions
  <2>2. b \in 1..Len(blocks) /\ b \in 1..k /\ b \in Nat \ {0}
    BY <2>1
  <2>3. start[b + 1] = start[b] + FrameLen(b)
    BY <2>0 DEF FramesAdjacent
  <2>4. FrameBytes(b) \in [1..FrameLen(b) -> Byte]
    BY <2>1, <2>2 DEF FrameBytes, Byte
  <2>5. \A i \in 1..FrameLen(b) : wire[start[b] + i] = FrameBytes(b)[i]
    <3> SUFFICES ASSUME NEW i \in 1..FrameLen(b)
                 PROVE  wire[start[b] + i] = <<b, i>>
      BY DEF FrameBytes
    <3>1. start[b] + FrameLen(b) <= Len(wire) /\ start[b] \in Nat /\ FrameLen(b) \in Nat
      BY <2>1, <2>2
    <3>2. start[b] + i <= Len(wire)
      BY <2>1, <3>1
    <3> QED
      BY <2>0, <2>2, <3>2 DEF FramesWritten
  <2>6. wire \in Seq(Byte)
    BY DEF TypeOK, SenderTypeOK
  <2>7. SubSeq(wire, start[b] + 1, start[b] + FrameLen(b)) = FrameBytes(b)
    BY <2>1, <2>2, <2>4, <2>5, <2>6, SegmentIs, SMTT(30)
  <2> QED
    BY <2>3, <2>7
<1> QED
  BY <1>1, TypeCorrect, StaysInStep, PTL

\* The server prints what the client put, ends normally only after the last
\* block, and gives up only when it has printed all there is.
THEOREM Delivery ==
    ASSUME "py" \notin Senders
    PROVE  Spec => []BlocksDelivered
<1>1. InStep => BlocksDelivered
  BY DEF InStep, ServerInv, BlocksDelivered
<1> QED
  BY <1>1, StaysInStep, PTL

\* A remainder does nothing below the modulus.
LEMMA SmallRemainder ==
    ASSUME NEW m \in Nat, NEW n \in Nat, m + 1 < n
    PROVE  (m + 1) % n = m + 1
OBVIOUS

\* The buffer grows to hold the block and its NUL unless the sum wraps.
LEMMA GrownSuffices ==
    ASSUME bufSize \in Nat, Modulus \in Nat, NEW len \in Nat, len + 1 < Modulus
    PROVE  GrownTo(len) >= len + 1
<1>1. (len + 1) % Modulus = len + 1
  BY SmallRemainder
<1> DEFINE needed == (len + 1) % Modulus
<1>2. GrownTo(len) = IF bufSize < needed THEN needed ELSE bufSize
  BY DEF GrownTo
<1> HIDE DEF needed
<1>3. needed = len + 1
  BY <1>1 DEF needed
<1> QED
  BY <1>2, <1>3

\* GetBlock's buffer holds the block and its NUL as long as no block is of the
\* one length for which block_length+1 is zero.
THEOREM BufferSuffices ==
    ASSUME "py" \notin Senders, Modulus > 1,
           \A list \in Lists : \A b \in 1..Len(list) : list[b] + 1 < Modulus
    PROVE  Spec => []BufferHoldsBlock
<1> DEFINE Short == \A b \in 1..Len(blocks) : blocks[b] + 1 < Modulus
<1>1. Init => Short /\ BufferHoldsBlock
  <2> SUFFICES ASSUME Init PROVE Short /\ BufferHoldsBlock
    OBVIOUS
  <2>1. PICK list \in Lists : blocks = Append(list, 0)
    BY DEF Init
  <2>2. list \in Seq(Nat)
    BY BlockStreamAssumption
  <2>3. /\ Len(blocks) = Len(list) + 1 /\ Len(list) \in Nat
        /\ \A b \in 1..Len(list) : blocks[b] = list[b]
        /\ blocks[Len(list) + 1] = 0
    BY <2>1, <2>2
  <2>4. Short
    <3> SUFFICES ASSUME NEW b \in 1..Len(blocks)
                 PROVE  blocks[b] + 1 < Modulus
      OBVIOUS
    <3>1. CASE b = Len(list) + 1
      BY <2>3, <3>1
    <3>2. CASE b \in 1..Len(list)
      BY <2>3, <3>2
    <3> QED
      BY <2>3, <3>1, <3>2
  <2> QED
    BY <2>4 DEF Init, BufferHoldsBlock
<1>2. TypeOK /\ InStep /\ Short /\ BufferHoldsBlock /\ [Next]_vars
        => Short' /\ BufferHoldsBlock'
  <2> SUFFICES ASSUME TypeOK, InStep, Short, BufferHoldsBlock, [Next]_vars
               PROVE  Short' /\ BufferHoldsBlock'
    OBVIOUS
  <2>0. UNCHANGED receiver
    BY PartiesStay DEF parties
  <2>1. UNCHANGED blocks
    BY DEF Next, Client, Server, SendInterrupted, SendReset, SendEintr, SendRefused,
       SendCutShort, Ended, KernelTakes, SendReturns, ClientKilled, Recv, HeaderRead,
       BodyRead, EndOfStream, ServerKilled, vars
  <2>2. CASE HeaderRead
    <3>1. blockLength' = blocks[Len(got) + 1] /\ Len(got) < Len(blocks)
      BY <2>2, HeaderReadKeepsStep
    <3>2. Len(got) \in Nat /\ Len(blocks) \in Nat /\ bufSize \in Nat /\ Modulus \in Nat
      BY Positions, BlockStreamAssumption DEF InStep, TypeOK, ReceiverTypeOK
    <3>3. blockLength' \in Nat /\ blockLength' + 1 < Modulus
      <4>1. Len(got) + 1 \in 1..Len(blocks)
        BY <3>1, <3>2
      <4> QED
        BY <3>1, <4>1, Positions DEF InStep
    <3>4. receiver = "c" => bufSize' = GrownTo(blockLength')
      BY <2>2 DEF HeaderRead
    <3>5. GrownTo(blockLength') >= blockLength' + 1
      BY <3>2, <3>3, GrownSuffices
    <3>7. BufferHoldsBlock'
      BY <2>0, <3>4, <3>5 DEF BufferHoldsBlock
    <3> QED
      BY <2>1, <3>7
  <2>3. CASE ~HeaderRead
    <3>1. rpc' = "body" => UNCHANGED <<rpc, blockLength, bufSize>>
      BY <2>3 DEF Next, Client, Server, SendInterrupted, SendReset, SendEintr, SendRefused,
         SendCutShort, Ended, KernelTakes, SendReturns, ClientKilled, Recv,
         BodyRead, EndOfStream, ServerKilled, vars, receiverVars
    <3> QED
      BY <2>0, <2>1, <3>1 DEF BufferHoldsBlock
  <2> QED
    BY <2>2, <2>3
<1> QED
  BY <1>1, <1>2, TypeCorrect, StaysInStep, PTL DEF Spec

-----------------------------------------------------------------------------
(* The byte stream implements the channel of whole blocks.                 *)

\* Every step of the byte-level programs is a step of the channel of whole
\* blocks or leaves it alone.
THEOREM Implements ==
    ASSUME "py" \notin Senders
    PROVE  Spec => ImplementsChannel
<1>1. Init => Channel!ChanInit
  <2> SUFFICES ASSUME Init PROVE Channel!ChanInit
    OBVIOUS
  <2>1. Len(blocks) \in 1..MaxBlocks
    BY InitInStep DEF InStep, BlocksInv
  <2>2. FrameLen(1) # 0
    <3>1. blocks[1] \in Nat /\ HdrSize \in Nat \ {0}
      <4>1. PICK list \in Lists : blocks = Append(list, 0)
        BY DEF Init
      <4>2. list \in Seq(Nat)
        BY BlockStreamAssumption
      <4>3. blocks \in Seq(Nat) /\ 1 \in 1..Len(blocks)
        BY <4>1, <4>2
      <4> QED
        BY <4>3, BlockStreamAssumption
    <3> QED
      BY <3>1 DEF FrameLen
  <2>3. Sent = 0 /\ Len(got) = 0
    BY <2>2 DEF Init, Sent
  <2> QED
    BY <2>1, <2>3 DEF Init, Channel!ChanInit, ClientStatus, ServerStatus
<1>2. TypeOK /\ InStep /\ InStep' /\ [Next]_vars
        => [Channel!ChanNext]_(Channel!chanVars)
  <2> SUFFICES ASSUME TypeOK, InStep, InStep', [Next]_vars
               PROVE  [Channel!ChanNext]_(Channel!chanVars)
    OBVIOUS
  <2>p. sender # "py"
    BY DEF TypeOK, PartiesTypeOK
  <2> USE <2>p
  <2> USE DEF Channel!ChanNext, Channel!chanVars
  <2>0. /\ BlocksInv /\ ClientInv /\ ServerInv /\ ServerInv'
        /\ k \in 1..Len(blocks) /\ Len(blocks) \in Nat /\ Len(got) \in Nat
        /\ Sent \in {k - 1, k} /\ (Sent = k <=> off = FrameLen(k))
        /\ off \in Nat /\ HdrSize \in Nat \ {0}
        /\ \A b \in 1..Len(blocks) : FrameLen(b) \in Nat /\ FrameLen(b) >= HdrSize
    <3>1. BlocksInv /\ ClientInv /\ ServerInv /\ ServerInv'
      BY DEF InStep
    <3>2. SenderTypeOK
      BY DEF TypeOK
    <3> QED
      BY <3>1, <3>2, Positions, FrameLenType
  <2>1. ASSUME UNCHANGED <<blocks, rpc, got, ClientStatus>>, spc \in Parts,
               Sent' = Sent \/ (Sent' = Sent + 1 /\ Sent < Len(blocks))
        PROVE  [Channel!ChanNext]_(Channel!chanVars)
    <3>1. UNCHANGED <<Len(blocks), Len(got), ServerStatus>> /\ ClientStatus = "running"
      BY <2>1 DEF ServerStatus, ClientStatus
    <3> QED
      BY <2>1, <3>1 DEF Channel!Put
  <2>2. ASSUME UNCHANGED <<blocks, rpc, got, Sent>>, spc \in Parts,
               spc' \in Parts \cup {"failed", "killed"}
        PROVE  [Channel!ChanNext]_(Channel!chanVars)
    <3>1. UNCHANGED <<Len(blocks), Len(got), ServerStatus>>
      BY <2>2 DEF ServerStatus
    <3>2. ClientStatus = "running" /\ ClientStatus' \in {"running", "stopped"}
      BY <2>2 DEF ClientStatus
    <3> QED
      BY <2>2, <3>1, <3>2 DEF Channel!ClientStops
  <2>3. CASE KernelTakes
    <3>1. PICK m \in Nat \ {0} : off + m <= PartEnd
      BY <2>3, TakenBytes DEF TypeOK
    <3>2. /\ UNCHANGED <<blocks, spc, k, rpc, got>> /\ spc \in Parts
      BY <2>3 DEF KernelTakes, receiverVars
    <3>3. off < PartEnd /\ PartEnd <= FrameLen(k)
      <4>1. PartEnd \in Nat /\ PartEnd <= FrameLen(k)
        BY <2>0 DEF PartEnd
      <4> QED
        BY <2>0, <3>1, <4>1
    <3>4. Sent = k - 1
      BY <2>0, <3>3 DEF PartEnd
    <3>5. Sent' \in {k - 1, k}
      BY <3>2 DEF Sent
    <3>6. UNCHANGED ClientStatus
      BY <3>2 DEF ClientStatus
    <3> QED
      BY <2>0, <2>1, <3>2, <3>4, <3>5, <3>6
  <2>4. CASE SendReturns
    <3>1. UNCHANGED <<blocks, rpc, got>> /\ spc \in Parts /\ off = PartEnd
      BY <2>4 DEF SendReturns, receiverVars
    <3>2. CASE spc = "hdr" /\ spc' = "body" /\ off' = HdrSize /\ UNCHANGED <<k, start>>
      <4>1. Sent' = Sent
        BY <3>1, <3>2 DEF Sent, PartEnd, FrameLen
      <4> QED
        BY <2>2, <3>1, <3>2, <4>1
    <3>3. CASE spc = "body" /\ k < Len(blocks) /\ spc' = "hdr" /\ k' = k + 1 /\ off' = 0
      <4>1. k + 1 \in 1..Len(blocks)
        BY <2>0, <3>3
      <4>2. FrameLen(k)' # 0
        <5>1. FrameLen(k)' = FrameLen(k + 1)
          BY <3>1, <3>3 DEF FrameLen
        <5>2. FrameLen(k + 1) >= HdrSize /\ FrameLen(k + 1) \in Nat
          BY <2>0, <4>1
        <5> QED
          BY <2>0, <5>1, <5>2
      <4>3. off = FrameLen(k)
        BY <3>1, <3>3 DEF PartEnd
      <4>4. Sent = k /\ Sent' = k
        BY <2>0, <3>3, <4>2, <4>3 DEF Sent
      <4> QED
        BY <2>2, <3>1, <3>3, <4>4
    <3>4. CASE /\ spc = "body" /\ k = Len(blocks) /\ spc' = "done"
               /\ UNCHANGED <<k, off, start>>
      <4>1. off = FrameLen(k)
        BY <3>1, <3>4 DEF PartEnd
      <4>2. Sent = Len(blocks) /\ Sent' = Sent
        BY <3>1, <3>4, <4>1 DEF Sent, FrameLen
      <4>3. /\ ClientStatus = "running" /\ ClientStatus' = "done"
            /\ UNCHANGED <<Len(blocks), Len(got), ServerStatus>>
        BY <3>1, <3>4 DEF ClientStatus, ServerStatus
      <4> QED
        BY <4>2, <4>3 DEF Channel!ClientDone
    <3> QED
      BY <2>4, <3>2, <3>3, <3>4 DEF SendReturns, NextPart
  <2>5. CASE SendCutShort /\ spc \in Parts
    <3>1. /\ UNCHANGED <<blocks, rpc, got, k, off>>
          /\ spc' \in {spc, "failed"}
      BY <2>5 DEF SendCutShort, ShortSendC, ShortSendCxx, Fail, receiverVars
    <3>2. Sent' = Sent
      BY <3>1 DEF Sent, FrameLen
    <3> QED
      BY <2>2, <2>5, <3>1, <3>2
  <2>6. CASE Fail /\ spc \in Parts /\ UNCHANGED <<blocks, wire, receiverVars>>
    <3>1. Sent' = Sent
      BY <2>6 DEF Fail, Sent, FrameLen
    <3> QED
      BY <2>2, <2>6, <3>1 DEF Fail, receiverVars
  <2>7. CASE ClientKilled
    <3>1. Sent' = Sent
      BY <2>7 DEF ClientKilled, Sent, FrameLen
    <3> QED
      BY <2>2, <2>7, <3>1 DEF ClientKilled, receiverVars
  <2>8. CASE Recv \/ HeaderRead
    <3>1. /\ UNCHANGED <<blocks, spc, k, off, got>>
          /\ rpc \in Parts /\ rpc' \in Parts
      BY <2>8 DEF Recv, HeaderRead, senderVars
    <3>2. UNCHANGED <<Sent, ClientStatus, ServerStatus, Len(blocks), Len(got)>>
      BY <3>1 DEF Sent, FrameLen, ClientStatus, ServerStatus
    <3> QED
      BY <3>2
  <2>9. CASE BodyRead \/ EndOfStream \/ ServerKilled
    <3>1. UNCHANGED <<blocks, spc, k, off>> /\ rpc \in Parts
      BY <2>9 DEF BodyRead, EndOfStream, ServerKilled, senderVars
    <3>2. UNCHANGED <<Sent, ClientStatus, Len(blocks)>> /\ ServerStatus = "running"
      BY <3>1 DEF Sent, FrameLen, ClientStatus, ServerStatus
    <3>3. CASE rpc' = "done" /\ got' = got
      <4>1. Sent = Len(blocks) /\ Len(got) = Len(blocks) - 1
        BY <2>0, <3>2, <3>3, <3>1 DEF ServerInv
      <4>2. ServerStatus' = "done"
        BY <3>3 DEF ServerStatus
      <4> QED
        BY <3>2, <3>3, <4>1, <4>2 DEF Channel!ServerDone
    <3>4. CASE rpc' = "hdr" /\ Len(got') = Len(got) + 1
      <4>1. Len(got) + 1 <= Sent /\ Len(got) + 1 < Len(blocks)
        BY <2>0, <3>1, <3>2, <3>4 DEF ServerInv
      <4>2. ServerStatus' = "running"
        BY <3>4 DEF ServerStatus
      <4>3. Len(got) < Sent
        BY <2>0, <4>1
      <4> QED
        BY <3>2, <3>4, <4>1, <4>2, <4>3 DEF Channel!Get
    <3>5. CASE rpc' = "failed" /\ got' = got
      <4>1. Len(got) = Sent /\ spc \notin Parts \cup {"done"}
        BY <2>0, <3>1, <3>2, <3>5 DEF ServerInv
      <4>2. ServerStatus' = "stopped" /\ ClientStatus = "stopped"
        BY <3>5, <4>1 DEF ServerStatus, ClientStatus
      <4>3. Channel!ServerStops(FALSE)
        BY <3>2, <3>5, <4>1, <4>2 DEF Channel!ServerStops
      <4> QED
        BY <4>3
    <3>6. CASE rpc' = "killed" /\ got' = got
      <4>1. ServerStatus' = "crashed"
        BY <3>6 DEF ServerStatus
      <4>2. Channel!ServerStops(TRUE)
        BY <3>2, <3>6, <4>1 DEF Channel!ServerStops
      <4> QED
        BY <4>2
    <3>7. CASE BodyRead
      <4>1. CASE rpc' = "done" /\ got' = got
        BY <3>3, <4>1
      <4>2. CASE rpc' = "hdr" /\ got' = Append(got, SubSeq(wire, from + 1, rd))
        <5>1. got \in Seq(Seq(Byte)) /\ SubSeq(wire, from + 1, rd) \in Seq(Byte)
          <6>1. wire \in Seq(Byte) /\ got \in Seq(Seq(Byte)) /\ Len(wire) \in Nat
            BY DEF TypeOK, SenderTypeOK, ReceiverTypeOK
          <6>2. rd \in 0..Len(wire) /\ from \in 0..rd
            BY DEF TypeOK, ReceiverTypeOK
          <6> QED
            BY <6>1, <6>2
        <5>2. Len(got') = Len(got) + 1
          BY <4>2, <5>1, AppendElement
        <5> QED
          BY <3>4, <4>2, <5>2
      <4> QED
        BY <3>7, <4>1, <4>2 DEF BodyRead
    <3>8. CASE EndOfStream
      BY <3>5, <3>8 DEF EndOfStream
    <3>9. CASE ServerKilled
      BY <3>6, <3>9 DEF ServerKilled
    <3> QED
      BY <2>9, <3>7, <3>8, <3>9
  <2>10. CASE UNCHANGED vars
    <3>1. UNCHANGED <<Sent, ClientStatus, ServerStatus, Len(blocks), Len(got)>>
      BY <2>10 DEF vars, senderVars, receiverVars, Sent, FrameLen, ClientStatus, ServerStatus
    <3> QED
      BY <3>1
  <2> QED
    BY <2>3, <2>4, <2>5, <2>6, <2>7, <2>8, <2>9, <2>10
    DEF Next, Client, Server, SendInterrupted, SendReset, SendEintr, SendRefused, Ended
<1> QED
  BY <1>1, <1>2, TypeCorrect, StaysInStep, PTL DEF Spec, ImplementsChannel, Channel!ChanSpec
=============================================================================
