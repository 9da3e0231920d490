------------------------- MODULE WorkerThreadProofs -------------------------
(***************************************************************************)
(* Machine-checked proofs about WorkerThread, for any tasks and any number *)
(* of calls of stop().                                                     *)
(***************************************************************************)
EXTENDS WorkerThread, TLAPS

\* Appending an element keeps what was there.
LEMMA AppendKeeps ==
    ASSUME NEW S, NEW s \in Seq(S), NEW x \in S
    PROVE  /\ Append(s, x) \in Seq(S)
           /\ Len(Append(s, x)) = Len(s) + 1
           /\ \A i \in 1..Len(s) : Append(s, x)[i] = s[i]
           /\ Append(s, x)[Len(s) + 1] = x
OBVIOUS

\* Taking the oldest element moves the others one place up.
LEMMA TailMoves ==
    ASSUME NEW S, NEW s \in Seq(S), s # << >>
    PROVE  /\ Head(s) \in S /\ Head(s) = s[1]
           /\ Tail(s) \in Seq(S)
           /\ Len(s) \in Nat /\ Len(s) >= 1
           /\ Len(Tail(s)) = Len(s) - 1
           /\ \A i \in 1..Len(Tail(s)) : Tail(s)[i] = s[i + 1]
OBVIOUS

\* The inductive invariant: join() returns only after the end of the thread.
Inv == /\ TypeOK /\ FirstInFirstOut /\ EndsWithStop
       /\ joiner = "returned" => worker = "ended"

LEMMA InitInv == Init => Inv
BY DEF Init, Inv, TypeOK, FirstInFirstOut, EndsWithStop, Items

LEMMA PutKeepsInv ==
    ASSUME Inv, NEW item \in Items, PutTask(item)
    PROVE  Inv'
<1>1. /\ queue \in Seq(Items) /\ put \in Seq(Items)
      /\ Len(queue) \in Nat /\ Len(put) \in Nat
      /\ Len(ran) \in Nat /\ Len(current) \in Nat
  BY DEF Inv, TypeOK
<1>2. /\ queue' \in Seq(Items) /\ Len(queue') = Len(queue) + 1
      /\ \A i \in 1..Len(queue) : queue'[i] = queue[i]
      /\ queue'[Len(queue) + 1] = item
  BY <1>1, AppendKeeps DEF PutTask
<1>3. /\ put' \in Seq(Items) /\ Len(put') = Len(put) + 1
      /\ \A i \in 1..Len(put) : put'[i] = put[i]
      /\ put'[Len(put) + 1] = item
  BY <1>1, AppendKeeps DEF PutTask
<1>4. TypeOK'
  BY <1>2, <1>3 DEF Inv, TypeOK, PutTask
<1>5. FirstInFirstOut'
  <2>1. UNCHANGED <<ran, current>> /\ FirstInFirstOut
    BY DEF PutTask, Inv
  <2>2. Len(put') = Len(ran') + Len(current') + Len(queue')
    BY <1>1, <1>2, <1>3, <2>1 DEF FirstInFirstOut
  <2>3. /\ \A i \in 1..Len(ran') : ran'[i] = put'[i]
        /\ \A i \in 1..Len(current') : current'[i] = put'[Len(ran') + i]
    <3>1. /\ Len(put) = Len(ran) + Len(current) + Len(queue)
          /\ \A i \in 1..Len(ran) : ran[i] = put[i]
          /\ \A i \in 1..Len(current) : current[i] = put[Len(ran) + i]
      BY <2>1 DEF FirstInFirstOut
    <3>2. /\ \A i \in 1..Len(ran) : i \in 1..Len(put)
          /\ \A i \in 1..Len(current) : Len(ran) + i \in 1..Len(put)
      BY <1>1, <3>1
    <3>3. \A i \in 1..Len(ran) : ran[i] = put'[i]
      BY <1>3, <3>1, <3>2
    <3>4. \A i \in 1..Len(current) : current[i] = put'[Len(ran) + i]
      BY <1>3, <3>1, <3>2
    <3> QED
      BY <2>1, <3>3, <3>4
  <2>4. ASSUME NEW i \in 1..Len(queue')
        PROVE  queue'[i] = put'[Len(ran') + Len(current') + i]
    <3>1. Len(put) = Len(ran) + Len(current) + Len(queue)
      BY <2>1 DEF FirstInFirstOut
    <3>2. CASE i \in 1..Len(queue)
      <4>1. Len(ran) + Len(current) + i \in 1..Len(put)
        BY <1>1, <3>1, <3>2
      <4>2. queue[i] = put[Len(ran) + Len(current) + i]
        BY <2>1, <3>2 DEF FirstInFirstOut
      <4> QED
        BY <1>2, <1>3, <2>1, <3>2, <4>1, <4>2
    <3>3. CASE i = Len(queue) + 1
      <4>1. Len(ran) + Len(current) + i = Len(put) + 1
        BY <1>1, <3>1, <3>3
      <4> QED
        BY <1>2, <1>3, <2>1, <3>3, <4>1
    <3> QED
      BY <1>1, <1>2, <3>2, <3>3
  <2> QED
    BY <2>2, <2>3, <2>4 DEF FirstInFirstOut
<1> QED
  BY <1>4, <1>5 DEF Inv, EndsWithStop, PutTask

LEMMA FetchKeepsInv ==
    ASSUME Inv, Fetch
    PROVE  Inv'
<1>1. /\ queue \in Seq(Items) /\ queue # << >> /\ current = << >>
      /\ Len(ran) \in Nat /\ Len(current) = 0
  BY DEF Inv, TypeOK, Fetch
<1>2. /\ Head(queue) \in Items /\ Head(queue) = queue[1]
      /\ queue' \in Seq(Items) /\ Len(queue) \in Nat /\ Len(queue) >= 1
      /\ Len(queue') = Len(queue) - 1
      /\ \A i \in 1..Len(queue') : queue'[i] = queue[i + 1]
  BY <1>1, TailMoves DEF Fetch
<1>3. /\ current' \in Seq(Items) /\ Len(current') = 1 /\ current'[1] = queue[1]
  BY <1>2 DEF Fetch
<1>4. TypeOK'
  BY <1>2, <1>3 DEF Inv, TypeOK, Fetch
<1>5. FirstInFirstOut'
  <2>1. UNCHANGED <<ran, put>> /\ FirstInFirstOut
    BY DEF Fetch, Inv
  <2> QED
    BY <1>1, <1>2, <1>3, <2>1 DEF FirstInFirstOut
<1> QED
  BY <1>4, <1>5 DEF Inv, EndsWithStop, Fetch

LEMMA ExecuteKeepsInv ==
    ASSUME Inv, Execute
    PROVE  Inv'
<1>1. /\ ran \in Seq(Items) /\ Len(ran) \in Nat
      /\ Len(current) = 1 /\ current[1] \in Items
      /\ Len(queue) \in Nat
  <2>1. /\ ran \in Seq(Items) /\ queue \in Seq(Items)
        /\ current \in Seq(Items) /\ Len(current) = 1
    BY DEF Inv, TypeOK, Execute
  <2> QED
    BY <2>1
<1>2. /\ ran' \in Seq(Items) /\ Len(ran') = Len(ran) + 1
      /\ \A i \in 1..Len(ran) : ran'[i] = ran[i]
      /\ ran'[Len(ran) + 1] = current[1]
  BY <1>1, AppendKeeps DEF Execute
<1>3. current' = << >> /\ Len(current') = 0 /\ current' \in Seq(Items)
  BY DEF Execute
<1>4. TypeOK'
  BY <1>2, <1>3 DEF Inv, TypeOK, Execute, AfterTask
<1>5. FirstInFirstOut'
  <2>1. UNCHANGED <<queue, put>> /\ FirstInFirstOut
    BY DEF Execute, Inv
  <2> QED
    BY <1>1, <1>2, <1>3, <2>1 DEF FirstInFirstOut
<1>6. EndsWithStop'
  <2>1. \A i \in 1..Len(ran) : ran[i] \notin Stops
    BY DEF Inv, EndsWithStop, Execute
  <2>2. worker' = "ended" <=> current[1] \in Stops
    BY DEF Execute, AfterTask
  <2> QED
    BY <1>1, <1>2, <2>1, <2>2 DEF EndsWithStop
<1> QED
  BY <1>4, <1>5, <1>6 DEF Inv, Execute

LEMMA NextKeepsInv == Inv /\ [Next]_vars => Inv'
<1> SUFFICES ASSUME Inv, [Next]_vars PROVE Inv'
  OBVIOUS
<1>1. CASE \E item \in Items : PutTask(item)
  BY <1>1, PutKeepsInv
<1>2. CASE Start
  BY <1>2 DEF Start, Inv, TypeOK, FirstInFirstOut, EndsWithStop
<1>3. CASE Join
  BY <1>3 DEF Join, Inv, TypeOK, FirstInFirstOut, EndsWithStop
<1>4. CASE JoinReturns
  BY <1>4 DEF JoinReturns, Inv, TypeOK, FirstInFirstOut, EndsWithStop
<1>5. CASE UNCHANGED vars
  BY <1>5 DEF vars, Inv, TypeOK, FirstInFirstOut, EndsWithStop
<1> QED
  BY <1>1, <1>2, <1>3, <1>4, <1>5, FetchKeepsInv, ExecuteKeepsInv
  DEF Next, Callers, Thread

LEMMA InvHolds == Spec => []Inv
BY InitInv, NextKeepsInv, PTL DEF Spec

\* No exception of a task makes the thread skip, repeat or reorder a task.
THEOREM TasksInOrder == Spec => [](TypeOK /\ FirstInFirstOut)
<1>1. Inv => TypeOK /\ FirstInFirstOut
  BY DEF Inv
<1> QED
  BY <1>1, InvHolds, PTL

\* The thread ends with the first StopTask, never by a task's exception.
THEOREM OnlyStopEnds == Spec => []EndsWithStop
<1>1. Inv => EndsWithStop
  BY DEF Inv
<1> QED
  BY <1>1, InvHolds, PTL

\* What the caller of join() may rely on when it returns.
THEOREM JoinIsBarrier == Spec => []JoinMeansDone
<1>1. Inv => JoinMeansDone
  <2> SUFFICES ASSUME Inv, joiner = "returned" PROVE JoinMeansDone
    BY DEF JoinMeansDone
  <2>1. /\ Len(ran) \in Nat /\ Len(put) \in Nat /\ Len(ran) <= Len(put)
        /\ Len(ran) > 0
        /\ \A i \in 1..Len(ran) : ran[i] = put[i]
        /\ ran[Len(ran)] \in Stops
        /\ \A i \in 1..Len(ran) : ran[i] \in Stops => i = Len(ran)
    BY DEF Inv, TypeOK, FirstInFirstOut, EndsWithStop
  <2>2. /\ put[Len(ran)] \in Stops
        /\ \A i \in 1..Len(ran) : put[i] \in Stops => i = Len(ran)
    BY <2>1
  <2>3. \E i \in 1..Len(put) : put[i] \in Stops
    BY <2>1, <2>2
  <2>4. ASSUME NEW i \in 1..Len(put)
        PROVE  i <= Len(ran) <=> \A j \in 1..(i - 1) : put[j] \notin Stops
    BY <2>1, <2>2, <2>4
  <2> QED
    BY <2>3, <2>4 DEF JoinMeansDone
<1> QED
  BY <1>1, InvHolds, PTL
=============================================================================
