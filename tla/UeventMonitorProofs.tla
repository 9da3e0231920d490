------------------------- MODULE UeventMonitorProofs -------------------------
(***************************************************************************)
(* Machine-checked proofs about UeventMonitor, for any devices, any size   *)
(* of the socket's buffer, any expiry, and any number of messages, checks  *)
(* and failures.                                                           *)
(***************************************************************************)
EXTENDS UeventMonitor, SequenceTheorems, TLAPS

-----------------------------------------------------------------------------
(* Queues, and the sets of what is in them.                                *)

LEMMA SetOfSeq ==
    ASSUME NEW S, NEW s \in Seq(S)
    PROVE  /\ ToSet(s) \subseteq S
           /\ Len(s) \in Nat /\ \A i \in 1..Len(s) : s[i] \in ToSet(s)
           /\ \A x \in ToSet(s) : \E i \in 1..Len(s) : s[i] = x
           /\ \A T : S \subseteq T => s \in Seq(T)
           /\ s = << >> => ToSet(s) = {}
BY DEF ToSet

LEMMA SetOfAppend ==
    ASSUME NEW S, NEW s \in Seq(S), NEW x \in S
    PROVE  /\ Append(s, x) \in Seq(S) /\ ToSet(Append(s, x)) = ToSet(s) \cup {x}
           /\ Len(Append(s, x)) = Len(s) + 1
           /\ Append(s, x)[Len(s) + 1] = x
           /\ \A i \in 1..Len(s) : Append(s, x)[i] = s[i]
<1> DEFINE t == Append(s, x)
<1>1. /\ t \in Seq(S) /\ Len(t) = Len(s) + 1 /\ t[Len(s) + 1] = x /\ Len(s) \in Nat
      /\ \A i \in 1..Len(s) : t[i] = s[i]
  OBVIOUS
<1> HIDE DEF t
<1>2. \A y : y \in ToSet(s) <=> \E i \in 1..Len(s) : s[i] = y
  BY DEF ToSet
<1>3. \A y : y \in ToSet(t) <=> \E i \in 1..(Len(s) + 1) : t[i] = y
  BY <1>1 DEF ToSet
<1>4. \A y : y \in ToSet(t) <=> y \in ToSet(s) \/ y = x
  <2> TAKE y
  <2>1. ASSUME y \in ToSet(t) PROVE y \in ToSet(s) \/ y = x
    <3>1. PICK i \in 1..(Len(s) + 1) : t[i] = y
      BY <1>3, <2>1
    <3>2. i \in 1..Len(s) \/ i = Len(s) + 1
      BY <1>1
    <3> QED
      BY <1>1, <1>2, <3>1, <3>2
  <2>2. ASSUME y \in ToSet(s) PROVE y \in ToSet(t)
    <3>1. PICK i \in 1..Len(s) : s[i] = y
      BY <1>2, <2>2
    <3>2. i \in 1..(Len(s) + 1) /\ t[i] = y
      BY <1>1, <3>1
    <3> QED
      BY <1>3, <3>2
  <2>3. ASSUME y = x PROVE y \in ToSet(t)
    BY <1>1, <1>3, <2>3
  <2> QED
    BY <2>1, <2>2, <2>3
<1> QED
  BY <1>1, <1>4 DEF t

LEMMA SetOfTail ==
    ASSUME NEW S, NEW s \in Seq(S), s # << >>
    PROVE  /\ Head(s) \in S /\ Tail(s) \in Seq(S) /\ Len(Tail(s)) = Len(s) - 1
           /\ ToSet(s) = {Head(s)} \cup ToSet(Tail(s))
           /\ Head(s) = s[1] /\ \A i \in 1..(Len(s) - 1) : Tail(s)[i] = s[i + 1]
<1> DEFINE t == Tail(s)
           h == Head(s)
<1>1. /\ h \in S /\ t \in Seq(S) /\ Len(t) = Len(s) - 1 /\ h = s[1]
      /\ Len(s) \in Nat /\ Len(s) >= 1
      /\ \A i \in 1..(Len(s) - 1) : t[i] = s[i + 1]
  OBVIOUS
<1> HIDE DEF t, h
<1>2. \A y : y \in ToSet(s) <=> \E i \in 1..Len(s) : s[i] = y
  BY DEF ToSet
<1>3. \A y : y \in ToSet(t) <=> \E i \in 1..(Len(s) - 1) : t[i] = y
  BY <1>1 DEF ToSet
<1>4. \A y : y \in ToSet(s) <=> y = h \/ y \in ToSet(t)
  <2> TAKE y
  <2>1. ASSUME y \in ToSet(s) PROVE y = h \/ y \in ToSet(t)
    <3>1. PICK i \in 1..Len(s) : s[i] = y
      BY <1>2, <2>1
    <3>2. CASE i = 1
      BY <1>1, <3>1, <3>2
    <3>3. CASE i # 1
      <4>1. i - 1 \in 1..(Len(s) - 1) /\ (i - 1) + 1 = i
        BY <1>1, <3>3
      <4>2. t[i - 1] = y
        BY <1>1, <3>1, <4>1
      <4> QED
        BY <1>3, <4>1, <4>2
    <3> QED
      BY <3>2, <3>3
  <2>2. ASSUME y = h PROVE y \in ToSet(s)
    BY <1>1, <1>2, <2>2
  <2>3. ASSUME y \in ToSet(t) PROVE y \in ToSet(s)
    <3>1. PICK i \in 1..(Len(s) - 1) : t[i] = y
      BY <1>3, <2>3
    <3>2. i + 1 \in 1..Len(s) /\ s[i + 1] = y
      BY <1>1, <3>1
    <3> QED
      BY <1>2, <3>2
  <2> QED
    BY <2>1, <2>2, <2>3
<1> QED
  BY <1>1, <1>4 DEF t, h

LEMMA SetOfConcat ==
    ASSUME NEW S, NEW s \in Seq(S), NEW t \in Seq(S)
    PROVE  /\ s \o t \in Seq(S) /\ Len(s \o t) = Len(s) + Len(t)
           /\ ToSet(s \o t) = ToSet(s) \cup ToSet(t)
           /\ \A i \in 1..(Len(s) + Len(t)) :
                 (s \o t)[i] = IF i <= Len(s) THEN s[i] ELSE t[i - Len(s)]
<1> DEFINE u == s \o t
<1>1. /\ u \in Seq(S) /\ Len(u) = Len(s) + Len(t) /\ Len(s) \in Nat /\ Len(t) \in Nat
      /\ \A i \in 1..(Len(s) + Len(t)) :
            u[i] = IF i <= Len(s) THEN s[i] ELSE t[i - Len(s)]
  BY ConcatProperties
<1> HIDE DEF u
<1>2. /\ \A y : y \in ToSet(s) <=> \E i \in 1..Len(s) : s[i] = y
      /\ \A y : y \in ToSet(t) <=> \E i \in 1..Len(t) : t[i] = y
  BY DEF ToSet
<1>3. \A y : y \in ToSet(u) <=> \E i \in 1..(Len(s) + Len(t)) : u[i] = y
  <2>1. DOMAIN u = 1..(Len(s) + Len(t))
    BY <1>1
  <2> QED
    BY <2>1 DEF ToSet
<1>4. \A y : y \in ToSet(u) <=> y \in ToSet(s) \/ y \in ToSet(t)
  <2> TAKE y
  <2>1. ASSUME y \in ToSet(u) PROVE y \in ToSet(s) \/ y \in ToSet(t)
    <3>1. PICK i \in 1..(Len(s) + Len(t)) : u[i] = y
      BY <1>3, <2>1
    <3>2. CASE i <= Len(s)
      BY <1>1, <1>2, <3>1, <3>2
    <3>3. CASE i > Len(s)
      <4>1. i - Len(s) \in 1..Len(t) /\ t[i - Len(s)] = y
        BY <1>1, <3>1, <3>3
      <4> QED
        BY <1>2, <4>1
    <3> QED
      BY <1>1, <3>2, <3>3
  <2>2. ASSUME y \in ToSet(s) PROVE y \in ToSet(u)
    <3>1. PICK i \in 1..Len(s) : s[i] = y
      BY <1>2, <2>2
    <3>2. i \in 1..(Len(s) + Len(t)) /\ u[i] = y
      BY <1>1, <3>1
    <3> QED
      BY <1>3, <3>2
  <2>3. ASSUME y \in ToSet(t) PROVE y \in ToSet(u)
    <3>1. PICK i \in 1..Len(t) : t[i] = y
      BY <1>2, <2>3
    <3>2. /\ Len(s) + i \in 1..(Len(s) + Len(t)) /\ ~ (Len(s) + i <= Len(s))
          /\ (Len(s) + i) - Len(s) = i
      BY <1>1, <3>1
    <3>3. u[Len(s) + i] = y
      BY <1>1, <3>1, <3>2
    <3> QED
      BY <1>3, <3>2, <3>3
  <2> QED
    BY <2>1, <2>2, <2>3
<1> QED
  BY <1>1, <1>4 DEF u

\* Queues in order stay so when something newer is put behind them,
LEMMA AppendInOrder ==
    ASSUME NEW s \in Seq(Nat), NEW x \in Nat, Increasing(s), Before(ToSet(s), {x})
    PROVE  Increasing(Append(s, x))
<1>1. /\ Len(s) \in Nat /\ \A i \in 1..Len(s) : s[i] \in ToSet(s)
      /\ Len(Append(s, x)) = Len(s) + 1 /\ Append(s, x)[Len(s) + 1] = x
      /\ \A i \in 1..Len(s) : Append(s, x)[i] = s[i]
  BY SetOfSeq, SetOfAppend
<1> DEFINE t == Append(s, x)
<1> HIDE DEF t
<1>2. ASSUME NEW i \in 1..(Len(s) + 1), NEW j \in 1..(Len(s) + 1),
             i < j, t[i] # Check, t[j] # Check
      PROVE  t[i] < t[j]
  <2>1. i \in 1..Len(s) /\ t[i] = s[i] /\ s[i] \in ToSet(s)
    BY <1>1, <1>2 DEF t
  <2>2. CASE j = Len(s) + 1
    <3>1. t[j] = x
      BY <1>1, <2>2 DEF t
    <3> QED
      BY <1>2, <2>1, <3>1 DEF Before
  <2>3. CASE j # Len(s) + 1
    <3>1. j \in 1..Len(s) /\ t[j] = s[j]
      BY <1>1, <2>3 DEF t
    <3> QED
      BY <1>2, <2>1, <3>1 DEF Increasing
  <2> QED
    BY <2>2, <2>3
<1> QED
  BY <1>1, <1>2 DEF t, Increasing

\* when the first is taken, which is older than the others,
LEMMA TailInOrder ==
    ASSUME NEW s \in Seq(Nat), s # << >>, Increasing(s)
    PROVE  Increasing(Tail(s)) /\ Before({Head(s)}, ToSet(Tail(s)))
<1> DEFINE t == Tail(s)
           h == Head(s)
<1>1. /\ t \in Seq(Nat) /\ Len(t) = Len(s) - 1 /\ h = s[1] /\ Len(s) \in Nat
      /\ \A i \in 1..(Len(s) - 1) : t[i] = s[i + 1]
  BY SetOfTail, SetOfSeq
<1> HIDE DEF t, h
<1>2. \A x \in ToSet(t) : \E i \in 1..(Len(s) - 1) : t[i] = x
  BY <1>1, SetOfSeq
<1>3. Increasing(t)
  <2> SUFFICES ASSUME NEW i \in 1..(Len(s) - 1), NEW j \in 1..(Len(s) - 1), i < j,
                      t[i] # Check, t[j] # Check
               PROVE  t[i] < t[j]
    BY <1>1 DEF Increasing
  <2>1. /\ i + 1 \in 1..Len(s) /\ j + 1 \in 1..Len(s) /\ i + 1 < j + 1
    BY <1>1
  <2>2. t[i] = s[i + 1] /\ t[j] = s[j + 1]
    BY <1>1, Zenon
  <2> QED
    BY <2>1, <2>2 DEF Increasing
<1>4. ASSUME NEW n \in ToSet(t), n # Check, h # Check PROVE h < n
  <2>1. PICK i \in 1..(Len(s) - 1) : t[i] = n
    BY <1>2
  <2>2. 1 \in 1..Len(s) /\ i + 1 \in 1..Len(s) /\ 1 < i + 1 /\ s[i + 1] = n
    BY <1>1, <2>1
  <2> QED
    BY <1>1, <1>4, <2>2 DEF Increasing
<1> QED
  BY <1>3, <1>4 DEF Before, t, h

\* and when one is put behind the other.
LEMMA ConcatInOrder ==
    ASSUME NEW s \in Seq(Nat), NEW t \in Seq(Nat), Increasing(s), Increasing(t),
           Before(ToSet(s), ToSet(t))
    PROVE  Increasing(s \o t)
<1> DEFINE u == s \o t
<1>1. /\ Len(u) = Len(s) + Len(t) /\ Len(s) \in Nat /\ Len(t) \in Nat
      /\ \A i \in 1..(Len(s) + Len(t)) :
            u[i] = IF i <= Len(s) THEN s[i] ELSE t[i - Len(s)]
      /\ \A i \in 1..Len(s) : s[i] \in ToSet(s)
      /\ \A i \in 1..Len(t) : t[i] \in ToSet(t)
  BY SetOfSeq, SetOfConcat
<1> HIDE DEF u
<1>2. ASSUME NEW i \in 1..(Len(s) + Len(t)), NEW j \in 1..(Len(s) + Len(t)),
             i < j, u[i] # Check, u[j] # Check
      PROVE  u[i] < u[j]
  <2>1. CASE j <= Len(s)
    <3>1. i \in 1..Len(s) /\ j \in 1..Len(s) /\ u[i] = s[i] /\ u[j] = s[j]
      BY <1>1, <1>2, <2>1
    <3> QED
      BY <1>2, <3>1 DEF Increasing
  <2>2. CASE i <= Len(s) /\ j > Len(s)
    <3>1. i \in 1..Len(s) /\ u[i] = s[i]
      BY <1>1, <2>2
    <3>2. j - Len(s) \in 1..Len(t) /\ u[j] = t[j - Len(s)]
      BY <1>1, <2>2
    <3>3. u[i] \in ToSet(s) /\ u[j] \in ToSet(t)
      BY <1>1, <3>1, <3>2
    <3> QED
      BY <1>2, <3>3 DEF Before
  <2>3. CASE i > Len(s)
    <3>1. /\ i - Len(s) \in 1..Len(t) /\ j - Len(s) \in 1..Len(t)
          /\ i - Len(s) < j - Len(s)
          /\ u[i] = t[i - Len(s)] /\ u[j] = t[j - Len(s)]
      BY <1>1, <1>2, <2>3
    <3> QED
      BY <1>2, <3>1 DEF Increasing
  <2> QED
    BY <1>1, <2>1, <2>2, <2>3
<1> QED
  BY <1>1, <1>2 DEF u, Increasing

LEMMA ShortInOrder ==
    ASSUME NEW S, NEW s \in Seq(S), Len(s) <= 1
    PROVE  Increasing(s)
BY DEF Increasing

\* One message.
LEMMA SetOfOne ==
    ASSUME NEW S, NEW x \in S
    PROVE  <<x>> \in Seq(S) /\ Len(<<x>>) = 1 /\ ToSet(<<x>>) = {x}
BY DEF ToSet

LEMMA OneInSeq ==
    ASSUME NEW S, NEW s \in Seq(S), Len(s) <= 1, s # << >>
    PROVE  Head(s) \in S /\ Len(s) = 1 /\ ToSet(s) = {Head(s)}
BY DEF ToSet

-----------------------------------------------------------------------------
(* The pipeline, and what the types say of it.                             *)

LEMMA SixSets ==
    ASSUME NEW p \in Seq(Nat), NEW a \in Seq(Nat), NEW r \in Seq(Nat), NEW t \in Seq(Nat),
           NEW h \in Seq(Nat), NEW n \in Seq(Nat)
    PROVE  \A x : x \in ToSet(p \o a \o r \o t \o h \o n)
                  <=> \/ x \in ToSet(p) \/ x \in ToSet(a) \/ x \in ToSet(r)
                      \/ x \in ToSet(t) \/ x \in ToSet(h) \/ x \in ToSet(n)
<1> DEFINE b == p \o a
           c == b \o r
           d == c \o t
           e == d \o h
           f == e \o n
<1>1. b \in Seq(Nat) /\ ToSet(b) = ToSet(p) \cup ToSet(a)
  BY SetOfConcat
<1> HIDE DEF b
<1>2. c \in Seq(Nat) /\ ToSet(c) = ToSet(b) \cup ToSet(r)
  BY <1>1, SetOfConcat
<1> HIDE DEF c
<1>3. d \in Seq(Nat) /\ ToSet(d) = ToSet(c) \cup ToSet(t)
  BY <1>2, SetOfConcat
<1> HIDE DEF d
<1>4. e \in Seq(Nat) /\ ToSet(e) = ToSet(d) \cup ToSet(h)
  BY <1>3, SetOfConcat
<1> HIDE DEF e
<1>5. ToSet(f) = ToSet(e) \cup ToSet(n)
  BY <1>4, SetOfConcat
<1>6. f = p \o a \o r \o t \o h \o n
  BY DEF b, c, d, e
<1> HIDE DEF f
<1>7. \A x : x \in ToSet(f) <=> \/ x \in ToSet(p) \/ x \in ToSet(a) \/ x \in ToSet(r)
                                \/ x \in ToSet(t) \/ x \in ToSet(h) \/ x \in ToSet(n)
  BY <1>1, <1>2, <1>3, <1>4, <1>5
<1> QED
  BY <1>6, <1>7

LEMMA SixInOrder ==
    ASSUME NEW p \in Seq(Nat), NEW a \in Seq(Nat), NEW r \in Seq(Nat), NEW t \in Seq(Nat),
           NEW h \in Seq(Nat), NEW n \in Seq(Nat),
           Increasing(p), Increasing(a), Increasing(r), Increasing(t), Increasing(h),
           Increasing(n),
           Before(ToSet(p), ToSet(a) \cup ToSet(r) \cup ToSet(t) \cup ToSet(h) \cup ToSet(n)),
           Before(ToSet(a), ToSet(r) \cup ToSet(t) \cup ToSet(h) \cup ToSet(n)),
           Before(ToSet(r), ToSet(t) \cup ToSet(h) \cup ToSet(n)),
           Before(ToSet(t), ToSet(h) \cup ToSet(n)), Before(ToSet(h), ToSet(n))
    PROVE  Increasing(p \o a \o r \o t \o h \o n)
<1> DEFINE b == p \o a
           c == b \o r
           d == c \o t
           e == d \o h
<1>1. b \in Seq(Nat) /\ ToSet(b) = ToSet(p) \cup ToSet(a)
  BY SetOfConcat
<1>2. Increasing(b)
  BY ConcatInOrder DEF Before
<1> HIDE DEF b
<1>3. c \in Seq(Nat) /\ ToSet(c) = ToSet(b) \cup ToSet(r)
  BY <1>1, SetOfConcat
<1>4. Before(ToSet(b), ToSet(r))
  BY <1>1 DEF Before
<1>5. Increasing(c)
  BY <1>1, <1>2, <1>4, ConcatInOrder
<1> HIDE DEF c
<1>6. d \in Seq(Nat) /\ ToSet(d) = ToSet(c) \cup ToSet(t)
  BY <1>3, SetOfConcat
<1>7. Before(ToSet(c), ToSet(t))
  BY <1>1, <1>3 DEF Before
<1>8. Increasing(d)
  BY <1>3, <1>5, <1>7, ConcatInOrder
<1> HIDE DEF d
<1>9. e \in Seq(Nat) /\ ToSet(e) = ToSet(d) \cup ToSet(h)
  BY <1>6, SetOfConcat
<1>10. Before(ToSet(d), ToSet(h))
  BY <1>1, <1>3, <1>6 DEF Before
<1>11. Increasing(e)
  BY <1>6, <1>8, <1>10, ConcatInOrder
<1> HIDE DEF e
<1>12. Before(ToSet(e), ToSet(n))
  BY <1>1, <1>3, <1>6, <1>9 DEF Before
<1>13. Increasing(e \o n)
  BY <1>9, <1>11, <1>12, ConcatInOrder
<1> QED
  BY <1>13 DEF b, c, d, e

LEMMA QueueOfNumbers ==
    ASSUME NEW k \in Nat, NEW s, s \in Seq(1..k) \/ s \in Seq((1..k) \cup {Check})
    PROVE  /\ s \in Seq(Nat) /\ s \in Seq((1..k) \cup {Check})
           /\ ToSet(s) \subseteq (1..k) \cup {Check}
           /\ s \in Seq(1..k) => ToSet(s) \subseteq 1..k
<1>1. (1..k) \cup {Check} \subseteq Nat /\ 1..k \subseteq (1..k) \cup {Check}
  BY DEF Check
<1>2. s \in Seq((1..k) \cup {Check})
  <2>1. \A S, T : S \subseteq T /\ s \in Seq(S) => s \in Seq(T)
    BY SetOfSeq, Zenon
  <2> QED
    BY <1>1, <2>1, Zenon
<1>3. s \in Seq(Nat) /\ ToSet(s) \subseteq (1..k) \cup {Check}
  BY <1>1, <1>2, SetOfSeq
<1>4. s \in Seq(1..k) => ToSet(s) \subseteq 1..k
  BY SetOfSeq
<1> QED
  BY <1>2, <1>3, <1>4

LEMMA Types ==
    ASSUME TypeOK
    PROVE  /\ Len(emitted) \in Nat /\ Ids \subseteq Nat /\ Check \notin Ids
           /\ pending \in Seq(Ids) /\ adding \in Seq(Ids) /\ rest \in Seq(Ids)
           /\ hand \in Seq(Ids) /\ netlink \in Seq(Ids) /\ tasks \in Seq(Ids \cup {Check})
           /\ pending \in Seq(Nat) /\ adding \in Seq(Nat) /\ rest \in Seq(Nat)
           /\ hand \in Seq(Nat) /\ netlink \in Seq(Nat) /\ tasks \in Seq(Nat)
           /\ ToSet(pending) \subseteq Ids /\ ToSet(adding) \subseteq Ids
           /\ ToSet(rest) \subseteq Ids /\ ToSet(hand) \subseteq Ids /\ ToSet(netlink) \subseteq Ids
           /\ ToSet(tasks) \subseteq Ids \cup {Check}
           /\ SettledIds \subseteq Ids
           /\ OnWay = (ToSet(pending) \cup ToSet(adding) \cup ToSet(rest) \cup ToSet(tasks)
                       \cup ToSet(hand) \cup ToSet(netlink)) \ {Check}
<1>1. Len(emitted) \in Nat
  <2> DEFINE M == [kind : {"add", "remove", "other"}, dev : Devices]
  <2>1. emitted \in Seq(M)
    BY DEF TypeOK
  <2> HIDE DEF M
  <2> QED
    BY <2>1
<1>2. /\ pending \in Seq(Ids) /\ adding \in Seq(Ids) /\ rest \in Seq(Ids) /\ hand \in Seq(Ids)
      /\ netlink \in Seq(Ids) /\ tasks \in Seq(Ids \cup {Check})
  BY DEF TypeOK
<1>3. /\ pending \in Seq(Nat) /\ adding \in Seq(Nat) /\ rest \in Seq(Nat) /\ hand \in Seq(Nat)
      /\ netlink \in Seq(Nat) /\ tasks \in Seq(Nat)
      /\ ToSet(pending) \subseteq Ids /\ ToSet(adding) \subseteq Ids
      /\ ToSet(rest) \subseteq Ids
      /\ ToSet(hand) \subseteq Ids /\ ToSet(netlink) \subseteq Ids
      /\ ToSet(tasks) \subseteq Ids \cup {Check}
  BY <1>1, <1>2, QueueOfNumbers DEF Ids
<1>4. Ids \subseteq Nat /\ Check \notin Ids
  BY <1>1 DEF Ids, Check
<1>5. SettledIds \subseteq Ids
  <2> DEFINE V == {"added", "removed", "unknown", "ignored", "expired"}
  <2>1. settled \in Seq(Ids \X V)
    BY DEF TypeOK
  <2> HIDE DEF V
  <2>2. \A i \in 1..Len(settled) : settled[i][1] \in Ids
    BY <2>1
  <2> QED
    BY <2>2 DEF SettledIds
<1>6. OnWay = (ToSet(pending) \cup ToSet(adding) \cup ToSet(rest) \cup ToSet(tasks)
               \cup ToSet(hand) \cup ToSet(netlink)) \ {Check}
  <2>1. \A x : x \in ToSet(pending \o adding \o rest \o tasks \o hand \o netlink)
               <=> \/ x \in ToSet(pending) \/ x \in ToSet(adding) \/ x \in ToSet(rest)
                   \/ x \in ToSet(tasks) \/ x \in ToSet(hand) \/ x \in ToSet(netlink)
    <3> DEFINE p == pending  a == adding  r == rest  t == tasks  h == hand  n == netlink
    <3>1. /\ p \in Seq(Nat) /\ a \in Seq(Nat) /\ r \in Seq(Nat) /\ t \in Seq(Nat)
          /\ h \in Seq(Nat) /\ n \in Seq(Nat)
      BY <1>3
    <3> HIDE DEF p, a, r, t, h, n
    <3>2. \A x : x \in ToSet(p \o a \o r \o t \o h \o n)
                 <=> \/ x \in ToSet(p) \/ x \in ToSet(a) \/ x \in ToSet(r)
                     \/ x \in ToSet(t) \/ x \in ToSet(h) \/ x \in ToSet(n)
      BY <3>1, SixSets, SMTT(30)
    <3> QED
      BY <3>2 DEF p, a, r, t, h, n
  <2>2. OnWay = ToSet(pending \o adding \o rest \o tasks \o hand \o netlink) \ {Check}
    BY DEF OnWay, Pipeline
  <2> QED
    BY <2>1, <2>2
<1> QED
  BY <1>1, <1>2, <1>3, <1>4, <1>5, <1>6

\* The same of the next state.
LEMMA OnWayNext ==
    ASSUME TypeOK'
    PROVE  OnWay' = (ToSet(pending') \cup ToSet(adding') \cup ToSet(rest') \cup ToSet(tasks')
                     \cup ToSet(hand') \cup ToSet(netlink')) \ {Check}
<1>1. Len(emitted') \in Nat
  <2> DEFINE M == [kind : {"add", "remove", "other"}, dev : Devices]
  <2>1. emitted' \in Seq(M)
    BY DEF TypeOK
  <2> HIDE DEF M
  <2> QED
    BY <2>1
<1>2. /\ pending' \in Seq(Ids') /\ adding' \in Seq(Ids') /\ rest' \in Seq(Ids') /\ hand' \in Seq(Ids')
      /\ netlink' \in Seq(Ids') /\ tasks' \in Seq(Ids' \cup {Check})
  BY DEF TypeOK
<1>3. /\ pending' \in Seq(Nat) /\ adding' \in Seq(Nat) /\ rest' \in Seq(Nat) /\ hand' \in Seq(Nat)
      /\ netlink' \in Seq(Nat) /\ tasks' \in Seq(Nat)
  BY <1>1, <1>2, QueueOfNumbers DEF Ids
<1> QED
  <2>1. \A x : x \in ToSet(pending' \o adding' \o rest' \o tasks' \o hand' \o netlink')
               <=> \/ x \in ToSet(pending') \/ x \in ToSet(adding') \/ x \in ToSet(rest')
                   \/ x \in ToSet(tasks') \/ x \in ToSet(hand') \/ x \in ToSet(netlink')
    <3> DEFINE p == pending'  a == adding'  r == rest'  t == tasks'  h == hand'  n == netlink'
    <3>1. /\ p \in Seq(Nat) /\ a \in Seq(Nat) /\ r \in Seq(Nat) /\ t \in Seq(Nat)
          /\ h \in Seq(Nat) /\ n \in Seq(Nat)
      BY <1>3
    <3> HIDE DEF p, a, r, t, h, n
    <3>2. \A x : x \in ToSet(p \o a \o r \o t \o h \o n)
                 <=> \/ x \in ToSet(p) \/ x \in ToSet(a) \/ x \in ToSet(r)
                     \/ x \in ToSet(t) \/ x \in ToSet(h) \/ x \in ToSet(n)
      BY <3>1, SixSets, SMTT(30)
    <3> QED
      BY <3>2 DEF p, a, r, t, h, n
  <2>2. OnWay' = ToSet(pending' \o adding' \o rest' \o tasks' \o hand' \o netlink') \ {Check}
    BY DEF OnWay, Pipeline
  <2> QED
    BY <2>1, <2>2

\* The places in order are one queue in order.
LEMMA PlacesInOrder == TypeOK /\ OrderInv => PipelineInOrder
<1> SUFFICES ASSUME TypeOK, OrderInv PROVE Increasing(Pipeline)
  BY DEF PipelineInOrder
<1>1. /\ pending \in Seq(Nat) /\ adding \in Seq(Nat) /\ rest \in Seq(Nat) /\ hand \in Seq(Nat)
      /\ netlink \in Seq(Nat) /\ tasks \in Seq(Nat) /\ Len(hand) <= 1 /\ Len(adding) <= 1
  BY Types DEF TypeOK
<1>2. Increasing(hand) /\ Increasing(adding)
  BY <1>1, ShortInOrder
<1> QED
  BY <1>1, <1>2, SixInOrder DEF OrderInv, Pipeline

-----------------------------------------------------------------------------
(* What the steps have in common.                                          *)

LEMMA OnceStays ==
    ASSUME TypeOK, ExactlyOnce, UNCHANGED <<emitted, overrun, settled, lost>>,
           failures' >= failures, failures' \in Nat, OnWay' = OnWay
    PROVE  ExactlyOnce'
<1>1. Ids' = Ids /\ SettledIds' = SettledIds
  BY DEF Ids, SettledIds
<1>2. failures > 0 => failures' > 0
  BY UeventAssumption DEF TypeOK
<1> QED
  BY <1>1, <1>2 DEF ExactlyOnce

\* The log grows by one entry.
LEMMA LogGrows ==
    ASSUME TypeOK, NEW m \in Ids, NEW v \in {"added", "removed", "unknown", "ignored", "expired"},
           settled' = Append(settled, <<m, v>>)
    PROVE  /\ settled' \in Seq(Ids \X {"added", "removed", "unknown", "ignored", "expired"})
           /\ Len(settled) \in Nat /\ Len(settled') = Len(settled) + 1
           /\ settled'[Len(settled) + 1][1] = m
           /\ \A i \in 1..Len(settled) : settled'[i][1] = settled[i][1]
           /\ \A y : y \in SettledIds' <=> y \in SettledIds \/ y = m
<1> DEFINE V == {"added", "removed", "unknown", "ignored", "expired"}
           S == Ids \X V
           e == <<m, v>>
           n == Len(settled)
<1>0. settled \in Seq(S) /\ e \in S /\ settled' = Append(settled, e) /\ e[1] = m
  BY DEF TypeOK
<1> HIDE DEF S, e
<1>9. n \in Nat
  BY <1>0
<1>1. /\ settled' \in Seq(S) /\ Len(settled') = n + 1
      /\ settled'[n + 1] = e /\ \A i \in 1..n : settled'[i] = settled[i]
  <2> DEFINE t == Append(settled, e)
  <2>1. /\ t \in Seq(S) /\ Len(t) = Len(settled) + 1 /\ t[Len(settled) + 1] = e
        /\ \A i \in 1..Len(settled) : t[i] = settled[i]
    BY <1>0, SMTT(30)
  <2> QED
    BY <1>0, <2>1, Zenon
<1> HIDE DEF n
<1>2. /\ settled'[n + 1][1] = m
      /\ \A i \in 1..n : settled'[i][1] = settled[i][1]
  BY <1>0, <1>1
<1>3. \A y : y \in SettledIds' <=> y \in SettledIds \/ y = m
  <2>1. /\ \A y : y \in SettledIds <=> \E i \in 1..n : settled[i][1] = y
        /\ \A y : y \in SettledIds' <=> \E i \in 1..(n + 1) : settled'[i][1] = y
    BY <1>1 DEF SettledIds, n
  <2> TAKE y
  <2>2. ASSUME y \in SettledIds' PROVE y \in SettledIds \/ y = m
    <3>1. PICK i \in 1..(n + 1) : settled'[i][1] = y
      BY <2>1, <2>2
    <3>2. i \in 1..n \/ i = n + 1
      BY <1>9
    <3> QED
      BY <1>2, <2>1, <3>1, <3>2
  <2>3. ASSUME y \in SettledIds PROVE y \in SettledIds'
    <3>1. PICK i \in 1..n : settled[i][1] = y
      BY <2>1, <2>3
    <3>2. i \in 1..(n + 1)
      BY <1>9
    <3>3. settled'[i][1] = y
      BY <1>2, <3>1, Zenon
    <3> QED
      BY <2>1, <3>2, <3>3
  <2>4. m \in SettledIds'
    <3>1. n + 1 \in 1..(n + 1)
      BY <1>9
    <3> QED
      BY <1>2, <2>1, <3>1
  <2> QED
    BY <2>2, <2>3, <2>4
<1>4. settled' \in Seq(S) /\ Len(settled') = n + 1
  BY <1>1
<1> QED
  BY <1>2, <1>3, <1>4, <1>9 DEF S, n

\* A message that leaves the pipeline is logged once,
LEMMA LogOnce ==
    ASSUME TypeOK, ExactlyOnce, UNCHANGED <<emitted, overrun, lost, failures>>,
           NEW m \in Ids, NEW v \in {"added", "removed", "unknown", "ignored", "expired"},
           settled' = Append(settled, <<m, v>>), m \notin OnWay', OnWay = OnWay' \cup {m}
    PROVE  /\ ExactlyOnce'
           /\ settled' \in Seq(Ids \X {"added", "removed", "unknown", "ignored", "expired"})
<1> DEFINE n == Len(settled)
<1>1. /\ settled' \in Seq(Ids \X {"added", "removed", "unknown", "ignored", "expired"})
      /\ n \in Nat /\ Len(settled') = n + 1
      /\ settled'[n + 1][1] = m /\ \A i \in 1..n : settled'[i][1] = settled[i][1]
      /\ \A y : y \in SettledIds' <=> y \in SettledIds \/ y = m
  BY LogGrows
<1> HIDE DEF n
<1>2. m \notin SettledIds /\ m \notin lost /\ Ids' = Ids
  BY DEF ExactlyOnce, Ids
<1>3. \A i \in 1..n : settled[i][1] \in SettledIds
  BY DEF SettledIds, n
<1>4. ASSUME NEW i \in 1..(n + 1), NEW j \in 1..(n + 1), i # j
      PROVE  settled'[i][1] # settled'[j][1]
  <2>1. \A k \in 1..(n + 1) : k \in 1..n \/ k = n + 1
    BY <1>1
  <2>2. CASE i \in 1..n /\ j \in 1..n
    <3>1. \A k, l \in 1..n : k # l => settled[k][1] # settled[l][1]
      BY DEF ExactlyOnce, n
    <3> QED
      BY <1>1, <1>4, <2>2, <3>1
  <2>3. CASE i \in 1..n /\ j = n + 1
    BY <1>1, <1>2, <1>3, <2>3
  <2>4. CASE i = n + 1 /\ j \in 1..n
    BY <1>1, <1>2, <1>3, <2>4
  <2> QED
    BY <1>4, <2>1, <2>2, <2>3, <2>4
<1>5. /\ OnWay' \cup SettledIds' \cup lost' = Ids'
      /\ OnWay' \cap SettledIds' = {} /\ OnWay' \cap lost' = {} /\ SettledIds' \cap lost' = {}
      /\ \A x \in lost' : emitted'[x].kind = "other" \/ overrun' \/ failures' > 0
  BY <1>1, <1>2 DEF ExactlyOnce
<1>6. \A i, j \in 1..Len(settled') : i # j => settled'[i][1] # settled'[j][1]
  BY <1>1, <1>4
<1> QED
  BY <1>1, <1>5, <1>6 DEF ExactlyOnce

\* or lost, with others perhaps, because psutil failed, or it was of no interest.
LEMMA LoseOnce ==
    ASSUME TypeOK, ExactlyOnce, UNCHANGED <<emitted, overrun, settled>>,
           failures > 0 => failures' > 0, NEW held,
           failures' > 0 \/ \A x \in held : emitted[x].kind = "other", held \subseteq Ids, lost' = lost \cup held,
           OnWay' \cap held = {}, OnWay = OnWay' \cup held
    PROVE  ExactlyOnce'
<1>1. Ids' = Ids /\ SettledIds' = SettledIds
  BY DEF Ids, SettledIds
<1> QED
  BY <1>1 DEF ExactlyOnce

\* What was logged as expired stays too old, and what is logged now is.
LEMMA ExpiredStays ==
    ASSUME TypeOK, ExpiredAreLate, UNCHANGED <<emitted, age>>,
           NEW m \in Ids, NEW v,
           settled' = settled \/ settled' = Append(settled, <<m, v>>),
           v = "expired" => emitted[m].kind = "add" /\ age[m] > Expiry
    PROVE  ExpiredAreLate'
<1> DEFINE S == Ids \X {"added", "removed", "unknown", "ignored", "expired"}
           n == Len(settled)
<1>1. CASE settled' = settled
  BY <1>1 DEF ExpiredAreLate
<1>2. CASE settled' = Append(settled, <<m, v>>)
  <2>1. settled \in Seq(S)
    BY DEF TypeOK
  <2> HIDE DEF S
  <2>2. n \in Nat
    BY <2>1
  <2>3. /\ Len(settled') = n + 1 /\ settled'[n + 1] = <<m, v>>
        /\ \A i \in 1..n : settled'[i] = settled[i]
    BY <1>2, <2>1
  <2> HIDE DEF n
  <2> SUFFICES ASSUME NEW i \in 1..(n + 1), settled'[i][2] = "expired"
               PROVE  /\ emitted[settled'[i][1]].kind = "add"
                      /\ age[settled'[i][1]] > Expiry
    BY <2>3 DEF ExpiredAreLate
  <2>4. CASE i = n + 1
    <3>1. settled'[i][1] = m /\ settled'[i][2] = v
      BY <2>3, <2>4
    <3> QED
      BY <3>1
  <2>5. CASE i \in 1..n
    <3>1. settled'[i] = settled[i]
      BY <2>3, <2>5
    <3> QED
      BY <2>5, <3>1 DEF ExpiredAreLate, n
  <2> QED
    BY <2>2, <2>4, <2>5
<1> QED
  BY <1>1, <1>2


-----------------------------------------------------------------------------
(* The steps that move no message.                                         *)

LEMMA InitInv == Init => UeventInv
<1> SUFFICES ASSUME Init PROVE UeventInv
  OBVIOUS
<1>1. Len(emitted) = 0 /\ Ids = {}
  BY DEF Init, Ids
<1>2. \A S : << >> \in Seq(S)
  OBVIOUS
<1>3. Len(<< >>) = 0 /\ \A x : x \notin ToSet(<< >>)
  BY DEF ToSet
<1>4. TypeOK
  <2>1. age \in [1..MaxEvents -> 0..(Expiry + 1)]
    BY UeventAssumption DEF Init
  <2>2. /\ emitted \in Seq([kind : {"add", "remove", "other"}, dev : Devices])
        /\ netlink \in Seq(Ids) /\ hand \in Seq(Ids) /\ tasks \in Seq(Ids \cup {Check})
        /\ pending \in Seq(Ids) /\ adding \in Seq(Ids) /\ rest \in Seq(Ids)
        /\ settled \in Seq(Ids \X {"added", "removed", "unknown", "ignored", "expired"})
    BY <1>2 DEF Init
  <2>3. /\ Len(emitted) <= MaxEvents /\ Len(netlink) <= SockBuf /\ Len(hand) <= 1
        /\ Len(adding) <= 1 /\ failures \in 0..MaxFailures
    BY <1>1, <1>3, UeventAssumption DEF Init
  <2>4. /\ plugged \subseteq Devices /\ mounted \subseteq Devices /\ known \subseteq Devices
        /\ overrun \in BOOLEAN /\ timer \in {"off", "entered", "due"}
        /\ late \subseteq ToSet(rest) /\ process \in {"starting", "running", "aborted"}
        /\ lost \subseteq Ids /\ seen \subseteq Ids
    BY DEF Init
  <2> QED
    BY <2>1, <2>2, <2>3, <2>4 DEF TypeOK
<1>5. OrderInv
  BY <1>3 DEF Init, OrderInv, Increasing, Before
<1>6. ExactlyOnce
  <2>1. /\ \A x : /\ x \notin ToSet(pending) /\ x \notin ToSet(adding)
                  /\ x \notin ToSet(rest) /\ x \notin ToSet(tasks)
                  /\ x \notin ToSet(hand) /\ x \notin ToSet(netlink)
    BY <1>3 DEF Init
  <2>2. OnWay = {}
    BY <1>4, <2>1, Types
  <2>3. SettledIds = {} /\ lost = {} /\ Len(settled) = 0
    BY <1>3 DEF Init, SettledIds
  <2> QED
    BY <1>1, <2>2, <2>3 DEF ExactlyOnce
<1>7. PendingInv /\ ExpiredAreLate
  BY <1>3 DEF Init, PendingInv, ExpiredAreLate
<1> QED
  BY <1>4, <1>5, <1>6, <1>7 DEF UeventInv

\* The worker's and the kernel's queues stay as they are, but for checks, and
\* ages only grow.
LEMMA MessagesStay ==
    ASSUME UeventInv, TypeOK',
           UNCHANGED <<emitted, netlink, hand, pending, adding, rest, late, overrun, settled, lost>>,
           Increasing(tasks'), ToSet(tasks') \subseteq ToSet(tasks) \cup {Check},
           ToSet(tasks) \subseteq ToSet(tasks'),
           failures' >= failures, failures' \in Nat, \A m \in Ids : age'[m] >= age[m]
    PROVE  UeventInv'
<1>1. TypeOK /\ OrderInv /\ ExactlyOnce /\ PendingInv /\ ExpiredAreLate
  BY DEF UeventInv
<1>2. OnWay' = OnWay
  BY <1>1, Types, OnWayNext
<1>3. ExactlyOnce'
  BY <1>1, <1>2, OnceStays
<1>4. OrderInv'
  BY <1>1 DEF OrderInv, Before
<1>5. \A m \in Ids : age'[m] \in Int /\ age[m] \in Int /\ Expiry \in Int
  <2>1. Ids \subseteq 1..MaxEvents
    BY <1>1, Types, UeventAssumption DEF TypeOK, Ids
  <2> QED
    BY <1>1, <2>1, UeventAssumption DEF TypeOK
<1>6. \A m \in Ids : age[m] > Expiry => age'[m] > Expiry
  BY <1>5
<1>7. PendingInv'
  <2>1. late \subseteq Ids
    BY <1>1, Types DEF TypeOK
  <2> QED
    BY <1>1, <1>6, <2>1 DEF PendingInv
<1>8. ExpiredAreLate'
  <2>1. \A i \in 1..Len(settled) : settled[i][1] \in Ids
    BY <1>1, Types DEF SettledIds
  <2> QED
    BY <1>1, <1>6, <2>1 DEF ExpiredAreLate
<1> QED
  BY <1>3, <1>4, <1>7, <1>8 DEF UeventInv


LEMMA AgingTypes == TypeOK => Aging \subseteq Ids
<1> SUFFICES ASSUME TypeOK PROVE Aging \subseteq Ids
  OBVIOUS
<1> QED
  BY Types DEF Aging, Adds

LEMMA QuietStepsKeep ==
    ASSUME UeventInv,
           \/ \E d \in Devices : Mount(d) \/ Unmount(d)
           \/ Run \/ (UNCHANGED vars) \/ (Receive /\ overrun)
    PROVE  UeventInv'
<1>1. TypeOK
  BY DEF UeventInv
<1>2. /\ UNCHANGED <<emitted, netlink, hand, pending, adding, rest, late, overrun, settled, lost>>
      /\ UNCHANGED <<tasks, age>> /\ (seen' = seen \/ seen' \subseteq seen \cup Aging)
      /\ plugged' = plugged /\ (mounted' = mounted \/ mounted' \subseteq mounted \cup plugged)
      /\ known' = known \/ known' = mounted
      /\ timer' = timer \/ timer' = "entered"
      /\ process' \in {process, "running", "aborted"}
      /\ failures' = failures \/ (failures < MaxFailures /\ failures' = failures + 1)
  <2>1. CASE \E d \in Devices : Mount(d) \/ Unmount(d)
    BY <2>1 DEF Mount, Unmount, native, list, outcome, since
  <2>2. CASE Run
    BY <2>2 DEF Run, world, native, list, outcome, since
  <2>3. CASE UNCHANGED vars
    BY <2>3 DEF vars, world, native, list, outcome, since
  <2>4. CASE Receive /\ overrun
    BY <2>4 DEF Receive, world, native, list, outcome, since
  <2> QED
    BY <2>1, <2>2, <2>3, <2>4
<1>3. failures \in Nat /\ failures' \in 0..MaxFailures /\ failures' >= failures
  BY <1>1, <1>2, UeventAssumption DEF TypeOK
<1>4. TypeOK'
  <2>1. Ids' = Ids
    BY <1>2 DEF Ids
  <2>2. /\ plugged' \subseteq Devices /\ mounted' \subseteq Devices /\ known' \subseteq Devices
        /\ timer' \in {"off", "entered", "due"} /\ process' \in {"starting", "running", "aborted"}
    BY <1>1, <1>2 DEF TypeOK
  <2>3. Aging \subseteq Ids /\ seen \subseteq Ids
    BY <1>1, AgingTypes DEF TypeOK
  <2> QED
    BY <1>1, <1>2, <1>3, <2>1, <2>2, <2>3 DEF TypeOK
<1>5. \A m \in Ids : age'[m] >= age[m]
  <2>1. Ids \subseteq 1..MaxEvents
    BY <1>1, Types, UeventAssumption DEF TypeOK, Ids
  <2>2. \A m \in 1..MaxEvents : age[m] \in Int
    BY <1>1, UeventAssumption DEF TypeOK
  <2> QED
    BY <1>2, <2>1, <2>2
<1>6. /\ Increasing(tasks') /\ ToSet(tasks') \subseteq ToSet(tasks) \cup {Check}
      /\ ToSet(tasks) \subseteq ToSet(tasks')
  BY <1>2 DEF UeventInv, OrderInv
<1> QED
  BY <1>2, <1>3, <1>4, <1>5, <1>6, MessagesStay

\* Time passes: messages get older.
LEMMA TickKeeps ==
    ASSUME UeventInv, Tick
    PROVE  UeventInv'
<1>1. TypeOK
  BY DEF UeventInv
<1>2. /\ UNCHANGED <<emitted, netlink, hand, pending, adding, rest, late, overrun, settled, lost>>
      /\ UNCHANGED <<plugged, mounted, known, tasks, process, failures, seen>>
      /\ timer' = IF timer = "entered" THEN "due" ELSE timer
  BY DEF Tick, world, native, list, outcome
<1>3. age' = [m \in 1..MaxEvents |->
                 IF m \in Aging /\ age[m] <= Expiry THEN age[m] + 1 ELSE age[m]]
  BY DEF Tick
<1>4. \A m \in 1..MaxEvents : age[m] \in 0..(Expiry + 1)
  BY <1>1 DEF TypeOK
<1>5. \A m \in 1..MaxEvents : age'[m] \in 0..(Expiry + 1) /\ age'[m] >= age[m]
  BY <1>3, <1>4, UeventAssumption
<1>6. age' \in [1..MaxEvents -> 0..(Expiry + 1)]
  BY <1>3, <1>5
<1>7. TypeOK'
  <2>1. Ids' = Ids
    BY <1>2 DEF Ids
  <2>2. timer' \in {"off", "entered", "due"}
    BY <1>1, <1>2 DEF TypeOK
  <2> QED
    BY <1>1, <1>2, <1>6, <2>1, <2>2 DEF TypeOK
<1>8. Ids \subseteq 1..MaxEvents
  BY <1>1, Types, UeventAssumption DEF TypeOK, Ids
<1>9. failures' >= failures /\ failures' \in Nat
  BY <1>1, <1>2, UeventAssumption DEF TypeOK
<1>10. /\ Increasing(tasks') /\ ToSet(tasks') \subseteq ToSet(tasks) \cup {Check}
       /\ ToSet(tasks) \subseteq ToSet(tasks')
  BY <1>2 DEF UeventInv, OrderInv
<1> QED
  BY <1>2, <1>5, <1>7, <1>8, <1>9, <1>10, MessagesStay

\* A check is put behind the messages in the task queue.
LEMMA CheckPendingEventKeeps ==
    ASSUME UeventInv, CheckPendingEvent
    PROVE  UeventInv'
<1>1. TypeOK
  BY DEF UeventInv
<1>2. /\ UNCHANGED <<emitted, netlink, hand, pending, adding, rest, late, overrun, settled, lost>>
      /\ UNCHANGED <<plugged, mounted, known, age, seen, process, failures>>
      /\ timer' = "entered" /\ tasks' = Append(tasks, Check)
  BY DEF CheckPendingEvent, world, native, list, outcome, since
<1>3. /\ tasks' \in Seq(Ids \cup {Check}) /\ ToSet(tasks') = ToSet(tasks) \cup {Check}
  <2>1. Check \in Ids \cup {Check} /\ tasks \in Seq(Ids \cup {Check})
    BY <1>1, Types
  <2> QED
    BY <1>2, <2>1, SetOfAppend
<1>4. Increasing(tasks')
  <2>1. Check \in Nat /\ tasks \in Seq(Nat) /\ Increasing(tasks)
    BY <1>1, Types DEF UeventInv, OrderInv, Check
  <2>2. Before(ToSet(tasks), {Check})
    BY DEF Before
  <2> QED
    BY <1>2, <2>1, <2>2, AppendInOrder
<1>5. TypeOK'
  <2>1. Ids' = Ids
    BY <1>2 DEF Ids
  <2> QED
    BY <1>1, <1>2, <1>3, <2>1 DEF TypeOK
<1>6. failures' >= failures /\ failures' \in Nat
  BY <1>1, <1>2, UeventAssumption DEF TypeOK
<1>7. \A m \in Ids : age'[m] >= age[m]
  <2>1. Ids \subseteq 1..MaxEvents
    BY <1>1, Types, UeventAssumption DEF TypeOK, Ids
  <2>2. \A m \in 1..MaxEvents : age[m] \in Int
    BY <1>1, UeventAssumption DEF TypeOK
  <2> QED
    BY <1>2, <2>1, <2>2
<1> QED
  BY <1>2, <1>3, <1>4, <1>5, <1>6, <1>7, MessagesStay

-----------------------------------------------------------------------------
(* The kernel and the native thread.                                       *)

\* A new message is newer than all others; it gets into the buffer, or is lost,
\* and then the overrun is remembered.
LEMMA BroadcastKeeps ==
    ASSUME UeventInv, NEW kind \in {"add", "remove", "other"}, NEW dev \in Devices,
           Broadcast(kind, dev), plugged' \subseteq Devices
    PROVE  UeventInv'
<1> DEFINE m == Len(emitted) + 1
           M == [kind : {"add", "remove", "other"}, dev : Devices]
           e == [kind |-> kind, dev |-> dev]
<1>1. TypeOK /\ OrderInv /\ ExactlyOnce /\ PendingInv /\ ExpiredAreLate
  BY DEF UeventInv
<1>2. /\ m <= MaxEvents /\ emitted' = Append(emitted, e)
      /\ \/ /\ Len(netlink) < SockBuf /\ netlink' = Append(netlink, m)
            /\ overrun' = overrun /\ lost' = lost
         \/ overrun' = TRUE /\ lost' = lost \cup {m} /\ netlink' = netlink
      /\ UNCHANGED <<mounted, hand, tasks, pending, adding, rest, late>>
      /\ UNCHANGED <<known, age, seen, timer, process, settled, failures>>
  BY DEF Broadcast, list, since
<1>3. emitted \in Seq(M) /\ e \in M
  BY <1>1 DEF TypeOK
<1> HIDE DEF M, e
<1>4. /\ emitted' \in Seq(M) /\ Len(emitted') = Len(emitted) + 1
      /\ \A i \in 1..Len(emitted) : emitted'[i] = emitted[i]
  BY <1>2, <1>3, SetOfAppend
<1>5. /\ Len(emitted) \in Nat /\ m \notin Ids /\ Ids' = Ids \cup {m} /\ m # Check
      /\ \A i \in Ids : i < m /\ i \in Nat
      /\ m \in Nat /\ emitted' \in Seq(M) /\ Len(emitted') = m
  <2>1. Len(emitted) \in Nat
    BY <1>1, Types
  <2> QED
    BY <1>4, <2>1 DEF Ids, Check
<1>6. \A i \in Ids : emitted'[i] = emitted[i]
  BY <1>4 DEF Ids
<1> HIDE DEF m
<1>7. /\ netlink' \in Seq(Ids') /\ Len(netlink') <= SockBuf /\ Increasing(netlink')
      /\ \/ ToSet(netlink') = ToSet(netlink) \cup {m} /\ lost' = lost /\ overrun' = overrun
         \/ ToSet(netlink') = ToSet(netlink) /\ lost' = lost \cup {m} /\ overrun' = TRUE
  <2>1. /\ netlink \in Seq(Ids') /\ m \in Ids' /\ netlink \in Seq(Nat)
        /\ Len(netlink) \in Nat /\ Len(netlink) <= SockBuf /\ SockBuf \in Nat
        /\ Increasing(netlink)
    <3>1. netlink \in Seq(Ids) /\ Ids \subseteq Ids' /\ m \in Ids'
      BY <1>1, <1>5, Types
    <3>2. netlink \in Seq(Ids')
      BY <3>1, SetOfSeq
    <3> QED
      BY <1>1, <3>1, <3>2, Types, SetOfSeq, UeventAssumption DEF TypeOK, OrderInv
  <2>2. CASE Len(netlink) < SockBuf /\ netlink' = Append(netlink, m)
              /\ overrun' = overrun /\ lost' = lost
    <3>1. /\ netlink' \in Seq(Ids') /\ ToSet(netlink') = ToSet(netlink) \cup {m}
          /\ Len(netlink') = Len(netlink) + 1
      BY <2>1, <2>2, SetOfAppend
    <3>2. Before(ToSet(netlink), {m})
      BY <1>1, <1>5, Types DEF Before
    <3>3. Increasing(netlink')
      BY <1>5, <2>1, <2>2, <3>2, AppendInOrder
    <3> QED
      BY <2>1, <2>2, <3>1, <3>3
  <2>3. CASE overrun' = TRUE /\ lost' = lost \cup {m} /\ netlink' = netlink
    BY <2>1, <2>3
  <2> QED
    BY <1>2, <2>2, <2>3
<1>8. TypeOK'
  <2>1. /\ hand' \in Seq(Ids') /\ tasks' \in Seq(Ids' \cup {Check})
        /\ pending' \in Seq(Ids') /\ adding' \in Seq(Ids') /\ rest' \in Seq(Ids')
    <3>1. /\ hand \in Seq(Ids) /\ tasks \in Seq(Ids \cup {Check}) /\ pending \in Seq(Ids)
          /\ adding \in Seq(Ids) /\ rest \in Seq(Ids) /\ Ids \subseteq Ids' /\ Ids \cup {Check} \subseteq Ids' \cup {Check}
      BY <1>1, <1>5, Types
    <3> QED
      BY <1>2, <3>1, SetOfSeq
  <2>2. settled' \in Seq(Ids' \X {"added", "removed", "unknown", "ignored", "expired"})
    <3> DEFINE V == {"added", "removed", "unknown", "ignored", "expired"}
    <3>1. settled \in Seq(Ids \X V)
      BY <1>1 DEF TypeOK
    <3> HIDE DEF V
    <3>2. Ids \X V \subseteq Ids' \X V
      BY <1>5
    <3>3. settled \in Seq(Ids' \X V)
      BY <3>1, <3>2, SetOfSeq
    <3> QED
      BY <1>2, <3>3 DEF V
  <2>3. lost' \subseteq Ids' /\ seen' \subseteq Ids'
    BY <1>1, <1>2, <1>5, <1>7 DEF TypeOK
  <2>4. emitted' \in Seq([kind : {"add", "remove", "other"}, dev : Devices])
    BY <1>5 DEF M
  <2>5. Len(emitted') <= MaxEvents
    BY <1>2, <1>5
  <2>6. overrun' \in BOOLEAN
    BY <1>1, <1>7 DEF TypeOK
  <2>7. /\ mounted' \subseteq Devices /\ known' \subseteq Devices
        /\ timer' \in {"off", "entered", "due"} /\ Len(hand') <= 1 /\ Len(adding') <= 1
        /\ late' \subseteq ToSet(rest') /\ age' \in [1..MaxEvents -> 0..(Expiry + 1)]
        /\ process' \in {"starting", "running", "aborted"} /\ failures' \in 0..MaxFailures
    BY <1>1, <1>2 DEF TypeOK
  <2> QED
    BY <1>7, <2>1, <2>2, <2>3, <2>4, <2>5, <2>6, <2>7 DEF TypeOK
<1>9. OrderInv'
  <2>1. /\ ToSet(pending) \subseteq Ids /\ ToSet(adding) \subseteq Ids
        /\ ToSet(rest) \subseteq Ids /\ ToSet(hand) \subseteq Ids
        /\ ToSet(tasks) \subseteq Ids \cup {Check}
        /\ ToSet(netlink') \subseteq ToSet(netlink) \cup {m}
    BY <1>1, <1>7, Types
  <2>2. /\ Before(ToSet(pending), ToSet(adding) \cup ToSet(rest) \cup ToSet(tasks) \cup ToSet(hand) \cup ToSet(netlink'))
        /\ Before(ToSet(adding), ToSet(rest) \cup ToSet(tasks) \cup ToSet(hand) \cup ToSet(netlink'))
        /\ Before(ToSet(rest), ToSet(tasks) \cup ToSet(hand) \cup ToSet(netlink'))
        /\ Before(ToSet(tasks), ToSet(hand) \cup ToSet(netlink'))
        /\ Before(ToSet(hand), ToSet(netlink'))
    BY <1>1, <1>5, <2>1 DEF OrderInv, Before
  <2> QED
    BY <1>1, <1>2, <1>7, <2>2 DEF OrderInv
<1>10. ExactlyOnce'
  <2>1. OnWay = (ToSet(pending) \cup ToSet(adding) \cup ToSet(rest) \cup ToSet(tasks)
                 \cup ToSet(hand) \cup ToSet(netlink)) \ {Check}
    BY <1>1, Types
  <2>2. OnWay' = (ToSet(pending) \cup ToSet(adding) \cup ToSet(rest) \cup ToSet(tasks)
                  \cup ToSet(hand) \cup ToSet(netlink')) \ {Check}
    BY <1>2, <1>8, OnWayNext
  <2>3. SettledIds' = SettledIds
    BY <1>2 DEF SettledIds
  <2>4. m \notin OnWay /\ m \notin SettledIds /\ m \notin lost
    BY <1>1, <1>5 DEF ExactlyOnce
  <2>5. \/ OnWay' = OnWay \cup {m} /\ lost' = lost /\ overrun' = overrun
        \/ OnWay' = OnWay /\ lost' = lost \cup {m} /\ overrun' = TRUE
    BY <1>5, <1>7, <2>1, <2>2
  <2>6. UNCHANGED <<settled, failures>>
    BY <1>2
  <2>7. \A i \in lost : emitted'[i] = emitted[i]
    BY <1>1, <1>6 DEF TypeOK
  <2>8. /\ OnWay' \cup SettledIds' \cup lost' = Ids'
        /\ OnWay' \cap SettledIds' = {} /\ OnWay' \cap lost' = {} /\ SettledIds' \cap lost' = {}
    BY <1>1, <1>5, <2>3, <2>4, <2>5 DEF ExactlyOnce
  <2>9. \A i \in lost' : emitted'[i].kind = "other" \/ overrun' \/ failures' > 0
    BY <1>1, <2>5, <2>6, <2>7 DEF ExactlyOnce
  <2> QED
    BY <1>1, <2>6, <2>8, <2>9 DEF ExactlyOnce
<1>11. PendingInv'
  <2>1. ToSet(pending) \subseteq Ids /\ ToSet(adding) \subseteq Ids /\ ToSet(rest) \subseteq Ids
    BY <1>1, Types
  <2> QED
    BY <1>1, <1>2, <1>6, <2>1 DEF PendingInv
<1>12. ExpiredAreLate'
  <2>1. \A i \in 1..Len(settled) : settled[i][1] \in Ids
    BY <1>1, Types DEF SettledIds
  <2> QED
    BY <1>1, <1>2, <1>6, <2>1 DEF ExpiredAreLate
<1> QED
  BY <1>8, <1>9, <1>10, <1>11, <1>12 DEF UeventInv


\* recv(): from the socket's buffer into the thread's hand, which is empty.
LEMMA ReceiveKeeps ==
    ASSUME UeventInv, Receive, ~ overrun
    PROVE  UeventInv'
<1> DEFINE x == Head(netlink)
<1>1. TypeOK /\ OrderInv /\ ExactlyOnce /\ PendingInv /\ ExpiredAreLate
  BY DEF UeventInv
<1>2. /\ UNCHANGED <<plugged, mounted, emitted, overrun, tasks, pending, adding, rest, late>>
      /\ UNCHANGED <<known, age, seen, timer, process, settled, lost, failures>>
      /\ hand = << >> /\ netlink # << >> /\ hand' = <<x>> /\ netlink' = Tail(netlink)
  BY DEF Receive, world, list, outcome, since
<1>3. netlink \in Seq(Ids) /\ netlink \in Seq(Nat) /\ Increasing(netlink)
  BY <1>1, Types DEF OrderInv
<1>4. /\ x \in Ids /\ netlink' \in Seq(Ids) /\ Len(netlink') = Len(netlink) - 1
      /\ ToSet(netlink) = {x} \cup ToSet(netlink') /\ Len(netlink) \in Nat
  BY <1>2, <1>3, SetOfTail, SetOfSeq
<1>5. Increasing(netlink') /\ Before({x}, ToSet(netlink'))
  BY <1>2, <1>3, TailInOrder
<1> HIDE DEF x
<1>6. hand' \in Seq(Ids) /\ Len(hand') <= 1 /\ ToSet(hand') = {x}
  BY <1>2, <1>4 DEF ToSet
<1>7. ToSet(hand) = {}
  BY <1>2 DEF ToSet
<1>8. TypeOK'
  <2>1. Ids' = Ids
    BY <1>2 DEF Ids
  <2>2. Len(netlink') <= SockBuf
    BY <1>1, <1>4, UeventAssumption DEF TypeOK
  <2> QED
    BY <1>1, <1>2, <1>4, <1>6, <2>1, <2>2 DEF TypeOK
<1>9. OrderInv'
  <2>1. ToSet(hand') \cup ToSet(netlink') = ToSet(hand) \cup ToSet(netlink)
    BY <1>4, <1>6, <1>7
  <2>2. /\ Before(ToSet(pending), ToSet(adding) \cup ToSet(rest) \cup ToSet(tasks) \cup ToSet(hand') \cup ToSet(netlink'))
        /\ Before(ToSet(adding), ToSet(rest) \cup ToSet(tasks) \cup ToSet(hand') \cup ToSet(netlink'))
        /\ Before(ToSet(rest), ToSet(tasks) \cup ToSet(hand') \cup ToSet(netlink'))
        /\ Before(ToSet(tasks), ToSet(hand') \cup ToSet(netlink'))
        /\ Before(ToSet(hand'), ToSet(netlink'))
    BY <1>1, <1>5, <1>6, <2>1 DEF OrderInv, Before
  <2> QED
    BY <1>1, <1>2, <1>5, <2>2 DEF OrderInv
<1>10. OnWay' = OnWay
  BY <1>1, <1>2, <1>4, <1>6, <1>7, <1>8, Types, OnWayNext
<1>11. ExactlyOnce'
  <2>1. failures' >= failures /\ failures' \in Nat
    BY <1>1, <1>2, UeventAssumption DEF TypeOK
  <2> QED
    BY <1>1, <1>2, <1>10, <2>1, OnceStays
<1>12. PendingInv' /\ ExpiredAreLate'
  BY <1>1, <1>2 DEF PendingInv, ExpiredAreLate
<1> QED
  BY <1>8, <1>9, <1>11, <1>12 DEF UeventInv

\* onReceiveUevent: from the hand to the end of the task queue, or nowhere.
LEMMA OnReceiveUeventKeeps ==
    ASSUME UeventInv, OnReceiveUevent
    PROVE  UeventInv'
<1>1. TypeOK /\ OrderInv /\ ExactlyOnce /\ PendingInv /\ ExpiredAreLate
  BY DEF UeventInv
<1>2. /\ UNCHANGED <<plugged, mounted, emitted, overrun, netlink, pending, adding, rest, late>>
      /\ UNCHANGED <<known, age, timer, process, settled, failures>>
      /\ hand # << >> /\ hand' = << >>
  BY DEF OnReceiveUevent, world, list
<1>3. /\ tasks \in Seq(Ids \cup {Check}) /\ tasks \in Seq(Nat) /\ Increasing(tasks)
      /\ hand \in Seq(Ids \cup {Check}) /\ hand \in Seq(Nat) /\ Len(hand) <= 1
      /\ Before(ToSet(tasks), ToSet(hand))
  <2>1. hand \in Seq(Ids \cup {Check})
    <3>1. hand \in Seq(Ids) /\ Ids \subseteq Ids \cup {Check}
      BY <1>1, Types
    <3> QED
      BY <3>1, SetOfSeq
  <2> QED
    BY <1>1, <2>1, Types DEF OrderInv, TypeOK, Before
<1>4. hand' \in Seq(Ids) /\ Len(hand') <= 1 /\ ToSet(hand') = {}
  BY <1>2 DEF ToSet
<1>5. Ids' = Ids
  BY <1>2 DEF Ids
<1>6. PendingInv' /\ ExpiredAreLate'
  BY <1>1, <1>2 DEF PendingInv, ExpiredAreLate
<1>7. CASE tasks' = tasks \o hand /\ Received /\ lost' = lost
  <2>1. tasks' \in Seq(Ids \cup {Check}) /\ ToSet(tasks') = ToSet(tasks) \cup ToSet(hand)
    BY <1>3, <1>7, SetOfConcat
  <2>2. Increasing(tasks')
    <3>1. Increasing(hand)
      BY <1>3, ShortInOrder
    <3> QED
      BY <1>3, <1>7, <3>1, ConcatInOrder
  <2>3. TypeOK'
    <3>1. seen' \subseteq Ids
      BY <1>1, <1>7, Types DEF Received, Adds, TypeOK
    <3> QED
      BY <1>1, <1>2, <1>4, <1>5, <1>7, <2>1, <3>1 DEF TypeOK
  <2>4. OrderInv'
    <3>1. /\ Before(ToSet(pending), ToSet(adding) \cup ToSet(rest) \cup ToSet(tasks') \cup ToSet(hand') \cup ToSet(netlink))
          /\ Before(ToSet(adding), ToSet(rest) \cup ToSet(tasks') \cup ToSet(hand') \cup ToSet(netlink))
          /\ Before(ToSet(rest), ToSet(tasks') \cup ToSet(hand') \cup ToSet(netlink))
          /\ Before(ToSet(tasks'), ToSet(hand') \cup ToSet(netlink))
          /\ Before(ToSet(hand'), ToSet(netlink))
      BY <1>1, <1>4, <2>1 DEF OrderInv, Before
    <3> QED
      BY <1>1, <1>2, <2>2, <3>1 DEF OrderInv
  <2>5. OnWay' = OnWay
    BY <1>1, <1>2, <1>4, <2>1, <2>3, Types, OnWayNext
  <2>6. ExactlyOnce'
    <3>1. failures' >= failures /\ failures' \in Nat
      BY <1>1, <1>2, UeventAssumption DEF TypeOK
    <3> QED
      BY <1>1, <1>2, <1>7, <2>5, <3>1, OnceStays
  <2> QED
    BY <1>6, <2>3, <2>4, <2>6 DEF UeventInv
<1>8. CASE InvalidMessage
  <2> DEFINE m == Head(hand)
  <2>1. /\ emitted[m].kind = "other" /\ lost' = lost \cup {m}
        /\ UNCHANGED <<tasks, seen>>
    BY <1>8 DEF InvalidMessage
  <2>2. m \in Ids /\ ToSet(hand) = {m}
    BY <1>1, <1>2, <1>3, Types, OneInSeq
  <2> HIDE DEF m
  <2>3. TypeOK'
    <3>1. lost' \subseteq Ids
      BY <1>1, <2>1, <2>2 DEF TypeOK
    <3> QED
      BY <1>1, <1>2, <1>4, <1>5, <2>1, <3>1 DEF TypeOK
  <2>4. OrderInv'
    <3>1. /\ Before(ToSet(pending), ToSet(adding) \cup ToSet(rest) \cup ToSet(tasks) \cup ToSet(hand') \cup ToSet(netlink))
          /\ Before(ToSet(adding), ToSet(rest) \cup ToSet(tasks) \cup ToSet(hand') \cup ToSet(netlink))
          /\ Before(ToSet(rest), ToSet(tasks) \cup ToSet(hand') \cup ToSet(netlink))
          /\ Before(ToSet(tasks), ToSet(hand') \cup ToSet(netlink))
          /\ Before(ToSet(hand'), ToSet(netlink))
      BY <1>1, <1>4 DEF OrderInv, Before
    <3> QED
      BY <1>1, <1>2, <2>1, <3>1 DEF OrderInv
  \* It was in the hand, and nowhere else.
  <2>5. m \notin ToSet(pending) \cup ToSet(adding) \cup ToSet(rest) \cup ToSet(tasks) \cup ToSet(netlink)
    <3>1. m \in Nat /\ m # Check /\ ~ (m < m)
      <4>1. m \in Nat /\ m # Check
        BY <1>1, <2>2, Types
      <4> QED
        BY <4>1
    <3>2. /\ Before(ToSet(pending), {m}) /\ Before(ToSet(adding), {m})
          /\ Before(ToSet(rest), {m}) /\ Before(ToSet(tasks), {m}) /\ Before({m}, ToSet(netlink))
      BY <1>1, <2>2 DEF OrderInv, Before
    <3> QED
      BY <3>1, <3>2 DEF Before
  <2>6. OnWay = OnWay' \cup {m} /\ m \notin OnWay'
    <3>1. OnWay = (ToSet(pending) \cup ToSet(adding) \cup ToSet(rest) \cup ToSet(tasks)
                   \cup {m} \cup ToSet(netlink)) \ {Check}
      BY <1>1, <2>2, Types
    <3>2. OnWay' = (ToSet(pending) \cup ToSet(adding) \cup ToSet(rest) \cup ToSet(tasks)
                    \cup ToSet(netlink)) \ {Check}
      BY <1>2, <1>4, <2>1, <2>3, OnWayNext
    <3>3. m # Check
      BY <1>1, <2>2, Types
    <3> QED
      BY <2>5, <3>1, <3>2, <3>3
  <2>7. ExactlyOnce'
    <3>1. {m} \subseteq Ids /\ OnWay' \cap {m} = {} /\ \A x \in {m} : emitted[x].kind = "other"
      BY <2>1, <2>2, <2>6
    <3> QED
      BY <1>1, <1>2, <2>1, <2>6, <3>1, LoseOnce
  <2> QED
    BY <1>6, <2>3, <2>4, <2>7 DEF UeventInv
<1> QED
  BY <1>7, <1>8 DEF OnReceiveUevent


-----------------------------------------------------------------------------
(* The worker thread.                                                      *)

LEMMA DoProcessEventKeeps ==
    ASSUME UeventInv, DoProcessEvent
    PROVE  UeventInv'
<1> DEFINE m == Head(tasks)
           V == {"removed", "unknown", "ignored"}
<1>1. TypeOK /\ OrderInv /\ ExactlyOnce /\ PendingInv /\ ExpiredAreLate
  BY DEF UeventInv
<1>2. /\ UNCHANGED <<plugged, mounted, emitted, overrun, hand, netlink, rest, late>>
      /\ UNCHANGED <<age, seen, timer, process, pending>>
      /\ adding = << >> /\ rest = << >> /\ tasks # << >> /\ m # Check /\ tasks' = Tail(tasks)
      /\ known' = known \/ known' = mounted
  BY DEF DoProcessEvent, WorkerIdle, NextTask, world, native, since, UpdateMountpoint,
     OnPartitionRemove, UpdateMountpointFails
\* The message is reported, or the map is refreshed for it, or it is lost.
<1>3. \/ /\ \E v \in V : settled' = Append(settled, <<m, v>>)
         /\ UNCHANGED <<lost, adding, failures>>
      \/ /\ emitted[m].kind = "add" /\ adding' = <<m>>
         /\ UNCHANGED <<settled, lost, failures>>
      \/ /\ failures < MaxFailures /\ failures' = failures + 1 /\ lost' = lost \cup {m}
         /\ UNCHANGED <<settled, adding>>
  BY DEF DoProcessEvent, NextTask, UpdateMountpoint, OnPartitionRemove, UpdateMountpointFails,
     Log, outcome
<1>4. /\ tasks \in Seq(Ids \cup {Check}) /\ tasks \in Seq(Nat) /\ Increasing(tasks)
      /\ failures \in 0..MaxFailures /\ MaxFailures \in Nat /\ Ids \subseteq Nat
  BY <1>1, Types, UeventAssumption DEF OrderInv, TypeOK
<1>5. /\ m \in Ids /\ tasks' \in Seq(Ids \cup {Check}) /\ ToSet(tasks) = {m} \cup ToSet(tasks')
  BY <1>2, <1>4, SetOfTail
<1>6. Increasing(tasks') /\ Before({m}, ToSet(tasks'))
  BY <1>2, <1>4, TailInOrder
<1> HIDE DEF m
<1>7. ToSet(rest) = {} /\ ToSet(rest') = {} /\ ToSet(adding) = {}
  BY <1>2 DEF ToSet
\* It was in front of the queue, and nowhere else.
<1>8. m \notin ToSet(pending) \cup ToSet(tasks') \cup ToSet(hand) \cup ToSet(netlink)
  <2>1. m \in Nat /\ m # Check /\ ~ (m < m)
    BY <1>2, <1>4, <1>5
  <2>2. /\ Before(ToSet(pending), {m}) /\ Before({m}, ToSet(tasks'))
        /\ Before({m}, ToSet(hand) \cup ToSet(netlink))
    BY <1>1, <1>5, <1>6 DEF OrderInv, Before
  <2> QED
    BY <2>1, <2>2 DEF Before
<1>9. Ids' = Ids
  BY <1>2 DEF Ids
<1>10. ASSUME adding' = adding PROVE OrderInv'
  <2>1. /\ Before(ToSet(pending), ToSet(adding) \cup ToSet(rest) \cup ToSet(tasks') \cup ToSet(hand) \cup ToSet(netlink))
        /\ Before(ToSet(adding), ToSet(rest) \cup ToSet(tasks') \cup ToSet(hand) \cup ToSet(netlink))
        /\ Before(ToSet(rest), ToSet(tasks') \cup ToSet(hand) \cup ToSet(netlink))
        /\ Before(ToSet(tasks'), ToSet(hand) \cup ToSet(netlink))
        /\ Before(ToSet(hand), ToSet(netlink))
    BY <1>1, <1>5 DEF OrderInv, Before
  <2> QED
    BY <1>1, <1>2, <1>6, <1>10, <2>1 DEF OrderInv
<1>11. ASSUME adding' = adding, TypeOK' PROVE OnWay = OnWay' \cup {m} /\ m \notin OnWay'
  <2>1. m # Check
    BY <1>2
  <2> QED
    BY <1>1, <1>2, <1>5, <1>7, <1>8, <1>11, <2>1, Types, OnWayNext
<1>12. ASSUME adding' = adding PROVE PendingInv'
  BY <1>1, <1>2, <1>12 DEF PendingInv
<1>13. CASE /\ \E v \in V : settled' = Append(settled, <<m, v>>)
            /\ UNCHANGED <<lost, adding, failures>>
  <2>1. PICK v \in V : settled' = Append(settled, <<m, v>>)
    BY <1>13
  <2>2. v \in {"added", "removed", "unknown", "ignored", "expired"} /\ v # "expired"
    OBVIOUS
  <2>3. settled' \in Seq(Ids \X {"added", "removed", "unknown", "ignored", "expired"})
    <3> DEFINE W == {"added", "removed", "unknown", "ignored", "expired"}
    <3>1. settled \in Seq(Ids \X W) /\ <<m, v>> \in Ids \X W
      BY <1>1, <1>5, <2>2 DEF TypeOK
    <3> HIDE DEF W
    <3>2. settled' \in Seq(Ids \X W)
      BY <2>1, <3>1, SetOfAppend
    <3> QED
      BY <3>2 DEF W
  <2>4. TypeOK'
    BY <1>1, <1>2, <1>5, <1>9, <1>13, <2>3 DEF TypeOK
  <2>5. OnWay = OnWay' \cup {m} /\ m \notin OnWay'
    BY <1>11, <1>13, <2>4
  <2>6. ExactlyOnce'
    BY <1>1, <1>2, <1>5, <1>13, <2>1, <2>2, <2>5, LogOnce
  <2>7. ExpiredAreLate'
    BY <1>1, <1>2, <1>5, <2>1, <2>2, ExpiredStays
  <2> QED
    BY <1>10, <1>12, <1>13, <2>4, <2>6, <2>7 DEF UeventInv
<1>14. CASE /\ emitted[m].kind = "add" /\ adding' = <<m>>
            /\ UNCHANGED <<settled, lost, failures>>
  <2>1. adding' \in Seq(Ids) /\ Len(adding') <= 1 /\ ToSet(adding') = {m}
    BY <1>5, <1>14, SetOfOne
  <2>2. TypeOK'
    BY <1>1, <1>2, <1>5, <1>9, <1>14, <2>1 DEF TypeOK
  <2>3. OrderInv'
    <3>1. /\ Before(ToSet(pending), ToSet(adding') \cup ToSet(rest) \cup ToSet(tasks') \cup ToSet(hand) \cup ToSet(netlink))
          /\ Before(ToSet(adding'), ToSet(rest) \cup ToSet(tasks') \cup ToSet(hand) \cup ToSet(netlink))
          /\ Before(ToSet(rest), ToSet(tasks') \cup ToSet(hand) \cup ToSet(netlink))
          /\ Before(ToSet(tasks'), ToSet(hand) \cup ToSet(netlink))
          /\ Before(ToSet(hand), ToSet(netlink))
      BY <1>1, <1>5, <1>6, <1>7, <2>1 DEF OrderInv, Before
    <3> QED
      BY <1>1, <1>2, <1>6, <3>1 DEF OrderInv
  <2>4. OnWay' = OnWay
    BY <1>1, <1>2, <1>5, <1>7, <2>1, <2>2, Types, OnWayNext
  <2>5. ExactlyOnce'
    BY <1>1, <1>2, <1>4, <1>14, <2>4, OnceStays
  <2>6. PendingInv'
    BY <1>1, <1>2, <1>14, <2>1 DEF PendingInv
  <2>7. ExpiredAreLate'
    BY <1>1, <1>2, <1>14 DEF ExpiredAreLate
  <2> QED
    BY <2>2, <2>3, <2>5, <2>6, <2>7 DEF UeventInv
<1>15. CASE /\ failures < MaxFailures /\ failures' = failures + 1 /\ lost' = lost \cup {m}
            /\ UNCHANGED <<settled, adding>>
  <2>1. failures' \in 0..MaxFailures /\ failures' > 0
    BY <1>4, <1>15
  <2>2. TypeOK'
    BY <1>1, <1>2, <1>5, <1>9, <1>15, <2>1 DEF TypeOK
  <2>3. OnWay = OnWay' \cup {m} /\ m \notin OnWay'
    BY <1>11, <1>15, <2>2
  <2>4. ExactlyOnce'
    <3>1. {m} \subseteq Ids /\ OnWay' \cap {m} = {}
      BY <1>5, <2>3
    <3> QED
      BY <1>1, <1>2, <1>15, <2>1, <2>3, <3>1, LoseOnce
  <2>5. ExpiredAreLate'
    BY <1>1, <1>2, <1>15 DEF ExpiredAreLate
  <2> QED
    BY <1>10, <1>12, <1>15, <2>2, <2>4, <2>5 DEF UeventInv
<1> QED
  BY <1>3, <1>13, <1>14, <1>15

\* doCheckPendingEvent begins: the whole list is looked at again.
LEMMA DoCheckPendingEventKeeps ==
    ASSUME UeventInv, DoCheckPendingEvent
    PROVE  UeventInv'
<1>1. TypeOK /\ OrderInv /\ ExactlyOnce /\ PendingInv /\ ExpiredAreLate
  BY DEF UeventInv
<1>2. /\ UNCHANGED <<plugged, mounted, emitted, overrun, hand, netlink, known>>
      /\ UNCHANGED <<age, seen, timer, process, settled, lost, failures, adding>>
      /\ adding = << >> /\ rest = << >> /\ tasks # << >> /\ Head(tasks) = Check /\ tasks' = Tail(tasks)
      /\ rest' = pending /\ pending' = << >> /\ late' = ExpiredNow
  BY DEF DoCheckPendingEvent, WorkerIdle, NextTask, world, native, outcome, since
<1>3. /\ tasks \in Seq(Ids \cup {Check}) /\ tasks \in Seq(Nat) /\ Increasing(tasks)
      /\ pending \in Seq(Ids) /\ rest \in Seq(Ids) /\ Increasing(pending)
  BY <1>1, Types DEF OrderInv
<1>4. tasks' \in Seq(Ids \cup {Check}) /\ ToSet(tasks) = {Check} \cup ToSet(tasks')
  BY <1>2, <1>3, SetOfTail
<1>5. Increasing(tasks')
  BY <1>2, <1>3, TailInOrder
<1>6. ToSet(rest) = {} /\ ToSet(adding) = {} /\ ToSet(pending') = {} /\ Increasing(pending') /\ pending' \in Seq(Ids)
  BY <1>2 DEF ToSet, Increasing
<1>7. TypeOK'
  <2>1. Ids' = Ids
    BY <1>2 DEF Ids
  <2>2. late' \subseteq ToSet(rest')
    BY <1>2 DEF ExpiredNow
  <2> QED
    BY <1>1, <1>2, <1>3, <1>4, <1>6, <2>1, <2>2 DEF TypeOK
<1>8. OrderInv'
  <2>1. /\ Before(ToSet(pending'), ToSet(adding) \cup ToSet(rest') \cup ToSet(tasks') \cup ToSet(hand) \cup ToSet(netlink))
        /\ Before(ToSet(adding), ToSet(rest') \cup ToSet(tasks') \cup ToSet(hand) \cup ToSet(netlink))
        /\ Before(ToSet(rest'), ToSet(tasks') \cup ToSet(hand) \cup ToSet(netlink))
        /\ Before(ToSet(tasks'), ToSet(hand) \cup ToSet(netlink))
        /\ Before(ToSet(hand), ToSet(netlink))
    BY <1>1, <1>2, <1>4, <1>6 DEF OrderInv, Before
  <2> QED
    BY <1>2, <1>3, <1>1, <1>5, <1>6, <2>1 DEF OrderInv
<1>9. OnWay' = OnWay
  BY <1>1, <1>2, <1>4, <1>6, <1>7, Types, OnWayNext
<1>10. ExactlyOnce'
  <2>1. failures' >= failures /\ failures' \in Nat
    BY <1>1, <1>2, UeventAssumption DEF TypeOK
  <2> QED
    BY <1>1, <1>2, <1>9, <2>1, OnceStays
<1>11. PendingInv'
  BY <1>1, <1>2, <1>6 DEF PendingInv, ExpiredNow
<1>12. ExpiredAreLate'
  BY <1>1, <1>2 DEF ExpiredAreLate
<1> QED
  BY <1>7, <1>8, <1>10, <1>11, <1>12 DEF UeventInv


\* One turn of its loop, up to the report.
LEMMA CheckNextEventKeeps ==
    ASSUME UeventInv, CheckNextEvent
    PROVE  UeventInv'
<1> DEFINE m == Head(rest)
<1>1. TypeOK /\ OrderInv /\ ExactlyOnce /\ PendingInv /\ ExpiredAreLate
  BY DEF UeventInv
<1>2. /\ UNCHANGED <<plugged, mounted, emitted, overrun, hand, netlink, tasks>>
      /\ UNCHANGED <<age, seen, timer, process, pending>>
      /\ adding = << >> /\ rest # << >> /\ late' = late \cap ToSet(rest')
      /\ known' = known \/ known' = mounted
  BY DEF CheckNextEvent, world, native, since, UpdateMountpoint, UpdateMountpointFails
<1>3. \/ /\ rest' = Tail(rest)
         /\ settled' = Append(settled, <<m, "expired">>) /\ m \in late
         /\ UNCHANGED <<lost, adding, failures>>
      \/ /\ rest' = Tail(rest) /\ adding' = <<m>>
         /\ UNCHANGED <<settled, lost, failures>>
      \/ /\ rest' = << >> /\ failures < MaxFailures /\ failures' = failures + 1
         /\ lost' = lost \cup ToSet(rest)
         /\ UNCHANGED <<settled, adding>>
  BY DEF CheckNextEvent, UpdateMountpoint, UpdateMountpointFails, Log, outcome
<1>4. /\ rest \in Seq(Ids) /\ rest \in Seq(Nat) /\ Increasing(rest)
      /\ failures \in 0..MaxFailures /\ MaxFailures \in Nat /\ Ids \subseteq Nat
      /\ Check \notin Ids
  BY <1>1, Types, UeventAssumption DEF OrderInv, TypeOK
<1>5. /\ m \in Ids /\ Tail(rest) \in Seq(Ids) /\ ToSet(rest) = {m} \cup ToSet(Tail(rest))
  BY <1>2, <1>4, SetOfTail
<1>6. Increasing(Tail(rest)) /\ Before({m}, ToSet(Tail(rest)))
  BY <1>2, <1>4, TailInOrder
<1> HIDE DEF m
<1>7. Ids' = Ids
  BY <1>2 DEF Ids
<1>8. late' \subseteq ToSet(rest') /\ late' \subseteq late
  BY <1>2
<1>9. emitted[m].kind = "add" /\ ToSet(adding) = {}
  BY <1>1, <1>2, <1>5 DEF PendingInv, ToSet
\* It was in front of the rest, and nowhere else.
<1>10. m \notin ToSet(pending) \cup ToSet(Tail(rest)) \cup ToSet(tasks) \cup ToSet(hand) \cup ToSet(netlink)
  <2>1. m \in Nat /\ m # Check /\ ~ (m < m)
    BY <1>4, <1>5
  <2>2. /\ Before(ToSet(pending), {m}) /\ Before({m}, ToSet(Tail(rest)))
        /\ Before({m}, ToSet(tasks) \cup ToSet(hand) \cup ToSet(netlink))
    BY <1>1, <1>5, <1>6 DEF OrderInv, Before
  <2> QED
    BY <2>1, <2>2 DEF Before
<1>11. CASE /\ rest' = Tail(rest)
            /\ settled' = Append(settled, <<m, "expired">>) /\ m \in late
            /\ UNCHANGED <<lost, adding, failures>>
  <2> DEFINE W == {"added", "removed", "unknown", "ignored", "expired"}
  <2>1. "expired" \in W
    OBVIOUS
  <2>2. settled' \in Seq(Ids \X W)
    <3>1. settled \in Seq(Ids \X W) /\ <<m, "expired">> \in Ids \X W
      BY <1>1, <1>5 DEF TypeOK
    <3> HIDE DEF W
    <3> QED
      BY <1>11, <3>1, SetOfAppend
  <2>3. TypeOK'
    BY <1>1, <1>2, <1>5, <1>7, <1>8, <1>11, <2>2 DEF TypeOK
  <2>4. OrderInv'
    <3>1. /\ Before(ToSet(pending), ToSet(adding) \cup ToSet(rest') \cup ToSet(tasks) \cup ToSet(hand) \cup ToSet(netlink))
          /\ Before(ToSet(adding), ToSet(rest') \cup ToSet(tasks) \cup ToSet(hand) \cup ToSet(netlink))
          /\ Before(ToSet(rest'), ToSet(tasks) \cup ToSet(hand) \cup ToSet(netlink))
          /\ Before(ToSet(tasks), ToSet(hand) \cup ToSet(netlink))
          /\ Before(ToSet(hand), ToSet(netlink))
      BY <1>1, <1>5, <1>11 DEF OrderInv, Before
    <3> QED
      BY <1>1, <1>2, <1>6, <1>11, <3>1 DEF OrderInv
  <2>5. OnWay = OnWay' \cup {m} /\ m \notin OnWay'
    BY <1>1, <1>2, <1>4, <1>5, <1>9, <1>10, <1>11, <2>3, Types, OnWayNext
  <2>6. ExactlyOnce'
    BY <1>1, <1>2, <1>5, <1>11, <2>1, <2>5, LogOnce
  <2>7. PendingInv'
    BY <1>1, <1>2, <1>5, <1>8, <1>11 DEF PendingInv
  <2>8. ExpiredAreLate'
    <3>1. age[m] > Expiry
      BY <1>1, <1>11 DEF PendingInv
    <3> QED
      BY <1>1, <1>2, <1>5, <1>9, <1>11, <3>1, ExpiredStays
  <2> QED
    BY <2>3, <2>4, <2>6, <2>7, <2>8 DEF UeventInv
<1>12. CASE /\ rest' = Tail(rest) /\ adding' = <<m>>
            /\ UNCHANGED <<settled, lost, failures>>
  <2>1. adding' \in Seq(Ids) /\ Len(adding') <= 1 /\ ToSet(adding') = {m}
    BY <1>5, <1>12, SetOfOne
  <2>2. TypeOK'
    BY <1>1, <1>2, <1>5, <1>7, <1>8, <1>12, <2>1 DEF TypeOK
  <2>3. OrderInv'
    <3>1. /\ Before(ToSet(pending), ToSet(adding') \cup ToSet(rest') \cup ToSet(tasks) \cup ToSet(hand) \cup ToSet(netlink))
          /\ Before(ToSet(adding'), ToSet(rest') \cup ToSet(tasks) \cup ToSet(hand) \cup ToSet(netlink))
          /\ Before(ToSet(rest'), ToSet(tasks) \cup ToSet(hand) \cup ToSet(netlink))
          /\ Before(ToSet(tasks), ToSet(hand) \cup ToSet(netlink))
          /\ Before(ToSet(hand), ToSet(netlink))
      BY <1>1, <1>5, <1>6, <1>12, <2>1 DEF OrderInv, Before
    <3> QED
      BY <1>1, <1>2, <1>6, <1>12, <3>1 DEF OrderInv
  <2>4. OnWay' = OnWay
    BY <1>1, <1>2, <1>5, <1>9, <1>12, <2>1, <2>2, Types, OnWayNext
  <2>5. ExactlyOnce'
    BY <1>1, <1>2, <1>4, <1>12, <2>4, OnceStays
  <2>6. PendingInv'
    BY <1>1, <1>2, <1>5, <1>8, <1>9, <1>12, <2>1 DEF PendingInv
  <2>7. ExpiredAreLate'
    BY <1>1, <1>2, <1>12 DEF ExpiredAreLate
  <2> QED
    BY <2>2, <2>3, <2>5, <2>6, <2>7 DEF UeventInv
<1>13. CASE /\ rest' = << >> /\ failures < MaxFailures /\ failures' = failures + 1
            /\ lost' = lost \cup ToSet(rest)
            /\ UNCHANGED <<settled, adding>>
  <2>1. failures' \in 0..MaxFailures /\ failures' > 0
    BY <1>4, <1>13
  <2>2. rest' \in Seq(Ids) /\ ToSet(rest') = {} /\ Increasing(rest')
    BY <1>13 DEF ToSet, Increasing
  <2>3. TypeOK'
    <3>1. lost' \subseteq Ids
      BY <1>1, <1>13, Types DEF TypeOK
    <3> QED
      BY <1>1, <1>2, <1>7, <1>8, <1>13, <2>1, <2>2, <3>1 DEF TypeOK
  <2>4. OrderInv'
    <3>1. /\ Before(ToSet(pending), ToSet(adding) \cup ToSet(rest') \cup ToSet(tasks) \cup ToSet(hand) \cup ToSet(netlink))
          /\ Before(ToSet(adding), ToSet(rest') \cup ToSet(tasks) \cup ToSet(hand) \cup ToSet(netlink))
          /\ Before(ToSet(rest'), ToSet(tasks) \cup ToSet(hand) \cup ToSet(netlink))
          /\ Before(ToSet(tasks), ToSet(hand) \cup ToSet(netlink))
          /\ Before(ToSet(hand), ToSet(netlink))
      BY <1>1, <2>2 DEF OrderInv, Before
    <3> QED
      BY <1>1, <1>2, <1>13, <2>2, <3>1 DEF OrderInv
  <2>5. ToSet(rest) \subseteq Ids
    BY <1>1, Types
  \* Nothing of the rest is anywhere else either.
  <2>6. \A x \in ToSet(rest) : x \notin ToSet(pending) \cup ToSet(tasks) \cup ToSet(hand) \cup ToSet(netlink)
    <3> TAKE x \in ToSet(rest)
    <3>1. x \in Nat /\ x # Check /\ ~ (x < x)
      <4>1. x \in Ids
        BY <2>5
      <4>2. x \in Nat /\ x # Check
        BY <1>4, <4>1, Zenon
      <4> QED
        BY <4>2
    <3>2. /\ Before(ToSet(pending), {x})
          /\ Before({x}, ToSet(tasks) \cup ToSet(hand) \cup ToSet(netlink))
      BY <1>1 DEF OrderInv, Before
    <3> QED
      BY <3>1, <3>2 DEF Before
  <2>7. OnWay = OnWay' \cup ToSet(rest) /\ OnWay' \cap ToSet(rest) = {}
    <3>1. OnWay = (ToSet(pending) \cup ToSet(rest) \cup ToSet(tasks) \cup ToSet(hand)
                   \cup ToSet(netlink)) \ {Check}
      BY <1>1, <1>9, Types
    <3>2. OnWay' = (ToSet(pending) \cup ToSet(tasks) \cup ToSet(hand)
                    \cup ToSet(netlink)) \ {Check}
      BY <1>2, <1>9, <1>13, <2>2, <2>3, OnWayNext
    <3> QED
      BY <1>4, <2>5, <2>6, <3>1, <3>2
  <2>8. ExactlyOnce'
    <3> DEFINE held == ToSet(rest)
    <3>1. held \subseteq Ids /\ lost' = lost \cup held /\ OnWay' \cap held = {} /\ OnWay = OnWay' \cup held
      BY <1>13, <2>5, <2>7
    <3> HIDE DEF held
    <3> QED
      BY <1>1, <1>2, <1>13, <2>1, <3>1, LoseOnce
  <2>9. PendingInv'
    BY <1>1, <1>2, <1>8, <1>13, <2>2 DEF PendingInv
  <2>10. ExpiredAreLate'
    BY <1>1, <1>2, <1>13 DEF ExpiredAreLate
  <2> QED
    BY <2>3, <2>4, <2>8, <2>9, <2>10 DEF UeventInv
<1> QED
  BY <1>3, <1>11, <1>12, <1>13

\* onPartitionAdd goes on: the event is reported, or put behind the pending ones.
LEMMA PartitionAddKeeps ==
    ASSUME UeventInv, OnPartitionAdd
    PROVE  UeventInv'
<1> DEFINE m == Head(adding)
<1>1. TypeOK /\ OrderInv /\ ExactlyOnce /\ PendingInv /\ ExpiredAreLate
  BY DEF UeventInv
<1>2. /\ UNCHANGED <<plugged, mounted, emitted, overrun, hand, netlink, tasks, rest, late>>
      /\ UNCHANGED <<known, age, seen, timer, process, lost, failures>>
      /\ adding # << >> /\ adding' = << >>
      /\ \/ settled' = Append(settled, <<m, "added">>) /\ pending' = pending
         \/ pending' = pending \o adding /\ settled' = settled
  BY DEF OnPartitionAdd, Log, world, native, since, outcome
<1>3. /\ pending \in Seq(Ids) /\ pending \in Seq(Nat) /\ Increasing(pending)
      /\ adding \in Seq(Ids) /\ adding \in Seq(Nat) /\ Len(adding) <= 1
      /\ failures \in Nat /\ Ids \subseteq Nat /\ Check \notin Ids
  <2>1. Len(adding) <= 1 /\ failures \in 0..MaxFailures /\ Increasing(pending)
    BY <1>1 DEF OrderInv, TypeOK
  <2>2. failures \in Nat
    BY <2>1, UeventAssumption
  <2> QED
    BY <1>1, <2>1, <2>2, Types
<1>4. m \in Ids /\ ToSet(adding) = {m}
  BY <1>2, <1>3, OneInSeq
<1> HIDE DEF m
<1>5. Ids' = Ids
  BY <1>2 DEF Ids
<1>6. adding' \in Seq(Ids) /\ Len(adding') <= 1 /\ ToSet(adding') = {}
  BY <1>2 DEF ToSet
<1>7. emitted[m].kind = "add"
  BY <1>1, <1>4 DEF PendingInv
\* It is older than what is behind it, newer than what is pending.
<1>8. m \notin ToSet(pending) \cup ToSet(rest) \cup ToSet(tasks) \cup ToSet(hand) \cup ToSet(netlink)
  <2>1. m \in Nat /\ m # Check /\ ~ (m < m)
    BY <1>3, <1>4
  <2>2. /\ Before(ToSet(pending), {m})
        /\ Before({m}, ToSet(rest) \cup ToSet(tasks) \cup ToSet(hand) \cup ToSet(netlink))
    BY <1>1, <1>4 DEF OrderInv, Before
  <2> QED
    BY <2>1, <2>2 DEF Before
<1>9. CASE settled' = Append(settled, <<m, "added">>) /\ pending' = pending
  <2> DEFINE W == {"added", "removed", "unknown", "ignored", "expired"}
  <2>1. "added" \in W /\ "added" # "expired"
    OBVIOUS
  <2>2. settled' \in Seq(Ids \X W)
    <3>1. settled \in Seq(Ids \X W) /\ <<m, "added">> \in Ids \X W
      BY <1>1, <1>4 DEF TypeOK
    <3> HIDE DEF W
    <3> QED
      BY <1>9, <3>1, SetOfAppend
  <2>3. TypeOK'
    BY <1>1, <1>2, <1>5, <1>6, <1>9, <2>2 DEF TypeOK
  <2>4. OrderInv'
    <3>1. /\ Before(ToSet(pending), ToSet(adding') \cup ToSet(rest) \cup ToSet(tasks) \cup ToSet(hand) \cup ToSet(netlink))
          /\ Before(ToSet(adding'), ToSet(rest) \cup ToSet(tasks) \cup ToSet(hand) \cup ToSet(netlink))
          /\ Before(ToSet(rest), ToSet(tasks) \cup ToSet(hand) \cup ToSet(netlink))
          /\ Before(ToSet(tasks), ToSet(hand) \cup ToSet(netlink))
          /\ Before(ToSet(hand), ToSet(netlink))
      BY <1>1, <1>6 DEF OrderInv, Before
    <3> QED
      BY <1>1, <1>2, <1>9, <3>1 DEF OrderInv
  <2>5. OnWay = OnWay' \cup {m} /\ m \notin OnWay'
    BY <1>1, <1>2, <1>3, <1>4, <1>6, <1>8, <1>9, <2>3, Types, OnWayNext
  <2>6. ExactlyOnce'
    BY <1>1, <1>2, <1>4, <1>9, <2>1, <2>5, LogOnce
  <2>7. PendingInv'
    BY <1>1, <1>2, <1>6, <1>9 DEF PendingInv
  <2>8. ExpiredAreLate'
    <3>1. PICK v : v = "added"
      OBVIOUS
    <3>2. settled' = Append(settled, <<m, v>>) /\ v # "expired"
      BY <1>9, <3>1
    <3> QED
      BY <1>1, <1>2, <1>4, <3>2, ExpiredStays
  <2> QED
    BY <2>3, <2>4, <2>6, <2>7, <2>8 DEF UeventInv
<1>10. CASE pending' = pending \o adding /\ settled' = settled
  <2>1. pending' \in Seq(Ids) /\ ToSet(pending') = ToSet(pending) \cup {m}
    BY <1>3, <1>4, <1>10, SetOfConcat
  <2>2. Increasing(pending')
    <3>1. Increasing(adding) /\ Before(ToSet(pending), ToSet(adding))
      BY <1>1, <1>3, ShortInOrder DEF OrderInv, Before
    <3> QED
      BY <1>3, <1>10, <3>1, ConcatInOrder
  <2>3. TypeOK'
    BY <1>1, <1>2, <1>5, <1>6, <1>10, <2>1 DEF TypeOK
  <2>4. OrderInv'
    <3>1. /\ Before(ToSet(pending'), ToSet(adding') \cup ToSet(rest) \cup ToSet(tasks) \cup ToSet(hand) \cup ToSet(netlink))
          /\ Before(ToSet(adding'), ToSet(rest) \cup ToSet(tasks) \cup ToSet(hand) \cup ToSet(netlink))
          /\ Before(ToSet(rest), ToSet(tasks) \cup ToSet(hand) \cup ToSet(netlink))
          /\ Before(ToSet(tasks), ToSet(hand) \cup ToSet(netlink))
          /\ Before(ToSet(hand), ToSet(netlink))
      BY <1>1, <1>4, <1>6, <2>1 DEF OrderInv, Before
    <3> QED
      BY <1>1, <1>2, <2>2, <3>1 DEF OrderInv
  <2>5. OnWay' = OnWay
    BY <1>1, <1>2, <1>4, <1>6, <2>1, <2>3, Types, OnWayNext
  <2>6. ExactlyOnce'
    BY <1>1, <1>2, <1>3, <1>10, <2>5, OnceStays
  <2>7. PendingInv'
    BY <1>1, <1>2, <1>6, <1>7, <2>1 DEF PendingInv
  <2>8. ExpiredAreLate'
    BY <1>1, <1>2, <1>10 DEF ExpiredAreLate
  <2> QED
    BY <2>3, <2>4, <2>6, <2>7, <2>8 DEF UeventInv
<1> QED
  BY <1>2, <1>9, <1>10


-----------------------------------------------------------------------------
(* The whole monitor.                                                      *)

LEMMA NextKeeps == UeventInv /\ [Next]_vars => UeventInv'
<1> SUFFICES ASSUME UeventInv, [Next]_vars PROVE UeventInv'
  OBVIOUS
<1>1. ASSUME NEW d \in Devices, Plug(d) \/ Unplug(d) \/ OtherUevent(d) PROVE UeventInv'
  <2>1. PICK kind \in {"add", "remove", "other"} : Broadcast(kind, d)
    BY <1>1 DEF Plug, Unplug, OtherUevent
  <2>2. plugged' \subseteq Devices
    BY <1>1 DEF Plug, Unplug, OtherUevent, UeventInv, TypeOK
  <2> QED
    BY <2>1, <2>2, BroadcastKeeps
<1>2. CASE \E d \in Devices : Mount(d) \/ Unmount(d)
  BY <1>2, QuietStepsKeep
<1>3. CASE Run \/ Aborted \/ UNCHANGED vars
  BY <1>3, QuietStepsKeep DEF Aborted
<1>4. CASE Tick
  BY <1>4, TickKeeps
<1>5. CASE Receive
  <2>1. CASE overrun
    BY <1>5, <2>1, QuietStepsKeep
  <2>2. CASE ~ overrun
    BY <1>5, <2>2, ReceiveKeeps
  <2> QED
    BY <2>1, <2>2
<1>6. CASE OnReceiveUevent
  BY <1>6, OnReceiveUeventKeeps
<1>7. CASE CheckPendingEvent
  BY <1>7, CheckPendingEventKeeps
<1>8. CASE DoProcessEvent
  BY <1>8, DoProcessEventKeeps
<1>9. CASE DoCheckPendingEvent
  BY <1>9, DoCheckPendingEventKeeps
<1>10. CASE CheckNextEvent
  BY <1>10, CheckNextEventKeeps
<1>11. CASE OnPartitionAdd
  BY <1>11, PartitionAddKeeps
<1> QED
  BY <1>1, <1>2, <1>3, <1>4, <1>5, <1>6, <1>7, <1>8, <1>9, <1>10, <1>11
     DEF Next, World, Native, Main, Worker

\* Each place holds messages in order, older ones than the places behind it, and
\* whatever is in none of them was logged once, or is lost.
THEOREM InvariantHolds == Spec => []UeventInv
<1>1. Init => UeventInv
  BY InitInv
<1>2. UeventInv /\ [Next]_vars => UeventInv'
  BY NextKeeps
<1> QED
  BY <1>1, <1>2, PTL DEF Spec

\* Every variable keeps its type; no message is anywhere that was not broadcast.
THEOREM TypeCorrect == Spec => []TypeOK
<1>1. UeventInv => TypeOK
  BY DEF UeventInv
<1> QED
  BY <1>1, InvariantHolds, PTL

\* The worker sees messages in the order in which the kernel sent them, and a
\* message taken back into the pending list is still older than all it has not
\* seen: nothing overtakes anything.
THEOREM NothingOvertakes == Spec => []PipelineInOrder
<1>1. UeventInv => PipelineInOrder
  BY PlacesInOrder DEF UeventInv
<1> QED
  BY <1>1, InvariantHolds, PTL

\* No message is dropped or handled twice between the socket and the log, unless
\* the socket's buffer was full or psutil failed.
THEOREM EachOnce == Spec => []ExactlyOnce
<1>1. UeventInv => ExactlyOnce
  BY DEF UeventInv
<1> QED
  BY <1>1, InvariantHolds, PTL

\* Nothing is given up before its time.
THEOREM ExpiredLate == Spec => []ExpiredAreLate
<1>1. UeventInv => ExpiredAreLate
  BY DEF UeventInv
<1> QED
  BY <1>1, InvariantHolds, PTL

-----------------------------------------------------------------------------
(* The order of the log.                                                   *)

LEMMA LogStays ==
    ASSUME TypeOK, LogInv, UNCHANGED settled,
           \A m \in Ids : emitted'[m] = emitted[m],
           NEW new, \A m \in Ids : m < new, Coming' \subseteq Coming \cup {Check, new}
    PROVE  LogInv'
<1>1. \A i \in 1..Len(settled) : settled[i][1] \in Ids /\ settled[i][1] \in SettledIds
  BY Types DEF SettledIds
<1>2. SettledIds' = SettledIds /\ SettledIds \subseteq Ids
  BY <1>1 DEF SettledIds
<1>3. Before(SettledIds, Coming)'
  <2> SUFFICES ASSUME NEW m \in SettledIds \ {Check}, NEW n \in Coming' \ {Check}
               PROVE  m < n
    BY <1>2 DEF Before
  <2>1. n \in Coming \/ n = new
    OBVIOUS
  <2> QED
    BY <1>2, <2>1 DEF LogInv, Before
<1>4. OnlyAddsAreOvertaken'
  BY <1>1 DEF LogInv, OnlyAddsAreOvertaken
<1> QED
  BY <1>3, <1>4 DEF LogInv

\* Older than what is coming, and than what has been logged unless it waited.
LEMMA LogInOrder ==
    ASSUME TypeOK, LogInv, UNCHANGED emitted, Coming' \subseteq Coming,
           NEW m \in Ids, NEW v \in {"added", "removed", "unknown", "ignored", "expired"},
           settled' = Append(settled, <<m, v>>),
           Before({m}, Coming'), m \in Coming \/ emitted[m].kind = "add"
    PROVE  LogInv'
<1> DEFINE n == Len(settled)
<1>1. /\ n \in Nat /\ Len(settled') = n + 1
      /\ settled'[n + 1][1] = m /\ \A i \in 1..n : settled'[i][1] = settled[i][1]
      /\ \A y : y \in SettledIds' <=> y \in SettledIds \/ y = m
  BY LogGrows
<1> HIDE DEF n
<1>2. \A i \in 1..n : settled[i][1] \in Ids /\ settled[i][1] \in SettledIds
  BY Types DEF SettledIds, n
<1>3. Before(SettledIds, Coming)'
  BY <1>1 DEF LogInv, Before
<1>4. Ids \subseteq Nat \ {Check}
  BY Types DEF Ids, Check
<1>5. OnlyAddsAreOvertaken'
  <2> SUFFICES ASSUME NEW i \in 1..(n + 1), NEW j \in 1..(n + 1), i < j,
                      settled'[i][1] > settled'[j][1]
               PROVE  emitted[settled'[j][1]].kind = "add"
    BY <1>1 DEF OnlyAddsAreOvertaken
  <2>1. i \in 1..n /\ settled'[i][1] = settled[i][1] /\ (j \in 1..n \/ j = n + 1)
    BY <1>1
  <2>2. CASE j \in 1..n
    <3>1. settled'[j][1] = settled[j][1] /\ settled[i][1] > settled[j][1]
      BY <1>1, <2>1, <2>2
    <3> QED
      BY <2>1, <2>2, <3>1 DEF LogInv, OnlyAddsAreOvertaken, n
  <2>3. CASE j = n + 1
    <3>1. settled'[j][1] = m /\ settled[i][1] > m
      BY <1>1, <2>1, <2>3
    <3> DEFINE x == settled[i][1]
    <3>2. x \in Ids /\ x \in SettledIds
      BY <1>2, <2>1
    <3> HIDE DEF x
    <3>3. x \in Nat /\ x # Check /\ m \in Nat /\ m # Check
      BY <1>4, <3>2
    <3>4. ~ (x < m)
      BY <3>1, <3>3 DEF x
    <3>5. m \notin Coming
      BY <3>2, <3>3, <3>4 DEF LogInv, Before
    <3> QED
      BY <3>1, <3>5
  <2> QED
    BY <2>1, <2>2, <2>3
<1> QED
  BY <1>3, <1>5 DEF LogInv

\* The steps that log nothing.
LEMMA QuietLog ==
    ASSUME TypeOK, LogInv, UNCHANGED settled, UNCHANGED emitted,
           Coming' \subseteq Coming \cup {Check}
    PROVE  LogInv'
<1>1. Len(emitted) + 1 \in Nat /\ \A m \in Ids : m < Len(emitted) + 1
  BY Types DEF Ids
<1>2. Coming' \subseteq Coming \cup {Check, Len(emitted) + 1}
  OBVIOUS
<1>3. \A m \in Ids : emitted'[m] = emitted[m]
  OBVIOUS
<1> QED
  BY <1>1, <1>2, <1>3, LogStays

LEMMA BroadcastLog ==
    ASSUME UeventInv, LogInv, NEW kind, NEW dev, Broadcast(kind, dev)
    PROVE  LogInv'
<1> DEFINE m == Len(emitted) + 1
           e == [kind |-> kind, dev |-> dev]
<1>1. /\ TypeOK /\ Len(emitted) \in Nat /\ Ids = 1..Len(emitted)
      /\ netlink \in Seq(Nat)
  BY Types DEF UeventInv, Ids
<1>2. /\ emitted' = Append(emitted, e) /\ UNCHANGED <<settled, tasks, hand>>
      /\ netlink' = netlink \/ netlink' = Append(netlink, m)
  BY DEF Broadcast
<1>3. \A i \in Ids : emitted'[i] = emitted[i]
  <2> DEFINE M == [kind : {"add", "remove", "other"}, dev : Devices]
  <2>1. emitted \in Seq(M)
    BY <1>1 DEF TypeOK
  <2> HIDE DEF M, e
  <2> QED
    BY <1>1, <1>2, <2>1
<1>4. m \in Nat /\ \A i \in Ids : i < m
  BY <1>1
<1> HIDE DEF m
<1>5. ToSet(netlink') \subseteq ToSet(netlink) \cup {m}
  <2>1. ToSet(Append(netlink, m)) = ToSet(netlink) \cup {m}
    BY <1>1, <1>4, SetOfAppend
  <2> QED
    BY <1>2, <2>1
<1>6. Coming' \subseteq Coming \cup {Check, m}
  BY <1>2, <1>5 DEF Coming
<1> QED
  BY <1>1, <1>2, <1>3, <1>4, <1>6, LogStays

LEMMA LogKeeps == UeventInv /\ LogInv /\ [Next]_vars => LogInv'
<1> SUFFICES ASSUME UeventInv, LogInv, [Next]_vars PROVE LogInv'
  OBVIOUS
<1>0. /\ TypeOK /\ OrderInv /\ PendingInv
      /\ tasks \in Seq(Ids \cup {Check}) /\ tasks \in Seq(Nat) /\ Increasing(tasks)
      /\ rest \in Seq(Ids) /\ hand \in Seq(Ids) /\ netlink \in Seq(Ids)
  BY Types DEF UeventInv, OrderInv
<1>1. ASSUME NEW d \in Devices, Plug(d) \/ Unplug(d) \/ OtherUevent(d) PROVE LogInv'
  BY <1>1, BroadcastLog DEF Plug, Unplug, OtherUevent
<1>2. CASE \/ \E d \in Devices : Mount(d) \/ Unmount(d)
           \/ Run \/ Aborted \/ UNCHANGED vars \/ Tick
  <2>1. UNCHANGED <<settled, emitted, tasks, hand, netlink>>
    BY <1>2 DEF Mount, Unmount, Run, Aborted, Tick, vars, native, outcome
  <2>2. Coming' = Coming
    BY <2>1 DEF Coming
  <2> QED
    BY <1>0, <2>1, <2>2, QuietLog
<1>3. CASE Receive
  <2>1. /\ UNCHANGED <<settled, emitted, tasks>>
        /\ \/ UNCHANGED <<hand, netlink>>
           \/ netlink # << >> /\ hand' = <<Head(netlink)>> /\ netlink' = Tail(netlink)
    BY <1>3 DEF Receive, native, outcome
  <2>2. ToSet(hand') \cup ToSet(netlink') \subseteq ToSet(hand) \cup ToSet(netlink)
    <3>1. CASE netlink # << >> /\ hand' = <<Head(netlink)>> /\ netlink' = Tail(netlink)
      <4>1. ToSet(netlink) = {Head(netlink)} \cup ToSet(Tail(netlink))
        BY <1>0, <3>1, SetOfTail
      <4>2. ToSet(<<Head(netlink)>>) = {Head(netlink)}
        BY DEF ToSet
      <4> QED
        BY <3>1, <4>1, <4>2
    <3> QED
      BY <2>1, <3>1
  <2>3. Coming' \subseteq Coming
    BY <2>1, <2>2 DEF Coming
  <2> QED
    BY <1>0, <2>1, <2>3, QuietLog
<1>4. CASE OnReceiveUevent
  <2>1. /\ UNCHANGED <<settled, emitted, netlink>> /\ hand' = << >>
        /\ tasks' = tasks \o hand \/ tasks' = tasks
    BY <1>4 DEF OnReceiveUevent, InvalidMessage
  <2>2. ToSet(tasks') \subseteq ToSet(tasks) \cup ToSet(hand) /\ ToSet(hand') = {}
    <3>1. hand \in Seq(Ids \cup {Check})
      BY <1>0, SetOfSeq
    <3>2. ToSet(tasks \o hand) = ToSet(tasks) \cup ToSet(hand)
      BY <1>0, <3>1, SetOfConcat
    <3>3. hand' \in Seq(Ids)
      BY <2>1
    <3> QED
      BY <2>1, <3>2, <3>3, SetOfSeq
  <2>3. Coming' \subseteq Coming
    BY <2>1, <2>2 DEF Coming
  <2> QED
    BY <1>0, <2>1, <2>3, QuietLog
<1>5. CASE CheckPendingEvent
  <2>1. UNCHANGED <<settled, emitted, hand, netlink>> /\ tasks' = Append(tasks, Check)
    BY <1>5 DEF CheckPendingEvent, native, outcome
  <2>2. ToSet(tasks') = ToSet(tasks) \cup {Check}
    BY <1>0, <2>1, SetOfAppend
  <2>3. Coming' \subseteq Coming \cup {Check}
    BY <2>1, <2>2 DEF Coming
  <2> QED
    BY <1>0, <2>1, <2>3, QuietLog
<1>6. CASE DoProcessEvent
  <2> DEFINE m == Head(tasks)
  <2>1. /\ UNCHANGED <<emitted, hand, netlink>> /\ tasks # << >> /\ m # Check
        /\ tasks' = Tail(tasks)
        /\ \/ UNCHANGED settled
           \/ \E v \in {"removed", "unknown", "ignored"} :
                 settled' = Append(settled, <<m, v>>)
    BY <1>6 DEF DoProcessEvent, WorkerIdle, NextTask, native, UpdateMountpoint,
       OnPartitionRemove, UpdateMountpointFails, Log, outcome
  <2>2. m \in Ids /\ ToSet(tasks) = {m} \cup ToSet(tasks')
    BY <1>0, <2>1, SetOfTail
  <2>3. Before({m}, ToSet(tasks'))
    BY <1>0, <2>1, TailInOrder
  <2> HIDE DEF m
  <2>4. Coming' \subseteq Coming /\ m \in Coming
    BY <2>1, <2>2 DEF Coming
  <2>5. Before({m}, Coming')
    BY <1>0, <2>1, <2>2, <2>3 DEF OrderInv, Before, Coming
  <2>6. CASE UNCHANGED settled
    BY <1>0, <2>1, <2>4, <2>6, QuietLog
  <2>7. CASE \E v \in {"removed", "unknown", "ignored"} :
                settled' = Append(settled, <<m, v>>)
    <3>1. PICK v \in {"added", "removed", "unknown", "ignored", "expired"} :
             settled' = Append(settled, <<m, v>>)
      BY <2>7
    <3> QED
      BY <1>0, <2>1, <2>2, <2>4, <2>5, <3>1, LogInOrder
  <2> QED
    BY <2>1, <2>6, <2>7
<1>7. CASE DoCheckPendingEvent
  <2>1. /\ UNCHANGED <<settled, emitted, hand, netlink>> /\ tasks # << >>
        /\ tasks' = Tail(tasks)
    BY <1>7 DEF DoCheckPendingEvent, WorkerIdle, native, outcome
  <2>2. ToSet(tasks') \subseteq ToSet(tasks)
    BY <1>0, <2>1, SetOfTail
  <2>3. Coming' \subseteq Coming
    BY <2>1, <2>2 DEF Coming
  <2> QED
    BY <1>0, <2>1, <2>3, QuietLog
<1>8. CASE CheckNextEvent
  <2> DEFINE m == Head(rest)
  <2>1. /\ UNCHANGED <<emitted, hand, netlink, tasks>> /\ rest # << >>
        /\ \/ UNCHANGED settled
           \/ settled' = Append(settled, <<m, "expired">>)
    BY <1>8 DEF CheckNextEvent, native, UpdateMountpoint, UpdateMountpointFails, Log, outcome
  <2>2. m \in Ids /\ m \in ToSet(rest)
    BY <1>0, <2>1, SetOfTail
  <2> HIDE DEF m
  <2>3. Coming' = Coming /\ Before({m}, Coming') /\ emitted[m].kind = "add"
    BY <1>0, <2>1, <2>2 DEF OrderInv, PendingInv, Before, Coming
  <2>4. CASE UNCHANGED settled
    BY <1>0, <2>1, <2>3, <2>4, QuietLog
  <2>5. CASE settled' = Append(settled, <<m, "expired">>)
    <3>1. "expired" \in {"added", "removed", "unknown", "ignored", "expired"}
      OBVIOUS
    <3> QED
      BY <1>0, <2>1, <2>2, <2>3, <2>5, <3>1, LogInOrder
  <2> QED
    BY <2>1, <2>4, <2>5
<1>9. CASE OnPartitionAdd
  <2> DEFINE m == Head(adding)
  <2>1. /\ UNCHANGED <<emitted, hand, netlink, tasks>> /\ adding # << >>
        /\ settled' = settled \/ settled' = Append(settled, <<m, "added">>)
    BY <1>9 DEF OnPartitionAdd, native, Log, outcome
  <2>2. m \in Ids /\ m \in ToSet(adding)
    <3>1. adding \in Seq(Ids) /\ Len(adding) <= 1
      BY <1>0 DEF TypeOK
    <3> QED
      BY <2>1, <3>1, OneInSeq
  <2> HIDE DEF m
  <2>3. Coming' = Coming /\ Before({m}, Coming') /\ emitted[m].kind = "add"
    BY <1>0, <2>1, <2>2 DEF OrderInv, PendingInv, Before, Coming
  <2>4. CASE settled' = settled
    BY <1>0, <2>1, <2>3, <2>4, QuietLog
  <2>5. CASE settled' = Append(settled, <<m, "added">>)
    <3>1. "added" \in {"added", "removed", "unknown", "ignored", "expired"}
      OBVIOUS
    <3> QED
      BY <1>0, <2>1, <2>2, <2>3, <2>5, <3>1, LogInOrder
  <2> QED
    BY <2>1, <2>4, <2>5
<1> QED
  BY <1>1, <1>2, <1>3, <1>4, <1>5, <1>6, <1>7, <1>8, <1>9
     DEF Next, World, Native, Main, Worker

\* Whatever the number of events and checks: the log is in the order of the
\* messages, but for the partitions that had to wait; no removal is logged late.
THEOREM LogInTurn == Spec => []OnlyAddsAreOvertaken
<1>1. Init => LogInv
  <2> SUFFICES ASSUME Init PROVE LogInv
    OBVIOUS
  <2>1. Len(settled) = 0 /\ SettledIds = {}
    BY DEF Init, SettledIds
  <2> QED
    BY <2>1 DEF LogInv, Before, OnlyAddsAreOvertaken
<1>2. UeventInv /\ LogInv /\ [Next]_vars => LogInv'
  BY LogKeeps
<1>3. LogInv => OnlyAddsAreOvertaken
  BY DEF LogInv
<1> QED
  BY <1>1, <1>2, <1>3, InvariantHolds, PTL DEF Spec

-----------------------------------------------------------------------------
(* What is reported was mounted.                                           *)

\* The events that onReceiveUevent has passed on and that are not settled yet.
LEMMA AgingIs ==
    \A x : x \in Aging <=> /\ x # Check /\ emitted[x].kind = "add"
                           /\ \/ x \in ToSet(tasks) \/ x \in ToSet(rest)
                              \/ x \in ToSet(adding) \/ x \in ToSet(pending)
BY DEF Aging, Adds

LEMMA AgingShrinks ==
    ASSUME TypeOK, \A m \in Ids : emitted'[m] = emitted[m],
           ToSet(tasks') \subseteq ToSet(tasks) \cup {Check},
           ToSet(rest') \subseteq ToSet(rest) \cup ToSet(pending),
           ToSet(adding') \subseteq ToSet(adding) \cup ToSet(tasks) \cup ToSet(rest),
           ToSet(pending') \subseteq ToSet(pending) \cup ToSet(adding)
    PROVE  \A x \in Aging' : x \in Aging /\ emitted'[x] = emitted[x]
<1> SUFFICES ASSUME NEW x \in Aging' PROVE x \in Aging /\ emitted'[x] = emitted[x]
  OBVIOUS
<1>1. /\ x # Check /\ emitted'[x].kind = "add"
      /\ \/ x \in ToSet(tasks') \/ x \in ToSet(rest')
         \/ x \in ToSet(adding') \/ x \in ToSet(pending')
  BY DEF Aging, Adds
<1>2. \/ x \in ToSet(tasks) \/ x \in ToSet(rest)
      \/ x \in ToSet(adding) \/ x \in ToSet(pending)
  BY <1>1
<1>3. x \in Ids
  BY <1>1, <1>2, Types
<1> QED
  BY <1>1, <1>2, <1>3, AgingIs

\* The log grows by what was mounted, or by something else.
LEMMA ReportStays ==
    ASSUME TypeOK, AddedWereMounted, seen \subseteq seen', NEW m \in Ids, NEW v,
           settled' = settled \/ settled' = Append(settled, <<m, v>>),
           v = "added" => m \in seen'
    PROVE  AddedWereMounted'
<1> DEFINE S == Ids \X {"added", "removed", "unknown", "ignored", "expired"}
           n == Len(settled)
<1>1. CASE settled' = settled
  BY <1>1 DEF AddedWereMounted
<1>2. CASE settled' = Append(settled, <<m, v>>)
  <2>1. settled \in Seq(S)
    BY DEF TypeOK
  <2> HIDE DEF S
  <2>2. n \in Nat
    BY <2>1
  <2>3. /\ Len(settled') = n + 1 /\ settled'[n + 1] = <<m, v>>
        /\ \A i \in 1..n : settled'[i] = settled[i]
    BY <1>2, <2>1
  <2> HIDE DEF n
  <2> SUFFICES ASSUME NEW i \in 1..(n + 1), settled'[i][2] = "added"
               PROVE  settled'[i][1] \in seen'
    BY <2>3 DEF AddedWereMounted
  <2>4. CASE i = n + 1
    <3>1. settled'[i][1] = m /\ settled'[i][2] = v
      BY <2>3, <2>4
    <3> QED
      BY <3>1
  <2>5. CASE i \in 1..n
    <3>1. settled'[i] = settled[i]
      BY <2>3, <2>5
    <3> QED
      BY <2>5, <3>1 DEF AddedWereMounted, n
  <2> QED
    BY <2>2, <2>4, <2>5
<1> QED
  BY <1>1, <1>2

\* The steps that mount nothing, refresh no map and report no partition.
LEMMA SeenStays ==
    ASSUME TypeOK, SeenInv, \A m \in Ids : emitted'[m] = emitted[m],
           mounted' \subseteq mounted, UNCHANGED <<known, seen, settled>>,
           ToSet(tasks') \subseteq ToSet(tasks) \cup {Check},
           ToSet(rest') \subseteq ToSet(rest) \cup ToSet(pending),
           ToSet(adding') \subseteq ToSet(adding),
           ToSet(pending') \subseteq ToSet(pending) \cup ToSet(adding)
    PROVE  SeenInv'
<1>1. \A x \in Aging' : x \in Aging /\ emitted'[x] = emitted[x]
  BY AgingShrinks
<1>2. \A x \in ToSet(adding') : x \in ToSet(adding) /\ emitted'[x] = emitted[x]
  BY Types
<1>3. AddedWereMounted'
  BY DEF SeenInv, AddedWereMounted
<1> QED
  BY <1>1, <1>2, <1>3 DEF SeenInv


\* onPartitionAdd refreshes the map.
LEMMA LookKeepsSeen ==
    ASSUME TypeOK, SeenInv, NEW m \in Aging, m \in ToSet(tasks) \cup ToSet(rest),
           UpdateMountpoint(m), UNCHANGED <<emitted, mounted, seen>>,
           ToSet(tasks') \subseteq ToSet(tasks), ToSet(rest') \subseteq ToSet(rest)
    PROVE  SeenInv'
<1>1. /\ known' = mounted /\ adding' = <<m>> /\ UNCHANGED <<pending, settled>>
      /\ \A x : x \in ToSet(adding') <=> x = m
  <2>1. ToSet(<<m>>) = {m}
    BY DEF ToSet
  <2> QED
    BY <2>1 DEF UpdateMountpoint, outcome
<1>2. \A x \in Aging' : x \in Aging /\ emitted'[x] = emitted[x]
  BY <1>1, AgingShrinks
<1>3. AddedWereMounted'
  BY <1>1 DEF SeenInv, AddedWereMounted
<1> QED
  BY <1>1, <1>2, <1>3 DEF SeenInv

LEMMA SeenKeeps == UeventInv /\ SeenInv /\ [Next]_vars => SeenInv'
<1> SUFFICES ASSUME UeventInv, SeenInv, [Next]_vars PROVE SeenInv'
  OBVIOUS
<1>0. /\ TypeOK /\ PendingInv
      /\ tasks \in Seq(Ids \cup {Check}) /\ tasks \in Seq(Nat)
      /\ rest \in Seq(Ids) /\ hand \in Seq(Ids) /\ netlink \in Seq(Ids)
      /\ pending \in Seq(Ids) /\ adding \in Seq(Ids) /\ Len(adding) <= 1
  BY Types DEF UeventInv, TypeOK
<1>1. ASSUME NEW d \in Devices, Plug(d) \/ Unplug(d) \/ OtherUevent(d) PROVE SeenInv'
  <2>1. PICK kind \in {"add", "remove", "other"} : Broadcast(kind, d)
    BY <1>1 DEF Plug, Unplug, OtherUevent
  <2>2. /\ emitted' = Append(emitted, [kind |-> kind, dev |-> d])
        /\ UNCHANGED <<mounted, tasks, pending, adding, rest, known, seen, settled>>
    BY <2>1 DEF Broadcast, list, since
  <2>3. \A i \in Ids : emitted'[i] = emitted[i]
    <3> DEFINE M == [kind : {"add", "remove", "other"}, dev : Devices]
               e == [kind |-> kind, dev |-> d]
    <3>1. emitted \in Seq(M)
      BY <1>0 DEF TypeOK
    <3> HIDE DEF M, e
    <3> QED
      BY <2>2, <3>1 DEF Ids, e
  <2> QED
    BY <1>0, <2>2, <2>3, SeenStays
<1>2. ASSUME NEW d \in Devices, Mount(d) PROVE SeenInv'
  <2>1. /\ mounted' = mounted \cup {d}
        /\ seen' = seen \cup {m \in Aging : emitted[m].dev = d}
        /\ UNCHANGED <<emitted, tasks, pending, adding, rest, known, settled>>
    BY <1>2 DEF Mount, list, outcome
  <2>2. Aging' = Aging
    BY <2>1 DEF Aging, Adds
  <2>3. AddedWereMounted'
    BY <2>1 DEF SeenInv, AddedWereMounted
  <2> QED
    BY <2>1, <2>2, <2>3 DEF SeenInv
<1>3. CASE \/ \E d \in Devices : Unmount(d)
           \/ Tick \/ Receive \/ Aborted \/ UNCHANGED vars
  <2>1. UNCHANGED <<emitted, tasks, pending, adding, rest, known, seen, settled>>
    BY <1>3 DEF Unmount, Tick, Receive, Aborted, vars, list, since, outcome
  <2>2. mounted' \subseteq mounted
    BY <1>3 DEF Unmount, Tick, Receive, Aborted, vars, world
  <2> QED
    BY <1>0, <2>1, <2>2, SeenStays
<1>4. CASE Run
  <2>1. /\ UNCHANGED <<emitted, mounted, tasks, pending, adding, rest, seen, settled>>
        /\ known' = mounted \/ known' = known
    BY <1>4 DEF Run, world, list, since, outcome
  <2>2. Aging' = Aging
    BY <2>1 DEF Aging, Adds
  <2>3. \A x \in ToSet(adding) : x \in Aging
    BY <1>0, AgingIs, Types DEF PendingInv
  <2>4. AddedWereMounted'
    BY <2>1 DEF SeenInv, AddedWereMounted
  <2> QED
    BY <2>1, <2>2, <2>3, <2>4 DEF SeenInv
<1>5. CASE OnReceiveUevent
  <2>1. /\ UNCHANGED <<emitted, mounted, pending, adding, rest, known, settled>>
        /\ \/ tasks' = tasks /\ seen' = seen
           \/ tasks' = tasks \o hand /\ Received
    BY <1>5 DEF OnReceiveUevent, InvalidMessage, world, list
  <2>2. CASE tasks' = tasks /\ seen' = seen
    <3>1. mounted' \subseteq mounted /\ ToSet(tasks') \subseteq ToSet(tasks) \cup {Check}
      BY <2>1, <2>2
    <3> QED
      BY <1>0, <2>1, <2>2, <3>1, SeenStays
  <2>3. CASE tasks' = tasks \o hand /\ Received
    <3>1. ToSet(tasks') = ToSet(tasks) \cup ToSet(hand)
      <4>1. hand \in Seq(Ids \cup {Check})
        BY <1>0, SetOfSeq
      <4> QED
        BY <1>0, <2>3, <4>1, SetOfConcat
    <3>2. \A x \in Aging' : x \in Aging \/ x \in Adds(ToSet(hand))
      BY <2>1, <3>1 DEF Aging, Adds
    <3>3. /\ seen \subseteq seen'
          /\ \A x \in Adds(ToSet(hand)) : emitted[x].dev \in mounted => x \in seen'
      BY <2>3 DEF Received
    <3>4. AddedWereMounted'
      BY <2>1, <3>3 DEF SeenInv, AddedWereMounted
    <3> QED
      BY <2>1, <3>2, <3>3, <3>4 DEF SeenInv
  <2> QED
    BY <2>1, <2>2, <2>3
<1>6. CASE CheckPendingEvent
  <2>1. /\ UNCHANGED <<emitted, mounted, pending, adding, rest, known, seen, settled>>
        /\ tasks' = Append(tasks, Check)
    BY <1>6 DEF CheckPendingEvent, world, list, since, outcome
  <2>2. ToSet(tasks') = ToSet(tasks) \cup {Check}
    <3>1. tasks \in Seq(Nat) /\ Check \in Nat
      BY <1>0 DEF Check
    <3>2. ToSet(Append(tasks, Check)) = ToSet(tasks) \cup {Check}
      BY <3>1, SetOfAppend
    <3> QED
      BY <2>1, <3>2
  <2> QED
    BY <1>0, <2>1, <2>2, SeenStays
<1>7. CASE DoCheckPendingEvent
  <2>1. /\ UNCHANGED <<emitted, mounted, adding, known, seen, settled>> /\ tasks # << >>
        /\ tasks' = Tail(tasks) /\ rest' = pending /\ pending' = << >>
    BY <1>7 DEF DoCheckPendingEvent, WorkerIdle, world, since, outcome
  <2>2. ToSet(tasks') \subseteq ToSet(tasks) /\ ToSet(pending') = {}
    BY <1>0, <2>1, SetOfTail DEF ToSet
  <2> QED
    BY <1>0, <2>1, <2>2, SeenStays
<1>8. CASE DoProcessEvent
  <2> DEFINE m == Head(tasks)
  <2>1. /\ UNCHANGED <<emitted, mounted, rest, seen>> /\ tasks # << >> /\ m # Check
        /\ tasks' = Tail(tasks)
        /\ \/ emitted[m].kind = "add" /\ UpdateMountpoint(m)
           \/ /\ UNCHANGED <<pending, adding, known>>
              /\ \/ UNCHANGED settled
                 \/ \E v \in {"removed", "unknown", "ignored"} :
                       settled' = Append(settled, <<m, v>>)
    BY <1>8 DEF DoProcessEvent, WorkerIdle, NextTask, world, since,
       OnPartitionRemove, UpdateMountpointFails, Log, outcome
  <2>2. /\ m \in Ids /\ m \in ToSet(tasks) /\ ToSet(tasks') \subseteq ToSet(tasks)
    BY <1>0, <2>1, SetOfTail
  <2> HIDE DEF m
  <2>3. CASE emitted[m].kind = "add" /\ UpdateMountpoint(m)
    <3>1. m \in Aging
      BY <2>1, <2>2, <2>3, AgingIs
    <3> QED
      BY <1>0, <2>1, <2>2, <2>3, <3>1, LookKeepsSeen
  <2>4. CASE /\ UNCHANGED <<pending, adding, known>>
             /\ \/ UNCHANGED settled
                \/ \E v \in {"removed", "unknown", "ignored"} :
                      settled' = Append(settled, <<m, v>>)
    <3>1. PICK v \in {"removed", "unknown", "ignored"} :
             settled' = settled \/ settled' = Append(settled, <<m, v>>)
      BY <2>4
    <3>2. v # "added"
      BY <3>1
    <3>3. AddedWereMounted /\ seen \subseteq seen'
      BY <2>1 DEF SeenInv
    <3>4. AddedWereMounted'
      BY <1>0, <2>2, <3>1, <3>2, <3>3, ReportStays
    <3>5. \A x \in Aging' : x \in Aging /\ emitted'[x] = emitted[x]
      BY <1>0, <2>1, <2>2, <2>4, AgingShrinks
    <3> QED
      BY <2>1, <2>4, <3>4, <3>5 DEF SeenInv
  <2> QED
    BY <2>1, <2>3, <2>4
<1>9. CASE CheckNextEvent
  <2> DEFINE m == Head(rest)
  <2>1. /\ UNCHANGED <<emitted, mounted, tasks, seen>> /\ rest # << >>
        /\ rest' = Tail(rest) \/ rest' = << >>
        /\ \/ UpdateMountpoint(m)
           \/ /\ UNCHANGED <<pending, adding, known>>
              /\ settled' = settled \/ settled' = Append(settled, <<m, "expired">>)
    BY <1>9 DEF CheckNextEvent, world, since, UpdateMountpointFails, Log, outcome
  <2>2. m \in Ids /\ m \in ToSet(rest) /\ ToSet(rest') \subseteq ToSet(rest)
    <3>1. ToSet(<< >>) = {}
      BY DEF ToSet
    <3> QED
      BY <1>0, <2>1, <3>1, SetOfTail
  <2> HIDE DEF m
  <2>3. CASE UpdateMountpoint(m)
    <3>1. m \in Aging
      BY <1>0, <2>2, AgingIs, Types DEF PendingInv
    <3> QED
      BY <1>0, <2>1, <2>2, <2>3, <3>1, LookKeepsSeen
  <2>4. CASE /\ UNCHANGED <<pending, adding, known>>
             /\ settled' = settled \/ settled' = Append(settled, <<m, "expired">>)
    <3>1. \E v : v # "added" /\ (settled' = settled \/ settled' = Append(settled, <<m, v>>))
      BY <2>4
    <3>2. AddedWereMounted'
      BY <1>0, <2>1, <2>2, <3>1, ReportStays DEF SeenInv
    <3>3. \A x \in Aging' : x \in Aging /\ emitted'[x] = emitted[x]
      BY <1>0, <2>1, <2>2, <2>4, AgingShrinks
    <3> QED
      BY <2>1, <2>4, <3>2, <3>3 DEF SeenInv
  <2> QED
    BY <2>1, <2>3, <2>4
<1>10. CASE OnPartitionAdd
  <2> DEFINE m == Head(adding)
  <2>1. /\ UNCHANGED <<emitted, mounted, tasks, rest, known, seen>> /\ adding # << >>
        /\ adding' = << >> /\ (pending' = pending \/ pending' = pending \o adding)
        /\ \/ settled' = settled
           \/ emitted[m].dev \in known /\ settled' = Append(settled, <<m, "added">>)
    BY <1>10 DEF OnPartitionAdd, world, since, Log, outcome
  <2>2. /\ m \in Ids /\ m \in ToSet(adding) /\ ToSet(adding') = {}
        /\ ToSet(pending') \subseteq ToSet(pending) \cup ToSet(adding)
    <3>1. ToSet(pending \o adding) = ToSet(pending) \cup ToSet(adding)
      BY <1>0, SetOfConcat
    <3>2. m \in Ids /\ m \in ToSet(adding)
      BY <1>0, <2>1, OneInSeq
    <3>3. ToSet(adding') = {}
      BY <2>1 DEF ToSet
    <3> QED
      BY <2>1, <3>1, <3>2, <3>3
  <2> HIDE DEF m
  <2>3. \E v : /\ settled' = settled \/ settled' = Append(settled, <<m, v>>)
               /\ v = "added" => m \in seen
    <3>1. emitted[m].dev \in known => m \in seen
      BY <2>2 DEF SeenInv
    <3>2. CASE emitted[m].dev \in known /\ settled' = Append(settled, <<m, "added">>)
      BY <3>1, <3>2
    <3>3. CASE settled' = settled
      <4>1. "ignored" # "added"
        OBVIOUS
      <4> QED
        BY <3>3, <4>1
    <3> QED
      BY <2>1, <3>2, <3>3
  <2>4. AddedWereMounted'
    BY <1>0, <2>1, <2>2, <2>3, ReportStays DEF SeenInv
  <2>5. \A x \in Aging' : x \in Aging /\ emitted'[x] = emitted[x]
    BY <1>0, <2>1, <2>2, AgingShrinks
  <2> QED
    BY <2>1, <2>2, <2>4, <2>5 DEF SeenInv
<1> QED
  BY <1>1, <1>2, <1>3, <1>4, <1>5, <1>6, <1>7, <1>8, <1>9, <1>10
     DEF Next, World, Native, Main, Worker

\* Whatever is plugged, mounted and unmounted, and however long an event waits: a
\* partition reported as added was mounted since the event was received, for the
\* map by which onPartitionAdd reports it is younger than the event.
THEOREM AddedMounted == Spec => []AddedWereMounted
<1>1. Init => SeenInv
  <2> SUFFICES ASSUME Init PROVE SeenInv
    OBVIOUS
  <2>1. Len(settled) = 0 /\ ToSet(adding) = {} /\ ToSet(pending) = {}
        /\ ToSet(rest) = {} /\ ToSet(tasks) = {}
    BY DEF Init, ToSet
  <2>2. Aging = {}
    BY <2>1 DEF Aging, Adds
  <2> QED
    BY <2>1, <2>2 DEF SeenInv, AddedWereMounted
<1>2. UeventInv /\ SeenInv /\ [Next]_vars => SeenInv'
  BY SeenKeeps
<1>3. SeenInv => AddedWereMounted
  BY DEF SeenInv
<1> QED
  BY <1>1, <1>2, <1>3, InvariantHolds, PTL DEF Spec


=============================================================================
