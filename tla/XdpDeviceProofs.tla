--------------------------- MODULE XdpDeviceProofs ---------------------------
(***************************************************************************)
(* Userspace ownership of XDP frames, for every number of frames, ring     *)
(* size, batch size and reserve, and for a kernel that may write any       *)
(* descriptor; and, for a kernel that moves only the frames it was given,  *)
(* the single place each frame is in.                                      *)
(***************************************************************************)
EXTENDS XdpDevice, FiniteSetTheorems, TLAPS

\* Time for the provers on a busy machine.
USE SMTT(60)

\* The inductive invariant.  NoAlias and CountersMatch support each other: a
\* counter keeps up with the table only because a frame that moves is in the
\* table under the state it leaves.
Ownership == TypeOK /\ NoAlias /\ CountersMatch /\ NoPanic

\* Sets of frames are finite, so their sizes are natural numbers.
LEMMA FrameSets ==
    \A S \in SUBSET Frames : IsFiniteSet(S) /\ Cardinality(S) \in Nat
BY XdpAssumption, FS_Subset, FS_CardinalityType

\* Moving frames into a set that has none of them adds their number to it.
LEMMA CardinalityAdd ==
    ASSUME NEW A \in SUBSET Frames, NEW S \in SUBSET Frames, A \cap S = {}
    PROVE  Cardinality(A \cup S) = Cardinality(A) + Cardinality(S)
<1>1. IsFiniteSet(A) /\ IsFiniteSet(S) BY FrameSets
<1>2. Cardinality(A \cup S) = Cardinality(A) + Cardinality(S) - Cardinality(A \cap S)
    BY <1>1, FS_Union
<1>3. Cardinality(A \cap S) = 0 BY FS_EmptySet
<1>4. Cardinality(A) \in Nat /\ Cardinality(S) \in Nat BY FrameSets
<1> QED BY <1>2, <1>3, <1>4

\* Moving frames out of a set that has all of them takes their number from it.
LEMMA CardinalityRemove ==
    ASSUME NEW A \in SUBSET Frames, NEW S \in SUBSET A
    PROVE  /\ Cardinality(A \ S) = Cardinality(A) - Cardinality(S)
           /\ Cardinality(S) <= Cardinality(A)
<1>1. Cardinality((A \ S) \cup S) = Cardinality(A \ S) + Cardinality(S)
    BY CardinalityAdd, (A \ S) \cap S = {}
<1>2. (A \ S) \cup S = A OBVIOUS
<1>3. Cardinality(A \ S) \in Nat /\ Cardinality(S) \in Nat /\ Cardinality(A) \in Nat
    BY FrameSets
<1> QED BY <1>1, <1>2, <1>3

\* The smaller of two numbers exceeds neither.
LEMMA LeastBounds ==
    ASSUME NEW a \in Int, NEW b \in Int
    PROVE  Least(a, b) \in Int /\ Least(a, b) <= a /\ Least(a, b) <= b
BY DEF Least

\* rx_target is a natural number: validate() keeps tx_reserve below frames.
LEMMA TargetType == rx_target \in Nat /\ rx_target <= Cardinality(Frames) - TxReserve
<1>1. Cardinality(Frames) \in Nat BY XdpAssumption, FS_CardinalityType
<1> QED BY <1>1, XdpAssumption DEF rx_target, Least

\* A prefix and the rest of a descriptor queue are descriptor queues.
LEMMA SplitType ==
    ASSUME NEW q \in Seq(Descs), NEW n \in 0..Len(q)
    PROVE  /\ SubSeq(q, n + 1, Len(q)) \in Seq(Descs)
           /\ Elements(SubSeq(q, 1, n)) \subseteq Descs
<1>1. SubSeq(q, 1, n) \in Seq(Descs) OBVIOUS
<1>2. Elements(SubSeq(q, 1, n)) \subseteq Descs BY <1>1 DEF Elements
<1>3. SubSeq(q, n + 1, Len(q)) \in Seq(Descs) OBVIOUS
<1> QED BY <1>2, <1>3

\* A move of S into state v changes the sets InState by exactly S.
LEMMA MoveInState ==
    ASSUME TypeOK, NEW S \in SUBSET Frames, NEW v, state' = With(state, S, v)
    PROVE  \A s : InState(s)' = IF s = v THEN InState(s) \cup S ELSE InState(s) \ S
BY DEF TypeOK, InState, With

-----------------------------------------------------------------------------
(* Where the frames are, as long as the kernel invents no descriptor *)

Disjoint(A, B, C) == A \cap B = {} /\ A \cap C = {} /\ B \cap C = {}
Once(q) == \A i, j \in DOMAIN q : q[i] = q[j] => i = j

\* The table says which side has a frame; on each side the frame is in one of
\* three places, and once on a ring; and no frame is lost.
Faultless ==
    /\ \A f \in Frames :
        /\ state[f] = "RX_KERNEL" <=> f \in fq \cup nicRx \cup Elements(rxq)
        /\ state[f] = "TX_KERNEL" <=> f \in txq \cup nicTx \cup Elements(cq)
        /\ state[f] \in {"FREE", "APP"} => f \in free \/ handles[f] = 1
    /\ Disjoint(fq, nicRx, Elements(rxq)) /\ Disjoint(txq, nicTx, Elements(cq))
    /\ Once(rxq) /\ Once(cq)
    /\ Bad \notin Elements(rxq) \cup Elements(cq)
    /\ invalid = 0

\* An empty queue has no elements.
LEMMA EmptyOnce == Elements(<<>>) = {} /\ Once(<<>>)
BY DEF Elements, Once

\* A queue of distinct descriptors that takes one more.
LEMMA AppendOnce ==
    ASSUME NEW q \in Seq(Descs), NEW d \in Descs
    PROVE  /\ Elements(Append(q, d)) = Elements(q) \cup {d}
           /\ Once(q) /\ d \notin Elements(q) => Once(Append(q, d))
<1>1. /\ DOMAIN q = 1..Len(q) /\ DOMAIN Append(q, d) = 1..(Len(q) + 1) /\ Len(q) \in Nat
      /\ Append(q, d)[Len(q) + 1] = d
      /\ \A i \in 1..Len(q) : Append(q, d)[i] = q[i]
  OBVIOUS
<1> DEFINE r == Append(q, d)
<1>2. 1..(Len(q) + 1) = 1..Len(q) \cup {Len(q) + 1}
  BY <1>1
<1> HIDE DEF r
<1>3. DOMAIN r = DOMAIN q \cup {Len(q) + 1} /\ r[Len(q) + 1] = d /\ \A i \in DOMAIN q : r[i] = q[i]
  BY <1>1, <1>2 DEF r
<1>4. Elements(r) = Elements(q) \cup {d}
  BY <1>3 DEF Elements
<1>5. Once(q) /\ d \notin Elements(q) => Once(r)
  BY <1>3 DEF Once, Elements
<1> QED BY <1>4, <1>5 DEF r

\* A prefix of a queue of distinct descriptors and the rest share none.
LEMMA SplitOnce ==
    ASSUME NEW q \in Seq(Descs), NEW n \in 0..Len(q), Once(q)
    PROVE  /\ Elements(SubSeq(q, n + 1, Len(q))) = Elements(q) \ Elements(SubSeq(q, 1, n))
           /\ Elements(SubSeq(q, 1, n)) \subseteq Elements(q)
           /\ Cardinality(Elements(SubSeq(q, 1, n))) = n
           /\ Once(SubSeq(q, n + 1, Len(q)))
<1> DEFINE a == SubSeq(q, 1, n)
           b == SubSeq(q, n + 1, Len(q))
<1>1. /\ DOMAIN q = 1..Len(q) /\ Len(q) \in Nat /\ n \in Nat /\ n <= Len(q)
      /\ DOMAIN a = 1..n /\ \A i \in 1..n : a[i] = q[i]
  OBVIOUS
<1>2. DOMAIN b = 1..(Len(q) - n) /\ \A i \in 1..(Len(q) - n) : b[i] = q[n + i]
  OBVIOUS
<1> HIDE DEF a, b
<1>3. Elements(a) = {q[i] : i \in 1..n}
  BY <1>1 DEF Elements
<1>4. Elements(b) = {q[i] : i \in (n + 1)..Len(q)}
  <2>1. ASSUME NEW i \in 1..(Len(q) - n) PROVE n + i \in (n + 1)..Len(q)
    BY <1>1
  <2>2. ASSUME NEW i \in (n + 1)..Len(q) PROVE i - n \in 1..(Len(q) - n) /\ n + (i - n) = i
    BY <1>1
  <2>3. Elements(b) = {q[n + i] : i \in 1..(Len(q) - n)}
    BY Zenon, <1>2 DEF Elements
  <2> QED BY Zenon, <2>1, <2>2, <2>3
<1>5. 1..Len(q) = 1..n \cup (n + 1)..Len(q) /\ 1..n \cap (n + 1)..Len(q) = {}
  BY <1>1
<1>6. Elements(b) = Elements(q) \ Elements(a) /\ Elements(a) \subseteq Elements(q)
  <2> DEFINE A == 1..n
             B == (n + 1)..Len(q)
  <2>1. DOMAIN q = A \cup B /\ A \cap B = {}
    BY <1>1, <1>5
  <2> HIDE DEF A, B
  <2>2. \A i \in A, j \in B : q[i] # q[j]
    BY <2>1 DEF Once
  <2>3. Elements(q) = {q[i] : i \in A} \cup {q[i] : i \in B}
    BY <2>1 DEF Elements
  <2>4. {q[i] : i \in B} = ({q[i] : i \in A} \cup {q[i] : i \in B}) \ {q[i] : i \in A}
    BY <2>2
  <2> QED BY ZenonT(60), <1>3, <1>4, <2>3, <2>4 DEF A, B
<1>7. Cardinality(Elements(a)) = n
  <2>1. a \in Surjection(1..n, Elements(a))
    <3>1. a = [i \in 1..n |-> a[i]]
      BY <1>1 DEF a
    <3> QED BY <1>1, <3>1 DEF Surjection, Elements
  <2>2. a \in Injection(1..n, Elements(a))
    BY Zenon, <1>1, <2>1, <1>5 DEF Injection, IsInjective, Surjection, Once
  <2>3. IsFiniteSet(1..n) /\ Cardinality(1..n) = n
    BY <1>1, FS_Interval
  <2> QED BY <2>1, <2>2, <2>3, FS_Surjection
<1>8. Once(b)
  <2> SUFFICES ASSUME NEW i \in 1..(Len(q) - n), NEW j \in 1..(Len(q) - n), q[n + i] = q[n + j]
               PROVE  i = j
    BY ZenonT(60), <1>2 DEF Once
  <2>1. n + i \in 1..Len(q) /\ n + j \in 1..Len(q)
    BY <1>1
  <2>2. n + i = n + j
    BY <1>1, <2>1 DEF Once
  <2> QED BY <1>1, <2>2
<1> QED BY <1>6, <1>7, <1>8 DEF a, b

\* with_config leaves the frames it fills in the fill ring.
LEMMA InitFaultless == ASSUME Init PROVE Faultless
<1>1. PICK S \in SUBSET Frames :
        /\ free = Frames \ S
        /\ state = [f \in Frames |-> IF f \in S THEN "RX_KERNEL" ELSE "FREE"]
        /\ fq = S /\ txq = {} /\ rxq = <<>> /\ cq = <<>> /\ nicRx = {} /\ nicTx = {} /\ invalid = 0
  BY DEF Init
<1>2. /\ Elements(rxq) = {} /\ Elements(cq) = {} /\ Once(rxq) /\ Once(cq)
  BY <1>1, EmptyOnce
<1> QED BY <1>1, <1>2 DEF Faultless, Disjoint

\* drain_cq takes every frame in a batch of completions back.
LEMMA CallStartFaultless ==
    ASSUME Ownership, Faultless, NEW next \in Calls, CallStart(next)
    PROVE  Faultless'
<1> DEFINE n == Least(BatchSize, Len(cq))
           batch == Elements(SubSeq(cq, 1, n))
           valid == {f \in batch : f \in Frames /\ state[f] = "TX_KERNEL"}
<1>1. TypeOK
  BY DEF Ownership
<1>2. n \in 0..Len(cq) /\ n \in Nat
  BY <1>1, XdpAssumption DEF TypeOK, Least
<1>3. /\ cq' = SubSeq(cq, n + 1, Len(cq))
      /\ state' = With(state, valid, "FREE")
      /\ free' = free \cup valid
      /\ invalid' = invalid + n - Cardinality(valid)
      /\ UNCHANGED <<handles, fq, txq, rxq, nicRx, nicTx>>
  BY DEF CallStart, DrainCq, kernelVars
<1>4. cq \in Seq(Descs) /\ Once(cq)
  BY <1>1 DEF TypeOK, Faultless
<1>5. /\ Elements(cq') = Elements(cq) \ batch /\ batch \subseteq Elements(cq)
      /\ Cardinality(batch) = n /\ Once(cq')
  <2> HIDE DEF n
  <2> QED BY <1>2, <1>3, <1>4, SplitOnce
<1>6. Elements(cq) \subseteq Frames
  BY <1>4 DEF Faultless, Elements, Descs
<1>7. valid = batch
  BY <1>5, <1>6 DEF Faultless
<1> HIDE DEF n, batch, valid
<1>8. invalid' = 0
  BY <1>2, <1>3, <1>5, <1>7 DEF Faultless
<1>9. state' = [f \in Frames |-> IF f \in batch THEN "FREE" ELSE state[f]]
  BY <1>1, <1>3, <1>7 DEF With, TypeOK
<1>10. \A f \in batch : state[f] = "TX_KERNEL"
  BY <1>7 DEF valid
<1>11. ASSUME NEW f \in Frames
       PROVE  /\ (state[f] = "RX_KERNEL" <=> f \in fq \cup nicRx \cup Elements(rxq))'
              /\ (state[f] = "TX_KERNEL" <=> f \in txq \cup nicTx \cup Elements(cq))'
              /\ (state[f] \in {"FREE", "APP"} => f \in free \/ handles[f] = 1)'
  <2>1. CASE f \in batch
    <3>1. state'[f] = "FREE" /\ state[f] = "TX_KERNEL" /\ f \in free'
      BY <1>3, <1>7, <1>9, <1>10, <2>1
    <3>2. f \notin fq \cup nicRx \cup Elements(rxq)
      BY <3>1 DEF Faultless
    <3>3. f \notin txq \cup nicTx
      BY <1>5, <2>1 DEF Faultless, Disjoint
    <3> QED BY <1>3, <1>5, <2>1, <3>1, <3>2, <3>3
  <2>2. CASE f \notin batch
    BY <1>3, <1>5, <1>9, <2>2 DEF Faultless
  <2> QED BY ZenonT(60), <2>1, <2>2
<1>12. Disjoint(fq, nicRx, Elements(rxq))' /\ Disjoint(txq, nicTx, Elements(cq))'
  BY <1>3, <1>5 DEF Faultless, Disjoint
<1>13. Once(rxq)' /\ (Bad \notin Elements(rxq) \cup Elements(cq))'
  BY <1>3, <1>5 DEF Faultless
<1> QED BY <1>5, <1>8, <1>11, <1>12, <1>13 DEF Faultless

\* refill moves free frames to the fill ring.
LEMMA RefillFaultless ==
    ASSUME Ownership, Faultless, Refill
    PROVE  Faultless'
<1>1. TypeOK /\ NoAlias
  BY DEF Ownership
<1>2. PICK S \in SUBSET free :
        free' = free \ S /\ fq' = fq \cup S /\ state' = With(state, S, "RX_KERNEL")
  BY DEF Refill
<1>3. UNCHANGED <<handles, invalid, txq, rxq, cq, nicRx, nicTx>>
  BY DEF Refill, kernelVars
<1>4. state' = [f \in Frames |-> IF f \in S THEN "RX_KERNEL" ELSE state[f]]
  BY <1>1, <1>2 DEF With, TypeOK
<1>5. \A f \in S : f \in Frames /\ state[f] \in {"FREE", "APP"}
  BY <1>1 DEF NoAlias, TypeOK
<1>6. ASSUME NEW f \in Frames
      PROVE  /\ (state[f] = "RX_KERNEL" <=> f \in fq \cup nicRx \cup Elements(rxq))'
             /\ (state[f] = "TX_KERNEL" <=> f \in txq \cup nicTx \cup Elements(cq))'
             /\ (state[f] \in {"FREE", "APP"} => f \in free \/ handles[f] = 1)'
  <2>1. CASE f \in S
    BY <1>2, <1>3, <1>4, <1>5, <2>1 DEF Faultless
  <2>2. CASE f \notin S
    BY <1>2, <1>3, <1>4, <2>2 DEF Faultless
  <2> QED BY <2>1, <2>2
<1>7. Disjoint(fq, nicRx, Elements(rxq))' /\ Disjoint(txq, nicTx, Elements(cq))'
  <2>1. S \cap nicRx = {} /\ S \cap Elements(rxq) = {}
    BY <1>5 DEF Faultless
  <2> QED BY <1>2, <1>3, <2>1 DEF Faultless, Disjoint
<1> QED BY <1>3, <1>6, <1>7 DEF Faultless

\* recv makes a handle for every frame in a batch of received ones.
LEMMA RecvPopFaultless ==
    ASSUME Ownership, Faultless, NEW max \in 1..BatchSize, RecvPop(max)
    PROVE  Faultless'
<1> DEFINE n == Least(Least(max, BatchSize), Len(rxq))
           batch == Elements(SubSeq(rxq, 1, n))
           good == {f \in batch : f \in Frames /\ state[f] = "RX_KERNEL"}
<1>1. TypeOK /\ NoAlias
  BY DEF Ownership
<1>2. n \in 0..Len(rxq) /\ n \in Nat
  BY <1>1, XdpAssumption DEF TypeOK, Least
<1>3. /\ rxq' = SubSeq(rxq, n + 1, Len(rxq))
      /\ state' = With(state, good, "APP")
      /\ handles' = [f \in Frames |-> IF f \in good THEN handles[f] + 1 ELSE handles[f]]
      /\ invalid' = invalid + n - Cardinality(good)
      /\ UNCHANGED <<free, fq, txq, cq, nicRx, nicTx>>
  BY DEF RecvPop, kernelVars
<1>4. rxq \in Seq(Descs) /\ Once(rxq)
  BY <1>1 DEF TypeOK, Faultless
<1>5. /\ Elements(rxq') = Elements(rxq) \ batch /\ batch \subseteq Elements(rxq)
      /\ Cardinality(batch) = n /\ Once(rxq')
  <2> HIDE DEF n
  <2> QED BY <1>2, <1>3, <1>4, SplitOnce
<1>6. Elements(rxq) \subseteq Frames
  BY <1>4 DEF Faultless, Elements, Descs
<1>7. good = batch
  BY <1>5, <1>6 DEF Faultless
<1> HIDE DEF n, batch, good
<1>8. invalid' = 0
  BY <1>2, <1>3, <1>5, <1>7 DEF Faultless
<1>9. state' = [f \in Frames |-> IF f \in batch THEN "APP" ELSE state[f]]
  BY <1>1, <1>3, <1>7 DEF With, TypeOK
<1>10. \A f \in batch : f \in Frames /\ state[f] = "RX_KERNEL" /\ handles'[f] = 1
  <2>1. ASSUME NEW f \in batch PROVE f \in Frames /\ state[f] = "RX_KERNEL"
    BY <1>7 DEF good
  <2>2. ASSUME NEW f \in batch PROVE handles[f] = 0
    BY <1>1, <2>1 DEF NoAlias, TypeOK
  <2>3. ASSUME NEW f \in batch PROVE handles'[f] = handles[f] + 1
    BY <1>3, <1>7, <2>1
  <2> QED BY <2>1, <2>2, <2>3
<1>11. ASSUME NEW f \in Frames
       PROVE  /\ (state[f] = "RX_KERNEL" <=> f \in fq \cup nicRx \cup Elements(rxq))'
              /\ (state[f] = "TX_KERNEL" <=> f \in txq \cup nicTx \cup Elements(cq))'
              /\ (state[f] \in {"FREE", "APP"} => f \in free \/ handles[f] = 1)'
  <2>1. CASE f \in batch
    <3>1. state'[f] = "APP" /\ state[f] = "RX_KERNEL" /\ handles'[f] = 1
      BY <1>9, <1>10, <2>1
    <3>2. f \notin txq \cup nicTx \cup Elements(cq)
      BY <3>1 DEF Faultless
    <3>3. f \notin fq \cup nicRx
      BY <1>5, <2>1 DEF Faultless, Disjoint
    <3> QED BY <1>3, <1>5, <2>1, <3>1, <3>2, <3>3
  <2>2. CASE f \notin batch
    <3>1. state'[f] = state[f] /\ handles'[f] = handles[f]
      BY <1>3, <1>7, <1>9, <2>2
    <3>2. f \in Elements(rxq)' <=> f \in Elements(rxq)
      BY <1>5, <2>2
    <3> QED BY <1>3, <3>1, <3>2 DEF Faultless
  <2> QED BY ZenonT(60), <2>1, <2>2
<1>12. Disjoint(fq, nicRx, Elements(rxq))' /\ Disjoint(txq, nicTx, Elements(cq))'
  BY <1>3, <1>5 DEF Faultless, Disjoint
<1>13. Once(cq)' /\ (Bad \notin Elements(rxq) \cup Elements(cq))'
  BY <1>3, <1>5 DEF Faultless
<1> QED BY <1>5, <1>8, <1>11, <1>12, <1>13 DEF Faultless

\* alloc and alloc_batch touch no ring.
LEMMA TakeFramesFaultless ==
    ASSUME Ownership, Faultless, NEW max, TakeFrames(max)
    PROVE  Faultless'
<1>1. TypeOK /\ NoAlias
  BY DEF Ownership
<1>2. PICK S \in SUBSET free :
        /\ free' = free \ S
        /\ handles' = [f \in Frames |-> IF f \in S THEN handles[f] + 1 ELSE handles[f]]
        /\ state' = With(state, S, "APP")
        /\ UNCHANGED <<invalid, ringVars, kernelVars>>
  BY DEF TakeFrames
<1>3. UNCHANGED <<invalid, fq, txq, rxq, cq, nicRx, nicTx>>
  BY <1>2 DEF ringVars, kernelVars
<1>4. state' = [f \in Frames |-> IF f \in S THEN "APP" ELSE state[f]]
  BY <1>1, <1>2 DEF With, TypeOK
<1>5. \A f \in S : f \in Frames /\ state[f] \in {"FREE", "APP"} /\ handles[f] = 0
  BY <1>1 DEF NoAlias, TypeOK
<1>6. ASSUME NEW f \in Frames
      PROVE  /\ (state[f] = "RX_KERNEL" <=> f \in fq \cup nicRx \cup Elements(rxq))'
             /\ (state[f] = "TX_KERNEL" <=> f \in txq \cup nicTx \cup Elements(cq))'
             /\ (state[f] \in {"FREE", "APP"} => f \in free \/ handles[f] = 1)'
  <2>1. CASE f \in S
    BY <1>2, <1>3, <1>4, <1>5, <2>1 DEF Faultless
  <2>2. CASE f \notin S
    BY <1>2, <1>3, <1>4, <2>2 DEF Faultless
  <2> QED BY <2>1, <2>2
<1> QED BY <1>3, <1>6 DEF Faultless

\* send moves frames from their handles to the TX ring.
LEMMA SendPushFaultless ==
    ASSUME Ownership, Faultless, NEW T \in SUBSET Frames, SendPush(T)
    PROVE  Faultless'
<1>1. TypeOK /\ NoAlias
  BY DEF Ownership
<1>2. /\ \A f \in T : handles[f] > 0
      /\ state' = With(state, T, "TX_KERNEL")
      /\ handles' = [f \in Frames |-> IF f \in T THEN handles[f] - 1 ELSE handles[f]]
      /\ txq' = txq \cup T
      /\ UNCHANGED <<free, invalid, fq, rxq, cq, nicRx, nicTx>>
  BY DEF SendPush, kernelVars
<1>3. \A f \in T : state[f] = "APP"
  BY <1>1, <1>2 DEF NoAlias, TypeOK
<1>4. state' = [f \in Frames |-> IF f \in T THEN "TX_KERNEL" ELSE state[f]]
  BY <1>1, <1>2 DEF With, TypeOK
<1>5. ASSUME NEW f \in Frames
      PROVE  /\ (state[f] = "RX_KERNEL" <=> f \in fq \cup nicRx \cup Elements(rxq))'
             /\ (state[f] = "TX_KERNEL" <=> f \in txq \cup nicTx \cup Elements(cq))'
             /\ (state[f] \in {"FREE", "APP"} => f \in free \/ handles[f] = 1)'
  <2>1. CASE f \in T
    BY <1>2, <1>3, <1>4, <2>1 DEF Faultless
  <2>2. CASE f \notin T
    BY <1>2, <1>4, <2>2 DEF Faultless
  <2> QED BY ZenonT(60), <2>1, <2>2
<1>6. Disjoint(fq, nicRx, Elements(rxq))' /\ Disjoint(txq, nicTx, Elements(cq))'
  <2>1. T \cap nicTx = {} /\ T \cap Elements(cq) = {}
    BY <1>3 DEF Faultless
  <2> QED BY <1>2, <2>1 DEF Faultless, Disjoint
<1>7. /\ Once(rxq)' /\ Once(cq)' /\ (Bad \notin Elements(rxq) \cup Elements(cq))'
      /\ invalid' = 0
  BY <1>2 DEF Faultless
<1> QED BY ZenonT(60), <1>5, <1>6, <1>7 DEF Faultless

\* A dropped PacketBuf was the frame's only place.
LEMMA DropBufFaultless ==
    ASSUME Ownership, Faultless, NEW f \in Frames, DropBuf(f)
    PROVE  Faultless'
<1>1. TypeOK
  BY DEF Ownership
<1>2. /\ handles' = [handles EXCEPT ![f] = @ - 1] /\ free' = free \cup {f}
      /\ UNCHANGED <<state, invalid, fq, txq, rxq, cq, nicRx, nicTx>>
  BY DEF DropBuf, ringVars, kernelVars
<1>3. \A g \in Frames : state[g] \in {"FREE", "APP"} => g \in free' \/ handles'[g] = 1
  BY <1>1, <1>2 DEF Faultless, TypeOK
<1> QED BY <1>2, <1>3 DEF Faultless

\* A correct kernel passes a frame on from one place to the next.
LEMMA KernelFaultless ==
    ASSUME Ownership, Faultless, Kernel, faults' = 0
    PROVE  Faultless'
<1>1. TypeOK /\ rxq \in Seq(Descs) /\ cq \in Seq(Descs) /\ Frames \subseteq Descs /\ Bad \notin Frames
  BY XdpAssumption DEF Ownership, TypeOK, Descs
<1>2. UNCHANGED <<free, handles, state, invalid>>
  BY ZenonT(60) DEF Kernel, KernelTakeFill, KernelReleaseFill, KernelRx, KernelTakeTx,
         KernelReleaseTx, KernelComplete, KernelFault, poolVars, deviceVars
<1>3. ASSUME NEW f \in Frames, KernelTakeFill(f) PROVE Faultless'
  <2>1. /\ f \in fq /\ fq' = fq \ {f} /\ nicRx' = nicRx \cup {f}
        /\ UNCHANGED <<txq, rxq, cq, nicTx>>
    BY <1>3 DEF KernelTakeFill
  <2>2. fq' \cup nicRx' = fq \cup nicRx /\ fq' \cap nicRx' = {} /\ f \notin Elements(rxq)
    BY <2>1 DEF Faultless, Disjoint
  <2>3. Disjoint(fq, nicRx, Elements(rxq))' /\ Disjoint(txq, nicTx, Elements(cq))'
    BY <2>1, <2>2 DEF Faultless, Disjoint
  <2> QED BY <1>2, <2>1, <2>2, <2>3 DEF Faultless
<1>4. ASSUME NEW f \in Frames, KernelRx(f) PROVE Faultless'
  <2>1. /\ f \in nicRx /\ nicRx' = nicRx \ {f} /\ rxq' = Append(rxq, f)
        /\ UNCHANGED <<fq, txq, cq, nicTx>>
    BY <1>4 DEF KernelRx
  <2>2. f \notin Elements(rxq)
    BY <2>1 DEF Faultless, Disjoint
  <2>3. Elements(rxq') = Elements(rxq) \cup {f} /\ Once(rxq')
    BY <1>1, <2>1, <2>2, AppendOnce DEF Faultless
  <2> QED BY <1>1, <1>2, <2>1, <2>3 DEF Faultless, Disjoint
<1>5. ASSUME NEW f \in Frames, KernelTakeTx(f) PROVE Faultless'
  <2>1. /\ f \in txq /\ txq' = txq \ {f} /\ nicTx' = nicTx \cup {f}
        /\ UNCHANGED <<fq, rxq, cq, nicRx>>
    BY <1>5 DEF KernelTakeTx
  <2> QED BY <1>2, <2>1 DEF Faultless, Disjoint
<1>6. ASSUME NEW f \in Frames, KernelComplete(f) PROVE Faultless'
  <2>1. /\ f \in nicTx /\ nicTx' = nicTx \ {f} /\ cq' = Append(cq, f)
        /\ UNCHANGED <<fq, txq, rxq, nicRx>>
    BY <1>6 DEF KernelComplete
  <2>2. f \notin Elements(cq)
    BY <2>1 DEF Faultless, Disjoint
  <2>3. Elements(cq') = Elements(cq) \cup {f} /\ Once(cq')
    BY <1>1, <2>1, <2>2, AppendOnce DEF Faultless
  <2> QED BY <1>1, <1>2, <2>1, <2>3 DEF Faultless, Disjoint
<1>7. CASE KernelReleaseFill \/ KernelReleaseTx
  BY <1>2, <1>7 DEF KernelReleaseFill, KernelReleaseTx, Faultless, kernelVars
<1>8. ASSUME NEW d \in Descs, KernelFault(d) PROVE FALSE
  BY <1>1, <1>8 DEF KernelFault, TypeOK
<1> QED BY <1>3, <1>4, <1>5, <1>6, <1>7, <1>8 DEF Kernel

\* Of the eight places a frame is in exactly one.
LEMMA OnePlace ==
    ASSUME Ownership, Faultless, NEW f \in Frames
    PROVE  \E p \in 1..8 : \A q \in 1..8 : Places(f)[q] <=> q = p
<1>1. /\ Places(f)[1] = (f \in free) /\ Places(f)[2] = (handles[f] > 0) /\ Places(f)[3] = (f \in fq)
      /\ Places(f)[4] = (f \in nicRx) /\ Places(f)[5] = (f \in Elements(rxq)) /\ Places(f)[6] = (f \in txq)
      /\ Places(f)[7] = (f \in nicTx) /\ Places(f)[8] = (f \in Elements(cq))
  BY DEF Places
<1>2. TypeOK /\ NoAlias
  BY DEF Ownership
<1>3. /\ handles[f] > 0 <=> handles[f] = 1
      /\ state[f] \in {"FREE", "RX_KERNEL", "APP", "TX_KERNEL"}
  BY <1>2 DEF TypeOK, NoAlias
<1>4. \A q \in 1..8 : q = 1 \/ q = 2 \/ q = 3 \/ q = 4 \/ q = 5 \/ q = 6 \/ q = 7 \/ q = 8
  OBVIOUS
<1>5. /\ f \in free \/ handles[f] > 0 <=> ~(state[f] = "RX_KERNEL" \/ state[f] = "TX_KERNEL")
      /\ ~(f \in free /\ handles[f] > 0)
  BY <1>2, <1>3 DEF NoAlias, Faultless
<1>6. /\ state[f] = "RX_KERNEL" <=> f \in fq \/ f \in nicRx \/ f \in Elements(rxq)
      /\ state[f] = "TX_KERNEL" <=> f \in txq \/ f \in nicTx \/ f \in Elements(cq)
      /\ ~(f \in fq /\ f \in nicRx) /\ ~(f \in fq /\ f \in Elements(rxq))
      /\ ~(f \in nicRx /\ f \in Elements(rxq)) /\ ~(f \in txq /\ f \in nicTx)
      /\ ~(f \in txq /\ f \in Elements(cq)) /\ ~(f \in nicTx /\ f \in Elements(cq))
  BY DEF Faultless, Disjoint
<1>7. CASE f \in free
  <2>1. \A q \in 1..8 : Places(f)[q] <=> q = 1
    BY Zenon, <1>1, <1>4, <1>5, <1>6, <1>7
  <2> QED BY <2>1
<1>8. CASE handles[f] > 0
  <2>1. \A q \in 1..8 : Places(f)[q] <=> q = 2
    BY Zenon, <1>1, <1>4, <1>5, <1>6, <1>8
  <2> QED BY <2>1
<1>9. CASE f \in fq
  <2>1. \A q \in 1..8 : Places(f)[q] <=> q = 3
    BY Zenon, <1>1, <1>4, <1>5, <1>6, <1>9
  <2> QED BY <2>1
<1>10. CASE f \in nicRx
  <2>1. \A q \in 1..8 : Places(f)[q] <=> q = 4
    BY Zenon, <1>1, <1>4, <1>5, <1>6, <1>10
  <2> QED BY <2>1
<1>11. CASE f \in Elements(rxq)
  <2>1. \A q \in 1..8 : Places(f)[q] <=> q = 5
    BY Zenon, <1>1, <1>4, <1>5, <1>6, <1>11
  <2> QED BY <2>1
<1>12. CASE f \in txq
  <2>1. \A q \in 1..8 : Places(f)[q] <=> q = 6
    BY Zenon, <1>1, <1>4, <1>5, <1>6, <1>12
  <2> QED BY <2>1
<1>13. CASE f \in nicTx
  <2>1. \A q \in 1..8 : Places(f)[q] <=> q = 7
    BY Zenon, <1>1, <1>4, <1>5, <1>6, <1>13
  <2> QED BY <2>1
<1>14. CASE f \in Elements(cq)
  <2>1. \A q \in 1..8 : Places(f)[q] <=> q = 8
    BY Zenon, <1>1, <1>4, <1>5, <1>6, <1>14
  <2> QED BY <2>1
<1> QED BY Zenon, <1>5, <1>6, <1>7, <1>8, <1>9, <1>10, <1>11, <1>12, <1>13, <1>14

-----------------------------------------------------------------------------
(* Userspace ownership, whatever the kernel writes *)

\* A new device holds every frame in its pool.
LEMMA InitOwnership == Init => Ownership
<1> SUFFICES ASSUME Init PROVE Ownership OBVIOUS
<1>1. PICK S \in SUBSET Frames :
        /\ Cardinality(S) = rx_target /\ free = Frames \ S
        /\ handles = [f \in Frames |-> 0]
        /\ state = [f \in Frames |-> IF f \in S THEN "RX_KERNEL" ELSE "FREE"]
        /\ rx_owned = rx_target /\ tx_pending = 0 /\ invalid = 0
        /\ pc = "idle" /\ panicked = FALSE
        /\ fq = S /\ fqHeld = 0 /\ txq = {} /\ txHeld = 0 /\ rxq = <<>> /\ cq = <<>>
        /\ nicRx = {} /\ nicTx = {} /\ faults = 0
    BY DEF Init
<1>2. TypeOK
    <2>1. panicked \in BOOLEAN BY Zenon, <1>1
    <2>2. rxq \in Seq(Descs) /\ cq \in Seq(Descs) BY <1>1
    <2>3. state \in [Frames -> {"FREE", "RX_KERNEL", "APP", "TX_KERNEL"}] BY <1>1
    <2>4. handles \in [Frames -> Nat] BY <1>1
    <2>5. rx_owned \in Nat BY <1>1, TargetType
    <2> QED BY <1>1, <2>1, <2>2, <2>3, <2>4, <2>5, XdpAssumption DEF TypeOK, Calls
<1>3. NoAlias BY <1>1 DEF NoAlias
<1>4. InState("RX_KERNEL") = S /\ InState("TX_KERNEL") = {} BY <1>1 DEF InState
<1>5. CountersMatch
    <2>1. rx_owned = Cardinality(InState("RX_KERNEL")) BY <1>1, <1>4
    <2>2. tx_pending = Cardinality(InState("TX_KERNEL")) BY Zenon, <1>1, <1>4, FS_EmptySet
    <2>3. rx_owned <= rx_target BY <1>1, TargetType
    <2> QED BY <2>1, <2>2, <2>3 DEF CountersMatch
<1> QED BY <1>1, <1>2, <1>3, <1>5 DEF Ownership, NoPanic

\* drain_cq frees exactly the frames that leave TX_KERNEL.
LEMMA CallStartOwnership ==
    ASSUME Ownership, NEW next \in Calls, CallStart(next)
    PROVE  Ownership'
<1> DEFINE n == Least(BatchSize, Len(cq))
           valid == {f \in Elements(SubSeq(cq, 1, n)) : f \in Frames /\ state[f] = "TX_KERNEL"}
<1>1. TypeOK /\ NoAlias /\ CountersMatch /\ NoPanic BY DEF Ownership
<1>2. n \in 0..Len(cq) /\ n \in Nat BY <1>1, XdpAssumption DEF TypeOK, Least
<1>3. valid \in SUBSET Frames /\ valid \subseteq InState("TX_KERNEL") BY DEF InState
<1>4. /\ cq' = SubSeq(cq, n + 1, Len(cq))
      /\ state' = With(state, valid, "FREE")
      /\ free' = free \cup valid
      /\ tx_pending' = tx_pending - Cardinality(valid)
      /\ invalid' = invalid + n - Cardinality(valid)
      /\ panicked' = (panicked \/ valid \cap free # {} \/ tx_pending < Cardinality(valid))
      /\ pc' = next
      /\ UNCHANGED <<handles, rx_owned, fq, fqHeld, txq, txHeld, rxq, kernelVars>>
    BY DEF CallStart, DrainCq
<1> HIDE DEF n, valid
<1>5. Cardinality(valid) \in Nat BY <1>3, FrameSets
<1>6. cq' \in Seq(Descs) BY <1>1, <1>2, <1>4, SplitType DEF TypeOK
<1>7. state' \in [Frames -> {"FREE", "RX_KERNEL", "APP", "TX_KERNEL"}]
    BY <1>1, <1>4 DEF TypeOK, With
<1>8. panicked' \in BOOLEAN BY <1>4
<1>10. NoAlias' BY <1>1, <1>3, <1>4 DEF NoAlias, TypeOK, With, InState
<1>11. /\ InState("RX_KERNEL")' = InState("RX_KERNEL")
       /\ InState("TX_KERNEL")' = InState("TX_KERNEL") \ valid
    <2>1. \A s : InState(s)' = IF s = "FREE" THEN InState(s) \cup valid ELSE InState(s) \ valid
        BY Zenon, <1>1, <1>3, <1>4, MoveInState
    <2>2. InState("RX_KERNEL") \cap valid = {} BY <1>3 DEF InState
    <2> QED BY <2>1, <2>2
<1>12. InState("TX_KERNEL") \in SUBSET Frames BY DEF InState
<1>13. /\ Cardinality(InState("TX_KERNEL") \ valid) = tx_pending - Cardinality(valid)
       /\ Cardinality(valid) <= tx_pending
    BY <1>1, <1>3, <1>12, CardinalityRemove DEF CountersMatch
<1>17. tx_pending' \in Nat /\ invalid' \in Int
    BY <1>1, <1>2, <1>4, <1>5, <1>13 DEF TypeOK
<1>18. free' \subseteq Frames /\ pc' \in Calls BY <1>1, <1>3, <1>4 DEF TypeOK
<1>19. UNCHANGED <<handles, rx_owned, fq, fqHeld, txq, txHeld, rxq, nicRx, nicTx, faults>>
    BY <1>4 DEF kernelVars
<1>9. TypeOK' BY <1>1, <1>6, <1>7, <1>8, <1>17, <1>18, <1>19 DEF TypeOK
<1>14. CountersMatch' BY Zenon, <1>1, <1>4, <1>11, <1>13 DEF CountersMatch
<1>15. valid \cap free = {} BY <1>1, <1>3 DEF NoAlias, InState
<1>16. NoPanic' BY <1>1, <1>4, <1>5, <1>13, <1>15 DEF NoPanic, TypeOK
<1> QED BY <1>9, <1>10, <1>14, <1>16 DEF Ownership

\* refill gives the RX side frames of the free list only, and no more than
\* its target.
LEMMA RefillOwnership ==
    ASSUME Ownership, Refill
    PROVE  Ownership'
<1> DEFINE limit == Least(RefillBudget, BatchSize)
           pushed == Least(limit, FillEntries - (Cardinality(fq) + fqHeld))
<1>1. TypeOK /\ NoAlias /\ CountersMatch /\ NoPanic BY DEF Ownership
<1>2. PICK S \in SUBSET free :
        /\ Cardinality(S) = pushed
        /\ free' = free \ S
        /\ fq' = fq \cup S
        /\ state' = With(state, S, "RX_KERNEL")
    BY DEF Refill
<1>3. /\ pc \in DOMAIN AfterRefill
      /\ rx_owned' = rx_owned + pushed
      /\ panicked' = (panicked \/ rx_owned > rx_target)
      /\ pc' = IF pushed = limit /\ pushed < RefillBudget THEN pc ELSE AfterRefill[pc]
      /\ UNCHANGED <<handles, tx_pending, invalid, fqHeld, txq, txHeld, rxq, cq, kernelVars>>
    BY DEF Refill
<1>4. Cardinality(free) \in Nat /\ Cardinality(fq) \in Nat /\ Cardinality(S) \in Nat
    BY <1>1, FrameSets DEF TypeOK
<1>5. pushed \in Nat BY <1>2, <1>4
<1>6. RefillBudget \in Int /\ RefillBudget <= rx_target - rx_owned
    <2>1. rx_owned \in Nat /\ rx_owned <= rx_target BY <1>1 DEF TypeOK, CountersMatch
    <2>2. TxReserve \in Nat BY XdpAssumption
    <2>3. Cardinality(free) - TxReserve \in Int /\ rx_target - rx_owned \in Int /\ rx_target - rx_owned >= 0
        BY <1>4, <2>1, <2>2, TargetType
    <2> QED BY <2>3 DEF RefillBudget, Least
<1>7. pushed <= RefillBudget
    <2>1. limit \in Int /\ limit <= RefillBudget BY <1>6, LeastBounds, XdpAssumption
    <2>2. FillEntries - (Cardinality(fq) + fqHeld) \in Int BY <1>1, <1>4, XdpAssumption DEF TypeOK
    <2> QED BY <1>6, <2>1, <2>2, LeastBounds
<1>20. rx_owned + pushed <= rx_target BY <1>1, <1>5, <1>6, <1>7, TargetType DEF TypeOK
<1> HIDE DEF limit, pushed
<1>8. state' \in [Frames -> {"FREE", "RX_KERNEL", "APP", "TX_KERNEL"}]
    BY <1>1, <1>2 DEF TypeOK, With
<1>9. pc' \in Calls \cup {"idle", "recv.pop", "alloc.take"}
    BY <1>3 DEF AfterRefill, Calls
<1>10. panicked' \in BOOLEAN BY <1>3
<1>11. TypeOK'
    BY <1>1, <1>2, <1>3, <1>5, <1>8, <1>9, <1>10 DEF TypeOK, kernelVars
<1>12. NoAlias' BY <1>1, <1>2, <1>3 DEF NoAlias, TypeOK, With
<1>13. S \in SUBSET Frames BY <1>1 DEF TypeOK
<1>14. S \cap InState("RX_KERNEL") = {} /\ S \cap InState("TX_KERNEL") = {}
    BY <1>1 DEF NoAlias, InState
<1>15. /\ InState("RX_KERNEL")' = InState("RX_KERNEL") \cup S
       /\ InState("TX_KERNEL")' = InState("TX_KERNEL")
    <2>1. \A s : InState(s)' = IF s = "RX_KERNEL" THEN InState(s) \cup S ELSE InState(s) \ S
        BY <1>1, <1>2, <1>13, MoveInState
    <2> QED BY <1>14, <2>1
<1>16. InState("RX_KERNEL") \in SUBSET Frames BY DEF InState
<1>17. Cardinality(InState("RX_KERNEL") \cup S) = rx_owned + pushed
    BY <1>1, <1>2, <1>13, <1>14, <1>16, CardinalityAdd DEF CountersMatch
<1>18. CountersMatch' BY <1>1, <1>3, <1>20, <1>15, <1>17 DEF CountersMatch, rx_target
<1>19. NoPanic' BY <1>1, <1>3, TargetType DEF NoPanic, CountersMatch, TypeOK
<1> QED BY <1>11, <1>12, <1>18, <1>19 DEF Ownership

\* recv makes a handle only for a frame that leaves RX_KERNEL.
LEMMA RecvPopOwnership ==
    ASSUME Ownership, NEW max \in 1..BatchSize, RecvPop(max)
    PROVE  Ownership'
<1> DEFINE n == Least(Least(max, BatchSize), Len(rxq))
           good == {f \in Elements(SubSeq(rxq, 1, n)) : f \in Frames /\ state[f] = "RX_KERNEL"}
<1>1. TypeOK /\ NoAlias /\ CountersMatch /\ NoPanic BY DEF Ownership
<1>2. n \in 0..Len(rxq) /\ n \in Nat BY <1>1, XdpAssumption DEF TypeOK, Least
<1>3. good \in SUBSET Frames /\ good \subseteq InState("RX_KERNEL") BY DEF InState
<1>4. /\ rxq' = SubSeq(rxq, n + 1, Len(rxq))
      /\ state' = With(state, good, "APP")
      /\ handles' = [f \in Frames |-> IF f \in good THEN handles[f] + 1 ELSE handles[f]]
      /\ rx_owned' = rx_owned - Cardinality(good)
      /\ invalid' = invalid + n - Cardinality(good)
      /\ panicked' = (panicked \/ rx_owned < Cardinality(good))
      /\ pc' = "idle"
      /\ UNCHANGED <<free, tx_pending, fq, fqHeld, txq, txHeld, cq, kernelVars>>
    BY DEF RecvPop
<1> HIDE DEF n, good
<1>5. Cardinality(good) \in Nat BY <1>3, FrameSets
<1>6. rxq' \in Seq(Descs) BY <1>1, <1>2, <1>4, SplitType DEF TypeOK
<1>7. state' \in [Frames -> {"FREE", "RX_KERNEL", "APP", "TX_KERNEL"}]
    BY <1>1, <1>4 DEF TypeOK, With
<1>8. panicked' \in BOOLEAN /\ handles' \in [Frames -> Nat] BY <1>1, <1>4 DEF TypeOK
<1>10. NoAlias' BY <1>1, <1>3, <1>4 DEF NoAlias, TypeOK, With, InState
<1>11. /\ InState("RX_KERNEL")' = InState("RX_KERNEL") \ good
       /\ InState("TX_KERNEL")' = InState("TX_KERNEL")
    <2>1. \A s : InState(s)' = IF s = "APP" THEN InState(s) \cup good ELSE InState(s) \ good
        BY ZenonT(60), <1>1, <1>3, <1>4, MoveInState
    <2>2. InState("TX_KERNEL") \cap good = {} BY <1>3 DEF InState
    <2> QED BY <2>1, <2>2
<1>12. InState("RX_KERNEL") \in SUBSET Frames BY DEF InState
<1>13. /\ Cardinality(InState("RX_KERNEL") \ good) = rx_owned - Cardinality(good)
       /\ Cardinality(good) <= rx_owned
    BY <1>1, <1>3, <1>12, CardinalityRemove DEF CountersMatch
<1>17. rx_owned' \in Nat /\ invalid' \in Int
    BY <1>1, <1>2, <1>4, <1>5, <1>13 DEF TypeOK
<1>18. UNCHANGED <<free, tx_pending, fq, fqHeld, txq, txHeld, cq, nicRx, nicTx, faults>> /\ pc' = "idle"
    BY <1>4 DEF kernelVars
<1>9. TypeOK' BY <1>1, <1>6, <1>7, <1>8, <1>17, <1>18 DEF TypeOK
<1>14. rx_owned - Cardinality(good) <= rx_target
    BY <1>1, <1>5, TargetType DEF CountersMatch, TypeOK
<1>15. CountersMatch' BY ZenonT(60), <1>1, <1>4, <1>11, <1>13, <1>14 DEF CountersMatch, rx_target
<1>16. NoPanic' BY <1>1, <1>4, <1>5, <1>13 DEF NoPanic, TypeOK
<1> QED BY <1>9, <1>10, <1>15, <1>16 DEF Ownership

\* alloc and alloc_batch move frames from the free list to new handles.
LEMMA TakeFramesOwnership ==
    ASSUME Ownership, NEW max, TakeFrames(max)
    PROVE  Ownership'
<1>1. TypeOK /\ NoAlias /\ CountersMatch /\ NoPanic BY DEF Ownership
<1>2. PICK S \in SUBSET free :
        /\ free' = free \ S
        /\ handles' = [f \in Frames |-> IF f \in S THEN handles[f] + 1 ELSE handles[f]]
        /\ state' = With(state, S, "APP")
        /\ pc' = "idle"
        /\ UNCHANGED <<rx_owned, tx_pending, invalid, panicked, ringVars, kernelVars>>
    BY DEF TakeFrames
<1>3. S \in SUBSET Frames BY <1>1 DEF TypeOK
<1>4. state' \in [Frames -> {"FREE", "RX_KERNEL", "APP", "TX_KERNEL"}]
    BY <1>1, <1>2 DEF TypeOK, With
<1>5. handles' \in [Frames -> Nat] BY <1>1, <1>2 DEF TypeOK
<1>6. TypeOK' BY <1>1, <1>2, <1>4, <1>5 DEF TypeOK, ringVars, kernelVars
<1>7. NoAlias' BY <1>1, <1>2, <1>3 DEF NoAlias, TypeOK, With
<1>8. S \cap InState("RX_KERNEL") = {} /\ S \cap InState("TX_KERNEL") = {}
    BY <1>1 DEF NoAlias, InState
<1>9. /\ InState("RX_KERNEL")' = InState("RX_KERNEL")
      /\ InState("TX_KERNEL")' = InState("TX_KERNEL")
    <2>1. \A s : InState(s)' = IF s = "APP" THEN InState(s) \cup S ELSE InState(s) \ S
        BY <1>1, <1>2, <1>3, MoveInState
    <2> QED BY <1>8, <2>1
<1>10. CountersMatch' BY <1>1, <1>2, <1>9 DEF CountersMatch, rx_target
<1> QED BY <1>1, <1>2, <1>6, <1>7, <1>10 DEF Ownership, NoPanic

\* send moves frames from their handles to TX_KERNEL.
LEMMA SendPushOwnership ==
    ASSUME Ownership, NEW T \in SUBSET Frames, SendPush(T)
    PROVE  Ownership'
<1>1. TypeOK /\ NoAlias /\ CountersMatch /\ NoPanic BY DEF Ownership
<1>2. /\ \A f \in T : handles[f] > 0
      /\ state' = With(state, T, "TX_KERNEL")
      /\ handles' = [f \in Frames |-> IF f \in T THEN handles[f] - 1 ELSE handles[f]]
      /\ txq' = txq \cup T
      /\ tx_pending' = tx_pending + Cardinality(T)
      /\ pc' = "idle"
      /\ UNCHANGED <<free, rx_owned, invalid, panicked, fq, fqHeld, txHeld, rxq, cq, kernelVars>>
    BY DEF SendPush
<1>3. \A f \in T : handles[f] = 1 /\ f \notin free /\ state[f] = "APP"
    BY <1>1, <1>2 DEF NoAlias, TypeOK
<1>4. state' \in [Frames -> {"FREE", "RX_KERNEL", "APP", "TX_KERNEL"}]
    BY <1>1, <1>2 DEF TypeOK, With
<1>5. handles' \in [Frames -> Nat] BY <1>1, <1>2, <1>3 DEF TypeOK
<1>6. Cardinality(T) \in Nat BY FrameSets
<1>7. TypeOK' BY <1>1, <1>2, <1>4, <1>5, <1>6 DEF TypeOK, kernelVars
<1>8. NoAlias' BY <1>1, <1>2, <1>3 DEF NoAlias, TypeOK, With
<1>9. T \cap InState("RX_KERNEL") = {} /\ T \cap InState("TX_KERNEL") = {}
    BY <1>3 DEF InState
<1>10. /\ InState("RX_KERNEL")' = InState("RX_KERNEL")
       /\ InState("TX_KERNEL")' = InState("TX_KERNEL") \cup T
    <2>1. \A s : InState(s)' = IF s = "TX_KERNEL" THEN InState(s) \cup T ELSE InState(s) \ T
        BY <1>1, <1>2, MoveInState
    <2> QED BY <1>9, <2>1
<1>11. InState("TX_KERNEL") \in SUBSET Frames BY DEF InState
<1>12. Cardinality(InState("TX_KERNEL") \cup T) = tx_pending + Cardinality(T)
    BY <1>1, <1>9, <1>11, CardinalityAdd DEF CountersMatch
<1>13. CountersMatch' BY <1>1, <1>2, <1>10, <1>12 DEF CountersMatch, rx_target
<1> QED BY <1>1, <1>2, <1>7, <1>8, <1>13 DEF Ownership, NoPanic

\* Dropping a PacketBuf returns a frame that was nowhere else.
LEMMA DropBufOwnership ==
    ASSUME Ownership, NEW f \in Frames, DropBuf(f)
    PROVE  Ownership'
<1>1. TypeOK /\ NoAlias /\ CountersMatch /\ NoPanic BY DEF Ownership
<1>2. handles[f] = 1 /\ f \notin free /\ state[f] = "APP"
    BY <1>1 DEF DropBuf, NoAlias, TypeOK
<1>3. handles' \in [Frames -> Nat] BY <1>1, <1>2 DEF DropBuf, TypeOK
<1>4. panicked' \in BOOLEAN /\ NoPanic' BY Zenon, <1>1, <1>2 DEF DropBuf, NoPanic
<1>5. TypeOK' BY <1>1, <1>3, <1>4 DEF DropBuf, TypeOK, ringVars, kernelVars
<1>6. NoAlias' BY <1>1, <1>2 DEF DropBuf, NoAlias, TypeOK
<1>7. \A s : InState(s)' = InState(s) BY DEF DropBuf, InState
<1>8. CountersMatch' BY <1>1, <1>7 DEF DropBuf, CountersMatch, rx_target
<1> QED BY <1>4, <1>5, <1>6, <1>8 DEF Ownership

\* No kernel step, faulty or not, changes what userspace knows.
LEMMA KernelOwnership ==
    ASSUME Ownership, Kernel
    PROVE  Ownership'
<1>1. TypeOK /\ NoAlias /\ CountersMatch /\ NoPanic BY DEF Ownership
<1>2. UNCHANGED <<poolVars, deviceVars>>
    BY DEF Kernel, KernelTakeFill, KernelReleaseFill, KernelRx, KernelTakeTx,
           KernelReleaseTx, KernelComplete, KernelFault
<1>3. TypeOK'
    <2>1. rxq' \in Seq(Descs) /\ cq' \in Seq(Descs)
        <3>1. \A q \in Seq(Descs), d \in Descs : Append(q, d) \in Seq(Descs) OBVIOUS
        <3>2. /\ rxq' = rxq \/ \E d \in Descs : rxq' = Append(rxq, d)
              /\ cq' = cq \/ \E d \in Descs : cq' = Append(cq, d)
            BY DEF Descs, Kernel, KernelTakeFill, KernelReleaseFill, KernelRx,
               KernelTakeTx, KernelReleaseTx, KernelComplete, KernelFault
        <3> QED BY Zenon, <1>1, <3>1, <3>2 DEF TypeOK
    <2>2. fq' \subseteq Frames /\ fqHeld' \in Nat /\ txq' \subseteq Frames /\ txHeld' \in Nat
        BY <1>1 DEF TypeOK, Kernel, KernelTakeFill, KernelReleaseFill, KernelRx,
           KernelTakeTx, KernelReleaseTx, KernelComplete, KernelFault, kernelVars
    <2>3. nicRx' \subseteq Frames /\ nicTx' \subseteq Frames
        BY <1>1 DEF TypeOK, Kernel, KernelTakeFill, KernelReleaseFill, KernelRx,
           KernelTakeTx, KernelReleaseTx, KernelComplete, KernelFault, kernelVars
    <2>4. faults' \in 0..MaxFaults
        <3>1. faults' = faults \/ (faults < MaxFaults /\ faults' = faults + 1)
            BY DEF Kernel, KernelTakeFill, KernelReleaseFill, KernelRx,
               KernelTakeTx, KernelReleaseTx, KernelComplete, KernelFault, kernelVars
        <3> QED BY <1>1, <3>1, XdpAssumption DEF TypeOK
    <2> QED BY <1>1, <1>2, <2>1, <2>2, <2>3, <2>4 DEF TypeOK, poolVars, deviceVars
<1>4. NoAlias' BY <1>1, <1>2 DEF NoAlias, poolVars, deviceVars
<1>5. \A s : InState(s)' = InState(s) BY <1>2 DEF deviceVars, InState
<1>6. CountersMatch' BY <1>1, <1>2, <1>5 DEF CountersMatch, deviceVars, rx_target
<1> QED BY <1>1, <1>2, <1>3, <1>4, <1>6 DEF Ownership, NoPanic, deviceVars

\* Every step of the device and of the kernel preserves userspace ownership.
LEMMA NextOwnership == Ownership /\ [Next]_vars => Ownership'
<1> SUFFICES ASSUME Ownership, [Next]_vars PROVE Ownership' OBVIOUS
<1>1. CASE \E next \in Calls : CallStart(next) BY <1>1, CallStartOwnership
<1>2. CASE Refill BY <1>2, RefillOwnership
<1>3. CASE \E max \in 1..BatchSize : RecvPop(max) BY <1>3, RecvPopOwnership
<1>4. CASE \E max \in 1..BatchSize : AllocBatch(max)
    BY <1>4, TakeFramesOwnership DEF AllocBatch
<1>5. CASE Alloc BY <1>5, TakeFramesOwnership DEF Alloc
<1>6. CASE \E T \in SUBSET Frames : SendPush(T) BY <1>6, SendPushOwnership
<1>7. CASE \E f \in Frames : DropBuf(f) BY <1>7, DropBufOwnership
<1>8. CASE Kernel BY <1>8, KernelOwnership
<1>9. CASE UNCHANGED vars
    <2>1. \A s : InState(s)' = InState(s) BY <1>9 DEF vars, deviceVars, InState
    <2> QED BY <1>9, <2>1 DEF Ownership, TypeOK, NoAlias, CountersMatch, NoPanic, vars,
            poolVars, deviceVars, ringVars, kernelVars, rx_target
<1> QED BY <1>1, <1>2, <1>3, <1>4, <1>5, <1>6, <1>7, <1>8, <1>9 DEF Next, Device

-----------------------------------------------------------------------------
(* Both *)

\* The inductive invariant of single ownership.
Owned == Ownership /\ (faults = 0 => Faultless)

\* Every step keeps each frame in one place.
LEMMA NextOwned == Owned /\ [Next]_vars => Owned'
<1> SUFFICES ASSUME Ownership, faults = 0 => Faultless, [Next]_vars, faults' = 0 PROVE Faultless'
  BY NextOwnership DEF Owned
<1>1. faults \in Nat
  BY XdpAssumption DEF Ownership, TypeOK
<1>2. faults = 0
  <2>1. faults' = faults \/ faults' = faults + 1
    BY Zenon DEF Next, Device, CallStart, Refill, RecvPop, AllocBatch, Alloc, TakeFrames, SendPush, DropBuf,
           Kernel, KernelTakeFill, KernelReleaseFill, KernelRx, KernelTakeTx,
           KernelReleaseTx, KernelComplete, KernelFault, vars, kernelVars
  <2> QED BY <1>1, <2>1
<1>3. Faultless
  BY <1>2
<1>4. CASE \E next \in Calls : CallStart(next)
  BY <1>3, <1>4, CallStartFaultless
<1>5. CASE Refill
  BY <1>3, <1>5, RefillFaultless
<1>6. CASE \E max \in 1..BatchSize : RecvPop(max)
  BY <1>3, <1>6, RecvPopFaultless
<1>7. CASE \E max \in 1..BatchSize : AllocBatch(max)
  BY <1>3, <1>7, TakeFramesFaultless DEF AllocBatch
<1>8. CASE Alloc
  BY <1>3, <1>8, TakeFramesFaultless DEF Alloc
<1>9. CASE \E T \in SUBSET Frames : SendPush(T)
  BY <1>3, <1>9, SendPushFaultless
<1>10. CASE \E f \in Frames : DropBuf(f)
  BY <1>3, <1>10, DropBufFaultless
<1>11. CASE Kernel
  BY <1>3, <1>11, KernelFaultless
<1>12. CASE UNCHANGED vars
  BY Zenon, <1>3, <1>12 DEF Faultless, vars, poolVars, deviceVars, ringVars, kernelVars
<1> QED BY <1>4, <1>5, <1>6, <1>7, <1>8, <1>9, <1>10, <1>11, <1>12 DEF Next, Device

\* So the invariant says what SingleOwner says.
LEMMA OwnedSingle == Owned => SingleOwner
<1> SUFFICES ASSUME Ownership, Faultless PROVE
    /\ \A f \in Frames :
        /\ Cardinality({p \in DOMAIN Places(f) : Places(f)[p]}) = 1
        /\ state[f] = "RX_KERNEL" <=> f \in fq \cup nicRx \cup Elements(rxq)
        /\ state[f] = "TX_KERNEL" <=> f \in txq \cup nicTx \cup Elements(cq)
    /\ invalid = 0
  BY DEF Owned, SingleOwner
<1>1. ASSUME NEW f \in Frames PROVE Cardinality({p \in DOMAIN Places(f) : Places(f)[p]}) = 1
  <2>1. DOMAIN Places(f) = 1..8
    BY DEF Places
  <2>2. PICK p \in 1..8 : \A q \in 1..8 : Places(f)[q] <=> q = p
    BY OnePlace
  <2>3. {q \in DOMAIN Places(f) : Places(f)[q]} = {p}
    BY <2>1, <2>2
  <2> QED BY Zenon, <2>3, FS_Singleton
<1> QED BY <1>1 DEF Faultless

-----------------------------------------------------------------------------
(* Theorems *)

\* Whatever the kernel writes into the RX and completion rings, userspace
\* never aliases a frame: the state table of XdpDevice and the FramePool agree
\* on who holds it, for every configuration that XdpConfig::validate accepts.
THEOREM UserspaceNeverAliases == Spec => []NoAlias
<1>1. Ownership => NoAlias BY DEF Ownership
<1> QED BY <1>1, InitOwnership, NextOwnership, PTL DEF Spec

\* The ownership counters are exact, so the unsigned subtractions of refill,
\* recv and drain_cq never wrap.
THEOREM CountersExact == Spec => []CountersMatch
<1>1. Ownership => CountersMatch BY DEF Ownership
<1> QED BY <1>1, InitOwnership, NextOwnership, PTL DEF Spec

\* No pool assertion and no checked subtraction of the device can fail.
THEOREM DeviceNeverPanics == Spec => []NoPanic
<1>1. Ownership => NoPanic BY DEF Ownership
<1> QED BY <1>1, InitOwnership, NextOwnership, PTL DEF Spec

\* With a kernel that moves only frames it was given, every frame is in exactly
\* one of the eight places it can be in, the table of the device says on which
\* side, and no descriptor is counted as invalid: no frame leaks and none is
\* shared, however calls, drops and kernel steps interleave.
THEOREM EachFrameOwned == Spec => []SingleOwner
<1>1. Init => Owned BY InitOwnership, InitFaultless DEF Owned
<1> QED BY <1>1, NextOwned, OwnedSingle, PTL DEF Spec
=============================================================================
