--------------------------- MODULE XdpPartsProofs ---------------------------
(***************************************************************************)
(* Proofs about the two parts an AF_XDP device is made of.                 *)
(*                                                                         *)
(* Ring, for any ring size, any width of the counters that is a multiple   *)
(* of it and any batches: the two sides never touch a slot at the same     *)
(* time, and the ring implements BoundedFifo.                              *)
(*                                                                         *)
(* FramePool, as the instance Pool, for any number of frames: the free     *)
(* list holds exactly the frames nobody holds, once each, and the          *)
(* assertions of mark_used never fail.                                     *)
(***************************************************************************)
EXTENDS Ring, Integers, TLAPS

Counters == 0..(Modulus - 1)

\* The slots the producer side knows to be free.
Space == WrappingSub(cachedConsumer, producer)

Typed ==
    /\ producer \in Counters /\ consumer \in Counters /\ cachedConsumer \in Counters
    /\ cachedProducer = producer /\ cachedRx = consumer
    /\ desc \in [0..(Entries - 1) -> Descs]
    /\ batch \in Seq(Descs) /\ written \in 0..Len(batch)
    /\ toRead \in Nat /\ popped \in Seq(Descs) /\ Len(popped) <= toRead
    /\ delivered \in Seq(Descs)

\* What is published, and what the producer side takes to be free, fit together.
Room ==
    /\ Published + Space <= Entries
    /\ Len(batch) <= Space
    /\ toRead <= Published

\* What the two sides have written and read of their batches
Contents ==
    /\ \A i \in 1..written : desc[Index(WrappingAdd(producer, i - 1))] = batch[i]
    /\ \A i \in 1..Len(popped) : popped[i] = desc[Index(WrappingAdd(consumer, i - 1))]

IInv == Typed /\ Room /\ Contents

-----------------------------------------------------------------------------
(* Wrapping arithmetic *)

\* A remainder is determined by its range.
LEMMA Remainder ==
    ASSUME NEW m \in Nat \ {0}, NEW x \in Int, NEW q \in Int, NEW r \in 0..(m - 1), x = m * q + r
    PROVE  x % m = r
<1> DEFINE a == x \div m
           b == x % m
<1>1. a \in Int /\ b \in 0..(m - 1) /\ x = m * a + b OBVIOUS
<1> HIDE DEF a, b
<1>2. m * (a - q) = r - b
  <2>1. m * (a - q) = m * a - m * q BY <1>1
  <2> QED BY <2>1, <1>1
<1>3. CASE a - q <= -1
  <2>1. m * (a - q) <= -m BY <1>1, <1>3
  <2> QED BY <1>1, <1>2, <2>1
<1>4. CASE a - q >= 1
  <2>1. m * (a - q) >= m BY <1>1, <1>4
  <2> QED BY <1>1, <1>2, <2>1
<1>5. CASE a = q
  <2>1. m * (a - q) = 0 BY <1>1, <1>5
  <2> QED BY <1>1, <1>2, <2>1 DEF b
<1> QED BY <1>1, <1>3, <1>4, <1>5

\* WrappingAdd wraps at most once.
LEMMA AddCases ==
    ASSUME RingAssumption, NEW a \in Counters, NEW k \in 0..Modulus
    PROVE  WrappingAdd(a, k) = IF a + k < Modulus THEN a + k ELSE a + k - Modulus
<1> USE DEF RingAssumption, Counters, WrappingAdd
<1>1. CASE a + k < Modulus
  <2>1. a + k = Modulus * 0 + (a + k) OBVIOUS
  <2> QED BY <1>1, <2>1, Remainder
<1>2. CASE a + k >= Modulus
  <2>1. a + k = Modulus * 1 + (a + k - Modulus) OBVIOUS
  <2> QED BY <1>2, <2>1, Remainder
<1> QED BY <1>1, <1>2

\* WrappingSub is the distance between two counters.
LEMMA SubCases ==
    ASSUME RingAssumption, NEW a \in Counters, NEW b \in Counters
    PROVE  WrappingSub(a, b) = IF b <= a THEN a - b ELSE a + Modulus - b
<1> USE DEF RingAssumption, Counters, WrappingSub
<1>1. CASE b <= a
  <2>1. a + Modulus - b = Modulus * 1 + (a - b) OBVIOUS
  <2> QED BY <1>1, <2>1, Remainder
<1>2. CASE b > a
  <2>1. a + Modulus - b = Modulus * 0 + (a + Modulus - b) OBVIOUS
  <2> QED BY <1>2, <2>1, Remainder
<1> QED BY <1>1, <1>2

\* Slots go on across the rollover of the counters.
LEMMA RolloverKeepsSlot ==
    ASSUME RingAssumption, NEW x \in Int PROVE Index(x - Modulus) = Index(x)
<1> DEFINE q == Modulus \div Entries
           a == x \div Entries
           r == x % Entries
<1>0. Entries \in Nat \ {0} /\ Modulus \in Nat /\ Modulus % Entries = 0 BY DEF RingAssumption
<1>1. q \in Int /\ Modulus = Entries * q BY <1>0
<1>2. a \in Int /\ r \in 0..(Entries - 1) /\ x = Entries * a + r BY <1>0
<1> HIDE DEF q, a, r
<1>3. Entries * (a - q) = Entries * a - Entries * q BY <1>0, <1>1, <1>2
<1>4. x - Modulus = Entries * (a - q) + r BY <1>0, <1>1, <1>2, <1>3
<1>5. (x - Modulus) % Entries = r BY <1>0, <1>1, <1>2, <1>4, Remainder
<1> QED BY <1>5 DEF Index, r

\* Positions less than a ring apart have slots of their own.
LEMMA IndexSeparates ==
    ASSUME RingAssumption, NEW s \in Int, NEW t \in Int, t < s, s - t < Entries
    PROVE  Index(s) # Index(t)
<1> DEFINE a == t \div Entries
           r == t % Entries
<1>0. Entries \in Nat \ {0} BY DEF RingAssumption
<1>1. a \in Int /\ r \in 0..(Entries - 1) /\ t = Entries * a + r BY <1>0
<1> HIDE DEF a, r
<1>m. Entries * a \in Int /\ Entries * a = t - r BY <1>0, <1>1
<1>2. CASE r + (s - t) < Entries
  <2> DEFINE u == r + (s - t)
  <2>1. s = Entries * a + u /\ u \in 0..(Entries - 1) /\ u # r BY <1>0, <1>1, <1>2, <1>m
  <2> HIDE DEF u
  <2>2. s % Entries = u BY <1>0, <1>1, <2>1, Remainder
  <2> QED BY <2>1, <2>2 DEF Index, r
<1>3. CASE r + (s - t) >= Entries
  <2>1. Entries * (a + 1) = Entries * a + Entries BY <1>0, <1>1
  <2> DEFINE u == r + (s - t) - Entries
  <2>2. s = Entries * (a + 1) + u /\ u \in 0..(Entries - 1) /\ u # r
    BY <1>0, <1>1, <1>3, <1>m, <2>1
  <2> HIDE DEF u
  <2>3. a + 1 \in Int BY <1>1
  <2>4. s % Entries = u BY Zenon, <1>0, <2>2, <2>3, Remainder
  <2> QED BY <2>2, <2>4 DEF Index, r
<1> QED BY <1>0, <1>1, <1>2, <1>3

\* An index is one of the ring's slots.
LEMMA IndexInRing == ASSUME RingAssumption, NEW s \in Int PROVE Index(s) \in 0..(Entries - 1)
BY DEF RingAssumption, Index

\* A counter moved on by k has the slot k further on.
LEMMA SlotAfter ==
    ASSUME RingAssumption, NEW a \in Counters, NEW k \in 0..Entries
    PROVE  Index(WrappingAdd(a, k)) = Index(a + k)
<1>1. k \in 0..Modulus /\ a + k \in Int BY DEF RingAssumption, Counters
<1>2. Index((a + k) - Modulus) = Index(a + k) BY <1>1, RolloverKeepsSlot
<1>n. Modulus \in Int /\ a \in Int /\ k \in Int BY DEF RingAssumption, Counters
<1>3. WrappingAdd(a, k) = a + k \/ WrappingAdd(a, k) = (a + k) - Modulus BY <1>1, <1>n, AddCases
<1> QED BY <1>2, <1>3

\* The distance between two counters is in their range.
LEMMA SubCounter ==
    ASSUME RingAssumption, NEW a \in Counters, NEW b \in Counters
    PROVE  WrappingSub(a, b) \in Counters
BY SubCases DEF Counters, RingAssumption

\* The k-th slot after the producer, counted from the consumer.
LEMMA ProducerSlot ==
    ASSUME RingAssumption, producer \in Counters, consumer \in Counters, NEW k \in 0..Entries
    PROVE  Index(WrappingAdd(producer, k)) = Index(consumer + Published + k)
<1>1. k \in 0..Modulus /\ producer + k \in Int BY DEF RingAssumption, Counters
<1>2. Index(WrappingAdd(producer, k)) = Index(producer + k) BY SlotAfter
<1>3. Published = IF consumer <= producer THEN producer - consumer
                  ELSE producer + Modulus - consumer
  BY SubCases DEF Published
<1>4. CASE consumer <= producer
  <2>1. consumer + Published + k = producer + k BY <1>1, <1>3, <1>4 DEF Counters
  <2> QED BY <2>1, <1>2
<1>5. CASE ~(consumer <= producer)
  <2> DEFINE x == consumer + Published + k
  <2>1. x \in Int /\ x - Modulus = producer + k
    BY <1>1, <1>3, <1>5 DEF Counters, RingAssumption
  <2>2. Index(x - Modulus) = Index(x) BY <2>1, RolloverKeepsSlot
  <2> QED BY <2>1, <2>2, <1>2
<1> QED BY <1>4, <1>5

\* The distances between the counters are naturals.
LEMMA Distances ==
    ASSUME RingAssumption, Typed
    PROVE  Published \in Counters /\ Space \in Counters
BY SubCounter DEF Typed, Published, Space

\* The slots of the published descriptors are not those still to be written.
LEMMA SlotsApart ==
    ASSUME RingAssumption, Typed, Room,
           NEW i \in 0..(Published - 1), NEW j \in 0..(Space - 1)
    PROVE  Index(WrappingAdd(consumer, i)) # Index(WrappingAdd(producer, j))
<1>0. /\ Entries \in Nat /\ Published \in Nat /\ Space \in Nat /\ consumer \in Nat
      /\ producer \in Counters /\ consumer \in Counters
      /\ Published + Space <= Entries
  BY Distances DEF Typed, Room, Counters, RingAssumption
<1>1. i \in 0..Entries /\ j \in 0..Entries BY <1>0
<1> DEFINE s == consumer + Published + j
           t == consumer + i
<1>2. s \in Int /\ t \in Int /\ t < s /\ s - t < Entries BY <1>0
<1>3. Index(s) # Index(t) BY <1>2, IndexSeparates
<1> QED BY <1>0, <1>1, <1>3, SlotAfter, ProducerSlot

\* Two slots of a batch to be written are not the same.
LEMMA BatchSlots ==
    ASSUME RingAssumption, Typed, Room,
           NEW i \in 0..(Space - 1), NEW j \in 0..(Space - 1), i < j
    PROVE  Index(WrappingAdd(producer, i)) # Index(WrappingAdd(producer, j))
<1>0. /\ Entries \in Nat /\ Published \in Nat /\ Space \in Nat /\ consumer \in Nat
      /\ producer \in Counters /\ consumer \in Counters
      /\ Published + Space <= Entries
  BY Distances DEF Typed, Room, Counters, RingAssumption
<1>1. i \in 0..Entries /\ j \in 0..Entries BY <1>0
<1> DEFINE s == consumer + Published + j
           t == consumer + Published + i
<1>2. s \in Int /\ t \in Int /\ t < s /\ s - t < Entries BY <1>0
<1>3. Index(s) # Index(t) BY <1>2, IndexSeparates
<1> QED BY <1>0, <1>1, <1>3, ProducerSlot

\* A counter plus a distance is a counter.
LEMMA AddCounter ==
    ASSUME RingAssumption, NEW a \in Counters, NEW k \in 0..Entries
    PROVE  WrappingAdd(a, k) \in Counters
<1>1. k \in 0..Modulus BY DEF RingAssumption
<1> QED BY <1>1, AddCases DEF Counters, RingAssumption

-----------------------------------------------------------------------------
(* The invariant *)

\* The rings as they are mapped satisfy the invariant.
LEMMA InitInvariant == ASSUME RingAssumption, Init PROVE IInv
<1> USE DEF Init, Counters, RingAssumption
<1>1. Typed
  <2>1. (CHOOSE d \in Descs : TRUE) \in Descs OBVIOUS
  <2> QED BY <2>1 DEF Typed
<1>2. Room
  <2>1. Published = 0 /\ Space = Entries BY SubCases DEF Published, Space
  <2> QED BY <2>1 DEF Room
<1>3. Contents BY DEF Contents
<1> QED BY <1>1, <1>2, <1>3 DEF IInv

\* The truncated batch fits between the producer and the refreshed consumer.
LEMMA PushStartInvariant ==
    ASSUME RingAssumption, IInv, NEW addrs \in Batches, PushStart(addrs) PROVE IInv'
<1> DEFINE limit == RefreshedConsumer(Len(addrs))
           n == Least(Len(addrs), WrappingSub(limit, cachedProducer))
<1>0. /\ addrs \in Seq(Descs) /\ Len(addrs) \in Nat /\ DOMAIN addrs = 1..Len(addrs)
      /\ \A i \in 1..Len(addrs) : addrs[i] \in Descs
  BY DEF Batches
<1>1. limit \in Counters /\ Published + WrappingSub(limit, producer) <= Entries
  <2>1. CASE limit = cachedConsumer BY <2>1 DEF IInv, Typed, Room, Space
  <2>2. CASE limit = WrappingAdd(consumer, Entries)
    <3>1. Entries \in 0..Modulus /\ Entries \in 0..Entries /\ consumer \in Counters
      BY DEF IInv, Typed, RingAssumption
    <3>2. limit = IF consumer + Entries < Modulus THEN consumer + Entries
                  ELSE consumer + Entries - Modulus
      BY <2>2, <3>1, AddCases
    <3>3. limit \in Counters BY <2>2, <3>1, AddCounter
    <3> HIDE DEF limit
    <3>4. Published = IF consumer <= producer THEN producer - consumer
                      ELSE producer + Modulus - consumer
      BY SubCases DEF Published, IInv, Typed
    <3>5. WrappingSub(limit, producer) = IF producer <= limit THEN limit - producer
                                         ELSE limit + Modulus - producer
      BY <3>3, SubCases DEF IInv, Typed
    <3>6. Published <= Entries /\ Space \in Nat
      BY Distances DEF IInv, Room, Counters, RingAssumption
    <3> QED BY SMTT(60), <3>1, <3>2, <3>3, <3>4, <3>5, <3>6 DEF IInv, Typed, Counters, RingAssumption
  <2> QED BY <2>1, <2>2 DEF RefreshedConsumer
<1>2. /\ cachedConsumer' = limit /\ batch' = SubSeq(addrs, 1, n) /\ batch = <<>>
      /\ UNCHANGED <<producer, desc, cachedProducer, written, consumerVars>>
  BY DEF PushStart
<1>3. WrappingSub(limit, producer) \in Nat /\ cachedProducer = producer
  <2> HIDE DEF limit
  <2>1. producer \in Counters /\ cachedProducer = producer BY DEF IInv, Typed
  <2>2. WrappingSub(limit, producer) \in Counters BY <1>1, <2>1, SubCounter
  <2> QED BY <2>1, <2>2 DEF Counters
<1> HIDE DEF limit
<1>4. n \in 0..Len(addrs) /\ n <= WrappingSub(limit, producer) BY <1>0, <1>3 DEF Least
<1> HIDE DEF n
<1>5. batch' \in Seq(Descs) /\ Len(batch') = n
  BY <1>0, <1>2, <1>4
<1>6. written = 0 BY <1>2 DEF IInv, Typed
<1>7. Typed' BY <1>1, <1>2, <1>4, <1>5, <1>6 DEF IInv, Typed, consumerVars, Counters
<1>8. Room' BY <1>1, <1>2, <1>4, <1>5 DEF IInv, Typed, Room, Space, Published, consumerVars
<1>9. Contents' BY <1>2, <1>6 DEF IInv, Contents, consumerVars
<1> QED BY <1>7, <1>8, <1>9 DEF IInv

\* A descriptor is written into a slot that is neither published nor written.
LEMMA WriteDescInvariant ==
    ASSUME RingAssumption, IInv, WriteDesc PROVE IInv'
<1> DEFINE slot == Index(WrappingAdd(producer, written))
<1>1. /\ written' = written + 1 /\ written < Len(batch)
      /\ desc' = [desc EXCEPT ![slot] = batch[written + 1]]
      /\ UNCHANGED <<producer, cachedProducer, cachedConsumer, batch, consumerVars>>
  BY DEF WriteDesc, IInv, Typed
<1>2. /\ batch \in Seq(Descs) /\ Len(batch) \in Nat /\ written \in Nat
      /\ Published \in Nat /\ Space \in Nat /\ Len(batch) <= Space /\ toRead <= Published
      /\ popped \in Seq(Descs) /\ Len(popped) \in Nat /\ toRead \in Nat /\ Len(popped) <= toRead
      /\ desc \in [0..(Entries - 1) -> Descs]
  BY Distances DEF IInv, Typed, Room, Counters
<1>3. batch[written + 1] \in Descs BY <1>1, <1>2
<1>4. slot \in 0..(Entries - 1)
  <2>1. WrappingAdd(producer, written) \in Int
    BY <1>2 DEF WrappingAdd, IInv, Typed, Counters, RingAssumption
  <2> QED BY <2>1, IndexInRing
<1> HIDE DEF slot
<1>5. Typed'
  <2>1. desc' \in [0..(Entries - 1) -> Descs] BY Zenon, <1>1, <1>2, <1>3
  <2>2. written' \in 0..Len(batch) BY <1>1, <1>2
  <2> QED BY <1>1, <2>1, <2>2 DEF IInv, Typed, consumerVars, Counters
<1>6. Room' BY <1>1 DEF IInv, Room, Space, Published, consumerVars
<1>7. \A i \in 1..written : Index(WrappingAdd(producer, i - 1)) # slot
  <2> TAKE i \in 1..written
  <2>1. i - 1 \in 0..(Space - 1) /\ written \in 0..(Space - 1) /\ i - 1 < written BY <1>1, <1>2
  <2> QED BY <2>1, BatchSlots DEF IInv, slot
<1>8. \A i \in 1..Len(popped) : Index(WrappingAdd(consumer, i - 1)) # slot
  <2> TAKE i \in 1..Len(popped)
  <2>1. i - 1 \in 0..(Published - 1) /\ written \in 0..(Space - 1) BY <1>1, <1>2
  <2> QED BY <2>1, SlotsApart DEF IInv, slot
<1>9. Contents'
  <2>1. ASSUME NEW i \in 1..written' PROVE desc'[Index(WrappingAdd(producer, i - 1))] = batch[i]
    <3>1. CASE i = written + 1
      <4>1. i - 1 = written BY <1>2, <3>1
      <4>2. Index(WrappingAdd(producer, i - 1)) = slot BY <4>1 DEF slot
      <4> QED BY <1>1, <1>2, <1>4, <3>1, <4>2
    <3>2. CASE i \in 1..written
      <4>1. desc[Index(WrappingAdd(producer, i - 1))] = batch[i] BY <3>2 DEF IInv, Contents
      <4>2. desc'[Index(WrappingAdd(producer, i - 1))] = desc[Index(WrappingAdd(producer, i - 1))]
        <5>1. Index(WrappingAdd(producer, i - 1)) \in 0..(Entries - 1)
          <6>1. WrappingAdd(producer, i - 1) \in Int
            BY <1>2, <3>2 DEF WrappingAdd, IInv, Typed, Counters, RingAssumption
          <6> QED BY <6>1, IndexInRing
        <5> QED BY <1>1, <1>2, <1>7, <3>2, <5>1
      <4> QED BY <4>1, <4>2
    <3> QED BY <1>1, <1>2, <3>1, <3>2
  <2>2. ASSUME NEW i \in 1..Len(popped)
        PROVE popped[i] = desc'[Index(WrappingAdd(consumer, i - 1))]
    <3>1. Index(WrappingAdd(consumer, i - 1)) \in 0..(Entries - 1)
      <4>1. WrappingAdd(consumer, i - 1) \in Int
        BY <1>2 DEF WrappingAdd, IInv, Typed, Counters, RingAssumption
      <4> QED BY <4>1, IndexInRing
    <3> QED BY <1>1, <1>2, <1>8, <3>1 DEF IInv, Contents
  <2>3. UNCHANGED <<producer, consumer, batch, popped>> BY <1>1 DEF consumerVars
  <2> QED BY <2>1, <2>2, <2>3 DEF Contents, Index, WrappingAdd
<1> QED BY <1>5, <1>6, <1>9 DEF IInv

\* What publishing a batch does to the counters
LEMMA PublishMoves ==
    ASSUME RingAssumption, IInv, Publish
    PROVE  /\ producer' \in Counters /\ cachedProducer' = producer'
           /\ producer' = WrappingAdd(producer, Len(batch))
           /\ Len(batch) \in 0..Entries
           /\ Published' = Published + Len(batch) /\ Space' = Space - Len(batch)
           /\ batch' = <<>> /\ written' = 0
           /\ UNCHANGED <<desc, cachedConsumer, consumerVars>>
<1>1. /\ producer' = WrappingAdd(producer, Len(batch)) /\ cachedProducer' = producer'
      /\ batch' = <<>> /\ written' = 0
      /\ UNCHANGED <<desc, cachedConsumer, consumerVars>>
  BY DEF Publish, IInv, Typed
<1>2. /\ Published \in Counters /\ Space \in Counters /\ Len(batch) \in Nat
      /\ Len(batch) <= Space /\ Published + Space <= Entries
      /\ producer \in Counters /\ consumer \in Counters /\ cachedConsumer \in Counters
      /\ Entries \in Nat /\ Modulus \in Nat /\ Entries < Modulus
  BY Distances DEF IInv, Typed, Room, RingAssumption
<1>3. Len(batch) \in 0..Entries /\ Len(batch) \in 0..Modulus BY <1>2 DEF Counters
<1>4. producer' \in Counters BY <1>1, <1>2, <1>3, AddCounter
<1>5. producer' = IF producer + Len(batch) < Modulus THEN producer + Len(batch)
                  ELSE producer + Len(batch) - Modulus
  BY <1>1, <1>2, <1>3, AddCases
<1>6. Published = IF consumer <= producer THEN producer - consumer
                  ELSE producer + Modulus - consumer
  BY <1>2, SubCases DEF Published
<1>7. Published' = IF consumer <= producer' THEN producer' - consumer
                   ELSE producer' + Modulus - consumer
  <2>1. Published' = WrappingSub(producer', consumer)
    BY <1>1 DEF Published, consumerVars, WrappingSub
  <2> QED BY <1>2, <1>4, <2>1, SubCases
<1>8. Space = IF producer <= cachedConsumer THEN cachedConsumer - producer
              ELSE cachedConsumer + Modulus - producer
  BY <1>2, SubCases DEF Space
<1>9. Space' = IF producer' <= cachedConsumer THEN cachedConsumer - producer'
               ELSE cachedConsumer + Modulus - producer'
  <2>1. Space' = WrappingSub(cachedConsumer, producer') BY <1>1 DEF Space, WrappingSub
  <2> QED BY <1>2, <1>4, <2>1, SubCases
<1>10. Published' = Published + Len(batch)
  BY <1>2, <1>3, <1>4, <1>5, <1>6, <1>7 DEF Counters
<1>11. Space' = Space - Len(batch)
  <2>1. /\ producer \in Int /\ producer < Modulus /\ cachedConsumer \in Int /\ 0 <= cachedConsumer
        /\ cachedConsumer < Modulus /\ Modulus \in Int /\ Len(batch) \in Int /\ 0 <= Len(batch)
        /\ Len(batch) <= Space /\ producer' \in Int
    BY <1>2, <1>4 DEF Counters
  <2>2. CASE producer <= cachedConsumer BY <1>5, <1>8, <1>9, <2>1, <2>2
  <2>3. CASE ~(producer <= cachedConsumer)
    <3>1. Space = cachedConsumer + Modulus - producer BY <1>8, <2>3
    <3>2. CASE producer + Len(batch) < Modulus
      <4>1. producer' = producer + Len(batch) BY <1>5, <3>2
      <4>2. ~(producer' <= cachedConsumer) BY <2>1, <2>3, <4>1
      <4> QED BY <1>9, <2>1, <3>1, <4>1, <4>2
    <3>3. CASE ~(producer + Len(batch) < Modulus)
      <4>1. producer' = producer + Len(batch) - Modulus BY <1>5, <3>3
      <4>2. producer' <= cachedConsumer BY <2>1, <3>1, <4>1
      <4> QED BY <1>9, <2>1, <3>1, <4>1, <4>2
    <3> QED BY <3>2, <3>3
  <2> QED BY <2>2, <2>3
<1> QED BY <1>1, <1>3, <1>4, <1>10, <1>11

\* Publishing moves the batch from the free slots to the published ones.
LEMMA PublishInvariant ==
    ASSUME RingAssumption, IInv, Publish PROVE IInv'
<1>1. Typed'
  <2>1. /\ producer' \in Counters /\ cachedProducer' = producer' /\ batch' = <<>> /\ written' = 0
        /\ UNCHANGED <<desc, cachedConsumer, consumer, cachedRx, toRead, popped, delivered>>
    BY PublishMoves DEF consumerVars
  <2>2. <<>> \in Seq(Descs) /\ Len(<<>>) = 0 OBVIOUS
  <2> QED BY <2>1, <2>2 DEF IInv, Typed, Counters
<1>2. Room'
  <2>1. /\ Published \in Nat /\ Space \in Nat /\ Len(batch) \in Nat
        /\ Published + Space <= Entries /\ Len(batch) <= Space /\ toRead <= Published
        /\ toRead \in Nat /\ Entries \in Nat
    BY Distances DEF IInv, Typed, Room, Counters, RingAssumption
  <2>2. /\ Published' = Published + Len(batch) /\ Space' = Space - Len(batch)
        /\ batch' = <<>> /\ toRead' = toRead
    BY PublishMoves DEF consumerVars
  <2> QED BY <2>1, <2>2 DEF Room
<1>3. Contents' BY PublishMoves DEF IInv, Contents, consumerVars, Index, WrappingAdd
<1> QED BY <1>1, <1>2, <1>3 DEF IInv

\* A pop asks for no more than is published.
LEMMA PopStartInvariant ==
    ASSUME RingAssumption, IInv, NEW max \in 1..MaxBatch, PopStart(max) PROVE IInv'
<1>1. /\ toRead = 0 /\ toRead' = Least(max, Published) /\ delivered' = <<>>
      /\ UNCHANGED <<producerVars, consumer, cachedRx, popped>>
  BY DEF PopStart, IInv, Typed, Published
<1>2. Published \in Nat BY Distances DEF IInv, Counters
<1>3. toRead' \in Nat /\ toRead' <= Published BY <1>1, <1>2 DEF Least
<1>4. Typed' BY <1>1, <1>3 DEF IInv, Typed, producerVars, Counters
<1>5. Room' BY <1>1, <1>3 DEF IInv, Room, Space, Published, producerVars
<1>6. Contents' BY <1>1 DEF IInv, Contents, producerVars
<1> QED BY <1>4, <1>5, <1>6 DEF IInv

\* A descriptor is read from the slot that follows those already read.
LEMMA ReadDescInvariant ==
    ASSUME RingAssumption, IInv, ReadDesc PROVE IInv'
<1> DEFINE d == desc[Index(WrappingAdd(consumer, Len(popped)))]
<1>1. /\ Len(popped) < toRead /\ popped' = Append(popped, d)
      /\ UNCHANGED <<producerVars, consumer, cachedRx, toRead, delivered>>
  BY DEF ReadDesc, IInv, Typed
<1>2. popped \in Seq(Descs) /\ Len(popped) \in Nat /\ toRead \in Nat BY DEF IInv, Typed
<1>3. d \in Descs
  <2>1. WrappingAdd(consumer, Len(popped)) \in Int
    BY <1>2 DEF WrappingAdd, IInv, Typed, Counters, RingAssumption
  <2> QED BY <2>1, IndexInRing DEF IInv, Typed
<1>d. d = desc[Index(WrappingAdd(consumer, Len(popped)))] OBVIOUS
<1> HIDE DEF d
<1>4. /\ popped' \in Seq(Descs) /\ Len(popped') = Len(popped) + 1
      /\ \A i \in 1..Len(popped) : popped'[i] = popped[i]
      /\ popped'[Len(popped) + 1] = d
  BY <1>1, <1>2, <1>3
<1>5. Typed' BY <1>1, <1>2, <1>4 DEF IInv, Typed, producerVars, Counters
<1>6. Room' BY <1>1 DEF IInv, Room, Space, Published, producerVars
<1>7. Contents'
  <2>1. ASSUME NEW i \in 1..Len(popped')
        PROVE popped'[i] = desc[Index(WrappingAdd(consumer, i - 1))]
    <3>1. CASE i = Len(popped) + 1
      <4>1. i - 1 = Len(popped) BY <1>2, <3>1
      <4> QED BY <1>4, <1>d, <3>1, <4>1
    <3>2. CASE i \in 1..Len(popped) BY <1>4, <3>2 DEF IInv, Contents
    <3> QED BY <1>2, <1>4, <3>1, <3>2
  <2>2. UNCHANGED <<producer, consumer, desc, batch, written>> BY <1>1 DEF producerVars
  <2> QED BY <2>1, <2>2 DEF IInv, Contents, Index, WrappingAdd
<1> QED BY <1>5, <1>6, <1>7 DEF IInv

\* What releasing a batch does to the counters
LEMMA ReleaseMoves ==
    ASSUME RingAssumption, IInv, Release
    PROVE  /\ consumer' \in Counters /\ cachedRx' = consumer'
           /\ consumer' = WrappingAdd(consumer, toRead)
           /\ toRead \in 0..Entries /\ toRead <= Published /\ Len(popped) = toRead
           /\ Published' = Published - toRead
           /\ delivered' = popped /\ toRead' = 0 /\ popped' = <<>>
           /\ UNCHANGED producerVars
<1>1. /\ consumer' = WrappingAdd(consumer, toRead) /\ cachedRx' = consumer'
      /\ delivered' = popped /\ toRead' = 0 /\ popped' = <<>> /\ Len(popped) = toRead
      /\ UNCHANGED producerVars
  BY DEF Release, IInv, Typed
<1>2. /\ Published \in Counters /\ Space \in Counters /\ toRead \in Nat
      /\ toRead <= Published /\ Published + Space <= Entries
      /\ producer \in Counters /\ consumer \in Counters
      /\ Entries \in Nat /\ Modulus \in Nat /\ Entries < Modulus
  BY Distances DEF IInv, Typed, Room, RingAssumption
<1>3. toRead \in 0..Entries /\ toRead \in 0..Modulus BY <1>2 DEF Counters
<1>4. consumer' \in Counters BY <1>1, <1>2, <1>3, AddCounter
<1>5. consumer' = IF consumer + toRead < Modulus THEN consumer + toRead
                  ELSE consumer + toRead - Modulus
  BY <1>1, <1>2, <1>3, AddCases
<1>6. Published = IF consumer <= producer THEN producer - consumer
                  ELSE producer + Modulus - consumer
  BY <1>2, SubCases DEF Published
<1>7. Published' = IF consumer' <= producer THEN producer - consumer'
                   ELSE producer + Modulus - consumer'
  <2>1. Published' = WrappingSub(producer, consumer')
    BY <1>1 DEF Published, producerVars, WrappingSub
  <2> QED BY <1>2, <1>4, <2>1, SubCases
<1>8. Published' = Published - toRead BY <1>2, <1>3, <1>4, <1>5, <1>6, <1>7 DEF Counters
<1> QED BY <1>1, <1>2, <1>3, <1>4, <1>8

\* Releasing a batch leaves at least the space the producer side knew of.
LEMMA ReleaseInvariant ==
    ASSUME RingAssumption, IInv, Release PROVE IInv'
<1>1. Typed'
  <2>1. /\ consumer' \in Counters /\ cachedRx' = consumer' /\ popped' = <<>> /\ toRead' = 0
        /\ delivered' = popped
        /\ UNCHANGED <<producer, desc, cachedProducer, cachedConsumer, batch, written>>
    BY ReleaseMoves DEF producerVars
  <2>2. <<>> \in Seq(Descs) /\ Len(<<>>) = 0 OBVIOUS
  <2> QED BY <2>1, <2>2 DEF IInv, Typed, Counters
<1>2. Room'
  <2>1. /\ Published \in Nat /\ Space \in Nat /\ toRead \in Nat /\ toRead <= Published
        /\ Published + Space <= Entries /\ Len(batch) <= Space /\ Entries \in Nat
    BY Distances DEF IInv, Typed, Room, Counters, RingAssumption
  <2>2. Published' = Published - toRead /\ Space' = Space /\ batch' = batch /\ toRead' = 0
    BY ReleaseMoves DEF producerVars, Space
  <2> QED BY <2>1, <2>2 DEF Room
<1>3. Contents' BY ReleaseMoves DEF IInv, Contents, producerVars, Index, WrappingAdd
<1> QED BY <1>1, <1>2, <1>3 DEF IInv

\* Every step of either side keeps the invariant.
LEMMA NextInvariant == ASSUME RingAssumption, IInv, [Next]_vars PROVE IInv'
<1>1. CASE UNCHANGED vars
  BY <1>1 DEF vars, producerVars, consumerVars, IInv, Typed, Room, Contents, Space, Published,
              Counters, WrappingSub, WrappingAdd, Index
<1> QED BY <1>1, PushStartInvariant, WriteDescInvariant, PublishInvariant, PopStartInvariant,
           ReadDescInvariant, ReleaseInvariant DEF Next

\* A slot to be read is published, a slot to be written is not.
LEMMA SidesApart == ASSUME RingAssumption, IInv PROVE NoSlotRace
<1> SUFFICES ASSUME NEW k, k \in SlotsWritten, k \in SlotsRead PROVE FALSE
  BY Zenon DEF NoSlotRace
<1>1. PICK j \in 0..(Len(batch) - 1) : k = Index(WrappingAdd(cachedProducer, j)) BY DEF SlotsWritten
<1>2. PICK i \in Len(popped)..(toRead - 1) : k = Index(WrappingAdd(cachedRx, i)) BY DEF SlotsRead
<1>3. /\ Published \in Nat /\ Space \in Nat /\ Len(batch) \in Nat /\ Len(batch) <= Space
      /\ Len(popped) \in Nat /\ toRead \in Nat /\ toRead <= Published
      /\ cachedProducer = producer /\ cachedRx = consumer
  BY Distances DEF IInv, Typed, Room, Counters
<1>4. i \in 0..(Published - 1) /\ j \in 0..(Space - 1) BY <1>3
<1> QED BY Zenon, <1>1, <1>2, <1>3, <1>4, SlotsApart DEF IInv

-----------------------------------------------------------------------------
(* The refinement *)

\* The places of a concatenation
LEMMA Concatenation ==
    ASSUME NEW S, NEW s \in Seq(S), NEW t \in Seq(S)
    PROVE  /\ s \o t \in Seq(S) /\ Len(s \o t) = Len(s) + Len(t)
           /\ \A k \in 1..(Len(s) + Len(t)) :
                (s \o t)[k] = IF k <= Len(s) THEN s[k] ELSE t[k - Len(s)]
OBVIOUS

\* Two sequences with the same elements in the same places are the same.
LEMMA SeqEqual ==
    ASSUME NEW S, NEW s \in Seq(S), NEW t \in Seq(S), Len(s) = Len(t),
           \A i \in 1..Len(s) : s[i] = t[i]
    PROVE  s = t
OBVIOUS

\* n descriptors from counter c on; the queue the ring stands for, as in Fifo
Queued(d, c, n) == [k \in 1..n |-> d[Index(WrappingAdd(c, k - 1))]]
Queue == Queued(desc, consumer, Published)

\* Published descriptors are a sequence.
LEMMA QueueIsSeq ==
    ASSUME RingAssumption, NEW d \in [0..(Entries - 1) -> Descs], NEW c \in Counters, NEW n \in Nat
    PROVE  /\ Queued(d, c, n) \in Seq(Descs) /\ Len(Queued(d, c, n)) = n
           /\ \A k \in 1..n : Queued(d, c, n)[k] = d[Index(WrappingAdd(c, k - 1))]
<1>2. ASSUME NEW k \in 1..n PROVE d[Index(WrappingAdd(c, k - 1))] \in Descs
  <2>1. WrappingAdd(c, k - 1) \in Int BY DEF WrappingAdd, Counters, RingAssumption
  <2> QED BY <2>1, IndexInRing
<1>3. Queued(d, c, n) \in [1..n -> Descs] BY <1>2 DEF Queued
<1>4. Queued(d, c, n) \in Seq(Descs) BY <1>3
<1>5. Len(Queued(d, c, n)) = n BY <1>3, <1>4
<1> QED BY <1>4, <1>5 DEF Queued

\* So is the queue.
LEMMA QueueShape ==
    ASSUME RingAssumption, IInv
    PROVE  /\ Queue \in Seq(Descs) /\ Len(Queue) = Published /\ Published \in Nat
           /\ \A k \in 1..Published : Queue[k] = desc[Index(WrappingAdd(consumer, k - 1))]
<1>1. desc \in [0..(Entries - 1) -> Descs] /\ consumer \in Counters BY DEF IInv, Typed
<1>2. Published \in Nat BY Distances DEF IInv, Counters
<1> QED BY Zenon, <1>1, <1>2, QueueIsSeq DEF Queue

\* The queue is the same when the counters and the published slots are.
LEMMA QueueStays ==
    ASSUME UNCHANGED <<producer, consumer>>,
           \A k \in 1..Published : desc'[Index(WrappingAdd(consumer, k - 1))]
                                   = desc[Index(WrappingAdd(consumer, k - 1))]
    PROVE  Queue' = Queue
<1>1. Published' = Published BY DEF Published, WrappingSub
<1> QED BY <1>1 DEF Queue, Queued, Index, WrappingAdd

\* The truncated batch is offered; an empty one changes nothing.
LEMMA PushStartOffers ==
    ASSUME RingAssumption, IInv, IInv', NEW addrs \in Batches, PushStart(addrs)
    PROVE  Fifo!Offer \/ UNCHANGED <<batch, Queue, delivered>>
<1>1. batch = <<>> /\ UNCHANGED <<producer, consumer, desc, delivered>>
  BY DEF PushStart, consumerVars
<1>2. Queue' = Queue BY <1>1, QueueStays
<1>3. batch' \in Seq(Descs) /\ Len(batch') \in Nat BY DEF IInv, Typed
<1>4. Len(Queue) = Published /\ Published \in Nat BY QueueShape
<1>5. Len(batch') <= Entries - Len(Queue) /\ Entries \in Nat
  <2>1. Space' \in Nat
    <3>1. cachedConsumer' \in Counters /\ producer' \in Counters BY DEF IInv, Typed, Counters
    <3>2. Space' = WrappingSub(cachedConsumer', producer') BY DEF Space, WrappingSub
    <3> QED BY <3>1, <3>2, SubCounter DEF Counters
  <2>2. Published' = Published BY <1>1 DEF Published, WrappingSub
  <2>3. Published' + Space' <= Entries /\ Len(batch') <= Space' /\ Entries \in Nat
    BY DEF IInv, Room, RingAssumption
  <2>4. Published + Space' <= Entries BY <2>2, <2>3
  <2>a. ASSUME NEW a \in Nat, NEW b \in Nat, NEW c \in Nat, NEW e \in Nat, c + b <= e, a <= b
        PROVE  a <= e - c
    BY <2>a
  <2>5. Len(batch') <= Entries - Published BY Zenon, <1>3, <1>4, <2>1, <2>3, <2>4, <2>a
  <2> QED BY <1>4, <2>3, <2>5
<1>6. CASE Len(batch') = 0
  <2>1. batch' = <<>> BY <1>3, <1>6
  <2> QED BY <1>1, <1>2, <2>1
<1>7. CASE Len(batch') # 0
  <2>1. batch' \in [1..Len(batch') -> Descs] BY <1>3
  <2>2. Len(batch') \in 1..(Entries - Len(Queue)) BY <1>3, <1>4, <1>5, <1>7
  <2> QED BY Zenon, <1>1, <1>2, <2>1, <2>2 DEF Fifo!Offer, Queue, Queued
<1> QED BY <1>6, <1>7

\* The batch is appended to the queue.
LEMMA PublishPuts == ASSUME RingAssumption, IInv, Publish PROVE Fifo!Put
<1>1. /\ Len(batch) \in 0..Entries /\ Published' = Published + Len(batch)
      /\ batch' = <<>> /\ UNCHANGED <<desc, consumer, delivered>>
  BY PublishMoves DEF consumerVars
<1>2. /\ batch \in Seq(Descs) /\ written = Len(batch) /\ producer \in Counters
      /\ desc \in [0..(Entries - 1) -> Descs] /\ consumer \in Counters /\ Published \in Nat
      /\ Published + Len(batch) <= Entries /\ Entries \in Nat
  BY SMTT(60), Distances DEF IInv, Typed, Room, Counters, Publish, RingAssumption
<1> DEFINE n == Published + Len(batch)
           q == Queued(desc, consumer, n)
<1>3. /\ Queue \in Seq(Descs) /\ Len(Queue) = Published
      /\ \A k \in 1..Published : Queue[k] = desc[Index(WrappingAdd(consumer, k - 1))]
  BY QueueShape
<1>n. n \in Nat BY <1>1, <1>2
<1>4. /\ n \in Nat /\ q \in Seq(Descs) /\ Len(q) = n
      /\ \A k \in 1..n : q[k] = desc[Index(WrappingAdd(consumer, k - 1))]
  BY Zenon, <1>2, <1>n, QueueIsSeq
<1>5. Queue' = q BY <1>1 DEF Queue, Queued, Index, WrappingAdd
<1>6. /\ Queue \o batch \in Seq(Descs) /\ Len(Queue \o batch) = n
      /\ \A k \in 1..n : (Queue \o batch)[k] =
            IF k <= Published THEN Queue[k] ELSE batch[k - Published]
  BY ZenonT(60), <1>2, <1>3, Concatenation
<1> HIDE DEF q
<1>7. ASSUME NEW k \in 1..n PROVE q[k] = (Queue \o batch)[k]
  <2>1. CASE k <= Published
    <3>1. k \in 1..Published BY <1>2, <2>1
    <3>2. q[k] = Queue[k] BY <1>3, <1>4, <3>1
    <3>3. (Queue \o batch)[k] = Queue[k] BY <1>6, <2>1
    <3> QED BY <3>2, <3>3
  <2>2. CASE ~(k <= Published)
    <3> DEFINE i == k - Published
    <3>1. i \in 1..Len(batch) /\ i - 1 \in 0..Entries /\ k - 1 \in 0..Entries
      BY <1>1, <1>2, <2>2
    <3>2. consumer + Published + (i - 1) = consumer + (k - 1) BY <1>2, <3>1 DEF Counters
    <3>3. Index(WrappingAdd(producer, i - 1)) = Index(consumer + Published + (i - 1))
      BY <1>2, <3>1, ProducerSlot
    <3>4. Index(WrappingAdd(consumer, k - 1)) = Index(consumer + (k - 1))
      BY <1>2, <3>1, SlotAfter
    <3>5. desc[Index(WrappingAdd(producer, i - 1))] = batch[i]
      BY <1>2, <3>1 DEF IInv, Contents
    <3> QED BY <1>4, <1>6, <2>2, <3>2, <3>3, <3>4, <3>5
  <2> QED BY Zenon, <2>1, <2>2
<1>8. q = Queue \o batch BY <1>4, <1>6, <1>7, SeqEqual
<1> QED BY Zenon, <1>1, <1>5, <1>8 DEF Fifo!Put, Queue, Queued

\* A pop that begins takes nothing; the previous batch is gone from the vector.
LEMMA PopStartTakes ==
    ASSUME RingAssumption, IInv, NEW max \in 1..MaxBatch, PopStart(max) PROVE Fifo!Take
<1>1. delivered' = <<>> /\ UNCHANGED <<producer, consumer, desc, batch>>
  BY DEF PopStart, producerVars
<1>2. Queue' = Queue BY <1>1, QueueStays
<1>3. Queue \in Seq(Descs) /\ Len(Queue) \in Nat BY QueueShape
<1>4. SubSeq(Queue, 1, 0) = <<>> OBVIOUS
<1>5. SubSeq(Queue, 0 + 1, Len(Queue)) = Queue
  <2> DEFINE s == SubSeq(Queue, 1, Len(Queue))
  <2>1. \A i \in 1..Len(Queue) : Queue[i] \in Descs BY <1>3
  <2>2. /\ s \in Seq(Descs) /\ Len(s) = Len(Queue)
        /\ \A i \in 1..Len(Queue) : s[i] = Queue[i]
    BY <1>3, <2>1
  <2> QED BY <1>3, <2>2, SeqEqual
<1>6. 0 \in 0..Len(Queue) BY <1>3
<1> QED BY Zenon, <1>1, <1>2, <1>4, <1>5, <1>6 DEF Fifo!Take, Queue, Queued

\* A pop that ends takes what it read from the head of the queue.
LEMMA ReleaseTakes == ASSUME RingAssumption, IInv, Release PROVE Fifo!Take
<1>1. /\ toRead \in 0..Entries /\ toRead <= Published /\ Len(popped) = toRead
      /\ Published' = Published - toRead /\ consumer' = WrappingAdd(consumer, toRead)
      /\ consumer' \in Counters /\ delivered' = popped /\ UNCHANGED <<desc, batch>>
  BY ReleaseMoves DEF producerVars
<1>2. /\ popped \in Seq(Descs) /\ desc \in [0..(Entries - 1) -> Descs] /\ consumer \in Counters
      /\ Published <= Entries /\ Entries \in Nat
      /\ \A i \in 1..Len(popped) : popped[i] = desc[Index(WrappingAdd(consumer, i - 1))]
  <2>1. Published \in Nat /\ Space \in Nat BY Distances DEF IInv, Counters
  <2> QED BY <2>1 DEF IInv, Typed, Room, Contents, RingAssumption
<1>3. /\ Queue \in Seq(Descs) /\ Len(Queue) = Published /\ Published \in Nat
      /\ \A k \in 1..Published : Queue[k] = desc[Index(WrappingAdd(consumer, k - 1))]
  BY QueueShape
<1> DEFINE n == Published - toRead
           q == Queued(desc, consumer', n)
           head == SubSeq(Queue, 1, toRead)
           tail == SubSeq(Queue, toRead + 1, Len(Queue))
<1>4. n \in Nat BY <1>1, <1>3
<1>5. /\ q \in Seq(Descs) /\ Len(q) = n
      /\ \A k \in 1..n : q[k] = desc[Index(WrappingAdd(consumer', k - 1))]
  BY ZenonT(60), <1>1, <1>2, <1>4, QueueIsSeq
<1>6. Queue' = q BY <1>1 DEF Queue, Queued, Index, WrappingAdd
<1>7. \A i \in 1..Len(Queue) : Queue[i] \in Descs BY <1>3
<1>8. /\ head \in Seq(Descs) /\ Len(head) = toRead
      /\ \A i \in 1..toRead : head[i] = Queue[i]
  <2>1. \A i \in 1..toRead : Queue[i] \in Descs BY <1>1, <1>3, <1>7
  <2>2. /\ head \in Seq(Descs) /\ Len(head) = IF 1 <= toRead THEN toRead - 1 + 1 ELSE 0
        /\ \A i \in 1..(toRead - 1 + 1) : head[i] = Queue[1 + i - 1]
    BY <1>1, <2>1
  <2> QED BY <1>1, <2>2
<1>9. /\ tail \in Seq(Descs) /\ Len(tail) = n
      /\ \A i \in 1..n : tail[i] = Queue[toRead + i]
  <2>1. \A i \in (toRead + 1)..Published : Queue[i] \in Descs BY <1>1, <1>3, <1>7
  <2>2. toRead + 1 \in Int /\ Published \in Int BY <1>1, <1>3
  <2>3. /\ tail \in Seq(Descs)
        /\ Len(tail) = IF toRead + 1 <= Published THEN Published - (toRead + 1) + 1 ELSE 0
        /\ \A i \in 1..(Published - (toRead + 1) + 1) : tail[i] = Queue[(toRead + 1) + i - 1]
    BY <1>3, <2>1, <2>2
  <2>4. Published - (toRead + 1) + 1 = n BY <1>1, <1>3
  <2>5. \A i \in 1..n : (toRead + 1) + i - 1 = toRead + i BY <1>1, <1>4
  <2> HIDE DEF n, tail
  <2>6. Len(tail) = n
    <3>1. toRead + 1 <= Published \/ n = 0 BY <1>1, <1>3 DEF n
    <3>2. ~(toRead + 1 <= Published) \/ n # 0 BY <1>1, <1>3 DEF n
    <3> QED BY <2>3, <2>4, <3>1, <3>2
  <2> QED BY <2>3, <2>4, <2>5, <2>6
<1> HIDE DEF head, tail, q
<1>10. popped = head
  <2>1. \A i \in 1..Len(popped) : popped[i] = head[i] BY <1>1, <1>2, <1>3, <1>8
  <2> QED BY SMTT(60), <1>1, <1>2, <1>8, <2>1, SeqEqual
<1>11. ASSUME NEW k \in 1..n PROVE q[k] = tail[k]
  <2>1. toRead + k \in 1..Published /\ k - 1 \in 0..Entries /\ (toRead + k) - 1 \in 0..Entries
    BY <1>1, <1>2, <1>3
  <2>2. Index(WrappingAdd(consumer', k - 1)) = Index(consumer' + (k - 1))
    BY <1>1, <2>1, SlotAfter
  <2>3. Index(WrappingAdd(consumer, (toRead + k) - 1)) = Index(consumer + ((toRead + k) - 1))
    BY <1>2, <2>1, SlotAfter
  <2>4. Index(consumer' + (k - 1)) = Index(consumer + ((toRead + k) - 1))
    <3> DEFINE x == consumer + ((toRead + k) - 1)
    <3>1. x \in Int /\ consumer \in Int /\ toRead \in Int /\ k \in Int /\ Modulus \in Int
      BY <1>1, <1>2 DEF Counters, RingAssumption
    <3>2. toRead \in 0..Modulus BY <1>1 DEF RingAssumption
    <3>3. consumer' = consumer + toRead \/ consumer' = consumer + toRead - Modulus
      BY <1>1, <1>2, <3>1, <3>2, AddCases
    <3>4. consumer' + (k - 1) = x \/ consumer' + (k - 1) = x - Modulus BY <3>1, <3>3
    <3>5. Index(x - Modulus) = Index(x) BY <3>1, RolloverKeepsSlot
    <3> QED BY <3>4, <3>5
  <2>5. Queue[toRead + k] = desc[Index(WrappingAdd(consumer, (toRead + k) - 1))] BY <1>3, <2>1
  <2> QED BY SMTT(60), <1>5, <1>9, <2>2, <2>3, <2>4, <2>5
<1>12. q = tail BY <1>5, <1>9, <1>11, SeqEqual
<1>13. toRead \in 0..Len(Queue) BY <1>1, <1>3
<1> QED BY Zenon, <1>1, <1>6, <1>10, <1>12, <1>13 DEF Fifo!Take, Queue, Queued, head, tail

\* Writing and reading single descriptors leaves the queue as it is.
LEMMA CopyingStutters ==
    ASSUME RingAssumption, IInv, WriteDesc \/ ReadDesc
    PROVE  UNCHANGED <<batch, Queue, delivered>>
<1>1. CASE ReadDesc
  <2>1. UNCHANGED <<producer, consumer, desc, batch, delivered>>
    BY <1>1 DEF ReadDesc, producerVars
  <2>2. Queue' = Queue BY <2>1, QueueStays
  <2> QED BY <2>1, <2>2
<1>2. CASE WriteDesc
  <2> DEFINE slot == Index(WrappingAdd(producer, written))
  <2>1. /\ written < Len(batch) /\ desc' = [desc EXCEPT ![slot] = batch[written + 1]]
        /\ UNCHANGED <<producer, consumer, batch, delivered>>
    BY <1>2 DEF WriteDesc, consumerVars, IInv, Typed
  <2>2. /\ written \in Nat /\ Len(batch) \in Nat /\ Len(batch) <= Space /\ Space \in Nat
        /\ Published \in Nat /\ desc \in [0..(Entries - 1) -> Descs]
    BY Distances DEF IInv, Typed, Room, Counters
  <2> HIDE DEF slot
  <2>3. ASSUME NEW k \in 1..Published
        PROVE  desc'[Index(WrappingAdd(consumer, k - 1))]
               = desc[Index(WrappingAdd(consumer, k - 1))]
    <3>1. k - 1 \in 0..(Published - 1) /\ written \in 0..(Space - 1) BY <2>1, <2>2
    <3>2. Index(WrappingAdd(consumer, k - 1)) # slot BY <3>1, SlotsApart DEF IInv, slot
    <3>3. Index(WrappingAdd(consumer, k - 1)) \in 0..(Entries - 1)
      <4>1. WrappingAdd(consumer, k - 1) \in Int
        BY <2>2 DEF WrappingAdd, IInv, Typed, Counters, RingAssumption
      <4> QED BY <4>1, IndexInRing
    <3> QED BY <2>1, <2>2, <3>2, <3>3
  <2>4. Queue' = Queue BY <2>1, <2>3, QueueStays
  <2> QED BY <2>1, <2>4
<1> QED BY <1>1, <1>2

\* Every step of the ring is a step of the queue or leaves it as it is.
LEMMA StepRefines ==
    ASSUME RingAssumption, IInv, IInv', [Next]_vars
    PROVE  Fifo!Next \/ UNCHANGED <<batch, Queue, delivered>>
<1>1. CASE UNCHANGED vars
  <2>1. UNCHANGED <<producer, consumer, desc, batch, delivered>>
    BY <1>1 DEF vars, producerVars, consumerVars
  <2>2. Queue' = Queue BY <2>1, QueueStays
  <2> QED BY <2>1, <2>2
<1>2. CASE \E addrs \in Batches : PushStart(addrs) BY <1>2, PushStartOffers DEF Fifo!Next
<1>3. CASE WriteDesc \/ ReadDesc BY <1>3, CopyingStutters
<1>4. CASE Publish BY <1>4, PublishPuts DEF Fifo!Next
<1>5. CASE \E max \in 1..MaxBatch : PopStart(max) BY <1>5, PopStartTakes DEF Fifo!Next
<1>6. CASE Release BY <1>6, ReleaseTakes DEF Fifo!Next
<1> QED BY <1>1, <1>2, <1>3, <1>4, <1>5, <1>6 DEF Next

-----------------------------------------------------------------------------
(* The theorems about the ring *)

\* For every ring size, counter width and batch: a push in progress never
\* writes a slot that a pop in progress still has to read, across rollover
\* and with a stale cached consumer.
THEOREM SidesNeverRace == ASSUME RingAssumption PROVE Spec => []NoSlotRace
<1>1. Init => IInv BY InitInvariant
<1>2. IInv /\ [Next]_vars => IInv' BY NextInvariant
<1>3. IInv => NoSlotRace BY SidesApart
<1> QED BY <1>1, <1>2, <1>3, PTL DEF Spec

\* For every ring size, counter width and batch: the descriptor ring of
\* fill_push, tx_push, rx_pop and cq_pop implements a bounded FIFO of batches,
\* and its two sides never race for a slot.
THEOREM RingIsFifo == ASSUME RingAssumption PROVE Spec => ImplementsFifo
<1>1. Init => IInv BY InitInvariant
<1>2. IInv /\ [Next]_vars => IInv' BY NextInvariant
<1>3. Init => Fifo!Init
  <2> SUFFICES ASSUME Init PROVE Fifo!Init OBVIOUS
  <2>1. Published = 0
    <3>1. producer \in Counters /\ consumer \in Counters BY DEF Init, Counters, RingAssumption
    <3> QED BY <3>1, SubCases DEF Published, Init
  <2>2. [k \in 1..Published |-> desc[Index(WrappingAdd(consumer, k - 1))]] = <<>> BY <2>1
  <2> QED BY <2>2 DEF Init, Fifo!Init
<1>4. IInv /\ IInv' /\ [Next]_vars => [Fifo!Next]_(Fifo!fifoVars)
  BY StepRefines DEF Fifo!fifoVars, Queue, Queued
<1>5. IInv => TypeOK /\ NoSlotRace
  <2> SUFFICES ASSUME IInv PROVE TypeOK BY SidesApart
  <2>1. /\ Published \in Nat /\ Space \in Nat /\ Published + Space <= Entries
        /\ Len(batch) <= Space /\ toRead <= Published /\ toRead \in Nat /\ Len(batch) \in Nat
        /\ Entries \in Nat
    BY Distances DEF IInv, Typed, Room, Counters, RingAssumption
  <2>2. Len(batch) <= Entries /\ toRead \in 0..Entries BY <2>1
  <2> QED BY <2>2 DEF IInv, Typed, TypeOK, Counters
<1> QED BY <1>1, <1>2, <1>3, <1>4, <1>5, PTL DEF Spec, ImplementsFifo, Fifo!Spec

-----------------------------------------------------------------------------
(* FramePool *)

CONSTANT NumFrames
VARIABLES free_list, free_count, in_use, handles, kernel, panicked

Pool == INSTANCE FramePool
Sets == INSTANCE FiniteSetTheorems

\* The pool counts frames with the operator the library's facts are about.
LEMMA PoolCardinality == \A S : Pool!Cardinality(S) = Sets!Cardinality(S)
BY ZenonT(60) DEF Pool!Cardinality, Sets!Cardinality, Pool!IsFiniteSet, Sets!IsFiniteSet

Held == handles \cup kernel

PoolTyped ==
    /\ free_list \in [Pool!Indices -> Pool!Indices] /\ free_count \in 0..NumFrames
    /\ in_use \in [Pool!Indices -> BOOLEAN] /\ panicked = FALSE
    /\ handles \subseteq Pool!Indices /\ kernel \subseteq Pool!Indices /\ handles \cap kernel = {}

\* No frame is on the list twice ...
Distinct == \A i, j \in 0..(free_count - 1) : free_list[i] = free_list[j] => i = j

\* ... and those on it are the ones nobody holds.
Listed == \A f \in Pool!Indices : (\E i \in 0..(free_count - 1) : free_list[i] = f) <=> f \notin Held
Flagged == \A f \in Pool!Indices : in_use[f] <=> f \in Held

PoolInv == PoolTyped /\ Distinct /\ Listed /\ Flagged

-----------------------------------------------------------------------------
(* The pool's invariant *)

\* build puts every frame on the list.
LEMMA InitPool == ASSUME Pool!PoolAssumption, Pool!Init PROVE PoolInv
<1> USE DEF Pool!Init, Pool!Indices, Pool!PoolAssumption
<1>1. PoolTyped BY DEF PoolTyped
<1>2. Distinct BY DEF Distinct
<1>3. Listed
  <2>1. ASSUME NEW f \in Pool!Indices PROVE \E i \in 0..(free_count - 1) : free_list[i] = f
    <3>1. NumFrames - 1 - f \in 0..(free_count - 1) /\ free_list[NumFrames - 1 - f] = f OBVIOUS
    <3> QED BY <3>1
  <2> QED BY <2>1 DEF Listed, Held
<1>4. Flagged BY DEF Flagged, Held
<1> QED BY <1>1, <1>2, <1>3, <1>4 DEF PoolInv

\* alloc_n takes frames off the list that nobody holds.
LEMMA AllocInvariant ==
    ASSUME Pool!PoolAssumption, PoolInv, NEW n \in 0..free_count, Pool!AllocN(n),
           \/ handles' = handles \cup Pool!Top(n) /\ kernel' = kernel
           \/ kernel' = kernel \cup Pool!Top(n) /\ handles' = handles
    PROVE  PoolInv'
<1>1. /\ free_count \in Nat /\ free_count <= NumFrames /\ NumFrames \in Nat /\ n \in Nat
      /\ free_count' = free_count - n /\ free_list' = free_list
      /\ in_use' = [f \in Pool!Indices |-> IF f \in Pool!Top(n) THEN TRUE ELSE in_use[f]]
      /\ panicked' = (panicked \/ \E f \in Pool!Top(n) : in_use[f] = TRUE)
  BY DEF Pool!AllocN, Pool!MarkUsed, PoolInv, PoolTyped, Pool!PoolAssumption
<1>2. Pool!Top(n) \subseteq Pool!Indices
  BY <1>1 DEF Pool!Top, PoolInv, PoolTyped, Pool!Indices
<1>3. Pool!Top(n) \cap Held = {}
  <2>1. ASSUME NEW f \in Pool!Top(n) PROVE f \notin Held
    <3>1. PICK i \in (free_count - n)..(free_count - 1) : free_list[i] = f BY DEF Pool!Top
    <3>2. i \in 0..(free_count - 1) BY <1>1
    <3> QED BY <1>2, <3>1, <3>2 DEF PoolInv, Listed
  <2> QED BY <2>1
<1>4. Held' = Held \cup Pool!Top(n) BY DEF Held
<1>5. ~panicked'
  <2>1. ASSUME NEW f \in Pool!Top(n) PROVE ~in_use[f] BY <1>2, <1>3 DEF PoolInv, Flagged
  <2> QED BY Zenon, <1>1, <2>1 DEF PoolInv, PoolTyped
<1>6. PoolTyped'
  <2>1. free_count' \in 0..NumFrames BY <1>1
  <2>2. in_use' \in [Pool!Indices -> BOOLEAN] BY Zenon, <1>1 DEF PoolInv, PoolTyped
  <2>3. panicked' = FALSE BY <1>1, <1>5
  <2>4. handles' \subseteq Pool!Indices /\ kernel' \subseteq Pool!Indices /\ handles' \cap kernel' = {}
    BY <1>2, <1>3 DEF PoolInv, PoolTyped, Held
  <2> QED BY Zenon, <1>1, <2>1, <2>2, <2>3, <2>4 DEF PoolInv, PoolTyped, Pool!Indices
<1>7. Distinct' BY <1>1 DEF PoolInv, Distinct
<1>8. Listed'
  <2> SUFFICES ASSUME NEW f \in Pool!Indices
               PROVE  (\E i \in 0..(free_count' - 1) : free_list[i] = f)
                      <=> f \notin Held /\ f \notin Pool!Top(n)
    BY <1>1, <1>4 DEF Listed, Pool!Indices
  <2>1. ASSUME NEW i \in 0..(free_count' - 1), free_list[i] = f
        PROVE  f \notin Held /\ f \notin Pool!Top(n)
    <3>1. i \in 0..(free_count - 1) BY <1>1
    <3>2. f \notin Held BY <2>1, <3>1 DEF PoolInv, Listed
    <3>3. ASSUME f \in Pool!Top(n) PROVE FALSE
      <4>1. PICK j \in (free_count - n)..(free_count - 1) : free_list[j] = f BY <3>3 DEF Pool!Top
      <4>2. j \in 0..(free_count - 1) /\ i # j BY <1>1
      <4> QED BY <2>1, <3>1, <4>1, <4>2 DEF PoolInv, Distinct
    <3> QED BY <3>2, <3>3
  <2>2. ASSUME f \notin Held, f \notin Pool!Top(n)
        PROVE  \E i \in 0..(free_count' - 1) : free_list[i] = f
    <3>1. PICK i \in 0..(free_count - 1) : free_list[i] = f BY <2>2 DEF PoolInv, Listed
    <3>2. i \notin (free_count - n)..(free_count - 1) BY <2>2, <3>1 DEF Pool!Top
    <3>3. i \in 0..(free_count' - 1) BY <1>1, <3>2
    <3> QED BY <3>1, <3>3
  <2> QED BY <2>1, <2>2
<1>9. Flagged'
  <2>1. ASSUME NEW f \in Pool!Indices PROVE in_use'[f] <=> f \in Held \/ f \in Pool!Top(n)
    BY <1>1 DEF PoolInv, Flagged
  <2> QED BY <1>4, <2>1 DEF Flagged, Pool!Indices
<1> QED BY <1>6, <1>7, <1>8, <1>9 DEF PoolInv

\* The list has as many frames as its count says.
LEMMA ListCount ==
    ASSUME Pool!PoolAssumption, PoolInv
    PROVE  /\ Sets!Cardinality(Pool!FreeFrames) = free_count /\ Sets!IsFiniteSet(Pool!FreeFrames)
           /\ Pool!FreeFrames = Pool!Indices \ Held
<1>1. free_count \in Nat /\ NumFrames \in Nat /\ free_count <= NumFrames
  BY DEF PoolInv, PoolTyped, Pool!PoolAssumption
<1> DEFINE D == 0..(free_count - 1)
           g == [i \in D |-> free_list[i]]
<1>2. Sets!IsFiniteSet(D) /\ Sets!Cardinality(D) = free_count BY <1>1, Sets!FS_Interval
<1>3. g \in Sets!Surjection(D, Pool!FreeFrames) BY DEF Sets!Surjection, Pool!FreeFrames
<1>4. g \in Sets!Injection(D, Pool!FreeFrames)
  BY <1>3 DEF Sets!Injection, Sets!IsInjective, Sets!Surjection, PoolInv, Distinct
<1>5. Sets!Cardinality(Pool!FreeFrames) = free_count /\ Sets!IsFiniteSet(Pool!FreeFrames)
  <2> HIDE DEF D, g
  <2> QED BY <1>2, <1>3, <1>4, Sets!FS_Surjection
<1>6. Pool!FreeFrames \subseteq Pool!Indices BY <1>1 DEF Pool!FreeFrames, PoolInv, PoolTyped, Pool!Indices
<1>7. Pool!FreeFrames = Pool!Indices \ Held BY <1>6 DEF Pool!FreeFrames, PoolInv, Listed
<1> QED BY <1>5, <1>7

\* Frames that are given back have room on the list.
LEMMA RoomToFree ==
    ASSUME Pool!PoolAssumption, PoolInv, NEW S \in SUBSET Held
    PROVE  Sets!IsFiniteSet(S) /\ free_count + Sets!Cardinality(S) <= NumFrames
<1>1. Sets!IsFiniteSet(Pool!Indices) /\ Sets!Cardinality(Pool!Indices) = NumFrames
  <2>1. NumFrames \in Nat /\ NumFrames > 0 BY DEF Pool!PoolAssumption
  <2> QED BY <2>1, Sets!FS_Interval DEF Pool!Indices
<1>2. S \in SUBSET Pool!Indices /\ Pool!FreeFrames \cup S \in SUBSET Pool!Indices /\ Pool!FreeFrames \cap S = {}
  BY ZenonT(60), ListCount DEF PoolInv, PoolTyped, Held
<1>3. Sets!IsFiniteSet(S) /\ Sets!Cardinality(Pool!FreeFrames \cup S) <= NumFrames BY <1>1, <1>2, Sets!FS_Subset
<1>4. Sets!Cardinality(Pool!FreeFrames \cup S) = Sets!Cardinality(Pool!FreeFrames) + Sets!Cardinality(S)
  <2>1. Sets!Cardinality(Pool!FreeFrames) \in Nat /\ Sets!Cardinality(S) \in Nat
    BY <1>3, ListCount, Sets!FS_CardinalityType
  <2>2. Sets!Cardinality(Pool!FreeFrames \cap S) = 0 BY <1>2, Sets!FS_EmptySet
  <2>3. Sets!Cardinality(Pool!FreeFrames \cup S)
        = Sets!Cardinality(Pool!FreeFrames) + Sets!Cardinality(S) - Sets!Cardinality(Pool!FreeFrames \cap S)
    BY <1>3, ListCount, Sets!FS_Union
  <2> QED BY <2>1, <2>2, <2>3
<1> QED BY <1>3, <1>4, ListCount

\* free_n puts frames that were held on the list again.
LEMMA FreeInvariant ==
    ASSUME Pool!PoolAssumption, PoolInv, NEW m \in Nat, NEW indices \in [1..m -> Held],
           \A i, j \in 1..m : indices[i] = indices[j] => i = j,
           Pool!FreeN(indices),
           handles' = handles \ Pool!Elements(indices), kernel' = kernel \ Pool!Elements(indices)
    PROVE  PoolInv'
<1> DEFINE S == Pool!Elements(indices)
<1>1. S = {indices[i] : i \in 1..m} /\ S \subseteq Held /\ Len(indices) = m
  <2>1. DOMAIN indices = 1..m OBVIOUS
  <2>2. Len(indices) = m
    <3>1. indices \in Seq(Held) OBVIOUS
    <3> QED BY <2>1, <3>1
  <2> QED BY <2>1, <2>2 DEF Pool!Elements
<1>2. Sets!Cardinality(S) = m
  <2>1. Sets!IsFiniteSet(1..m) /\ Sets!Cardinality(1..m) = m BY Sets!FS_Interval
  <2>2. indices \in Sets!Surjection(1..m, S) BY <1>1 DEF Sets!Surjection
  <2>3. indices \in Sets!Injection(1..m, S) BY <2>2 DEF Sets!Injection, Sets!IsInjective, Sets!Surjection
  <2> HIDE DEF S
  <2> QED BY <2>1, <2>2, <2>3, Sets!FS_Surjection
<1>3. /\ free_count \in Nat /\ NumFrames \in Nat /\ free_count + m <= NumFrames
      /\ Held \subseteq Pool!Indices
  <2>1. free_count + Sets!Cardinality(S) <= NumFrames
    <3> HIDE DEF S
    <3> QED BY <1>1, RoomToFree
  <2>2. free_count \in Nat /\ NumFrames \in Nat /\ Held \subseteq Pool!Indices
    BY DEF PoolInv, PoolTyped, Pool!PoolAssumption, Held
  <2> QED BY <1>2, <2>1, <2>2
<1>4. /\ free_count' = free_count + m
      /\ in_use' = [f \in Pool!Indices |-> IF f \in S THEN FALSE ELSE in_use[f]]
      /\ panicked' = (panicked \/ \E f \in S : in_use[f] = FALSE)
      /\ free_list' = [i \in Pool!Indices |-> IF i \in free_count..(free_count + m - 1)
                                         THEN indices[i - free_count + 1] ELSE free_list[i]]
  BY <1>1 DEF Pool!FreeN, Pool!MarkUsed
<1>5. Held' = Held \ S BY DEF Held
<1> HIDE DEF S
<1>6. ~panicked'
  <2>1. ASSUME NEW f \in S PROVE in_use[f] = TRUE BY <1>1, <1>3 DEF PoolInv, PoolTyped, Flagged
  <2> QED BY Zenon, <1>4, <2>1 DEF PoolInv, PoolTyped
<1>7. \A i \in 0..(free_count - 1) : i \in Pool!Indices /\ free_list'[i] = free_list[i]
  BY <1>3, <1>4 DEF Pool!Indices
<1>8. \A i \in 1..m : /\ free_count + i - 1 \in Pool!Indices
                      /\ free_list'[free_count + i - 1] = indices[i]
  <2> TAKE i \in 1..m
  <2>1. /\ free_count + i - 1 \in Pool!Indices /\ free_count + i - 1 \in free_count..(free_count + m - 1)
        /\ (free_count + i - 1) - free_count + 1 = i
    BY <1>3 DEF Pool!Indices
  <2> QED BY <1>4, <2>1
<1>9. \A k \in 0..(free_count' - 1) :
        k \in 0..(free_count - 1) \/ \E i \in 1..m : k = free_count + i - 1
  <2> TAKE k \in 0..(free_count' - 1)
  <2>1. CASE k < free_count BY <1>3, <1>4, <2>1
  <2>2. CASE ~(k < free_count)
    <3>1. k - free_count + 1 \in 1..m /\ k = free_count + (k - free_count + 1) - 1
      BY <1>3, <1>4, <2>2
    <3> QED BY <3>1
  <2> QED BY <2>1, <2>2
<1>10. PoolTyped'
  <2>1. free_count' \in 0..NumFrames BY <1>3, <1>4
  <2>2. in_use' \in [Pool!Indices -> BOOLEAN] BY Zenon, <1>4 DEF PoolInv, PoolTyped
  <2>3. panicked' = FALSE BY <1>4, <1>6
  <2>4. handles' \subseteq Pool!Indices /\ kernel' \subseteq Pool!Indices /\ handles' \cap kernel' = {}
    BY DEF PoolInv, PoolTyped
  <2>5. free_list' \in [Pool!Indices -> Pool!Indices]
    <3>1. ASSUME NEW i \in Pool!Indices, i \in free_count..(free_count + m - 1)
          PROVE  indices[i - free_count + 1] \in Pool!Indices
      <4>1. i - free_count + 1 \in 1..m BY <1>3, <3>1
      <4> QED BY <1>3, <4>1
    <3> QED BY <1>4, <3>1 DEF PoolInv, PoolTyped
  <2> QED BY <2>1, <2>2, <2>3, <2>4, <2>5 DEF PoolTyped, Pool!Indices
<1>11. \A i \in 0..(free_count - 1) : free_list[i] \in Pool!Indices /\ free_list[i] \notin Held
  BY <1>7 DEF PoolInv, PoolTyped, Listed
<1>12. Distinct'
  <2> SUFFICES ASSUME NEW k \in 0..(free_count' - 1), NEW l \in 0..(free_count' - 1),
                      free_list'[k] = free_list'[l]
               PROVE  k = l
    BY DEF Distinct
  <2>1. CASE k \in 0..(free_count - 1) /\ l \in 0..(free_count - 1)
    BY <1>7, <2>1 DEF PoolInv, Distinct
  <2>2. ASSUME NEW i \in 1..m, NEW j \in 1..m, k = free_count + i - 1, l = free_count + j - 1
        PROVE  k = l
    <3>1. indices[i] = indices[j] BY <1>8, <2>2
    <3> QED BY <2>2, <3>1
  <2>3. ASSUME NEW i \in 1..m, NEW x \in 0..(free_count - 1),
               free_list'[x] = free_list'[free_count + i - 1]
        PROVE  FALSE
    <3>1. free_list[x] = indices[i] BY <1>7, <1>8, <2>3
    <3> QED BY <1>11, <3>1
  <2> QED BY <1>9, <2>1, <2>2, <2>3
<1>13. Listed'
  <2> SUFFICES ASSUME NEW f \in Pool!Indices
               PROVE  (\E k \in 0..(free_count' - 1) : free_list'[k] = f) <=> f \notin Held \ S
    BY <1>5 DEF Listed, Pool!Indices
  <2>1. ASSUME NEW k \in 0..(free_count' - 1), free_list'[k] = f PROVE f \notin Held \ S
    <3>1. CASE k \in 0..(free_count - 1) BY <1>7, <1>11, <2>1, <3>1
    <3>2. ASSUME NEW i \in 1..m, k = free_count + i - 1 PROVE f \notin Held \ S
      BY <1>1, <1>8, <2>1, <3>2
    <3> QED BY <1>9, <3>1, <3>2
  <2>2. ASSUME f \notin Held \ S PROVE \E k \in 0..(free_count' - 1) : free_list'[k] = f
    <3>1. CASE f \in S
      <4>1. PICK i \in 1..m : indices[i] = f BY <1>1, <3>1
      <4>2. free_count + i - 1 \in 0..(free_count' - 1) BY <1>3, <1>4
      <4> QED BY <1>8, <4>1, <4>2
    <3>2. CASE f \notin Held
      <4>1. PICK i \in 0..(free_count - 1) : free_list[i] = f BY <3>2 DEF PoolInv, Listed
      <4>2. i \in 0..(free_count' - 1) BY <1>3, <1>4
      <4> QED BY <1>7, <4>1, <4>2
    <3> QED BY <2>2, <3>1, <3>2
  <2> QED BY <2>1, <2>2
<1>14. Flagged'
  <2>1. ASSUME NEW f \in Pool!Indices PROVE in_use'[f] <=> f \in Held \ S
    BY <1>4 DEF PoolInv, Flagged
  <2> QED BY <1>5, <2>1 DEF Flagged, Pool!Indices
<1> QED BY <1>10, <1>12, <1>13, <1>14 DEF PoolInv

\* A frame changes hands between a PacketBuf and the kernel.
LEMMA TransferInvariant ==
    ASSUME Pool!PoolAssumption, PoolInv, NEW f \in Pool!Indices, Pool!IntoParts(f) \/ Pool!PacketBuf(f) PROVE PoolInv'
<1>1. /\ Held' = Held /\ handles' \subseteq Pool!Indices /\ kernel' \subseteq Pool!Indices
      /\ handles' \cap kernel' = {}
      /\ UNCHANGED <<free_list, free_count, in_use, panicked>>
  BY DEF Held, Pool!IntoParts, Pool!PacketBuf, PoolInv, PoolTyped
<1> QED BY <1>1 DEF PoolInv, PoolTyped, Distinct, Listed, Flagged, Pool!Indices

\* Dropping a PacketBuf gives back one frame.
LEMMA DropInvariant ==
    ASSUME Pool!PoolAssumption, PoolInv, NEW f \in Pool!Indices, Pool!Drop(f) PROVE PoolInv'
<1>1. f \in handles /\ f \notin kernel /\ f \in Held BY DEF Pool!Drop, PoolInv, PoolTyped, Held
<1>2. <<f>> \in [1..1 -> Held] /\ \A i, j \in 1..1 : <<f>>[i] = <<f>>[j] => i = j BY <1>1
<1>3. Pool!Elements(<<f>>) = {f}
  <2>1. DOMAIN <<f>> = {1} /\ <<f>>[1] = f OBVIOUS
  <2> QED BY <2>1 DEF Pool!Elements
<1>4. Pool!FreeN(<<f>>) /\ handles' = handles \ {f} /\ kernel' = kernel \ {f} BY <1>1 DEF Pool!Drop
<1> QED BY ZenonT(60), <1>2, <1>3, <1>4, FreeInvariant

\* The device gives back a batch of frames, each of them once.
LEMMA ReturnInvariant ==
    ASSUME Pool!PoolAssumption, PoolInv, NEW indices \in Pool!Batches, Pool!Return(indices) PROVE PoolInv'
<1>1. PICK m \in 1..Sets!Cardinality(kernel) : indices \in [1..m -> kernel] BY PoolCardinality DEF Pool!Batches
<1>2. Sets!IsFiniteSet(kernel) /\ Sets!Cardinality(kernel) \in Nat
  <2>1. kernel \in SUBSET Held BY DEF Held
  <2> QED BY <2>1, RoomToFree, Sets!FS_CardinalityType
<1>3. m \in Nat /\ Len(indices) = m /\ DOMAIN indices = 1..m BY <1>1, <1>2
<1> DEFINE S == Pool!Elements(indices)
<1>4. Sets!Cardinality(S) = m BY <1>3, PoolCardinality DEF Pool!Batches
<1>5. indices \in Sets!Surjection(1..m, S) BY <1>1, <1>3 DEF Sets!Surjection, Pool!Elements
<1>6. Sets!IsFiniteSet(1..m) /\ Sets!Cardinality(1..m) = m BY <1>3, Sets!FS_Interval
<1>7. indices \in Sets!Injection(1..m, S)
  <2> HIDE DEF S
  <2> QED BY <1>4, <1>5, <1>6, Sets!FS_Surjection
<1>8. \A i, j \in 1..m : indices[i] = indices[j] => i = j BY <1>7 DEF Sets!Injection, Sets!IsInjective
<1>9. S \subseteq kernel /\ S \cap handles = {} BY <1>1, <1>3 DEF Pool!Elements, PoolInv, PoolTyped
<1>10. Pool!FreeN(indices) /\ handles' = handles \ S /\ kernel' = kernel \ S BY <1>9 DEF Pool!Return
<1>11. indices \in [1..m -> Held] BY <1>1 DEF Held
<1> QED BY <1>3, <1>8, <1>10, <1>11, FreeInvariant

\* Every call keeps the invariant.
LEMMA NextPool == ASSUME Pool!PoolAssumption, PoolInv, [Pool!Next]_(Pool!vars) PROVE PoolInv'
<1>1. CASE UNCHANGED Pool!vars
  BY <1>1 DEF Pool!vars, PoolInv, PoolTyped, Distinct, Listed, Flagged, Held, Pool!Indices
<1>2. ASSUME NEW max \in 1..NumFrames, Pool!AllocBatch(max) \/ Pool!TakeForKernel(max) PROVE PoolInv'
  <2> DEFINE n == Pool!Least(max, free_count)
  <2>1. n \in 0..free_count BY DEF Pool!Least, PoolInv, PoolTyped, Pool!PoolAssumption
  <2>2. /\ Pool!AllocN(n)
        /\ \/ handles' = handles \cup Pool!Top(n) /\ kernel' = kernel
           \/ kernel' = kernel \cup Pool!Top(n) /\ handles' = handles
    BY <1>2 DEF Pool!AllocBatch, Pool!TakeForKernel
  <2> HIDE DEF n
  <2> QED BY <2>1, <2>2, AllocInvariant
<1> QED BY <1>1, <1>2, TransferInvariant, DropInvariant, ReturnInvariant DEF Pool!Next

-----------------------------------------------------------------------------
(* The theorem about the pool *)

\* For any number of frames and any sequence of allocations, drops and kernel
\* transfers the first free_count cells hold exactly the frames that nobody
\* holds, once each, and the flags agree.
THEOREM FreeListHolds == ASSUME Pool!PoolAssumption PROVE Pool!Spec => [](Pool!FreeListExact /\ Pool!NoPanic)
<1>1. Pool!Init => PoolInv BY InitPool
<1>2. PoolInv /\ [Pool!Next]_(Pool!vars) => PoolInv' BY NextPool
<1>3. PoolInv => Pool!FreeListExact /\ Pool!NoPanic
  <2> SUFFICES ASSUME PoolInv PROVE Pool!FreeListExact /\ Pool!NoPanic OBVIOUS
  <2>1. Sets!Cardinality(Pool!FreeFrames) = free_count /\ Pool!FreeFrames = Pool!Indices \ Held BY ListCount
  <2>2. in_use = [f \in Pool!Indices |-> f \notin Pool!FreeFrames]
    BY Zenon, <2>1 DEF PoolInv, PoolTyped, Flagged
  <2>3. handles \cap kernel = {} /\ ~panicked BY DEF PoolInv, PoolTyped
  <2> QED BY <2>1, <2>2, <2>3, PoolCardinality DEF Pool!FreeListExact, Pool!NoPanic, Held
<1> QED BY <1>1, <1>2, <1>3, PTL DEF Pool!Spec

=============================================================================
