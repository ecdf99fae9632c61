--------------------------- MODULE WorkersProofs ---------------------------
(***************************************************************************)
(* Proofs about two pairs of processes that meet in a buffer.              *)
(*                                                                         *)
(* Telemetry, for any capacity, datagram size and number of records: what  *)
(* makes the last swap the last is that once the worker has read the flag, *)
(* the application adds nothing.                                           *)
(*                                                                         *)
(* ShmNic, as the instance Shm, for any ring, batch and number of packets: *)
(* the two processes never hold a slot at the same time, and none of the   *)
(* checks of `run` ever fails because of the other process.                *)
(***************************************************************************)
EXTENDS Telemetry, TLAPS

\* Time for the provers on a busy machine.
USE SMTT(60)

Buffers ==
    /\ records \in Seq(Nat) /\ pending \in Seq(Nat)
    /\ accepted \in Seq(Nat) /\ exported \in Seq(Nat)
    /\ calls \in Nat

\* The worker's buffer is empty when it swaps, and nothing waits after the swap
\* that follows a raised flag.
Stages ==
    /\ at \in {"load", "lock", "swap", "send", "park", "done"}
    /\ at # "send" => pending = <<>>
    /\ stopping => stopped
    /\ stopping /\ at \in {"send", "done"} => records = <<>>
    /\ at = "done" => stopping
    /\ at = "park" => ~stopping

IInv == Buffers /\ Stages /\ Conserved

\* Two sequences with the same elements in the same places are the same.
LEMMA SeqEqual ==
    ASSUME NEW s \in Seq(Nat), NEW t \in Seq(Nat), Len(s) = Len(t), \A i \in 1..Len(s) : s[i] = t[i]
    PROVE  s = t
OBVIOUS

\* Concatenation of sequences of numbers is associative.
LEMMA Assoc ==
    ASSUME NEW s \in Seq(Nat), NEW t \in Seq(Nat), NEW u \in Seq(Nat)
    PROVE  (s \o t) \o u = s \o (t \o u)
<1> DEFINE l == (s \o t) \o u
           r == s \o (t \o u)
<1>1. /\ s \o t \in Seq(Nat) /\ Len(s \o t) = Len(s) + Len(t)
      /\ t \o u \in Seq(Nat) /\ Len(t \o u) = Len(t) + Len(u)
      /\ Len(s) \in Nat /\ Len(t) \in Nat /\ Len(u) \in Nat
  OBVIOUS
<1>2. /\ l \in Seq(Nat) /\ Len(l) = Len(s) + Len(t) + Len(u)
      /\ r \in Seq(Nat) /\ Len(r) = Len(s) + Len(t) + Len(u)
  BY <1>1
<1>3. ASSUME NEW i \in 1..Len(l) PROVE l[i] = r[i]
  <2>1. i \in Nat /\ 1 <= i /\ i <= Len(s) + Len(t) + Len(u)
    BY <1>1, <1>2, <1>3
  <2>2. l[i] = IF i <= Len(s) + Len(t) THEN (s \o t)[i] ELSE u[i - (Len(s) + Len(t))]
    BY <1>1, <2>1
  <2>3. r[i] = IF i <= Len(s) THEN s[i] ELSE (t \o u)[i - Len(s)]
    BY <1>1, <2>1
  <2>4. CASE i <= Len(s)
    <3>1. (s \o t)[i] = s[i]
      BY <1>1, <2>1, <2>4
    <3> QED BY <1>1, <2>1, <2>2, <2>3, <2>4, <3>1
  <2>5. CASE Len(s) < i /\ i <= Len(s) + Len(t)
    <3>1. (s \o t)[i] = t[i - Len(s)]
      BY <1>1, <2>1, <2>5
    <3>2. (t \o u)[i - Len(s)] = t[i - Len(s)]
      BY <1>1, <2>1, <2>5
    <3> QED BY <1>1, <2>1, <2>2, <2>3, <2>5, <3>1, <3>2
  <2>6. CASE Len(s) + Len(t) < i
    <3>1. (t \o u)[i - Len(s)] = u[(i - Len(s)) - Len(t)]
      BY <1>1, <2>1, <2>6
    <3>2. (i - Len(s)) - Len(t) = i - (Len(s) + Len(t))
      BY <1>1, <2>1
    <3> QED BY <1>1, <2>1, <2>2, <2>3, <2>6, <3>1, <3>2
  <2> QED BY <1>1, <2>1, <2>4, <2>5, <2>6
<1> HIDE DEF l, r
<1>4. l = r
  BY <1>2, <1>3
<1> QED BY <1>4 DEF l, r

\* A record taken goes to the very end.
LEMMA AppendLast ==
    ASSUME NEW x \in Seq(Nat), NEW y \in Seq(Nat), NEW z \in Seq(Nat), NEW e \in Nat
    PROVE  Append(x \o (y \o z), e) = x \o (y \o Append(z, e))
<1>1. y \o z \in Seq(Nat) /\ x \o (y \o z) \in Seq(Nat) /\ <<e>> \in Seq(Nat)
  OBVIOUS
<1>2. Append(x \o (y \o z), e) = (x \o (y \o z)) \o <<e>>
  BY <1>1
<1>3. (x \o (y \o z)) \o <<e>> = x \o ((y \o z) \o <<e>>)
  BY <1>1, Assoc, ZenonT(120)
<1>4. (y \o z) \o <<e>> = y \o (z \o <<e>>)
  BY <1>1, Assoc, ZenonT(120)
<1>5. Append(z, e) = z \o <<e>>
  OBVIOUS
<1> QED BY Zenon, <1>2, <1>3, <1>4, <1>5

\* A sequence is a front part and the rest.
LEMMA Pieces ==
    ASSUME NEW y \in Seq(Nat), NEW n \in 0..Len(y)
    PROVE  /\ SubSeq(y, 1, n) \in Seq(Nat) /\ SubSeq(y, n + 1, Len(y)) \in Seq(Nat)
           /\ y = SubSeq(y, 1, n) \o SubSeq(y, n + 1, Len(y))
<1> DEFINE f == SubSeq(y, 1, n)
           r == SubSeq(y, n + 1, Len(y))
<1>0. Len(y) \in Nat /\ n \in Nat /\ n <= Len(y) /\ \A i \in 1..Len(y) : y[i] \in Nat
  OBVIOUS
<1>1. f \in Seq(Nat) /\ Len(f) = n
  BY <1>0
<1>2. r \in Seq(Nat) /\ Len(r) = Len(y) - n
  BY <1>0
<1>3. \A i \in 1..n : f[i] = y[i]
  BY <1>0
<1>4. \A i \in 1..(Len(y) - n) : r[i] = y[n + i]
  BY <1>0
<1> HIDE DEF f, r
<1>5. f \o r \in Seq(Nat) /\ Len(f \o r) = Len(y)
  BY <1>0, <1>1, <1>2
<1>6. ASSUME NEW i \in 1..Len(y) PROVE y[i] = (f \o r)[i]
  <2>1. CASE i <= n
    <3>1. (f \o r)[i] = f[i]
      BY <1>0, <1>1, <1>2, <2>1
    <3> QED BY <1>0, <1>3, <2>1, <3>1
  <2>2. CASE ~(i <= n)
    <3>1. (f \o r)[i] = r[i - n] /\ i - n \in 1..(Len(y) - n) /\ n + (i - n) = i
      BY <1>0, <1>1, <1>2, <2>2
    <3> QED BY <1>4, <3>1
  <2> QED BY ZenonT(60), <2>1, <2>2
<1>7. y = f \o r
  BY ZenonT(60), <1>5, <1>6, SeqEqual
<1> QED BY ZenonT(60), <1>1, <1>2, <1>7 DEF f, r

\* A datagram takes a front part of the worker's buffer.
LEMMA SplitFront ==
    ASSUME NEW x \in Seq(Nat), NEW y \in Seq(Nat), NEW z \in Seq(Nat),
           NEW n \in 0..Len(y)
    PROVE  /\ SubSeq(y, 1, n) \in Seq(Nat) /\ SubSeq(y, n + 1, Len(y)) \in Seq(Nat)
           /\ x \o (y \o z) = (x \o SubSeq(y, 1, n)) \o (SubSeq(y, n + 1, Len(y)) \o z)
<1> DEFINE f == SubSeq(y, 1, n)
           r == SubSeq(y, n + 1, Len(y))
<1>1. f \in Seq(Nat)
  BY ZenonT(60), Pieces
<1>2. r \in Seq(Nat)
  BY ZenonT(60), Pieces
<1>3. y = f \o r
  BY ZenonT(60), Pieces
<1> HIDE DEF f, r
<1>4. /\ (f \o r) \o z = f \o (r \o z)
      /\ r \o z \in Seq(Nat)
  <2>1. (f \o r) \o z = f \o (r \o z)
    BY <1>1, <1>2, Assoc, ZenonT(120)
  <2>2. r \o z \in Seq(Nat)
    BY <1>2
  <2> QED BY <2>1, <2>2
<1>5. (x \o f) \o (r \o z) = x \o (f \o (r \o z))
  BY <1>1, <1>4, Assoc, ZenonT(120)
<1>6. x \o (y \o z) = (x \o f) \o (r \o z)
  BY <1>3, <1>4, <1>5
<1> QED BY <1>1, <1>2, <1>6 DEF f, r

\* A record taken goes to the end of what the application handed over.
LEMMA RecordLast ==
    ASSUME records \in Seq(Nat), pending \in Seq(Nat), exported \in Seq(Nat), calls \in Nat
    PROVE  Append(exported \o (pending \o records), calls) = exported \o (pending \o Append(records, calls))
BY AppendLast, ZenonT(120)

\* Sending a datagram moves the front of the worker's buffer.
LEMMA SendFront ==
    ASSUME records \in Seq(Nat), pending \in Seq(Nat), exported \in Seq(Nat),
           NEW n \in 0..Len(pending)
    PROVE  /\ SubSeq(pending, 1, n) \in Seq(Nat)
           /\ SubSeq(pending, n + 1, Len(pending)) \in Seq(Nat)
           /\ exported \o (pending \o records)
                = (exported \o SubSeq(pending, 1, n)) \o (SubSeq(pending, n + 1, Len(pending)) \o records)
BY SplitFront, ZenonT(120)

\* Every step of the application and of the worker keeps the invariant.
LEMMA Step ==
    ASSUME IInv, [Next]_vars
    PROVE  IInv'
<1> USE TelemetryAssumption
<1>1. CASE UNCHANGED vars
  BY <1>1 DEF vars, IInv, Buffers, Stages, Conserved
<1>2. CASE Record
  <2>1. CASE UNCHANGED <<records, accepted>>
    BY <1>2, <2>1 DEF Record, worker, IInv, Buffers, Stages, Conserved
  <2>2. CASE records' = Append(records, calls) /\ accepted' = Append(accepted, calls)
    <3>1. Buffers'
      BY <1>2, <2>2 DEF Record, worker, IInv, Buffers
    <3>2. Stages'
      BY <1>2, <2>2 DEF Record, worker, IInv, Buffers, Stages
    <3>3. /\ exported \in Seq(Nat) /\ pending \in Seq(Nat)
          /\ records \in Seq(Nat) /\ calls \in Nat /\ accepted = exported \o (pending \o records)
      BY DEF IInv, Buffers, Conserved
    <3>5. Append(exported \o (pending \o records), calls) = exported \o (pending \o Append(records, calls))
      BY <3>3, RecordLast, Zenon
    <3>4. Conserved'
      BY <1>2, <2>2, <3>3, <3>5 DEF Record, worker, Conserved
    <3> QED BY <3>1, <3>2, <3>4 DEF IInv
  <2> QED BY <1>2, <2>1, <2>2 DEF Record
<1>3. CASE SetStopped \/ Join
  <2>1. UNCHANGED <<records, worker, calls, accepted>> /\ (stopped => stopped')
    BY <1>3 DEF SetStopped, Join
  <2>2. Buffers' /\ Conserved'
    BY <2>1 DEF worker, IInv, Buffers, Conserved
  <2>3. Stages'
    BY <2>1 DEF worker, IInv, Stages
  <2> QED BY <2>2, <2>3 DEF IInv
<1>4. CASE Load \/ Lock \/ Clear \/ Park
  <2>1. UNCHANGED <<records, pending, exported, application>>
    BY <1>4 DEF Load, Lock, Clear, Park
  <2>2. Buffers' /\ Conserved'
    BY <2>1 DEF application, IInv, Buffers, Conserved
  <2>3. ASSUME Load PROVE Stages'
    BY <2>1, <2>3 DEF Load, application, IInv, Stages
  <2>4. ASSUME Lock \/ Park PROVE Stages'
    BY <2>1, <2>4 DEF Lock, Park, application, IInv, Stages
  <2>5. ASSUME Clear PROVE Stages'
    BY <2>1, <2>5 DEF Clear, AfterSend, application, IInv, Stages
  <2>6. Stages'
    BY <1>4, <2>3, <2>4, <2>5
  <2> QED BY <2>2, <2>6 DEF IInv
<1>5. CASE Swap
  <2>1. pending = <<>> /\ records' = <<>> /\ pending' = records /\ exported' = exported
    BY <1>5 DEF Swap, IInv, Stages
  <2>2. Buffers' /\ Stages'
    BY <1>5, <2>1 DEF Swap, application, IInv, Buffers, Stages
  <2>3. pending \o records = records /\ pending' \o records' = records
    BY <2>1 DEF IInv, Buffers
  <2>4. Conserved'
    BY <1>5, <2>1, <2>3 DEF Swap, application, IInv, Conserved
  <2> QED BY <2>2, <2>4 DEF IInv
<1>6. CASE Send
  <2> DEFINE n == Smaller(Batch, Len(pending))
  <2>1. n \in 0..Len(pending)
    BY DEF Smaller, IInv, Buffers
  <2>2. /\ exported' = exported \o SubSeq(pending, 1, n)
        /\ pending' = SubSeq(pending, n + 1, Len(pending))
        /\ UNCHANGED <<records, accepted, calls, at, stopping, stopped>>
    BY <1>6 DEF Send, Rest, application
  <2> HIDE DEF n
  <2>3. /\ SubSeq(pending, 1, n) \in Seq(Nat) /\ pending' \in Seq(Nat)
        /\ exported \o (pending \o records) = exported' \o (pending' \o records)
    <3>1. exported \in Seq(Nat) /\ pending \in Seq(Nat) /\ records \in Seq(Nat)
      BY DEF IInv, Buffers
    <3>2. /\ SubSeq(pending, 1, n) \in Seq(Nat)
          /\ SubSeq(pending, n + 1, Len(pending)) \in Seq(Nat)
          /\ exported \o (pending \o records)
               = (exported \o SubSeq(pending, 1, n)) \o (SubSeq(pending, n + 1, Len(pending)) \o records)
      BY <2>1, <3>1, SendFront, Zenon
    <3> QED BY Zenon, <2>2, <3>2
  <2>4. exported' \in Seq(Nat)
    BY <2>2, <2>3 DEF IInv, Buffers
  <2>5. Buffers'
    BY Zenon, <2>2, <2>3, <2>4 DEF IInv, Buffers
  <2>6. Stages'
    BY <1>6, <2>2 DEF Send, IInv, Stages
  <2>7. Conserved'
    BY <2>2, <2>3 DEF IInv, Conserved
  <2> QED BY <2>5, <2>6, <2>7 DEF IInv
<1> QED BY <1>1, <1>2, <1>3, <1>4, <1>5, <1>6 DEF Next, Export

\* The initial state satisfies the invariant.
LEMMA Start ==
    ASSUME Init
    PROVE  IInv
BY DEF Init, IInv, Buffers, Stages, Conserved

\* No record is lost, repeated or reordered between record and the datagrams,
\* for any capacity and datagram size.
THEOREM RecordsConserved == Spec => []Conserved
<1>1. IInv => Conserved
  BY DEF IInv
<1> QED BY <1>1, Start, Step, PTL DEF Spec

\* When the worker ends, everything record took has been put into a datagram.
THEOREM ShutdownDrains == Spec => []DrainedAtEnd
<1>1. ASSUME IInv PROVE DrainedAtEnd
  <2>1. ASSUME at = "done" PROVE exported = accepted
    <3>1. pending = <<>> /\ records = <<>>
      BY <1>1, <2>1 DEF IInv, Stages
    <3> QED BY <1>1, <3>1 DEF IInv, Conserved, Buffers
  <2> QED BY <2>1 DEF DrainedAtEnd
<1> QED BY <1>1, Start, Step, PTL DEF Spec

-----------------------------------------------------------------------------
(* ShmNic *)

CONSTANTS Ring, ShmBatch, Warmup, Packets, PipeCapacity
VARIABLES wait, slow, published, completed, ready, phase, phaseDone, armed, descriptor, frame,
          pc, outcome, round, cursor, peer, todo, done, tokens, closed

Shm == INSTANCE ShmNic WITH Batch <- ShmBatch

Moving(p) == pc[p] \in {"first", "second", "store"}

Labels == {"ready", "arm", "armed", "phase", "loop", "first", "second", "store", "notify", "idle",
           "drain", "done", "report", "reap", "exit", "kill", "end"}
Endings == {"running", "ok", "timeout", "pipe", "index", "corrupt", "worker", "killed", "crashed"}

Typed ==
    /\ published \in Int /\ completed \in Int /\ phaseDone \in 0..2
    /\ descriptor \in [0..(Ring - 1) -> Int] /\ frame \in [0..(Ring - 1) -> Int]
    /\ pc \in [Shm!Procs -> Labels] /\ outcome \in [Shm!Procs -> Endings]
    /\ round \in [Shm!Procs -> 1..2]
    /\ cursor \in [Shm!Procs -> Int] /\ peer \in [Shm!Procs -> Int]
    /\ todo \in [Shm!Procs -> Int] /\ done \in [Shm!Procs -> Int]

\* Where the counters, the cached counters and the batches stand.
Positions ==
    /\ 0 <= completed /\ completed <= published /\ published <= Shm!End(round["host"])
    /\ published = cursor["host"] /\ completed = cursor["guest"]
    /\ published - Ring <= peer["host"] /\ peer["host"] <= completed
    /\ completed <= peer["guest"] /\ peer["guest"] <= published
    /\ round["host"] <= round["guest"]
    /\ phaseDone # 0 => round["guest"] = 2

\* What a process knows of its batch ...
Within(p) ==
    /\ Moving(p) => 0 <= done[p] /\ done[p] <= todo[p]
    /\ pc[p] \in {"first", "second"} => done[p] < todo[p]
    /\ pc[p] = "store" => done[p] = todo[p]
Batches ==
    /\ Within("host") /\ Within("guest")
    /\ Moving("host") => /\ published + todo["host"] <= peer["host"] + Ring
                         /\ published + todo["host"] <= Shm!End(round["host"])
    /\ Moving("guest") => completed + todo["guest"] <= peer["guest"]

\* ... and at the end of a phase.
Reached ==
    /\ pc["host"] = "drain" => published = Shm!End(round["host"])
    /\ pc["host"] = "done" => completed = Shm!End(round["host"])
    /\ pc["host"] = "reap" => completed = Shm!Total
    /\ pc["guest"] = "report" => completed = Shm!End(round["guest"])

\* The first sequence number that is not written completely.
Written == IF Moving("host") THEN published + done["host"] ELSE published

\* Every slot that is published, or that the producer is through with, holds
\* its packet.
Filled ==
    /\ \A s \in Int : completed <= s /\ s < Written =>
          descriptor[Shm!Index(s)] = s /\ frame[Shm!Index(s)] = s
    /\ pc["host"] = "second" => frame[Shm!Index(Shm!Sequence("host"))] = Shm!Sequence("host")

Outcomes ==
    /\ Shm!NoFalseAlarm
    /\ \A p \in Shm!Procs : outcome[p] = "ok" => pc[p] = "end"

ShmInv == Typed /\ Positions /\ Batches /\ Reached /\ Filled /\ Outcomes

-----------------------------------------------------------------------------
(* The ring *)

\* Layout::index stays in the ring.
LEMMA IndexInRing ==
    ASSUME Shm!ShmAssumption, NEW s \in Int PROVE Shm!Index(s) \in 0..(Ring - 1)
BY DEF Shm!ShmAssumption, Shm!Index

\* Sequence numbers less than a ring apart have slots of their own.
LEMMA IndexSeparates ==
    ASSUME Shm!ShmAssumption, NEW s \in Int, NEW t \in Int, t < s, s - t < Ring
    PROVE  Shm!Index(s) # Shm!Index(t)
<1> DEFINE a == s \div Ring
           b == t \div Ring
<1>1. Ring \in Int /\ Ring > 0 BY DEF Shm!ShmAssumption
<1>2. a \in Int /\ b \in Int BY <1>1
<1>3. s = Ring * a + (s % Ring) /\ t = Ring * b + (t % Ring) BY <1>1
<1>4. SUFFICES ASSUME s % Ring = t % Ring PROVE FALSE BY DEF Shm!Index
<1>5. s - t = Ring * a - Ring * b BY <1>1, <1>2, <1>3, <1>4
<1>6. s - t = Ring * (a - b)
  <2>1. Ring * (a - b) = Ring * a - Ring * b BY <1>1, <1>2
  <2> QED BY <2>1, <1>5
<1> HIDE DEF a, b
<1>7. CASE a - b <= 0
  <2>1. Ring * (a - b) <= 0 BY <1>1, <1>2, <1>7
  <2> QED BY <2>1, <1>6
<1>8. CASE a - b >= 1
  <2>1. Ring * (a - b) >= Ring BY <1>1, <1>2, <1>8
  <2> QED BY <2>1, <1>6, <1>1
<1> QED BY <1>2, <1>7, <1>8

-----------------------------------------------------------------------------
(* The invariant *)

\* The zeroed mapping satisfies the invariant.
LEMMA InitShm == ASSUME Shm!ShmAssumption, Shm!Init PROVE ShmInv
<1> USE DEF Shm!Init
<1>1. Typed
  <2>1. Shm!Empty \in Int BY DEF Shm!Empty
  <2>2. descriptor \in [0..(Ring - 1) -> Int] /\ frame \in [0..(Ring - 1) -> Int] BY <2>1
  <2>3. pc \in [Shm!Procs -> Labels] /\ outcome \in [Shm!Procs -> Endings]
    BY DEF Labels, Endings
  <2> QED BY <2>2, <2>3 DEF Typed
<1>2. Positions /\ Batches /\ Reached /\ Filled /\ Outcomes
  BY DEF Positions, Batches, Within, Reached, Filled, Outcomes, Shm!NoFalseAlarm, Written, Moving, Shm!Procs,
         Shm!End, Shm!ShmAssumption
<1> QED BY <1>1, <1>2 DEF ShmInv

\* A step that only moves program counters, into no batch.
Stays ==
    /\ UNCHANGED <<published, completed, phaseDone, Shm!slots, round, Shm!batch>>
    /\ pc' \in [Shm!Procs -> Labels] /\ outcome' \in [Shm!Procs -> Endings]
    /\ \A p \in Shm!Procs : Moving(p)' => Moving(p) /\ (pc[p] = "store" <=> pc'[p] = "store")
    /\ pc'["host"] = "second" => pc["host"] = "second"

\* Such a step of main, worker or run keeps what the invariant says of the ring.
LEMMA StaysInvariant ==
    ASSUME Shm!ShmAssumption, ShmInv, Stays, Reached', Outcomes' PROVE ShmInv'
<1> USE DEF ShmInv, Stays, Shm!slots, Shm!batch
<1>1. Typed' BY DEF Typed
<1>2. Positions' BY DEF Positions, Shm!End
<1>3. Batches' BY DEF Batches, Within, Moving, Shm!Procs, Shm!End
<1>4. Filled'
  <2>1. Written' \in Int /\ Written \in Int /\ Written' <= Written
    BY DEF Written, Typed, Batches, Within, Shm!Procs
  <2> QED BY <2>1 DEF Filled, Shm!Index, Shm!Sequence, Typed, Shm!Procs
<1> QED BY <1>1, <1>2, <1>3, <1>4

\* The start of the processes and of a phase
LEMMA HandshakeInvariant ==
    ASSUME Shm!ShmAssumption, ShmInv,
           Shm!HostReady \/ Shm!SeeArmed \/ Shm!StartPhase \/ Shm!WorkerReady \/ Shm!Arm \/ Shm!SeePhase
    PROVE  ShmInv'
<1> USE DEF ShmInv, Typed, Shm!Procs, Shm!Goto, Shm!HostReady, Shm!SeeArmed, Shm!StartPhase, Shm!WorkerReady, Shm!Arm, Shm!SeePhase
<1>1. Stays BY DEF Stays, Moving, Labels, Endings, Shm!control, Shm!slots, Shm!batch
<1>2. Reached' BY DEF Reached, Shm!control, Shm!slots, Shm!batch, Shm!End, Shm!Total
<1>3. Outcomes' BY DEF Outcomes, Shm!NoFalseAlarm, Shm!control, Endings
<1> QED BY Zenon, <1>1, <1>2, <1>3, StaysInvariant

\* The end of the processes
LEMMA EndInvariant ==
    ASSUME Shm!ShmAssumption, ShmInv, Shm!WorkerExit \/ Shm!Reap \/ Shm!KillWorker PROVE ShmInv'
<1> USE DEF ShmInv, Typed, Shm!Procs, Shm!Fail, Shm!WorkerExit, Shm!Reap, Shm!KillWorker, Reached
<1>1. Stays BY DEF Stays, Moving, Labels, Endings, Shm!control, Shm!slots, Shm!batch
<1>2. Reached' BY DEF Reached, Shm!control, Shm!slots, Shm!batch, Shm!End, Shm!Total
<1>3. Outcomes' BY DEF Outcomes, Shm!NoFalseAlarm, Shm!control, Endings
<1> QED BY Zenon, <1>1, <1>2, <1>3, StaysInvariant

\* The end of a phase
LEMMA LeaveInvariant ==
    ASSUME Shm!ShmAssumption, ShmInv, NEW p \in Shm!Procs, Shm!Leave(p) \/ (p = "host" /\ Shm!Drain) PROVE ShmInv'
<1> USE DEF ShmInv, Typed, Shm!Procs, Shm!Goto, Shm!Leave, Shm!Drain, Positions
<1>1. Stays BY DEF Stays, Moving, Labels, Endings, Shm!control, Shm!slots, Shm!batch
<1>2. Reached' BY DEF Reached, Shm!control, Shm!slots, Shm!batch, Shm!End, Shm!Total
<1>3. Outcomes' BY DEF Outcomes, Shm!NoFalseAlarm, Shm!control, Endings
<1> QED BY <1>1, <1>2, <1>3, StaysInvariant

\* Notifications and waiting
LEMMA BellInvariant ==
    ASSUME Shm!ShmAssumption, ShmInv, NEW p \in Shm!Procs, Shm!Notify(p) \/ Shm!Idle(p) PROVE ShmInv'
<1> USE DEF ShmInv, Typed, Shm!Procs, Shm!Goto, Shm!Fail, Shm!Notify, Shm!Idle, Shm!AfterIdle, Positions
<1>1. Stays BY DEF Stays, Moving, Labels, Endings, Shm!control, Shm!slots, Shm!batch
<1>2. Reached' BY DEF Reached, Shm!control, Shm!slots, Shm!batch, Shm!End, Shm!Total
<1>3. Outcomes' BY DEF Outcomes, Shm!NoFalseAlarm, Shm!control, Endings
<1> QED BY <1>1, <1>2, <1>3, StaysInvariant

\* Time-outs and crashes
LEMMA FaultInvariant ==
    ASSUME Shm!ShmAssumption, ShmInv, NEW p \in Shm!Procs, Shm!TimeOut(p) \/ Shm!Crash(p) PROVE ShmInv'
<1> USE DEF ShmInv, Typed, Shm!Procs, Shm!Fail, Shm!TimeOut, Shm!Crash, Shm!Blocked
<1>1. Stays BY DEF Stays, Moving, Labels, Endings, Shm!control, Shm!slots, Shm!batch
<1>2. Reached' BY DEF Reached, Shm!control, Shm!slots, Shm!batch, Shm!End, Shm!Total
<1>3. Outcomes' BY DEF Outcomes, Shm!NoFalseAlarm, Shm!control, Endings
<1> QED BY <1>1, <1>2, <1>3, StaysInvariant

\* ReadDescriptor accepts the descriptor: the slot is filled.
LEMMA ReadDescriptorInvariant ==
    ASSUME Shm!ShmAssumption, ShmInv, Shm!ReadDescriptor PROVE ShmInv'
<1> USE DEF ShmInv, Typed, Shm!Procs, Shm!Goto, Shm!ReadDescriptor
<1>1. /\ Shm!Sequence("guest") \in Int
      /\ completed <= Shm!Sequence("guest") /\ Shm!Sequence("guest") < Written
  BY DEF Shm!Sequence, Written, Batches, Within, Positions, Moving
<1>2. descriptor[Shm!Index(Shm!Sequence("guest"))] = Shm!Sequence("guest") BY <1>1 DEF Filled
<1>3. Stays BY <1>2 DEF Stays, Moving, Labels, Endings, Shm!control, Shm!slots, Shm!batch
<1>4. Reached' BY <1>2 DEF Reached, Shm!control, Shm!batch, Shm!End, Shm!Total
<1>5. Outcomes' BY <1>2 DEF Outcomes, Shm!NoFalseAlarm, Shm!control, Endings
<1> QED BY <1>3, <1>4, <1>5, StaysInvariant

\* ReadFrame accepts the frame, and the consumer is one packet further.
LEMMA ReadFrameInvariant ==
    ASSUME Shm!ShmAssumption, ShmInv, Shm!ReadFrame PROVE ShmInv'
<1> USE DEF ShmInv, Typed, Shm!Procs, Shm!Goto, Shm!NextPacket, Shm!ReadFrame
<1>1. /\ Shm!Sequence("guest") \in Int
      /\ completed <= Shm!Sequence("guest") /\ Shm!Sequence("guest") < Written
  BY DEF Shm!Sequence, Written, Batches, Within, Positions, Moving
<1>2. frame[Shm!Index(Shm!Sequence("guest"))] = Shm!Sequence("guest") BY <1>1 DEF Filled
<1>3. Typed' BY <1>2 DEF Labels, Endings, Shm!control, Shm!slots
<1>4. Positions' BY <1>2 DEF Positions, Shm!control, Shm!End
<1>5. Batches' BY <1>2 DEF Batches, Within, Moving, Shm!control, Shm!End
<1>6. Reached' BY <1>2 DEF Reached, Shm!control, Shm!End, Shm!Total
<1>7. Filled' BY <1>2 DEF Filled, Written, Moving, Shm!control, Shm!slots, Shm!Index, Shm!Sequence
<1>8. Outcomes' BY <1>2 DEF Outcomes, Shm!NoFalseAlarm, Shm!control, Endings
<1> QED BY <1>3, <1>4, <1>5, <1>6, <1>7, <1>8

\* Load finds the peer's counter in its range and takes no more than that allows.
LEMMA HostLoadInvariant ==
    ASSUME Shm!ShmAssumption, ShmInv, Shm!Load("host") PROVE ShmInv'
<1> DEFINE seen == Shm!RefreshedPeer("host")
           available == Shm!Available("host", seen)
           n == Shm!Least(Shm!Least(available, ShmBatch), Shm!End(round["host"]) - cursor["host"])
<1>1. seen = completed \/ seen = peer["host"] BY DEF Shm!RefreshedPeer
<1>2. seen \in Int /\ published - Ring <= seen /\ seen <= completed
  BY <1>1 DEF ShmInv, Typed, Positions, Shm!ShmAssumption, Shm!Procs
<1>3. /\ Ring \in Int /\ ShmBatch \in Int /\ 0 < ShmBatch /\ Shm!End(round["host"]) \in Int
      /\ published \in Int /\ completed \in Int /\ completed <= published
      /\ published <= completed + Ring /\ cursor["host"] = published
  BY DEF ShmInv, Typed, Positions, Shm!ShmAssumption, Shm!End, Shm!Total, Shm!Procs
<1> HIDE DEF seen
<1>4. Shm!ValidIndex("host", seen) BY <1>2, <1>3 DEF Shm!ValidIndex
<1>5. available \in Int /\ 0 <= available /\ published + available = seen + Ring
  BY <1>2, <1>3 DEF Shm!Available
<1>6. cursor["host"] < Shm!End(round["host"]) /\ pc["host"] = "loop" BY DEF Shm!Load
<1>7. /\ Shm!Goto("host", IF n = 0 THEN "idle" ELSE "first")
      /\ peer' = [peer EXCEPT !["host"] = seen] /\ todo' = [todo EXCEPT !["host"] = n]
      /\ done' = [done EXCEPT !["host"] = 0] /\ UNCHANGED cursor
      /\ UNCHANGED <<Shm!control, Shm!slots, round>>
  BY <1>4 DEF Shm!Load, seen
<1> HIDE DEF available
<1>8. n \in Int /\ 0 <= n /\ n <= available /\ published + n <= Shm!End(round["host"])
  BY <1>3, <1>5, <1>6 DEF Shm!Least
<1> HIDE DEF n
<1> USE DEF ShmInv, Typed, Shm!Procs, Shm!Goto
<1>9. Typed' BY <1>2, <1>7, <1>8 DEF Labels, Endings, Shm!control, Shm!slots
<1>10. Positions' BY <1>2, <1>3, <1>7 DEF Positions, Shm!control, Shm!End
<1>11. Batches'
  <2>1. UNCHANGED <<published, completed, round, cursor>> BY <1>7 DEF Shm!control
  <2>2. /\ pc'["guest"] = pc["guest"] /\ todo'["guest"] = todo["guest"]
        /\ done'["guest"] = done["guest"] /\ peer'["guest"] = peer["guest"]
    BY <1>7
  <2>3. /\ todo'["host"] = n /\ done'["host"] = 0 /\ peer'["host"] = seen
        /\ pc'["host"] = IF n = 0 THEN "idle" ELSE "first"
    BY <1>7
  <2> QED BY <2>1, <2>2, <2>3, <1>2, <1>3, <1>5, <1>8 DEF Batches, Within, Moving
<1>12. Reached' BY <1>6, <1>7 DEF Reached, Shm!control, Shm!End, Shm!Total
<1>13. Filled' BY <1>6, <1>7 DEF Filled, Written, Moving, Shm!control, Shm!slots, Shm!Index, Shm!Sequence
<1>14. Outcomes' BY <1>6, <1>7 DEF Outcomes, Shm!NoFalseAlarm, Shm!control, Endings
<1> QED BY <1>9, <1>10, <1>11, <1>12, <1>13, <1>14

\* The guest's load of the producer's counter keeps it.
LEMMA GuestLoadInvariant ==
    ASSUME Shm!ShmAssumption, ShmInv, Shm!Load("guest") PROVE ShmInv'
<1> DEFINE seen == Shm!RefreshedPeer("guest")
           available == Shm!Available("guest", seen)
           n == Shm!Least(Shm!Least(available, ShmBatch), Shm!End(round["guest"]) - cursor["guest"])
<1>1. seen = published \/ seen = peer["guest"] BY DEF Shm!RefreshedPeer
<1>2. seen \in Int /\ completed <= seen /\ seen <= published
  BY <1>1 DEF ShmInv, Typed, Positions, Shm!ShmAssumption, Shm!Procs
<1>3. /\ Ring \in Int /\ ShmBatch \in Int /\ 0 < ShmBatch /\ Shm!End(round["guest"]) \in Int
      /\ published \in Int /\ completed \in Int /\ completed <= published
      /\ published <= completed + Ring /\ cursor["guest"] = completed
  BY DEF ShmInv, Typed, Positions, Shm!ShmAssumption, Shm!End, Shm!Total, Shm!Procs
<1>e. published <= Shm!End(round["guest"])
  BY DEF ShmInv, Typed, Positions, Shm!ShmAssumption, Shm!End, Shm!Total, Shm!Procs
<1> HIDE DEF seen
<1>4. Shm!ValidIndex("guest", seen) BY <1>2, <1>3, <1>e DEF Shm!ValidIndex
<1>5. available \in Int /\ 0 <= available /\ completed + available = seen
  BY <1>2, <1>3 DEF Shm!Available
<1>6. cursor["guest"] < Shm!End(round["guest"]) /\ pc["guest"] = "loop" BY DEF Shm!Load
<1>7. /\ Shm!Goto("guest", IF n = 0 THEN "idle" ELSE "first")
      /\ peer' = [peer EXCEPT !["guest"] = seen] /\ todo' = [todo EXCEPT !["guest"] = n]
      /\ done' = [done EXCEPT !["guest"] = 0] /\ UNCHANGED cursor
      /\ UNCHANGED <<Shm!control, Shm!slots, round>>
  BY <1>4 DEF Shm!Load, seen
<1> HIDE DEF available
<1>8. n \in Int /\ 0 <= n /\ n <= available /\ completed + n <= Shm!End(round["guest"])
  BY <1>3, <1>5, <1>6 DEF Shm!Least
<1> HIDE DEF n
<1> USE DEF ShmInv, Typed, Shm!Procs, Shm!Goto
<1>9. Typed' BY <1>2, <1>7, <1>8 DEF Labels, Endings, Shm!control, Shm!slots
<1>10. Positions' BY <1>2, <1>3, <1>7 DEF Positions, Shm!control, Shm!End
<1>11. Batches'
  <2>1. UNCHANGED <<published, completed, round, cursor>> BY <1>7 DEF Shm!control
  <2>2. /\ pc'["host"] = pc["host"] /\ todo'["host"] = todo["host"]
        /\ done'["host"] = done["host"] /\ peer'["host"] = peer["host"]
    BY <1>7
  <2>3. /\ todo'["guest"] = n /\ done'["guest"] = 0 /\ peer'["guest"] = seen
        /\ pc'["guest"] = IF n = 0 THEN "idle" ELSE "first"
    BY <1>7
  <2> QED BY <2>1, <2>2, <2>3, <1>2, <1>3, <1>5, <1>8 DEF Batches, Within, Moving
<1>12. Reached' BY <1>6, <1>7 DEF Reached, Shm!control, Shm!End, Shm!Total
<1>13. Filled' BY <1>6, <1>7 DEF Filled, Written, Moving, Shm!control, Shm!slots, Shm!Index, Shm!Sequence
<1>14. Outcomes' BY <1>6, <1>7 DEF Outcomes, Shm!NoFalseAlarm, Shm!control, Endings
<1> QED BY Zenon, <1>9, <1>10, <1>11, <1>12, <1>13, <1>14

\* The worker reports a phase; its next position is where it stands.
LEMMA WorkerPhaseDoneInvariant ==
    ASSUME Shm!ShmAssumption, ShmInv, Shm!WorkerPhaseDone PROVE ShmInv'
<1> USE DEF ShmInv, Typed, Shm!Procs, Shm!ShmAssumption, Shm!Goto, Shm!WorkerPhaseDone, Shm!NextRound, Shm!Start, Shm!End, Shm!batch
<1>a. round["guest"] = 1 \/ round["guest"] = 2 OBVIOUS
<1>1. Typed'
  <2>1. CASE round["guest"] = 1 BY <2>1 DEF Labels, Endings, Shm!slots
  <2>2. CASE round["guest"] = 2 BY <2>2 DEF Labels, Endings, Shm!slots
  <2> QED BY Zenon, <1>a, <2>1, <2>2
<1>2. Positions'
  <2>1. CASE round["guest"] = 1
    <3>1. /\ completed = Warmup /\ cursor'["guest"] = Warmup /\ peer'["guest"] = Warmup
          /\ round'["guest"] = 2 /\ phaseDone' = 1
          /\ cursor'["host"] = cursor["host"] /\ peer'["host"] = peer["host"]
          /\ round'["host"] = round["host"] /\ UNCHANGED <<published, completed>>
      BY <2>1 DEF Reached
    <3>2. round["host"] \in 1..2 /\ published \in Int /\ completed \in Int OBVIOUS
    <3> HIDE DEF Shm!WorkerPhaseDone, Shm!NextRound, Typed, Shm!Goto, Shm!ShmAssumption
    <3> QED BY <3>1, <3>2 DEF Positions
  <2>2. CASE round["guest"] = 2 BY <2>2 DEF Positions, Reached
  <2> QED BY <1>a, <2>1, <2>2
<1>3. Batches' BY Zenon DEF Batches, Within, Moving
<1>4. Reached' BY DEF Reached, Shm!Total
<1>5. Filled' BY ZenonT(60) DEF Filled, Written, Moving, Shm!slots, Shm!Index, Shm!Sequence
<1>6. Outcomes' BY DEF Outcomes, Shm!NoFalseAlarm, Endings
<1> QED BY Zenon, <1>1, <1>2, <1>3, <1>4, <1>5, <1>6

\* The host has seen the report, so the worker is in the second phase.
LEMMA HostPhaseDoneInvariant ==
    ASSUME Shm!ShmAssumption, ShmInv, Shm!HostPhaseDone PROVE ShmInv'
<1> USE DEF ShmInv, Typed, Shm!Procs, Shm!ShmAssumption, Shm!Goto, Shm!HostPhaseDone, Shm!NextRound, Shm!Start, Shm!End, Shm!batch,
            Shm!control
<1>a. round["host"] = 1 \/ round["host"] = 2 OBVIOUS
<1>1. Typed'
  <2>1. CASE round["host"] = 1 BY <2>1 DEF Labels, Endings, Shm!slots
  <2>2. CASE round["host"] = 2 BY <2>2 DEF Labels, Endings, Shm!slots
  <2> QED BY Zenon, <1>a, <2>1, <2>2
<1>2. Positions'
  <2>1. CASE round["host"] = 1 BY <2>1 DEF Positions, Reached, Shm!Total
  <2>2. CASE round["host"] = 2 BY <2>2 DEF Positions, Reached, Shm!Total
  <2> QED BY <1>a, <2>1, <2>2
<1>3. Batches' BY ZenonT(60) DEF Batches, Within, Moving
<1>4. Reached' BY DEF Reached, Shm!Total
<1>5. Filled' BY Zenon DEF Filled, Written, Moving, Shm!slots, Shm!Index, Shm!Sequence
<1>6. Outcomes' BY DEF Outcomes, Shm!NoFalseAlarm, Endings
<1> QED BY Zenon, <1>1, <1>2, <1>3, <1>4, <1>5, <1>6

\* The slot a producer writes is not one that is filled.
LEMMA NextSlotFree ==
    ASSUME Shm!ShmAssumption, ShmInv, pc["host"] \in {"first", "second"}
    PROVE  /\ Written = Shm!Sequence("host") /\ Written \in Int /\ Shm!Index(Written) \in 0..(Ring - 1)
           /\ \A s \in Int : completed <= s /\ s < Written => Shm!Index(s) # Shm!Index(Written)
<1>a. /\ published \in Int /\ completed \in Int /\ Ring \in Int /\ peer["host"] \in Int
      /\ done["host"] \in Int /\ todo["host"] \in Int /\ done["host"] < todo["host"]
      /\ published + todo["host"] <= peer["host"] + Ring /\ peer["host"] <= completed
      /\ published = cursor["host"] /\ Moving("host")
  BY DEF ShmInv, Typed, Positions, Batches, Within, Moving, Shm!Procs, Shm!ShmAssumption
<1>1. Written = Shm!Sequence("host") /\ Written \in Int /\ Written < completed + Ring
  BY <1>a DEF Written, Shm!Sequence
<1>2. ASSUME NEW s \in Int, completed <= s, s < Written PROVE Shm!Index(s) # Shm!Index(Written)
  <2>1. Written - s < Ring BY <1>1, <1>2 DEF ShmInv, Typed, Shm!ShmAssumption
  <2> QED BY <2>1, <1>1, <1>2, IndexSeparates
<1> QED BY <1>1, <1>2, IndexInRing

\* The producer writes a frame over a slot that is free.
LEMMA WriteFrameInvariant ==
    ASSUME Shm!ShmAssumption, ShmInv, Shm!WriteFrame PROVE ShmInv'
<1> USE DEF ShmInv, Typed, Shm!Procs, Shm!Goto, Shm!WriteFrame, Shm!control, Shm!batch
<1>1. /\ Written = Shm!Sequence("host") /\ Written \in Int /\ Shm!Index(Written) \in 0..(Ring - 1)
      /\ \A s \in Int : completed <= s /\ s < Written => Shm!Index(s) # Shm!Index(Written)
  BY NextSlotFree
<1>2. Typed' BY <1>1 DEF Labels, Endings
<1>3. Positions' BY DEF Positions, Shm!End
<1>4. Batches' BY DEF Batches, Within, Moving, Shm!End
<1>5. Reached' BY DEF Reached, Shm!End, Shm!Total
<1>6. Filled'
  <2>1. Written' = Written /\ Shm!Sequence("host")' = Shm!Sequence("host")
    BY DEF Written, Moving, Shm!Sequence
  <2>2. \A s \in Int : completed <= s /\ s < Written =>
            descriptor[Shm!Index(s)] = s /\ frame'[Shm!Index(s)] = s
    BY <1>1, IndexInRing DEF Filled
  <2>3. frame'[Shm!Index(Written)] = Written BY <1>1
  <2> QED BY <1>1, <2>1, <2>2, <2>3 DEF Filled, Shm!Index
<1>7. Outcomes' BY DEF Outcomes, Shm!NoFalseAlarm, Endings
<1> QED BY <1>2, <1>3, <1>4, <1>5, <1>6, <1>7

\* With its descriptor the slot is filled.
LEMMA WriteDescriptorInvariant ==
    ASSUME Shm!ShmAssumption, ShmInv, Shm!WriteDescriptor PROVE ShmInv'
<1> USE DEF ShmInv, Typed, Shm!Procs, Shm!Goto, Shm!NextPacket, Shm!WriteDescriptor, Shm!control
<1>1. /\ Written = Shm!Sequence("host") /\ Written \in Int /\ Shm!Index(Written) \in 0..(Ring - 1)
      /\ \A s \in Int : completed <= s /\ s < Written => Shm!Index(s) # Shm!Index(Written)
  BY NextSlotFree
<1>2. Typed' BY <1>1 DEF Labels, Endings
<1>3. Positions' BY DEF Positions, Shm!End
<1>4. Batches' BY DEF Batches, Within, Moving, Shm!End
<1>5. Reached' BY DEF Reached, Shm!End, Shm!Total
<1>6. Filled'
  <2>1. Written' = Written + 1 /\ pc'["host"] # "second" BY DEF Written, Moving
  <2>2. \A s \in Int : completed <= s /\ s < Written =>
            descriptor'[Shm!Index(s)] = s /\ frame[Shm!Index(s)] = s
    BY <1>1, IndexInRing DEF Filled
  <2>3. descriptor'[Shm!Index(Written)] = Written /\ frame[Shm!Index(Written)] = Written
    BY <1>1 DEF Filled
  <2>4. \A s \in Int : s < Written + 1 => s < Written \/ s = Written BY <1>1
  <2> QED BY <2>1, <2>2, <2>3, <2>4 DEF Filled, Shm!Index
<1>7. Outcomes' BY DEF Outcomes, Shm!NoFalseAlarm, Endings
<1> QED BY <1>2, <1>3, <1>4, <1>5, <1>6, <1>7

\* The producer's store publishes exactly what is written.
LEMMA HostStoreInvariant ==
    ASSUME Shm!ShmAssumption, ShmInv, Shm!Store("host") PROVE ShmInv'
<1> USE DEF ShmInv, Typed, Shm!Procs, Shm!Goto, Shm!Store
<1>0. /\ published' = published + todo["host"] /\ published' \in Int /\ published <= published'
      /\ published' <= peer["host"] + Ring /\ published' <= Shm!End(round["host"])
      /\ UNCHANGED <<completed, round, peer, phaseDone>>
      /\ cursor'["host"] = published' /\ cursor'["guest"] = cursor["guest"]
  BY DEF Positions, Batches, Within, Moving
<1>1. Typed' BY <1>0 DEF Labels, Endings, Shm!slots
<1>2. Positions'
  <2>1. /\ published \in Int /\ completed \in Int /\ Ring \in Int
        /\ peer["host"] \in Int /\ peer["guest"] \in Int
    BY DEF Shm!ShmAssumption
  <2> HIDE DEF Shm!Store, Typed, Shm!Goto
  <2> QED BY <1>0, <2>1 DEF Positions, Shm!End
<1>3. Batches' BY DEF Batches, Within, Moving, Shm!End
<1>4. Reached' BY DEF Reached, Shm!End, Shm!Total
<1>5. Filled'
  <2>1. Written' = Written /\ pc'["host"] # "second" BY DEF Written, Moving, Batches, Within, Positions
  <2> QED BY <2>1 DEF Filled, Shm!slots, Shm!Index
<1>6. Outcomes' BY DEF Outcomes, Shm!NoFalseAlarm, Endings
<1> QED BY <1>1, <1>2, <1>3, <1>4, <1>5, <1>6

\* The consumer's store gives back only slots that were published.
LEMMA GuestStoreInvariant ==
    ASSUME Shm!ShmAssumption, ShmInv, Shm!Store("guest") PROVE ShmInv'
<1> USE DEF ShmInv, Typed, Shm!Procs, Shm!Goto, Shm!Store
<1>1. /\ completed' \in Int /\ completed <= completed' /\ completed' <= peer["guest"]
      /\ UNCHANGED <<published, round, peer, phaseDone, descriptor, frame>>
      /\ pc'["host"] = pc["host"] /\ cursor'["host"] = cursor["host"]
      /\ cursor'["guest"] = completed'
  BY DEF Batches, Within, Moving, Positions, Shm!slots
<1>2. Typed' BY <1>1 DEF Labels, Endings
<1>3. Positions' BY <1>1 DEF Positions, Shm!End
<1>4. Batches' BY <1>1 DEF Batches, Within, Moving, Shm!End
<1>5. Reached'
  <2>1. completed' <= published /\ published <= Shm!End(round["host"]) BY <1>1 DEF Positions
  <2>2. Shm!End(round["host"]) \in Int /\ Shm!End(round["host"]) <= Shm!Total /\ Shm!Total \in Int
    BY DEF Shm!End, Shm!Total, Shm!ShmAssumption
  <2>3. /\ pc["host"] = "done" => completed' = Shm!End(round["host"])
        /\ pc["host"] = "reap" => completed' = Shm!Total
    BY <1>1, <2>1, <2>2 DEF Reached
  <2>4. pc'["guest"] = "notify" /\ pc'["host"] = pc["host"] BY <1>1
  <2> HIDE DEF Shm!Store, Typed, Shm!Goto
  <2> QED BY <1>1, <2>3, <2>4 DEF Reached, Shm!End
<1>6. Filled'
  <2>1. Written' = Written /\ Shm!Sequence("host")' = Shm!Sequence("host")
    BY <1>1 DEF Written, Moving, Shm!Sequence
  <2> QED BY <1>1, <2>1 DEF Filled, Shm!Index
<1>7. Outcomes' BY <1>1 DEF Outcomes, Shm!NoFalseAlarm, Endings
<1> QED BY <1>2, <1>3, <1>4, <1>5, <1>6, <1>7

\* Every step of either process keeps the invariant.
LEMMA NextShm ==
    ASSUME Shm!ShmAssumption, ShmInv, [Shm!Next]_(Shm!vars) PROVE ShmInv'
<1>h. "host" \in Shm!Procs /\ "guest" \in Shm!Procs BY DEF Shm!Procs
<1>1. CASE Shm!HostStep
  <2>1. CASE Shm!Run("host")
    BY <1>h, <2>1, HostLoadInvariant, HostStoreInvariant, LeaveInvariant, BellInvariant DEF Shm!Run
  <2>2. CASE Shm!Drain BY <1>h, <2>2, LeaveInvariant
  <2> QED
    BY <1>1, <2>1, <2>2, HandshakeInvariant, HostPhaseDoneInvariant, EndInvariant,
       WriteFrameInvariant, WriteDescriptorInvariant DEF Shm!HostStep
<1>2. CASE Shm!GuestStep
  <2>1. CASE Shm!Run("guest")
    BY <1>h, <2>1, GuestLoadInvariant, GuestStoreInvariant, LeaveInvariant, BellInvariant DEF Shm!Run
  <2> QED
    BY <1>2, <2>1, HandshakeInvariant, WorkerPhaseDoneInvariant, EndInvariant,
       ReadDescriptorInvariant, ReadFrameInvariant DEF Shm!GuestStep
<1>3. CASE \E p \in Shm!Procs : Shm!TimeOut(p) \/ Shm!Crash(p) BY <1>3, FaultInvariant
<1>4. CASE UNCHANGED Shm!vars
  <2> USE <1>4 DEF Shm!vars, Shm!control, Shm!slots, Shm!batch
  <2>1. Stays BY DEF Stays, ShmInv, Typed, Moving
  <2>2. Reached' BY DEF ShmInv, Reached, Shm!End
  <2>3. Outcomes' BY DEF ShmInv, Outcomes, Shm!NoFalseAlarm
  <2> QED BY <2>1, <2>2, <2>3, StaysInvariant
<1> QED BY <1>1, <1>2, <1>3, <1>4 DEF Shm!Next, Shm!Ended

\* What the producer holds is less than a ring ahead of what the consumer holds.
LEMMA HeldApart ==
    ASSUME Shm!ShmAssumption, ShmInv PROVE Shm!NoSlotRace
<1> SUFFICES ASSUME NEW k, k \in Shm!SlotsHeld("host"), k \in Shm!SlotsHeld("guest") PROVE FALSE
  BY Zenon DEF Shm!NoSlotRace
<1>a. pc["host"] \in {"first", "second"} /\ pc["guest"] \in {"first", "second"} BY DEF Shm!SlotsHeld
<1>b. PICK s \in Shm!Sequence("host")..(cursor["host"] + todo["host"] - 1) : k = Shm!Index(s)
  BY <1>a DEF Shm!SlotsHeld
<1>c. PICK t \in Shm!Sequence("guest")..(cursor["guest"] + todo["guest"] - 1) : k = Shm!Index(t)
  BY <1>a DEF Shm!SlotsHeld
<1>d. /\ published \in Int /\ completed \in Int /\ Ring \in Int
      /\ todo["host"] \in Int /\ todo["guest"] \in Int
      /\ done["host"] \in Int /\ done["guest"] \in Int
      /\ peer["host"] \in Int /\ peer["guest"] \in Int
  BY DEF ShmInv, Typed, Shm!Procs, Shm!ShmAssumption
<1>e. /\ cursor["host"] = published /\ cursor["guest"] = completed
      /\ peer["host"] <= completed /\ peer["guest"] <= published
  BY DEF ShmInv, Positions
<1>1. /\ 0 <= done["host"] /\ 0 <= done["guest"]
      /\ published + todo["host"] <= peer["host"] + Ring
      /\ completed + todo["guest"] <= peer["guest"]
  BY <1>a DEF ShmInv, Batches, Within, Moving
<1>2. s \in Int /\ t \in Int /\ t < s /\ s - t < Ring BY <1>d, <1>e, <1>1 DEF Shm!Sequence
<1> QED BY Zenon, <1>b, <1>c, <1>2, IndexSeparates

-----------------------------------------------------------------------------
(* The theorem about the two processes *)

\* For every ring, batch and number of packets, and whenever either process
\* is killed or times out: the producer of `run` never writes a slot of a
\* batch that the consumer is reading, the index checks and the validation of
\* `run` never reject what the other process did, and the parent succeeds only
\* after every packet was validated.
THEOREM ProcessesNeverInterfere == ASSUME Shm!ShmAssumption PROVE Shm!Spec => []Shm!SharedSlots
<1>1. Shm!Init => ShmInv BY InitShm
<1>2. ShmInv /\ [Shm!Next]_(Shm!vars) => ShmInv' BY NextShm
<1>3. ShmInv => Shm!SharedSlots BY HeldApart DEF ShmInv, Outcomes, Shm!SharedSlots
<1> QED BY <1>1, <1>2, <1>3, PTL DEF Shm!Spec

=============================================================================
