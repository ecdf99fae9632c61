------------------------- MODULE UringDeviceProofs -------------------------
(***************************************************************************)
(* Proofs about UringDevice for any number of ids and frames: a frame      *)
(* whose address the kernel was given stays in the pending table, and out  *)
(* of every other hand, until its completion is reaped.                    *)
(***************************************************************************)
EXTENDS UringDevice, SequenceTheorems, TLAPS

Completions == [id : Ids, result : {"ok", "again", "error"}]

\* The requests the kernel has not taken, in order
Queued == sq \o sqLocal

Typed ==
    /\ pool \subseteq Frames /\ app \subseteq Frames /\ ready \subseteq Frames
    /\ pending \in [Ids -> Frames \cup {NoFrame}] /\ free \subseteq Ids
    /\ sqLocal \in Seq(Requests) /\ sq \in Seq(Requests) /\ kernel \subseteq Requests
    /\ cq \in Seq(Completions) /\ open \in BOOLEAN

\* Between calls nothing is under way, and a closed device has no calls.
Calls ==
    /\ call = "none" => at = "start"
    /\ ~open => call = "none"

\* A frame has one holder: the pool, the application, the received packets or an id.
Apart ==
    /\ free = {i \in Ids : pending[i] = NoFrame}
    /\ \A i, j \in Ids : i # j /\ pending[i] # NoFrame => pending[i] # pending[j]
    /\ \A i \in Ids : pending[i] \notin pool \cup app \cup ready
    /\ pool \cap app = {} /\ ready \cap (pool \cup app) = {}

\* A request is in one place, under an id of its own.
Once ==
    /\ \A a, b \in 1..Len(Queued) : Queued[a] = Queued[b] => a = b
    /\ Elements(Queued) \cap kernel = {}
    /\ \A r, s \in Elements(Queued) \cup kernel : r.id = s.id => r = s

\* The table knows it until its completion is reaped.
Known ==
    open => /\ \A r \in Elements(Queued) \cup kernel : pending[r.id] = r.frame /\ r.id \notin Done
            /\ \A i \in Done : pending[i] # NoFrame

\* What the kernel still has after a close stays out of every hand.
Quarantined ==
    ~open => /\ Elements(Queued) = {} /\ Done = {}
             /\ \A r \in kernel : r.frame \notin pool \cup app \cup ready

IInv == Typed /\ Calls /\ Apart /\ Once /\ Known /\ Quarantined

-----------------------------------------------------------------------------
(* Sequences of requests *)

\* The elements of a sequence, and of the parts it is made of
LEMMA ElementsOf ==
    ASSUME NEW S, NEW q \in Seq(S)
    PROVE  Elements(q) = {q[k] : k \in 1..Len(q)} /\ Elements(q) \subseteq S /\ Len(q) \in Nat
BY LenProperties, ElementOfSeq DEF Elements

\* Both ends of the queue hold the requests that were not taken.
LEMMA QueuedIs ==
    ASSUME Typed
    PROVE  /\ Queued \in Seq(Requests) /\ Len(Queued) \in Nat
           /\ Elements(Queued) = {Queued[k] : k \in 1..Len(Queued)}
           /\ Elements(Queued) \subseteq Requests
           /\ Elements(Queued) = Elements(sq) \cup Elements(sqLocal)
<1>1. sq \in Seq(Requests) /\ sqLocal \in Seq(Requests) BY DEF Typed
<1>2. Len(sq) \in Nat /\ Len(sqLocal) \in Nat BY <1>1
<1>3. /\ Queued \in Seq(Requests) /\ Len(Queued) = Len(sq) + Len(sqLocal)
      /\ \A i \in 1..(Len(sq) + Len(sqLocal)) :
            Queued[i] = IF i <= Len(sq) THEN sq[i] ELSE sqLocal[i - Len(sq)]
  BY <1>1, ConcatProperties DEF Queued
<1>4. /\ Elements(Queued) = {Queued[k] : k \in 1..Len(Queued)}
      /\ Elements(Queued) \subseteq Requests
      /\ Elements(sq) = {sq[k] : k \in 1..Len(sq)}
      /\ Elements(sqLocal) = {sqLocal[k] : k \in 1..Len(sqLocal)}
  BY SMTT(60), <1>1, <1>3, ElementsOf
<1>5. ASSUME NEW r \in Elements(Queued) PROVE r \in Elements(sq) \cup Elements(sqLocal)
  <2>1. PICK k \in 1..Len(Queued) : r = Queued[k] BY <1>4
  <2>2. CASE k <= Len(sq) BY <1>2, <1>3, <1>4, <2>1, <2>2
  <2>3. CASE ~(k <= Len(sq))
    <3>1. k - Len(sq) \in 1..Len(sqLocal) BY <1>2, <1>3, <2>3
    <3> QED BY SMTT(60), <1>3, <1>4, <2>1, <2>3, <3>1
  <2> QED BY <2>2, <2>3
<1>6. Elements(sq) \subseteq Elements(Queued)
  <2>1. ASSUME NEW k \in 1..Len(sq) PROVE k \in 1..Len(Queued) /\ Queued[k] = sq[k]
    BY <1>2, <1>3
  <2> QED BY <1>4, <2>1
<1>7. Elements(sqLocal) \subseteq Elements(Queued)
  <2>1. ASSUME NEW k \in 1..Len(sqLocal)
        PROVE  Len(sq) + k \in 1..Len(Queued) /\ Queued[Len(sq) + k] = sqLocal[k]
    <3> DEFINE i == Len(sq) + k
    <3>1. i \in 1..(Len(sq) + Len(sqLocal)) /\ ~(i <= Len(sq)) /\ i - Len(sq) = k BY <1>2
    <3> HIDE DEF i
    <3>2. Queued[i] = sqLocal[i - Len(sq)] BY <1>3, <3>1
    <3>3. i \in 1..Len(Queued) /\ Queued[i] = sqLocal[k] BY <1>3, <3>1, <3>2
    <3> QED BY <3>3 DEF i
  <2> QED BY SMTT(60), <1>4, <2>1
<1>8. Len(Queued) \in Nat BY <1>2, <1>3
<1>9. Elements(Queued) = Elements(sq) \cup Elements(sqLocal) BY <1>5, <1>6, <1>7
<1> QED BY Zenon, <1>3, <1>4, <1>8, <1>9

\* The completions that wait name ids.
LEMMA DoneIds ==
    ASSUME Typed PROVE Done \subseteq Ids /\ Done = {cq[k].id : k \in 1..Len(cq)}
<1>1. cq \in Seq(Completions) BY DEF Typed
<1>2. DOMAIN cq = 1..Len(cq) /\ \A k \in 1..Len(cq) : cq[k] \in Completions
  BY <1>1, LenProperties, ElementOfSeq
<1> QED BY <1>2 DEF Done, Completions

-----------------------------------------------------------------------------
(* The invariant *)

\* An idle ring satisfies the invariant.
LEMMA InitInvariant == ASSUME UringAssumption, Init PROVE IInv
<1> USE DEF Init
<1>1. Typed BY DEF Typed
<1>2. Elements(Queued) = {} /\ Len(Queued) = 0 /\ Done = {}
  <2>1. Queued = <<>> BY ConcatEmptySeq, EmptySeq DEF Queued
  <2> QED BY <2>1 DEF Elements, Done
<1>3. Calls /\ Apart BY DEF Calls, Apart, UringAssumption
<1>4. Once /\ Known /\ Quarantined BY <1>2 DEF Once, Known, Quarantined
<1> QED BY <1>1, <1>3, <1>4 DEF IInv

\* What the parts of the invariant about requests need to stay as they are
LEMMA RequestsStay ==
    ASSUME IInv, open, open', UNCHANGED <<sq, sqLocal, kernel>>,
           \A r \in Elements(Queued) \cup kernel : pending'[r.id] = r.frame /\ r.id \notin Done',
           \A i \in Done' : pending'[i] # NoFrame
    PROVE  Once' /\ Known' /\ Quarantined'
<1>1. Queued' = Queued BY DEF Queued
<1>2. Elements(Queued)' = Elements(Queued) BY <1>1 DEF Elements
<1> QED BY <1>1, <1>2 DEF IInv, Once, Known, Quarantined

\* reap, after which recv may hand out some of the packets: a frame goes from
\* its id to the pool, the received packets or the application.
LEMMA ReapInvariant ==
    ASSUME UringAssumption, IInv, open, ReapTables,
           NEW S \in SUBSET (ready \cup FramesOf(Received)),
           app' = app \cup S, ready' = (ready \cup FramesOf(Received)) \ S,
           UNCHANGED <<sqLocal, sq, kernel, open>>, Calls'
    PROVE  IInv'
<1> DEFINE A == FramesOf(Done \ Received)
           B == FramesOf(Received)
<1>0. /\ pool' = pool \cup A /\ free' = free \cup Done /\ cq' = <<>>
      /\ pending' = [i \in Ids |-> IF i \in Done THEN NoFrame ELSE pending[i]]
  BY DEF ReapTables
<1>1. Done \subseteq Ids /\ Received \subseteq Done
  <2>1. Typed BY DEF IInv
  <2> QED BY <2>1, DoneIds DEF Received, DoneReads
<1>2. A \subseteq Frames /\ B \subseteq Frames
  BY <1>1 DEF FramesOf, IInv, Typed
<1>3. /\ A \cap B = {} /\ (A \cup B) \cap (pool \cup app \cup ready) = {}
      /\ \A i \in Ids \ Done : pending[i] \notin A \cup B
  BY <1>1 DEF FramesOf, IInv, Apart
<1>4. Done' = {} BY <1>0 DEF Done
<1> HIDE DEF A, B
<1>5. Typed'
  <2>1. pending' \in [Ids -> Frames \cup {NoFrame}] BY <1>0 DEF IInv, Typed
  <2>2. pool' \subseteq Frames /\ app' \subseteq Frames /\ ready' \subseteq Frames /\ free' \subseteq Ids
    BY <1>0, <1>1, <1>2 DEF IInv, Typed, B
  <2>3. cq' \in Seq(Completions) BY <1>0
  <2> QED BY <2>1, <2>2, <2>3 DEF IInv, Typed
<1>6. Apart'
  <2>1. free' = {i \in Ids : pending'[i] = NoFrame} BY <1>0, <1>1 DEF IInv, Apart
  <2>2. \A i, j \in Ids : i # j /\ pending'[i] # NoFrame => pending'[i] # pending'[j]
    BY <1>0 DEF IInv, Apart
  <2>3. pool' \cap app' = {} /\ ready' \cap (pool' \cup app') = {}
    BY <1>0, <1>3 DEF IInv, Apart, B
  <2>4. ASSUME NEW i \in Ids PROVE pending'[i] \notin pool' \cup app' \cup ready'
    <3>1. CASE i \in Done
      <4>1. pending'[i] = NoFrame BY <1>0, <3>1
      <4>2. NoFrame \notin pool' \cup app' \cup ready' BY <1>5 DEF Typed, UringAssumption
      <4> QED BY <4>1, <4>2
    <3>2. CASE i \notin Done
      <4>1. pending'[i] = pending[i] BY <1>0, <3>2
      <4>2. pool' \cup app' \cup ready' \subseteq pool \cup app \cup ready \cup A \cup B
        BY <1>0 DEF B
      <4> QED BY <1>3, <3>2, <4>1, <4>2 DEF IInv, Apart
    <3> QED BY <3>1, <3>2
  <2> QED BY <2>1, <2>2, <2>3, <2>4 DEF Apart
<1>7. ASSUME NEW r \in Elements(Queued) \cup kernel
      PROVE  pending'[r.id] = r.frame /\ r.id \notin Done'
  <2>1. r \in Requests /\ r.id \in Ids
    <3>1. Typed BY DEF IInv
    <3> QED BY <3>1, QueuedIs DEF Typed, Requests
  <2>2. pending[r.id] = r.frame /\ r.id \notin Done BY DEF IInv, Known
  <2> QED BY <1>0, <1>4, <2>1, <2>2
<1>8. Once' /\ Known' /\ Quarantined' BY <1>4, <1>7, RequestsStay
<1> QED BY <1>5, <1>6, <1>8 DEF IInv

\* The calls that reap: progress, recv and send at their start, in the middle
\* and at their end
LEMMA ReapingInvariant ==
    ASSUME UringAssumption, IInv, (\E c \in {"progress", "recv", "send"} : Start(c)) \/ ReapQueued \/ Finish
    PROVE  IInv'
<1>1. open
  <2>1. ASSUME ~open PROVE call = "none" /\ at = "start" BY <2>1 DEF IInv, Calls
  <2> QED BY <2>1 DEF Start, ReapQueued, Finish
<1>2. UNCHANGED <<sqLocal, sq, kernel, open>> BY DEF Start, ReapQueued, Finish
<1>3. Calls'
  <2>1. open' BY <1>1, <1>2
  <2>2. CASE \E c \in {"progress", "recv", "send"} : Start(c)
    BY <2>1, <2>2 DEF Start, Fail, IInv, Calls
  <2>3. CASE ReapQueued BY <2>1, <2>3 DEF ReapQueued, Fail, IInv, Calls
  <2>4. CASE Finish BY <2>1, <2>4 DEF Finish, Fail, Calls
  <2> QED BY <2>2, <2>3, <2>4
<1>4. PICK S \in SUBSET (ready \cup FramesOf(Received)) :
        /\ ReapTables /\ app' = app \cup S /\ ready' = (ready \cup FramesOf(Received)) \ S
  <2>1. CASE Reap /\ UNCHANGED app
    <3>1. /\ {} \in SUBSET (ready \cup FramesOf(Received)) /\ ReapTables
          /\ app' = app \cup {} /\ ready' = (ready \cup FramesOf(Received)) \ {}
      BY <2>1 DEF Reap
    <3> QED BY ZenonT(60), <3>1
  <2>2. CASE ~(Reap /\ UNCHANGED app) BY <2>2 DEF Start, ReapQueued, Finish
  <2> QED BY <2>1, <2>2
<1> QED BY <1>1, <1>2, <1>3, <1>4, ReapInvariant

\* queue: a frame moves from the pool or the application to a free id, and its
\* request to the end of the submission queue.
LEMMA QueueInvariant ==
    ASSUME UringAssumption, IInv, NEW i \in free, NEW f, NEW read \in BOOLEAN, open,
           Queue(i, f, read),
           \/ f \in pool /\ pool' = pool \ {f} /\ app' = app
           \/ f \in app /\ app' = app \ {f} /\ pool' = pool
    PROVE  IInv'
<1> DEFINE r == [id |-> i, frame |-> f, read |-> read]
<1>0. /\ free' = free \ {i} /\ pending' = [pending EXCEPT ![i] = f]
      /\ sqLocal' = Append(sqLocal, r)
      /\ UNCHANGED <<ready, call, at, sq, kernel, cq, open>>
  BY DEF Queue
<1>1. /\ i \in Ids /\ f \in Frames /\ pending[i] = NoFrame /\ f # NoFrame
      /\ \A j \in Ids : pending[j] # f
  BY DEF IInv, Typed, Apart, UringAssumption
<1>2. r \in Requests /\ r.id = i /\ r.frame = f BY <1>1 DEF Requests
<1> HIDE DEF r
<1>3. Typed'
  <2>1. sqLocal' \in Seq(Requests) BY <1>0, <1>2, AppendProperties DEF IInv, Typed
  <2>2. pending' \in [Ids -> Frames \cup {NoFrame}] BY <1>0, <1>1 DEF IInv, Typed
  <2> QED BY <1>0, <2>1, <2>2 DEF IInv, Typed
<1>4. Calls' BY <1>0 DEF IInv, Calls
<1>5. Apart'
  <2>0. \A j \in Ids : pending'[j] = IF j = i THEN f ELSE pending[j] BY <1>0 DEF IInv, Typed
  <2>1. free' = {j \in Ids : pending'[j] = NoFrame} BY <1>0, <1>1, <2>0 DEF IInv, Apart
  <2>2. \A j, k \in Ids : j # k /\ pending'[j] # NoFrame => pending'[j] # pending'[k]
    BY <1>1, <2>0 DEF IInv, Apart
  <2>3. \A j \in Ids : pending'[j] \notin pool' \cup app' \cup ready'
    BY <1>0, <2>0 DEF IInv, Apart
  <2>4. pool' \cap app' = {} /\ ready' \cap (pool' \cup app') = {} BY <1>0 DEF IInv, Apart
  <2> QED BY <2>1, <2>2, <2>3, <2>4 DEF Apart
<1>6. /\ Queued \in Seq(Requests) /\ Len(Queued) \in Nat
      /\ Elements(Queued) = {Queued[k] : k \in 1..Len(Queued)}
      /\ Elements(Queued) \subseteq Requests
  <2>1. Typed BY DEF IInv
  <2> QED BY <2>1, QueuedIs
<1>7. Queued' = Append(Queued, r)
  <2>1. sq \in Seq(Requests) /\ sqLocal \in Seq(Requests) BY DEF IInv, Typed
  <2>2. Append(sqLocal, r) = sqLocal \o <<r>> /\ Append(Queued, r) = Queued \o <<r>>
    BY <1>2, <1>6, <2>1, AppendIsConcat
  <2>3. <<r>> \in Seq(Requests) BY <1>2
  <2>4. sq \o (sqLocal \o <<r>>) = (sq \o sqLocal) \o <<r>> BY <2>1, <2>3, ConcatAssociative
  <2> QED BY SMTT(60), <1>0, <2>2, <2>4 DEF Queued
<1>8. /\ Queued' \in Seq(Requests) /\ Len(Queued') = Len(Queued) + 1
      /\ \A k \in 1..Len(Queued) : Queued'[k] = Queued[k]
      /\ Queued'[Len(Queued) + 1] = r
  BY <1>2, <1>6, <1>7, AppendProperties
<1>9. Elements(Queued)' = Elements(Queued) \cup {r}
  <2>1. Elements(Queued)' = {Queued'[k] : k \in 1..Len(Queued')}
    <3>1. Elements(Queued') = {Queued'[k] : k \in 1..Len(Queued')} BY <1>8, ElementsOf
    <3> QED BY <3>1 DEF Elements
  <2>2. \A k \in 1..Len(Queued') : k \in 1..Len(Queued) \/ k = Len(Queued) + 1 BY <1>6, <1>8
  <2>3. \A k \in 1..Len(Queued) : k \in 1..Len(Queued') BY <1>6, <1>8
  <2>4. Len(Queued) + 1 \in 1..Len(Queued') BY <1>6, <1>8
  <2> QED BY <1>6, <1>8, <2>1, <2>2, <2>3, <2>4
<1>10. \A s \in Elements(Queued) \cup kernel :
          s \in Requests /\ s.id \in Ids /\ pending[s.id] = s.frame /\ s.frame \in Frames /\ s.id # i
  <2>1. \A s \in Elements(Queued) \cup kernel : s \in Requests BY <1>6 DEF IInv, Typed
  <2>2. \A s \in Requests : s.id \in Ids /\ s.frame \in Frames BY DEF Requests
  <2> QED BY <1>1, <2>1, <2>2 DEF IInv, Known, UringAssumption
<1>11. Once'
  <2>1. r \notin Elements(Queued) \cup kernel BY <1>2, <1>10
  <2>2. ASSUME NEW a \in 1..Len(Queued'), NEW b \in 1..Len(Queued'), Queued'[a] = Queued'[b]
        PROVE  a = b
    <3>1. \A k \in 1..Len(Queued') : k \in 1..Len(Queued) \/ k = Len(Queued) + 1 BY <1>6, <1>8
    <3>2. \A k \in 1..Len(Queued) : Queued'[k] = Queued[k] /\ Queued'[k] # r BY <1>6, <1>8, <2>1
    <3>3. CASE a \in 1..Len(Queued) /\ b \in 1..Len(Queued) BY <2>2, <3>2, <3>3 DEF IInv, Once
    <3>4. CASE a = Len(Queued) + 1 \/ b = Len(Queued) + 1 BY <1>8, <2>2, <3>1, <3>2, <3>4
    <3> QED BY <3>1, <3>3, <3>4
  <2>3. Elements(Queued)' \cap kernel' = {} BY <1>0, <1>9, <2>1 DEF IInv, Once
  <2>4. \A s, t \in Elements(Queued)' \cup kernel' : s.id = t.id => s = t
    BY <1>0, <1>2, <1>9, <1>10 DEF IInv, Once
  <2> QED BY <2>2, <2>3, <2>4 DEF Once
<1>12. Known'
  <2>1. Done' = Done /\ i \notin Done
    <3>1. Done' = Done BY <1>0 DEF Done
    <3> QED BY <1>1, <3>1 DEF IInv, Known
  <2>2. \A j \in Ids : pending'[j] = IF j = i THEN f ELSE pending[j] BY <1>0 DEF IInv, Typed
  <2>3. \A s \in Elements(Queued)' \cup kernel' : pending'[s.id] = s.frame /\ s.id \notin Done'
    BY <1>0, <1>1, <1>2, <1>9, <1>10, <2>1, <2>2 DEF IInv, Known
  <2>4. Done \subseteq Ids
    <3>1. Typed BY DEF IInv
    <3> QED BY SMTT(60), <3>1, DoneIds
  <2>5. \A j \in Done' : pending'[j] # NoFrame BY <1>1, <2>1, <2>2, <2>4 DEF IInv, Known
  <2> QED BY <2>3, <2>5 DEF Known
<1>13. Quarantined' BY <1>0 DEF Quarantined
<1> QED BY <1>3, <1>4, <1>5, <1>11, <1>12, <1>13 DEF IInv

\* A step that moves no frame and no request
LEMMA NothingMoves ==
    ASSUME IInv, UNCHANGED <<pool, app, ready, pending, free, kernel, cq, open>>,
           Queued' = Queued, sqLocal' \in Seq(Requests), sq' \in Seq(Requests), Calls'
    PROVE  IInv'
<1>1. Elements(Queued)' = Elements(Queued) /\ Done' = Done BY DEF Elements, Done
<1>2. Typed' BY DEF IInv, Typed
<1>3. Apart' BY DEF IInv, Apart
<1>4. Once' BY <1>1 DEF IInv, Once
<1>5. Known' BY <1>1 DEF IInv, Known
<1>6. Quarantined' BY <1>1 DEF IInv, Quarantined
<1> QED BY <1>2, <1>3, <1>4, <1>5, <1>6 DEF IInv

\* The end of the queueing, a stuttering step and a refused submission, which
\* leaves every request in the published queue
LEMMA StillInvariant ==
    ASSUME IInv, QueueDone \/ SubmitFails \/ UNCHANGED vars
    PROVE  IInv'
<1>0. UNCHANGED <<pool, app, ready, pending, free, kernel, cq, open>>
  BY DEF QueueDone, SubmitFails, vars, tables
<1>1. sq \in Seq(Requests) /\ sqLocal \in Seq(Requests) BY DEF IInv, Typed
<1>2. Queued \in Seq(Requests) BY <1>1, ConcatProperties DEF Queued
<1>3. Queued' = Queued /\ sqLocal' \in Seq(Requests) /\ sq' \in Seq(Requests)
  <2>1. CASE SubmitFails
    <3>1. sq' = Queued /\ sqLocal' = <<>> BY <2>1 DEF SubmitFails, Queued
    <3>2. Queued \o <<>> = Queued BY <1>2, ConcatEmptySeq
    <3>3. Queued' = sq' \o sqLocal' BY DEF Queued
    <3> QED BY <1>2, <3>1, <3>2, <3>3
  <2>2. CASE QueueDone \/ UNCHANGED vars
    <3>1. sq' = sq /\ sqLocal' = sqLocal BY <2>2 DEF QueueDone, vars
    <3> QED BY <1>1, <3>1 DEF Queued
  <2> QED BY <2>1, <2>2
<1>4. Calls'
  <2>1. CASE SubmitFails BY <2>1 DEF SubmitFails, Fail, Calls
  <2>2. CASE QueueDone BY <2>2 DEF QueueDone, IInv, Calls
  <2>3. CASE UNCHANGED vars BY <2>3 DEF vars, IInv, Calls
  <2> QED BY <2>1, <2>2, <2>3
<1> QED BY <1>0, <1>3, <1>4, NothingMoves

\* A queue cut in two
LEMMA Split ==
    ASSUME NEW S, NEW q \in Seq(S), NEW k \in 0..Len(q)
    PROVE  /\ SubSeq(q, k + 1, Len(q)) \in Seq(S)
           /\ Len(SubSeq(q, k + 1, Len(q))) = Len(q) - k
           /\ \A a \in 1..(Len(q) - k) : SubSeq(q, k + 1, Len(q))[a] = q[k + a]
           /\ Elements(SubSeq(q, 1, k)) = {q[a] : a \in 1..k}
           /\ Elements(SubSeq(q, k + 1, Len(q))) = {q[a] : a \in (k + 1)..Len(q)}
<1> DEFINE p == SubSeq(q, 1, k)
           r == SubSeq(q, k + 1, Len(q))
<1>0. Len(q) \in Nat /\ k \in Nat /\ k <= Len(q) BY LenProperties
<1>1. \A a \in 1..Len(q) : q[a] \in S BY ElementOfSeq
<1>2. /\ p \in Seq(S) /\ Len(p) = k /\ \A a \in 1..k : p[a] = q[a]
  <2>1. 1 \in Int /\ k \in Int BY <1>0
  <2>2. \A a \in 1..k : q[a] \in S BY <1>0, <1>1
  <2> QED BY <1>0, <2>1, <2>2, SubSeqProperties
<1>3. /\ r \in Seq(S) /\ Len(r) = Len(q) - k /\ \A a \in 1..(Len(q) - k) : r[a] = q[k + a]
  <2>1. k + 1 \in Int /\ Len(q) \in Int BY <1>0
  <2>2. \A a \in (k + 1)..Len(q) : q[a] \in S BY <1>0, <1>1
  <2>3. Len(r) = Len(q) - k /\ r \in Seq(S) BY <1>0, <2>1, <2>2, SubSeqProperties
  <2>4. ASSUME NEW a \in 1..(Len(q) - k) PROVE r[a] = q[k + a]
    BY <1>0, <2>1, <2>2, SubSeqProperties
  <2> QED BY <2>3, <2>4
<1> HIDE DEF p, r
<1>4. DOMAIN p = 1..k /\ DOMAIN r = 1..(Len(q) - k) BY <1>2, <1>3, LenProperties
<1>5. Elements(p) = {q[a] : a \in 1..k} BY <1>2, <1>4 DEF Elements
<1>6. Elements(r) = {q[a] : a \in (k + 1)..Len(q)}
  <2>1. \A a \in 1..(Len(q) - k) : k + a \in (k + 1)..Len(q) BY <1>0
  <2>2. \A a \in (k + 1)..Len(q) : a - k \in 1..(Len(q) - k) /\ k + (a - k) = a BY <1>0
  <2>3. ASSUME NEW x \in Elements(r) PROVE \E a \in (k + 1)..Len(q) : x = q[a]
    <3>1. PICK a \in 1..(Len(q) - k) : x = r[a] BY <1>4 DEF Elements
    <3> QED BY <1>3, <2>1, <3>1
  <2>4. ASSUME NEW a \in (k + 1)..Len(q) PROVE q[a] \in Elements(r)
    <3>1. r[a - k] = q[a] BY <1>3, <2>2
    <3> QED BY <1>4, <2>2, <3>1 DEF Elements
  <2> QED BY <2>3, <2>4
<1> QED BY <1>3, <1>5, <1>6 DEF p, r

\* submit: the kernel takes a prefix of the queue, and the rest keeps its order.
LEMMA SubmitInvariant ==
    ASSUME UringAssumption, IInv, NEW k \in 0..Len(sq \o sqLocal), SubmitTakes(k)
    PROVE  IInv'
<1> DEFINE p == SubSeq(Queued, 1, k)
           r == SubSeq(Queued, k + 1, Len(Queued))
<1>0. /\ sqLocal' = <<>> /\ sq' = r /\ kernel' = kernel \cup Elements(p)
      /\ UNCHANGED <<pool, app, ready, pending, free, call, cq, open>>
      /\ at = "submit" /\ at' = "finish"
  BY DEF SubmitTakes, Queued, tables
<1>1. /\ Queued \in Seq(Requests) /\ Len(Queued) \in Nat
      /\ Elements(Queued) = {Queued[a] : a \in 1..Len(Queued)}
      /\ Elements(Queued) \subseteq Requests
  <2>1. Typed BY DEF IInv
  <2> QED BY <2>1, QueuedIs
<1>2. k \in 0..Len(Queued) BY DEF Queued
<1>3. /\ r \in Seq(Requests) /\ Len(r) = Len(Queued) - k
      /\ \A a \in 1..(Len(Queued) - k) : r[a] = Queued[k + a]
      /\ Elements(p) = {Queued[a] : a \in 1..k}
      /\ Elements(r) = {Queued[a] : a \in (k + 1)..Len(Queued)}
  BY <1>1, <1>2, Split
<1> HIDE DEF p, r
<1>4. Queued' = r
  <2>1. Queued' = sq' \o sqLocal' BY DEF Queued
  <2>2. r \o <<>> = r BY <1>3, ConcatEmptySeq
  <2> QED BY <1>0, <2>1, <2>2
<1>5. Elements(Queued)' = Elements(r) /\ Done' = Done
  BY <1>0, <1>4 DEF Elements, Done
<1>6. k \in Nat /\ k <= Len(Queued) BY <1>1, <1>2
<1>7. Elements(p) \cup Elements(r) = Elements(Queued) /\ Elements(p) \cap Elements(r) = {}
  <2>1. \A a \in 1..Len(Queued) : a \in 1..k \/ a \in (k + 1)..Len(Queued) BY <1>1, <1>6
  <2>2. \A a \in 1..k : a \in 1..Len(Queued) BY <1>1, <1>6
  <2>3. \A a \in (k + 1)..Len(Queued) : a \in 1..Len(Queued) BY <1>1, <1>6
  <2>4. \A a \in 1..k, b \in (k + 1)..Len(Queued) : a # b BY <1>1, <1>6
  <2>5. Elements(p) \cup Elements(r) = Elements(Queued) BY <1>1, <1>3, <2>1, <2>2, <2>3
  <2>6. \A a \in 1..k, b \in (k + 1)..Len(Queued) : Queued[a] # Queued[b]
    BY <2>2, <2>3, <2>4 DEF IInv, Once
  <2>7. Elements(p) \cap Elements(r) = {} BY <1>3, <2>6
  <2> QED BY <2>5, <2>7
<1>8. Elements(Queued)' \cup kernel' = Elements(Queued) \cup kernel BY SMTT(60), <1>0, <1>5, <1>7
<1>9. Typed' BY <1>0, <1>1, <1>3, <1>7 DEF IInv, Typed
<1>10. Calls' BY <1>0 DEF IInv, Calls
<1>11. Apart' BY <1>0 DEF IInv, Apart
<1>12. Once'
  <2>1. ASSUME NEW a \in 1..Len(r), NEW b \in 1..Len(r), r[a] = r[b] PROVE a = b
    <3>1. /\ a \in Nat /\ b \in Nat /\ a \in 1..(Len(Queued) - k) /\ b \in 1..(Len(Queued) - k)
          /\ k + a \in 1..Len(Queued) /\ k + b \in 1..Len(Queued)
      BY <1>1, <1>3, <1>6
    <3>2. Queued[k + a] = Queued[k + b] BY SMTT(60), <1>3, <2>1, <3>1
    <3>3. k + a = k + b BY <3>1, <3>2 DEF IInv, Once
    <3> QED BY <1>6, <3>1, <3>3
  <2>2. Elements(Queued)' \cap kernel' = {} BY <1>0, <1>5, <1>7 DEF IInv, Once
  <2>3. \A s, t \in Elements(Queued)' \cup kernel' : s.id = t.id => s = t BY <1>8 DEF IInv, Once
  <2>4. \A a, b \in 1..Len(Queued)' : Queued'[a] = Queued'[b] => a = b BY <1>4, <2>1
  <2> QED BY <2>2, <2>3, <2>4 DEF Once
<1>13. Known' BY <1>0, <1>5, <1>8 DEF IInv, Known
<1>14. Quarantined'
  <2>1. open BY <1>0 DEF IInv, Calls
  <2> QED BY <1>0, <2>1 DEF Quarantined
<1> QED BY <1>9, <1>10, <1>11, <1>12, <1>13, <1>14 DEF IInv

\* alloc and the drop of a handle: a frame passes between pool and application.
LEMMA AppInvariant ==
    ASSUME UringAssumption, IInv, NEW f \in Frames, AppAlloc(f) \/ AppDrop(f)
    PROVE  IInv'
<1>0. /\ UNCHANGED <<ready, pending, free, call, at, sqLocal, sq, kernel, cq, open>>
      /\ \/ f \in pool /\ pool' = pool \ {f} /\ app' = app \cup {f}
         \/ f \in app /\ app' = app \ {f} /\ pool' = pool \cup {f}
  BY DEF AppAlloc, AppDrop, tables
<1>1. Queued' = Queued /\ Done' = Done BY <1>0 DEF Queued, Done
<1>2. Elements(Queued)' = Elements(Queued) BY <1>1 DEF Elements
<1>3. pool' \cup app' = pool \cup app /\ pool' \cap app' = {} BY <1>0 DEF IInv, Apart
<1>4. Typed' BY <1>0 DEF IInv, Typed
<1>5. Calls' BY SMTT(60), <1>0 DEF IInv, Calls
<1>6. Apart'
  <2>1. ready' \cap (pool' \cup app') = {} BY <1>0, <1>3 DEF IInv, Apart
  <2>2. \A i \in Ids : pending'[i] \notin pool' \cup app' \cup ready' BY <1>0, <1>3 DEF IInv, Apart
  <2> QED BY <1>0, <1>3, <2>1, <2>2 DEF IInv, Apart
<1>7. Once' BY <1>0, <1>1, <1>2 DEF IInv, Once
<1>8. Known' BY <1>0, <1>1, <1>2 DEF IInv, Known
<1>9. Quarantined' BY <1>0, <1>1, <1>2, <1>3 DEF IInv, Quarantined
<1> QED BY SMTT(60), <1>4, <1>5, <1>6, <1>7, <1>8, <1>9 DEF IInv

\* Drop: the buffers return to the pool when the cancellation succeeded;
\* otherwise what the kernel has is forgotten with its handles.
LEMMA CloseInvariant ==
    ASSUME UringAssumption, IInv, NEW cancelled \in BOOLEAN, Close(cancelled)
    PROVE  IInv'
<1> DEFINE A == FramesOf(Ids)
<1>0. /\ open /\ open' = FALSE /\ call = "none" /\ call' = call /\ at' = at
      /\ pool' = pool \cup ready \cup (IF cancelled THEN A ELSE {})
      /\ ready' = {} /\ app' = app /\ free' = Ids
      /\ pending' = [i \in Ids |-> NoFrame]
      /\ kernel' = IF cancelled THEN {} ELSE kernel
      /\ sqLocal' = <<>> /\ sq' = <<>> /\ cq' = <<>>
  BY DEF Close
<1>1. A \subseteq Frames /\ A \cap (pool \cup app \cup ready) = {}
  <2>1. \A i \in Ids : pending[i] \in Frames \cup {NoFrame} BY SMTT(60) DEF IInv, Typed
  <2> QED BY <2>1 DEF FramesOf, IInv, Apart
<1> HIDE DEF A
<1>2. Queued' = <<>> /\ Elements(Queued)' = {} /\ Len(Queued)' = 0 /\ Done' = {}
  <2>1. <<>> \o <<>> = <<>> /\ <<>> \in Seq(Requests) BY ConcatEmptySeq, EmptySeq
  <2>2. Queued' = <<>> BY <1>0, <2>1 DEF Queued
  <2> QED BY SMTT(60), <1>0, <2>2 DEF Elements, Done
<1>3. Typed'
  <2>1. pool' \subseteq Frames /\ kernel' \subseteq Requests BY <1>0, <1>1 DEF IInv, Typed
  <2>2. <<>> \in Seq(Requests) /\ <<>> \in Seq(Completions) BY EmptySeq
  <2>3. pending' \in [Ids -> Frames \cup {NoFrame}] BY <1>0
  <2> QED BY ZenonT(60), <1>0, <2>1, <2>2, <2>3 DEF IInv, Typed
<1>4. Calls' BY <1>0 DEF IInv, Calls
<1>5. Apart'
  <2>1. pool' \cap app' = {} BY <1>0, <1>1 DEF IInv, Apart
  <2>2. NoFrame \notin pool' \cup app' \cup ready' BY <1>0, <1>3 DEF Typed, UringAssumption
  <2> QED BY <1>0, <2>1, <2>2 DEF Apart
<1>6. Once' BY <1>0, <1>2 DEF IInv, Once
<1>7. Known' BY <1>0 DEF Known
<1>8. Quarantined'
  <2>1. ASSUME NEW r \in kernel, ~cancelled PROVE r.frame \notin pool' \cup app' \cup ready'
    <3>1. r.id \in Ids BY SMTT(60) DEF IInv, Typed, Requests
    <3>2. r.frame = pending[r.id] BY <1>0 DEF IInv, Known
    <3> QED BY <1>0, <2>1, <3>1, <3>2 DEF IInv, Apart
  <2> QED BY SMTT(60), <1>0, <1>2, <2>1 DEF Quarantined
<1> QED BY <1>3, <1>4, <1>5, <1>6, <1>7, <1>8 DEF IInv

\* A completion moves a request's id to the completion queue.
LEMMA CompleteInvariant ==
    ASSUME UringAssumption, IInv, NEW r \in kernel, NEW result \in {"ok", "again", "error"},
           KernelComplete(r, result)
    PROVE  IInv'
<1> DEFINE c == [id |-> r.id, result |-> result]
<1>0. /\ UNCHANGED <<pool, app, ready, pending, free, call, at, sqLocal, sq, open>>
      /\ kernel' = kernel \ {r} /\ cq' = IF open THEN Append(cq, c) ELSE cq
  BY DEF KernelComplete, tables
<1>1. r \in Requests /\ r.id \in Ids /\ r.frame \in Frames /\ r.frame # NoFrame
  BY DEF IInv, Typed, Requests, UringAssumption
<1>2. c \in Completions /\ c.id = r.id BY SMTT(60), <1>1 DEF Completions
<1> HIDE DEF c
<1>3. cq' \in Seq(Completions) BY <1>0, <1>2, AppendProperties DEF IInv, Typed
<1>4. Queued' = Queued BY <1>0 DEF Queued
<1>5. Elements(Queued)' = Elements(Queued) BY <1>4 DEF Elements
<1>6. Typed' BY <1>0, <1>3 DEF IInv, Typed
<1>7. Calls' BY <1>0 DEF IInv, Calls
<1>8. Apart' BY <1>0 DEF IInv, Apart
<1>9. Once' BY <1>0, <1>4, <1>5 DEF IInv, Once
<1>10. Done' = IF open THEN Done \cup {r.id} ELSE Done
  <2>1. CASE ~open BY <1>0, <2>1 DEF Done
  <2>2. CASE open
    <3>1. cq \in Seq(Completions) /\ Len(cq) \in Nat BY SMTT(60) DEF IInv, Typed
    <3>2. /\ cq' \in Seq(Completions) /\ Len(cq') = Len(cq) + 1
          /\ \A a \in 1..Len(cq) : cq'[a] = cq[a]
          /\ cq'[Len(cq) + 1] = c
      BY <1>0, <1>2, <2>2, <3>1, AppendProperties
    <3>3. DOMAIN cq = 1..Len(cq) /\ DOMAIN cq' = 1..(Len(cq) + 1) BY <3>1, <3>2, LenProperties
    <3>4. \A a \in 1..(Len(cq) + 1) : a \in 1..Len(cq) \/ a = Len(cq) + 1 BY <3>1
    <3>5. \A a \in 1..Len(cq) : a \in 1..(Len(cq) + 1) BY <3>1
    <3>6. Len(cq) + 1 \in 1..(Len(cq) + 1) BY <3>1
    <3>7. Done' = {cq'[a].id : a \in 1..(Len(cq) + 1)} /\ Done = {cq[a].id : a \in 1..Len(cq)}
      BY <3>3 DEF Done
    <3>8. ASSUME NEW x \in Done' PROVE x \in Done \cup {r.id}
      BY <1>2, <3>2, <3>4, <3>7
    <3>9. ASSUME NEW x \in Done PROVE x \in Done'
      BY <3>2, <3>5, <3>7
    <3>10. r.id \in Done' BY <1>2, <3>2, <3>6, <3>7
    <3>11. Done' = Done \cup {r.id} BY <3>8, <3>9, <3>10
    <3> QED BY <2>2, <3>11
  <2> QED BY <2>1, <2>2
<1>11. Known'
  <2>1. CASE ~open BY SMTT(60), <1>0, <2>1 DEF Known
  <2>2. CASE open
    <3>1. ASSUME NEW s \in Elements(Queued)' \cup kernel'
          PROVE  pending[s.id] = s.frame /\ s.id \notin Done /\ s.id # r.id
      <4>1. s \in Elements(Queued) \cup kernel /\ s # r BY <1>0, <1>5 DEF IInv, Once
      <4> QED BY <2>2, <4>1 DEF IInv, Known, Once
    <3>2. \A i \in Done \cup {r.id} : pending[i] # NoFrame BY <1>1, <2>2 DEF IInv, Known
    <3> QED BY SMTT(60), <1>0, <1>10, <2>2, <3>1, <3>2 DEF Known
  <2> QED BY SMTT(60), <2>1, <2>2
<1>12. Quarantined' BY <1>0, <1>5, <1>10 DEF IInv, Quarantined
<1> QED BY SMTT(60), <1>6, <1>7, <1>8, <1>9, <1>11, <1>12 DEF IInv

\* Every step keeps the invariant.
LEMMA NextInvariant == ASSUME UringAssumption, IInv, [Next]_vars PROVE IInv'
<1>1. CASE (\E c \in {"progress", "recv", "send"} : Start(c)) \/ ReapQueued \/ Finish
  BY <1>1, ReapingInvariant
<1>2. CASE QueueRead
  <2>1. PICK i \in free, f \in pool : Queue(i, f, TRUE) /\ pool' = pool \ {f}
    BY ZenonT(60), <1>2 DEF QueueRead
  <2>2. app' = app /\ open BY <1>2 DEF QueueRead, IInv, Calls
  <2> QED BY Zenon, <2>1, <2>2, QueueInvariant
<1>3. CASE QueueWrite
  <2>1. PICK i \in free, f \in app : Queue(i, f, FALSE) /\ app' = app \ {f}
    BY Zenon, <1>3 DEF QueueWrite
  <2>2. pool' = pool /\ open BY <1>3 DEF QueueWrite, IInv, Calls
  <2> QED BY Zenon, <2>1, <2>2, QueueInvariant
<1>4. CASE QueueDone \/ SubmitFails \/ UNCHANGED vars BY <1>4, StillInvariant
<1>5. CASE \E k \in 0..Len(sq \o sqLocal) : SubmitTakes(k) BY <1>5, SubmitInvariant
<1>6. CASE \E f \in Frames : AppAlloc(f) \/ AppDrop(f) BY <1>6, AppInvariant
<1>7. CASE \E cancelled \in BOOLEAN : Close(cancelled) BY <1>7, CloseInvariant
<1>8. CASE \E r \in kernel, result \in {"ok", "again", "error"} : KernelComplete(r, result)
  BY <1>8, CompleteInvariant
<1> QED BY <1>1, <1>2, <1>3, <1>4, <1>5, <1>6, <1>7, <1>8 DEF Next

\* The invariant says where every frame in flight is.
LEMMA HeldFollows == ASSUME UringAssumption, IInv PROVE KernelFramesHeld
<1>1. InFlight = Elements(Queued) \cup kernel
  <2>1. Typed BY DEF IInv
  <2> QED BY <2>1, QueuedIs DEF InFlight
<1>2. ASSUME NEW r \in InFlight PROVE r.frame \notin pool \cup app \cup ready
  <2>1. r.id \in Ids
    <3>1. Typed BY SMTT(60) DEF IInv
    <3>2. r \in Requests BY <1>1, <3>1, QueuedIs DEF Typed
    <3> QED BY <3>2 DEF Requests
  <2>2. CASE open
    <3>1. r.frame = pending[r.id] BY <1>1, <2>2 DEF IInv, Known
    <3> QED BY <2>1, <3>1 DEF IInv, Apart
  <2>3. CASE ~open BY <1>1, <2>3 DEF IInv, Quarantined
  <2> QED BY <2>2, <2>3
<1>3. open => \A r \in InFlight : pending[r.id] = r.frame BY <1>1 DEF IInv, Known
<1> QED BY <1>2, <1>3 DEF KernelFramesHeld, IInv, Apart

\* For any set of ids and frames and any rx_depth, whatever prefix of the
\* queue each io_uring_enter takes, in whatever order the kernel answers and
\* whenever the device is dropped, a frame the kernel may still read or write
\* is in the pending table under its request's id and in no other hand.
THEOREM KernelFramesKept == ASSUME UringAssumption PROVE SafetySpec => []KernelFramesHeld
<1>1. Init => IInv BY InitInvariant
<1>2. IInv /\ [Next]_vars => IInv' BY NextInvariant
<1>3. IInv => KernelFramesHeld BY HeldFollows
<1> QED BY <1>1, <1>2, <1>3, PTL DEF SafetySpec
=============================================================================
