------------------------- MODULE EthernetIpv4Lemmas -------------------------
(***************************************************************************)
(* Lemmas for EthernetIpv4Proofs: the inductive invariant, then what the   *)
(* neighbor table, the timers and the calls of send do to it, then what    *)
(* Filter leaves of a sequence.                                            *)
(*                                                                         *)
(* Two facts of the library, induction over the naturals and the sizes of  *)
(* finite sets, are stated here as the formulas Induction and Counting and *)
(* are hypotheses of the lemmas that need them; EthernetIpv4Proofs derives *)
(* both from FiniteSetTheorems before its theorems.                        *)
(***************************************************************************)
EXTENDS EthernetIpv4, TLAPS

\* Time for the provers on a busy machine.
USE SMTT(60)

\* What is used of finite sets and their sizes.
Counting ==
    /\ Cardinality({}) = 0
    /\ \A n \in Nat : IsFiniteSet(1..n)
    /\ \A S : IsFiniteSet(S) => Cardinality(S) \in Nat
    /\ \A S, T : IsFiniteSet(S) /\ T \subseteq S =>
          IsFiniteSet(T) /\ Cardinality(T) <= Cardinality(S)
    /\ \A S, x : IsFiniteSet(S) =>
          Cardinality(S \cup {x}) = IF x \in S THEN Cardinality(S) ELSE Cardinality(S) + 1

\* A call of send is under way only while an address is configured; what it
\* has yet to take was validated against the present routes.  Without an
\* address nothing is resolved.
CallsSound ==
    /\ at = "send" =>
          /\ configured /\ sending # <<>>
          /\ \A d \in Range(sending) : d = Bcast \/ NextHop(d) \in Ips
    /\ configured \/ \A h \in Ips : ~In(h, {"resolving"})

\* A packet waits for a neighbor that is being resolved and, but for those
\* whose timers have yet to run, has not timed out; or, until the call that
\* learned its address ends, for one it can be sent to.
Awaited(h) ==
    /\ In(h, {"resolving"})
    /\ neighbors[h].left > 0 \/ (at = "timers" /\ h >= cursor)

WaitersServed ==
    \A p \in Range(pending) :
        Awaited(p.hop) \/ (at \in {"recv", "timers"} /\ Mac(p.hop) # None)

\* The inductive invariant.
IInv == Accounted /\ CurrentDecisions /\ CallsSound /\ WaitersServed /\ ProbesWanted

\* No resolution outlives its timeout, but for those whose timers have yet to
\* run in the present call.
ResolutionsTimed == \A h \in Ips : In(h, {"resolving"}) => Awaited(h)

\* What is known of a neighbor, by its state.
LEMMA NeighborFields ==
    ASSUME NEW n \in NeighborStates
    PROVE  /\ n # None /\ n.state \in {"static", "reachable", "resolving", "failed"}
           /\ n.state = "static" => n = Static(n.mac) /\ n.mac \in Macs
           /\ n.state = "reachable" =>
                 n = Reachable(n.mac, n.left) /\ n.mac \in Macs /\ n.left \in 0..NeighborTtl
           /\ n.state = "resolving" =>
                 /\ n = Resolving(n.attempts, n.probe, n.left)
                 /\ n.attempts \in 0..MaxArpAttempts /\ n.probe \in 0..RetryInterval
                 /\ n.left \in 0..ResolutionTimeout
           /\ n.state = "failed" => n = Failed(n.left) /\ n.left \in 0..FailedRetryDelay
<1>1. CASE \E m \in Macs : n = Static(m)
  BY <1>1, NoneAssumption DEF Static, NeighborStates
<1>2. CASE \E m \in Macs, t \in 0..NeighborTtl : n = Reachable(m, t)
  BY <1>2, NoneAssumption DEF Reachable, NeighborStates
<1>3. CASE \E a \in 0..MaxArpAttempts, p \in 0..RetryInterval, t \in 0..ResolutionTimeout :
             n = Resolving(a, p, t)
  BY <1>3, NoneAssumption DEF Resolving, NeighborStates
<1>4. CASE \E t \in 0..FailedRetryDelay : n = Failed(t)
  BY <1>4, NoneAssumption DEF Failed, NeighborStates
<1> QED BY <1>1, <1>2, <1>3, <1>4 DEF NeighborStates

\* The states a neighbor may be put in.
LEMMA NeighborMade ==
    /\ \A m \in Macs : Static(m) \in NeighborStates
    /\ \A m \in Macs, t \in 0..NeighborTtl : Reachable(m, t) \in NeighborStates
    /\ \A a \in 0..MaxArpAttempts, p \in 0..RetryInterval, t \in 0..ResolutionTimeout :
          Resolving(a, p, t) \in NeighborStates
    /\ \A t \in 0..FailedRetryDelay : Failed(t) \in NeighborStates
BY DEF NeighborStates

\* Times, capacities and attempts are positive (InterfaceConfig is validated so).
LEMMA Positive ==
    /\ {TxCapacity, PerNeighborCapacity, NeighborCapacity, ControlCapacity, NeighborTtl,
        RetryInterval, ResolutionTimeout, FailedRetryDelay, MaxArpAttempts} \subseteq Nat \ {0}
    /\ NumIps \in Nat \ {0}
BY InterfaceAssumption

\* Neighbor tables: an address has a state or is unknown.
Tables == [Ips -> NeighborStates \cup {None}]

\* The neighbors known to a table.
Count(table) == Cardinality({h \in Ips : table[h] # None})

\* A table knows finitely many neighbors.
LEMMA CountTyped ==
    ASSUME Counting, NEW table \in Tables
    PROVE  Count(table) \in Nat /\ IsFiniteSet({h \in Ips : table[h] # None})
<1>1. IsFiniteSet(Ips)
  BY Positive DEF Ips, Counting
<1>2. IsFiniteSet({h \in Ips : table[h] # None})
  BY ZenonT(60), <1>1 DEF Counting
<1> QED BY <1>2 DEF Count, Counting

\* What the invariant says of the numbers in use.
LEMMA Sizes ==
    ASSUME Counting, IInv
    PROVE  /\ Len(pending) \in Nat /\ Len(ready) \in Nat /\ Len(control) \in Nat
           /\ Len(sending) \in Nat /\ neighbors \in Tables
           /\ balance = Len(pending) + Len(ready)
           /\ Len(pending) + Len(ready) + Len(sending) <= TxCapacity
           /\ Len(control) <= ControlCapacity
           /\ KnownCount = Count(neighbors) /\ Count(neighbors) \in Nat
           /\ Count(neighbors) <= NeighborCapacity
           /\ TxCapacity \in Nat /\ ControlCapacity \in Nat /\ PerNeighborCapacity \in Nat
           /\ NeighborCapacity \in Nat
<1>1. neighbors \in Tables /\ KnownCount = Count(neighbors)
  BY DEF IInv, Accounted, TypeOK, Tables, KnownCount, Known, Count
<1>2. Count(neighbors) \in Nat
  BY ZenonT(60), <1>1, CountTyped
<1>3. /\ Len(pending) \in Nat /\ Len(ready) \in Nat /\ Len(control) \in Nat /\ Len(sending) \in Nat
      /\ balance = Len(pending) + Len(ready)
  BY DEF IInv, Accounted, TypeOK
<1>4. /\ Len(pending) + Len(ready) + Len(sending) <= TxCapacity
      /\ Len(control) <= ControlCapacity /\ KnownCount <= NeighborCapacity
  BY DEF IInv, Accounted, WithinCapacity
<1> QED BY <1>1, <1>2, <1>3, <1>4, Positive

\* Outside the timers, a step that starts no resolution keeps the others timed.
LEMMA TimedQuiet ==
    ASSUME ResolutionsTimed, at # "timers" \/ cursor = NumIps + 1, NumIps \in Nat,
           \A k \in Ips : In(k, {"resolving"})' => neighbors'[k] = neighbors[k]
    PROVE  ResolutionsTimed'
<1> SUFFICES ASSUME NEW k \in Ips, In(k, {"resolving"})' PROVE Awaited(k)'
  BY DEF ResolutionsTimed
<1>1. neighbors'[k] = neighbors[k] /\ In(k, {"resolving"})
  BY DEF In, Known
<1>2. Awaited(k) /\ ~(k >= NumIps + 1)
  BY <1>1 DEF ResolutionsTimed, Ips
<1> QED BY <1>1, <1>2 DEF Awaited

\* The timers of h end or keep its resolution; those that follow have yet to
\* run.
LEMMA TimedTimers ==
    ASSUME Counting, IInv, ResolutionsTimed, NEW h \in Ips, Timers(h)
    PROVE  ResolutionsTimed'
<1>1. at = "timers" /\ cursor = h /\ cursor' = h + 1 /\ at' = "timers"
  BY DEF Timers, ExpireNeighbor, TimeoutNeighbor, ProbeNeighbor, KeepNeighbor, TimersOf
<1>2. neighbors \in Tables
  BY Sizes
<1>3. \A k \in Ips : k # h => neighbors'[k] = neighbors[k]
  BY <1>2 DEF Timers, ExpireNeighbor, TimeoutNeighbor, ProbeNeighbor, KeepNeighbor, Tables
<1>4. In(h, {"resolving"})' => neighbors'[h].left > 0
  <2>1. CASE ExpireNeighbor(h)
    BY <1>2, <2>1 DEF ExpireNeighbor, In, Known, Tables
  <2>2. CASE TimeoutNeighbor(h)
    BY <1>2, <2>2 DEF TimeoutNeighbor, In, Known, Tables, Failed
  <2>3. CASE ProbeNeighbor(h)
    BY <1>2, <2>3 DEF ProbeNeighbor, ProbeDue, In, Known, Tables, Resolving
  <2>4. CASE KeepNeighbor(h)
    <3>1. /\ neighbors' = neighbors
          /\ ~(In(h, {"reachable", "failed", "resolving"}) /\ neighbors[h].left = 0)
      BY <2>4 DEF KeepNeighbor
    <3> SUFFICES ASSUME In(h, {"resolving"}) PROVE neighbors[h].left > 0
      BY <3>1 DEF In, Known
    <3>2. neighbors[h] \in NeighborStates /\ neighbors[h].state = "resolving"
      BY <1>2 DEF In, Known, Tables
    <3>3. neighbors[h].left \in Nat
      BY <3>2, NeighborFields, Positive
    <3> QED BY <3>1, <3>3 DEF In
  <2> QED BY ZenonT(60), <2>1, <2>2, <2>3, <2>4 DEF Timers
<1> SUFFICES ASSUME NEW k \in Ips, In(k, {"resolving"})' PROVE Awaited(k)'
  BY DEF ResolutionsTimed
<1>5. CASE k = h
  BY <1>4, <1>5 DEF Awaited
<1>6. CASE k # h
  <2>1. neighbors'[k] = neighbors[k] /\ In(k, {"resolving"})
    BY <1>3, <1>6 DEF In, Known
  <2>2. Awaited(k)
    BY <2>1 DEF ResolutionsTimed
  <2>3. k >= h => k >= h + 1
    BY <1>6 DEF Ips
  <2> QED BY <1>1, <2>1, <2>2, <2>3 DEF Awaited
<1> QED BY <1>5, <1>6

\* Every step keeps the resolutions timed.
LEMMA TimedStep == ASSUME Counting PROVE IInv /\ ResolutionsTimed /\ [Next]_vars => ResolutionsTimed'
<1> SUFFICES ASSUME IInv, ResolutionsTimed, [Next]_vars PROVE ResolutionsTimed'
  OBVIOUS
<1>1. neighbors \in Tables /\ NumIps \in Nat
  BY Sizes, Positive
<1>2. ASSUME at # "timers", NEW h \in Ips, NEW m \in Macs, neighbors' = Learn(h, m)
      PROVE  ResolutionsTimed'
  <2>1. \A k \in Ips : In(k, {"resolving"})' => neighbors'[k] = neighbors[k]
    BY <1>1, <1>2 DEF In, Known, Learn, Tables, Reachable
  <2> QED BY <1>1, <1>2, <2>1, TimedQuiet
<1>3. ASSUME NEW d, BeginTimers(d) PROVE ResolutionsTimed'
  BY <1>3 DEF BeginTimers, ResolutionsTimed, Awaited, Ips
<1>4. CASE Configure
  <2>1. at = "idle"
    BY ZenonT(60), <1>4 DEF Configure, ConfigureIpv4, WithdrawIpv4, AddRoute, RemoveRoute, RemoveNeighbor,
              AddStaticNeighbor, ResetLink, Calls
  <2>2. \A k \in Ips : In(k, {"resolving"})' => neighbors'[k] = neighbors[k]
    <3>1. CASE \E h \in Ips, m \in Macs : AddStaticNeighbor(h, m)
      <4>1. PICK h \in Ips, m \in Macs : AddStaticNeighbor(h, m)
        BY <3>1
      <4>2. PICK kept \in {Settled(neighbors), neighbors} :
              neighbors' = [kept EXCEPT ![h] = Static(m)]
        BY <4>1 DEF AddStaticNeighbor
      <4>3. /\ DOMAIN kept = Ips
            /\ \A k \in Ips : kept[k] = neighbors[k] \/ kept[k] = None
        BY <1>1 DEF Settled, Tables
      <4>4. /\ neighbors'[h].state = "static"
            /\ \A k \in Ips : k # h => neighbors'[k] = kept[k]
        BY <4>2, <4>3 DEF Static
      <4> QED BY <4>3, <4>4 DEF In, Known
    <3>2. CASE \/ \E a \in Ips, g \in Ips \cup {None} : ConfigureIpv4(a, g)
               \/ WithdrawIpv4 \/ \E h \in Ips : RemoveNeighbor(h)
      BY <1>1, <3>2 DEF ConfigureIpv4, WithdrawIpv4, RemoveNeighbor, DiscardQueued,
                Settled, In, Known, Tables
    <3>3. CASE \/ \E g \in Ips \cup {None} : AddRoute(g)
               \/ \E which \in {"connected", "default"} : RemoveRoute(which)
      BY <1>1, <3>3 DEF AddRoute, RemoveRoute, DiscardQueued, Settled, In, Known, Tables
    <3>4. CASE ResetLink
      BY <1>1, <3>4 DEF ResetLink, DiscardQueued, Settled, In, Known, Tables
    <3> QED BY ZenonT(60), <1>4, <3>1, <3>2, <3>3, <3>4 DEF Configure
  <2> QED BY <1>1, <2>1, <2>2, TimedQuiet
<1>5. CASE \E d \in 0..MaxTick : Advance(d)
  BY <1>3, <1>5 DEF Advance
<1>6. CASE \E h \in Ips : Timers(h)
  BY <1>6, TimedTimers
<1>7. CASE Finish
  BY ZenonT(60), <1>1, <1>7, TimedQuiet DEF Finish, FinishAdvance, In, Known
<1>8. CASE Recv \/ Alloc \/ \E n \in 1..MaxSend : \E dests \in [1..n -> Dests \ {address}] : Send(dests)
  <2>1. at # "timers" /\ neighbors' = neighbors
    BY <1>8 DEF Recv, Alloc, Send
  <2> QED BY <1>1, <2>1, TimedQuiet
<1>9. CASE \E h \in Ips \cup {None}, m \in Macs : ReceiveRequest(h, m)
  <2>1. PICK h \in Ips \cup {None}, m \in Macs : ReceiveRequest(h, m)
    BY <1>9
  <2>2. at # "timers" /\ neighbors' = (IF h = None THEN neighbors ELSE Learn(h, m))
    BY <2>1 DEF ReceiveRequest, Heard
  <2> QED BY <1>1, <1>2, <2>2, TimedQuiet
<1>10. CASE \E h \in Ips, m \in Macs : ReceiveReply(h, m)
  BY <1>2, <1>10 DEF ReceiveReply, Heard
<1>11. CASE RecvDone
  BY <1>3, <1>11 DEF RecvDone
<1>12. CASE SendFramed \/ SendStops
  <2>1. at # "timers" /\ neighbors' = neighbors
    BY <1>12 DEF SendFramed, SendStops
  <2> QED BY <1>1, <2>1, TimedQuiet
<1>13. CASE SendPending
  <2>1. /\ at = "send" /\ TakeFrame /\ Dest # Bcast
        /\ neighbors' = [neighbors EXCEPT ![Hop] = StartResolving(Hop)]
    BY <1>13 DEF SendPending
  <2> SUFFICES ASSUME NEW k \in Ips, In(k, {"resolving"})' PROVE Awaited(k)'
    BY DEF ResolutionsTimed
  <2>2. CASE neighbors'[k] = neighbors[k]
    BY <2>1, <2>2 DEF ResolutionsTimed, In, Known, Awaited
  <2>3. CASE neighbors'[k] # neighbors[k]
    <3>1. k = Hop /\ neighbors'[k] = StartResolving(Hop)
      BY <1>1, <2>1, <2>3 DEF Tables
    <3>2. neighbors'[k] = Resolving(0, 0, ResolutionTimeout)
      BY <2>3, <3>1 DEF StartResolving
    <3>3. neighbors'[k].left > 0
      BY <3>2, Positive DEF Resolving
    <3> QED BY <3>3 DEF Awaited
  <2> QED BY <2>2, <2>3
<1>14. CASE UNCHANGED vars
  BY <1>14 DEF vars, call, ResolutionsTimed, Awaited, In, Known
<1> QED BY <1>4, <1>5, <1>6, <1>7, <1>8, <1>9, <1>10, <1>11, <1>12, <1>13, <1>14 DEF Next, Accept

\* A usable hardware address is one of the stations'.
LEMMA MacTyped ==
    ASSUME NEW table \in Tables, NEW h \in Ips
    PROVE  /\ MacIn(table, h) \in Macs \cup {None}
           /\ MacIn(table, h) # None <=>
                 \/ table[h] # None /\ table[h].state = "static"
                 \/ table[h] # None /\ table[h].state = "reachable" /\ table[h].left > 0
<1>1. CASE table[h] = None
  BY <1>1 DEF MacIn
<1>2. CASE table[h] # None
  <2>1. table[h] \in NeighborStates
    BY <1>2 DEF Tables
  <2> QED BY <1>2, <2>1, NeighborFields, NoneAssumption DEF MacIn
<1> QED BY <1>1, <1>2

\* Forgetting neighbors makes the table no larger.
LEMMA CountForgets ==
    ASSUME Counting, NEW old \in Tables, NEW table \in Tables,
           \A h \in Ips : old[h] = None => table[h] = None
    PROVE  Count(table) <= Count(old)
<1>1. {h \in Ips : table[h] # None} \subseteq {h \in Ips : old[h] # None}
  OBVIOUS
<1> QED BY <1>1, CountTyped DEF Count, Counting

\* A new neighbor takes one place, a known one none.
LEMMA CountLearns ==
    ASSUME Counting, NEW old \in Tables, NEW h \in Ips, NEW n \in NeighborStates,
           Count(old) <= NeighborCapacity, old[h] # None \/ Count(old) < NeighborCapacity
    PROVE  Count([old EXCEPT ![h] = n]) <= NeighborCapacity
<1> DEFINE K == {k \in Ips : old[k] # None}
           new == [old EXCEPT ![h] = n]
<1>1. {k \in Ips : new[k] # None} = K \cup {h}
  BY NoneAssumption DEF Tables
<1>2. IsFiniteSet(K) /\ Cardinality(K) \in Nat /\ Count(old) = Cardinality(K)
  BY CountTyped DEF Count
<1>3. Count(new) = Cardinality(K \cup {h})
  BY <1>1 DEF Count
<1>4. Cardinality(K \cup {h}) = IF h \in K THEN Cardinality(K) ELSE Cardinality(K) + 1
  BY ZenonT(60), <1>2 DEF Counting
<1>5. NeighborCapacity \in Nat
  BY Positive
<1> QED BY <1>2, <1>3, <1>4, <1>5

\* discard_queued drops the resolutions of a table together with the queues.
LEMMA SettledTyped ==
    ASSUME Counting, NEW table \in Tables
    PROVE  /\ Settled(table) \in Tables /\ Count(Settled(table)) <= Count(table)
           /\ \A h \in Ips : Settled(table)[h] = None \/ Settled(table)[h].state # "resolving"
<1>1. Settled(table) \in Tables
  BY DEF Settled, Tables
<1>2. \A h \in Ips : table[h] = None => Settled(table)[h] = None
  BY DEF Settled
<1>3. Count(Settled(table)) <= Count(table)
  BY <1>1, <1>2, CountForgets
<1> QED BY <1>1, <1>3 DEF Settled

\* Every configuration call but one leaves the queues empty and no neighbor
\* being resolved; only the table of the others and the configuration remain.
Emptied ==
    /\ at = "idle" /\ UNCHANGED <<spare, call>>
    /\ configured' \in BOOLEAN /\ address' \in Ips
    /\ routes' \in [connected : BOOLEAN, gateway : Ips \cup {None}]
    /\ pending' = <<>> /\ ready' = <<>> /\ control' = <<>>
    /\ balance' = balance - Len(pending) - Len(ready)
    /\ neighbors' \in Tables /\ Count(neighbors') <= NeighborCapacity
    /\ \A h \in Ips : ~In(h, {"resolving"})'

\* A configuration call that discards the queues leaves them empty.
LEMMA DiscardEmpties ==
    ASSUME Counting, IInv, NEW name, Calls(name), NEW table \in Tables, Count(table) <= NeighborCapacity,
           DiscardQueued(table), configured' \in BOOLEAN, address' \in Ips,
           routes' \in [connected : BOOLEAN, gateway : Ips \cup {None}]
    PROVE  Emptied
<1>1. neighbors' = Settled(table)
  BY DEF DiscardQueued
<1>2. neighbors' \in Tables /\ Count(neighbors') <= NeighborCapacity
  <2>1. Count(Settled(table)) \in Nat /\ Count(table) \in Nat /\ NeighborCapacity \in Nat
    BY ZenonT(60), SettledTyped, CountTyped, Positive
  <2> QED BY <1>1, <2>1, SettledTyped
<1>3. \A h \in Ips : ~In(h, {"resolving"})'
  BY <1>1, SettledTyped DEF In, Known
<1> QED BY <1>2, <1>3 DEF Emptied, DiscardQueued, Calls

\* A waiting packet has a next hop on the link.
LEMMA Hops ==
    ASSUME IInv, NEW p \in Range(pending)
    PROVE  p \in Packets /\ p.hop \in Ips
<1>1. pending \in Seq(Packets)
  BY DEF IInv, Accounted, TypeOK
<1>2. p \in Packets
  BY <1>1 DEF Range
<1> QED BY <1>2 DEF Packets

\* The next hop of a destination, under the present routes.
LEMMA HopTyped ==
    ASSUME IInv, NEW d PROVE NextHop(d) \in Ips \cup {None}
BY DEF IInv, Accounted, TypeOK, NextHop

\* A step of send that takes a frame, whichever queue it goes to.
LEMMA TakeTyped ==
    ASSUME IInv, at = "send", TakeFrame
    PROVE  /\ Dest \in Dests /\ Dest \in Range(sending) /\ (Dest = Bcast \/ Hop \in Ips)
           /\ sending' \in Seq(Dests) /\ Len(sending') = Len(sending) - 1
           /\ Range(sending') \subseteq Range(sending)
           /\ at' \in {"idle", "send"} /\ (at' = "send" => sending' # <<>>)
           /\ configured /\ UNCHANGED <<config, control, spare, cursor>>
           /\ balance' = balance + 1
<1>1. sending \in Seq(Dests) /\ sending # <<>> /\ configured
      /\ \A d \in Range(sending) : d = Bcast \/ NextHop(d) \in Ips
  BY DEF IInv, Accounted, TypeOK, CallsSound
<1>2. /\ sending' = Tail(sending) /\ at' = (IF Len(sending) = 1 THEN "idle" ELSE "send")
      /\ balance' = balance + 1 /\ UNCHANGED <<config, control, spare, cursor>>
  BY DEF TakeFrame
<1>3. /\ Head(sending) \in Dests /\ Tail(sending) \in Seq(Dests) /\ Len(Tail(sending)) = Len(sending) - 1
      /\ \A i \in 1..Len(Tail(sending)) : Tail(sending)[i] = sending[i + 1]
  BY <1>1
<1>4. Dest = sending[1] /\ 1 \in 1..Len(sending) /\ Dest \in Dests
  BY <1>1, <1>3 DEF Dest
<1>5. Dest \in Range(sending)
  BY <1>1, <1>4 DEF Range
<1>6. Len(sending') = Len(sending) - 1 /\ sending' \in Seq(Dests)
      /\ \A i \in 1..Len(sending') : sending'[i] = sending[i + 1]
  BY <1>2, <1>3
<1>7. Range(sending') \subseteq Range(sending)
  BY <1>1, <1>6 DEF Range
<1>8. at' = "send" => sending' # <<>>
  <2>1. Len(sending) # 1 => Len(sending') # 0
    BY <1>1, <1>6
  <2> QED BY ZenonT(60), <1>2, <2>1
<1> QED BY <1>1, <1>2, <1>4, <1>5, <1>6, <1>7, <1>8 DEF Hop

\* send stays sound as long as the routes do.
LEMMA TakeCalls ==
    ASSUME IInv, at = "send", TakeFrame
    PROVE  CallsSound'
<1>1. configured' = configured /\ configured /\ \A d : NextHop(d)' = NextHop(d)
  BY TakeTyped DEF config, NextHop
<1>2. \A d \in Range(sending') : d = Bcast \/ NextHop(d) \in Ips
  BY TakeTyped DEF IInv, CallsSound
<1> QED BY <1>1, <1>2, TakeTyped DEF CallsSound

\* A step that moves no packet: what is left to show of it.
LEMMA QuietSound ==
    ASSUME IInv, UNCHANGED <<config, pending, ready, balance>>,
           neighbors' \in Tables, Count(neighbors') <= NeighborCapacity,
           control' \in Seq(ArpFrames), Len(control') <= ControlCapacity,
           \A f \in Range(control') : f.src = address,
           ~configured => control' = <<>>,
           spare' \in BOOLEAN, at' \in {"idle", "timers", "recv", "send"},
           cursor' \in 0..(NumIps + 1), sending' \in Seq(Dests),
           Len(pending) + Len(ready) + Len(sending') <= TxCapacity,
           CallsSound', WaitersServed', ProbesWanted'
    PROVE  IInv'
<1>1. pending' = pending /\ ready' = ready /\ balance' = balance /\ configured' = configured
      /\ address' = address /\ routes' = routes
  BY DEF config
<1>2. TypeOK'
  BY <1>1 DEF IInv, Accounted, TypeOK, Tables
<1>3. balance' = Len(pending') + Len(ready')
  BY <1>1 DEF IInv, Accounted
<1>4. WithinCapacity'
  <2>1. KnownCount' <= NeighborCapacity
    BY DEF KnownCount, Known, Count
  <2>2. \A h \in Ips : Waiting(h)' <= PerNeighborCapacity
    BY <1>1 DEF Waiting, IInv, Accounted, WithinCapacity
  <2> QED BY <1>1, <2>1, <2>2 DEF WithinCapacity
<1>5. CurrentDecisions'
  BY <1>1 DEF IInv, CurrentDecisions, NextHop
<1> QED BY <1>2, <1>3, <1>4, <1>5 DEF IInv, Accounted

\* A control queue of which frames were dropped.
LEMMA ControlLess ==
    ASSUME Counting, IInv, control' \in Seq(ArpFrames), Len(control') <= Len(control),
           Range(control') \subseteq Range(control)
    PROVE  /\ Len(control') <= ControlCapacity
           /\ \A f \in Range(control') : f.src = address
           /\ ~configured => control' = <<>>
<1>1. Len(control') <= ControlCapacity
  BY Sizes
<1>2. \A f \in Range(control') : f.src = address
  BY DEF IInv, CurrentDecisions
<1>3. ASSUME ~configured PROVE control' = <<>>
  <2>1. control = <<>>
    BY <1>3 DEF IInv, CurrentDecisions
  <2>2. Len(control') = 0
    BY <2>1
  <2> QED BY <2>2
<1> QED BY <1>1, <1>2, <1>3

\* A call that changes no queue and no neighbor.
LEMMA CallSound ==
    ASSUME Counting, IInv, UNCHANGED <<config, neighbors, queues, balance, cursor>>, at # "timers",
           at' \in {"idle", "recv", "send"}, at' = at \/ at = "idle" \/ (at' = "idle" /\ at = "send"),
           spare' \in BOOLEAN, sending' \in Seq(Dests),
           Len(pending) + Len(ready) + Len(sending') <= TxCapacity, CallsSound'
    PROVE  IInv'
<1>1. /\ neighbors' = neighbors /\ pending' = pending /\ control' = control /\ cursor' = cursor
      /\ UNCHANGED <<config, pending, ready, balance>>
  BY DEF queues
<1>2. WaitersServed'
  BY ZenonT(60), <1>1 DEF IInv, WaitersServed, Awaited, In, Known, Mac, MacIn
<1>3. ProbesWanted'
  BY ZenonT(60), <1>1 DEF IInv, ProbesWanted, In, Known
<1>4. control' \in Seq(ArpFrames) /\ Len(control') <= Len(control) /\ Range(control') \subseteq Range(control)
      /\ cursor' \in 0..(NumIps + 1)
  BY <1>1, Sizes DEF IInv, Accounted, TypeOK
<1> QED BY <1>1, <1>2, <1>3, <1>4, Sizes, ControlLess, QuietSound

\* send begins: the accepted prefix fits in the shared capacity.
LEMMA SendSound ==
    ASSUME Counting, IInv, NEW n \in 1..MaxSend, NEW dests \in [1..n -> Dests \ {address}], Send(dests)
    PROVE  IInv'
<1> DEFINE available == TxCapacity - Len(pending) - Len(ready)
           limit == IF available < Len(dests) THEN available ELSE Len(dests)
<1>1. MaxSend \in Nat
  BY InterfaceAssumption
<1>2. dests \in Seq(Dests) /\ Len(dests) = n /\ n \in Nat
  BY <1>1
<1>3. /\ at = "idle" /\ configured /\ limit > 0 /\ \A i \in 1..limit : Sendable(dests[i])
      /\ at' = "send" /\ sending' = SubSeq(dests, 1, limit) /\ spare' = spare
      /\ UNCHANGED <<config, neighbors, queues, balance, cursor>>
  BY DEF Send
<1>4. available \in Int /\ limit \in Int /\ limit <= available /\ limit <= Len(dests)
  BY <1>2, Sizes
<1> HIDE DEF limit
<1>5. limit \in 1..Len(dests)
  BY <1>2, <1>3, <1>4
<1>6. sending' \in Seq(Dests) /\ Len(sending') = limit /\ \A i \in 1..limit : sending'[i] = dests[i]
  BY <1>2, <1>3, <1>5
<1>7. Len(pending) + Len(ready) + Len(sending') <= TxCapacity
  <2>1. Len(sending') = limit
    BY <1>6
  <2> QED BY <1>4, <2>1, Sizes
<1>8. CallsSound'
  <2>1. configured' = configured /\ \A d : NextHop(d)' = NextHop(d)
    BY <1>3 DEF config, NextHop
  <2>2. ASSUME NEW d \in Range(sending') PROVE d = Bcast \/ NextHop(d) \in Ips
    <3>1. PICK i \in 1..limit : d = sending'[i]
      BY <1>6, <2>2 DEF Range
    <3>2. Sendable(d)
      BY <1>3, <1>6, <3>1
    <3> QED BY <3>2, HopTyped DEF Sendable
  <2>3. sending' # <<>>
    BY <1>5, <1>6
  <2> QED BY <1>3, <2>1, <2>2, <2>3 DEF CallsSound
<1>9. spare' \in BOOLEAN
  BY <1>3 DEF IInv, Accounted, TypeOK
<1> QED BY <1>3, <1>6, <1>7, <1>8, <1>9, CallSound

\* push_back adds one element.
LEMMA RangeAppend ==
    ASSUME NEW T, NEW s \in Seq(T), NEW e \in T
    PROVE  Range(Append(s, e)) = Range(s) \cup {e}
<1>1. DOMAIN Append(s, e) = 1..(Len(s) + 1) /\ DOMAIN s = 1..Len(s) /\ Append(s, e)[Len(s) + 1] = e
      /\ \A i \in 1..Len(s) : Append(s, e)[i] = s[i]
  OBVIOUS
<1>2. 1..(Len(s) + 1) = 1..Len(s) \cup {Len(s) + 1}
  OBVIOUS
<1> QED BY <1>1, <1>2 DEF Range

\* send frames a packet for a neighbor whose address is known, or broadcasts.
LEMMA FramedSound ==
    ASSUME Counting, IInv, SendFramed
    PROVE  IInv'
<1>1. /\ at = "send" /\ TakeFrame /\ neighbors' = neighbors /\ pending' = pending
  BY DEF SendFramed
<1>2. PICK f \in Frames : ready' = Append(ready, f)
                          /\ (f.dest = Bcast \/ (f.src = address /\ f.hop = NextHop(f.dest)))
  <2>1. address \in Ips /\ Dest \in Dests /\ neighbors \in Tables
    BY <1>1, Sizes, TakeTyped DEF IInv, Accounted, TypeOK
  <2>2. CASE Dest = Bcast
    <3> DEFINE f == [dest |-> Bcast, hop |-> Bcast, src |-> address, mac |-> Bcast]
    <3>1. f \in Frames
      BY <2>1 DEF Frames, Dests
    <3>2. ready' = Append(ready, f)
      BY <2>2 DEF SendFramed
    <3> QED BY <3>1, <3>2
  <2>3. CASE Dest # Bcast
    <3> DEFINE f == Framed([dest |-> Dest, hop |-> Hop, src |-> address], Mac(Hop))
    <3>1. Mac(Hop) # None /\ ready' = Append(ready, f)
      BY <2>3 DEF SendFramed
    <3>2. Hop \in Ips
      BY <1>1, <2>3, TakeTyped
    <3>3. Mac(Hop) \in Macs
      BY <2>1, <3>1, <3>2, MacTyped DEF Mac
    <3>4. f \in Frames /\ f.src = address /\ f.hop = Hop /\ f.dest = Dest
      BY <2>1, <3>2, <3>3 DEF Framed, Frames
    <3> QED BY <3>1, <3>4 DEF Hop
  <2> QED BY <2>2, <2>3
<1>3. ready \in Seq(Frames) /\ TypeOK /\ CurrentDecisions
  BY DEF IInv, Accounted, TypeOK
<1>4. ready' \in Seq(Frames) /\ Len(ready') = Len(ready) + 1
  BY <1>2, <1>3
<1>5. Range(ready') = Range(ready) \cup {f}
  BY <1>2, <1>3, RangeAppend
<1>6. TypeOK'
  <2>1. balance' \in Int
    BY <1>1, <1>3, TakeTyped DEF TypeOK
  <2> QED BY <1>1, <1>3, <1>4, <2>1, TakeTyped DEF TypeOK, config
<1>7. balance' = Len(pending') + Len(ready')
  BY <1>1, <1>4, Sizes, TakeTyped
<1>8. WithinCapacity'
  <2>1. Len(pending') + Len(ready') + Len(sending') <= TxCapacity
    <3>1. pending' = pending /\ Len(sending') = Len(sending) - 1
      BY <1>1, TakeTyped
    <3> QED BY <1>4, <3>1, Sizes
  <2>2. KnownCount' = KnownCount /\ \A h \in Ips : Waiting(h)' = Waiting(h)
    BY <1>1 DEF KnownCount, Known, Waiting
  <2>3. control' = control
    BY <1>1, TakeTyped
  <2> QED BY <2>1, <2>2, <2>3 DEF WithinCapacity, IInv, Accounted
<1>9. CurrentDecisions'
  <2>1. /\ address' = address /\ routes' = routes /\ configured' /\ control' = control
        /\ \A d : NextHop(d)' = NextHop(d)
    BY <1>1, TakeTyped DEF config, NextHop
  <2> QED BY <1>1, <1>2, <1>3, <1>5, <2>1 DEF CurrentDecisions
<1>10. WaitersServed'
  BY <1>1, TakeTyped DEF IInv, WaitersServed, Awaited, In, Known
<1>11. ProbesWanted'
  BY <1>1, TakeTyped DEF IInv, ProbesWanted, In, Known
<1> QED BY <1>1, <1>6, <1>7, <1>8, <1>9, <1>10, <1>11, TakeCalls DEF IInv, Accounted

\* Time that passes changes no state, no count of attempts and no mapping's
\* address; no time changes nothing.
LEMMA ElapseTyped ==
    ASSUME NEW n \in NeighborStates \cup {None}, NEW d \in Nat
    PROVE  /\ Elapse(n, d) \in NeighborStates \cup {None}
           /\ Elapse(n, d) = None <=> n = None
           /\ n # None => Elapse(n, d).state = n.state
           /\ n # None /\ n.state = "resolving" => Elapse(n, d).attempts = n.attempts
           /\ n # None /\ n.state = "reachable" /\ d = 0 => Elapse(n, d).left = n.left
<1>1. CASE n = None
  BY <1>1 DEF Elapse
<1> SUFFICES ASSUME n # None, n \in NeighborStates PROVE
           /\ Elapse(n, d) \in NeighborStates
           /\ Elapse(n, d).state = n.state
           /\ n.state = "resolving" => Elapse(n, d).attempts = n.attempts
           /\ n.state = "reachable" /\ d = 0 => Elapse(n, d).left = n.left
  BY <1>1, NoneAssumption
<1> USE Positive
<1>2. \A T \in Nat : \A t \in 0..T : After(t, d) \in 0..T /\ (d = 0 => After(t, d) = t)
  BY DEF After
<1>3. CASE n.state = "static"
  BY <1>3 DEF Elapse
<1>4. CASE n.state = "reachable"
  <2>1. n = Reachable(n.mac, n.left) /\ n.mac \in Macs /\ n.left \in 0..NeighborTtl
    BY <1>4, NeighborFields
  <2>2. Elapse(n, d) = [n EXCEPT !.left = After(@, d)]
    BY <1>4 DEF Elapse
  <2>3. Elapse(n, d) = Reachable(n.mac, After(n.left, d))
    BY <2>1, <2>2 DEF Reachable
  <2>4. After(n.left, d) \in 0..NeighborTtl /\ (d = 0 => After(n.left, d) = n.left)
    BY <1>2, <2>1
  <2>5. Elapse(n, d) \in NeighborStates
    BY <2>1, <2>3, <2>4, NeighborMade
  <2> QED BY <1>4, <2>3, <2>4, <2>5 DEF Reachable
<1>5. CASE n.state = "resolving"
  <2>1. /\ n.attempts \in 0..MaxArpAttempts /\ n.probe \in 0..RetryInterval
        /\ n.left \in 0..ResolutionTimeout
    BY <1>5, NeighborFields
  <2>2. Elapse(n, d) = Resolving(n.attempts, After(n.probe, d), After(n.left, d))
    BY <1>5 DEF Elapse
  <2>3. After(n.probe, d) \in 0..RetryInterval /\ After(n.left, d) \in 0..ResolutionTimeout
    BY <1>2, <2>1
  <2>4. Elapse(n, d) \in NeighborStates
    BY <2>1, <2>2, <2>3, NeighborMade
  <2> QED BY <1>5, <2>2, <2>4 DEF Resolving
<1>6. CASE n.state = "failed"
  <2>1. n = Failed(n.left) /\ n.left \in 0..FailedRetryDelay
    BY <1>6, NeighborFields
  <2>2. Elapse(n, d) = [n EXCEPT !.left = After(@, d)]
    BY <1>6 DEF Elapse
  <2>3. Elapse(n, d) = Failed(After(n.left, d))
    BY <2>1, <2>2 DEF Failed
  <2>4. After(n.left, d) \in 0..FailedRetryDelay
    BY <1>2, <2>1
  <2>5. Elapse(n, d) \in NeighborStates
    BY <2>3, <2>4, NeighborMade
  <2> QED BY <1>6, <2>3, <2>5 DEF Failed
<1> QED BY <1>3, <1>4, <1>5, <1>6, NeighborFields

\* The timers begin: from idle at any later time, from recv at the same time.
LEMMA BeginTimersSound ==
    ASSUME Counting, IInv, NEW d \in Nat, BeginTimers(d), at = "idle" \/ (at = "recv" /\ d = 0)
    PROVE  IInv'
<1>1. /\ neighbors' = [h \in Ips |-> Elapse(neighbors[h], d)] /\ spare' \in {TRUE, spare}
      /\ at' = "timers" /\ cursor' = 1 /\ sending' = sending /\ control' = control
      /\ pending' = pending /\ UNCHANGED <<config, pending, ready, balance>>
  BY ZenonT(60) DEF BeginTimers, EnsureSpare, queues
<1>2. ASSUME NEW h \in Ips
      PROVE  /\ neighbors'[h] \in NeighborStates \cup {None}
             /\ neighbors'[h] = None <=> neighbors[h] = None
             /\ Known(h) => neighbors'[h].state = neighbors[h].state
             /\ In(h, {"resolving"}) => neighbors'[h].attempts = neighbors[h].attempts
             /\ In(h, {"reachable"}) /\ d = 0 => neighbors'[h].left = neighbors[h].left
  <2>1. neighbors[h] \in NeighborStates \cup {None} /\ neighbors'[h] = Elapse(neighbors[h], d)
    BY <1>1, Sizes DEF Tables
  <2> QED BY <2>1, ElapseTyped DEF Known, In
<1>3. neighbors' \in Tables
  BY ZenonT(60), <1>1, <1>2 DEF Tables
<1>4. \A h \in Ips : In(h, {"resolving"})' <=> In(h, {"resolving"})
  BY <1>2 DEF In, Known
<1>5. Count(neighbors') <= NeighborCapacity
  <2>1. Count(neighbors') <= Count(neighbors) /\ Count(neighbors') \in Nat
    BY ZenonT(60), <1>2, <1>3, Sizes, CountForgets, CountTyped
  <2> QED BY <2>1, Sizes
<1>6. CallsSound'
  BY <1>1, <1>4 DEF IInv, CallsSound, config
<1>7. WaitersServed'
  <2> SUFFICES ASSUME NEW p \in Range(pending) PROVE Awaited(p.hop)' \/ (Mac(p.hop) # None)'
    BY <1>1 DEF WaitersServed
  <2>1. p.hop \in Ips
    BY Hops
  <2>2. CASE Awaited(p.hop)
    BY <1>1, <1>4, <2>1, <2>2 DEF Awaited, Ips
  <2>3. CASE at = "recv" /\ Mac(p.hop) # None
    <3>1. d = 0
      BY <2>3
    <3>2. \/ neighbors[p.hop] # None /\ neighbors[p.hop].state = "static"
          \/ neighbors[p.hop] # None /\ neighbors[p.hop].state = "reachable" /\ neighbors[p.hop].left > 0
      BY <2>1, <2>3, Sizes, MacTyped DEF Mac
    <3>3. \/ neighbors'[p.hop] # None /\ neighbors'[p.hop].state = "static"
          \/ neighbors'[p.hop] # None /\ neighbors'[p.hop].state = "reachable" /\ neighbors'[p.hop].left > 0
      BY <1>2, <2>1, <3>1, <3>2 DEF Known, In
    <3> QED BY <1>3, <2>1, <3>3, MacTyped DEF Mac
  <2>4. at # "timers"
    OBVIOUS
  <2> QED BY <2>2, <2>3, <2>4 DEF IInv, WaitersServed
<1>8. ProbesWanted'
  <2>1. ASSUME NEW h \in Ips, Len(Filter(control, RequestsFor(h))) > 0
        PROVE  In(h, {"resolving"})' /\ Len(Filter(control, RequestsFor(h))) <= neighbors'[h].attempts
    <3>1. In(h, {"resolving"}) /\ Len(Filter(control, RequestsFor(h))) <= neighbors[h].attempts
      BY ZenonT(60), <2>1 DEF IInv, ProbesWanted
    <3>2. neighbors'[h].attempts = neighbors[h].attempts
      BY <1>2, <3>1
    <3> QED BY <1>4, <3>1, <3>2
  <2>2. control' = control
    BY <1>1
  <2> QED BY <2>1, <2>2 DEF ProbesWanted
<1>9. control' \in Seq(ArpFrames) /\ Len(control') <= Len(control) /\ Range(control') \subseteq Range(control)
  BY <1>1, Sizes DEF IInv, Accounted, TypeOK
<1>10. spare' \in BOOLEAN
  BY ZenonT(60), <1>1 DEF IInv, Accounted, TypeOK
<1>11. cursor' \in 0..(NumIps + 1)
  BY <1>1, Positive
<1>12. sending' \in Seq(Dests) /\ Len(pending) + Len(ready) + Len(sending') <= TxCapacity
  BY <1>1, Sizes DEF IInv, Accounted, TypeOK
<1> QED BY <1>1, <1>3, <1>5, <1>6, <1>7, <1>8, <1>9, <1>10, <1>11, <1>12, ControlLess, QuietSound

\* While the timers run: packets wait still, if those for h are served.
LEMMA TimersWait ==
    ASSUME IInv, NEW h \in Ips, TimersOf(h), Range(pending') \subseteq Range(pending),
           \A k \in Ips : k # h => neighbors'[k] = neighbors[k],
           neighbors \in Tables, neighbors' \in Tables,
           \A p \in Range(pending') : p.hop = h =>
              (In(h, {"resolving"})' /\ neighbors'[h].left > 0) \/ MacIn(neighbors', h) # None
    PROVE  WaitersServed'
<1>1. at = "timers" /\ cursor = h /\ cursor' = h + 1 /\ at' = "timers"
  BY DEF TimersOf
<1> SUFFICES ASSUME NEW p \in Range(pending') PROVE Awaited(p.hop)' \/ MacIn(neighbors', p.hop) # None
  BY <1>1 DEF WaitersServed, Mac
<1>2. p.hop \in Ips /\ p \in Range(pending)
  BY Hops
<1>3. CASE p.hop = h
  BY <1>1, <1>3 DEF Awaited
<1>4. CASE p.hop # h
  <2>1. neighbors'[p.hop] = neighbors[p.hop]
    BY <1>2, <1>4
  <2>2. CASE Awaited(p.hop)
    <3>1. In(p.hop, {"resolving"})'
      BY <2>1, <2>2 DEF Awaited, In, Known
    <3>2. p.hop >= h => p.hop >= h + 1
      BY <1>2, <1>4 DEF Ips
    <3> QED BY <1>1, <2>1, <2>2, <3>1, <3>2 DEF Awaited
  <2>3. CASE Mac(p.hop) # None
    BY <2>1, <2>3 DEF Mac, MacIn
  <2> QED BY ZenonT(60), <1>2, <2>2, <2>3 DEF IInv, WaitersServed
<1> QED BY <1>3, <1>4

\* The progress of a run of the timers.
LEMMA TimersTyped ==
    ASSUME Counting, IInv, NEW h \in Ips, TimersOf(h)
    PROVE  /\ at' = "timers" /\ at = "timers" /\ UNCHANGED config
           /\ cursor' \in 0..(NumIps + 1) /\ sending' = sending /\ sending' \in Seq(Dests)
           /\ Len(pending) + Len(ready) + Len(sending') <= TxCapacity
<1>1. at' = "timers" /\ at = "timers" /\ cursor' = h + 1 /\ sending' = sending /\ UNCHANGED config
  BY DEF TimersOf
<1>2. cursor' \in 0..(NumIps + 1)
  BY <1>1, Positive DEF Ips
<1> QED BY <1>1, <1>2, Sizes DEF IInv, Accounted, TypeOK

\* Outside send, only the start of a resolution could break CallsSound.
LEMMA CallsKept ==
    ASSUME IInv, at' # "send", configured' = configured,
           \A k \in Ips : In(k, {"resolving"})' => In(k, {"resolving"}) \/ configured
    PROVE  CallsSound'
BY DEF IInv, CallsSound

\* A mapping or a failure expires.
LEMMA ExpireSound ==
    ASSUME Counting, IInv, NEW h \in Ips, ExpireNeighbor(h)
    PROVE  IInv'
<1>1. /\ TimersOf(h) /\ In(h, {"reachable", "failed"}) /\ neighbors[h].left = 0
      /\ neighbors' = [neighbors EXCEPT ![h] = None]
      /\ pending' = pending /\ control' = control /\ spare' = spare
      /\ UNCHANGED <<pending, ready, balance>>
  BY DEF ExpireNeighbor, queues
<1>2. neighbors' \in Tables /\ neighbors'[h] = None /\ \A k \in Ips : k # h => neighbors'[k] = neighbors[k]
  <2>1. neighbors \in Tables
    BY Sizes
  <2> QED BY <1>1, <2>1 DEF Tables
<1>3. Count(neighbors') <= NeighborCapacity
  <2>1. Count(neighbors') <= Count(neighbors) /\ Count(neighbors') \in Nat
    BY ZenonT(60), <1>2, Sizes, CountForgets, CountTyped
  <2> QED BY <2>1, Sizes
<1>4. \A k \in Ips : In(k, {"resolving"})' <=> In(k, {"resolving"})
  BY <1>1, <1>2 DEF In, Known
<1>5. \A k \in Ips : In(k, {"resolving"}) => neighbors'[k] = neighbors[k]
  BY <1>1, <1>2 DEF In, Known
<1>6. WaitersServed'
  <2>1. ASSUME NEW p \in Range(pending), p.hop = h PROVE FALSE
    <3>1. ~Awaited(h)
      BY <1>1 DEF Awaited, In
    <3>2. Mac(h) = None
      BY <1>1, Sizes, MacTyped DEF Mac, In
    <3> QED BY <2>1, <3>1, <3>2 DEF IInv, WaitersServed
  <2> QED BY ZenonT(60), <1>1, <1>2, <2>1, Sizes, TimersWait
<1>7. CallsSound'
  BY <1>1, <1>4, TimersTyped, CallsKept DEF config
<1>8. ProbesWanted'
  BY <1>1, <1>4, <1>5 DEF IInv, ProbesWanted
<1>9. control' \in Seq(ArpFrames) /\ Len(control') <= Len(control) /\ Range(control') \subseteq Range(control)
      /\ spare' \in BOOLEAN
  <2>1. control' = control /\ spare' = spare
    BY <1>1
  <2>2. control \in Seq(ArpFrames) /\ Len(control) \in Nat /\ spare \in BOOLEAN
    BY DEF IInv, Accounted, TypeOK
  <2> QED BY <2>1, <2>2
<1> QED BY <1>1, <1>2, <1>3, <1>6, <1>7, <1>8, <1>9, TimersTyped, ControlLess, QuietSound

\* Nothing is due for this neighbor.
LEMMA KeepSound ==
    ASSUME Counting, IInv, NEW h \in Ips, KeepNeighbor(h)
    PROVE  IInv'
<1>1. /\ TimersOf(h) /\ ~(In(h, {"reachable", "failed", "resolving"}) /\ neighbors[h].left = 0)
      /\ neighbors' = neighbors /\ pending' = pending /\ control' = control /\ spare' = spare
      /\ UNCHANGED <<pending, ready, balance>>
  BY DEF KeepNeighbor, queues
<1>2. neighbors' \in Tables /\ Count(neighbors') <= NeighborCapacity
  BY <1>1, Sizes
<1>3. \A k \in Ips : In(k, {"resolving"})' <=> In(k, {"resolving"})
  BY <1>1 DEF In, Known
<1>4. WaitersServed'
  <2>1. ASSUME NEW p \in Range(pending), p.hop = h
        PROVE  (In(h, {"resolving"})' /\ neighbors'[h].left > 0) \/ MacIn(neighbors', h) # None
    <3>1. CASE Awaited(h)
      <4>1. In(h, {"resolving"}) /\ In(h, {"reachable", "failed", "resolving"})
        BY <3>1 DEF Awaited, In
      <4>2. neighbors[h] \in NeighborStates /\ neighbors[h].state = "resolving"
        BY <4>1, Sizes DEF In, Known, Tables
      <4>3. neighbors[h].left \in Nat
        BY <4>2, NeighborFields, Positive
      <4>4. neighbors[h].left > 0
        BY <1>1, <4>1, <4>3
      <4> QED BY <1>1, <1>3, <4>1, <4>4
    <3>2. CASE Mac(h) # None
      BY <1>1, <3>2 DEF Mac
    <3> QED BY <2>1, <3>1, <3>2 DEF IInv, WaitersServed
  <2>2. /\ TimersOf(h) /\ Range(pending') = Range(pending) /\ neighbors \in Tables
        /\ \A k \in Ips : k # h => neighbors'[k] = neighbors[k]
    BY <1>1, Sizes
  <2>3. Range(pending') \subseteq Range(pending)
    BY <2>2
  <2> QED BY ZenonT(60), <1>2, <2>1, <2>2, <2>3, TimersWait
<1>5. CallsSound'
  BY <1>1, <1>3, TimersTyped, CallsKept DEF config
<1>6. ProbesWanted'
  BY <1>1, <1>3 DEF IInv, ProbesWanted
<1>7. control' \in Seq(ArpFrames) /\ Len(control') <= Len(control) /\ Range(control') \subseteq Range(control)
      /\ spare' \in BOOLEAN
  <2>1. control' = control /\ spare' = spare
    BY <1>1
  <2>2. control \in Seq(ArpFrames) /\ Len(control) \in Nat /\ spare \in BOOLEAN
    BY DEF IInv, Accounted, TypeOK
  <2> QED BY <2>1, <2>2
<1>8. /\ Len(control') <= ControlCapacity /\ \A f \in Range(control') : f.src = address
      /\ ~configured => control' = <<>>
  BY ZenonT(60), <1>7, ControlLess
<1>9. UNCHANGED <<config, pending, ready, balance>>
  BY <1>1, TimersTyped
<1>10. /\ at' \in {"idle", "timers", "recv", "send"}
       /\ cursor' \in 0..(NumIps + 1) /\ sending' \in Seq(Dests)
       /\ Len(pending) + Len(ready) + Len(sending') <= TxCapacity
  BY ZenonT(60), <1>1, TimersTyped
<1> QED BY ZenonT(60), <1>2, <1>4, <1>5, <1>6, <1>7, <1>8, <1>9, <1>10, QuietSound

\* An address just learned is usable.
LEMMA FreshMade ==
    NeighborTtl > 0 /\ \A m \in Macs : Reachable(m, NeighborTtl) \in NeighborStates
<1>1. NeighborTtl \in Nat /\ NeighborTtl > 0
  BY Positive
<1>2. NeighborTtl \in 0..NeighborTtl
  BY <1>1
<1> QED BY ZenonT(60), <1>1, <1>2, NeighborMade

\* A table with one entry more, or other, than a typed one.
LEMMA Entered ==
    ASSUME NEW table \in Tables, NEW h \in Ips, NEW n \in NeighborStates \cup {None}
    PROVE  /\ [table EXCEPT ![h] = n] \in Tables
           /\ [table EXCEPT ![h] = n][h] = n
           /\ \A k \in Ips : k # h => [table EXCEPT ![h] = n][k] = table[k]
BY DEF Tables

-----------------------------------------------------------------------------
(* Filter, by induction over the length of the sequence *)

\* A set that holds 0 and with a number the next one holds all numbers.
Induction == \A G : 0 \in G /\ (\A n \in Nat : n \in G => n + 1 \in G) => Nat \subseteq G

\* Induction as a rule.
LEMMA Induct ==
    ASSUME Induction, NEW G, 0 \in G, \A n \in Nat : n \in G => n + 1 \in G
    PROVE  Nat \subseteq G
BY DEF Induction

\* One more element looked at.
Step(f, s, S, i) == IF i = 0 THEN <<>> ELSE IF s[i] \in S THEN Append(f[i - 1], s[i]) ELSE f[i - 1]

\* The function that Filter defines by recursion exists.
LEMMA KeptExists ==
    ASSUME Induction, NEW s, NEW S, NEW N \in Nat
    PROVE  \E f : f = [i \in 0..N |-> Step(f, s, S, i)]
<1> DEFINE G == {n \in Nat : \E f : f = [i \in 0..n |-> Step(f, s, S, i)]}
<1>1. 0 \in G
  <2> DEFINE f == [i \in 0..0 |-> <<>>]
  <2>1. f = [i \in 0..0 |-> Step(f, s, S, i)]
    BY DEF Step
  <2> HIDE DEF f
  <2> QED BY <2>1
<1>2. ASSUME NEW n \in Nat, n \in G PROVE n + 1 \in G
  <2>1. PICK f : f = [i \in 0..n |-> Step(f, s, S, i)]
    BY <1>2
  <2> DEFINE g == [i \in 0..n + 1 |-> Step(f, s, S, i)]
  <2>2. \A i \in 0..n : g[i] = f[i]
    <3>1. \A i \in 0..n : i \in 0..n + 1
      OBVIOUS
    <3>2. \A i \in 0..n : f[i] = Step(f, s, S, i)
      BY <2>1, ZenonT(60)
    <3> QED BY <3>1, <3>2
  <2>3. \A i \in 0..n + 1 : Step(f, s, S, i) = Step(g, s, S, i)
    <3>1. \A i \in 0..n + 1 : i # 0 => i - 1 \in 0..n
      OBVIOUS
    <3>2. \A i \in 0..n + 1 : i # 0 => f[i - 1] = g[i - 1]
      BY ZenonT(60), <2>2, <3>1
    <3> HIDE DEF g
    <3> QED BY <3>2 DEF Step
  <2>4. g = [i \in 0..n + 1 |-> Step(g, s, S, i)]
    BY <2>3, ZenonT(60)
  <2> HIDE DEF g
  <2> QED BY <2>4
<1>3. Nat \subseteq G
  <2> HIDE DEF G
  <2> QED BY <1>1, <1>2, Induct
<1> QED BY <1>3

\* That function, by name.
Kept(s, S, n) == CHOOSE f : f = [i \in 0..n |-> Step(f, s, S, i)]

\* It satisfies its recursive equation.
LEMMA KeptStep ==
    ASSUME Induction, NEW s, NEW S, NEW N \in Nat, NEW i \in 0..N
    PROVE  Kept(s, S, N)[i] = Step(Kept(s, S, N), s, S, i)
<1> DEFINE k == Kept(s, S, N)
<1>1. k = [j \in 0..N |-> Step(k, s, S, j)]
  BY KeptExists DEF Kept
<1> HIDE DEF k
<1>2. k[i] = Step(k, s, S, i)
  BY <1>1, ZenonT(60)
<1> QED BY <1>2 DEF k

\* Filter is its last value.
LEMMA FilterKept ==
    ASSUME NEW s, NEW S
    PROVE  Filter(s, S) = Kept(s, S, Len(s))[Len(s)]
BY DEF Filter, Kept, Step

\* What was kept of a prefix depends on that prefix only.
LEMMA KeptPrefix ==
    ASSUME Induction, NEW s, NEW t, NEW S, NEW M \in Nat, NEW N \in Nat, NEW n \in Nat, n <= M, n <= N,
           \A i \in 1..n : s[i] = t[i]
    PROVE  Kept(s, S, M)[n] = Kept(t, S, N)[n]
<1> DEFINE k == Kept(s, S, M)
           l == Kept(t, S, N)
           G == {m \in Nat : m <= n => k[m] = l[m]}
<1>1. 0 \in G
  BY KeptStep DEF Step
<1>2. ASSUME NEW m \in Nat, m \in G PROVE m + 1 \in G
  <2> SUFFICES ASSUME m + 1 <= n PROVE k[m + 1] = l[m + 1]
    OBVIOUS
  <2>1. k[m] = l[m] /\ s[m + 1] = t[m + 1] /\ m + 1 # 0 /\ (m + 1) - 1 = m
    BY <1>2
  <2>2. k[m + 1] = Step(k, s, S, m + 1)
    BY KeptStep
  <2>3. l[m + 1] = Step(l, t, S, m + 1)
    BY KeptStep
  <2> HIDE DEF k, l
  <2> QED BY <2>1, <2>2, <2>3 DEF Step
<1>3. Nat \subseteq G
  <2> HIDE DEF G
  <2> QED BY <1>1, <1>2, Induct
<1> QED BY <1>3

\* Nothing is kept of the empty sequence.
LEMMA FilterEmpty == ASSUME Induction PROVE \A S : Filter(<<>>, S) = <<>>
<1> SUFFICES ASSUME NEW S PROVE Filter(<<>>, S) = <<>>
  OBVIOUS
<1>1. Len(<<>>) = 0
  OBVIOUS
<1>2. Kept(<<>>, S, 0)[0] = Step(Kept(<<>>, S, 0), <<>>, S, 0)
  BY KeptStep
<1> QED BY <1>1, <1>2, FilterKept DEF Step

\* An appended element is kept or not, after what was kept before it.
LEMMA FilterAppend ==
    ASSUME Induction, NEW T, NEW s \in Seq(T), NEW e \in T, NEW S
    PROVE  Filter(Append(s, e), S) = IF e \in S THEN Append(Filter(s, S), e) ELSE Filter(s, S)
<1> DEFINE t == Append(s, e)
           n == Len(s)
<1>1. n \in Nat /\ Len(t) = n + 1 /\ t[n + 1] = e /\ \A i \in 1..n : s[i] = t[i]
  OBVIOUS
<1>2. Kept(t, S, n + 1)[n] = Kept(s, S, n)[n]
  <2> HIDE DEF t, n
  <2> QED BY <1>1, KeptPrefix
<1> HIDE DEF t
<1>3. Kept(t, S, n + 1)[n + 1] = Step(Kept(t, S, n + 1), t, S, n + 1)
  BY <1>1, KeptStep
<1>4. Filter(t, S) = Kept(t, S, n + 1)[n + 1] /\ Filter(s, S) = Kept(s, S, n)[n]
  BY <1>1, FilterKept
<1>5. n + 1 # 0 /\ (n + 1) - 1 = n
  BY <1>1
<1> HIDE DEF n
<1>6. Filter(t, S) = IF e \in S THEN Append(Filter(s, S), e) ELSE Filter(s, S)
  BY <1>1, <1>2, <1>3, <1>4, <1>5 DEF Step
<1> QED BY <1>6 DEF t

\* A property of sequences that Append preserves holds of all: the set G of good ones.
LEMMA SeqInduct ==
    ASSUME Induction, NEW T, NEW G, <<>> \in G,
           \A s \in Seq(T), e \in T : s \in G => Append(s, e) \in G
    PROVE  Seq(T) \subseteq G
<1> DEFINE L == {n \in Nat : \A s \in Seq(T) : Len(s) = n => s \in G}
<1>1. 0 \in L
  <2>1. \A s \in Seq(T) : Len(s) = 0 => s = <<>>
    OBVIOUS
  <2> QED BY <2>1
<1>2. ASSUME NEW n \in Nat, n \in L PROVE n + 1 \in L
  <2> SUFFICES ASSUME NEW s \in Seq(T), Len(s) = n + 1 PROVE s \in G
    OBVIOUS
  <2>1. PICK f \in Seq(T), e \in T : s = Append(f, e)
    <3> DEFINE front == SubSeq(s, 1, n)
    <3>1. /\ front \in Seq(T) /\ Len(front) = n /\ s[n + 1] \in T
          /\ \A i \in 1..n : front[i] = s[i]
      OBVIOUS
    <3> HIDE DEF front
    <3>2. s = Append(front, s[n + 1])
      BY <3>1
    <3> QED BY <3>1, <3>2
  <2>2. Len(f) = n
    BY <2>1
  <2> QED BY <1>2, <2>1, <2>2
<1>3. Nat \subseteq L
  <2> HIDE DEF L
  <2> QED BY <1>1, <1>2, Induct
<1>4. \A s \in Seq(T) : Len(s) \in Nat
  OBVIOUS
<1> QED BY <1>3, <1>4

\* What is kept are elements of the sequence that are in S.
LEMMA FilterType ==
    ASSUME Induction, NEW T, NEW S
    PROVE  \A s \in Seq(T) : Filter(s, S) \in Seq(T) /\ Filter(s, S) \in Seq(S)
<1> DEFINE G == {s \in Seq(T) : Filter(s, S) \in Seq(T) /\ Filter(s, S) \in Seq(S)}
<1>1. <<>> \in G
  <2>1. <<>> \in Seq(T) /\ <<>> \in Seq(S)
    OBVIOUS
  <2> QED BY ZenonT(60), <2>1, FilterEmpty
<1>2. ASSUME NEW s \in Seq(T), NEW e \in T, s \in G PROVE Append(s, e) \in G
  <2>1. Append(s, e) \in Seq(T)
    OBVIOUS
  <2>2. Filter(s, S) \in Seq(T) /\ Filter(s, S) \in Seq(S)
    BY <1>2
  <2>3. Filter(Append(s, e), S) \in Seq(T) /\ Filter(Append(s, e), S) \in Seq(S)
    <3>1. CASE e \in S
      <4>1. Filter(Append(s, e), S) = Append(Filter(s, S), e)
        BY <3>1, FilterAppend
      <4> QED BY <2>2, <3>1, <4>1
    <3>2. CASE e \notin S
      <4>1. Filter(Append(s, e), S) = Filter(s, S)
        BY <3>2, FilterAppend
      <4> QED BY <2>2, <4>1
    <3> QED BY <3>1, <3>2
  <2> QED BY <2>1, <2>3
<1>3. Seq(T) \subseteq G
  <2> HIDE DEF G
  <2> QED BY <1>1, <1>2, SeqInduct
<1> QED BY <1>3

\* A sequence is its length and its elements.
LEMMA SameSequence ==
    ASSUME NEW T, NEW s \in Seq(T), NEW t \in Seq(T), Len(s) = Len(t),
           \A i \in 1..Len(s) : s[i] = t[i]
    PROVE  s = t
OBVIOUS

\* Two sequences, one after the other: their type and length ...
LEMMA ConcatTyped ==
    ASSUME NEW T, NEW s \in Seq(T), NEW t \in Seq(T)
    PROVE  s \o t \in Seq(T) /\ Len(s \o t) = Len(s) + Len(t)
OBVIOUS

\* ... and their elements.
LEMMA RangeConcat ==
    ASSUME NEW T, NEW s \in Seq(T), NEW t \in Seq(T)
    PROVE  Range(s \o t) = Range(s) \cup Range(t)
<1>1. /\ s \o t \in Seq(T) /\ Len(s \o t) = Len(s) + Len(t) /\ Len(s) \in Nat /\ Len(t) \in Nat
      /\ \A i \in 1..Len(s) : (s \o t)[i] = s[i]
      /\ \A i \in 1..Len(t) : (s \o t)[Len(s) + i] = t[i]
  OBVIOUS
<1>2. /\ DOMAIN (s \o t) = 1..(Len(s) + Len(t)) /\ DOMAIN s = 1..Len(s) /\ DOMAIN t = 1..Len(t)
  BY <1>1
<1>3. ASSUME NEW i \in 1..(Len(s) + Len(t)), ~(i \in 1..Len(s))
      PROVE  i - Len(s) \in 1..Len(t) /\ (s \o t)[i] = t[i - Len(s)]
  BY <1>1, <1>3
<1>4. \A i \in 1..Len(s) : i \in 1..(Len(s) + Len(t))
  BY <1>1
<1>5. \A i \in 1..Len(t) : Len(s) + i \in 1..(Len(s) + Len(t))
  BY <1>1
<1>6. ASSUME NEW x \in Range(s \o t) PROVE x \in Range(s) \cup Range(t)
  <2>1. PICK i \in 1..(Len(s) + Len(t)) : x = (s \o t)[i]
    BY ZenonT(60), <1>2, <1>6 DEF Range
  <2>2. CASE i \in 1..Len(s)
    BY ZenonT(60), <1>1, <1>2, <2>1, <2>2 DEF Range
  <2>3. CASE ~(i \in 1..Len(s))
    BY ZenonT(60), <1>2, <1>3, <2>1, <2>3 DEF Range
  <2> QED BY <2>2, <2>3
<1>7. Range(s) \subseteq Range(s \o t)
  BY ZenonT(60), <1>1, <1>2, <1>4 DEF Range
<1>8. Range(t) \subseteq Range(s \o t)
  BY ZenonT(60), <1>1, <1>2, <1>5 DEF Range
<1> QED BY ZenonT(60), <1>6, <1>7, <1>8

\* The elements kept are those of the sequence that are in S.
LEMMA FilterRange ==
    ASSUME Induction, NEW T, NEW S
    PROVE  \A s \in Seq(T) : Range(Filter(s, S)) = Range(s) \cap S
<1> DEFINE G == {s \in Seq(T) : Range(Filter(s, S)) = Range(s) \cap S}
<1>1. <<>> \in G
  BY FilterEmpty DEF Range
<1>2. ASSUME NEW s \in Seq(T), NEW e \in T, s \in G PROVE Append(s, e) \in G
  <2>1. Range(Append(s, e)) = Range(s) \cup {e}
    BY RangeAppend
  <2>2. Range(Append(Filter(s, S), e)) = Range(Filter(s, S)) \cup {e}
    BY FilterType, RangeAppend
  <2>3. Range(Filter(s, S)) = Range(s) \cap S /\ Append(s, e) \in Seq(T)
    BY <1>2
  <2>4. Range(Filter(Append(s, e), S)) = Range(Append(s, e)) \cap S
    <3>1. CASE e \in S
      <4>1. Filter(Append(s, e), S) = Append(Filter(s, S), e)
        BY <3>1, FilterAppend
      <4> QED BY <2>1, <2>2, <2>3, <3>1, <4>1
    <3>2. CASE e \notin S
      <4>1. Filter(Append(s, e), S) = Filter(s, S)
        BY <3>2, FilterAppend
      <4> QED BY <2>1, <2>3, <3>2, <4>1
    <3> QED BY <3>1, <3>2
  <2> QED BY <2>3, <2>4
<1>3. Seq(T) \subseteq G
  <2> HIDE DEF G
  <2> QED BY <1>1, <1>2, SeqInduct
<1> QED BY <1>3

\* Every element is kept by a set or by its complement.
LEMMA FilterSplit ==
    ASSUME Induction, NEW T, NEW S
    PROVE  \A s \in Seq(T) : Len(Filter(s, S)) + Len(Filter(s, T \ S)) = Len(s)
<1> DEFINE G == {s \in Seq(T) : Len(Filter(s, S)) + Len(Filter(s, T \ S)) = Len(s)}
<1>1. <<>> \in G
  BY FilterEmpty
<1>2. ASSUME NEW s \in Seq(T), NEW e \in T, s \in G PROVE Append(s, e) \in G
  <2>1. Filter(s, S) \in Seq(T) /\ Filter(s, T \ S) \in Seq(T)
    BY FilterType
  <2>2. /\ Len(Append(s, e)) = Len(s) + 1
        /\ Len(Append(Filter(s, S), e)) = Len(Filter(s, S)) + 1
        /\ Len(Append(Filter(s, T \ S), e)) = Len(Filter(s, T \ S)) + 1
        /\ Len(s) \in Nat /\ Len(Filter(s, S)) \in Nat /\ Len(Filter(s, T \ S)) \in Nat
    BY <2>1
  <2>3. CASE e \in S
    <3>1. Filter(Append(s, e), S) = Append(Filter(s, S), e)
      BY <2>3, FilterAppend
    <3>2. Filter(Append(s, e), T \ S) = Filter(s, T \ S)
      BY <2>3, FilterAppend
    <3> QED BY <1>2, <2>2, <3>1, <3>2
  <2>4. CASE e \notin S
    <3>1. Filter(Append(s, e), S) = Filter(s, S)
      BY <2>4, FilterAppend
    <3>2. Filter(Append(s, e), T \ S) = Append(Filter(s, T \ S), e)
      BY <2>4, FilterAppend
    <3> QED BY <1>2, <2>2, <3>1, <3>2
  <2> QED BY <2>3, <2>4
<1>3. Seq(T) \subseteq G
  <2> HIDE DEF G
  <2> QED BY <1>1, <1>2, SeqInduct
<1> QED BY ZenonT(60), <1>3

\* Filtering twice keeps what both sets hold.
LEMMA FilterTwice ==
    ASSUME Induction, NEW T, NEW A, NEW B
    PROVE  \A s \in Seq(T) : Filter(Filter(s, A), B) = Filter(s, A \cap B)
<1> DEFINE G == {s \in Seq(T) : Filter(Filter(s, A), B) = Filter(s, A \cap B)}
<1>1. <<>> \in G
  BY FilterEmpty
<1>2. ASSUME NEW s \in Seq(T), NEW e \in T, s \in G PROVE Append(s, e) \in G
  <2>1. Filter(s, A) \in Seq(T)
    BY FilterType
  <2>2. Filter(Append(Filter(s, A), e), B) =
          IF e \in B THEN Append(Filter(Filter(s, A), B), e) ELSE Filter(Filter(s, A), B)
    BY <2>1, FilterAppend
  <2>3. Filter(Append(s, e), A) = IF e \in A THEN Append(Filter(s, A), e) ELSE Filter(s, A)
    BY FilterAppend
  <2>4. Filter(Append(s, e), A \cap B) =
          IF e \in A \cap B THEN Append(Filter(s, A \cap B), e) ELSE Filter(s, A \cap B)
    BY FilterAppend
  <2>5. Filter(Filter(s, A), B) = Filter(s, A \cap B) /\ Append(s, e) \in Seq(T)
    BY <1>2
  <2>6. Filter(Filter(Append(s, e), A), B) = Filter(Append(s, e), A \cap B)
    <3>1. CASE e \in A
      <4>1. Filter(Append(s, e), A) = Append(Filter(s, A), e)
        BY <2>3, <3>1
      <4>2. CASE e \in B
        BY ZenonT(60), <2>2, <2>4, <2>5, <3>1, <4>1, <4>2
      <4>3. CASE e \notin B
        BY <2>2, <2>4, <2>5, <4>1, <4>3
      <4> QED BY <4>2, <4>3
    <3>2. CASE e \notin A
      BY <2>3, <2>4, <2>5, <3>2
    <3> QED BY <3>1, <3>2
  <2> QED BY <2>5, <2>6
<1>3. Seq(T) \subseteq G
  <2> HIDE DEF G
  <2> QED BY <1>1, <1>2, SeqInduct
<1> QED BY ZenonT(60), <1>3

\* Filtering a concatenation filters its two parts.
LEMMA FilterConcat ==
    ASSUME Induction, NEW T, NEW s \in Seq(T), NEW S
    PROVE  \A t \in Seq(T) : Filter(s \o t, S) = Filter(s, S) \o Filter(t, S)
<1> DEFINE G == {t \in Seq(T) : Filter(s \o t, S) = Filter(s, S) \o Filter(t, S)}
<1>1. <<>> \in G
  <2>1. Filter(s, S) \in Seq(T)
    BY FilterType
  <2> QED BY <2>1, FilterEmpty
<1>2. ASSUME NEW t \in Seq(T), NEW e \in T, t \in G PROVE Append(t, e) \in G
  <2>1. Filter(s, S) \in Seq(T) /\ Filter(t, S) \in Seq(T) /\ s \o t \in Seq(T)
    BY FilterType
  <2>2. s \o Append(t, e) = Append(s \o t, e)
    OBVIOUS
  <2>3. Filter(s, S) \o Append(Filter(t, S), e) = Append(Filter(s, S) \o Filter(t, S), e)
    BY <2>1
  <2>4. Filter(Append(t, e), S) = IF e \in S THEN Append(Filter(t, S), e) ELSE Filter(t, S)
    BY FilterAppend
  <2>5. Filter(Append(s \o t, e), S) = IF e \in S THEN Append(Filter(s \o t, S), e) ELSE Filter(s \o t, S)
    BY ZenonT(60), <2>1, FilterAppend
  <2>6. Filter(s \o t, S) = Filter(s, S) \o Filter(t, S) /\ Append(t, e) \in Seq(T)
    BY <1>2
  <2>7. Filter(s \o Append(t, e), S) = Filter(s, S) \o Filter(Append(t, e), S)
    <3>1. CASE e \in S
      BY ZenonT(60), <2>2, <2>3, <2>4, <2>5, <2>6, <3>1
    <3>2. CASE e \notin S
      BY <2>2, <2>4, <2>5, <2>6, <3>2
    <3> QED BY <3>1, <3>2
  <2> QED BY <2>6, <2>7
<1>3. Seq(T) \subseteq G
  <2> HIDE DEF G
  <2> QED BY <1>1, <1>2, SeqInduct
<1> QED BY <1>3


\* Nothing is kept when nothing is wanted.
LEMMA FilterNone ==
    ASSUME Induction, NEW T, NEW S
    PROVE  \A s \in Seq(T) : Range(s) \cap S = {} => Filter(s, S) = <<>>
<1> SUFFICES ASSUME NEW s \in Seq(T), Range(s) \cap S = {} PROVE Filter(s, S) = <<>>
  OBVIOUS
<1> DEFINE f == Filter(s, S)
<1>1. f \in Seq(T) /\ Range(f) = {}
  BY FilterType, FilterRange
<1> HIDE DEF f
<1>2. Len(f) = 0
  <2>1. \A i \in 1..Len(f) : f[i] \in Range(f)
    BY <1>1 DEF Range
  <2> QED BY <1>1, <2>1
<1> QED BY <1>1, <1>2 DEF f

\* No more is kept than there was.
LEMMA FilterShorter ==
    ASSUME Induction, NEW T, NEW S
    PROVE  \A s \in Seq(T) : Len(Filter(s, S)) \in Nat /\ Len(Filter(s, S)) <= Len(s)
<1> SUFFICES ASSUME NEW s \in Seq(T)
             PROVE  Len(Filter(s, S)) \in Nat /\ Len(Filter(s, S)) <= Len(s)
  OBVIOUS
<1>1. Filter(s, S) \in Seq(T) /\ Filter(s, T \ S) \in Seq(T)
  BY FilterType
<1>2. Len(Filter(s, S)) \in Nat /\ Len(Filter(s, T \ S)) \in Nat /\ Len(s) \in Nat
  BY <1>1
<1>3. Len(Filter(s, S)) + Len(Filter(s, T \ S)) = Len(s)
  BY FilterSplit
<1> QED BY <1>2, <1>3

\* A filtered sequence has at most as many elements of a set as the whole.
LEMMA FilterFewer ==
    ASSUME Induction, NEW T, NEW A, NEW B
    PROVE  \A s \in Seq(T) : Len(Filter(Filter(s, A), B)) <= Len(Filter(s, B))
<1> SUFFICES ASSUME NEW s \in Seq(T)
             PROVE  Len(Filter(Filter(s, A), B)) <= Len(Filter(s, B))
  OBVIOUS
<1>1. A \cap B = B \cap A
  OBVIOUS
<1>2. Filter(Filter(s, A), B) = Filter(Filter(s, B), A)
  <2>1. Filter(Filter(s, A), B) = Filter(s, A \cap B)
    BY FilterTwice
  <2>2. Filter(Filter(s, B), A) = Filter(s, B \cap A)
    BY FilterTwice
  <2> QED BY ZenonT(60), <1>1, <2>1, <2>2
<1>3. Filter(s, B) \in Seq(T)
  BY FilterType
<1> QED BY <1>2, <1>3, FilterShorter

\* So has the rest of a sequence after its first c elements.
LEMMA FilterSuffix ==
    ASSUME Induction, NEW T, NEW s \in Seq(T), NEW S, NEW c \in 0..Len(s)
    PROVE  /\ SubSeq(s, c + 1, Len(s)) \in Seq(T)
           /\ Len(SubSeq(s, c + 1, Len(s))) = Len(s) - c
           /\ Range(SubSeq(s, c + 1, Len(s))) \subseteq Range(s)
           /\ Len(Filter(SubSeq(s, c + 1, Len(s)), S)) <= Len(Filter(s, S))
<1> DEFINE a == SubSeq(s, 1, c)
           b == SubSeq(s, c + 1, Len(s))
<1>1. a \in Seq(T) /\ b \in Seq(T) /\ Len(b) = Len(s) - c /\ Len(a) = c
  OBVIOUS
<1>2. \A i \in 1..Len(b) : b[i] = s[c + i]
  OBVIOUS
<1>3. s = a \o b
  <2>0. \A i \in 1..c : a[i] = s[i]
    OBVIOUS
  <2>1. /\ \A i \in 1..c : a[i] = s[i]
        /\ \A i \in 1..(Len(s) - c) : b[i] = s[c + i]
    BY <1>1, <1>2, <2>0
  <2> HIDE DEF a, b
  <2>2. a \o b \in Seq(T) /\ Len(a \o b) = Len(s)
    BY <1>1
  <2>3. ASSUME NEW i \in 1..Len(s) PROVE (a \o b)[i] = s[i]
    <3>1. CASE i <= c
      <4>1. i \in 1..c /\ (a \o b)[i] = a[i]
        BY <1>1, <3>1
      <4> QED BY <2>1, <4>1
    <3>2. CASE ~(i <= c)
      <4>1. i - c \in 1..(Len(s) - c) /\ (a \o b)[i] = b[i - c] /\ c + (i - c) = i
        BY <1>1, <3>2
      <4>2. b[i - c] = s[c + (i - c)]
        BY <2>1, <4>1
      <4> QED BY <4>1, <4>2
    <3> QED BY ZenonT(60), <3>1, <3>2
  <2> QED BY ZenonT(60), <2>2, <2>3, SameSequence
<1> HIDE DEF a, b
<1>4. Range(b) \subseteq Range(s)
  <2>1. ASSUME NEW i \in 1..Len(b) PROVE b[i] = s[c + i] /\ c + i \in 1..Len(s)
    BY <1>1, <1>2
  <2>2. DOMAIN b = 1..Len(b) /\ DOMAIN s = 1..Len(s)
    BY <1>1
  <2> QED BY ZenonT(60), <2>1, <2>2 DEF Range
<1>5. Filter(s, S) = Filter(a, S) \o Filter(b, S)
  BY <1>1, <1>3, FilterConcat
<1>6. Filter(a, S) \in Seq(T) /\ Filter(b, S) \in Seq(T)
  BY <1>1, FilterType
<1>7. Len(Filter(b, S)) <= Len(Filter(s, S))
  BY <1>5, <1>6
<1> QED BY <1>1, <1>4, <1>7 DEF b

=============================================================================
