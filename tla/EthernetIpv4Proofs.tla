------------------------- MODULE EthernetIpv4Proofs -------------------------
(***************************************************************************)
(* Proofs about EthernetIpv4 for any number of addresses, any routes and   *)
(* any capacities and times: every accepted packet is counted, whatever is *)
(* queued agrees with the present configuration, and nothing waits for a   *)
(* resolution that is not running.  One lemma for each action shows that   *)
(* it keeps the invariant IInv of EthernetIpv4Lemmas.                      *)
(***************************************************************************)
EXTENDS EthernetIpv4Lemmas

\* Time for the provers on a busy machine.
USE SMTT(60)

\* release_resolved on typed queues: every packet is framed or left, framed
\* packets keep their destination, next hop and source.
LEMMA ReleaseTyped ==
    ASSUME Induction, pending \in Seq(Packets), ready \in Seq(Frames), NEW table \in Tables
    PROVE  /\ Unresolved(table) \in Seq(Packets) /\ Released(table) \in Seq(Frames)
           /\ Len(Unresolved(table)) + Len(Released(table)) = Len(pending) + Len(ready)
           /\ Range(Unresolved(table)) = Range(pending) \ Sendables(table)
           /\ \A f \in Range(Released(table)) :
                 \/ f \in Range(ready)
                 \/ \E p \in Range(pending) :
                       f.dest = p.dest /\ f.hop = p.hop /\ f.src = p.src
<1> DEFINE r == Resolved(table)
           u == Unresolved(table)
           g == [i \in DOMAIN r |-> Framed(r[i], MacIn(table, r[i].hop))]
<1>1. u \in Seq(Packets) /\ r \in Seq(Packets) /\ r \in Seq(Sendables(table))
  BY FilterType DEF Unresolved, Resolved
<1>2. Len(r) + Len(u) = Len(pending)
  BY FilterSplit DEF Unresolved, Resolved
<1>3. Range(u) = Range(pending) \cap (Packets \ Sendables(table)) /\ Range(r) \subseteq Range(pending)
  BY FilterRange DEF Unresolved, Resolved
<1>4. Range(pending) \subseteq Packets
  BY DEF Range
<1> HIDE DEF r, u
<1>5. ASSUME NEW i \in 1..Len(r)
      PROVE  /\ g[i] \in Frames /\ r[i] \in Range(pending)
             /\ g[i].dest = r[i].dest /\ g[i].hop = r[i].hop /\ g[i].src = r[i].src
  <2>1. r[i] \in Packets /\ r[i] \in Sendables(table) /\ r[i] \in Range(r)
    BY <1>1 DEF Range
  <2>2. r[i].hop \in Ips /\ MacIn(table, r[i].hop) # None
    BY <2>1 DEF Sendables, Packets
  <2>3. MacIn(table, r[i].hop) \in Macs
    BY <2>2, MacTyped
  <2>4. g[i] = Framed(r[i], MacIn(table, r[i].hop))
    BY <1>1
  <2> QED BY <1>3, <2>1, <2>3, <2>4 DEF Framed, Frames, Packets
<1>6. g \in Seq(Frames) /\ Len(g) = Len(r) /\ Released(table) = ready \o g
  <2>1. Released(table) = ready \o g
    BY DEF Released, r
  <2>2. DOMAIN r = 1..Len(r) /\ Len(r) \in Nat
    BY <1>1
  <2> QED BY <1>5, <2>1, <2>2
<1> HIDE DEF g
<1>7. Len(Released(table)) = Len(ready) + Len(r) /\ Released(table) \in Seq(Frames)
  <2>1. Len(ready \o g) = Len(ready) + Len(g) /\ ready \o g \in Seq(Frames)
    BY ZenonT(60), <1>6, ConcatTyped
  <2> QED BY ZenonT(60), <1>6, <2>1
<1>8. Range(Released(table)) = Range(ready) \cup Range(g)
  BY <1>6, RangeConcat
<1>9. \A f \in Range(g) : \E i \in 1..Len(r) : f = g[i]
  BY <1>6 DEF Range
<1>10. \A f \in Range(g) : \E p \in Range(pending) :
          f.dest = p.dest /\ f.hop = p.hop /\ f.src = p.src
  BY <1>5, <1>9
<1>11. Range(u) = Range(pending) \ Sendables(table)
  BY <1>3, <1>4
<1>12. Len(u) \in Nat /\ Len(r) \in Nat /\ Len(ready) \in Nat
  BY <1>1
<1>13. Len(u) + Len(Released(table)) = Len(pending) + Len(ready)
  BY <1>2, <1>7, <1>12
<1> QED BY <1>1, <1>7, <1>8, <1>10, <1>11, <1>13 DEF u

\* Empty queues satisfy every limit and hold no obsolete decision.
LEMMA EmptiedSound == ASSUME Induction PROVE IInv /\ Emptied => IInv'
<1> SUFFICES ASSUME IInv, Emptied PROVE IInv'
  OBVIOUS
<1> USE DEF IInv, Accounted
<1>1. Len(pending) \in Nat /\ Len(ready) \in Nat /\ Len(sending) \in Nat /\ balance' = 0
      /\ TxCapacity \in Nat /\ ControlCapacity \in Nat /\ PerNeighborCapacity \in Nat
  BY Positive DEF TypeOK, Emptied
<1>2. TypeOK'
  BY <1>1 DEF Emptied, TypeOK, call, Tables
<1>3. pending' = <<>> /\ ready' = <<>> /\ control' = <<>> /\ sending' = sending /\ at' = "idle"
  BY DEF Emptied, call
<1>4. balance' = Len(pending') + Len(ready')
  BY <1>1, <1>3
<1>5. WithinCapacity'
  <2>1. \A h \in Ips : Waiting(h)' = 0
    BY <1>3, FilterEmpty DEF Waiting
  <2>2. KnownCount' <= NeighborCapacity
    BY DEF Emptied, KnownCount, Known, Count
  <2>3. Len(pending) + Len(ready) + Len(sending) <= TxCapacity
    BY DEF WithinCapacity
  <2>4. Len(pending') = 0 /\ Len(ready') = 0 /\ Len(control') = 0
    BY <1>3
  <2>5. Len(pending') + Len(ready') + Len(sending') <= TxCapacity
    BY <1>1, <1>3, <2>3, <2>4
  <2> QED BY <1>1, <2>1, <2>2, <2>4, <2>5 DEF WithinCapacity
<1>6. Range(pending') = {} /\ Range(ready') = {} /\ Range(control') = {}
  BY <1>3 DEF Range
<1>7. CurrentDecisions'
  BY <1>3, <1>6 DEF CurrentDecisions
<1>8. CallsSound'
  BY <1>3 DEF Emptied, CallsSound
<1>9. WaitersServed'
  BY <1>6 DEF WaitersServed
<1>10. ProbesWanted'
  <2>1. \A h \in Ips : Len(Filter(control', RequestsFor(h))) = 0
    BY <1>3, FilterEmpty
  <2> QED BY <2>1 DEF ProbesWanted
<1> QED BY <1>2, <1>4, <1>5, <1>7, <1>8, <1>9, <1>10

\* cancel_probes leaves no request for h, and of other frames no more than
\* there were.
LEMMA CancelSound ==
    ASSUME Induction, NEW q \in Seq(ArpFrames), NEW h
    PROVE  /\ CancelProbes(h, q) \in Seq(ArpFrames)
           /\ Len(CancelProbes(h, q)) <= Len(q)
           /\ Range(CancelProbes(h, q)) \subseteq Range(q)
           /\ \A k \in Ips : Len(Filter(CancelProbes(h, q), RequestsFor(k)))
                               <= Len(Filter(q, RequestsFor(k)))
           /\ Len(Filter(CancelProbes(h, q), RequestsFor(h))) = 0
<1> DEFINE c == Filter(q, ArpFrames \ RequestsFor(h))
<1>1. c \in Seq(ArpFrames)
  BY FilterType
<1>2. Len(c) <= Len(q)
  BY FilterShorter
<1>3. Range(c) = Range(q) \cap (ArpFrames \ RequestsFor(h))
  BY FilterRange
<1>4. \A k \in Ips : Len(Filter(c, RequestsFor(k))) <= Len(Filter(q, RequestsFor(k)))
  BY FilterFewer
<1> HIDE DEF c
<1>5. Filter(c, RequestsFor(h)) = <<>>
  BY <1>1, <1>3, FilterNone
<1>6. Len(Filter(c, RequestsFor(h))) = 0
  BY <1>5
<1> QED BY ZenonT(60), <1>1, <1>2, <1>3, <1>4, <1>6 DEF c, CancelProbes

\* Releasing packets keeps every limit and every decision.
LEMMA ReleaseSound ==
    ASSUME Induction, IInv, NEW table \in Tables
    PROVE  /\ \A h \in Ips : Len(Filter(Unresolved(table), PacketsTo(h))) <= PerNeighborCapacity
           /\ ~configured => Unresolved(table) = <<>> /\ Released(table) = <<>>
           /\ \A p \in Range(Unresolved(table)) \cup {f \in Range(Released(table)) : f.dest # Bcast} :
                 p.src = address /\ p.hop = NextHop(p.dest)
<1>1. pending \in Seq(Packets) /\ ready \in Seq(Frames)
  BY DEF IInv, Accounted, TypeOK
<1>2. ASSUME NEW h \in Ips
      PROVE  Len(Filter(Unresolved(table), PacketsTo(h))) <= PerNeighborCapacity
  <2>1. Len(Filter(Unresolved(table), PacketsTo(h))) <= Len(Filter(pending, PacketsTo(h)))
    BY <1>1, FilterFewer DEF Unresolved
  <2>2. Len(Filter(pending, PacketsTo(h))) <= PerNeighborCapacity
    BY DEF IInv, Accounted, WithinCapacity, Waiting
  <2>3. Unresolved(table) \in Seq(Packets)
    BY <1>1, ReleaseTyped
  <2>4. Len(Filter(Unresolved(table), PacketsTo(h))) \in Nat /\ Len(Filter(pending, PacketsTo(h))) \in Nat
    BY <1>1, <2>3, FilterShorter
  <2> QED BY <2>1, <2>2, <2>4, Positive
<1>3. ASSUME ~configured PROVE Unresolved(table) = <<>> /\ Released(table) = <<>>
  <2>1. pending = <<>> /\ ready = <<>>
    BY <1>3 DEF IInv, CurrentDecisions
  <2>2. /\ Unresolved(table) \in Seq(Packets) /\ Released(table) \in Seq(Frames)
        /\ Len(Unresolved(table)) + Len(Released(table)) = Len(pending) + Len(ready)
    BY <1>1, ReleaseTyped
  <2>3. Len(pending) = 0 /\ Len(ready) = 0
    BY <2>1
  <2>4. Len(Unresolved(table)) \in Nat /\ Len(Released(table)) \in Nat
    BY <2>2
  <2>5. Len(Unresolved(table)) = 0 /\ Len(Released(table)) = 0
    BY <2>2, <2>3, <2>4
  <2> QED BY <2>2, <2>5
<1>4. \A p \in Range(Unresolved(table)) : p.src = address /\ p.hop = NextHop(p.dest)
  BY <1>1, ReleaseTyped DEF IInv, CurrentDecisions
<1>5. ASSUME NEW f \in Range(Released(table)), f.dest # Bcast
      PROVE  f.src = address /\ f.hop = NextHop(f.dest)
  <2>1. \/ f \in Range(ready)
        \/ \E p \in Range(pending) : f.dest = p.dest /\ f.hop = p.hop /\ f.src = p.src
    BY <1>1, ReleaseTyped
  <2> QED BY <1>5, <2>1 DEF IInv, CurrentDecisions
<1> QED BY <1>2, <1>3, <1>4, <1>5

\* add_static_neighbor that replaces no mapping: packets that waited for the
\* neighbor are framed, and its probes are dropped.
LEMMA StaticSound ==
    ASSUME Induction, Counting, IInv, NEW h \in Ips, NEW m \in Macs, AddStaticNeighbor(h, m),
           ~(In(h, {"static", "reachable"}) /\ neighbors[h].mac # m)
    PROVE  IInv'
<1> DEFINE table == [neighbors EXCEPT ![h] = Static(m)]
<1>1. /\ at = "idle" /\ UNCHANGED <<spare, call, config, balance>>
      /\ Known(h) \/ KnownCount < NeighborCapacity
      /\ neighbors' = table
      /\ pending' = Unresolved(table) /\ ready' = Released(table)
      /\ control' = CancelProbes(h, control)
  BY DEF AddStaticNeighbor, Calls
<1>2. table \in Tables /\ table[h] = Static(m) /\ \A k \in Ips : k # h => table[k] = neighbors[k]
  BY Sizes, NeighborMade, Entered
<1> HIDE DEF table
<1>3. /\ pending \in Seq(Packets) /\ ready \in Seq(Frames) /\ control \in Seq(ArpFrames)
      /\ TypeOK /\ CurrentDecisions
  BY DEF IInv, Accounted, TypeOK
<1>4. /\ pending' \in Seq(Packets) /\ ready' \in Seq(Frames)
      /\ Len(pending') + Len(ready') = Len(pending) + Len(ready)
      /\ Range(pending') = Range(pending) \ Sendables(table)
  BY <1>1, <1>2, <1>3, ReleaseTyped
<1>5. /\ control' \in Seq(ArpFrames) /\ Len(control') <= Len(control)
      /\ Range(control') \subseteq Range(control)
      /\ \A k \in Ips : Len(Filter(control', RequestsFor(k))) <= Len(Filter(control, RequestsFor(k)))
      /\ Len(Filter(control', RequestsFor(h))) = 0
  BY <1>1, <1>3, CancelSound
<1>6. TypeOK'
  BY <1>1, <1>2, <1>3, <1>4, <1>5 DEF TypeOK, config, call, Tables
<1>7. balance' = Len(pending') + Len(ready')
  BY <1>1, <1>4, Sizes
<1>8. WithinCapacity'
  <2>1. Len(pending') + Len(ready') + Len(sending') <= TxCapacity
    BY <1>1, <1>4, Sizes DEF call
  <2>2. \A k \in Ips : Waiting(k)' <= PerNeighborCapacity
    BY <1>1, <1>2, ReleaseSound DEF Waiting
  <2>3. KnownCount' <= NeighborCapacity
    <3>1. Count(table) <= NeighborCapacity
      BY ZenonT(60), <1>1, Sizes, NeighborMade, CountLearns DEF table, Known
    <3> QED BY <1>1, <3>1 DEF KnownCount, Known, Count
  <2>4. Len(control') <= ControlCapacity
    BY <1>5, Sizes
  <2> QED BY <2>1, <2>2, <2>3, <2>4 DEF WithinCapacity
<1>9. CurrentDecisions'
  <2>1. address' = address /\ routes' = routes /\ configured' = configured
    BY <1>1 DEF config
  <2>2. control = <<>> => control' = <<>>
    <3>1. control = <<>> => Len(control') = 0
      BY <1>5
    <3> QED BY <1>5, <3>1
  <2>3. ~configured' => pending' = <<>> /\ ready' = <<>> /\ control' = <<>>
    BY <1>1, <1>2, <1>3, <2>1, <2>2, ReleaseSound DEF CurrentDecisions
  <2>4. \A f \in Range(control') : f.src = address'
    BY <1>3, <1>5, <2>1 DEF CurrentDecisions
  <2>5. \A p \in Range(pending') \cup {f \in Range(ready') : f.dest # Bcast} :
          p.src = address' /\ p.hop = NextHop(p.dest)'
    <3>1. \A d : NextHop(d)' = NextHop(d)
      BY <2>1 DEF NextHop
    <3>2. \A p \in Range(Unresolved(table)) \cup {f \in Range(Released(table)) : f.dest # Bcast} :
             p.src = address /\ p.hop = NextHop(p.dest)
      BY ZenonT(60), <1>2, ReleaseSound
    <3> QED BY <1>1, <2>1, <3>1, <3>2
  <2> QED BY <2>3, <2>4, <2>5 DEF CurrentDecisions
<1>10. \A k \in Ips : In(k, {"resolving"})' => k # h /\ In(k, {"resolving"})
  <2>1. ~In(h, {"resolving"})'
    <3>1. neighbors'[h].state = "static"
      BY <1>1, <1>2 DEF Static
    <3> QED BY <3>1 DEF In
  <2>2. ASSUME NEW k \in Ips, k # h PROVE In(k, {"resolving"})' <=> In(k, {"resolving"})
    <3>1. neighbors'[k] = neighbors[k]
      BY <1>1, <1>2, <2>2
    <3> QED BY <3>1 DEF In, Known
  <2> QED BY <2>1, <2>2
<1>11. CallsSound'
  BY <1>1, <1>10 DEF CallsSound, IInv, config, call
<1>12. WaitersServed'
  <2> SUFFICES ASSUME NEW p \in Range(pending') PROVE Awaited(p.hop)'
    BY DEF WaitersServed
  <2>1. p \in Range(pending) /\ p \notin Sendables(table) /\ p \in Packets
    BY <1>3, <1>4 DEF Range
  <2>2. p.hop \in Ips /\ MacIn(table, p.hop) = None
    BY <2>1 DEF Sendables, Packets
  <2>3. p.hop # h
    BY <1>2, <2>2, MacTyped, NoneAssumption, NeighborMade DEF Static
  <2>4. Awaited(p.hop) /\ at = "idle"
    BY <1>1, <2>1 DEF IInv, WaitersServed
  <2> QED BY <1>1, <1>2, <2>2, <2>3, <2>4 DEF Awaited, In, Known, call
<1>13. ProbesWanted'
  <2> SUFFICES ASSUME NEW k \in Ips, Len(Filter(control', RequestsFor(k))) > 0
               PROVE  /\ In(k, {"resolving"})'
                      /\ Len(Filter(control', RequestsFor(k))) <= neighbors'[k].attempts
    BY DEF ProbesWanted
  <2>1. k # h
    BY <1>5
  <2>2. Len(Filter(control, RequestsFor(k))) \in Nat /\ Len(Filter(control', RequestsFor(k))) \in Nat
    BY <1>3, <1>5, FilterShorter
  <2>3. In(k, {"resolving"}) /\ Len(Filter(control, RequestsFor(k))) <= neighbors[k].attempts
    BY <1>5, <2>2 DEF IInv, ProbesWanted
  <2>4. neighbors[k].attempts \in Nat
    <3>1. neighbors[k] \in NeighborStates /\ neighbors[k].state = "resolving"
      BY <2>3, Sizes DEF In, Known, Tables
    <3> QED BY <3>1, NeighborFields, Positive
  <2> QED BY <1>1, <1>2, <1>5, <2>1, <2>2, <2>3, <2>4 DEF In, Known
<1> QED BY <1>6, <1>7, <1>8, <1>9, <1>11, <1>12, <1>13 DEF IInv, Accounted

\* Every configuration call keeps the invariant.
LEMMA ConfigureSound == ASSUME Induction, Counting PROVE IInv /\ Configure => IInv'
<1> SUFFICES ASSUME IInv, Configure PROVE IInv'
  OBVIOUS
<1> DEFINE none == [h \in Ips |-> None]
<1>1. none \in Tables /\ Count(none) <= NeighborCapacity
  <2>1. none \in Tables /\ \A h \in Ips : neighbors[h] = None => none[h] = None
    BY DEF Tables
  <2>2. Count(none) <= Count(neighbors) /\ Count(none) \in Nat
    BY ZenonT(60), <2>1, Sizes, CountForgets, CountTyped
  <2> QED BY <2>1, <2>2, Sizes
<1>2. neighbors \in Tables /\ Count(neighbors) <= NeighborCapacity
  BY Sizes
<1>3. /\ configured \in BOOLEAN /\ address \in Ips
      /\ routes \in [connected : BOOLEAN, gateway : Ips \cup {None}]
  BY DEF IInv, Accounted, TypeOK
<1>4. ASSUME NEW table \in Tables, \A h \in Ips : neighbors[h] = None => table[h] = None
      PROVE  Count(table) <= NeighborCapacity
  <2>1. Count(table) <= Count(neighbors) /\ Count(table) \in Nat
    BY ZenonT(60), <1>4, Sizes, CountForgets, CountTyped
  <2> QED BY <2>1, Sizes
<1> HIDE DEF none
<1>5. ASSUME NEW a \in Ips, NEW g \in Ips \cup {None}, ConfigureIpv4(a, g) PROVE IInv'
  <2>1. Calls("configure") /\ DiscardQueued(none)
    BY <1>5 DEF ConfigureIpv4, none
  <2>2. /\ configured' \in BOOLEAN /\ address' \in Ips
        /\ routes' \in [connected : BOOLEAN, gateway : Ips \cup {None}]
    BY <1>5 DEF ConfigureIpv4
  <2> QED BY <1>1, <2>1, <2>2, DiscardEmpties, EmptiedSound
<1>6. ASSUME WithdrawIpv4 PROVE IInv'
  <2>1. Calls("withdraw") /\ DiscardQueued(none)
    BY <1>6 DEF WithdrawIpv4, none
  <2>2. /\ configured' \in BOOLEAN /\ address' \in Ips
        /\ routes' \in [connected : BOOLEAN, gateway : Ips \cup {None}]
    BY ZenonT(60), <1>3, <1>6 DEF WithdrawIpv4
  <2> QED BY <1>1, <2>1, <2>2, DiscardEmpties, EmptiedSound
<1>7. ASSUME NEW g \in Ips \cup {None}, AddRoute(g) PROVE IInv'
  <2>1. Calls("route") /\ DiscardQueued(neighbors)
    BY <1>7 DEF AddRoute
  <2>2. /\ configured' \in BOOLEAN /\ address' \in Ips
        /\ routes' \in [connected : BOOLEAN, gateway : Ips \cup {None}]
    BY ZenonT(60), <1>3, <1>7 DEF AddRoute
  <2> QED BY <1>2, <2>1, <2>2, DiscardEmpties, EmptiedSound
<1>8. ASSUME NEW which, RemoveRoute(which) PROVE IInv'
  <2>1. Calls("route") /\ DiscardQueued(neighbors)
    BY <1>8 DEF RemoveRoute
  <2>2. /\ configured' \in BOOLEAN /\ address' \in Ips
        /\ routes' \in [connected : BOOLEAN, gateway : Ips \cup {None}]
    BY ZenonT(60), <1>3, <1>8 DEF RemoveRoute
  <2> QED BY <1>2, <2>1, <2>2, DiscardEmpties, EmptiedSound
<1>9. ASSUME NEW h \in Ips, RemoveNeighbor(h) PROVE IInv'
  <2> DEFINE table == [neighbors EXCEPT ![h] = None]
  <2>1. Calls("neighbor") /\ DiscardQueued(table) /\ UNCHANGED <<configured, address, routes>>
    BY <1>9 DEF RemoveNeighbor, config
  <2>2. table \in Tables /\ \A k \in Ips : neighbors[k] = None => table[k] = None
    BY <1>2 DEF Tables
  <2> HIDE DEF table
  <2>3. Count(table) <= NeighborCapacity
    BY <1>4, <2>2
  <2> QED BY <1>3, <2>1, <2>2, <2>3, DiscardEmpties, EmptiedSound
<1>10. ASSUME NEW h \in Ips, NEW m \in Macs, AddStaticNeighbor(h, m) PROVE IInv'
  <2>1. CASE In(h, {"static", "reachable"}) /\ neighbors[h].mac # m
    <3> DEFINE table == [Settled(neighbors) EXCEPT ![h] = Static(m)]
    <3>1. /\ Calls("static") /\ neighbors' = table /\ UNCHANGED <<configured, address, routes>>
          /\ pending' = <<>> /\ ready' = <<>> /\ control' = <<>>
          /\ balance' = balance - Len(pending) - Len(ready)
      BY <1>10, <2>1 DEF AddStaticNeighbor, config
    <3>2. Settled(neighbors) \in Tables /\ Static(m) \in NeighborStates
      BY <1>2, SettledTyped, NeighborMade
    <3>3. table \in Tables /\ table[h] = Static(m)
          /\ \A k \in Ips : k # h => table[k] = Settled(neighbors)[k]
      BY <3>2, Entered
    <3>4. Settled(neighbors)[h] # None
      BY <2>1 DEF Settled, In, Known
    <3>5. Count(Settled(neighbors)) <= NeighborCapacity
      <4>1. Count(Settled(neighbors)) <= Count(neighbors) /\ Count(Settled(neighbors)) \in Nat
        BY ZenonT(60), <1>2, <3>2, SettledTyped, CountTyped
      <4> QED BY <4>1, Sizes
    <3>6. Count(table) <= NeighborCapacity
      BY <3>2, <3>4, <3>5, CountLearns
    <3> HIDE DEF table
    <3>7. \A k \in Ips : ~In(k, {"resolving"})'
      BY <1>2, <3>1, <3>3, SettledTyped DEF In, Known, Static
    <3>8. Emptied
      BY <1>3, <3>1, <3>3, <3>6, <3>7 DEF Emptied, Calls
    <3> QED BY <3>8, EmptiedSound
  <2> QED BY <1>10, <2>1, StaticSound
<1>11. ASSUME ResetLink PROVE IInv'
  <2> DEFINE table == [h \in Ips |-> IF In(h, {"static"}) THEN neighbors[h] ELSE None]
  <2>1. Calls("reset") /\ DiscardQueued(table) /\ UNCHANGED <<configured, address, routes>>
    BY <1>11 DEF ResetLink, config
  <2>2. table \in Tables /\ \A k \in Ips : neighbors[k] = None => table[k] = None
    BY <1>2 DEF Tables
  <2> HIDE DEF table
  <2>3. Count(table) <= NeighborCapacity
    BY <1>4, <2>2
  <2> QED BY <1>3, <2>1, <2>2, <2>3, DiscardEmpties, EmptiedSound
<1> QED BY <1>5, <1>6, <1>7, <1>8, <1>9, <1>10, <1>11 DEF Configure

\* With no more probes queued, and every resolution that has one still
\* running with its count, the probes are still wanted.
LEMMA ProbesKept ==
    ASSUME Induction, Counting, IInv, control' \in Seq(ArpFrames),
           \A k \in Ips : Len(Filter(control', RequestsFor(k))) <= Len(Filter(control, RequestsFor(k))),
           \A k \in Ips : Len(Filter(control', RequestsFor(k))) > 0 /\ In(k, {"resolving"}) =>
              In(k, {"resolving"})' /\ neighbors'[k].attempts = neighbors[k].attempts
    PROVE  ProbesWanted'
<1> SUFFICES ASSUME NEW k \in Ips, Len(Filter(control', RequestsFor(k))) > 0
             PROVE  /\ In(k, {"resolving"})'
                    /\ Len(Filter(control', RequestsFor(k))) <= neighbors'[k].attempts
  BY DEF ProbesWanted
<1>1. control \in Seq(ArpFrames)
  BY DEF IInv, Accounted, TypeOK
<1>2. Len(Filter(control, RequestsFor(k))) \in Nat /\ Len(Filter(control', RequestsFor(k))) \in Nat
  BY <1>1, FilterShorter
<1>3. In(k, {"resolving"}) /\ Len(Filter(control, RequestsFor(k))) <= neighbors[k].attempts
  BY <1>2 DEF IInv, ProbesWanted
<1>4. neighbors[k].attempts \in Nat
  <2>1. neighbors[k] \in NeighborStates /\ neighbors[k].state = "resolving"
    BY <1>3, Sizes DEF In, Known, Tables
  <2> QED BY <2>1, NeighborFields, Positive
<1> QED BY <1>2, <1>3, <1>4

\* A resolution times out: its packets are counted as dropped, its probes go.
LEMMA TimeoutSound ==
    ASSUME Induction, Counting, IInv, NEW h \in Ips, TimeoutNeighbor(h)
    PROVE  IInv'
<1> DEFINE kept == Filter(pending, Packets \ PacketsTo(h))
<1>1. /\ TimersOf(h) /\ In(h, {"resolving"})
      /\ neighbors' = [neighbors EXCEPT ![h] = Failed(FailedRetryDelay)]
      /\ pending' = kept /\ control' = CancelProbes(h, control)
      /\ balance' = balance - (Len(pending) - Len(kept))
      /\ UNCHANGED <<ready, spare>>
  BY DEF TimeoutNeighbor
<1>2. Failed(FailedRetryDelay) \in NeighborStates
  BY NeighborMade, Positive
<1>3. /\ neighbors' \in Tables /\ neighbors'[h] = Failed(FailedRetryDelay)
      /\ \A k \in Ips : k # h => neighbors'[k] = neighbors[k]
  <2>1. neighbors \in Tables
    BY Sizes
  <2> QED BY <1>1, <1>2, <2>1 DEF Tables
<1>4. /\ pending \in Seq(Packets) /\ ready \in Seq(Frames) /\ control \in Seq(ArpFrames)
      /\ TypeOK /\ CurrentDecisions
  BY DEF IInv, Accounted, TypeOK
<1>5. kept \in Seq(Packets) /\ Len(kept) \in Nat /\ Len(kept) <= Len(pending)
      /\ Range(kept) = Range(pending) \cap (Packets \ PacketsTo(h))
  BY <1>4, FilterType, FilterShorter, FilterRange
<1>6. \A k \in Ips : Len(Filter(kept, PacketsTo(k))) <= Len(Filter(pending, PacketsTo(k)))
  BY <1>4, FilterFewer
<1> HIDE DEF kept
<1>7. /\ control' \in Seq(ArpFrames) /\ Len(control') <= Len(control)
      /\ Range(control') \subseteq Range(control)
      /\ \A k \in Ips : Len(Filter(control', RequestsFor(k))) <= Len(Filter(control, RequestsFor(k)))
      /\ Len(Filter(control', RequestsFor(h))) = 0
  BY <1>1, <1>4, CancelSound
<1>8. /\ Len(control') <= ControlCapacity /\ \A f \in Range(control') : f.src = address
      /\ ~configured => control' = <<>>
  BY <1>7, ControlLess
<1>9. TypeOK'
  <2>1. balance' \in Int
    BY <1>1, <1>4, <1>5, Sizes DEF TypeOK
  <2> QED BY <1>1, <1>3, <1>4, <1>5, <1>7, <2>1, TimersTyped DEF TypeOK, Tables, config
<1>10. balance' = Len(pending') + Len(ready')
  BY <1>1, <1>5, Sizes
<1>11. WithinCapacity'
  <2>1. Len(pending') + Len(ready') + Len(sending') <= TxCapacity
    <3>1. pending' = kept /\ ready' = ready /\ sending' = sending
      BY <1>1, TimersTyped
    <3> QED BY <1>5, <3>1, Sizes
  <2>2. ASSUME NEW k \in Ips PROVE Waiting(k)' <= PerNeighborCapacity
    <3>1. Len(Filter(pending, PacketsTo(k))) <= PerNeighborCapacity
      BY DEF IInv, Accounted, WithinCapacity, Waiting
    <3>2. Len(Filter(kept, PacketsTo(k))) \in Nat /\ Len(Filter(pending, PacketsTo(k))) \in Nat
      BY <1>4, <1>5, FilterShorter
    <3>3. Len(Filter(kept, PacketsTo(k))) <= PerNeighborCapacity
      BY <1>6, <3>1, <3>2, Sizes
    <3> QED BY <1>1, <3>3 DEF Waiting
  <2>3. KnownCount' <= NeighborCapacity
    <3>1. Count(neighbors') <= NeighborCapacity
      BY ZenonT(60), <1>1, <1>2, Sizes, CountLearns DEF In, Known
    <3> QED BY <3>1 DEF KnownCount, Known, Count
  <2> QED BY <1>8, <2>1, <2>2, <2>3 DEF WithinCapacity
<1>12. CurrentDecisions'
  <2>1. address' = address /\ routes' = routes /\ configured' = configured
    BY <1>1, TimersTyped DEF config
  <2>2. pending = <<>> => pending' = <<>>
    <3>1. pending = <<>> => Len(kept) = 0
      BY <1>5
    <3> QED BY <1>1, <1>5, <3>1
  <2> QED BY <1>1, <1>4, <1>5, <1>8, <2>1, <2>2 DEF CurrentDecisions, NextHop
<1>13. \A k \in Ips : In(k, {"resolving"})' => k # h /\ In(k, {"resolving"})
  BY <1>3 DEF In, Known, Failed
<1>14. CallsSound'
  BY <1>1, <1>13, TimersTyped, CallsKept DEF config
<1>15. WaitersServed'
  <2>1. ASSUME NEW p \in Range(pending') PROVE p \in Range(pending) /\ p.hop # h
    BY <1>1, <1>5, <2>1, Hops DEF PacketsTo
  <2> QED BY ZenonT(60), <1>1, <1>3, <2>1, Sizes, TimersWait
<1>16. ProbesWanted'
  <2>1. ASSUME NEW k \in Ips, Len(Filter(control', RequestsFor(k))) > 0, In(k, {"resolving"})
        PROVE  In(k, {"resolving"})' /\ neighbors'[k].attempts = neighbors[k].attempts
    <3>1. k # h
      BY <1>7, <2>1
    <3> QED BY <1>3, <2>1, <3>1 DEF In, Known
  <2> QED BY <1>7, <2>1, ProbesKept
<1> QED BY <1>9, <1>10, <1>11, <1>12, <1>14, <1>15, <1>16 DEF IInv, Accounted

\* queue_arp adds one frame behind the others.
LEMMA ArpQueued ==
    ASSUME Induction, NEW q \in Seq(ArpFrames), NEW f \in ArpFrames
    PROVE  /\ Append(q, f) \in Seq(ArpFrames) /\ Len(Append(q, f)) = Len(q) + 1
           /\ Range(Append(q, f)) = Range(q) \cup {f}
           /\ \A k \in Ips : /\ Len(Filter(q, RequestsFor(k))) \in Nat
                             /\ f \in RequestsFor(k) =>
                                   Len(Filter(Append(q, f), RequestsFor(k))) = Len(Filter(q, RequestsFor(k))) + 1
                             /\ f \notin RequestsFor(k) =>
                                   Filter(Append(q, f), RequestsFor(k)) = Filter(q, RequestsFor(k))
<1>1. Append(q, f) \in Seq(ArpFrames) /\ Len(Append(q, f)) = Len(q) + 1
  OBVIOUS
<1>2. Range(Append(q, f)) = Range(q) \cup {f}
  BY RangeAppend
<1>3. ASSUME NEW k \in Ips
      PROVE  /\ Len(Filter(q, RequestsFor(k))) \in Nat
             /\ f \in RequestsFor(k) =>
                   Len(Filter(Append(q, f), RequestsFor(k))) = Len(Filter(q, RequestsFor(k))) + 1
             /\ f \notin RequestsFor(k) =>
                   Filter(Append(q, f), RequestsFor(k)) = Filter(q, RequestsFor(k))
  <2>1. Filter(q, RequestsFor(k)) \in Seq(ArpFrames)
    BY FilterType
  <2>2. Len(Append(Filter(q, RequestsFor(k)), f)) = Len(Filter(q, RequestsFor(k))) + 1
    BY <2>1
  <2>3. f \in RequestsFor(k) => Filter(Append(q, f), RequestsFor(k)) = Append(Filter(q, RequestsFor(k)), f)
    BY FilterAppend
  <2>4. f \notin RequestsFor(k) => Filter(Append(q, f), RequestsFor(k)) = Filter(q, RequestsFor(k))
    BY FilterAppend
  <2> QED BY <2>1, <2>2, <2>3, <2>4
<1> QED BY <1>1, <1>2, <1>3

\* A probe is due: it is queued and counted, or neither.
LEMMA ProbeSound ==
    ASSUME Induction, Counting, IInv, NEW h \in Ips, ProbeNeighbor(h)
    PROVE  IInv'
<1> DEFINE n == neighbors[h]
<1>1. /\ TimersOf(h) /\ In(h, {"resolving"}) /\ n.left > 0 /\ n.attempts < MaxArpAttempts
      /\ pending' = pending /\ UNCHANGED <<pending, ready, balance>>
  BY DEF ProbeNeighbor, ProbeDue
<1>2. /\ control \in Seq(ArpFrames) /\ address \in Ips /\ spare \in BOOLEAN /\ neighbors \in Tables
      /\ \A f \in Range(control) : f.src = address
  BY Sizes DEF IInv, Accounted, TypeOK, CurrentDecisions
<1>3. n \in NeighborStates /\ n.state = "resolving" /\ neighbors[h] # None
  BY <1>1, Sizes DEF In, Known, Tables
<1>4. n.attempts \in Nat /\ n.left \in 0..ResolutionTimeout
  BY <1>3, NeighborFields, Positive
<1>5. CASE /\ QueueArp(control, Probe(h))
           /\ neighbors' = [neighbors EXCEPT ![h] = Resolving(@.attempts + 1, RetryInterval, @.left)]
  <2> DEFINE new == Resolving(n.attempts + 1, RetryInterval, n.left)
  <2>1. new \in NeighborStates
    <3>1. n.attempts + 1 \in 0..MaxArpAttempts /\ RetryInterval \in 0..RetryInterval
      BY <1>1, <1>4, Positive
    <3> QED BY ZenonT(60), <1>4, <3>1, NeighborMade
  <2>2. new.state = "resolving" /\ new.attempts = n.attempts + 1 /\ new.left = n.left
    BY DEF Resolving
  <2>3. neighbors' = [neighbors EXCEPT ![h] = new]
    BY <1>5
  <2> HIDE DEF new
  <2>4. /\ neighbors' \in Tables /\ neighbors'[h] = new
        /\ \A k \in Ips : k # h => neighbors'[k] = neighbors[k]
    BY <1>2, <2>1, <2>3 DEF Tables
  <2>5. Count(neighbors') <= NeighborCapacity
    BY ZenonT(60), <1>3, <2>1, <2>3, Sizes, CountLearns
  <2>6. Probe(h) \in ArpFrames /\ Probe(h).src = address /\ Probe(h) \in RequestsFor(h)
        /\ \A k \in Ips : k # h => Probe(h) \notin RequestsFor(k)
    BY <1>2 DEF Probe, ArpFrames, RequestsFor
  <2>7. control' = Append(control, Probe(h)) /\ Len(control) < ControlCapacity /\ spare' = FALSE
    BY <1>5 DEF QueueArp
  <2>8. /\ control' \in Seq(ArpFrames) /\ Len(control') <= ControlCapacity
        /\ \A f \in Range(control') : f.src = address
    <3>1. /\ control' \in Seq(ArpFrames) /\ Len(control') = Len(control) + 1
          /\ Range(control') = Range(control) \cup {Probe(h)}
      BY <1>2, <2>6, <2>7, ArpQueued
    <3>2. Len(control') <= ControlCapacity
      BY <2>7, <3>1, Sizes
    <3> QED BY <1>2, <2>6, <3>1, <3>2
  <2>9. configured
    BY <1>1 DEF IInv, CallsSound
  <2>10. CallsSound'
    BY ZenonT(60), <1>1, <2>9, TimersTyped, CallsKept DEF config
  <2>11. WaitersServed'
    <3>1. In(h, {"resolving"})' /\ neighbors'[h].left > 0
      BY <1>1, <2>1, <2>2, <2>4, NoneAssumption DEF In, Known
    <3> QED BY ZenonT(60), <1>1, <1>2, <2>4, <3>1, TimersWait
  <2>12. ProbesWanted'
    <3> SUFFICES ASSUME NEW k \in Ips, Len(Filter(control', RequestsFor(k))) > 0
                 PROVE  /\ In(k, {"resolving"})'
                        /\ Len(Filter(control', RequestsFor(k))) <= neighbors'[k].attempts
      BY DEF ProbesWanted
    <3>1. CASE k = h
      <4>1. Len(Filter(control', RequestsFor(h))) = Len(Filter(control, RequestsFor(h))) + 1
            /\ Len(Filter(control, RequestsFor(h))) \in Nat
        BY <1>2, <2>6, <2>7, ArpQueued
      <4>2. Len(Filter(control, RequestsFor(h))) <= n.attempts
        BY <1>4, <4>1 DEF IInv, ProbesWanted
      <4>3. In(h, {"resolving"})'
        BY <2>1, <2>2, <2>4, NoneAssumption DEF In, Known
      <4> QED BY <1>4, <2>2, <2>4, <3>1, <4>1, <4>2, <4>3
    <3>2. CASE k # h
      <4>1. Filter(control', RequestsFor(k)) = Filter(control, RequestsFor(k))
        BY <1>2, <2>6, <2>7, <3>2, ArpQueued
      <4>2. In(k, {"resolving"}) /\ Len(Filter(control, RequestsFor(k))) <= neighbors[k].attempts
        BY <4>1 DEF IInv, ProbesWanted
      <4> QED BY <2>4, <3>2, <4>1, <4>2 DEF In, Known
    <3> QED BY <3>1, <3>2
  <2> QED BY ZenonT(60), <1>1, <2>4, <2>5, <2>7, <2>8, <2>9, <2>10, <2>11, <2>12, TimersTyped, QuietSound
<1>6. CASE ArpNotQueued(control) /\ UNCHANGED neighbors
  <2>1. control' = control /\ spare' \in BOOLEAN /\ neighbors' = neighbors
    BY ZenonT(60), <1>2, <1>6 DEF ArpNotQueued
  <2>2. \A k \in Ips : In(k, {"resolving"})' <=> In(k, {"resolving"})
    BY <2>1 DEF In, Known
  <2>3. WaitersServed'
    BY ZenonT(60), <1>1, <1>2, <2>1, <2>2, TimersWait
  <2>4. CallsSound'
    BY <1>1, <2>2, TimersTyped, CallsKept DEF config
  <2>5. ProbesWanted'
    BY <2>1, <2>2 DEF IInv, ProbesWanted
  <2>6. control' \in Seq(ArpFrames) /\ Len(control') <= Len(control) /\ Range(control') \subseteq Range(control)
        /\ neighbors' \in Tables /\ Count(neighbors') <= NeighborCapacity
    BY <1>2, <2>1, Sizes
  <2> QED BY <1>1, <2>1, <2>3, <2>4, <2>5, <2>6, TimersTyped, ControlLess, QuietSound
<1> QED BY <1>5, <1>6 DEF ProbeNeighbor

\* advance ends: what can be framed is framed, and the device takes a prefix.
LEMMA FinishSound ==
    ASSUME Induction, Counting, IInv, NEW c, NEW d, FinishAdvance(c, d)
    PROVE  IInv'
<1> DEFINE data == Released(neighbors)
<1>1. /\ at = "timers" /\ cursor = NumIps + 1 /\ at' = "idle" /\ cursor' = 0
      /\ pending' = Unresolved(neighbors)
      /\ c \in 0..Len(control) /\ d \in (IF c = Len(control) THEN 0..Len(data) ELSE {0})
      /\ control' = SubSeq(control, c + 1, Len(control)) /\ ready' = SubSeq(data, d + 1, Len(data))
      /\ balance' = balance - d /\ UNCHANGED <<config, neighbors, spare, sending>>
  BY DEF FinishAdvance, Flush
<1>2. /\ pending \in Seq(Packets) /\ ready \in Seq(Frames) /\ control \in Seq(ArpFrames)
      /\ TypeOK /\ CurrentDecisions /\ neighbors \in Tables
  BY Sizes DEF IInv, Accounted, TypeOK
<1>3. /\ pending' \in Seq(Packets) /\ data \in Seq(Frames)
      /\ Len(pending') + Len(data) = Len(pending) + Len(ready)
      /\ Range(pending') = Range(pending) \ Sendables(neighbors)
  BY ZenonT(60), <1>1, <1>2, ReleaseTyped
<1>4. /\ \A h \in Ips : Len(Filter(pending', PacketsTo(h))) <= PerNeighborCapacity
      /\ ~configured => pending' = <<>> /\ data = <<>>
      /\ \A p \in Range(pending') \cup {f \in Range(data) : f.dest # Bcast} :
            p.src = address /\ p.hop = NextHop(p.dest)
  BY <1>1, <1>2, ReleaseSound
<1> HIDE DEF data
<1>5. Len(data) \in Nat /\ Len(pending') \in Nat /\ d \in 0..Len(data)
  BY <1>1, <1>3
<1>6. ready' \in Seq(Frames) /\ Len(ready') = Len(data) - d /\ Range(ready') \subseteq Range(data)
  BY ZenonT(60), <1>1, <1>3, <1>5, FilterSuffix
<1>7. /\ control' \in Seq(ArpFrames) /\ Len(control') = Len(control) - c
      /\ Range(control') \subseteq Range(control)
      /\ \A k \in Ips : Len(Filter(control', RequestsFor(k))) <= Len(Filter(control, RequestsFor(k)))
  BY ZenonT(60), <1>1, <1>2, FilterSuffix
<1>8. /\ Len(control') <= ControlCapacity /\ \A f \in Range(control') : f.src = address
      /\ ~configured => control' = <<>>
  <2>1. Len(control') <= Len(control)
    BY <1>1, <1>7, Sizes
  <2> QED BY <1>7, <2>1, ControlLess
<1>9. /\ balance' = balance - d /\ d \in Nat /\ d <= Len(data) /\ cursor' = 0 /\ sending' = sending
       /\ Len(ready') = Len(data) - d /\ Len(pending') + Len(data) = Len(pending) + Len(ready)
  BY <1>1, <1>3, <1>5, <1>6
<1>10. TypeOK'
  <2>1. balance' \in Int /\ cursor' \in 0..(NumIps + 1)
    BY <1>9, Sizes, Positive
  <2> QED BY ZenonT(60), <1>1, <1>2, <1>3, <1>6, <1>7, <2>1 DEF TypeOK, Tables, config
<1>11. balance' = Len(pending') + Len(ready')
  BY <1>5, <1>9, Sizes
<1>12. WithinCapacity'
  <2>1. Len(pending') + Len(ready') + Len(sending') <= TxCapacity
    <3>1. Len(pending') + Len(ready') <= Len(pending) + Len(ready) /\ Len(pending') + Len(ready') \in Nat
      BY <1>5, <1>9
    <3> QED BY <1>9, <3>1, Sizes
  <2>2. \A k \in Ips : Waiting(k)' <= PerNeighborCapacity
    BY <1>4 DEF Waiting
  <2>3. KnownCount' <= NeighborCapacity
    BY <1>1, Sizes DEF KnownCount, Known
  <2> QED BY <1>8, <2>1, <2>2, <2>3 DEF WithinCapacity
<1>13. CurrentDecisions'
  <2>1. address' = address /\ routes' = routes /\ configured' = configured
    BY <1>1 DEF config
  <2>2. ~configured => ready' = <<>>
    <3>1. ~configured => Len(ready') = 0
      BY <1>4, <1>5, <1>6
    <3> QED BY <1>6, <3>1
  <2> QED BY <1>4, <1>6, <1>8, <2>1, <2>2 DEF CurrentDecisions, NextHop
<1>14. \A k \in Ips : In(k, {"resolving"})' <=> In(k, {"resolving"})
  BY <1>1 DEF In, Known
<1>15. CallsSound'
  BY <1>1, <1>14, CallsKept DEF config
<1>16. WaitersServed'
  <2> SUFFICES ASSUME NEW p \in Range(pending') PROVE Awaited(p.hop)'
    BY DEF WaitersServed
  <2>1. p \in Range(pending) /\ p \notin Sendables(neighbors)
    BY <1>3
  <2>2. p.hop \in Ips /\ Mac(p.hop) = None
    BY <2>1, Hops DEF Sendables, Mac
  <2>3. Awaited(p.hop)
    BY <2>1, <2>2 DEF IInv, WaitersServed
  <2>4. neighbors[p.hop].left > 0 /\ In(p.hop, {"resolving"})
    <3>1. p.hop \in 1..NumIps /\ NumIps \in Nat
      BY <2>2, Positive DEF Ips
    <3>2. ~(p.hop >= cursor)
      BY <1>1, <3>1
    <3> QED BY ZenonT(60), <2>3, <3>2 DEF Awaited
  <2> QED BY <1>1, <1>14, <2>2, <2>4 DEF Awaited
<1>17. ProbesWanted'
  BY ZenonT(60), <1>1, <1>7, <1>14, ProbesKept
<1> QED BY <1>10, <1>11, <1>12, <1>13, <1>15, <1>16, <1>17 DEF IInv, Accounted

\* learn: one entry of the table changes, and its probes are dropped.
LEMMA LearnSound ==
    ASSUME Induction, Counting, IInv, NEW h \in Ips, NEW m \in Macs
    PROVE  /\ Learn(h, m) \in Tables /\ Count(Learn(h, m)) <= NeighborCapacity
           /\ LearnControl(h) \in Seq(ArpFrames) /\ Len(LearnControl(h)) <= Len(control)
           /\ Range(LearnControl(h)) \subseteq Range(control)
           /\ \A k \in Ips : Len(Filter(LearnControl(h), RequestsFor(k))) <= Len(Filter(control, RequestsFor(k)))
           /\ \A k \in Ips : \/ Learn(h, m)[k] = neighbors[k]
                             \/ /\ Len(Filter(LearnControl(h), RequestsFor(k))) = 0
                                /\ Learn(h, m)[k] = Reachable(m, NeighborTtl)
<1>1. control \in Seq(ArpFrames) /\ neighbors \in Tables /\ Count(neighbors) <= NeighborCapacity
      /\ KnownCount = Count(neighbors)
  BY Sizes DEF IInv, Accounted, TypeOK
<1>2. CASE ~Learnable(h)
  <2>1. Learn(h, m) = neighbors /\ LearnControl(h) = control
    BY <1>2 DEF Learn, LearnControl
  <2>2. \A k \in Ips : Len(Filter(control, RequestsFor(k))) \in Nat
    BY <1>1, FilterShorter
  <2> QED BY <1>1, <2>1, <2>2, Sizes
<1>3. CASE Learnable(h)
  <2> DEFINE new == Reachable(m, NeighborTtl)
  <2>1. Learn(h, m) = [neighbors EXCEPT ![h] = new] /\ LearnControl(h) = CancelProbes(h, control)
    BY <1>3 DEF Learn, LearnControl
  <2>2. new \in NeighborStates
    BY ZenonT(60), FreshMade
  <2> HIDE DEF new
  <2>3. /\ Learn(h, m) \in Tables /\ Learn(h, m)[h] = new
        /\ \A k \in Ips : k # h => Learn(h, m)[k] = neighbors[k]
    BY <1>1, <2>1, <2>2 DEF Tables
  <2>4. Count(Learn(h, m)) <= NeighborCapacity
    BY ZenonT(60), <1>1, <1>3, <2>1, <2>2, CountLearns DEF Learnable, Known
  <2> QED BY <1>1, <2>1, <2>3, <2>4, CancelSound DEF new
<1> QED BY <1>2, <1>3

\* A neighbor with a probe in the queue that learn leaves is as it was.
LEMMA LearnKeeps ==
    ASSUME Induction, Counting, IInv, NEW h \in Ips, NEW m \in Macs, NEW k \in Ips,
           Len(Filter(LearnControl(h), RequestsFor(k))) > 0
    PROVE  Learn(h, m)[k] = neighbors[k]
<1>1. Len(Filter(LearnControl(h), RequestsFor(k))) # 0
  OBVIOUS
<1> QED BY ZenonT(60), <1>1, LearnSound

\* A station whose address is learned may be sent to at once.
LEMMA LearnedUsable ==
    ASSUME Induction, Counting, IInv, NEW h \in Ips, NEW m \in Macs, at = "recv", at' = "recv",
           neighbors' = Learn(h, m), pending' = pending
    PROVE  WaitersServed'
<1> SUFFICES ASSUME NEW p \in Range(pending) PROVE Awaited(p.hop)' \/ (Mac(p.hop) # None)'
  BY DEF WaitersServed
<1>1. p.hop \in Ips
  BY ZenonT(60), Hops
<1>2. CASE neighbors'[p.hop] = neighbors[p.hop]
  <2>1. Awaited(p.hop) \/ Mac(p.hop) # None
    BY DEF IInv, WaitersServed
  <2>2. Awaited(p.hop) => Awaited(p.hop)'
    BY <1>2 DEF Awaited, In, Known
  <2>3. Mac(p.hop)' = Mac(p.hop)
    BY <1>2 DEF Mac, MacIn
  <2> QED BY <2>1, <2>2, <2>3
<1>3. CASE neighbors'[p.hop] = Reachable(m, NeighborTtl)
  <2>1. Reachable(m, NeighborTtl) \in NeighborStates /\ NeighborTtl > 0
    BY ZenonT(60), FreshMade
  <2>2. neighbors'[p.hop] # None /\ neighbors'[p.hop].state = "reachable" /\ neighbors'[p.hop].left > 0
    BY <1>3, <2>1, NoneAssumption DEF Reachable
  <2>3. neighbors' \in Tables
    BY LearnSound
  <2> QED BY <1>1, <2>2, <2>3, MacTyped DEF Mac
<1> QED BY ZenonT(60), <1>1, <1>2, <1>3, LearnSound

\* An ARP reply that was awaited.
LEMMA ReplySound ==
    ASSUME Induction, Counting, IInv, NEW h \in Ips, NEW m \in Macs, ReceiveReply(h, m)
    PROVE  IInv'
<1>1. /\ at = "recv" /\ configured /\ neighbors' = Learn(h, m) /\ control' = LearnControl(h)
      /\ pending' = pending /\ UNCHANGED <<config, pending, ready, balance>>
      /\ spare' = spare /\ at' = at /\ cursor' = cursor /\ sending' = sending
  BY DEF ReceiveReply, Heard, call
<1>2. \A k \in Ips : In(k, {"resolving"})' => In(k, {"resolving"}) \/ configured
  BY <1>1
<1>3. CallsSound'
  BY <1>1, <1>2, CallsKept DEF config
<1>4. WaitersServed'
  BY <1>1, LearnedUsable
<1>5. ProbesWanted'
  <2>1. ASSUME NEW k \in Ips, Len(Filter(control', RequestsFor(k))) > 0, In(k, {"resolving"})
        PROVE  In(k, {"resolving"})' /\ neighbors'[k].attempts = neighbors[k].attempts
    <3>1. Learn(h, m)[k] = neighbors[k]
      BY ZenonT(60), <1>1, <2>1, LearnKeeps
    <3>2. neighbors'[k] = neighbors[k]
      BY ZenonT(60), <1>1, <3>1
    <3> QED BY <2>1, <3>2 DEF In, Known
  <2> QED BY ZenonT(60), <1>1, <2>1, LearnSound, ProbesKept
<1>6. /\ spare' \in BOOLEAN /\ at' \in {"idle", "timers", "recv", "send"}
      /\ cursor' \in 0..(NumIps + 1) /\ sending' \in Seq(Dests)
      /\ Len(pending) + Len(ready) + Len(sending') <= TxCapacity
  BY <1>1, Sizes DEF IInv, Accounted, TypeOK
<1> QED BY ZenonT(60), <1>1, <1>3, <1>4, <1>5, <1>6, LearnSound, ControlLess, QuietSound

\* The queue a request leaves: its answer is queued, or not.
LEMMA AnswerSound ==
    ASSUME Induction, Counting, IInv, configured, NEW q \in Seq(ArpFrames), Len(q) <= Len(control),
           Range(q) \subseteq Range(control), NEW h \in Ips \cup {None},
           QueueArp(q, Reply(h)) \/ ArpNotQueued(q)
    PROVE  /\ control' \in Seq(ArpFrames) /\ Len(control') <= ControlCapacity
           /\ \A f \in Range(control') : f.src = address
           /\ spare' \in BOOLEAN
           /\ \A k \in Ips : Filter(control', RequestsFor(k)) = Filter(q, RequestsFor(k))
<1>1. address \in Ips /\ spare \in BOOLEAN /\ \A f \in Range(control) : f.src = address
  BY DEF IInv, Accounted, TypeOK, CurrentDecisions
<1>2. Reply(h) \in ArpFrames /\ Reply(h).src = address /\ \A k \in Ips : Reply(h) \notin RequestsFor(k)
  BY <1>1 DEF Reply, ArpFrames, RequestsFor
<1>3. CASE QueueArp(q, Reply(h))
  <2>1. control' = Append(q, Reply(h)) /\ Len(q) < ControlCapacity /\ spare' = FALSE
    BY <1>3 DEF QueueArp
  <2>2. /\ control' \in Seq(ArpFrames) /\ Len(control') = Len(q) + 1
        /\ Range(control') = Range(q) \cup {Reply(h)}
        /\ \A k \in Ips : Filter(control', RequestsFor(k)) = Filter(q, RequestsFor(k))
    BY <1>2, <2>1, ArpQueued
  <2>3. Len(control') <= ControlCapacity
    BY <2>1, <2>2, Sizes
  <2> QED BY ZenonT(60), <1>1, <1>2, <2>1, <2>2, <2>3
<1>4. CASE ArpNotQueued(q)
  <2>1. control' = q /\ spare' \in BOOLEAN
    BY ZenonT(60), <1>1, <1>4 DEF ArpNotQueued
  <2>2. Len(q) <= ControlCapacity
    BY Sizes
  <2> QED BY <1>1, <2>1, <2>2
<1> QED BY <1>3, <1>4

\* An ARP request for the local address.
LEMMA RequestSound ==
    ASSUME Induction, Counting, IInv, NEW h \in Ips \cup {None}, NEW m \in Macs, ReceiveRequest(h, m)
    PROVE  IInv'
<1>1. /\ at = "recv" /\ configured /\ pending' = pending /\ UNCHANGED <<config, pending, ready, balance>>
      /\ at' = at /\ cursor' = cursor /\ sending' = sending
  BY DEF ReceiveRequest, Heard, call
<1>2. CallsSound'
  BY <1>1, CallsKept DEF config
<1>3. /\ at' \in {"idle", "timers", "recv", "send"}
      /\ cursor' \in 0..(NumIps + 1) /\ sending' \in Seq(Dests)
      /\ Len(pending) + Len(ready) + Len(sending') <= TxCapacity
  BY <1>1, Sizes DEF IInv, Accounted, TypeOK
<1>4. CASE h = None
  <2>1. neighbors' = neighbors /\ (QueueArp(control, Reply(h)) \/ ArpNotQueued(control))
    BY <1>4 DEF ReceiveRequest
  <2>2. control \in Seq(ArpFrames) /\ Len(control) <= Len(control)
    BY Sizes DEF IInv, Accounted, TypeOK
  <2>3. /\ control' \in Seq(ArpFrames) /\ Len(control') <= ControlCapacity
        /\ \A f \in Range(control') : f.src = address
        /\ spare' \in BOOLEAN
        /\ \A k \in Ips : Filter(control', RequestsFor(k)) = Filter(control, RequestsFor(k))
    BY <1>1, <2>1, <2>2, AnswerSound
  <2>4. WaitersServed'
    BY ZenonT(60), <1>1, <2>1 DEF IInv, WaitersServed, Awaited, In, Known, Mac, MacIn
  <2>5. ProbesWanted'
    BY ZenonT(60), <2>1, <2>3 DEF IInv, ProbesWanted, In, Known
  <2> QED BY <1>1, <1>2, <1>3, <2>1, <2>3, <2>4, <2>5, Sizes, QuietSound
<1>5. CASE h # None
  <2> DEFINE q == LearnControl(h)
  <2>1. h \in Ips /\ neighbors' = Learn(h, m) /\ (QueueArp(q, Reply(h)) \/ ArpNotQueued(q))
    BY <1>5 DEF ReceiveRequest
  <2>2. /\ q \in Seq(ArpFrames) /\ Len(q) <= Len(control) /\ Range(q) \subseteq Range(control)
        /\ \A k \in Ips : Len(Filter(q, RequestsFor(k))) <= Len(Filter(control, RequestsFor(k)))
        /\ \A k \in Ips : Len(Filter(q, RequestsFor(k))) > 0 =>
              neighbors'[k] = neighbors[k]
    <3>1. \A k \in Ips : Len(Filter(q, RequestsFor(k))) > 0 => Learn(h, m)[k] = neighbors[k]
      BY ZenonT(60), <2>1, LearnKeeps
    <3> QED BY ZenonT(60), <2>1, <3>1, LearnSound
  <2> HIDE DEF q
  <2>3. /\ control' \in Seq(ArpFrames) /\ Len(control') <= ControlCapacity
        /\ \A f \in Range(control') : f.src = address
        /\ spare' \in BOOLEAN
        /\ \A k \in Ips : Filter(control', RequestsFor(k)) = Filter(q, RequestsFor(k))
    BY ZenonT(60), <1>1, <2>1, <2>2, AnswerSound
  <2>4. WaitersServed'
    BY <1>1, <2>1, LearnedUsable
  <2>5. ProbesWanted'
    <3>1. ASSUME NEW k \in Ips, Len(Filter(control', RequestsFor(k))) > 0, In(k, {"resolving"})
          PROVE  In(k, {"resolving"})' /\ neighbors'[k].attempts = neighbors[k].attempts
      <4>1. neighbors'[k] = neighbors[k]
        BY ZenonT(60), <2>2, <2>3, <3>1
      <4> QED BY <3>1, <4>1 DEF In, Known
    <3> QED BY ZenonT(60), <2>2, <2>3, <3>1, ProbesKept
  <2>6. neighbors' \in Tables /\ Count(neighbors') <= NeighborCapacity
    BY ZenonT(60), <2>1, LearnSound
  <2> QED BY <1>1, <1>2, <1>3, <2>3, <2>4, <2>5, <2>6, QuietSound
<1> QED BY <1>4, <1>5

\* send queues a packet for a neighbor whose resolution it starts or finds.
LEMMA PendingSound ==
    ASSUME Induction, Counting, IInv, ResolutionsTimed, SendPending
    PROVE  IInv'
<1> DEFINE p == [dest |-> Dest, hop |-> Hop, src |-> address]
           n == StartResolving(Hop)
<1>1. /\ at = "send" /\ TakeFrame /\ Dest # Bcast /\ Room(Hop) /\ ready' = ready
      /\ neighbors' = [neighbors EXCEPT ![Hop] = n] /\ pending' = Append(pending, p)
  BY DEF SendPending
<1>2. Hop \in Ips /\ Dest \in Dests /\ address \in Ips /\ neighbors \in Tables
  BY ZenonT(60), <1>1, Sizes, TakeTyped DEF IInv, Accounted, TypeOK
<1>3. /\ n \in NeighborStates /\ n.state = "resolving" /\ n.left > 0
      /\ In(Hop, {"resolving"}) => n = neighbors[Hop]
  <2>1. CASE In(Hop, {"resolving"})
    <3>1. n = neighbors[Hop] /\ neighbors[Hop] # None /\ neighbors[Hop].state = "resolving"
      BY <2>1 DEF StartResolving, In, Known
    <3>2. neighbors[Hop].left > 0
      BY <1>1, <1>2, <2>1 DEF ResolutionsTimed, Awaited
    <3> QED BY <1>2, <3>1, <3>2 DEF Tables
  <2>2. CASE ~In(Hop, {"resolving"})
    <3>1. n = Resolving(0, 0, ResolutionTimeout)
      BY <2>2 DEF StartResolving
    <3> QED BY <2>2, <3>1, NeighborMade, Positive DEF Resolving
  <2> QED BY <2>1, <2>2
<1>4. p \in Packets /\ p.dest = Dest /\ p.hop = Hop /\ p.src = address
  BY <1>2 DEF Packets
<1> HIDE DEF p, n
<1>5. /\ neighbors' \in Tables /\ neighbors'[Hop] = n /\ n # None
      /\ \A k \in Ips : k # Hop => neighbors'[k] = neighbors[k]
  BY <1>1, <1>2, <1>3, NoneAssumption DEF Tables
<1>6. pending \in Seq(Packets) /\ TypeOK /\ CurrentDecisions
  BY DEF IInv, Accounted, TypeOK
<1>7. pending' \in Seq(Packets) /\ Len(pending') = Len(pending) + 1
  BY <1>1, <1>4, <1>6
<1>8. Range(pending') = Range(pending) \cup {p}
  BY <1>1, <1>4, <1>6, RangeAppend
<1>9. TypeOK'
  <2>1. balance' \in Int
    BY <1>1, <1>6, TakeTyped DEF TypeOK
  <2> QED BY <1>1, <1>5, <1>6, <1>7, <2>1, TakeTyped DEF TypeOK, config, Tables
<1>10. balance' = Len(pending') + Len(ready')
  BY <1>1, <1>7, Sizes, TakeTyped
<1>11. WithinCapacity'
  <2>1. Len(pending') + Len(ready') + Len(sending') <= TxCapacity
    BY <1>1, <1>7, Sizes, TakeTyped
  <2>2. KnownCount' <= NeighborCapacity
    <3>1. Known(Hop) \/ Count(neighbors) < NeighborCapacity
      BY <1>1, Sizes DEF Room
    <3>2. Count(neighbors') <= NeighborCapacity
      BY ZenonT(60), <1>1, <1>2, <1>3, <3>1, Sizes, CountLearns DEF Known
    <3> QED BY <3>2 DEF KnownCount, Known, Count
  <2>3. ASSUME NEW k \in Ips PROVE Waiting(k)' <= PerNeighborCapacity
    <3>1. Filter(pending, PacketsTo(k)) \in Seq(Packets) /\ Waiting(k) \in Nat
      BY <1>6, FilterType DEF Waiting
    <3>2. CASE k = Hop
      <4>1. p \in PacketsTo(k)
        BY <1>4, <3>2 DEF PacketsTo
      <4>2. Filter(pending', PacketsTo(k)) = Append(Filter(pending, PacketsTo(k)), p)
        BY <1>1, <1>4, <1>6, <4>1, FilterAppend
      <4>3. Waiting(k)' = Waiting(k) + 1
        BY <1>4, <3>1, <4>2 DEF Waiting
      <4>4. Waiting(k) < PerNeighborCapacity
        BY <1>1, <3>2 DEF Room
      <4> QED BY <3>1, <4>3, <4>4, Sizes
    <3>3. CASE k # Hop
      <4>1. p \notin PacketsTo(k)
        BY <1>4, <3>3 DEF PacketsTo
      <4>2. Filter(pending', PacketsTo(k)) = Filter(pending, PacketsTo(k))
        BY <1>1, <1>4, <1>6, <4>1, FilterAppend
      <4> QED BY <4>2 DEF Waiting, IInv, Accounted, WithinCapacity
    <3> QED BY <3>2, <3>3
  <2>4. control' = control
    BY <1>1, TakeTyped
  <2> QED BY <2>1, <2>2, <2>3, <2>4 DEF WithinCapacity, IInv, Accounted
<1>12. CurrentDecisions'
  <2>1. /\ address' = address /\ routes' = routes /\ configured' /\ control' = control
        /\ \A d : NextHop(d)' = NextHop(d)
    BY <1>1, TakeTyped DEF config, NextHop
  <2>2. p.src = address /\ p.hop = NextHop(p.dest)
    BY <1>4 DEF Hop
  <2> QED BY <1>1, <1>6, <1>8, <2>1, <2>2 DEF CurrentDecisions
<1>13. WaitersServed'
  <2> SUFFICES ASSUME NEW x \in Range(pending') PROVE Awaited(x.hop)'
    BY DEF WaitersServed
  <2>1. CASE x.hop = Hop
    BY <1>3, <1>5, <2>1 DEF Awaited, In, Known
  <2>2. CASE x.hop # Hop
    <3>1. x \in Range(pending) /\ x.hop \in Ips
      BY <1>4, <1>8, <2>2, Hops
    <3>2. Awaited(x.hop) /\ neighbors'[x.hop] = neighbors[x.hop]
      BY <1>1, <1>5, <2>2, <3>1 DEF IInv, WaitersServed
    <3> QED BY <1>1, <3>2 DEF Awaited, In, Known
  <2> QED BY <2>1, <2>2
<1>14. ProbesWanted'
  <2>1. control' = control
    BY <1>1, TakeTyped
  <2>2. \A k \in Ips : In(k, {"resolving"}) => neighbors'[k] = neighbors[k]
    BY <1>3, <1>5
  <2> QED BY <2>1, <2>2 DEF IInv, ProbesWanted, In, Known
<1> QED BY <1>1, <1>9, <1>10, <1>11, <1>12, <1>13, <1>14, TakeCalls DEF IInv, Accounted

\* The interface starts with nothing queued and no neighbor known.
LEMMA InitSound == ASSUME Induction, Counting PROVE Init => IInv /\ ResolutionsTimed
<1> SUFFICES ASSUME Init PROVE IInv /\ ResolutionsTimed
  OBVIOUS
<1>1. /\ configured = TRUE /\ address = 1 /\ routes = [connected |-> TRUE, gateway |-> None]
      /\ neighbors = [h \in Ips |-> None] /\ pending = <<>> /\ ready = <<>> /\ control = <<>>
      /\ spare = TRUE /\ balance = 0 /\ at = "idle" /\ cursor = 0 /\ sending = <<>>
  BY DEF Init
<1>2. TypeOK
  <2>1. address \in Ips /\ cursor \in 0..(NumIps + 1)
    BY <1>1, Positive DEF Ips
  <2> QED BY <1>1, <2>1 DEF TypeOK
<1>3. Range(pending) = {} /\ Range(ready) = {} /\ Range(control) = {}
  BY <1>1 DEF Range
<1>4. \A h \in Ips : ~Known(h) /\ ~In(h, {"resolving"})
  BY <1>1 DEF Known, In
<1>5. WithinCapacity
  <2>1. KnownCount = 0
    <3>1. {h \in Ips : Known(h)} = {}
      BY <1>4
    <3> QED BY <3>1 DEF KnownCount, Counting
  <2>2. \A h \in Ips : Waiting(h) = 0
    BY <1>1, FilterEmpty DEF Waiting
  <2>3. Len(pending) = 0 /\ Len(ready) = 0 /\ Len(sending) = 0 /\ Len(control) = 0
    BY <1>1
  <2>4. /\ 0 <= TxCapacity /\ 0 <= PerNeighborCapacity /\ 0 <= NeighborCapacity
        /\ 0 <= ControlCapacity
    BY Positive
  <2> QED BY <2>1, <2>2, <2>3, <2>4 DEF WithinCapacity
<1>6. balance = Len(pending) + Len(ready)
  BY <1>1
<1>7. CurrentDecisions
  BY <1>1, <1>3 DEF CurrentDecisions
<1>8. CallsSound /\ WaitersServed /\ ResolutionsTimed
  BY <1>1, <1>3, <1>4 DEF CallsSound, WaitersServed, ResolutionsTimed
<1>9. ProbesWanted
  <2>1. \A h \in Ips : Len(Filter(control, RequestsFor(h))) = 0
    BY <1>1, FilterEmpty
  <2> QED BY <2>1 DEF ProbesWanted
<1> QED BY <1>2, <1>5, <1>6, <1>7, <1>8, <1>9 DEF IInv, Accounted

\* Every step of the interface keeps the invariant.
LEMMA StepSound == ASSUME Induction, Counting PROVE IInv /\ ResolutionsTimed /\ [Next]_vars => IInv'
<1> SUFFICES ASSUME IInv, ResolutionsTimed, [Next]_vars PROVE IInv'
  OBVIOUS
<1>1. /\ spare \in BOOLEAN /\ sending \in Seq(Dests)
      /\ Len(pending) + Len(ready) + Len(sending) <= TxCapacity
      /\ Len(pending) + Len(ready) <= TxCapacity
  BY Sizes DEF IInv, Accounted, TypeOK
<1>2. CASE Configure
  BY <1>2, ConfigureSound
<1>3. CASE \E d \in 0..MaxTick : Advance(d)
  <2>1. MaxTick \in Nat
    BY InterfaceAssumption
  <2> QED BY <1>3, <2>1, BeginTimersSound DEF Advance
<1>4. CASE \E h \in Ips : Timers(h)
  BY <1>4, ExpireSound, TimeoutSound, ProbeSound, KeepSound DEF Timers
<1>5. CASE Finish
  BY <1>5, FinishSound DEF Finish
<1>6. CASE Recv
  <2>1. /\ at = "idle" /\ spare' = FALSE /\ at' \in {"recv", "idle"} /\ sending' = sending
        /\ UNCHANGED <<config, neighbors, queues, balance, cursor>>
    BY <1>6 DEF Recv
  <2>2. CallsSound'
    BY <2>1, CallsKept DEF config, In, Known
  <2> QED BY ZenonT(60), <1>1, <2>1, <2>2, CallSound
<1>7. CASE \E h \in Ips \cup {None}, m \in Macs : ReceiveRequest(h, m)
  BY <1>7, RequestSound
<1>8. CASE \E h \in Ips, m \in Macs : ReceiveReply(h, m)
  BY <1>8, ReplySound
<1>9. CASE RecvDone
  BY <1>9, BeginTimersSound DEF RecvDone
<1>10. CASE \E n \in 1..MaxSend : \E dests \in [1..n -> Dests \ {address}] : Send(dests)
  BY <1>10, SendSound
<1>11. CASE SendFramed
  BY <1>11, FramedSound
<1>12. CASE SendPending
  BY <1>12, PendingSound
<1>13. CASE SendStops
  <2>1. /\ at = "send" /\ at' = "idle" /\ sending' = <<>> /\ spare' = spare
        /\ UNCHANGED <<config, neighbors, queues, balance, cursor>>
    BY <1>13 DEF SendStops
  <2>2. CallsSound'
    BY <2>1, CallsKept DEF config, In, Known
  <2>3. Len(sending') = 0 /\ sending' \in Seq(Dests)
    BY <2>1
  <2>4. Len(pending) + Len(ready) + Len(sending') <= TxCapacity
    BY <1>1, <2>3, Sizes
  <2> QED BY <1>1, <2>1, <2>2, <2>3, <2>4, CallSound
<1>14. CASE Alloc
  <2>1. /\ at = "idle" /\ spare' \in {TRUE, spare} /\ at' = "idle" /\ sending' = sending
        /\ UNCHANGED <<config, neighbors, queues, balance, cursor>>
    BY ZenonT(60), <1>14 DEF Alloc, EnsureSpare, call
  <2>2. CallsSound'
    BY <2>1, CallsKept DEF config, In, Known
  <2> QED BY ZenonT(60), <1>1, <2>1, <2>2, CallSound
<1>15. CASE UNCHANGED vars
  <2>1. UNCHANGED <<configured, address, routes, neighbors, pending, ready, control, spare, balance,
                    at, cursor, sending>>
    BY <1>15 DEF vars, config, queues, call
  <2>2. Accounted'
    BY <2>1 DEF IInv, Accounted, TypeOK, WithinCapacity, Waiting, KnownCount, Known
  <2>3. CurrentDecisions' /\ CallsSound'
    BY ZenonT(60), <2>1 DEF IInv, CurrentDecisions, CallsSound, NextHop, In, Known
  <2>4. WaitersServed' /\ ProbesWanted'
    BY ZenonT(60), <2>1 DEF IInv, WaitersServed, ProbesWanted, Awaited, In, Known, Mac
  <2> QED BY <2>2, <2>3, <2>4 DEF IInv
<1> QED BY <1>2, <1>3, <1>4, <1>5, <1>6, <1>7, <1>8, <1>9, <1>10, <1>11, <1>12, <1>13, <1>14, <1>15
        DEF Next, Accept

-----------------------------------------------------------------------------
(* The two facts of the library *)

Sets == INSTANCE FiniteSetTheorems

\* The instance's cardinality is that of FiniteSets.
LEMMA SameCardinality == \A S : Sets!Cardinality(S) = Cardinality(S)
BY ZenonT(60) DEF Sets!Cardinality, Cardinality, Sets!IsFiniteSet, IsFiniteSet

\* So is its notion of a finite set.
LEMMA SameFinite == \A S : Sets!IsFiniteSet(S) <=> IsFiniteSet(S)
BY ZenonT(60) DEF Sets!IsFiniteSet, IsFiniteSet

\* The sizes of finite sets.
LEMMA CountingHolds == Counting
<1>1. Cardinality({}) = 0
  BY Sets!FS_EmptySet, SameCardinality
<1>2. \A n \in Nat : IsFiniteSet(1..n)
  BY Sets!FS_Interval, SameFinite
<1>3. \A S : IsFiniteSet(S) => Cardinality(S) \in Nat
  BY Sets!FS_CardinalityType, SameFinite, SameCardinality
<1>4. \A S, T : IsFiniteSet(S) /\ T \subseteq S =>
          IsFiniteSet(T) /\ Cardinality(T) <= Cardinality(S)
  BY Sets!FS_Subset, SameFinite, SameCardinality
<1>5. \A S, x : IsFiniteSet(S) =>
          Cardinality(S \cup {x}) = IF x \in S THEN Cardinality(S) ELSE Cardinality(S) + 1
  BY Sets!FS_AddElement, SameFinite, SameCardinality
<1> QED BY <1>1, <1>2, <1>3, <1>4, <1>5 DEF Counting

\* Induction, since a set of naturals that is not empty has a least element.
LEMMA InductionHolds == Induction
<1> SUFFICES ASSUME NEW G, 0 \in G, \A n \in Nat : n \in G => n + 1 \in G
             PROVE  Nat \subseteq G
  BY DEF Induction
<1> DEFINE B == Nat \ G
<1> SUFFICES ASSUME B # {} PROVE FALSE
  OBVIOUS
<1>1. PICK n \in B : \A m \in B : ~(<<m, n>> \in Sets!OpToRel(<, Nat))
  <2> HIDE DEF B
  <2>1. B \subseteq Nat
    BY DEF B
  <2> QED BY <2>1, Sets!NatLessThanWellFounded, Sets!WFMin, ZenonT(60)
<1>2. n # 0 /\ n - 1 \in Nat /\ n - 1 < n
  OBVIOUS
<1>3. n - 1 \in B
  BY <1>2
<1> QED BY ZenonT(60), <1>1, <1>2, <1>3 DEF Sets!OpToRel

-----------------------------------------------------------------------------
(* Theorems *)

\* Both parts of the invariant hold in every reachable state.
LEMMA Inductive == SafetySpec => [](IInv /\ ResolutionsTimed)
<1>1. Init => IInv /\ ResolutionsTimed
  BY InitSound, CountingHolds, InductionHolds
<1>2. (IInv /\ ResolutionsTimed) /\ [Next]_vars => (IInv /\ ResolutionsTimed)'
  BY StepSound, TimedStep, CountingHolds, InductionHolds
<1> QED BY <1>1, <1>2, PTL DEF SafetySpec

\* The counters of the interface account for every accepted packet, and the
\* four limits hold, whatever their values and however the calls interleave
\* with timers, replies and a device that takes any prefix of the frames.
THEOREM EveryPacketCounted == SafetySpec => []Accounted
<1>1. IInv => Accounted
  BY DEF IInv
<1> QED BY <1>1, Inductive, PTL

\* Whatever is queued agrees with the present configuration: no frame leaves
\* by a route, from an address or through an interface that is gone.
THEOREM DecisionsCurrent == SafetySpec => []CurrentDecisions
<1>1. IInv => CurrentDecisions
  BY DEF IInv
<1> QED BY <1>1, Inductive, PTL

\* Between calls a packet waits only for a neighbor whose resolution has yet
\* to time out, and every queued request serves a running resolution that
\* counted it.
THEOREM NothingStranded == SafetySpec => []WaitingWanted
<1>1. IInv => WaitingWanted
  <2> SUFFICES ASSUME IInv PROVE WaitingWanted
    OBVIOUS
  <2>1. PendingResolving
    <3> SUFFICES ASSUME at = "idle", NEW i \in DOMAIN pending
                 PROVE  In(pending[i].hop, {"resolving"}) /\ neighbors[pending[i].hop].left > 0
      BY DEF PendingResolving
    <3>1. pending[i] \in Range(pending)
      BY DEF Range
    <3>2. Awaited(pending[i].hop)
      BY <3>1 DEF IInv, WaitersServed
    <3> QED BY <3>2 DEF Awaited
  <2> QED BY <2>1 DEF IInv, WaitingWanted
<1> QED BY <1>1, Inductive, PTL

=============================================================================
