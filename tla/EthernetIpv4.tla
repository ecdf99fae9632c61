---------------------------- MODULE EthernetIpv4 ----------------------------
(***************************************************************************)
(* The Ethernet adapter (src/net/interface.rs): routes, ARP neighbors, and *)
(* the three bounded queues between an IPv4 sender and an Ethernet device. *)
(*                                                                         *)
(* The adapter runs on one thread.  A call that loops (advance over the    *)
(* neighbors, recv and send over their frames) takes several steps here;   *)
(* `at` says where it is, and only "idle" admits a new call.               *)
(*                                                                         *)
(* Time is relative: a deadline is the time left until it, 0 once passed.  *)
(* Only advance moves time.  Addresses are numbers, so that the BTreeMap's *)
(* order is theirs; the connected prefix holds all of Ips, and Far is any  *)
(* address outside it.                                                     *)
(***************************************************************************)
EXTENDS Integers, Sequences, FiniteSets, Functions, SeqFilter

CONSTANTS
    NumIps,              \* the on-link addresses are 1..NumIps
    Macs,                \* hardware addresses of the other stations
    Far, Bcast, None,
    TxCapacity, PerNeighborCapacity, NeighborCapacity, ControlCapacity,
    NeighborTtl, RetryInterval, ResolutionTimeout, FailedRetryDelay,
    MaxArpAttempts,
    MaxSend,             \* bound: frames in one call of send
    MaxTick,             \* bound: time that passes between two polls
    Admin                \* the configuration calls a run makes

Ips == 1..NumIps
Dests == Ips \cup {Far, Bcast}
AdminCalls == {"configure", "withdraw", "route", "neighbor", "static", "reset"}

ASSUME InterfaceAssumption ==
    /\ NumIps \in Nat \ {0} /\ Far \notin Ips /\ Bcast \notin Ips
    /\ {TxCapacity, PerNeighborCapacity, NeighborCapacity, ControlCapacity,
        NeighborTtl, RetryInterval, ResolutionTimeout, FailedRetryDelay,
        MaxArpAttempts, MaxSend, MaxTick} \subseteq Nat \ {0}
    /\ Admin \subseteq AdminCalls

VARIABLES
    configured, address, routes,
    neighbors,           \* address -> NeighborState, None when absent
    pending,             \* data waiting for a neighbor
    ready, control,      \* framed data and ARP frames, waiting for the device
    spare,               \* control_spare holds a frame
    balance,             \* accepted_ip - submitted_ip - timeout and configuration drops
    at, cursor,          \* progress of the current call
    sending              \* frames of the current send not yet taken

config == <<configured, address, routes>>
queues == <<pending, ready, control>>
call == <<at, cursor, sending>>
vars == <<config, neighbors, queues, spare, balance, call>>

-----------------------------------------------------------------------------
Static(m) == [state |-> "static", mac |-> m]
Reachable(m, left) == [state |-> "reachable", mac |-> m, left |-> left]
Resolving(n, probe, left) ==
    [state |-> "resolving", attempts |-> n, probe |-> probe, left |-> left]
Failed(left) == [state |-> "failed", left |-> left]

NeighborStates ==
    {Static(m) : m \in Macs}
    \cup {Reachable(m, t) : m \in Macs, t \in 0..NeighborTtl}
    \cup {Resolving(n, p, t) : n \in 0..MaxArpAttempts, p \in 0..RetryInterval,
                               t \in 0..ResolutionTimeout}
    \cup {Failed(t) : t \in 0..FailedRetryDelay}

\* None marks an absent address, gateway or neighbor.
ASSUME NoneAssumption == None \notin Ips /\ None \notin Macs /\ None \notin NeighborStates

Known(h) == neighbors[h] # None
In(h, states) == Known(h) /\ neighbors[h].state \in states
KnownCount == Cardinality({h \in Ips : Known(h)})

\* NeighborState::mac: the hardware address that may be used for h now.
MacIn(table, h) ==
    IF /\ table[h] # None
       /\ \/ table[h].state = "static"
          \/ table[h].state = "reachable" /\ table[h].left > 0
    THEN table[h].mac
    ELSE None
Mac(h) == MacIn(neighbors, h)

\* lookup and next_hop: the connected route is longer than the default one.
NextHop(d) == IF d \in Ips /\ routes.connected THEN d ELSE routes.gateway

\* Data that waits for a neighbor, framed data, and ARP frames.
Packets == [dest : Dests, hop : Ips, src : Ips]
Frames == [dest : Dests, hop : Ips \cup {Bcast}, src : Ips, mac : Macs \cup {Bcast}]
ArpFrames == [op : {"request", "reply"}, target : Ips \cup {None}, src : Ips]

PacketsTo(h) == {p \in Packets : p.hop = h}
RequestsFor(h) == {f \in ArpFrames : f.op = "request" /\ f.target = h}

\* The frame on the wire for a data packet.
Framed(p, m) == [dest |-> p.dest, hop |-> p.hop, src |-> p.src, mac |-> m]

Probe(h) == [op |-> "request", target |-> h, src |-> address]
Reply(h) == [op |-> "reply", target |-> h, src |-> address]

Init ==
    /\ configured = TRUE /\ address = 1
    /\ routes = [connected |-> TRUE, gateway |-> None]
    /\ neighbors = [h \in Ips |-> None]
    /\ pending = <<>> /\ ready = <<>> /\ control = <<>>
    /\ spare = TRUE /\ balance = 0
    /\ at = "idle" /\ cursor = 0 /\ sending = <<>>

-----------------------------------------------------------------------------
\* discard_queued on the given table: queues and resolutions go together.
Settled(table) ==
    [h \in Ips |-> IF table[h] # None /\ table[h].state = "resolving"
                   THEN None ELSE table[h]]

DiscardQueued(table) ==
    /\ pending' = <<>> /\ ready' = <<>> /\ control' = <<>>
    /\ balance' = balance - Len(pending) - Len(ready)
    /\ neighbors' = Settled(table)

\* ensure_spare: the device may have no frame to give.
EnsureSpare == spare' \in {TRUE, spare}

\* cancel_probes drops the requests for h that have not been submitted.
CancelProbes(h, queue) == Filter(queue, ArpFrames \ RequestsFor(h))

\* queue_arp on the given control queue: fails when the queue is full or no
\* frame can be had; the spare frame is used up otherwise.
QueueArp(queue, frame) ==
    /\ Len(queue) < ControlCapacity
    /\ control' = Append(queue, frame)
    /\ spare' = FALSE
ArpNotQueued(queue) ==
    /\ control' = queue
    /\ \/ Len(queue) = ControlCapacity /\ spare' = spare
       \/ ~spare /\ spare' = FALSE

\* release_resolved with the given table: what it frames and what it leaves.
Sendables(table) == {p \in Packets : MacIn(table, p.hop) # None}
Resolved(table) == Filter(pending, Sendables(table))
Unresolved(table) == Filter(pending, Packets \ Sendables(table))
Released(table) ==
    ready \o [i \in DOMAIN Resolved(table) |->
                 Framed(Resolved(table)[i], MacIn(table, Resolved(table)[i].hop))]

-----------------------------------------------------------------------------
\* Configuration calls.
Calls(name) == at = "idle" /\ name \in Admin /\ UNCHANGED <<spare, call>>

ConfigureIpv4(a, g) ==
    LET fresh == [connected |-> TRUE, gateway |-> g] IN
    /\ Calls("configure")
    /\ g # a
    /\ ~(configured /\ address = a /\ routes = fresh)
    /\ DiscardQueued([h \in Ips |-> None])
    /\ configured' = TRUE /\ address' = a /\ routes' = fresh

WithdrawIpv4 ==
    /\ Calls("withdraw")
    /\ DiscardQueued([h \in Ips |-> None])
    /\ routes' = [connected |-> FALSE, gateway |-> None]
    /\ configured' = FALSE
    /\ UNCHANGED address

\* add_route of the connected prefix or of a default route.
AddRoute(g) ==
    /\ Calls("route")
    /\ g # address
    /\ routes' = IF g = None THEN [routes EXCEPT !.connected = TRUE]
                 ELSE [routes EXCEPT !.gateway = g]
    /\ DiscardQueued(neighbors)
    /\ UNCHANGED <<configured, address>>

\* Faulty variant of the definition that follows it, for mutation checks.
RemoveRouteKeepsQueues(which) ==
    /\ Calls("route")
    /\ \/ which = "connected" /\ routes' = [routes EXCEPT !.connected = FALSE]
       \/ which = "default" /\ routes' = [routes EXCEPT !.gateway = None]
    /\ UNCHANGED <<configured, address, neighbors, queues, balance>>

RemoveRoute(which) ==
    /\ Calls("route")
    /\ \/ which = "connected" /\ routes.connected
          /\ routes' = [routes EXCEPT !.connected = FALSE]
       \/ which = "default" /\ routes.gateway # None
          /\ routes' = [routes EXCEPT !.gateway = None]
    /\ DiscardQueued(neighbors)
    /\ UNCHANGED <<configured, address>>

RemoveNeighbor(h) ==
    /\ Calls("neighbor")
    /\ Known(h)
    /\ DiscardQueued([neighbors EXCEPT ![h] = None])
    /\ UNCHANGED config

\* add_static_neighbor; queued frames may hold a mapping this one replaces.
AddStaticNeighbor(h, m) ==
    LET replaced == In(h, {"static", "reachable"}) /\ neighbors[h].mac # m
        kept == IF replaced THEN Settled(neighbors) ELSE neighbors
        table == [kept EXCEPT ![h] = Static(m)]
    IN
    /\ Calls("static")
    /\ h # address
    /\ Known(h) \/ KnownCount < NeighborCapacity
    /\ neighbors' = table
    /\ IF replaced
       THEN /\ pending' = <<>> /\ ready' = <<>> /\ control' = <<>>
            /\ balance' = balance - Len(pending) - Len(ready)
       ELSE /\ pending' = Unresolved(table) /\ ready' = Released(table)
            /\ control' = CancelProbes(h, control)
            /\ UNCHANGED balance
    /\ UNCHANGED config

ResetLink ==
    /\ Calls("reset")
    /\ DiscardQueued([h \in Ips |-> IF In(h, {"static"}) THEN neighbors[h] ELSE None])
    /\ UNCHANGED config

-----------------------------------------------------------------------------
\* advance: time passes, then every neighbor's timers run in address order.
After(t, d) == IF t > d THEN t - d ELSE 0

Elapse(n, d) ==
    IF n = None \/ n.state = "static" THEN n
    ELSE IF n.state = "resolving"
         THEN Resolving(n.attempts, After(n.probe, d), After(n.left, d))
         ELSE [n EXCEPT !.left = After(@, d)]

BeginTimers(d) ==
    /\ neighbors' = [h \in Ips |-> Elapse(neighbors[h], d)]
    /\ EnsureSpare
    /\ at' = "timers" /\ cursor' = 1
    /\ UNCHANGED <<config, queues, balance, sending>>

Advance(d) == at = "idle" /\ BeginTimers(d)

\* The neighbor whose timers run in this step.
TimersOf(h) == at = "timers" /\ cursor = h /\ cursor' = h + 1 /\ UNCHANGED <<at, sending, config>>

ExpireNeighbor(h) ==
    /\ TimersOf(h)
    /\ In(h, {"reachable", "failed"}) /\ neighbors[h].left = 0
    /\ neighbors' = [neighbors EXCEPT ![h] = None]
    /\ UNCHANGED <<queues, spare, balance>>

\* Faulty variants of the definition that follows them, for mutation checks.
TimeoutKeepsPackets(h) ==
    /\ TimersOf(h)
    /\ In(h, {"resolving"}) /\ neighbors[h].left = 0
    /\ neighbors' = [neighbors EXCEPT ![h] = Failed(FailedRetryDelay)]
    /\ control' = CancelProbes(h, control)
    /\ UNCHANGED <<pending, ready, spare, balance>>

TimeoutRetries(h) ==
    /\ TimersOf(h)
    /\ In(h, {"resolving"}) /\ neighbors[h].left = 0
    /\ neighbors' = [neighbors EXCEPT ![h] = Resolving(0, 0, ResolutionTimeout)]
    /\ UNCHANGED <<queues, spare, balance>>

TimeoutUncounted(h) ==
    /\ TimersOf(h)
    /\ In(h, {"resolving"}) /\ neighbors[h].left = 0
    /\ neighbors' = [neighbors EXCEPT ![h] = Failed(FailedRetryDelay)]
    /\ pending' = Filter(pending, Packets \ PacketsTo(h))
    /\ control' = CancelProbes(h, control)
    /\ UNCHANGED <<ready, spare, balance>>

\* The resolution timed out: its packets and its unsent probes are dropped.
TimeoutNeighbor(h) ==
    LET kept == Filter(pending, Packets \ PacketsTo(h)) IN
    /\ TimersOf(h)
    /\ In(h, {"resolving"}) /\ neighbors[h].left = 0
    /\ neighbors' = [neighbors EXCEPT ![h] = Failed(FailedRetryDelay)]
    /\ pending' = kept
    /\ control' = CancelProbes(h, control)
    /\ balance' = balance - (Len(pending) - Len(kept))
    /\ UNCHANGED <<ready, spare>>

ProbeDue(h) ==
    /\ In(h, {"resolving"}) /\ neighbors[h].left > 0
    /\ neighbors[h].probe = 0 /\ neighbors[h].attempts < MaxArpAttempts

ProbeNeighbor(h) ==
    /\ TimersOf(h)
    /\ ProbeDue(h)
    /\ \/ /\ QueueArp(control, Probe(h))
          /\ neighbors' = [neighbors EXCEPT ![h] =
                             Resolving(@.attempts + 1, RetryInterval, @.left)]
       \/ ArpNotQueued(control) /\ UNCHANGED neighbors
    /\ UNCHANGED <<pending, ready, balance>>

KeepNeighbor(h) ==
    /\ TimersOf(h)
    /\ ~ProbeDue(h)
    /\ ~(In(h, {"reachable", "failed", "resolving"}) /\ neighbors[h].left = 0)
    /\ UNCHANGED <<neighbors, queues, spare, balance>>

\* release_resolved, then flush.  The device takes any prefix of the control
\* frames and, once these are gone, of the data.  It may also fail, which
\* like WouldBlock takes nothing.
Flush(ctl, data, c, d) ==
    /\ c \in 0..Len(ctl)
    /\ d \in (IF c = Len(ctl) THEN 0..Len(data) ELSE {0})
    /\ control' = SubSeq(ctl, c + 1, Len(ctl))
    /\ ready' = SubSeq(data, d + 1, Len(data))
    /\ balance' = balance - d

FinishAdvance(c, d) ==
    /\ at = "timers" /\ cursor = NumIps + 1
    /\ pending' = Unresolved(neighbors)
    /\ Flush(control, Released(neighbors), c, d)
    /\ at' = "idle" /\ cursor' = 0
    /\ UNCHANGED <<config, neighbors, spare, sending>>

-----------------------------------------------------------------------------
\* recv gives the spare frame back to the device, handles the frames the
\* device returns, and advances without moving time.  The device may fail.
Recv ==
    /\ at = "idle"
    /\ spare' = FALSE
    /\ at' \in {"recv", "idle"}
    /\ UNCHANGED <<config, neighbors, queues, balance, cursor, sending>>

\* learn: the table after an ARP packet from h; static entries are kept.
Learnable(h) ==
    ~In(h, {"static"}) /\ (Known(h) \/ KnownCount < NeighborCapacity)
Learn(h, m) ==
    IF Learnable(h) THEN [neighbors EXCEPT ![h] = Reachable(m, NeighborTtl)] ELSE neighbors
LearnControl(h) == IF Learnable(h) THEN CancelProbes(h, control) ELSE control

\* receive_frame lets a frame through only while an address is configured.
\* One that claims our own address is reported and otherwise ignored.
Heard(h) == at = "recv" /\ configured /\ h # address

\* receive_arp on a request for our address.  A probe from the unspecified
\* address (None) is answered and teaches nothing.
ReceiveRequest(h, m) ==
    LET queue == IF h = None THEN control ELSE LearnControl(h) IN
    /\ Heard(h)
    /\ neighbors' = IF h = None THEN neighbors ELSE Learn(h, m)
    /\ QueueArp(queue, Reply(h)) \/ ArpNotQueued(queue)
    /\ UNCHANGED <<config, pending, ready, balance, call>>

\* receive_arp on a reply; only one that is awaited is used.
ReceiveReply(h, m) ==
    /\ Heard(h)
    /\ In(h, {"resolving"}) /\ neighbors[h].left > 0
    /\ neighbors' = Learn(h, m)
    /\ control' = LearnControl(h)
    /\ UNCHANGED <<config, pending, ready, spare, balance, call>>

RecvDone == at = "recv" /\ BeginTimers(0)

-----------------------------------------------------------------------------
\* send: every frame that may be accepted is validated before any is taken.
Sendable(d) ==
    \/ d = Bcast
    \/ /\ NextHop(d) \notin {None, address}
       /\ ~(In(NextHop(d), {"failed"}) /\ neighbors[NextHop(d)].left > 0)

Send(dests) ==
    LET available == TxCapacity - Len(pending) - Len(ready)
        limit == IF available < Len(dests) THEN available ELSE Len(dests)
    IN
    /\ at = "idle" /\ configured
    /\ limit > 0
    /\ \A i \in 1..limit : Sendable(dests[i])
    /\ at' = "send" /\ sending' = SubSeq(dests, 1, limit)
    /\ UNCHANGED <<config, neighbors, queues, spare, balance, cursor>>

\* The frame this step of send takes, and its next hop.
Dest == Head(sending)
Hop == NextHop(Dest)

TakeFrame ==
    /\ sending' = Tail(sending)
    /\ at' = IF Len(sending) = 1 THEN "idle" ELSE "send"
    /\ balance' = balance + 1
    /\ UNCHANGED <<config, control, spare, cursor>>

SendFramed ==
    /\ at = "send"
    /\ \/ Dest = Bcast
          /\ ready' = Append(ready, [dest |-> Bcast, hop |-> Bcast, src |-> address, mac |-> Bcast])
       \/ Dest # Bcast /\ Mac(Hop) # None
          /\ ready' = Append(ready, Framed([dest |-> Dest, hop |-> Hop, src |-> address], Mac(Hop)))
    /\ TakeFrame
    /\ UNCHANGED <<neighbors, pending>>

Waiting(h) == Len(Filter(pending, PacketsTo(h)))
Room(h) == Waiting(h) < PerNeighborCapacity /\ (Known(h) \/ KnownCount < NeighborCapacity)

\* A resolution that is under way keeps its deadlines.
StartResolving(h) ==
    IF In(h, {"resolving"}) THEN neighbors[h] ELSE Resolving(0, 0, ResolutionTimeout)

SendPending ==
    /\ at = "send"
    /\ Dest # Bcast /\ Mac(Hop) = None /\ Room(Hop)
    /\ neighbors' = [neighbors EXCEPT ![Hop] = StartResolving(Hop)]
    /\ pending' = Append(pending, [dest |-> Dest, hop |-> Hop, src |-> address])
    /\ TakeFrame
    /\ UNCHANGED ready

\* The accepted prefix ends at the first frame there is no room for.
SendStops ==
    /\ at = "send"
    /\ Dest # Bcast /\ Mac(Hop) = None /\ ~Room(Hop)
    /\ at' = "idle" /\ sending' = <<>>
    /\ UNCHANGED <<config, neighbors, queues, spare, balance, cursor>>

\* alloc keeps a frame for ARP before it gives one to the application.
Alloc == at = "idle" /\ EnsureSpare /\ UNCHANGED <<config, neighbors, queues, balance, call>>

-----------------------------------------------------------------------------
Configure ==
    \/ \E a \in Ips, g \in Ips \cup {None} : ConfigureIpv4(a, g)
    \/ WithdrawIpv4
    \/ \E g \in Ips \cup {None} : AddRoute(g)
    \/ \E which \in {"connected", "default"} : RemoveRoute(which)
    \/ \E h \in Ips : RemoveNeighbor(h)
    \/ \E h \in Ips, m \in Macs : AddStaticNeighbor(h, m)
    \/ ResetLink

Timers(h) == ExpireNeighbor(h) \/ TimeoutNeighbor(h) \/ ProbeNeighbor(h) \/ KeepNeighbor(h)
Finish == \E c \in 0..ControlCapacity, d \in 0..TxCapacity : FinishAdvance(c, d)
Accept == SendFramed \/ SendPending \/ SendStops

Next ==
    \/ Configure
    \/ \E d \in 0..MaxTick : Advance(d)
    \/ \E h \in Ips : Timers(h)
    \/ Finish
    \/ Recv
    \/ \E h \in Ips \cup {None}, m \in Macs : ReceiveRequest(h, m)
    \/ \E h \in Ips, m \in Macs : ReceiveReply(h, m)
    \/ RecvDone
    \/ \E n \in 1..MaxSend : \E dests \in [1..n -> Dests \ {address}] : Send(dests)
    \/ Accept
    \/ Alloc

SafetySpec == Init /\ [][Next]_vars

\* A call that has begun returns, and the application calls advance with a
\* later time again and again (its polling loop, which is busy with other
\* calls in between: hence strong fairness).
Fairness ==
    /\ \A h \in Ips : WF_vars(Timers(h))
    /\ WF_vars(Finish) /\ WF_vars(RecvDone) /\ WF_vars(Accept)
    /\ SF_vars(\E d \in 1..MaxTick : Advance(d))

Spec == SafetySpec /\ Fairness

-----------------------------------------------------------------------------
\* Every variable has its type, and a call is where its loop can be.
TypeOK ==
    /\ configured \in BOOLEAN /\ address \in Ips
    /\ routes \in [connected : BOOLEAN, gateway : Ips \cup {None}]
    /\ neighbors \in [Ips -> NeighborStates \cup {None}]
    /\ pending \in Seq(Packets) /\ ready \in Seq(Frames) /\ control \in Seq(ArpFrames)
    /\ spare \in BOOLEAN /\ balance \in Int
    /\ at \in {"idle", "timers", "recv", "send"}
    /\ cursor \in 0..(NumIps + 1) /\ sending \in Seq(Dests)

\* The configured limits hold together: unresolved and framed data share
\* tx_capacity even while packets move between the two queues, and neither a
\* neighbor's share of the queue nor the neighbor table nor the control queue
\* outgrows its own limit.
WithinCapacity ==
    /\ Len(pending) + Len(ready) + Len(sending) <= TxCapacity
    /\ \A h \in Ips : Waiting(h) <= PerNeighborCapacity
    /\ KnownCount <= NeighborCapacity
    /\ Len(control) <= ControlCapacity

\* No packet is stranded: between two calls, a packet that waits for a
\* neighbor has a resolution running for that neighbor, whose timeout will
\* drop it.  So a resolved neighbor has no packet left waiting that a later
\* send would overtake.
PendingResolving ==
    at = "idle" =>
        \A i \in DOMAIN pending :
            In(pending[i].hop, {"resolving"}) /\ neighbors[pending[i].hop].left > 0

\* The counters account for every accepted packet: accepted_ip is
\* submitted_ip plus both kinds of drops plus what is still queued, and the
\* queues stay within their limits, so that no subtraction from them wraps.
Accounted == TypeOK /\ balance = Len(pending) + Len(ready) /\ WithinCapacity

\* Nothing leaves by an obsolete decision: whatever is queued was addressed
\* from the present local address, and its next hop is the one the present
\* routes give; a withdrawn interface has nothing queued.
CurrentDecisions ==
    /\ ~configured => pending = <<>> /\ ready = <<>> /\ control = <<>>
    /\ \A p \in Range(pending) \cup {f \in Range(ready) : f.dest # Bcast} :
          p.src = address /\ p.hop = NextHop(p.dest)
    /\ \A f \in Range(control) : f.src = address

\* A queued ARP request serves a resolution still running, and there are at
\* most as many of them as attempts that resolution has counted: neither late
\* polling nor a blocked device makes a burst of probes.
ProbesWanted ==
    \A h \in Ips :
        LET probes == Len(Filter(control, RequestsFor(h))) IN
        probes > 0 => In(h, {"resolving"}) /\ probes <= neighbors[h].attempts

\* What waits is wanted: packets and probes wait only for neighbors that are
\* being resolved, so none is stranded when a neighbor is learned, fails, is
\* replaced or discarded.
WaitingWanted == PendingResolving /\ ProbesWanted

\* A resolution ends, by a reply or by its timeout, however often packets for
\* the same neighbor are sent meanwhile.
ResolutionEnds == \A h \in Ips : In(h, {"resolving"}) ~> ~In(h, {"resolving"})

\* A frame queued for a static neighbor carries that neighbor's address ("A
\* previously framed packet might contain the old MAC", add_static_neighbor).
StaticMacUsed ==
    \A f \in Range(ready) :
        f.hop # Bcast /\ In(f.hop, {"static"}) => f.mac = neighbors[f.hop].mac

=============================================================================
