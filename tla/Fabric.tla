------------------------------- MODULE Fabric -------------------------------
(***************************************************************************)
(* The simulated network of src/simulation.rs and the access point around  *)
(* it (src/simulation/access_point.rs): ports with bounded queues, routes, *)
(* directed links with faults, a virtual clock, association.               *)
(*                                                                         *)
(* A batch is sent frame by frame; SendFrame is one turn of that loop.     *)
(* Which frames are lost, counted, queued is kept; contents are not.       *)
(***************************************************************************)
EXTENDS Integers, Sequences, FiniteSets, SequencesExt

CONSTANTS
    Addresses, Capacity,         \* unicast addresses; queue capacity
    LinkConfigs,                 \* the links set_link is given
    Managed,                     \* TRUE: ports belong to an access point
    MaxPorts, MaxSends, MaxSets, MaxNow  \* bounds: ports made, frames sent, links set, time

NoFault == [delay |-> 0, alternating |-> 0, dropEvery |-> 0, partitioned |-> FALSE, mtu |-> FALSE]

ASSUME FabricAssumption == Capacity \in Nat \ {0} /\ MaxPorts \in Nat

VARIABLES
    now, ports,                  \* ports: [queue, active, online] in order of creation
    routes,                      \* address -> port
    links,                       \* <<from, to>> -> [link, sequence]
    running,                     \* the access point is started
    stats,                       \* FabricStats, without backpressure
    sent,                        \* frames accepted so far, copies of broadcasts each
    taken, epoch,                \* per link: frames accepted since set_link; set_links
    received                     \* port -> the frames its owner got, in order

vars == <<now, ports, routes, links, running, stats, sent, taken, epoch, received>>

Ids == DOMAIN ports
Edges == (1..MaxPorts) \X (1..MaxPorts)
Queued == MapThenSumSet(LAMBDA p : Len(ports[p].queue), Ids)

Init ==
    /\ now = 0 /\ ports = <<>> /\ routes = <<>> /\ running = FALSE
    /\ links = [e \in Edges |-> [link |-> NoFault, sequence |-> 0]]
    /\ stats = [delivered |-> 0, fault |-> 0, queue |-> 0, unroutable |-> 0, disconnected |-> 0]
    /\ sent = 0 /\ taken = [e \in Edges |-> 0] /\ epoch = [e \in Edges |-> 0]
    /\ received = [p \in 1..MaxPorts |-> <<>>]

-----------------------------------------------------------------------------
\* port: addresses in use are refused; a port of an access point starts offline.
Port(addresses) ==
    /\ Len(ports) < MaxPorts
    /\ addresses # {} /\ addresses \cap DOMAIN routes = {}
    /\ ports' = Append(ports, [queue |-> <<>>, active |-> TRUE, online |-> ~Managed])
    /\ routes' = [a \in DOMAIN routes \cup addresses |->
                    IF a \in addresses THEN Len(ports) + 1 ELSE routes[a]]
    /\ UNCHANGED <<now, links, running, stats, sent, taken, epoch, received>>

Fresh(edge, link) == [link |-> link, sequence |-> 0]

\* set_link starts the fault sequence anew; queued frames keep their time.
SetLink(from, to, link) ==
    /\ ports[from].active /\ ports[to].active
    /\ MapThenSumSet(LAMBDA e : epoch[e], Edges) < MaxSets
    /\ links' = [links EXCEPT ![<<from, to>>] = Fresh(<<from, to>>, link)]
    /\ taken' = [taken EXCEPT ![<<from, to>>] = 0]
    /\ epoch' = [epoch EXCEPT ![<<from, to>>] = @ + 1]
    /\ UNCHANGED <<now, ports, routes, running, stats, sent, received>>

Advance ==
    /\ now < MaxNow /\ now' = now + 1
    /\ UNCHANGED <<ports, routes, links, running, stats, sent, taken, epoch, received>>

\* Faulty variant of the definition that follows it, for mutation checks.
SurvivingInbound(id, p) == IF p = id THEN <<>> ELSE ports[p].queue

\* Frames to and from a port that leaves are purged, copies of broadcasts included.
Surviving(id, p) ==
    IF p = id THEN <<>> ELSE SelectSeq(ports[p].queue, LAMBDA f : f.source # id)

\* Faulty variant of the definition that follows it, for mutation checks.
PurgedOwn(id) == Len(ports[id].queue)

Purged(id) == Queued - MapThenSumSet(LAMBDA p : Len(Surviving(id, p)), Ids)

Disconnect(id, active) ==
    /\ ports' = [p \in Ids |-> [queue |-> Surviving(id, p),
                                active |-> IF p = id THEN active ELSE ports[p].active,
                                online |-> p # id /\ ports[p].online]]
    /\ stats' = [stats EXCEPT !.disconnected = @ + Purged(id)]

\* Dropping a device gives its addresses back.
DropDevice(id) ==
    /\ ports[id].active
    /\ Disconnect(id, FALSE)
    /\ routes' = [a \in {b \in DOMAIN routes : routes[b] # id} |-> routes[a]]
    /\ UNCHANGED <<now, links, running, sent, taken, epoch, received>>

-----------------------------------------------------------------------------
\* The access point.
Start ==
    /\ Managed /\ running' = TRUE
    /\ UNCHANGED <<now, ports, routes, links, stats, sent, taken, epoch, received>>

Stop ==
    /\ Managed /\ running' = FALSE
    /\ ports' = [p \in Ids |-> [ports[p] EXCEPT !.queue = <<>>, !.online = FALSE]]
    /\ stats' = [stats EXCEPT !.disconnected = @ + Queued]
    /\ UNCHANGED <<now, routes, links, sent, taken, epoch, received>>

Associate(id) ==
    /\ Managed /\ running /\ ports[id].active
    /\ ports' = [ports EXCEPT ![id].online = TRUE]
    /\ UNCHANGED <<now, routes, links, running, stats, sent, taken, epoch, received>>

Disassociate(id) ==
    /\ Managed /\ ports[id].active
    /\ Disconnect(id, TRUE)
    /\ UNCHANGED <<now, routes, links, running, sent, taken, epoch, received>>

-----------------------------------------------------------------------------
\* The frame is the next on its link: partition, size and every Nth drop it.
Faulted(edge, big) ==
    LET l == links[edge].link IN
    \/ l.partitioned \/ (l.mtu /\ big)
    \/ l.dropEvery # 0 /\ (links[edge].sequence + 1) % l.dropEvery = 0

\* Every second frame of a link is delayed more.
Arrival(edge) ==
    LET l == links[edge].link IN
    now + l.delay + IF (links[edge].sequence + 1) % 2 = 0 THEN l.alternating ELSE 0

\* The frame is offered to the links of its targets; lands is where it is queued.
Deliver(id, targets, big, lands, crowded) ==
    LET edges == {id} \X targets IN
    /\ links' = [e \in Edges |-> IF e \in edges THEN [links[e] EXCEPT !.sequence = @ + 1] ELSE links[e]]
    /\ taken' = [e \in Edges |-> IF e \in edges THEN taken[e] + 1 ELSE taken[e]]
    /\ ports' = [p \in Ids |->
         IF p \in lands
         THEN [ports[p] EXCEPT !.queue =
                 Append(@, [at |-> Arrival(<<id, p>>), source |-> id, no |-> sent + 1,
                            link |-> links[<<id, p>>].link, epoch |-> epoch[<<id, p>>]])]
         ELSE ports[p]]
    /\ stats' = [stats EXCEPT !.queue = @ + Cardinality(crowded),
                              !.fault = @ + Cardinality(targets \ (lands \cup crowded))]
    /\ sent' = sent + Cardinality(targets)
    /\ UNCHANGED <<now, routes, running, epoch, received>>

Full(p) == Len(ports[p].queue) = Capacity

\* One frame to an address: no route and an offline target consume it; a full
\* queue leaves it with the sender, before any fault is considered.
Unicast(id, address, big) ==
    /\ sent < MaxSends /\ ports[id].active /\ ports[id].online
    /\ address \in DOMAIN routes /\ ports[routes[address]].online /\ ~Full(routes[address])
    /\ LET t == routes[address] IN
       Deliver(id, {t}, big, IF Faulted(<<id, t>>, big) THEN {} ELSE {t}, {})

Undeliverable(id, address) ==
    /\ sent < MaxSends /\ ports[id].active /\ ports[id].online
    /\ IF address \notin DOMAIN routes
       THEN stats' = [stats EXCEPT !.unroutable = @ + 1]
       ELSE ~ports[routes[address]].online /\ stats' = [stats EXCEPT !.disconnected = @ + 1]
    /\ sent' = sent + 1
    /\ UNCHANGED <<now, ports, routes, links, running, taken, epoch, received>>

\* Copies for every other port online; a full queue or pool (bare) loses a copy.
SendBroadcast(id, big, bare) ==
    LET targets == {p \in Ids : p # id /\ ports[p].active /\ ports[p].online}
        sound == {p \in targets : ~Faulted(<<id, p>>, big)}
        lands == {p \in sound : ~Full(p) /\ p \notin bare}
    IN
    /\ sent < MaxSends /\ ports[id].active /\ ports[id].online
    /\ Deliver(id, targets, big, lands, sound \ lands)

\* Faulty variant of the definition that follows it, for mutation checks.
EarlierByTime(f, g) == f.at < g.at \/ (f.at = g.at /\ f.no > g.no)

\* The stable sort of recv: frames are queued in the order of their numbers.
Earlier(f, g) == f.at < g.at \/ (f.at = g.at /\ f.no < g.no)

Recv(id, max) ==
    LET sorted == SortSeq(ports[id].queue, Earlier)
        ready == Cardinality({i \in DOMAIN sorted : sorted[i].at <= now})
        n == IF ready < max THEN ready ELSE max
    IN
    /\ ports[id].active
    /\ received' = [received EXCEPT ![id] = @ \o SubSeq(sorted, 1, n)]
    /\ ports' = [ports EXCEPT ![id].queue = SubSeq(sorted, n + 1, Len(sorted))]
    /\ stats' = [stats EXCEPT !.delivered = @ + n]
    /\ UNCHANGED <<now, routes, links, running, sent, taken, epoch>>

Next ==
    \/ \E addresses \in SUBSET Addresses : Port(addresses)
    \/ \E from, to \in Ids, link \in LinkConfigs : SetLink(from, to, link)
    \/ Advance \/ Start \/ Stop
    \/ \E id \in Ids : DropDevice(id) \/ Associate(id) \/ Disassociate(id)
    \/ \E id \in Ids, a \in Addresses : Undeliverable(id, a) \/ \E big \in BOOLEAN : Unicast(id, a, big)
    \/ \E id \in Ids, big \in BOOLEAN, bare \in SUBSET Ids : SendBroadcast(id, big, bare)
    \/ \E id \in Ids, max \in 1..Capacity : Recv(id, max)

Spec == Init /\ [][Next]_vars

-----------------------------------------------------------------------------
\* Queues within their capacity; routes lead to devices that exist.
TypeOK ==
    /\ now \in 0..MaxNow /\ running \in BOOLEAN /\ sent \in Nat
    /\ Len(ports) <= MaxPorts
    /\ \A p \in Ids : ports[p].active \in BOOLEAN /\ ports[p].online \in BOOLEAN
                      /\ Len(ports[p].queue) <= Capacity
    /\ DOMAIN routes \subseteq Addresses
    /\ \A a \in DOMAIN routes : routes[a] \in Ids /\ ports[routes[a]].active

\* Nothing is under way to or from a port that is offline (disconnect, stop), so
\* a port that comes back gets nothing from before it left.
NothingOffline ==
    \A p \in Ids : \A i \in DOMAIN ports[p].queue :
        ports[p].online /\ ports[ports[p].queue[i].source].online

\* Ports are online only while the access point runs; a restart brings none back.
OnlineWhileRunning == \A p \in Ids : Managed /\ ports[p].online => running /\ ports[p].active

\* Every frame accepted, and every copy, is queued or counted once.
Accounted ==
    sent = Queued + stats.delivered + stats.fault + stats.queue + stats.unroutable + stats.disconnected

\* A link's frames arrive in the order they were sent unless the link was
\* reconfigured between them or delays every second one (recv's stable sort).
InOrder ==
    \A p \in DOMAIN received : \A i, j \in DOMAIN received[p] :
        LET f == received[p][i]
            g == received[p][j]
        IN  i < j /\ f.source = g.source /\ f.epoch = g.epoch /\ f.link.alternating = 0 => f.no < g.no

\* The fault sequence of a link counts the frames accepted since it was set, so
\* that a frame refused for congestion and retried does not shift the faults.
RetriesUncounted == \A e \in Edges : links[e].sequence = taken[e]

=============================================================================
