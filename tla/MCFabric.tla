------------------------------ MODULE MCFabric ------------------------------
(* The simulated network and, each in behaviours of its own, what packets    *)
(* meet in it: the routing table, the copying devices and the packet         *)
(* formats.  None of them can disturb another.                               *)
(*                                                                           *)
(* The network has two instances: three ports of an access point, and two    *)
(* plain ports over faulty links with time moving.                           *)
EXTENDS Fabric

CONSTANTS
    Width, Gateways, OnLink, Limit,          \* RouteTable
    PoolFrames, KernelSlots, MaxFrames,      \* PacketIo
    Mod, Values, EchoPort, None              \* Wire

VARIABLES
    part,                                    \* the part this behaviour is about
    entries, installed,
    backend, made, bad, batch, discarded, accepted, free_slots, arena, rx, wire, inbound,
    arrived, out, got, lost,
    stage, message, frame, result

Lossy == [delay |-> 1, alternating |-> 0, dropEvery |-> 2, partitioned |-> FALSE, mtu |-> TRUE]
Reordering == [NoFault EXCEPT !.delay = 1, !.alternating = 1]
Partitioned == [NoFault EXCEPT !.partitioned = TRUE]
Faulty == {Lossy, Reordering, Partitioned}
AddressSymmetry == Permutations(Addresses)

Linked == INSTANCE Fabric WITH
    Capacity <- 2, Managed <- FALSE, MaxPorts <- 2, MaxSends <- 3, MaxSets <- 1, MaxNow <- 2
Routing == INSTANCE RouteTable
Io == INSTANCE PacketIo WITH taken <- accepted
Formats == INSTANCE Wire WITH sent <- message

ASSUME PartsAssumption ==
    Routing!RouteAssumption /\ Io!PacketAssumption /\ Formats!WireAssumption

routeVars == <<entries, installed>>
ioVars == <<backend, made, bad, batch, discarded, accepted, free_slots, arena, rx, wire, inbound,
            arrived, out, got, lost>>
wireVars == <<stage, message, frame, result>>
allVars == <<part, vars, routeVars, ioVars, wireVars>>

FabricInit ==
    /\ part \in {"access point", "links", "routes", "io", "wire"}
    /\ IF part = "links" THEN Linked!Init ELSE Init
    /\ Routing!Init /\ Io!Init /\ Formats!Init
    /\ part # "io" => backend = "loopback"

Others(p) ==
    /\ part = p /\ part' = part
    /\ IF p \in {"access point", "links"} THEN TRUE ELSE UNCHANGED vars
    /\ IF p = "routes" THEN TRUE ELSE UNCHANGED routeVars
    /\ IF p = "io" THEN TRUE ELSE UNCHANGED ioVars
    /\ IF p = "wire" THEN TRUE ELSE UNCHANGED wireVars

FabricNext ==
    \/ Others("access point") /\ Next
    \/ Others("links") /\ Linked!Next
    \/ Others("routes") /\ Routing!Next
    \/ Others("io") /\ Io!Next
    \/ Others("wire") /\ Formats!Next

FabricSpec == FabricInit /\ [][FabricNext]_allVars

-----------------------------------------------------------------------------
(* Properties, of the module of each part (InOrder is that of Fabric)        *)

\* Every frame the network accepts is queued or counted once, queues keep
\* within their capacity, a link's fault sequence counts accepted frames only,
\* nothing is under way to or from an offline port, and ports are online only
\* while their access point runs.
FabricAccounted ==
    /\ Accounted /\ NothingOffline
    /\ IF part = "links" THEN Linked!TypeOK /\ Linked!RetriesUncounted
       ELSE TypeOK /\ RetriesUncounted /\ OnlineWhileRunning

\* lookup answers with the longest installed prefix, of which insert and
\* remove leave one entry.
LongestMatch == part = "routes" => Routing!TypeOK /\ Routing!OnePerPrefix /\ Routing!LongestMatch

\* The copying devices take an accepted frame once and in order, leave the
\* others to the caller, and return what arrived in order.
FramesConserved == part = "io" => Io!TypeOK /\ Io!FramesConserved

\* What build_ipv4 writes is what parse_ipv4 reads, a changed word is noticed,
\* and a reply of the responder stands and is not answered in turn.
WireSound == part = "wire" => Formats!WireSound
=============================================================================
