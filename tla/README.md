# Verification of async-net-stack-rs

TLA+ models of the network stack in `src/`, checked with TLC on small instances, and theorems about
nine of them that TLAPS proves for every value of the constants. `PROJECT.json` holds the details:
for each definition the lines it models, for each property a mutation of the model that it catches,
the hazards and the findings. Paths below are relative to `src/src/`, those
that start with `examples/` to `src/`.

## The system

The stack is a library. Nearly all of it is single-threaded and driven by its caller: a pool or an
adapter is advanced by `poll`, `flush`, `recv`, `advance`, and does nothing in between. What makes it
hard is not locks but

* memory shared with the kernel (AF_XDP rings, io_uring), with another process (the shared-memory
  NIC) or with a guest (the vhost-user backend), which run between any two accesses;
* bounded queues everywhere, with devices that take a part of what they are offered, or nothing;
* calls that may fail half way and are then made again;
* decisions (a MAC address, a route, a service, a window) taken when something is queued and used
  when it is sent;
* peers that lose, repeat, delay and reorder.

| Part | State | Operations | What could go wrong |
|---|---|---|---|
| AF_XDP rings (`device/backend/af_xdp/umem.rs`, `socket.rs`) | shared u32 counters, descriptor array, cached counters | push, pop | a slot read before it is written, wrap-around, stale cache |
| Frame pool (`device/buffer_pool.rs`) | free list, `in_use` flags | alloc, alloc_n, free, into_parts, restore | a frame handed out twice |
| AF_XDP device (`device/backend/af_xdp/device.rs`) | state of each frame, `rx_owned`, `tx_pending` | progress, recv, send, drop of a buffer | two owners of a frame, counters that drift, a lost wakeup |
| XDP program (`device/backend/af_xdp/prog.rs`, `device.rs`) | the interface's hook, map and guard, link or netlink attachment | new, set_socket, drop | another process's program replaced or removed, packets redirected to a socket that is not ready |
| Loopback and blocking TUN (`device/loopback.rs`, `device/backend/tun/`) | arena slots, descriptors | send, recv | frames lost or doubled when a batch fails half way |
| io_uring TUN (`device/backend/uring/`) | pending table, submission and completion queues, deferred error | recv, send, progress, close | a buffer reused while the kernel writes to it; a lost error |
| Ethernet adapter (`net/interface.rs`, `neighbor.rs`) | neighbors, routes, three queues | configure, routes, neighbors, send, recv, advance | packets sent by an obsolete decision or never |
| Routing table (`net/route.rs`) | bounded list of prefixes | insert, remove, lookup | the wrong route wins |
| UDP pool (`api/mod.rs`, `api/udp/mod.rs`) | services, peers, scheduler queues, pacing | submit, flush, poll, bind, unbind, discovery | lost or doubled outcomes, a peer that starves another |
| TCP connection (`api/tcp/connection.rs`) | send and receive streams, windows, state | input, prepare, read, write, close, abort | lost, doubled, reordered bytes; two ends waiting for each other |
| TCP pool (`api/tcp/mod.rs`) | table, listeners, reset queue | connect, listen, accept, abort, remove, unlisten, poll | two connections on a pair, orphaned children, a full table |
| DNS resolver (`dns/mod.rs`) | lookups, cache, completions | resolve, cancel, invalidate, poll, take | two or no completions, an answer of another network |
| Simulated network, access point (`simulation.rs`, `simulation/access_point.rs`) | ports, links, clock | send, recv, online/offline, link settings | frames from before a departure, uncounted frames |
| Packet formats, responder (`transport/`, `net/mod.rs`, `arp.rs`, `ethernet.rs`) | none | build, parse, checksum, respond | a packet that does not read back, a damaged one taken for good, replies that are answered for ever |
| Telemetry (`telemetry.rs`) | two buffers, stop flag | record, shutdown; worker thread | a record lost at the swap or at the end |
| TUN reactor (`device/tun_reactor.rs`) | stop flag, first error | run; one worker thread per device | a worker that never ends, a lost error |
| Shared-memory NIC (`examples/support/shm_nic.rs`) | ring of slots, six counters, two pipes | run on both sides; main, worker | a slot touched by both, a peer that died or stalled |
| vhost-user backend (`examples/support/vhost_user/`, `examples/xdp_vm_rx.rs`) | regions, IOTLB, two queues, session | control messages, tx, rx | a stale translation, buffers returned twice, a lost interrupt |

Parts that are not modelled are listed at the end.

The layers interact through two interfaces. Below, a device accepts a prefix of a batch of frames and
owns what it accepted. Above, a pool has bounded queues and reports one outcome for each thing it
admitted. Each module models its neighbor as the environment that this interface allows: the Ethernet
adapter sends to a device that takes any part of a batch or fails; the resolver uses a pool that may
refuse or drop a datagram.

## Modules

Every module starts with a comment on its abstraction. Definitions keep the names of the code. A call
that loops or that the kernel can interleave with is a sequence of steps; a variable `at` (or `pc`)
says where it is, and only `"idle"` admits another call. Time is relative, a deadline being the time
left until it, except in `Fabric`, which has the simulation's own clock.

| Module | Models | Notes |
|---|---|---|
| `BoundedFifo` | what a ring promises | abstract specification, implemented by `Ring` |
| `Ring` | one ring, both sides | each access to shared memory is a step; counters modulo `Modulus` |
| `FramePool` | the free list as an array | single calls are atomic: the pool is not shared |
| `XdpDevice` | ownership of frames | the kernel runs between ring accesses; it may invent up to `MaxFaults` descriptors |
| `XdpWakeup` | the NEED_WAKEUP handshake | frames are counted, not named |
| `XskProgram` | the redirect program, its constructor and drop | a machine runs its instructions; others use the hook between any two system calls |
| `PacketIo` | loopback, Linux and macOS TUN | one caller, which keeps what was not accepted |
| `UringDevice` | requests from table to completion | partial, interrupted and refused submissions; close |
| `EthernetIpv4` | the adapter | counters are kept as the balance they must satisfy |
| `SeqFilter` | what `retain` and `filter` leave of a queue | the test is a set and the recursion a function, so that proofs can use it |
| `RouteTable` | the table and a reference map | addresses of `Width` bits |
| `UdpPool` | the pool and its scheduler | equal datagrams, so rates are spacings |
| `TcpConnection` | two endpoints and the network | each method of `Connection` is an operator on connection records |
| `TcpStates` | the moves between states | used by the pool; `PoolMoves` shows that connections keep to them |
| `TcpPool` | the pool | a connection is its pair, state and remaining TIME-WAIT |
| `DnsResolver` | the resolver | a response is what `wire::response` makes of it |
| `Fabric` | network and access point | which frames are lost, counted, queued; not their contents |
| `Wire` | checksums, UDP and TCP codecs, responder | one word for each field |
| `ShmNic` | both processes of the example | each access to shared memory or a pipe is a step; either may be killed |
| `VhostMemory` | regions, IOTLB entries, `translate` | operators |
| `Iotlb` | the IOTLB under any messages | against what the frontend said last |
| `VhostBackend` | backend, frontend, driver, guest program | the backend's accesses to ring indices are steps |
| `Telemetry` | exporter and its worker | records are numbers |
| `TunReactor` | the workers | a read or wait may fail at any turn |

`TcpPool` composes with `TcpConnection` through `TcpStates`: the pool lets a connection make any move
of `TcpStates`, and run `tcp_streams` shows (action property `PoolMoves`), and `TcpPoolProofs` proves,
that connections make no other. `XdpDevice` composes with `Ring` in the same way: it treats a ring as a bounded queue, and run
`xdp_device` shows, and `XdpPartsProofs` proves, that `Ring` implements `BoundedFifo`, under the mapping that
takes the queue to be the descriptors between the two shared counters.

`VhostBackend` composes four parties, and uses `VhostMemory` for every access to guest memory;
`TcpConnection` composes two connections and a network; `ShmNic` two processes and their pipes.

An `MC` module gives the constants their values. Some of them hold more than one instance: a variable
(`part`, `config`, `instance`, `plan`) is chosen in the initial state and never changes, and each
behaviour is one of that instance. `MCXdpDevice`, `MCFabric` and `MCWorkers` hold parts that share no
state, so that one run covers all of them; the others do so for different constants of one module.
A property of a part holds trivially in behaviours of another, and fairness is stated for the part
a behaviour is about. `TcpConnection` has its configurations as a constant, `Configs`, and the one of
the behaviour as a variable that never changes.

Operators with the comment "Faulty variant" are bugs the code might have had. No specification uses
them; each replaces the definition after it when the strength of a property is tested.

## Runs

Twelve runs; a run takes between half a minute and a little over three minutes with two workers.

**`xdp_device`** (`MCXdpDevice`). Four parts. The device: three frames, rings of two, a reserve of one,
and up to two descriptors the kernel makes up. Userspace never has two owners of a frame (`NoAlias`)
and the counters are the sizes of what they count (`CountersMatch`), faults or not; without faults
each frame has exactly one owner among pool, application, rings and kernel (`SingleOwner`). The free
list: four frames; the free part of the array lists exactly the frames nobody holds. A ring: four
entries, counters modulo 8, batches of two, so both counters wrap and a full and an empty ring differ
only by the wrap; it implements `BoundedFifo` and no slot is written while it may be read (both parts:
`PartsSound`). The XDP program: a kernel with or without `bpf_link`, native mode and
zero-copy, a constructor that fails at any step, a crash, and other processes that attach, replace and
remove programs; a netlink request may fail, before the kernel served it or after. The device never
changes a program that is not its own and redirects nothing into a socket that is not ready; it leaves
a program behind only when such a request failed or the process crashed, never on a kernel with
`bpf_link`, and what is left passes every packet (`ProgramOwned`). Frames are interchangeable, so symmetry is sound (no
liveness is checked).

**`fabric`** (`MCFabric`). Four parts. The simulated network, in two instances: three ports of an access
point; two ports over faulty links with time. Nothing reaches or leaves an offline port, every frame
has one fate and a retry does not disturb the fault sequence (`FabricAccounted`), links that promise
order keep it (`InOrder`). All tables of three routes over three-bit addresses, against a reference map
of prefixes (`LongestMatch`). The loopback and TUN devices, with short reads, refused writes, errors in
the middle of a batch and a pool that runs dry: a frame is taken once, in order, and is with the caller
until then (`FramesConserved`). The packet formats, over a network that changes one word: what is built
is read back, a change is noticed, and a reply stands and is not answered in turn, except a UDP reply
to a request that came from the echo port itself (`WireSound`).

**`workers`** (`MCWorkers`). Five parts. Telemetry: what was recorded is exported in order and once
(`Conserved`), and all of it at the end (`DrainedAtEnd`). The io_uring device, with three ids and three
frames, one of them for reading: a buffer the kernel was given is never free or handed out, after a
failed cancellation as well; ids, table and counters agree; no deferred error is overwritten
(`RequestsHeld`). The shared-memory NIC, with four slots, batches of three, two packets of warm-up and
six more, so that batches wrap and phases overlap: no slot is touched by both processes, and no
check fails in a run without corruption (`SharedSlots`). The NEED_WAKEUP handshake: publications race
a kernel that goes to sleep, and no frame and no packet waits for ever (`NoLostWakeup`). Three TUN
workers. What was begun ends (`WorkEnds`): `run` returns once a TUN worker fails, with an error that
happened; the telemetry worker ends; accepted writes are reaped, stated for one id, since nothing
tells ids apart; both processes of the shared-memory NIC end, also when one is killed or stalls.

**`vhost`** (`MCVhostBackend`). The backend with rings of two, indices modulo 4 and batches of two, in
five plans: any two requests during two sessions; two paced sessions whose program may give up; a
driver behind an IOMMU with an invalidation; queues stopped and restarted while a session runs; any
request while a miss may stay unanswered. Buffers are returned in order and once, across restarts and
resets (`UsedInOrder`), a session's packets are its own and without gaps (`SessionExact`), and with a
frontend that keeps to the protocol every session ends (`SessionsEnd`). In behaviours of its own the
IOTLB, with four addresses and room for two entries, so that it evicts: it translates only as the
frontend last said (`TranslationsCurrent`).

**`ethernet`** (`MCEthernetIpv4`). Two neighbors, one of which is the gateway, and a host behind it, with
room for a single neighbor entry, so that a new neighbor is refused while the table is full. Accepted packets are queued, sent or
counted as dropped (`Accounted`); nothing queued follows a withdrawn address, an old route or an old
resolution (`CurrentDecisions`); waiting packets have a neighbor being resolved and queued probes have
somebody waiting (`WaitingWanted`); every resolution ends (`ResolutionEnds`). Which source address a
broadcast request in the queue names is not part of `CurrentDecisions`.

**`ethernet_static_mac`**: finding 1 below.

**`udp_pool`** (`MCUdpPool`). The fair queue with pacing and two local endpoints, and the FIFO with lifetimes
and three peers, one more than the scheduler tracks. One outcome for each datagram (`PoolOneOutcome`), nothing
queued for an endpoint that is gone or past its deadline (`PoolQueueCurrent`), pacing across drained
and refilled queues, for each destination and for all of them (`PoolOffersPaced`); in fair mode blocked
peers, if fewer than `tx_budget`, do not hold up another (`PoolHealthyServed`, here one blocked peer and a
budget of two). Replacing the services starts pacing afresh, in the code and in the history the
property looks at.

**`tcp_streams`** (`MCTcpConnection`). A byte in each direction with loss, duplication, crossing, abort
and timeout; and three bytes through a device that refuses some, in segments of up to two with two
under way in any order. Both initial sequence numbers lie just below the modulus, so that streams
wrap. Bytes arrive in order and once (`InOrderOnce`), a sender holds all that was not taken
(`NothingForgotten`), end of file means the whole stream (`EofComplete`), states move as the pool
expects (`PoolMoves`).

**`tcp_progress`** (`MCTcpConnection`). With loss, a receive buffer of one byte and two bytes to send,
so that the window closes and its update may be lost: everything is read and both ends close
(`StreamsComplete`). In this instance one segment is under way at a time and no timer beats an answer;
segments that cross are the business of `tcp_streams`.

**`tcp_zero_window`**: finding 2 below.

**`tcp_pool`** (`MCTcpPool`). Three connections through a table of two, on two address pairs. Calls take
any identifier in the table: `connections` and events name children before they are accepted, so these
may be closed, aborted and removed as well. A pair has one live connection (`OneLivePerTuple`); limits
hold, and TIME-WAIT keeps its pair, which neither `remove`, `connect` nor a SYN takes early, while abort, a
local failure to send and `unlisten` of an unaccepted child give it up (`TableHolds`); the application
keeps what `connect` and `accept` gave it until it calls `remove`, and any other connection has a listener
(`ConnectionsOwned`); polling makes room again (`PollReclaims`).

**`dns`** (`MCDnsResolver`). Two lookups of two names with aliases; three lookups of one name through a
capacity of two. Each lookup completes once, and source ports belong to attempts under way
(`OneCompletion`); it completes in the end (`ResolverCompletes`); cached and returned answers are
of the current network and outlive none of their TTLs (`CacheHonest`).

### Bounds

A bound is a constant of the module, named in its guards. Most are the configuration's own limits,
chosen as small as lets them be reached: a queue of one or two is full after one or two calls. The
others cut off what has no limit in the code: `MaxFaults`, `MaxSends`, `MaxPackets`, `MaxFrames`, `MaxCalls`,
`MaxIds`, `MaxQueries`, `MaxGeneration`, `MaxPorts`, `MaxSets`, `MaxNow`, and the `requests` and `sessions` of a
vhost plan. They admit, at the least, a second use of each resource after its first release: a
frame sent again, an id, port, address pair, slot or table entry used again, which is where stale
state would show. Widths are cut in the same way: counters and sequence numbers keep their wrap with a
smaller modulus (`Modulus`, `IndexLimit`, `Mod`), route addresses have `Width` bits, guest addresses lie below
`AddressLimit`.

Deadlock is checked where the system always has a next call, or says itself that it has ended
(`workers`, `vhost`). It is off for the TCP streams (both ends closed), `dns` and `fabric` (calls used up).

### Fairness

The library runs only when called, so liveness assumes that the application goes on polling, that a
call once begun runs to its end, and that time passes. Beyond that:

* `XdpWakeup`: the kernel serves the rings while awake, and goes to sleep as it says;
* `UringDevice`: the kernel answers the writes it took, and a submission that is possible again and
  again is taken whole at some time (strong fairness): without it a kernel could refuse for ever;
* `ShmNic`: both processes are scheduled while they live; strong fairness of a time-out, since a
  process looks at its clock only between two attempts to go on;
* `VhostBackend`: only in plans with a frontend that keeps to the protocol: backend, driver and guest
  program run on; the frontend answers a miss and restarts a queue it stopped (strong fairness, for a
  further miss or stop may come first). The guest's driver loses nothing, although the lab's real guest
  may drop received packets (`docs/vhost-user-lab.md:344`). Kicks are not needed: the loop's `poll` has a time-out of at most
  50 ms;
* `EthernetIpv4`: only strong fairness of `advance`: no probe need be answered;
* `UdpPool`: the healthy peer's device accepts again and again; the others may be blocked for ever.
  `PoolHealthyServed` excepts behaviours in
  which flushes fail infinitely often, for a failing flush stops before its later destinations;
* `TcpConnection`: the network does not lose every segment: retransmissions, acknowledgments and new
  segments each get through again (strong fairness), applications read and close;
* `TcpPool`: the device does not fail or stay busy for ever;
* `DnsResolver`: polls get past the device again and again (strong fairness; it may fail any number of
  polls in between); nothing of servers and network: timeouts alone must end a lookup;
* `TunReactor`, `Telemetry`: threads are scheduled.

## Theorems

Each theorem is proved from an inductive invariant: one lemma says that it holds initially, one for
each action (or for actions of one shape) that it is kept, one that it implies the property. Where a
run checks the property too, the theorem names the same definition, and TLC has checked the inductive
invariant on the run's instance.

| Module | Theorem | Property of a run |
|---|---|---|
| `XdpDeviceProofs` | `UserspaceNeverAliases`, `CountersExact`, `EachFrameOwned`, `DeviceNeverPanics` | `NoAlias`, `CountersMatch`, `SingleOwner` |
| `XdpPartsProofs` | `RingIsFifo`, `SidesNeverRace`, `FreeListHolds` | parts of `PartsSound` |
| `UringDeviceProofs` | `KernelFramesKept` | a part of `RequestsHeld` |
| `WorkersProofs` | `RecordsConserved`, `ShutdownDrains`, `ProcessesNeverInterfere` | `Conserved`, `DrainedAtEnd`, a part of `SharedSlots` |
| `EthernetIpv4Proofs` | `EveryPacketCounted`, `DecisionsCurrent`, `NothingStranded` | `Accounted`, `CurrentDecisions`, `WaitingWanted` |
| `TcpPoolProofs` | `TuplesUnique`, `NoOrphans`, `TableKept`, `StatesMoveAsThePoolExpects` | `OneLivePerTuple`, `ConnectionsOwned`, `TableHolds`, `PoolMoves` |
| `DnsResolverProofs` | `CompletesOnce`, `CacheStaysHonest` | `OneCompletion`, `CacheHonest` |

`XdpDeviceProofs`, for any finite set of frames, any ring sizes, batch size and reserve that
`validate` accepts, and any number of invented descriptors. The first inductive invariant is `Ownership`,
the conjunction of types, `NoAlias`, `CountersMatch` and `NoPanic`. None of these is inductive alone: a
counter follows the table only because a moved frame was in the state it leaves, which is what
`NoAlias` says, and the pool's assertions hold because no frame has two owners. `SingleOwner` is about a
kernel that invents nothing. For it `Faultless` adds that the three places a frame may be in on each
side are disjoint, that no descriptor is on a ring twice, and that a frame outside the kernel is in
the pool or in one buffer; without the second a batch could have fewer frames than descriptors, and
`invalid` would count the difference. The invariant is `Owned`, which is `Ownership` and, while there
is no fault, `Faultless`.

`XdpPartsProofs`. `Ring`, for any ring size that divides the modulus of the counters and is below it, and
any descriptors. The invariant says that what is published and what the producer takes to be free fit
into the ring together (`Room`), although the latter comes from a cached counter, and what the two
sides have written and read of their batches (`Contents`). Lemmas on wrapping arithmetic show that
two positions less than a ring apart have different slots, also across the rollover. `RingIsFifo` is a
refinement: the initial state maps to an empty queue, and each step to a step of `BoundedFifo` or to a
stutter. `FramePool`, as the instance `Pool`, for any number of frames: the invariant adds to the counts
of `FreeListExact` that no frame is on the list twice (`Distinct`) and which are on it (`Listed`); the
count follows because the list is a bijection.

`UringDeviceProofs`, for any ids, frames and `rx_depth`. `KernelFramesHeld` alone does not survive a
reap: it must be known that a completion's id is in the table and belongs to no request still under
way (`Known`), which needs a request to be in one place, under an id of its own (`Once`), and the
holders of frames to be apart (`Apart`); `Quarantined` carries it past a close that could not cancel.
The other two parts of `RequestsHeld` are model-checked only.

`WorkersProofs`. `Telemetry`, for any capacity, datagram size and number of records: `IInv` adds to
`Conserved` where the worker is: its buffer is empty when it swaps, and once it has read the stop flag
nothing is recorded any more, so the swap that follows is the last. `ShmNic`, as the instance `Shm`, for
any number of slots, batch size, numbers of packets and pipe capacity: `Positions` orders the two
counters and their cached copies, `Batches` bounds a batch under way by what the cached copy allows,
`Filled` says that the slots in between hold their packets, and `Reached` relates the ends of the
phases; either process may be killed at any point.

`EthernetIpv4Proofs`, on the lemmas of `EthernetIpv4Lemmas`, for any number of addresses, any routes,
capacities and times, and any prefix of a batch that the device takes. `Accounted` and
`CurrentDecisions` hold between and within calls, but `WaitingWanted` only says something between calls,
and a call of `advance` ages all neighbors before it looks at the first. The invariant `IInv` therefore
adds: what a call of `send` has yet to take was validated against the present routes, and nothing is
resolved without an address (`CallsSound`); a packet waits for a neighbor under resolution that has not
timed out or whose timers have yet to run in this call, or that was learned in this call
(`WaitersServed`); and the requests queued for a neighbor are at most the attempts it counted
(`ProbesWanted`). `ResolutionsTimed`, the same of every neighbor under resolution, is kept together with
`IInv` and is what a new packet for such a neighbor relies on. The queues are filtered at each change,
so the lemmas on `Filter` (its elements, that a filter and its complement add up to the queue, what two
filters in turn leave, what a filter leaves of a concatenation) are the base of the proof.

`TcpPoolProofs`, for any addresses, capacities and number of connections. Every step either opens
one connection on a pair that `find` did not see, or only shrinks the table: it keeps pairs and
revives nothing (lemma `StepShape`). `TuplesUnique` follows from this and from the identifiers being
below the next one (`Typed`). `NoOrphans` needs that the flag `accepted` and what the application was given
say the same, since `poll` and `unlisten` decide by the flag what they drop. `TableKept` rests on the limits
themselves (`Limits`): the table is finite, and `poll`'s list names only identifiers that are in it; and on
lemma `HoldersKept`: for each pair still in TIME-WAIT after a step, the step kept its holders or made one.
What the pool takes on trust is
how a connection moves (`TcpStates`). `StatesMoveAsThePoolExpects` proves it of `TcpConnection`, as the
instance `Conn`, for any configuration and whatever the network does: there is one lemma for each method
of `Connection`, which says what it does to the state, and the invariant is only that every endpoint has
one. A connection that ended moves only to Reset, by an abort of its own application. So the moves of `TcpPool` are those of the connections and the two modules compose.

`DnsResolverProofs`, for any names, source ports and TTLs, any number of servers and attempts and any
capacities, and a network that loses, repeats and delays. Neither property is inductive. `Placed` says
where each identifier issued so far is: a key of `pending`, the identifier of one completion, or taken;
that the numbers add up follows by counting three disjoint sets. `PortsOwned` makes a token the mark of
one attempt, and `NetCurrent` says of every datagram in flight that a lookup could still take that it
was asked in the present generation; this is what `invalidate` and the new port of each attempt
establish. `Sound` bounds what a lookup may cache by the TTLs of the aliases it has followed, and
`Cached` and `Delivered` carry both into the cache and the completions. `invalidate` completes all
lookups in one step, from the oldest to the newest: `OrderComplete` shows that this list names each of
them once.

The proofs use few facts about finite sets and natural numbers: sizes of subsets and of sets with an
element more or less (`Counting`), that a list without repetition as long as a set is large has all its
elements (`Enumerating`), least elements (`WellOrdered`) and induction over a set of naturals
(`Induction`). `EthernetIpv4Lemmas` and `DnsResolverProofs` state them as formulas, take them as
hypotheses of the lemmas, and derive them from the library's theorems before the final theorems, so
none is left open.

The assumptions on constants are named in the component modules (`RingAssumption`, `PoolAssumption`,
`UringAssumption`, `ShmAssumption` and the ASSUMEs of the others) and state what the code's own constructors
and `validate` enforce; TLC evaluates them in the runs.

Only model-checked:

* all liveness properties: fairness and ENABLED are out of the prover's reach;
* what a recursive or folded definition computes for inputs of any length (checksums, `translate`, the
  route table's lookup, the instructions of the XDP program). The library's induction theorems have an
  operator as parameter, which the provers cannot instantiate. `Filter` and the shift of the resolver's
  timeout are the exceptions: the statement about them is a set of naturals, to which least elements apply;
* the streams of `TcpConnection`, unlike its states (two connections and a network: their invariant relates every segment
  under way to both buffers, modulo the sequence space), the scheduler of `UdpPool`, `VhostBackend`,
  `Fabric`, `PacketIo` and `XskProgram`: no inductive invariant has been worked out for these;
* `TableExact` and `NoErrorLost` of the io_uring device.

## Findings

1. `net/interface.rs:339`. `add_static_neighbor` discards queued frames only while the table still
   holds another MAC for the address. Frames built from a learned mapping that has expired since stay
   queued and leave with the old MAC. Run `ethernet_static_mac` shows it in a few steps: learn, send,
   let the mapping expire, add the static neighbor.
2. `api/tcp/connection.rs:339`. An endpoint whose own receive window is zero accepts an empty segment
   only at exactly `receive_next`. A peer that probes this window has one byte outstanding and numbers
   its pure acknowledgments one further, so they are all dropped: data flowing towards that peer is
   never acknowledged as long as the window stays closed, though nothing is lost. Run
   `tcp_zero_window`: `b` reads, `a` does not, and `b`'s acknowledgments never count.

Also to know. In two places the code gives less than a document could be read to say, and the property
states the condition under which it holds:

* `api/mod.rs:366`. In fair mode, as many blocked peers as `tx_budget` may use up all the attempts of every
  flush, and a healthy peer then starves; without its condition and with `TxBudget = 1` TLC refutes
  `PoolHealthyServed`. `docs/udp-configuration.md:44` says "Backpressure or a permanent failure at one peer can
  be bypassed for another", and line 57 calls fair mode "the appropriate choice when independent peers need
  independent progress"; both need a `tx_budget` above the number of peers that may be blocked at once.
* `api/tcp/mod.rs:331`. `unlisten` drops a child nobody accepted also when it was closed by its identifier
  and is in TIME-WAIT, and its pair may be used again at once. `api/tcp/mod.rs:121` says "A tuple cannot be
  reused while it remains in TIME-WAIT." `TableHolds` therefore counts this among the ways to give a pair up.

And where nothing in the repository promises otherwise:

* `examples/support/shm_nic.rs`: in pipe mode a process that notifies its peer of the last batch after
  that peer has ended gets EPIPE and reports a failure, although every packet was delivered (outcome
  `"pipe"`). The handshake of the phases only times their start; that slots are safe rests on the two
  counters alone, as the proof shows.
* `device/backend/af_xdp/prog.rs`: on a kernel without `bpf_link` a program attached by netlink stays on
  the interface when the process crashes, and when the request to remove it fails: `detach` forgets the
  mode first and discards the error, so nothing tries again. Its map is empty then and it passes every
  packet, but the hook stays occupied. The kernel refuses an occupied hook with EEXIST or EBUSY,
  depending on the method; the model has both.

## Not modelled

| Part | Why |
|---|---|
| Device trait, error conversions | no state; what a caller keeps after a partial result is in `PacketIo` |
| Layouts of system-call arguments, mapping of rings, opening of devices | a fixed sequence of kernel calls with no state of the stack's own; the order and the failures that matter are in `XskProgram` |
| Data window of a `PacketBuf` (headroom, `push_header`, `pull_header`) | arithmetic on one buffer that returns or refuses; the ownership of the buffer is in `FramePool` |
| Bytes of packets: odd lengths, byte order, VLAN offsets | `Wire` has one word for each field; positions of bytes are layout, which no property here is about |
| DNS wire format: names, compression, records | parsing of bytes; `DnsResolver` enumerates the results of `wire::response`, so the least TTL within one response is taken as given, and `CacheHonest` is about the aliases of several |
| RTT estimation, congestion control | abstracted to more than they can do: any timer may fire, any window is possible, so the safety results cover every estimate; the estimates themselves are not checked |
| Partial reads and writes of the vhost-user socket (`wire.rs`) | reassembly of one byte stream, invisible above it: `VhostBackend` takes messages whole and in order, which is what a finished `receive` returns; descriptors passed with a message come with it |
| Statistics, event records, status reports | kept only where a balance of them is a property |
| Other examples, benchmarks | callers of the library: the environment of the modules |
| Lab scripts, C reference programs | tooling, and programs that are not part of the crate |
