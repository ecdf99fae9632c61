----------------------------- MODULE VhostBackend -----------------------------
(***************************************************************************)
(* The vhost-user network backend of examples/support/vhost_user with the  *)
(* three parties it serves.  The backend is one thread: its loop handles   *)
(* control messages (Backend::handle), then drains the TX queue            *)
(* (Backend::tx), then fills RX buffers of the running session             *)
(* (Backend::rx).  QEMU, the frontend, sets the queues up, stops and       *)
(* restarts them, resets the device and answers IOTLB misses.  The guest's *)
(* virtio driver posts buffers and consumes used entries; the guest        *)
(* program (examples/xdp_vm_rx.rs) starts a session with a START packet on *)
(* TX and expects packets 0, 1, ... of its session on RX.  Guest memory is *)
(* shared: every read or write of a ring index by the backend is a step.   *)
(***************************************************************************)
EXTENDS VhostMemory

CONSTANTS Num,           \* size of both queues (SET_VRING_NUM)
          IndexLimit,    \* ring indices wrap here; 2^16 in the code
          Batch,         \* --batch
          MaxPackets,    \* --max-packets
          Plans,         \* what a behaviour is about; see below
          None

(* A plan says what the other parties do:                                  *)
(*   iommu     the driver uses IOVAs (ACCESS_PLATFORM is negotiated)       *)
(*   polite    QEMU keeps to the protocol; otherwise it sends any request  *)
(*   requests  how many requests it sends after the setup                  *)
(*   paced     --pps limits the generator                                  *)
(*   slow      ten seconds pass before a miss is answered, and --timeout   *)
(*             passes in the guest program                                 *)
(*   sessions  runs of the guest program, and targets: the packets asked   *)

VhostAssumption ==
    /\ Num \in Nat \ {0} /\ IndexLimit % Num = 0 /\ Num < IndexLimit
    /\ Batch \in Nat \ {0} /\ MaxPackets \in Nat \ {0}

Queues == {"rx", "tx"}
Heads == 0..(Num - 1)

\* Where the areas of a queue and its buffers lie, in pages of PageSize.
PageSize == 4
Area(q) == IF q = "tx" THEN 0 ELSE 3
BufferAt(q) == IF q = "tx" THEN 6 ELSE 7
Page(address) == (address \div PageSize) * PageSize
Ram == {[guest |-> 0, user |-> 0, size |-> 2 * PageSize]}

VARIABLES
    plan,              \* the member of Plans this behaviour follows
    script, budget,    \* frontend: next message of the setup, messages it may still send
    owner, features, protocol, channel, regions, entries,   \* Backend, Memory
    pendingMiss,       \* Backend::pending_miss
    misses,            \* frontend: IOTLB misses it has not answered
    session, previous, \* Backend::session, previous_session
    queue,             \* Backend::queues
    at,                \* where the loop of the backend is
    count, allowed, fault,   \* locals of tx and rx
    exited,            \* error the backend ended with, or None
    avail, used,       \* guest memory: ring indices and ring contents
    suppress,          \* guest memory: the driver asks for no interrupt (avail.flags)
    content,           \* guest memory: what a buffer holds
    irq,               \* a token is in the call eventfd
    napi, seen, posted,   \* driver: RX polling state, used entries seen, buffers out
    app                \* guest program

control == <<owner, features, protocol, channel, regions>>
frontend == <<plan, script, budget>>
lab == <<session, previous>>
backendLocal == <<at, count, allowed, fault>>
guestMemory == <<avail, used, suppress, content>>
driver == <<napi, seen, posted>>
vars == <<frontend, control, entries, pendingMiss, misses, lab, queue, backendLocal, exited,
          guestMemory, irq, driver, app>>

FreshQueue == [num |-> 0, configured |-> FALSE, enabled |-> FALSE, started |-> FALSE,
               lastAvail |-> 0, lastUsed |-> None, call |-> FALSE]
FreshRing == [idx |-> 0, ring |-> [k \in Heads |-> None]]

\* Steps of the backend's loop: control messages until tx begins, then rx.
Label(q, step) == <<q, step>>
Control == Label("tx", "Begin")
After(q) == IF q = "tx" THEN Label("rx", "Begin") ELSE Control

NoFault == [kind |-> "none"]

Init ==
    /\ plan \in Plans /\ script = 1 /\ budget = plan.requests
    /\ owner = FALSE /\ features = {} /\ protocol = FALSE /\ channel = FALSE /\ regions = {}
    /\ entries = <<>> /\ pendingMiss = None /\ misses = <<>>
    /\ session = None /\ previous = None
    /\ queue = [q \in Queues |-> FreshQueue]
    /\ at = Control /\ count = 0 /\ allowed = 0 /\ fault = NoFault /\ exited = None
    /\ avail = [q \in Queues |-> FreshRing] /\ used = [q \in Queues |-> FreshRing]
    /\ suppress = [q \in Queues |-> q = "tx"]
    /\ content = [q \in Queues |-> [h \in Heads |-> None]]
    /\ irq = [q \in Queues |-> FALSE]
    /\ napi = "sleep" /\ seen = [q \in Queues |-> 0] /\ posted = [q \in Queues |-> <<>>]
    /\ app = [id |-> 1, state |-> "new", received |-> 0, target |-> 0]

Wrap(n) == n % IndexLimit
Pending(q) == Wrap(avail[q].idx + IndexLimit - queue[q].lastAvail)

-----------------------------------------------------------------------------
(* Control messages: Backend::handle *)

Message(kind, q, value) == [kind |-> kind, q |-> q, value |-> value]

\* What QEMU sends when the device starts.
Setup ==
    <<Message("protocol", None, None), Message("channel", None, None),
      Message("owner", None, None), Message("features", None, None),
      Message("memory", None, None)>>
    \o <<Message("call", "rx", TRUE), Message("num", "rx", Num), Message("base", "rx", 0),
         Message("addr", "rx", None), Message("kick", "rx", None), Message("enable", "rx", TRUE)>>
    \o <<Message("call", "tx", TRUE), Message("num", "tx", Num), Message("base", "tx", 0),
         Message("addr", "tx", None), Message("kick", "tx", None), Message("enable", "tx", TRUE)>>

\* A frontend that keeps to the protocol stops a queue and restarts it with
\* the base of its ring, and resets the device only between sessions.
Polite(m) ==
    \/ m.kind = "getBase" /\ queue[m.q].started
    \/ m.kind = "base" /\ ~queue[m.q].started /\ m.value = used[m.q].idx /\ queue[m.q].lastAvail # m.value
    \/ m.kind = "kick" /\ ~queue[m.q].started /\ queue[m.q].lastAvail = used[m.q].idx
    \/ m.kind \in {"resetOwner", "resetDevice"} /\ app.state = "new"
    \/ m.kind = "invalidate" /\ plan.iommu

Restarts == {"base", "kick"}

\* The frontend sends m and the backend receives it.
Receive(m) ==
    /\ at = Control /\ exited = None
    /\ IF script <= Len(Setup)
       THEN m = Setup[script] /\ script' = script + 1 /\ UNCHANGED budget
       ELSE /\ IF plan.polite THEN Polite(m) ELSE TRUE
            /\ budget > 0 \/ (plan.polite /\ m.kind \in Restarts)
            /\ budget' = IF plan.polite /\ m.kind \in Restarts THEN budget ELSE budget - 1
            /\ script' = IF m.kind \in {"resetOwner", "resetDevice"} THEN 1 ELSE script
    /\ UNCHANGED <<plan, backendLocal>>

SetOwner ==
    /\ Receive(Message("owner", None, None))
    /\ owner' = TRUE
    /\ UNCHANGED <<features, protocol, channel, regions, entries, pendingMiss, misses, lab, queue,
                   exited, guestMemory, irq, driver, app>>

SetProtocol ==
    /\ Receive(Message("protocol", None, None))
    /\ protocol' = TRUE
    /\ UNCHANGED <<owner, features, channel, regions, entries, pendingMiss, misses, lab, queue,
                   exited, guestMemory, irq, driver, app>>

SetChannel ==
    /\ Receive(Message("channel", None, None))
    /\ channel' = TRUE
    /\ UNCHANGED <<owner, features, protocol, regions, entries, pendingMiss, misses, lab, queue,
                   exited, guestMemory, irq, driver, app>>

\* SET_FEATURES is refused before SET_OWNER.  The lab always negotiates
\* PROTOCOL_FEATURES, so the queues stay disabled.
SetFeatures ==
    /\ Receive(Message("features", None, None))
    /\ IF owner
       THEN /\ features' = {"version1", "protocol"} \cup (IF plan.iommu THEN {"iommu"} ELSE {})
            /\ UNCHANGED exited
       ELSE exited' = "features" /\ UNCHANGED features
    /\ UNCHANGED <<owner, protocol, channel, regions, entries, pendingMiss, misses, lab, queue,
                   guestMemory, irq, driver, app>>

SetMemTable ==
    /\ Receive(Message("memory", None, None))
    /\ regions' = Ram /\ entries' = <<>> /\ pendingMiss' = None
    /\ UNCHANGED <<owner, features, protocol, channel, misses, lab, queue, exited, guestMemory,
                   irq, driver, app>>

\* Faulty variant of the definition that follows it, for mutation checks.
StoppedWithoutCall(q) == [queue[q] EXCEPT !.started = FALSE, !.lastUsed = None, !.call = FALSE]

\* Queue::stop keeps the call registration until SET_VRING_CALL replaces it.
Stopped(q) == [queue[q] EXCEPT !.started = FALSE, !.lastUsed = None]

\* Requests 8, 9, 10, 11, 12, 13 and 18
Configured(q, m) ==
    CASE m.kind = "num" -> [queue[q] EXCEPT !.num = m.value, !.lastUsed = None]
      [] m.kind = "base" -> [queue[q] EXCEPT !.lastAvail = m.value, !.lastUsed = None]
      [] m.kind = "addr" -> [queue[q] EXCEPT !.configured = TRUE, !.lastUsed = None]
      [] m.kind = "kick" -> [queue[q] EXCEPT !.started = TRUE]
      [] m.kind = "call" -> [queue[q] EXCEPT !.call = m.value]
      [] m.kind = "enable" -> [queue[q] EXCEPT !.enabled = m.value]
      [] m.kind = "getBase" -> Stopped(q)

QueueMessages(q) ==
    {Message("num", q, Num), Message("addr", q, None), Message("kick", q, None),
     Message("getBase", q, None)}
    \cup {Message("base", q, v) : v \in 0..(IndexLimit - 1)}
    \cup {Message(kind, q, b) : kind \in {"call", "enable"}, b \in BOOLEAN}

SetVring(q) ==
    \E m \in QueueMessages(q) :
        /\ Receive(m)
        /\ queue' = [queue EXCEPT ![q] = Configured(q, m)]
        /\ UNCHANGED <<control, entries, pendingMiss, misses, lab, exited, guestMemory, irq,
                       driver, app>>

\* RESET_OWNER and RESET_DEVICE.  The driver starts over with empty rings.
Reset(m) ==
    /\ Receive(m)
    /\ queue' = [q \in Queues |-> FreshQueue]
    /\ session' = None /\ pendingMiss' = None
    /\ IF m.kind = "resetOwner"
       THEN owner' = FALSE /\ features' = {} /\ regions' = {} /\ entries' = <<>>
       ELSE UNCHANGED <<owner, features, regions, entries>>
    /\ avail' = [q \in Queues |-> FreshRing] /\ used' = [q \in Queues |-> FreshRing]
    /\ suppress' = [q \in Queues |-> q = "tx"]
    /\ irq' = [q \in Queues |-> FALSE]
    /\ napi' = "sleep" /\ seen' = [q \in Queues |-> 0] /\ posted' = [q \in Queues |-> <<>>]
    /\ UNCHANGED <<protocol, channel, misses, previous, exited, content, app>>

\* Any IOTLB message ends the wait for the outstanding miss.
IotlbInvalidate ==
    /\ \E address \in {0, PageSize} :
          /\ Receive(Message("invalidate", None, address))
          /\ entries' = Invalidated(entries, address, PageSize)
    /\ pendingMiss' = None
    /\ UNCHANGED <<control, misses, lab, queue, exited, guestMemory, irq, driver, app>>

\* QEMU answers a miss with the page around it, and with the permission asked
\* for or with all it has.
IotlbUpdate ==
    /\ at = Control /\ exited = None /\ misses # <<>> /\ regions # {}
    /\ \E permission \in {Head(misses).permission, {"r", "w"}} :
          entries' = Updated(entries, Page(Head(misses).address), PageSize,
                             Page(Head(misses).address), permission)
    /\ misses' = Tail(misses)
    /\ pendingMiss' = None
    /\ UNCHANGED <<frontend, control, lab, queue, backendLocal, exited, guestMemory, irq, driver, app>>

-----------------------------------------------------------------------------
(* Backend::tx and Backend::rx *)

Running(q) == queue[q].configured /\ queue[q].num # 0 /\ queue[q].started

TranslateAt(address, permission, ring) ==
    Translate("iommu" \in features, regions, entries, address, 1, permission, ring)

\* Queue::map: the three areas in order; the first fault is the result
Areas(q) == <<TranslateAt(Area(q), {"r"}, TRUE), TranslateAt(Area(q) + 1, {"r"}, TRUE),
              TranslateAt(Area(q) + 2, {"r", "w"}, TRUE)>>
Faulty(spans) == {k \in DOMAIN spans : spans[k].kind # "ok"}

Exit(why) == exited' = why /\ UNCHANGED <<pendingMiss, misses>>

\* Backend::fault: one miss is outstanding at a time, for ten seconds at most
Fault(f) ==
    IF f.kind = "invalid" THEN Exit("invalid")
    ELSE IF pendingMiss # None
    THEN \/ UNCHANGED <<exited, pendingMiss, misses>>
         \/ plan.slow /\ Exit("unresolved miss")
    ELSE IF ~protocol \/ ~channel THEN Exit("no channel")
    ELSE /\ pendingMiss' = f.address
         /\ misses' = Append(misses, f)
         /\ UNCHANGED exited

Raise(f) == IF f = NoFault THEN UNCHANGED <<exited, pendingMiss, misses>> ELSE Fault(f)

\* Session pacing: `allowed` packets may have been generated by now.
Allowances(q) ==
    IF q = "tx" THEN {0}
    ELSE IF plan.paced THEN 1..session.target ELSE {session.target}

Serves(q) ==
    /\ Running(q)
    /\ q = "rx" => queue[q].enabled /\ session # None

\* A queue is resumed only where its used ring stands.
Resumes(q) == queue[q].lastUsed # None \/ used[q].idx = queue[q].lastAvail

\* The top of tx and rx, as far as the mapped rings
Begin(q) ==
    LET spans == Areas(q)
        faults == Faulty(spans)
    IN
    /\ at = Label(q, "Begin") /\ exited = None
    /\ \/ /\ ~Serves(q)
          /\ at' = After(q)
          /\ UNCHANGED <<allowed, count, queue, exited, pendingMiss, misses>>
       \/ /\ Serves(q)
          /\ \E a \in Allowances(q) :
               IF q = "rx" /\ session.generated >= a
               THEN at' = After(q) /\ UNCHANGED <<allowed, count, queue, exited, pendingMiss, misses>>
               ELSE IF faults # {}
               THEN /\ at' = After(q)
                    /\ Fault(spans[LeastOf(faults)])
                    /\ UNCHANGED <<allowed, count, queue>>
               ELSE IF ~Resumes(q)
               THEN Exit("mismatched bases") /\ UNCHANGED <<at, allowed, count, queue>>
               ELSE /\ at' = Label(q, "Take")
                    /\ allowed' = a /\ count' = 0
                    /\ queue' = [queue EXCEPT ![q].lastUsed = IF @ = None THEN used[q].idx ELSE @]
                    /\ UNCHANGED <<exited, pendingMiss, misses>>
    /\ UNCHANGED <<frontend, control, entries, lab, fault, guestMemory, irq, driver, app>>

NextHead(q) == avail[q].ring[queue[q].lastAvail % queue[q].num]
BufferSpan(q) == TranslateAt(BufferAt(q), IF q = "rx" THEN {"w"} ELSE {"r"}, FALSE)

\* Queue::peek: nothing posted, an error, or the next descriptor
Peek(q) ==
    IF Pending(q) = 0 THEN NoFault
    ELSE IF Pending(q) > queue[q].num THEN Invalid
    ELSE BufferSpan(q)

\* Does the loop over a batch look at another descriptor?
More(q) == count < Batch /\ (q = "rx" => session.generated < allowed)

\* The end of that loop.  Queue::publish, first half: used.idx is stored if
\* something was completed, and a fault waits until that is announced.
EndBatch(q) ==
    LET head == IF More(q) THEN Peek(q) ELSE NoFault
    IN  /\ at = Label(q, "Take") /\ exited = None
        /\ head.kind # "ok"
        /\ IF count = 0
           THEN /\ Raise(head)
                /\ at' = After(q) /\ allowed' = 0
                /\ UNCHANGED <<fault, used>>
           ELSE /\ fault' = head
                /\ used' = [used EXCEPT ![q].idx = queue[q].lastUsed]
                /\ at' = Label(q, "Notify")
                /\ UNCHANGED <<allowed, exited, pendingMiss, misses>>
        /\ UNCHANGED <<frontend, control, entries, lab, queue, count, avail, suppress, content,
                       irq, driver, app>>

\* Another descriptor of the batch can be served.
Takes(q) ==
    /\ at = Label(q, "Take") /\ exited = None
    /\ More(q) /\ Peek(q).kind = "ok"

\* Faulty variant of the definition that follows it, for mutation checks.
CompletedOneBehind(q) ==
    /\ used' = [used EXCEPT ![q].ring[(queue[q].lastUsed + 1) % queue[q].num] = NextHead(q)]
    /\ queue' = [queue EXCEPT ![q].lastUsed = Wrap(@ + 1), ![q].lastAvail = Wrap(@ + 1)]
    /\ count' = count + 1

\* Queue::complete
Completed(q) ==
    /\ used' = [used EXCEPT ![q].ring[queue[q].lastUsed % queue[q].num] = NextHead(q)]
    /\ queue' = [queue EXCEPT ![q].lastUsed = Wrap(@ + 1), ![q].lastAvail = Wrap(@ + 1)]
    /\ count' = count + 1

\* What tx does with the packet a TX buffer holds
StartsSession(c) == c.kind = "VS" /\ queue["tx"].enabled /\ previous # c.id
EndsSession(c) ==
    /\ c.kind = "VE" /\ queue["tx"].enabled
    /\ session # None /\ session.id = c.id

TxTake ==
    LET c == content["tx"][NextHead("tx")]
    IN  /\ Takes("tx")
        /\ IF StartsSession(c) /\ c.target > MaxPackets
           THEN exited' = "packet count" /\ UNCHANGED <<session, previous, used, queue, count>>
           ELSE /\ session' = IF StartsSession(c)
                              THEN [id |-> c.id, target |-> c.target, generated |-> 0]
                              ELSE IF EndsSession(c) THEN None ELSE session
                /\ previous' = IF StartsSession(c) THEN c.id ELSE previous
                /\ UNCHANGED exited
                /\ Completed("tx")
        /\ UNCHANGED <<frontend, control, entries, pendingMiss, misses, at, allowed, fault, avail,
                       suppress, content, irq, driver, app>>

\* Faulty variant of the definition that follows it, for mutation checks.
GeneratedOfBatch == [kind |-> "VD", id |-> session.id, seq |-> count]

\* generate: the next packet of the session
Generated == [kind |-> "VD", id |-> session.id, seq |-> session.generated]

\* rx writes it straight into the guest's buffer.
RxTake ==
    /\ Takes("rx")
    /\ content' = [content EXCEPT !["rx"][NextHead("rx")] = Generated]
    /\ session' = [session EXCEPT !.generated = @ + 1]
    /\ Completed("rx")
    /\ UNCHANGED <<frontend, control, entries, pendingMiss, misses, previous, at, allowed, fault,
                   exited, avail, suppress, irq, driver, app>>

\* Queue::publish, second half: the driver's suppression flag is read after
\* the store, behind a full barrier.
Signals(q) == count > 0 /\ ~suppress[q] /\ queue[q].call

\* ... then the fault of the batch, and the end of a session
Notify(q) ==
    /\ at = Label(q, "Notify") /\ exited = None
    /\ irq' = [irq EXCEPT ![q] = @ \/ Signals(q)]
    /\ Raise(fault)
    /\ session' = IF q = "rx" /\ exited' = None /\ session.generated = session.target
                  THEN None ELSE session
    /\ at' = After(q) /\ fault' = NoFault /\ count' = 0 /\ allowed' = 0
    /\ UNCHANGED <<frontend, control, entries, previous, queue, guestMemory, driver, app>>

-----------------------------------------------------------------------------
(* The guest's driver (external) *)

FreeHeads(q) == Heads \ {posted[q][k] : k \in DOMAIN posted[q]}

Post(q, h, c) ==
    /\ posted' = [posted EXCEPT ![q] = Append(@, h)]
    /\ content' = [content EXCEPT ![q][h] = c]
    /\ avail' = [avail EXCEPT ![q] = [idx |-> Wrap(@.idx + 1),
                                      ring |-> [@.ring EXCEPT ![avail[q].idx % Num] = h]]]

\* The driver keeps the RX queue filled, whether or not the queue runs.
Refill ==
    /\ FreeHeads("rx") # {} /\ Post("rx", LeastOf(FreeHeads("rx")), None)
    /\ UNCHANGED <<frontend, control, entries, pendingMiss, misses, lab, queue, backendLocal,
                   exited, used, suppress, irq, napi, seen, app>>

UsedWaiting(q) == used[q].idx # seen[q]
UsedHead(q) == used[q].ring[seen[q] % Num]
Took(q) ==
    /\ seen' = [seen EXCEPT ![q] = Wrap(@ + 1)]
    /\ posted' = [posted EXCEPT ![q] = SelectSeq(@, LAMBDA h : h # UsedHead(q))]
    /\ content' = [content EXCEPT ![q][UsedHead(q)] = None]

ReapTx ==
    /\ UsedWaiting("tx") /\ Took("tx")
    /\ UNCHANGED <<frontend, control, entries, pendingMiss, misses, lab, queue, backendLocal,
                   exited, avail, used, suppress, irq, napi, app>>

\* NAPI on the RX queue: an interrupt starts polling with interrupts
\* suppressed; an empty ring re-arms them and is looked at once more.
Interrupt ==
    /\ napi = "sleep" /\ irq["rx"]
    /\ napi' = "poll"
    /\ irq' = [irq EXCEPT !["rx"] = FALSE]
    /\ suppress' = [suppress EXCEPT !["rx"] = TRUE]
    /\ UNCHANGED <<frontend, control, entries, pendingMiss, misses, lab, queue, backendLocal,
                   exited, avail, used, content, seen, posted, app>>

\* The guest program's view of a packet of the session
Received(c) ==
    IF app.state # "run" \/ c = None \/ c.id # app.id THEN app
    ELSE IF c.seq # app.received THEN [app EXCEPT !.state = "gap"]
    ELSE [app EXCEPT !.received = @ + 1,
                     !.state = IF app.received + 1 = app.target THEN "ok" ELSE "run"]

Poll ==
    /\ napi = "poll"
    /\ IF UsedWaiting("rx")
       THEN /\ Took("rx")
            /\ app' = Received(content["rx"][UsedHead("rx")])
            /\ UNCHANGED <<napi, suppress>>
       ELSE /\ napi' = "arm"
            /\ suppress' = [suppress EXCEPT !["rx"] = FALSE]
            /\ UNCHANGED <<seen, posted, content, app>>
    /\ UNCHANGED <<frontend, control, entries, pendingMiss, misses, lab, queue, backendLocal,
                   exited, avail, used, irq>>

Rearmed ==
    /\ napi = "arm"
    /\ IF UsedWaiting("rx")
       THEN napi' = "poll" /\ suppress' = [suppress EXCEPT !["rx"] = TRUE]
       ELSE napi' = "sleep" /\ UNCHANGED suppress
    /\ UNCHANGED <<frontend, control, entries, pendingMiss, misses, lab, queue, backendLocal,
                   exited, avail, used, content, irq, seen, posted, app>>

\* A queue is reset on its own while it is stopped and nobody uses it.
RingReset(q) ==
    /\ ~queue[q].started /\ script > Len(Setup) /\ app.state # "run" /\ used[q].idx # 0
    /\ avail' = [avail EXCEPT ![q] = FreshRing] /\ used' = [used EXCEPT ![q] = FreshRing]
    /\ seen' = [seen EXCEPT ![q] = 0] /\ posted' = [posted EXCEPT ![q] = <<>>]
    /\ UNCHANGED <<frontend, control, entries, pendingMiss, misses, lab, queue, backendLocal,
                   exited, suppress, content, irq, napi, app>>

-----------------------------------------------------------------------------
(* The guest program, examples/xdp_vm_rx.rs *)

\* control(): the packet goes out as soon as the device takes it
AppStart ==
    /\ app.state = "new" /\ script > Len(Setup)
    /\ FreeHeads("tx") # {}
    /\ \E t \in plan.targets :
          /\ Post("tx", LeastOf(FreeHeads("tx")), [kind |-> "VS", id |-> app.id, target |-> t])
          /\ app' = [app EXCEPT !.state = "run", !.target = t]
    /\ UNCHANGED <<frontend, control, entries, pendingMiss, misses, lab, queue, backendLocal,
                   exited, used, suppress, irq, napi, seen>>

\* No progress for --timeout seconds, or a failed check: END is sent if it can be.
AppStop ==
    /\ app.state = "gap" \/ (app.state = "run" /\ plan.slow)
    /\ IF FreeHeads("tx") = {} THEN UNCHANGED <<posted, content, avail>>
       ELSE Post("tx", LeastOf(FreeHeads("tx")), [kind |-> "VE", id |-> app.id, target |-> 0])
    /\ app' = [app EXCEPT !.state = IF @ = "gap" THEN "gapped" ELSE "stopped"]
    /\ UNCHANGED <<frontend, control, entries, pendingMiss, misses, lab, queue, backendLocal,
                   exited, used, suppress, irq, napi, seen>>

\* The program is run again, with a session id of its own.
AppAgain ==
    /\ app.state \in {"ok", "stopped"} /\ app.id < plan.sessions
    /\ app' = [id |-> app.id + 1, state |-> "new", received |-> 0, target |-> 0]
    /\ UNCHANGED <<frontend, control, entries, pendingMiss, misses, lab, queue, backendLocal,
                   exited, guestMemory, irq, driver>>

-----------------------------------------------------------------------------
Work == TxTake \/ RxTake \/ \E q \in Queues : Begin(q) \/ EndBatch(q) \/ Notify(q)

ControlMessage ==
    \/ SetOwner \/ SetProtocol \/ SetChannel \/ SetFeatures \/ SetMemTable
    \/ \E q \in Queues : SetVring(q)
    \/ \E kind \in {"resetOwner", "resetDevice"} : Reset(Message(kind, None, None))
    \/ IotlbInvalidate

Driver == Refill \/ ReapTx \/ Interrupt \/ Poll \/ Rearmed
App == AppStart \/ AppStop \/ AppAgain

Exited == exited # None /\ UNCHANGED vars

Next ==
    \/ ControlMessage
    \/ IotlbUpdate
    \/ Work
    \/ Driver
    \/ \E q \in Queues : RingReset(q)
    \/ App
    \/ Exited

Spec == Init /\ [][Next]_vars

\* The backend's loop, the driver and the program run on; the loop reads its
\* socket on every iteration, so what QEMU sends is handled; QEMU answers
\* misses, finishes the setup and restarts a queue it stopped.
Duty ==
    \/ script <= Len(Setup) /\ ControlMessage
    \/ \E q \in Queues : ~queue[q].started /\ SetVring(q)
Promised(A) == plan.polite /\ A
FairSpec ==
    /\ Spec
    /\ WF_vars(Promised(Work)) /\ WF_vars(Promised(Driver)) /\ WF_vars(Promised(App))
    /\ SF_vars(Promised(IotlbUpdate)) /\ SF_vars(Promised(Duty))

-----------------------------------------------------------------------------
(* Properties *)

TypeOK ==
    /\ budget \in 0..plan.requests
    /\ \A q \in Queues :
          /\ queue[q].lastAvail \in 0..(IndexLimit - 1)
          /\ queue[q].lastUsed \in 0..(IndexLimit - 1) \cup {None}
          /\ Len(posted[q]) <= Num
    /\ count \in 0..Batch /\ Len(misses) <= plan.requests + 2
    /\ session # None => session.generated \in 0..session.target

Finished(q) == Wrap(used[q].idx + IndexLimit - seen[q])

\* The used entries of a queue are the driver's buffers in the order it
\* posted them, each once, whatever requests arrive in whatever order, across
\* index wrap, stops, restarts and resets; and between two iterations the base
\* that GET_VRING_BASE returns is where the used ring stands.
UsedInOrder ==
    /\ TypeOK
    /\ \A q \in Queues :
        /\ Finished(q) <= Len(posted[q])
        /\ \A k \in 1..Finished(q) : used[q].ring[(seen[q] + k - 1) % Num] = posted[q][k]
        /\ (at = Control /\ queue[q].lastUsed # None) =>
              queue[q].lastUsed = used[q].idx /\ queue[q].lastAvail = used[q].idx

\* The guest program never sees a gap or a repetition in its session: across
\* stopped and restarted queues, an interrupted earlier session and packets of
\* other sessions still in the ring, rx resumes where it was.
SessionExact == app.state \notin {"gap", "gapped"}

\* With a frontend that keeps to the protocol every run of the guest program
\* completes, though queues stop and restart, translations are invalidated
\* and interrupts are suppressed while the driver polls: no used entry waits
\* for an interrupt that never comes, and no miss goes unasked.
LabCompletes ==
    (plan.polite /\ ~plan.slow) =>
        <>(exited = "packet count" \/ (app.state = "ok" /\ app.id = plan.sessions))
=============================================================================
