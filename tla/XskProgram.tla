----------------------------- MODULE XskProgram -----------------------------
(***************************************************************************)
(* XskProgram and the constructor and destructor of XdpDevice around it:   *)
(* the redirect program is loaded, attached by bpf_link or, where that is  *)
(* not supported, by netlink, the socket is bound, the fill ring stocked,  *)
(* and only then the map and its guard are set.  Other processes attach,   *)
(* replace and remove programs of the interface between any two of the     *)
(* system calls.  A netlink request is served inside sendto, which leaves  *)
(* its answer in the socket for recv, so set_xdp is one step; it may fail  *)
(* before the kernel served the request, or after, when the answer is lost.*)
(***************************************************************************)
EXTENDS Integers, Sequences, SequencesExt

CONSTANTS Queues,     \* receive queues of the interface
          Queue,      \* the one this device serves
          None

VARIABLES
    kernel,           \* what the kernel offers: bpf_link, native mode, zero-copy
    hook,             \* whose program each mode of the interface runs
    at,               \* where with_config or drop is
    config,           \* XdpConfig: attach, attach_generic, mode
    left,             \* modes attach has still to try
    attach_mode, link_fd, detach_mode,
    bound,            \* the socket is bound, in copy or zero-copy mode
    stocked,          \* refill has published frames on the fill ring
    xskmap, refcnt,   \* the two maps of the program
    forsaken          \* history: a netlink request of this device failed unnoticed

vars == <<kernel, hook, at, config, left, attach_mode, link_fd, detach_mode, bound,
          stocked, xskmap, refcnt, forsaken>>

Modes == {"driver", "generic"}
Configs == {c \in [attach : BOOLEAN, attach_generic : BOOLEAN,
                   mode : {"auto", "copy", "zerocopy"}] :
               ~(c.attach_generic /\ c.mode = "zerocopy")}

Init ==
    /\ kernel \in [link : BOOLEAN, native : BOOLEAN, zerocopy : BOOLEAN]
    /\ hook = [m \in Modes |-> "free"]
    /\ at = "closed" /\ config = [attach |-> FALSE, attach_generic |-> FALSE, mode |-> "auto"]
    /\ left = <<>> /\ attach_mode = None /\ link_fd = None /\ detach_mode = None
    /\ bound = None /\ stocked = FALSE /\ xskmap = {} /\ refcnt = 0 /\ forsaken = FALSE

-----------------------------------------------------------------------------
\* The instruction builders; a 64-bit load takes two slots.
Insn(code, dst, src, off, imm) ==
    [code |-> code, dst |-> dst, src |-> src, off |-> off, imm |-> imm]
mov64_imm(dst, imm) == Insn("mov", dst, 0, 0, imm)
jeq_imm(dst, imm, off) == Insn("jeq", dst, 0, off, imm)
ldx_w(dst, src, off) == Insn("ldx", dst, src, off, 0)
lddw(dst, map) == <<Insn("lddw", dst, 0, 0, map), Insn("none", 0, 0, 0, 0)>>
call(helper) == Insn("call", 0, 0, 0, helper)
exit == Insn("exit", 0, 0, 0, 0)

Pass == 2
Redirect == 4

\* Faulty variant of the definition that follows it, for mutation checks.
InsnsWithoutGuard == <<mov64_imm(0, Pass)>> \o lddw(2, "refcnt") \o
    <<ldx_w(2, 2, 0), jeq_imm(2, 0, 0), ldx_w(2, 1, 16)>> \o lddw(1, "xsks") \o
    <<mov64_imm(3, Pass), call("redirect_map"), exit>>

\* the program XskProgram::new loads
Insns == <<mov64_imm(0, Pass)>> \o lddw(2, "refcnt") \o
    <<ldx_w(2, 2, 0), jeq_imm(2, 0, 5), ldx_w(2, 1, 16)>> \o lddw(1, "xsks") \o
    <<mov64_imm(3, Pass), call("redirect_map"), exit>>

\* the kernel runs it for a packet of queue q (external)
Execute(s, q) ==
    LET i == Insns[s.pc + 1]
        next == [s EXCEPT !.pc = @ + 1]
        set(r, v) == [next EXCEPT !.reg[r] = v]
    IN  CASE i.code = "mov" -> set(i.dst, i.imm)
          [] i.code = "lddw" -> [set(i.dst, i.imm) EXCEPT !.pc = s.pc + 2]
          [] i.code = "ldx" -> set(i.dst, IF s.reg[i.src] = "refcnt" THEN refcnt
                                          ELSE IF s.reg[i.src] = "ctx" /\ i.off = 16 THEN q
                                          ELSE "fault")
          [] i.code = "jeq" -> [s EXCEPT !.pc = @ + 1 + (IF s.reg[i.dst] = i.imm
                                                         THEN i.off ELSE 0)]
          [] i.code = "call" -> set(0, IF s.reg[1] = "xsks" /\ s.reg[2] \in xskmap
                                       THEN Redirect ELSE s.reg[3])
          [] OTHER -> s
Verdict(q) ==
    FoldLeft(LAMBDA s, step : Execute(s, q),
             [pc |-> 0, reg |-> (0 :> 0 @@ 1 :> "ctx" @@ 2 :> 0 @@ 3 :> 0)], Insns).reg[0]

-----------------------------------------------------------------------------
\* with_config up to attach; XskProgram::new may fail, with nothing done yet
Open ==
    /\ at = "closed"
    /\ config' \in Configs
    /\ at' = IF config'.attach THEN "link" ELSE "bind"
    /\ left' = IF config'.attach_generic THEN <<"generic">> ELSE <<"driver", "generic">>
    /\ attach_mode' = None /\ refcnt' = 0
    /\ UNCHANGED <<kernel, hook, link_fd, detach_mode, bound, stocked, xskmap, forsaken>>

Occupied == \E m \in Modes : hook[m] # "free"

\* why the kernel would refuse the program in this mode (external)
Refusals(mode) ==
    IF Occupied THEN {"EEXIST", "EBUSY"}
    ELSE IF mode = "driver" /\ ~kernel.native THEN {"EOPNOTSUPP"} ELSE {}

Attached(mode, by) ==
    /\ hook' = [hook EXCEPT ![mode] = by]
    /\ attach_mode' = mode
    /\ at' = "bind"
    /\ UNCHANGED left

Fail == at' = "detach" /\ UNCHANGED <<hook, attach_mode, link_fd, detach_mode, left>>

\* The first loop of attach.  EOPNOTSUPP and EINVAL go on to the next mode; EEXIST
\* (somebody else's program) and any other error, which may always come, end it.
AttachLink ==
    LET mode == Head(left)
        refused == IF kernel.link THEN Refusals(mode) ELSE {"EINVAL"}
    IN  /\ at = "link"
        /\ \/ /\ refused = {}
              /\ Attached(mode, "link")
              /\ link_fd' = mode
              /\ UNCHANGED detach_mode
           \/ /\ refused \cap {"EOPNOTSUPP", "EINVAL"} # {}
              /\ IF Len(left) > 1 THEN left' = Tail(left) /\ at' = at
                 ELSE /\ left' = IF config.attach_generic THEN <<"generic">>
                                 ELSE <<"driver", "generic">>
                      /\ at' = "netlink"
              /\ UNCHANGED <<hook, attach_mode, link_fd, detach_mode>>
           \/ Fail
        /\ UNCHANGED <<kernel, config, bound, stocked, xskmap, refcnt, forsaken>>

\* set_xdp returns an error: the kernel did nothing, or its answer was lost.
SetXdpFails(served) ==
    \/ UNCHANGED <<hook, forsaken>>
    \/ hook' = served /\ forsaken' = (forsaken \/ served # hook)

\* The second loop, set_xdp with UPDATE_IF_NOEXIST: only EEXIST ends it early.
AttachNetlink ==
    LET mode == Head(left)
    IN  /\ at = "netlink"
        /\ \/ /\ Refusals(mode) = {}
              /\ Attached(mode, "netlink")
              /\ detach_mode' = mode
              /\ UNCHANGED <<link_fd, forsaken>>
           \/ /\ SetXdpFails(IF Refusals(mode) = {} THEN [hook EXCEPT ![mode] = "netlink"] ELSE hook)
              /\ IF Len(left) > 1 THEN left' = Tail(left) /\ at' = at
                 ELSE at' = "detach" /\ UNCHANGED left
              /\ UNCHANGED <<attach_mode, link_fd, detach_mode>>
           \/ "EEXIST" \in Refusals(mode) /\ Fail /\ UNCHANGED forsaken
        /\ UNCHANGED <<kernel, config, bound, stocked, xskmap, refcnt>>

\* XskSocket::new; it may fail before or after the bind
Bind ==
    LET forced == config.mode = "copy" \/ attach_mode = "generic"
        active == IF kernel.zerocopy /\ ~forced THEN "zerocopy" ELSE "copy"
    IN  /\ at = "bind"
        /\ IF attach_mode = "generic" /\ config.mode = "zerocopy" THEN
               at' = "detach" /\ UNCHANGED bound
           ELSE \/ at' = "detach" /\ UNCHANGED bound
                \/ at' = "detach" /\ bound' = active
                \/ at' = "refill" /\ bound' = active
                   /\ (config.mode = "zerocopy" => active = "zerocopy")
        /\ UNCHANGED <<kernel, hook, config, left, attach_mode, link_fd, detach_mode, stocked,
                       xskmap, refcnt, forsaken>>

Refill ==
    /\ at = "refill" /\ at' = "map" /\ stocked' = TRUE
    /\ UNCHANGED <<kernel, hook, config, left, attach_mode, link_fd, detach_mode, bound,
                   xskmap, refcnt, forsaken>>

\* set_socket: the map entry, then the guard; either update may fail
SetMap ==
    /\ at = "map"
    /\ \/ at' = "guard" /\ xskmap' = {Queue}
       \/ at' = "detach" /\ UNCHANGED xskmap
    /\ UNCHANGED <<kernel, hook, config, left, attach_mode, link_fd, detach_mode, bound,
                   stocked, refcnt, forsaken>>
SetGuard ==
    /\ at = "guard"
    /\ \/ at' = "open" /\ refcnt' = 1
       \/ at' = "detach" /\ UNCHANGED refcnt
    /\ UNCHANGED <<kernel, hook, config, left, attach_mode, link_fd, detach_mode, bound,
                   stocked, xskmap, forsaken>>

Close == at = "open" /\ at' = "detach"
         /\ UNCHANGED <<kernel, hook, config, left, attach_mode, link_fd, detach_mode, bound,
                        stocked, xskmap, refcnt, forsaken>>

\* Faulty variant of the definition that follows it, for mutation checks.
RemoveAny(mode) == [hook EXCEPT ![mode] = "free"]

\* REPLACE with EXPECTED_FD: the kernel removes this program only
RemoveExpected(mode) == [hook EXCEPT ![mode] = IF @ = "netlink" THEN "free" ELSE @]

\* detach: the mode is forgotten first, and an error of set_xdp is ignored
Detach ==
    /\ at = "detach" /\ at' = "unlink"
    /\ IF detach_mode = None THEN UNCHANGED <<hook, forsaken>>
       ELSE \/ hook' = RemoveExpected(detach_mode) /\ UNCHANGED forsaken
            \/ UNCHANGED hook /\ forsaken' = TRUE
    /\ detach_mode' = None
    /\ UNCHANGED <<kernel, config, left, attach_mode, link_fd, bound, stocked, xskmap, refcnt>>

\* the fields of the program drop: closing the link detaches
Unlink ==
    /\ at = "unlink" /\ at' = "close"
    /\ hook' = IF link_fd # None THEN [hook EXCEPT ![link_fd] = "free"] ELSE hook
    /\ link_fd' = None
    /\ UNCHANGED <<kernel, config, left, attach_mode, detach_mode, bound, stocked, xskmap,
                   refcnt, forsaken>>

Orphaned == [m \in Modes |-> IF hook[m] = "netlink" THEN "orphan" ELSE hook[m]]

\* The socket closes, which takes it out of the map.  A program the device forsook
\* is nobody's from now on.
CloseSocket ==
    /\ at = "close" /\ at' = "closed"
    /\ hook' = IF forsaken THEN Orphaned ELSE hook
    /\ bound' = None /\ stocked' = FALSE /\ xskmap' = {} /\ forsaken' = FALSE
    /\ UNCHANGED <<kernel, config, left, attach_mode, link_fd, detach_mode, refcnt>>

\* the process dies: the kernel closes its descriptors
Crash ==
    /\ at # "closed" /\ at' = "closed"
    /\ hook' = [m \in Modes |-> IF Orphaned[m] = "link" THEN "free" ELSE Orphaned[m]]
    /\ link_fd' = None /\ detach_mode' = None
    /\ bound' = None /\ stocked' = FALSE /\ xskmap' = {} /\ forsaken' = FALSE
    /\ UNCHANGED <<kernel, config, left, attach_mode, refcnt>>

\* Another process attaches a program, overwrites one that no link protects,
\* or removes one (external).
Other ==
    /\ \E m \in Modes :
         \/ /\ ~Occupied /\ (m = "driver" => kernel.native)
            /\ hook' = [hook EXCEPT ![m] = "other"]
         \/ /\ hook[m] \in {"netlink", "orphan"}
            /\ hook' = [hook EXCEPT ![m] = "other"]
         \/ /\ hook[m] \in {"netlink", "orphan", "other"}
            /\ hook' = [hook EXCEPT ![m] = "free"]
    /\ UNCHANGED <<kernel, at, config, left, attach_mode, link_fd, detach_mode, bound,
                   stocked, xskmap, refcnt, forsaken>>

Next == Open \/ AttachLink \/ AttachNetlink \/ Bind \/ Refill \/ SetMap \/ SetGuard \/ Close
        \/ Detach \/ Unlink \/ CloseSocket \/ Crash \/ Other

Spec == Init /\ [][Next]_vars

-----------------------------------------------------------------------------
(* Properties *)

TypeOK ==
    /\ hook \in [Modes -> {"free", "link", "netlink", "other", "orphan"}]
    /\ config \in Configs /\ refcnt \in {0, 1} /\ xskmap \subseteq Queues
    /\ {attach_mode, link_fd, detach_mode} \subseteq Modes \cup {None}
    /\ bound \in {None, "copy", "zerocopy"} /\ forsaken \in BOOLEAN

OwnAttached == \E m \in Modes : hook[m] \in {"link", "netlink"}

\* Nothing is left behind by the device's own doing and nothing blackholed: once
\* it is closed, or its constructor has failed at any step, no program of its own
\* is on the interface, except one whose netlink request failed (detach discards
\* the error) or whose process crashed; where bpf_link works nothing leaves one;
\* and what is left passes every packet.  A packet is redirected only between the
\* opening of a device and its close, on its own queue, into a bound socket whose
\* fill ring has frames, and every other packet passes to the host.
Contained ==
    /\ at = "closed" => ~OwnAttached /\ \A q \in Queues : Verdict(q) = Pass
    /\ kernel.link => ~forsaken /\ \A m \in Modes : hook[m] # "orphan"
    /\ OwnAttached => \A q \in Queues :
         Verdict(q) = IF at \in {"open", "detach", "unlink", "close"} /\ refcnt = 1 /\ q = Queue
                      THEN Redirect ELSE Pass
    /\ OwnAttached /\ (\E q \in Queues : Verdict(q) = Redirect) => bound # None /\ stocked
    /\ at = "open" /\ link_fd # None => hook[link_fd] = "link"
    /\ at = "open" /\ config.mode = "zerocopy" => bound = "zerocopy"

\* A step of the device never changes a program that somebody else installed,
\* not even when it replaced the one the device had attached.
OthersUntouched ==
    [][<<at, left>>' # <<at, left>> =>
         \A m \in Modes : hook[m] \in {"other", "orphan"} => hook'[m] = hook[m]]_vars
=============================================================================
