-------------------------------- MODULE Wire --------------------------------
(***************************************************************************)
(* The packet formats: the Internet checksum, UDP and TCP build_ipv4 and   *)
(* parse_ipv4, and the in-place Responder for ARP, ICMP echo and UDP echo. *)
(* A packet is a sequence of words modulo Mod, one for each field, and     *)
(* lengths count words; how two bytes share a word is left out.  A packet  *)
(* is built by host 1, may have one word changed on its way, and is read   *)
(* by a parser or by the responder of host 2, whose reply goes back to the *)
(* responder of host 1.                                                    *)
(***************************************************************************)
EXTENDS Integers, Sequences, SequencesExt

CONSTANTS Mod,        \* number of values of a word
          Values,     \* words used for ports, sequence numbers and payload
          EchoPort,   \* udp_port of both responders
          None

WireAssumption == Mod \in Nat /\ Mod >= 32 /\ Values \subseteq 0..(Mod - 1)

VARIABLES stage, sent, frame, result

vars == <<stage, sent, frame, result>>

-----------------------------------------------------------------------------
sum_words(ws) == FoldLeft(LAMBDA a, b : a + b, 0, ws)

\* end-around carry until the sum fits, then the complement
finish_sum(sum) ==
    LET fold[s \in 0..sum] == IF s < Mod THEN s ELSE fold[(s % Mod) + (s \div Mod)]
    IN  Mod - 1 - fold[sum]

checksum(ws) == finish_sum(sum_words(ws))
TransportSum(src, dst, proto, ws) ==
    finish_sum(src + dst + proto + Len(ws) + sum_words(ws))

Icmp == 1
Tcp == 6
Udp == 17
DontFragment == 4
HopLimit == 30
IpLen == 8            \* version, total, fragment, ttl, protocol, checksum, source, destination
UdpLen == 4           \* ports, length, checksum
TcpLen == 9           \* ports, sequence, acknowledgment, header length, flags, window, checksum, urgent
WithCheck(ws, i, sum) == [ws EXCEPT ![i] = sum]

IpHeader(proto, src, dst, body) ==
    LET h == <<5, IpLen + Len(body), DontFragment, HopLimit, proto, 0, src, dst>>
    IN  WithCheck(h, 6, checksum(h))

\* Faulty variant of the definition that follows it, for mutation checks.
ZeroAsIs(sum) == sum

\* zero would say that there is no UDP checksum
NotZero(sum) == IF sum = 0 THEN Mod - 1 ELSE sum

\* udp::build_ipv4
BuildUdp(m) ==
    LET body == <<m.sport, m.dport, UdpLen + Len(m.payload), 0>> \o m.payload
        sum == TransportSum(m.src, m.dst, Udp, body)
    IN  IpHeader(Udp, m.src, m.dst, body) \o
        WithCheck(body, 4, NotZero(sum))

\* tcp::build_ipv4, and a peer's segment with any list of options; build_ipv4 itself
\* writes none, or on a SYN one MSS that is not zero, and refuses anything else
Encode(o) == CASE o.kind \in {0, 1} -> <<o.kind>>
               [] o.kind = 2 -> <<2, 3, o.value>>
               [] OTHER -> <<o.kind, o.len>> \o [i \in 1..(o.len - 2) |-> 1]
BuildTcp(m) ==
    LET options == FlattenSeq([i \in DOMAIN m.options |-> Encode(m.options[i])])
        body == <<m.sport, m.dport, m.seq, m.ack, TcpLen + Len(options), m.flags, m.window, 0, 0>>
                \o options \o m.payload
    IN  IpHeader(Tcp, m.src, m.dst, body) \o
        WithCheck(body, 8, TransportSum(m.src, m.dst, Tcp, body))

\* an echo request: type, checksum, data
EchoRequest == 8
BuildEcho(m) ==
    LET body == <<EchoRequest, 0>> \o m.payload
    IN  IpHeader(Icmp, m.src, m.dst, body) \o WithCheck(body, 2, checksum(body))

\* the checks both parsers begin with
Unreadable(p, proto, header) ==
    \/ Len(p) < IpLen + header \/ p[1] # 5 \/ p[5] # proto \/ p[4] = 0
    \/ p[2] < IpLen + header \/ p[2] > Len(p)
    \/ p[3] \notin {0, DontFragment}
    \/ checksum(SubSeq(p, 1, IpLen)) # 0

\* udp::parse_ipv4
ParseUdp(p) ==
    LET udp == SubSeq(p, IpLen + 1, p[2])
    IN  IF \/ Unreadable(p, Udp, UdpLen)
           \/ udp[3] # Len(udp)
           \/ udp[4] # 0 /\ TransportSum(p[7], p[8], Udp, udp) # 0
        THEN None
        ELSE [src |-> p[7], dst |-> p[8], sport |-> udp[1], dport |-> udp[2],
              payload |-> SubSeq(udp, UdpLen + 1, Len(udp))]

\* tcp::parse_ipv4: the walk over the options, from offset; "bad" refuses the segment
Mss(tcp, header) ==
    LET walk[offset \in TcpLen..header, mss \in 0..Mod] ==
            LET kind == tcp[offset + 1]
                len == tcp[offset + 2]
            IN  IF offset = header \/ kind = 0 THEN mss
                ELSE IF kind = 1 THEN walk[offset + 1, mss]
                ELSE IF offset + 2 > header \/ len < 2 \/ offset + len > header THEN Mod
                ELSE IF kind # 2 THEN walk[offset + len, mss]
                ELSE IF len # 3 \/ mss # 0 \/ tcp[offset + 3] = 0 THEN Mod
                ELSE walk[offset + len, tcp[offset + 3]]
    IN  walk[TcpLen, 0]
ParseTcp(p) ==
    LET tcp == SubSeq(p, IpLen + 1, p[2])
        header == tcp[5]
    IN  IF \/ Unreadable(p, Tcp, TcpLen)
           \/ header < TcpLen \/ header > Len(tcp)
           \/ TransportSum(p[7], p[8], Tcp, tcp) # 0
           \/ Mss(tcp, header) = Mod
        THEN None
        ELSE [src |-> p[7], dst |-> p[8], sport |-> tcp[1], dport |-> tcp[2], seq |-> tcp[3],
              ack |-> tcp[4], flags |-> tcp[6], window |-> tcp[7], mss |-> Mss(tcp, header),
              payload |-> SubSeq(tcp, header + 1, Len(tcp))]

-----------------------------------------------------------------------------
\* Responder::respond.  A frame has the link layer, its addresses, VLAN tags and
\* type, and the words of the packet; a responder has the address and the MAC h.
Reply(kind, f) == [kind |-> kind, frame |-> f]

RespondArp(f, h) ==
    LET a == f.words      \* operation, sender MAC, sender IP, target MAC, target IP
    IN  IF a[1] # 1 \/ a[5] # h THEN Reply("ignored", f)
        ELSE Reply("arp", [f EXCEPT !.to = a[2], !.from = h,
                                    !.words = <<2, h, h, a[2], a[3]>>])

EchoBody(body) ==
    LET cleared == [body EXCEPT ![1] = 0, ![2] = 0]
    IN  WithCheck(cleared, 2, checksum(cleared))

Swapped(body) == [body EXCEPT ![1] = body[2], ![2] = body[1]]

RespondIp(f, h) ==
    LET ip == f.words
        ihl == IF ip[1] \in 5..7 THEN IpLen + ip[1] - 5 ELSE 0
        body == SubSeq(ip, ihl + 1, ip[2])
        header == [i \in 1..IpLen |-> CASE i = 4 -> HopLimit [] i = 6 -> 0 [] i = 7 -> h
                                        [] i = 8 -> ip[7] [] OTHER -> ip[i]]
        answer(kind, words) ==
            Reply(kind, [f EXCEPT !.to = f.from, !.from = h,
                                  !.words = WithCheck(header, 6, checksum(header)) \o words])
    IN  IF ihl = 0 \/ ip[2] < ihl \/ ip[2] > Len(ip) THEN Reply("malformed", f)
        ELSE IF checksum(SubSeq(ip, 1, ihl)) # 0 THEN Reply("malformed", f)
        ELSE IF ip[3] \notin {0, DontFragment} \/ ip[8] # h \/ ip[4] = 0 \/ ihl # IpLen
        THEN Reply("ignored", f)
        ELSE CASE ip[5] = Icmp ->
                    IF Len(body) < 2 \/ checksum(body) # 0 THEN Reply("malformed", f)
                    ELSE IF body[1] # EchoRequest THEN Reply("ignored", f)
                    ELSE answer("icmp", EchoBody(body))
               [] ip[5] = Udp ->
                    IF Len(body) < UdpLen \/ body[3] # Len(body) THEN Reply("malformed", f)
                    ELSE IF body[2] # EchoPort THEN Reply("ignored", f)
                    ELSE IF body[4] # 0 /\ TransportSum(ip[7], h, Udp, body) # 0
                    THEN Reply("malformed", f)
                    ELSE answer("udp", Swapped(body))
               [] OTHER -> Reply("ignored", f)

\* at most two VLAN tags are skipped
Respond(f, h) ==
    IF f.link = "ip" THEN RespondIp(f, h)
    ELSE IF f.tags > 2 THEN Reply("ignored", f)
    ELSE CASE f.type = "arp" -> RespondArp(f, h)
           [] f.type = "ipv4" -> RespondIp(f, h)
           [] OTHER -> Reply("ignored", f)
IsReply(kind) == kind \in {"arp", "icmp", "udp"}

-----------------------------------------------------------------------------
Init == stage = "idle" /\ sent = None /\ frame = None /\ result = None

Payloads == {<<>>} \cup {<<v>> : v \in Values}
Option == {[kind |-> 0], [kind |-> 1], [kind |-> 2, value |-> 0], [kind |-> 2, value |-> 9],
           [kind |-> 5, len |-> 2], [kind |-> 5, len |-> 3]}
UdpMessages == [src : {1}, dst : {2}, sport : Values, dport : Values \cup {EchoPort},
                payload : Payloads]
EchoMessages == [src : {1}, dst : {2}, payload : Payloads]
TcpMessages == [src : {1}, dst : {2}, sport : {3}, dport : {EchoPort}, seq : Values, ack : {1},
                flags : {2}, window : {0, 1}, payload : Payloads,
                options : UNION {[1..n -> Option] : n \in 0..3}]
Links == {[link |-> "ip", tags |-> 0]} \cup [link : {"ethernet"}, tags : {0, 2, 3}]
Framed(l, type, words) ==
    [link |-> l.link, tags |-> l.tags, type |-> type, to |-> 2, from |-> 1, words |-> words]

\* host 1 sends a packet
Send ==
    /\ stage = "idle" /\ stage' = "flight" /\ UNCHANGED result
    /\ \E l \in Links :
         \/ \E m \in UdpMessages : sent' = m /\ frame' = Framed(l, "ipv4", BuildUdp(m))
         \/ \E m \in EchoMessages : sent' = m /\ frame' = Framed(l, "ipv4", BuildEcho(m))
         \/ \E m \in TcpMessages : /\ l.link = "ip" /\ sent' = m
                                    /\ frame' = Framed(l, "ipv4", BuildTcp(m))
         \/ \E target \in {2, 3}, type \in {"arp", "ipv6"} :
              /\ l.link = "ethernet" /\ sent' = None
              /\ frame' = Framed(l, type, <<1, 1, 1, 0, target>>)

\* one word of an IP packet changes on the way (external); changes that matter
\* are to zero, to all ones, by one and by half the range
Corrupt ==
    /\ stage = "flight" /\ stage' = "changed"
    /\ frame.link = "ip"
    /\ "options" \in DOMAIN sent => Len(sent.options) <= 1
    /\ \E i \in DOMAIN frame.words :
         LET w == frame.words[i]
         IN  \E v \in {0, Mod - 1, (w + 1) % Mod, (w + (Mod \div 2)) % Mod} :
                v # w /\ frame' = [frame EXCEPT !.words[i] = v]
    /\ UNCHANGED <<sent, result>>

Read ==
    /\ stage \in {"flight", "changed"} /\ frame.link = "ip"
    /\ stage' = IF stage = "flight" THEN "read" ELSE "read changed"
    /\ result' = IF "seq" \in DOMAIN sent THEN ParseTcp(frame.words) ELSE ParseUdp(frame.words)
    /\ UNCHANGED <<sent, frame>>

\* the responder of host 2, and that of host 1 for the reply
Answer ==
    /\ stage \in {"flight", "changed"}
    /\ LET r == Respond(frame, 2)
       IN  /\ stage' = IF IsReply(r.kind) THEN "answered" ELSE "silent"
           /\ frame' = r.frame /\ result' = r.kind
    /\ UNCHANGED sent
AnswerBack ==
    /\ stage = "answered" /\ stage' = "answered twice"
    /\ result' = <<result, Respond(frame, 1).kind>>
    /\ UNCHANGED <<sent, frame>>

Again ==
    /\ stage \notin {"idle", "flight", "changed", "answered"}
    /\ stage' = "idle" /\ sent' = None /\ frame' = None /\ result' = None

Next == Send \/ Corrupt \/ Read \/ Answer \/ AnswerBack \/ Again

Spec == Init /\ [][Next]_vars

-----------------------------------------------------------------------------
(* Properties *)

TypeOK == frame # None => \A i \in DOMAIN frame.words : frame.words[i] \in 0..(Mod - 1)

IsTcp == "seq" \in DOMAIN sent
IsUdp == "sport" \in DOMAIN sent /\ ~IsTcp

\* the options before the first end-of-list mark that are MSS options
MssOptions ==
    LET ended == {i \in DOMAIN sent.options : sent.options[i].kind = 0}
    IN  {i \in DOMAIN sent.options : sent.options[i].kind = 2 /\ \A j \in ended : i < j}

\* What the receiver has to read; a TCP segment is refused for a second MSS
\* option or one of zero.
Meant ==
    IF IsUdp THEN sent
    ELSE IF ~IsTcp \/ (\E i \in MssOptions : sent.options[i].value = 0 \/ MssOptions # {i})
    THEN None
    ELSE [f \in (DOMAIN sent \ {"options"}) \cup {"mss"} |->
            IF f # "mss" THEN sent[f]
            ELSE IF MssOptions = {} THEN 0 ELSE sent.options[CHOOSE i \in MssOptions : TRUE].value]

\* the Internet checksum does not tell a word of zeros from one of ones
Alike(a, b) == a = b \/ {a, b} = {0, Mod - 1}
SameMessage(r, m) ==
    \A f \in DOMAIN m : IF f # "payload" THEN Alike(r[f], m[f])
                       ELSE /\ Len(r[f]) = Len(m[f])
                            /\ \A i \in DOMAIN m[f] : Alike(r[f][i], m[f][i])

\* parse_ipv4 reads back exactly what build_ipv4 wrote, the MSS of any list of
\* options included, and a packet with one word changed is refused unless what
\* is read differs from what was sent in a zero that became all ones or back.
ReadBack ==
    /\ stage = "read" => result = Meant
    /\ stage = "read changed" /\ result # None =>
         IF Meant = None THEN IsTcp ELSE SameMessage(result, Meant)

\* A reply stands: it goes to the requester from the responder, the requester
\* never finds it malformed, although the UDP checksum was not recomputed, and
\* no ARP or ICMP reply is answered again; a UDP reply is only when it came
\* from the echo port.
ReplyStands ==
    /\ stage \in {"answered", "answered twice"} /\ frame.link = "ethernet" =>
         frame.to = 1 /\ frame.from = 2
    /\ stage = "answered twice" =>
         \/ result[2] = "ignored"
         \/ result = <<"udp", "udp">> /\ sent.sport = EchoPort

WireSound == TypeOK /\ ReadBack /\ ReplyStands
=============================================================================
