----------------------------- MODULE RouteTable -----------------------------
(***************************************************************************)
(* The routing table of src/net/route.rs, with addresses of Width bits     *)
(* (32 in the code), and what a caller may rely on: a function from        *)
(* prefixes to gateways, looked up by the longest match.                   *)
(***************************************************************************)
EXTENDS Integers, Sequences

CONSTANTS Width, Gateways, OnLink, Limit

\* What the constants have to satisfy.
RouteAssumption == Width \in Nat /\ Limit \in Nat /\ OnLink \notin Gateways

VARIABLES
    entries,                     \* the table, in order of insertion
    installed                    \* <<network, length>> -> gateway, as callers asked

vars == <<entries, installed>>

AllAddresses == 0..(2^Width - 1)
Lengths == 0..Width

\* Host bits are normalized away.
Network(address, length) == address - (address % 2^(Width - length))

Route(address, length, gateway) ==
    [network |-> Network(address, length), length |-> length, gateway |-> gateway]

Routes == {Route(a, l, g) : a \in AllAddresses, l \in Lengths, g \in Gateways \cup {OnLink}}

Contains(r, address) == Network(address, r.length) = r.network

NextHop(r, destination) == IF r.gateway = OnLink THEN destination ELSE r.gateway

Same(r, s) == r.network = s.network /\ r.length = s.length

Init == entries = <<>> /\ installed = <<>>

-----------------------------------------------------------------------------
\* insert replaces the entry of the same prefix in place.
Inserted(r) ==
    IF \E i \in DOMAIN entries : Same(entries[i], r)
    THEN [i \in DOMAIN entries |-> IF Same(entries[i], r) THEN r ELSE entries[i]]
    ELSE Append(entries, r)

\* Only a new prefix needs room.
Refused(r) == Len(entries) = Limit /\ ~\E i \in DOMAIN entries : Same(entries[i], r)

Insert(r) ==
    /\ ~Refused(r)
    /\ entries' = Inserted(r)
    /\ installed' = [k \in DOMAIN installed \cup {<<r.network, r.length>>} |->
                       IF k = <<r.network, r.length>> THEN r.gateway ELSE installed[k]]

Remove(address, length) ==
    LET key == Route(address, length, OnLink) IN
    /\ entries' = SelectSeq(entries, LAMBDA r : ~Same(r, key))
    /\ installed' = [k \in DOMAIN installed \ {<<key.network, length>>} |-> installed[k]]

Next ==
    \/ \E r \in Routes : Insert(r)
    \/ \E address \in AllAddresses, length \in Lengths : Remove(address, length)

Spec == Init /\ [][Next]_vars

-----------------------------------------------------------------------------
Matching(destination) == {i \in DOMAIN entries : Contains(entries[i], destination)}

\* Faulty variant of the definition that follows it, for mutation checks.
LookupFirst(destination) ==
    IF Matching(destination) = {} THEN {}
    ELSE {entries[CHOOSE i \in Matching(destination) : \A j \in Matching(destination) : i <= j]}

\* lookup keeps the last of the longest matches; {} where there is none.
Lookup(destination) ==
    LET longest == {i \in Matching(destination) :
                      \A j \in Matching(destination) : entries[j].length <= entries[i].length}
    IN  {entries[i] : i \in {i \in longest : \A j \in longest : j <= i}}

-----------------------------------------------------------------------------
\* Entries are normalized routes, no more than the limit.
TypeOK ==
    /\ entries \in Seq(Routes) /\ Len(entries) <= Limit
    /\ \A i \in DOMAIN entries : entries[i].network = Network(entries[i].network, entries[i].length)

\* A prefix has one entry, whatever was inserted, replaced and removed before.
OnePerPrefix == \A i, j \in DOMAIN entries : Same(entries[i], entries[j]) => i = j

\* What destination d matches, by the definition: the bits above the prefix agree.
Agrees(key, d) == key[1] \div 2^(Width - key[2]) = d \div 2^(Width - key[2])

\* Every destination goes where the longest installed prefix that matches it says
\* (lookup, next_hop), and nowhere if none does.
LongestMatch ==
    \A d \in AllAddresses :
        LET keys == {k \in DOMAIN installed : Agrees(k, d)}
            best == {k \in keys : \A other \in keys : other[2] <= k[2]}
        IN  {NextHop(r, d) : r \in Lookup(d)}
              = {IF installed[k] = OnLink THEN d ELSE installed[k] : k \in best}

=============================================================================
