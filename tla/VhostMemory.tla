----------------------------- MODULE VhostMemory -----------------------------
(***************************************************************************)
(* Guest RAM as the vhost-user backend sees it (examples/support/          *)
(* vhost_user/memory.rs): the regions of SET_MEM_TABLE, the IOTLB entries  *)
(* QEMU installs and invalidates, and the translation of an address range  *)
(* into QEMU's user address space.  Addresses are numbers below            *)
(* AddressLimit (2^64 in the code); a permission is a set of "r" and "w".  *)
(***************************************************************************)
EXTENDS Integers, Sequences, FiniteSets

CONSTANTS AddressLimit,   \* u64 arithmetic fails at this sum (checked_add)
          MaxEntries,     \* most IOTLB entries cached (4096)
          EvictCount      \* entries dropped, oldest first, when the cache is full (1024)

LeastOf(S) == CHOOSE x \in S : \A y \in S : x <= y

\* Faulty variant of the definition that follows it, for mutation checks.
OverlapFromBelow(a, sizeA, b, sizeB) == a <= b /\ b - a < sizeA

\* overlap: do [a, a+sizeA) and [b, b+sizeB) meet?
Overlap(a, sizeA, b, sizeB) == IF a <= b THEN b - a < sizeA ELSE a - b < sizeB

InRange(address, size) == size > 0 /\ address + size < AddressLimit

\* Memory::replace accepts a table of pairwise disjoint regions.
ValidTable(regions) ==
    \A r, s \in regions : r # s =>
        /\ ~Overlap(r.guest, r.size, s.guest, s.size)
        /\ ~Overlap(r.user, r.size, s.user, s.size)

Ok(user, gpa) == [kind |-> "ok", user |-> user, gpa |-> gpa]
Missing(address, permission) == [kind |-> "missing", address |-> address, permission |-> permission]
Invalid == [kind |-> "invalid"]

\* Memory::region: the range has to lie in one region
RegionSpan(regions, address, len, guest) ==
    LET base(r) == IF guest THEN r.guest ELSE r.user
        holding == {r \in regions : /\ address >= base(r)
                                    /\ address - base(r) < r.size
                                    /\ len <= r.size - (address - base(r))}
    IN  IF ~InRange(address, len) \/ holding = {}
        THEN Invalid
        ELSE LET r == CHOOSE r \in holding : TRUE
             IN  Ok(r.user + (address - base(r)), r.guest + (address - base(r)))

\* Memory::invalidate: the whole of every entry that meets the range is dropped
Invalidated(entries, address, size) ==
    SelectSeq(entries, LAMBDA e : ~Overlap(address, size, e.iova, e.size))

Evicted(entries) ==
    IF Len(entries) = MaxEntries
    THEN SubSeq(entries, EvictCount + 1, Len(entries))
    ELSE entries

ValidUpdate(regions, address, size, user, permission) ==
    /\ InRange(address, size) /\ permission # {}
    /\ RegionSpan(regions, user, size, FALSE) # Invalid

\* Faulty variant of the definition that follows it, for mutation checks.
UpdatedInPlace(entries, address, size, user, permission) ==
    Append(Evicted(entries),
           [iova |-> address, size |-> size, user |-> user, permission |-> permission])

\* Memory::update: what the entry replaces goes first
Updated(entries, address, size, user, permission) ==
    Append(Evicted(Invalidated(entries, address, size)),
           [iova |-> address, size |-> size, user |-> user, permission |-> permission])

\* Memory::translate through the IOTLB: from entry to entry, each found with
\* the permission and continuing the user addresses of the first one
TranslateEntries(regions, entries, address, len, permission) ==
    LET serves(e, a) == /\ a >= e.iova /\ a - e.iova < e.size
                        /\ permission \subseteq e.permission
        found(a) == SelectSeq(entries, LAMBDA e : serves(e, a))
        user(e, a) == e.user + (a - e.iova)
        walk[d \in 0..len, first \in Int] ==
            IF d = len THEN RegionSpan(regions, first, len, FALSE)
            ELSE LET a == address + d
                     fits == found(a)
                     e == Head(fits)
                 IN  IF fits = <<>> THEN Missing(a, permission)
                     ELSE IF d > 0 /\ user(e, a) # first + d THEN Invalid
                     ELSE walk[d + LeastOf({e.size - (a - e.iova), len - d}), user(e, a) - d]
    IN  IF ~InRange(address, len) THEN Invalid ELSE walk[0, 0]

\* Memory::translate.  Without an IOMMU the frontend gives rings as its user
\* addresses and the driver gives buffers as guest addresses.
Translate(iommu, regions, entries, address, len, permission, ring) ==
    IF iommu THEN TranslateEntries(regions, entries, address, len, permission)
             ELSE RegionSpan(regions, address, len, ~ring)
=============================================================================
