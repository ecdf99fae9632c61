-------------------------------- MODULE Iotlb --------------------------------
(***************************************************************************)
(* The IOTLB of the vhost-user backend under every order of the messages   *)
(* that change it: memory tables (request 5), updates and invalidations    *)
(* (request 22).  `told` is what QEMU has said of each address.            *)
(***************************************************************************)
EXTENDS VhostMemory

CONSTANTS Tables,        \* memory tables the frontend sends: sets of regions
          Permissions,   \* permissions of updates and of translations
          NoEntry

VARIABLES regions, entries,   \* Memory
          told                \* per address: user address and permission of the last update

vars == <<regions, entries, told>>

Addresses == 0..(AddressLimit - 1)
Sizes == 1..(AddressLimit - 1)
Nothing == [x \in Addresses |-> NoEntry]

Init == regions = {} /\ entries = <<>> /\ told = Nothing

Replace(table) ==
    /\ ValidTable(table)
    /\ regions' = table /\ entries' = <<>> /\ told' = Nothing

Update(address, size, user, permission) ==
    /\ ValidUpdate(regions, address, size, user, permission)
    /\ entries' = Updated(entries, address, size, user, permission)
    /\ told' = [x \in Addresses |->
                  IF x \in address..(address + size - 1)
                  THEN [user |-> user + (x - address), permission |-> permission]
                  ELSE told[x]]
    /\ UNCHANGED regions

Invalidate(address, size) ==
    /\ entries' = Invalidated(entries, address, size)
    /\ told' = [x \in Addresses |->
                  IF x \in address..(address + size - 1) THEN NoEntry ELSE told[x]]
    /\ UNCHANGED regions

Next ==
    \/ \E table \in Tables : Replace(table)
    \/ \E address, user \in Addresses, size \in Sizes, permission \in Permissions :
          Update(address, size, user, permission)
    \/ \E address \in Addresses, size \in Sizes : Invalidate(address, size)

Spec == Init /\ [][Next]_vars

-----------------------------------------------------------------------------
(* Properties *)

TypeOK ==
    /\ regions \in Tables \cup {{}}
    /\ Len(entries) <= MaxEntries
    /\ \A k \in DOMAIN entries :
          /\ InRange(entries[k].iova, entries[k].size)
          /\ entries[k].permission \in Permissions

\* Memory::translate yields an address only if QEMU's latest word on every
\* byte of the range is exactly that address, with that permission, and it
\* lies in shared RAM ("stale translations never survive"); and a fault asks
\* for an address of the range that no entry serves, so that the answer to it
\* is progress.
TranslationsCurrent ==
    \A address \in Addresses, len \in Sizes, permission \in Permissions :
        LET t == TranslateEntries(regions, entries, address, len, permission)
        IN  /\ t.kind = "ok" =>
                 \A d \in 0..(len - 1) :
                    /\ told[address + d] # NoEntry
                    /\ told[address + d].user = t.user + d
                    /\ permission \subseteq told[address + d].permission
                    /\ \E r \in regions : t.user + d \in r.user..(r.user + r.size - 1)
            /\ t.kind = "missing" =>
                 /\ t.address \in address..(address + len - 1)
                 /\ TranslateEntries(regions, entries, t.address, 1, permission) = t
=============================================================================
