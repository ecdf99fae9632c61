-------------------------- MODULE MCVhostBackend --------------------------
(* Five plans of the vhost-user backend and the parties it serves, of which  *)
(* a behaviour follows one; and, in behaviours of its own, its IOTLB under   *)
(* any sequence of messages.                                                 *)
EXTENDS VhostBackend

VARIABLES translating,               \* the behaviour is about the IOTLB
          tables, translations, told

ASSUME BackendAssumption == VhostAssumption

Plan(requests, sessions, targets) ==
    [iommu |-> FALSE, polite |-> FALSE, requests |-> requests, paced |-> FALSE, slow |-> FALSE,
     sessions |-> sessions, targets |-> targets]

\* Any two requests during two sessions.
Unruly == Plan(2, 2, {1})
\* Two paced sessions whose program may give up.
Paced == [Plan(0, 2, {2}) EXCEPT !.paced = TRUE, !.slow = TRUE]
\* A driver behind an IOMMU, and an invalidation.
Translated == [Plan(1, 1, {2}) EXCEPT !.iommu = TRUE, !.polite = TRUE]
\* Queues stopped and restarted while a session runs, or asks for too much.
Restarted == [Plan(2, 1, {3, 4}) EXCEPT !.polite = TRUE]
\* Any request while a miss may stay unanswered.
Unanswered == [Plan(1, 1, {1}) EXCEPT !.iommu = TRUE, !.slow = TRUE]
LabPlans == {Unruly, Paced, Translated, Restarted, Unanswered}

\* Memory tables: two regions, one over both of them, and one that overlaps itself.
Region(guest, user, size) == [guest |-> guest, user |-> user, size |-> size]
Tlb == INSTANCE Iotlb WITH
    AddressLimit <- 4, MaxEntries <- 2, EvictCount <- 1, NoEntry <- None,
    Tables <- {{Region(0, 0, 2), Region(2, 2, 1)}, {Region(0, 0, 3)},
               {Region(0, 1, 2), Region(1, 0, 1)}},
    Permissions <- {{"r"}, {"w"}, {"r", "w"}},
    regions <- tables, entries <- translations

tlbVars == <<tables, translations, told>>
allVars == <<translating, vars, tlbVars>>

BackendInit ==
    /\ translating \in BOOLEAN /\ Init /\ Tlb!Init
    /\ translating => plan = Paced

InLab == ~translating /\ UNCHANGED <<translating, tlbVars>>

BackendNext ==
    \/ InLab /\ Next
    \/ translating /\ UNCHANGED <<translating, vars>> /\ Tlb!Next

\* The fairness of FairSpec.
BackendSpec ==
    /\ BackendInit /\ [][BackendNext]_allVars
    /\ WF_allVars(InLab /\ Promised(Work)) /\ WF_allVars(InLab /\ Promised(Driver))
    /\ WF_allVars(InLab /\ Promised(App))
    /\ SF_allVars(InLab /\ Promised(IotlbUpdate)) /\ SF_allVars(InLab /\ Promised(Duty))

-----------------------------------------------------------------------------
(* Properties (UsedInOrder and SessionExact are those of VhostBackend)       *)

\* With a frontend that keeps to the protocol every run of the guest program
\* completes: no used entry waits for an interrupt that never comes, and no
\* miss goes unasked.
SessionsEnd == ~translating => LabCompletes

\* The backend translates an address only as the frontend last said, whatever
\* updates, invalidations and memory tables came before.
TranslationsCurrent == translating => Tlb!TypeOK /\ Tlb!TranslationsCurrent
=============================================================================
