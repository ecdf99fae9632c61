---------------------------- MODULE MCDnsResolver ----------------------------
(* Two instances, one of which each behaviour has: two names, so that        *)
(* answers may be aliases, with one source port; and one name with two ports *)
(* and three lookups through a capacity of two.                              *)
EXTENDS DnsResolver

VARIABLE instance

Aliases == INSTANCE DnsResolver WITH
    Tokens <- {CHOOSE t \in Tokens : TRUE}, MaxQueries <- 2

Crowded == INSTANCE DnsResolver WITH
    Names <- {CHOOSE n \in Names : TRUE}, Ttls <- {1}, MaxCacheTtl <- 1, LookupTimeout <- 1

resolverVars == <<instance, vars>>

ResolverInit == instance \in {"aliases", "crowded"} /\ Init

ResolverNext ==
    /\ instance' = instance
    /\ \/ instance = "aliases" /\ Aliases!Next
       \/ instance = "crowded" /\ Crowded!Next

\* Fairness of DnsResolver, for the first instance.
Fairly(A) == instance = "aliases" /\ instance' = instance /\ A
ResolverSpec ==
    /\ ResolverInit /\ [][ResolverNext]_resolverVars
    /\ SF_resolverVars(Fairly(\E elapsed \in 1..MaxElapsed : Aliases!Poll(elapsed) /\ at' = "receive"))
    /\ WF_resolverVars(Fairly(Aliases!Received)) /\ WF_resolverVars(Fairly(Aliases!EventsSeen))
    /\ WF_resolverVars(Fairly(\E id \in todo : Aliases!Visit(id)))
    /\ WF_resolverVars(Fairly(Aliases!Visited))

-----------------------------------------------------------------------------
\* Under continued polling every lookup completes.
ResolverCompletes == instance = "aliases" => Completes
=============================================================================
