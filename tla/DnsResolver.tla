----------------------------- MODULE DnsResolver -----------------------------
(***************************************************************************)
(* The stub resolver of src/dns/mod.rs.  poll is a call of several stages: *)
(* `at' names the one it is in, and only "idle" admits another call.       *)
(*                                                                         *)
(* Times are relative: a deadline is the time left to it, 0 once reached.  *)
(* An attempt's source port and wire identifier, 32 random bits, are one   *)
(* token; an attempt never draws a token whose datagrams are still under   *)
(* way.  A response is what wire::response makes of it, and carries the    *)
(* generation in which its question was asked.                             *)
(***************************************************************************)
EXTENDS Integers, Sequences, FiniteSets, Functions

CONSTANTS
    Names, Tokens, NumServers, Ttls,
    Capacity, CacheCapacity, MaxCacheTtl,
    LookupTimeout, AttemptTimeout, AttemptsPerName, AliasLimit,
    MaxQueries, MaxGeneration,   \* bounds: lookups, network changes
    MaxElapsed,                  \* bound: time between two polls
    NoToken, NoTime

ASSUME DnsAssumption ==
    /\ {NumServers, Capacity, LookupTimeout, AttemptTimeout, AttemptsPerName, MaxElapsed}
         \subseteq Nat \ {0}
    /\ {CacheCapacity, MaxCacheTtl, AliasLimit, MaxQueries, MaxGeneration} \subseteq Nat
    /\ Ttls \subseteq Nat /\ NoToken \notin Tokens /\ NoTime \notin Nat

VARIABLES
    pending,                     \* query -> lookup in progress
    results,                     \* completions not yet taken
    cache,                       \* name -> cached result
    bound,                       \* tokens whose port is bound in the UDP pool
    net,                         \* questions under way, to the server and back
    generation, nextId, taken,   \* taken: queries whose completion was popped
    at, todo                     \* stage of poll; queries it has still to look at

vars == <<pending, results, cache, bound, net, generation, nextId, taken, at, todo>>

Queries == 1..MaxQueries

Init ==
    /\ pending = <<>> /\ results = <<>> /\ cache = <<>>
    /\ bound = {} /\ net = {} /\ generation = 0 /\ nextId = 1 /\ taken = {}
    /\ at = "idle" /\ todo = {}

-----------------------------------------------------------------------------
Least(m, n) == IF m < n THEN m ELSE n
Later(t, d) == IF t = NoTime THEN NoTime ELSE IF t > d THEN t - d ELSE 0
Without(f, x) == Restrict(f, DOMAIN f \ {x})
With(f, x, v) == [y \in DOMAIN f \cup {x} |-> IF y = x THEN v ELSE f[y]]

\* Faulty variant of the definition that follows it, for mutation checks.
ReleaseNothing(q) == bound

\* close: the port of the last attempt is unbound.
Release(q) == bound \ {q.token}

\* finish, the cache: the soonest to expire makes room, TTL zero is not kept.
Evict(c) ==
    IF Cardinality(DOMAIN c) < CacheCapacity THEN c
    ELSE Without(c, CHOOSE n \in DOMAIN c : \A o \in DOMAIN c : c[n].left <= c[o].left)

Remember(name, result, ttl) ==
    IF ttl = NoTime \/ Least(ttl, MaxCacheTtl) = 0 \/ CacheCapacity = 0 THEN cache
    ELSE With(Evict(cache), name, [left |-> Least(ttl, MaxCacheTtl), result |-> result])

Completion(id, name, cached, result) ==
    [id |-> id, name |-> name, generation |-> generation, cached |-> cached, result |-> result]

\* An outcome that is not an answer has no question behind it.
Error(kind) == [kind |-> kind, asked |-> generation, truth |-> NoTime]

Finish(id, result, ttl) ==
    LET q == pending[id] IN
    /\ pending' = Without(pending, id)
    /\ bound' = Release(q)
    /\ cache' = Remember(q.name, result, ttl)
    /\ results' = Append(results, Completion(id, q.name, FALSE, result))

Update(id, q) ==
    /\ pending' = [pending EXCEPT ![id] = q]
    /\ UNCHANGED <<results, cache, bound>>

-----------------------------------------------------------------------------
\* Faulty variant of the definition that follows it, for mutation checks.
RoomIgnoringResults == Cardinality(DOMAIN pending) < Capacity

\* Lookups in progress and completions nobody took share the capacity.
Room == Cardinality(DOMAIN pending) + Len(results) < Capacity

Lookup(name) ==
    [name |-> name, question |-> name, aliases |-> {name}, hops |-> 0, chain |-> NoTime,
     truth |-> NoTime, deadline |-> LookupTimeout, next |-> 0, attempts |-> 0,
     token |-> NoToken, server |-> 0, asked |-> FALSE]

Resolve(name) ==
    /\ at = "idle" /\ nextId \in Queries /\ Room
    /\ nextId' = nextId + 1
    /\ IF name \in DOMAIN cache /\ cache[name].left > 0
       THEN /\ results' = Append(results, Completion(nextId, name, TRUE, cache[name].result))
            /\ pending' = pending
       ELSE /\ pending' = With(pending, nextId, Lookup(name))
            /\ results' = results
    /\ UNCHANGED <<cache, bound, net, generation, taken, at, todo>>

PopResult ==
    /\ at = "idle" /\ results # <<>>
    /\ results' = Tail(results) /\ taken' = taken \cup {Head(results).id}
    /\ UNCHANGED <<pending, cache, bound, net, generation, nextId, at, todo>>

Cancel(id) ==
    /\ at = "idle" /\ id \in DOMAIN pending
    /\ Finish(id, Error("Cancelled"), NoTime)
    /\ UNCHANGED <<net, generation, nextId, taken, at, todo>>

CacheCleared == <<>>

\* The queries in progress from the oldest to the newest, as pending.keys() lists them.
Orders == {s \in [1..Cardinality(DOMAIN pending) -> DOMAIN pending] :
              \A i, j \in DOMAIN s : i < j => s[i] < s[j]}

\* invalidate, alone or by configure with other settings.
Invalidate ==
    /\ at = "idle" /\ generation < MaxGeneration
    /\ \E ids \in Orders : results' = results \o
         [i \in DOMAIN ids |-> Completion(ids[i], pending[ids[i]].name, FALSE, Error("NetworkChanged"))]
    /\ pending' = <<>> /\ bound' = bound \ {pending[id].token : id \in DOMAIN pending}
    /\ cache' = CacheCleared /\ generation' = generation + 1
    /\ UNCHANGED <<net, nextId, taken, at, todo>>

-----------------------------------------------------------------------------
\* Time passes for a lookup and for a cached result.
Aged(q, d) ==
    [q EXCEPT !.deadline = Later(@, d), !.next = Later(@, d), !.chain = Later(@, d), !.truth = Later(@, d)]
Older(e, d) == [left |-> Later(e.left, d), result |-> [e.result EXCEPT !.truth = Later(@, d)]]

\* poll: time passes, expired cache entries go; a failing pool ends the call and
\* loses what it had received.
Poll(elapsed) ==
    /\ at = "idle"
    /\ pending' = [id \in DOMAIN pending |-> Aged(pending[id], elapsed)]
    /\ cache' = [n \in {m \in DOMAIN cache : cache[m].left > elapsed} |-> Older(cache[n], elapsed)]
    /\ \/ at' = "receive" /\ net' = net
       \/ at' = "idle" /\ net' \in SUBSET net
    /\ UNCHANGED <<results, bound, generation, nextId, taken, todo>>

Answers ==
    [kind : {"addresses", "negative"}, ttl : Ttls]
      \cup [kind : {"alias"}, ttl : Ttls, target : Names, hops : {0, 1}]
      \cup [kind : {"unknown", "retry", "failure", "malformed"}]

\* Faulty variant of the definition that follows it, for mutation checks.
ExpiryOfAnswer(q, ttl) == Least(ttl, MaxCacheTtl)

\* An answer lives no longer than any alias on the way to it.
Expiry(q, ttl) ==
    LET own == Least(ttl, MaxCacheTtl) IN IF q.chain = NoTime THEN own ELSE Least(q.chain, own)

Truth(q, ttl) == IF q.truth = NoTime THEN ttl ELSE Least(q.truth, ttl)

Follow(q, a) ==
    [q EXCEPT !.aliases = @ \cup {a.target}, !.hops = @ + (IF a.hops = 0 THEN 1 ELSE a.hops),
              !.question = a.target, !.chain = Expiry(q, a.ttl), !.truth = Truth(q, a.ttl),
              !.attempts = 0, !.next = 0, !.asked = FALSE]

Answered(id, r, a) ==
    LET q == pending[id]
        result(ttl) == [kind |-> a.kind, asked |-> r.generation, truth |-> ttl]
    IN
    \/ /\ a.kind \in {"addresses", "negative"}
       /\ Finish(id, result(Truth(q, a.ttl)), Expiry(q, a.ttl))
    \/ a.kind = "unknown" /\ Finish(id, result(NoTime), NoTime)
    \/ /\ a.kind = "alias" /\ (a.target \in q.aliases \/ q.hops + a.hops > AliasLimit)
       /\ Finish(id, Error("AliasLimit"), NoTime)
    \/ /\ a.kind = "alias" /\ ~(a.target \in q.aliases \/ q.hops + a.hops > AliasLimit)
       /\ Update(id, Follow(q, a))
    \/ /\ a.kind = "retry" /\ q.attempts < AttemptsPerName
       /\ Update(id, [q EXCEPT !.next = 0, !.asked = FALSE])
    \/ /\ a.kind = "failure" \/ (a.kind = "retry" /\ q.attempts >= AttemptsPerName)
       /\ Finish(id, Error("Failure"), NoTime)
    \/ a.kind = "malformed" /\ UNCHANGED <<pending, results, cache, bound>>

Matches(q, r) == q.asked /\ q.token = r.token /\ q.server = r.server

\* receive: the query a response belongs to takes it while its attempt lasts.
Receive(r, a, again) ==
    LET ids == {id \in DOMAIN pending : Matches(pending[id], r)
                    /\ pending[id].deadline > 0 /\ pending[id].next > 0}
    IN
    /\ at = "receive" /\ r \in net
    /\ net' = IF again THEN net ELSE net \ {r}
    /\ \/ ids = {} /\ UNCHANGED <<pending, results, cache, bound>>
       \/ \E id \in ids : Answered(id, r, a)
    /\ UNCHANGED <<generation, nextId, taken, at, todo>>

Received ==
    /\ at = "receive" /\ at' = "events"
    /\ UNCHANGED <<pending, results, cache, bound, net, generation, nextId, taken, todo>>

\* The pool dropped the datagram of a live attempt.
Dropped(id, deviceError) ==
    LET q == pending[id] IN
    /\ at = "events"
    /\ q.asked /\ \E r \in net : Matches(q, r) /\ net' = net \ {r}
    /\ IF deviceError THEN Finish(id, Error("Local"), NoTime)
       ELSE Update(id, [q EXCEPT !.next = 0])
    /\ UNCHANGED <<generation, nextId, taken, at, todo>>

EventsSeen ==
    /\ at = "events" /\ at' = "ids" /\ todo' = DOMAIN pending
    /\ UNCHANGED <<pending, results, cache, bound, net, generation, nextId, taken>>

-----------------------------------------------------------------------------
\* 1 << attempts
Shift[k \in 0..AttemptsPerName] == IF k = 0 THEN 1 ELSE 2 * Shift[k - 1]

\* attempt: a fresh port and identifier, the servers in turn, doubling timeouts.
Attempt(id) ==
    LET q == pending[id]
        closed == [q EXCEPT !.token = NoToken, !.asked = FALSE]
        server == q.attempts % NumServers
    IN
    \/ \E t \in (Tokens \ Release(q)) \ {r.token : r \in net} :
        /\ bound' = Release(q) \cup {t}
        /\ pending' = [pending EXCEPT ![id] =
             [q EXCEPT !.token = t, !.asked = TRUE, !.server = server, !.attempts = @ + 1,
                       !.next = Least(AttemptTimeout * Shift[q.attempts], q.deadline)]]
        /\ net' = net \cup {[token |-> t, server |-> server, generation |-> generation]}
        /\ UNCHANGED <<results, cache>>
    \/ /\ bound' = Release(q) /\ pending' = [pending EXCEPT ![id] = [closed EXCEPT !.next = 1]]
       /\ UNCHANGED <<results, cache, net>>
    \/ Finish(id, Error("Local"), NoTime) /\ net' = net

\* Faulty variant of the definition that follows it, for mutation checks.
ExpiredByAttempts(q) == q.next = 0 /\ q.attempts >= AttemptsPerName

Expired(q) == q.deadline = 0 \/ (q.next = 0 /\ q.attempts >= AttemptsPerName)

Visit(id) ==
    /\ at = "ids" /\ \A other \in todo : id <= other
    /\ todo' = todo \ {id}
    /\ \/ Expired(pending[id]) /\ Finish(id, Error("Timeout"), NoTime) /\ net' = net
       \/ ~Expired(pending[id]) /\ pending[id].next = 0 /\ Attempt(id)
       \/ ~Expired(pending[id]) /\ pending[id].next > 0
            /\ UNCHANGED <<pending, results, cache, bound, net>>
    /\ UNCHANGED <<generation, nextId, taken, at>>

Visited ==
    /\ at = "ids" /\ todo = {} /\ at' = "idle"
    /\ UNCHANGED <<pending, results, cache, bound, net, generation, nextId, taken, todo>>

Next ==
    \/ \E name \in Names : Resolve(name)
    \/ PopResult
    \/ \E id \in DOMAIN pending : Cancel(id)
    \/ Invalidate
    \/ \E elapsed \in 0..MaxElapsed : Poll(elapsed)
    \/ \E r \in net, a \in Answers, again \in BOOLEAN : Receive(r, a, again)
    \/ Received
    \/ \E id \in DOMAIN pending, deviceError \in BOOLEAN : Dropped(id, deviceError)
    \/ EventsSeen
    \/ \E id \in todo : Visit(id)
    \/ Visited

Spec == Init /\ [][Next]_vars

\* The application keeps polling, its clock moves, and again and again the device
\* does not fail the poll.
FairSpec ==
    /\ Spec
    /\ SF_vars(\E elapsed \in 1..MaxElapsed : Poll(elapsed) /\ at' = "receive")
    /\ WF_vars(Received) /\ WF_vars(EventsSeen) /\ WF_vars(\E id \in todo : Visit(id)) /\ WF_vars(Visited)

-----------------------------------------------------------------------------
Times(max) == 0..max \cup {NoTime}

\* Lookups stay within their limits: deadlines, attempts (the exponent of the
\* attempt's timeout), aliases, and poll visits only lookups that exist.
TypeOK ==
    /\ DOMAIN pending \subseteq 1..(nextId - 1) /\ taken \subseteq 1..(nextId - 1)
    /\ \A id \in DOMAIN pending :
        LET q == pending[id] IN
        /\ {q.name, q.question} \subseteq q.aliases /\ q.aliases \subseteq Names
        /\ q.deadline \in 0..LookupTimeout /\ q.next \in 0..LookupTimeout
        /\ q.attempts \in 0..AttemptsPerName /\ q.hops \in 0..AliasLimit + 1
        /\ q.token \in Tokens \cup {NoToken} /\ q.server \in 0..(NumServers - 1)
        /\ q.chain \in Times(MaxCacheTtl)
    /\ DOMAIN cache \subseteq Names
    /\ bound \subseteq Tokens /\ generation \in 0..MaxGeneration
    /\ at \in {"idle", "receive", "events", "ids"} /\ todo \subseteq DOMAIN pending

\* Every lookup issued is in progress, waiting to be taken or taken: exactly one
\* of them, once.  Completions and lookups never exceed the capacity they share.
CompletedOnce ==
    LET waiting == {results[i].id : i \in DOMAIN results} IN
    /\ DOMAIN pending \cup waiting \cup taken = 1..(nextId - 1)
    /\ Cardinality(DOMAIN pending) + Cardinality(waiting) + Cardinality(taken) = nextId - 1
    /\ Cardinality(waiting) = Len(results)
    /\ Cardinality(DOMAIN pending) + Len(results) <= Capacity

\* A source port is bound exactly while a lookup in progress owns it, by one lookup.
PortsOwned ==
    /\ bound = {pending[id].token : id \in DOMAIN pending} \ {NoToken}
    /\ \A i, j \in DOMAIN pending :
        i # j /\ pending[i].token = pending[j].token => pending[i].token = NoToken

\* Each lookup completes once, within the limits of the configuration, and the
\* ports bound in the pool are those of the attempts under way.
OneCompletion == TypeOK /\ CompletedOnce /\ PortsOwned

\* An answer is delivered, or kept in the cache, only in the generation of the
\* network that gave it, however late or often it arrives.
AnswersCurrent ==
    /\ \A i \in DOMAIN results : results[i].result.asked = results[i].generation
    /\ \A n \in DOMAIN cache : cache[n].result.asked = generation

\* Answers are of the network that was asked, and the cache holds answers only,
\* none of them longer than the shortest TTL met on the way to it, and never
\* more of them than its capacity.
CacheHonest ==
    /\ AnswersCurrent
    /\ Cardinality(DOMAIN cache) <= CacheCapacity
    /\ \A n \in DOMAIN cache :
        /\ cache[n].result.kind \in {"addresses", "negative"}
        /\ cache[n].left > 0 /\ cache[n].left <= cache[n].result.truth

\* Every lookup completes, whatever servers and network do and however often the
\* device refuses a query, as long as polls get past the device again and again.
Completes == \A id \in Queries : (id \in DOMAIN pending) ~> (id \notin DOMAIN pending)

=============================================================================
