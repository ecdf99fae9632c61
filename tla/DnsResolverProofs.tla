------------------------- MODULE DnsResolverProofs -------------------------
(***************************************************************************)
(* Every lookup completes once and the cache is honest, for every set of   *)
(* names, source ports and TTLs, every number of servers and attempts and  *)
(* every capacity, whatever the network loses, repeats or delays.          *)
(*                                                                         *)
(* The properties are not inductive.  That a query is counted once needs   *)
(* its place (Placed): each identifier issued is a key of pending, the     *)
(* identifier of one completion or taken.  That an answer is of the        *)
(* present network needs what a datagram in flight can still match         *)
(* (NetCurrent); and that nothing outlives its TTL needs the same of the   *)
(* aliases a lookup has followed (Sound).                                  *)
(***************************************************************************)
EXTENDS DnsResolver, TLAPS

\* Time for the provers on a busy machine.
USE SMTT(60)

\* What is used of finite sets and of the naturals; both are derived from the
\* library before the theorems.
Counting ==
    /\ IsFiniteSet({}) /\ Cardinality({}) = 0
    /\ \A S : IsFiniteSet(S) => Cardinality(S) \in Nat
    /\ \A S, T : IsFiniteSet(S) /\ T \subseteq S =>
          IsFiniteSet(T) /\ Cardinality(T) <= Cardinality(S)
    /\ \A S, x : IsFiniteSet(S) =>
          /\ IsFiniteSet(S \cup {x})
          /\ Cardinality(S \cup {x}) = IF x \in S THEN Cardinality(S) ELSE Cardinality(S) + 1
    /\ \A S, x : IsFiniteSet(S) =>
          Cardinality(S \ {x}) = IF x \in S THEN Cardinality(S) - 1 ELSE Cardinality(S)

\* An injective list of a set's elements, as long as the set is large, has them all.
Enumerating ==
    \A S : IsFiniteSet(S) =>
        \A f \in [1..Cardinality(S) -> S] :
            (\A i, j \in 1..Cardinality(S) : f[i] = f[j] => i = j)
            => \A x \in S : \E i \in 1..Cardinality(S) : f[i] = x

WellOrdered == \A S : S \subseteq Nat /\ S # {} => \E n \in S : \A m \in S : n <= m

-----------------------------------------------------------------------------
(* The invariant *)

Lookups ==
    [name : Names, question : Names, aliases : SUBSET Names, hops : 0..(AliasLimit + 1),
     chain : Times(MaxCacheTtl), truth : Nat \cup {NoTime},
     deadline : 0..LookupTimeout, next : 0..LookupTimeout, attempts : 0..AttemptsPerName,
     token : Tokens \cup {NoToken}, server : 0..(NumServers - 1), asked : BOOLEAN]

\* What the aliases met so far allow is no longer than their TTLs.
Sound(q) ==
    /\ q \in Lookups /\ {q.name, q.question} \subseteq q.aliases
    /\ q.chain = NoTime <=> q.truth = NoTime
    /\ q.chain # NoTime => q.chain <= q.truth

Kinds == {"addresses", "negative", "unknown", "Cancelled", "NetworkChanged", "AliasLimit",
          "Failure", "Local", "Timeout"}
Outcomes == [kind : Kinds, asked : Nat, truth : Nat \cup {NoTime}]
Completions == [id : Nat, name : Names, generation : Nat, cached : BOOLEAN, result : Outcomes]
Entries == [left : Nat, result : [kind : {"addresses", "negative"}, asked : Nat, truth : Nat]]
Datagrams == [token : Tokens, server : 0..(NumServers - 1), generation : Nat]

Typed ==
    /\ nextId \in Nat \ {0} /\ generation \in 0..MaxGeneration
    /\ \A id \in DOMAIN pending : Sound(pending[id])
    /\ results \in Seq(Completions) /\ net \subseteq Datagrams
    /\ at \in {"idle", "receive", "events", "ids"} /\ todo \subseteq DOMAIN pending
    /\ at # "ids" => todo = {}

Waiting == {results[i].id : i \in DOMAIN results}

\* Each query is in one place, once, and those not yet taken fit the capacity.
Placed ==
    /\ DOMAIN pending \cup Waiting \cup taken = 1..(nextId - 1)
    /\ DOMAIN pending \cap Waiting = {} /\ DOMAIN pending \cap taken = {} /\ Waiting \cap taken = {}
    /\ \A i, j \in DOMAIN results : results[i].id = results[j].id => i = j
    /\ IsFiniteSet(DOMAIN pending)
    /\ Cardinality(DOMAIN pending) + Len(results) <= Capacity

\* Whatever may still answer an attempt was asked in the present generation.
NetCurrent ==
    \A id \in DOMAIN pending, r \in net :
        pending[id].asked /\ r.token = pending[id].token => r.generation = generation

Cached ==
    /\ DOMAIN cache \subseteq Names /\ IsFiniteSet(DOMAIN cache)
    /\ Cardinality(DOMAIN cache) <= CacheCapacity
    /\ \A n \in DOMAIN cache :
        /\ cache[n] \in Entries /\ cache[n].result.asked = generation
        /\ cache[n].left > 0 /\ cache[n].left <= cache[n].result.truth

Delivered == \A i \in DOMAIN results : results[i].result.asked = results[i].generation

IInv == Typed /\ Placed /\ PortsOwned /\ NetCurrent /\ Cached /\ Delivered

-----------------------------------------------------------------------------
(* The operators *)

\* The numbers of a configuration.
LEMMA Numbers ==
    /\ {NumServers, Capacity, LookupTimeout, AttemptTimeout, AttemptsPerName} \subseteq Nat \ {0}
    /\ {CacheCapacity, MaxCacheTtl, AliasLimit, MaxGeneration} \subseteq Nat
    /\ Ttls \subseteq Nat /\ NoTime \notin Nat /\ NoToken \notin Tokens /\ MaxElapsed \in Nat
BY DnsAssumption

\* The time left later is at most what it was ...
LEMMA LaterTyped ==
    ASSUME NEW d \in Nat, NEW t \in Nat
    PROVE  Later(t, d) \in 0..t /\ Later(t, d) \in Nat /\ (t > d => Later(t, d) > 0)
BY Numbers DEF Later

\* ... and keeps its order.
LEMMA LaterOrder ==
    ASSUME NEW d \in Nat, NEW t \in Nat, NEW u \in Nat, t <= u
    PROVE  Later(t, d) <= Later(u, d)
BY Numbers DEF Later

\* A set with an element less.
LEMMA Removed ==
    ASSUME Counting, NEW S, IsFiniteSet(S), NEW x \in S
    PROVE  /\ IsFiniteSet(S \ {x}) /\ Cardinality(S) \in Nat
           /\ Cardinality(S \ {x}) = Cardinality(S) - 1
<1>1. S \ {x} \subseteq S
  OBVIOUS
<1> QED BY ZenonT(60), <1>1 DEF Counting

\* A set with an element more.
LEMMA Added ==
    ASSUME Counting, NEW S, IsFiniteSet(S), NEW x
    PROVE  /\ IsFiniteSet(S \cup {x}) /\ Cardinality(S) \in Nat
           /\ x \in S => Cardinality(S \cup {x}) = Cardinality(S)
           /\ x \notin S => Cardinality(S \cup {x}) = Cardinality(S) + 1
BY ZenonT(60) DEF Counting

\* Along a chain of aliases, what the cache may keep never exceeds the TTLs.
LEMMA ExpiryBounded ==
    ASSUME NEW q, Sound(q), NEW ttl \in Nat
    PROVE  /\ Expiry(q, ttl) \in 0..MaxCacheTtl /\ Truth(q, ttl) \in Nat
           /\ Expiry(q, ttl) <= Truth(q, ttl)
<1>1. /\ q.chain \in 0..MaxCacheTtl \cup {NoTime} /\ q.truth \in Nat \cup {NoTime}
      /\ q.chain = NoTime <=> q.truth = NoTime
      /\ q.chain # NoTime => q.chain <= q.truth
  BY DEF Sound, Lookups, Times
<1>2. CASE q.chain = NoTime
  BY <1>1, <1>2, Numbers DEF Expiry, Truth, Least
<1>3. CASE q.chain # NoTime
  <2>1. q.chain \in 0..MaxCacheTtl /\ q.truth \in Nat /\ q.chain <= q.truth /\ q.truth # NoTime
    BY <1>1, <1>3
  <2> QED BY <1>3, <2>1, Numbers DEF Expiry, Truth, Least
<1> QED BY <1>2, <1>3

\* The soonest to expire can be named.
LEMMA EvictRoom ==
    ASSUME Counting, WellOrdered, Cached, CacheCapacity > 0
    PROVE  /\ DOMAIN Evict(cache) \subseteq DOMAIN cache
           /\ \A n \in DOMAIN Evict(cache) : Evict(cache)[n] = cache[n]
           /\ IsFiniteSet(DOMAIN Evict(cache)) /\ Cardinality(DOMAIN Evict(cache)) < CacheCapacity
<1> DEFINE D == DOMAIN cache
<1>1. IsFiniteSet(D) /\ Cardinality(D) \in Nat /\ Cardinality(D) <= CacheCapacity /\ CacheCapacity \in Nat
  BY Numbers DEF Cached, Counting
<1>2. CASE Cardinality(D) < CacheCapacity
  BY <1>1, <1>2 DEF Evict
<1>3. CASE ~(Cardinality(D) < CacheCapacity)
  <2> DEFINE v == CHOOSE n \in D : \A o \in D : cache[n].left <= cache[o].left
             lefts == {cache[n].left : n \in D}
  <2>1. D # {}
    BY <1>1, <1>3 DEF Counting
  <2>2. lefts \subseteq Nat /\ lefts # {}
    BY <2>1 DEF Cached, Entries
  <2>3. \E n \in D : \A o \in D : cache[n].left <= cache[o].left
    <3>1. PICK l \in lefts : \A m \in lefts : l <= m
      BY ZenonT(60), <2>2 DEF WellOrdered
    <3> QED BY <3>1
  <2>4. v \in D
    BY ZenonT(60), <2>3
  <2>5. Evict(cache) = Without(cache, v)
    BY <1>3 DEF Evict
  <2> HIDE DEF v, D, lefts
  <2>6. DOMAIN Evict(cache) = D \ {v} /\ \A n \in D \ {v} : Evict(cache)[n] = cache[n]
    BY <2>5 DEF D, Without, Restrict
  <2>7. IsFiniteSet(D \ {v}) /\ Cardinality(D \ {v}) = Cardinality(D) - 1
    BY ZenonT(60), <1>1, <2>4, Removed
  <2> QED BY <1>1, <2>6, <2>7 DEF D
<1> QED BY <1>2, <1>3

\* What finish may put into the cache: answers, for as long as they are true.
Kept(result, ttl) ==
    \/ ttl = NoTime
    \/ /\ ttl \in Nat /\ ttl <= result.truth /\ result.asked = generation
       /\ result \in [kind : {"addresses", "negative"}, asked : Nat, truth : Nat]

\* finish keeps the cache honest and within its capacity.
LEMMA RememberSound ==
    ASSUME Counting, WellOrdered, Cached, NEW name \in Names, NEW result, NEW ttl, Kept(result, ttl),
           cache' = Remember(name, result, ttl), generation' = generation
    PROVE  Cached'
<1>1. CASE ttl = NoTime \/ Least(ttl, MaxCacheTtl) = 0 \/ CacheCapacity = 0
  <2>1. cache' = cache
    BY <1>1 DEF Remember
  <2> QED BY <2>1 DEF Cached
<1>2. CASE ~(ttl = NoTime \/ Least(ttl, MaxCacheTtl) = 0 \/ CacheCapacity = 0)
  <2> DEFINE c == Evict(cache)
             e == [left |-> Least(ttl, MaxCacheTtl), result |-> result]
  <2>1. cache' = With(c, name, e)
    BY <1>2 DEF Remember
  <2>2. /\ ttl \in Nat /\ ttl <= result.truth /\ result.asked = generation
        /\ result \in [kind : {"addresses", "negative"}, asked : Nat, truth : Nat]
    BY <1>2 DEF Kept
  <2>3. CacheCapacity > 0 /\ CacheCapacity \in Nat /\ MaxCacheTtl \in Nat
    BY <1>2, Numbers
  <2>4. /\ DOMAIN c \subseteq DOMAIN cache /\ \A n \in DOMAIN c : c[n] = cache[n]
        /\ IsFiniteSet(DOMAIN c) /\ Cardinality(DOMAIN c) < CacheCapacity
    BY ZenonT(60), <2>3, EvictRoom
  <2> HIDE DEF c
  <2>5. e \in Entries /\ e.result.asked = generation /\ e.left > 0 /\ e.left <= e.result.truth
    <3>1. Least(ttl, MaxCacheTtl) \in Nat \ {0} /\ Least(ttl, MaxCacheTtl) <= result.truth
      <4>1. result.truth \in Nat
        BY <2>2
      <4> QED BY <1>2, <2>2, <2>3, <4>1 DEF Least
    <3> QED BY <2>2, <3>1 DEF Entries
  <2> HIDE DEF e
  <2>6. /\ DOMAIN cache' = DOMAIN c \cup {name} /\ cache'[name] = e
        /\ \A n \in DOMAIN c \ {name} : cache'[n] = c[n]
    BY <2>1 DEF With
  <2>7. IsFiniteSet(DOMAIN cache') /\ Cardinality(DOMAIN cache') <= CacheCapacity
    <3>1. /\ IsFiniteSet(DOMAIN c \cup {name}) /\ Cardinality(DOMAIN c) \in Nat
          /\ \/ Cardinality(DOMAIN c \cup {name}) = Cardinality(DOMAIN c)
             \/ Cardinality(DOMAIN c \cup {name}) = Cardinality(DOMAIN c) + 1
      BY ZenonT(60), <2>4, Added
    <3> QED BY <2>3, <2>4, <2>6, <3>1
  <2>8. ASSUME NEW n \in DOMAIN cache'
        PROVE  /\ cache'[n] \in Entries /\ cache'[n].result.asked = generation'
               /\ cache'[n].left > 0 /\ cache'[n].left <= cache'[n].result.truth
    <3>1. CASE n = name
      BY <2>5, <2>6, <3>1
    <3>2. CASE n # name
      <4>1. n \in DOMAIN cache /\ cache'[n] = cache[n]
        BY <2>4, <2>6, <3>2
      <4> QED BY <4>1 DEF Cached
    <3> QED BY <3>1, <3>2
  <2> QED BY <2>4, <2>6, <2>7, <2>8 DEF Cached
<1> QED BY <1>1, <1>2

-----------------------------------------------------------------------------
(* The parts of the invariant under finish *)

\* A query that completes moves from those in progress to those waiting.
LEMMA FinishPlaced ==
    ASSUME Counting, Typed, Placed, NEW id \in DOMAIN pending, NEW c \in Completions, c.id = id,
           pending' = Without(pending, id), results' = Append(results, c),
           nextId' = nextId, taken' = taken
    PROVE  Placed'
<1>1. DOMAIN pending' = DOMAIN pending \ {id}
  BY DEF Without, Restrict
<1>2. /\ results \in Seq(Completions) /\ DOMAIN results = 1..Len(results) /\ Len(results) \in Nat
      /\ DOMAIN results' = 1..(Len(results) + 1) /\ Len(results') = Len(results) + 1
      /\ results'[Len(results) + 1] = c /\ \A i \in 1..Len(results) : results'[i] = results[i]
  BY DEF Typed
<1>3. 1..(Len(results) + 1) = 1..Len(results) \cup {Len(results) + 1} /\ Len(results) + 1 \notin 1..Len(results)
  BY <1>2
<1>4. Waiting' = Waiting \cup {id}
  BY <1>2, <1>3 DEF Waiting
<1>5. id \notin Waiting /\ \A i \in 1..Len(results) : results[i].id \in Waiting
  BY <1>2 DEF Placed, Waiting
<1>6. \A i, j \in DOMAIN results' : results'[i].id = results'[j].id => i = j
  <2> SUFFICES ASSUME NEW i \in DOMAIN results', NEW j \in DOMAIN results', results'[i].id = results'[j].id
               PROVE  i = j
    OBVIOUS
  <2>1. CASE i \in 1..Len(results) /\ j \in 1..Len(results)
    BY <1>2, <2>1 DEF Placed
  <2>2. CASE i = Len(results) + 1 \/ j = Len(results) + 1
    BY <1>2, <1>3, <1>5, <2>2
  <2> QED BY <1>2, <1>3, <2>1, <2>2
<1>7. /\ IsFiniteSet(DOMAIN pending') /\ Cardinality(DOMAIN pending) \in Nat
      /\ Cardinality(DOMAIN pending') = Cardinality(DOMAIN pending) - 1
  <2>1. IsFiniteSet(DOMAIN pending)
    BY DEF Placed
  <2>2. /\ IsFiniteSet(DOMAIN pending \ {id}) /\ Cardinality(DOMAIN pending) \in Nat
        /\ Cardinality(DOMAIN pending \ {id}) = Cardinality(DOMAIN pending) - 1
    BY ZenonT(60), <2>1, Removed
  <2> QED BY <1>1, <2>2
<1>8. Cardinality(DOMAIN pending') + Len(results') <= Capacity
  BY <1>2, <1>7, Numbers DEF Placed
<1> QED BY <1>1, <1>4, <1>5, <1>6, <1>7, <1>8 DEF Placed

\* Its port is unbound, those of the other queries stay.
LEMMA FinishPorts ==
    ASSUME PortsOwned, NEW id \in DOMAIN pending, pending' = Without(pending, id),
           bound' = Release(pending[id])
    PROVE  PortsOwned'
<1>1. DOMAIN pending' = DOMAIN pending \ {id} /\ \A k \in DOMAIN pending' : pending'[k] = pending[k]
  BY DEF Without, Restrict
<1>2. bound' = bound \ {pending[id].token}
  BY DEF Release
<1>3. {pending'[k].token : k \in DOMAIN pending'} \ {NoToken} = bound'
  BY <1>1, <1>2 DEF PortsOwned
<1> QED BY <1>1, <1>3 DEF PortsOwned

\* finish, for a query in progress.
LEMMA FinishSound ==
    ASSUME Counting, WellOrdered, IInv, NEW id \in DOMAIN pending, NEW result \in Outcomes, NEW ttl,
           result.asked = generation, Kept(result, ttl), Finish(id, result, ttl),
           net' \subseteq net, todo' \subseteq DOMAIN pending \ {id},
           at' \in {"idle", "receive", "events", "ids"}, at' # "ids" => todo' = {},
           UNCHANGED <<generation, nextId, taken>>
    PROVE  IInv'
<1> DEFINE q == pending[id]
           c == Completion(id, q.name, FALSE, result)
<1>1. /\ pending' = Without(pending, id) /\ bound' = Release(q)
      /\ cache' = Remember(q.name, result, ttl) /\ results' = Append(results, c)
      /\ generation' = generation /\ nextId' = nextId /\ taken' = taken
  BY DEF Finish
<1>2. /\ Typed /\ Placed /\ PortsOwned /\ NetCurrent /\ Cached /\ Delivered
      /\ Sound(q) /\ q.name \in Names /\ generation \in Nat /\ id \in Nat
  <2>1. Typed /\ Placed /\ PortsOwned /\ NetCurrent /\ Cached /\ Delivered
    BY DEF IInv
  <2>2. Sound(q) /\ generation \in Nat
    BY <2>1, Numbers DEF Typed
  <2>3. q.name \in Names
    BY <2>2 DEF Sound, Lookups
  <2>4. id \in 1..(nextId - 1)
    BY <2>1 DEF Placed
  <2> QED BY <2>1, <2>2, <2>3, <2>4
<1>3. c \in Completions /\ c.id = id /\ c.result.asked = c.generation
  BY <1>2 DEF Completion, Completions
<1> HIDE DEF c, q
<1>4. DOMAIN pending' = DOMAIN pending \ {id} /\ \A k \in DOMAIN pending' : pending'[k] = pending[k]
  BY <1>1 DEF Without, Restrict
<1>5. Typed'
  <2>1. results' \in Seq(Completions)
    BY <1>1, <1>2, <1>3 DEF Typed
  <2> QED BY <1>1, <1>2, <1>4, <2>1 DEF Typed
<1>6. Placed'
  BY <1>1, <1>2, <1>3, FinishPlaced
<1>7. PortsOwned'
  BY <1>1, <1>2, FinishPorts DEF q
<1>8. NetCurrent'
  BY <1>1, <1>2, <1>4 DEF NetCurrent
<1>9. Cached'
  BY ZenonT(60), <1>1, <1>2, RememberSound
<1>10. Delivered'
  BY <1>1, <1>2, <1>3 DEF Delivered, Typed
<1> QED BY <1>5, <1>6, <1>7, <1>8, <1>9, <1>10 DEF IInv

\* finish with an outcome that is not an answer.
LEMMA ErrorSound ==
    ASSUME Counting, WellOrdered, IInv, NEW id \in DOMAIN pending, NEW kind \in Kinds,
           Finish(id, Error(kind), NoTime), net' \subseteq net, todo' \subseteq DOMAIN pending \ {id},
           at' \in {"idle", "receive", "events", "ids"}, at' # "ids" => todo' = {},
           UNCHANGED <<generation, nextId, taken>>
    PROVE  IInv'
<1>1. generation \in Nat
  BY Numbers DEF IInv, Typed
<1>2. Error(kind) \in Outcomes /\ Error(kind).asked = generation
  BY <1>1 DEF Error, Outcomes
<1>3. Kept(Error(kind), NoTime)
  BY ZenonT(60) DEF Kept
<1> QED BY ZenonT(60), <1>2, <1>3, FinishSound

\* A step of a call that leaves every lookup alone.
LEMMA CallSound ==
    ASSUME IInv, UNCHANGED <<pending, results, cache, bound, generation, nextId, taken>>,
           net' \subseteq net, todo' \subseteq DOMAIN pending,
           at' \in {"idle", "receive", "events", "ids"}, at' # "ids" => todo' = {}
    PROVE  IInv'
<1>1. Typed' /\ NetCurrent'
  BY DEF IInv, Typed, NetCurrent
<1>2. Placed' /\ PortsOwned'
  BY DEF IInv, Placed, PortsOwned, Waiting
<1>3. Cached' /\ Delivered'
  BY DEF IInv, Cached, Delivered
<1> QED BY <1>1, <1>2, <1>3 DEF IInv

\* One lookup changes, its port does not.
LEMMA UpdateSound ==
    ASSUME IInv, NEW id \in DOMAIN pending, NEW q, Sound(q), q.token = pending[id].token,
           q.asked => pending[id].asked, Update(id, q), UNCHANGED <<generation, nextId, taken>>,
           net' \subseteq net, todo' \subseteq DOMAIN pending,
           at' \in {"idle", "receive", "events", "ids"}, at' # "ids" => todo' = {}
    PROVE  IInv'
<1>1. /\ DOMAIN pending' = DOMAIN pending /\ pending'[id] = q
      /\ \A k \in DOMAIN pending : k # id => pending'[k] = pending[k]
      /\ results' = results /\ cache' = cache /\ bound' = bound /\ generation' = generation
      /\ nextId' = nextId /\ taken' = taken
  BY DEF Update
<1>2. \A k \in DOMAIN pending : /\ pending'[k].token = pending[k].token
                                /\ pending'[k].asked => pending[k].asked
  BY <1>1
<1>3. Typed'
  BY <1>1 DEF IInv, Typed
<1>4. Placed'
  BY <1>1 DEF IInv, Placed, Waiting
<1>5. PortsOwned'
  BY <1>1, <1>2 DEF IInv, PortsOwned
<1>6. NetCurrent'
  BY <1>1, <1>2 DEF IInv, NetCurrent
<1>7. Cached' /\ Delivered'
  BY <1>1 DEF IInv, Cached, Delivered
<1> QED BY <1>3, <1>4, <1>5, <1>6, <1>7 DEF IInv

\* The timeouts of attempts exist and are positive: induction over the
\* attempts, as a set of numbers.
Doubling(f, k) == IF k = 0 THEN 1 ELSE 2 * f[k - 1]

\* A table of the first n powers.
LEMMA ShiftTyped ==
    ASSUME WellOrdered, NEW k \in 0..AttemptsPerName
    PROVE  Shift[k] \in Nat
<1> DEFINE N == AttemptsPerName
           G == {n \in Nat : \E f : f = [i \in 0..n |-> Doubling(f, i)]}
           B == Nat \ G
<1>1. 0 \in G
  <2> DEFINE f == [i \in 0..0 |-> 1]
  <2>1. f = [i \in 0..0 |-> Doubling(f, i)]
    BY DEF Doubling
  <2> HIDE DEF f
  <2> QED BY <2>1
<1>2. ASSUME NEW n \in Nat, n \in G PROVE n + 1 \in G
  <2>1. PICK f : f = [i \in 0..n |-> Doubling(f, i)]
    BY <1>2
  <2> DEFINE g == [i \in 0..(n + 1) |-> Doubling(f, i)]
  <2>2. \A i \in 0..n : g[i] = f[i]
    <3>1. \A i \in 0..n : i \in 0..(n + 1)
      OBVIOUS
    <3>2. \A i \in 0..n : f[i] = Doubling(f, i)
      BY <2>1, ZenonT(60)
    <3> QED BY <3>1, <3>2
  <2>3. \A i \in 0..(n + 1) : Doubling(f, i) = Doubling(g, i)
    <3>1. \A i \in 0..(n + 1) : i # 0 => i - 1 \in 0..n
      OBVIOUS
    <3>2. \A i \in 0..(n + 1) : i # 0 => f[i - 1] = g[i - 1]
      BY ZenonT(60), <2>2, <3>1
    <3> HIDE DEF g
    <3> QED BY <3>2 DEF Doubling
  <2>4. g = [i \in 0..(n + 1) |-> Doubling(g, i)]
    BY <2>3, ZenonT(60)
  <2> HIDE DEF g
  <2> QED BY <2>4
<1> HIDE DEF G
<1>3. B = {}
  <2> SUFFICES ASSUME B # {} PROVE FALSE
    OBVIOUS
  <2>1. PICK n \in B : \A m \in B : n <= m
    BY ZenonT(60) DEF WellOrdered
  <2>2. n # 0 /\ n - 1 \in Nat /\ n - 1 \notin B
    BY <1>1, <2>1
  <2> QED BY <1>2, <2>1, <2>2
<1>4. N \in G /\ N \in Nat
  BY <1>3, Numbers
<1>5. Shift = [i \in 0..N |-> Doubling(Shift, i)]
  <2>1. \E f : f = [i \in 0..N |-> Doubling(f, i)]
    BY <1>4 DEF G
  <2> QED BY ZenonT(60), <2>1 DEF Shift, Doubling
<1> HIDE DEF N
<1>6. \A i \in 0..N : Shift[i] = Doubling(Shift, i)
  BY ZenonT(60), <1>5
<1> DEFINE C == {i \in 0..N : Shift[i] \notin Nat}
<1>7. C = {}
  <2> SUFFICES ASSUME C # {} PROVE FALSE
    OBVIOUS
  <2>0. C \subseteq Nat
    OBVIOUS
  <2>1. PICK n \in C : \A m \in C : n <= m
    BY ZenonT(60), <2>0 DEF WellOrdered
  <2>2. n # 0
    BY <1>6, <2>1 DEF Doubling
  <2>3. n - 1 \in 0..N /\ Shift[n - 1] \in Nat
    BY <1>4, <2>1, <2>2
  <2>4. Shift[n] = 2 * Shift[n - 1]
    BY <1>6, <2>1, <2>2 DEF Doubling
  <2> QED BY <2>1, <2>3, <2>4
<1> QED BY <1>7 DEF N

\* An attempt gives up the last port and may bind another, which nobody has.
LEMMA AttemptPorts ==
    ASSUME PortsOwned, NEW id \in DOMAIN pending, NEW n, n.token \notin Release(pending[id]),
           pending' = [pending EXCEPT ![id] = n],
           bound' = Release(pending[id]) \cup ({n.token} \ {NoToken})
    PROVE  PortsOwned'
<1>1. /\ DOMAIN pending' = DOMAIN pending /\ pending'[id] = n
      /\ \A k \in DOMAIN pending : k # id => pending'[k] = pending[k]
  OBVIOUS
<1>2. Release(pending[id]) = bound \ {pending[id].token}
  BY DEF Release
<1>3. \A k \in DOMAIN pending \ {id} : pending[k].token = NoToken \/ pending[k].token \in Release(pending[id])
  BY <1>2 DEF PortsOwned
<1>4. bound' = {pending'[k].token : k \in DOMAIN pending'} \ {NoToken}
  <2>1. ASSUME NEW t \in bound' PROVE t # NoToken /\ \E k \in DOMAIN pending' : t = pending'[k].token
    <3>1. CASE t = n.token /\ t # NoToken
      BY <1>1, <3>1
    <3>2. CASE t \in bound /\ t # pending[id].token
      <4>1. PICK k \in DOMAIN pending : t = pending[k].token /\ t # NoToken
        BY <3>2 DEF PortsOwned
      <4> QED BY <1>1, <3>2, <4>1
    <3> QED BY <1>2, <3>1, <3>2
  <2>2. ASSUME NEW k \in DOMAIN pending', pending'[k].token # NoToken PROVE pending'[k].token \in bound'
    BY <1>1, <1>3, <2>2
  <2> QED BY <2>1, <2>2
<1>5. \A i, j \in DOMAIN pending' :
         i # j /\ pending'[i].token = pending'[j].token => pending'[i].token = NoToken
  BY <1>1, <1>3 DEF PortsOwned
<1> QED BY <1>4, <1>5 DEF PortsOwned

\* attempt, for a lookup that is due.
LEMMA AttemptSound ==
    ASSUME Counting, WellOrdered, IInv, NEW id \in todo, ~Expired(pending[id]), pending[id].next = 0,
           Attempt(id), todo' = todo \ {id}, at = "ids", UNCHANGED <<generation, nextId, taken, at>>
    PROVE  IInv'
<1> DEFINE q == pending[id]
<1>1. /\ Typed /\ Placed /\ PortsOwned /\ NetCurrent /\ Cached /\ Delivered
      /\ id \in DOMAIN pending /\ Sound(q) /\ generation \in Nat
  BY Numbers DEF IInv, Typed
<1>2. /\ q \in Lookups /\ q.attempts \in 0..(AttemptsPerName - 1) /\ q.deadline \in 0..LookupTimeout
      /\ q.token \in Tokens \cup {NoToken}
  <2>1. q \in Lookups
    BY <1>1 DEF Sound
  <2>2. q.attempts \in 0..AttemptsPerName /\ q.deadline \in 0..LookupTimeout /\ q.token \in Tokens \cup {NoToken}
    BY <2>1 DEF Lookups
  <2> QED BY <2>1, <2>2, Numbers DEF Expired
<1>3. todo' \subseteq DOMAIN pending /\ at' = "ids" /\ todo' \subseteq DOMAIN pending \ {id}
  BY <1>1 DEF Typed
<1>4. ASSUME NEW n, Sound(n), pending' = [pending EXCEPT ![id] = n], n.token \notin Release(q),
             bound' = Release(q) \cup ({n.token} \ {NoToken}), UNCHANGED <<results, cache>>,
             net' \subseteq Datagrams, NetCurrent'
      PROVE  IInv'
  <2>1. /\ DOMAIN pending' = DOMAIN pending /\ pending'[id] = n
        /\ \A k \in DOMAIN pending : k # id => pending'[k] = pending[k]
    BY <1>1, <1>4
  <2>2. Typed'
    BY <1>1, <1>3, <1>4, <2>1 DEF Typed
  <2>3. Placed'
    BY <1>1, <1>4, <2>1 DEF Placed, Waiting
  <2>4. PortsOwned'
    BY ZenonT(60), <1>1, <1>4, AttemptPorts
  <2>5. Cached' /\ Delivered'
    BY <1>1, <1>4 DEF Cached, Delivered
  <2> QED BY <1>4, <2>2, <2>3, <2>4, <2>5 DEF IInv
<1>5. ASSUME NEW t \in (Tokens \ Release(q)) \ {r.token : r \in net},
             bound' = Release(q) \cup {t},
             pending' = [pending EXCEPT ![id] =
                 [q EXCEPT !.token = t, !.asked = TRUE, !.server = q.attempts % NumServers,
                           !.attempts = @ + 1,
                           !.next = Least(AttemptTimeout * Shift[q.attempts], q.deadline)]],
             net' = net \cup {[token |-> t, server |-> q.attempts % NumServers, generation |-> generation]},
             UNCHANGED <<results, cache>>
      PROVE  IInv'
  <2> DEFINE server == q.attempts % NumServers
             n == [q EXCEPT !.token = t, !.asked = TRUE, !.server = server, !.attempts = @ + 1,
                            !.next = Least(AttemptTimeout * Shift[q.attempts], q.deadline)]
             r == [token |-> t, server |-> server, generation |-> generation]
  <2>1. server \in 0..(NumServers - 1)
    BY <1>2, Numbers
  <2>2. Least(AttemptTimeout * Shift[q.attempts], q.deadline) \in 0..LookupTimeout
    <3>1. Shift[q.attempts] \in Nat
      BY <1>2, ShiftTyped, Numbers
    <3> DEFINE x == AttemptTimeout * Shift[q.attempts]
    <3>2. x \in Nat
      BY <3>1, Numbers
    <3> HIDE DEF q, x
    <3>3. Least(x, q.deadline) \in 0..LookupTimeout
      <4>1. q.deadline \in 0..LookupTimeout /\ LookupTimeout \in Nat
        BY <1>2, Numbers
      <4> QED BY <3>2, <4>1 DEF Least
    <3> QED BY <3>3 DEF x
  <2>3. Sound(n)
    <3>0. q.attempts + 1 \in 0..AttemptsPerName /\ t \in Tokens \cup {NoToken} /\ TRUE \in BOOLEAN
      BY <1>2, Numbers
    <3> HIDE DEF q, server
    <3>1. n \in Lookups
      BY ZenonT(60), <1>2, <2>1, <2>2, <3>0 DEF Lookups
    <3>2. n.chain = q.chain /\ n.truth = q.truth /\ n.name = q.name /\ n.question = q.question /\ n.aliases = q.aliases
      BY <1>2 DEF Lookups
    <3> HIDE DEF n
    <3> QED BY <1>1, <3>1, <3>2 DEF Sound
  <2>4. n.token = t /\ t # NoToken
    BY <1>2, Numbers DEF Lookups
  <2>5. pending' = [pending EXCEPT ![id] = n] /\ net' = net \cup {r}
    BY <1>5
  <2>6. r \in Datagrams /\ r.token = t /\ r.generation = generation
    BY <1>1, <2>1 DEF Datagrams
  <2>7. bound' = Release(q) \cup ({n.token} \ {NoToken}) /\ n.token \notin Release(q)
    BY <1>5, <2>4
  <2> HIDE DEF n, r, server
  <2>8. NetCurrent'
    <3> SUFFICES ASSUME NEW k \in DOMAIN pending', NEW s \in net',
                        pending'[k].asked, s.token = pending'[k].token
                 PROVE  s.generation = generation'
      BY DEF NetCurrent
    <3>1. DOMAIN pending' = DOMAIN pending /\ pending'[id] = n /\ (k # id => pending'[k] = pending[k])
      BY <1>1, <2>5
    <3>2. CASE s = r
      BY <2>6, <3>2
    <3>3. CASE s \in net /\ k = id
      BY <1>5, <2>4, <3>1, <3>3
    <3>4. CASE s \in net /\ k # id
      BY <1>1, <3>1, <3>4 DEF NetCurrent
    <3> QED BY <2>5, <3>2, <3>3, <3>4
  <2> QED BY ZenonT(60), <1>1, <1>4, <1>5, <2>3, <2>5, <2>6, <2>7, <2>8 DEF Typed
<1>6. ASSUME bound' = Release(q),
             pending' = [pending EXCEPT ![id] = [[q EXCEPT !.token = NoToken, !.asked = FALSE] EXCEPT !.next = 1]],
             UNCHANGED <<results, cache, net>>
      PROVE  IInv'
  <2> DEFINE closed == [q EXCEPT !.token = NoToken, !.asked = FALSE]
             n == [closed EXCEPT !.next = 1]
  <2>1. Sound(n) /\ n.token = NoToken /\ n.asked = FALSE
    <3> HIDE DEF q
    <3>0. NoToken \in Tokens \cup {NoToken} /\ FALSE \in BOOLEAN /\ 1 \in 0..LookupTimeout
      BY Numbers
    <3>1. closed \in Lookups /\ closed.token = NoToken /\ closed.asked = FALSE
      BY ZenonT(60), <1>2, <3>0 DEF Lookups
    <3>2. /\ closed.chain = q.chain /\ closed.truth = q.truth /\ closed.name = q.name
          /\ closed.question = q.question /\ closed.aliases = q.aliases
      BY <1>2 DEF Lookups
    <3> HIDE DEF closed
    <3>3. n \in Lookups /\ n.token = NoToken /\ n.asked = FALSE
      BY ZenonT(60), <3>0, <3>1 DEF Lookups
    <3>4. /\ n.chain = closed.chain /\ n.truth = closed.truth /\ n.name = closed.name
          /\ n.question = closed.question /\ n.aliases = closed.aliases
      BY <3>1 DEF Lookups
    <3> HIDE DEF n
    <3> QED BY <1>1, <3>2, <3>3, <3>4 DEF Sound
  <2>2. pending' = [pending EXCEPT ![id] = n]
    BY ZenonT(60), <1>6 DEF n, closed
  <2> HIDE DEF n
  <2>3. n.token \notin Release(q) /\ bound' = Release(q) \cup ({n.token} \ {NoToken})
    BY <1>1, <1>6, <2>1 DEF Release, PortsOwned
  <2>4. NetCurrent'
    BY <1>1, <1>6, <2>1, <2>2 DEF NetCurrent
  <2>5. net' \subseteq Datagrams
    BY <1>1, <1>6 DEF Typed
  <2> QED BY ZenonT(60), <1>4, <1>6, <2>1, <2>2, <2>3, <2>4, <2>5
<1>7. ASSUME Finish(id, Error("Local"), NoTime), net' = net
      PROVE  IInv'
  <2>1. /\ "Local" \in Kinds /\ net' \subseteq net
        /\ at' \in {"idle", "receive", "events", "ids"} /\ (at' # "ids" => todo' = {})
    BY <1>3, <1>7 DEF Kinds
  <2> QED BY ZenonT(60), <1>1, <1>3, <1>7, <2>1, ErrorSound
<1> QED BY ZenonT(60), <1>5, <1>6, <1>7 DEF Attempt

-----------------------------------------------------------------------------
(* The calls of the application *)

\* A completion with a new identifier joins those waiting.
LEMMA Appended ==
    ASSUME Typed, Placed, NEW c \in Completions, c.id \notin Waiting, results' = Append(results, c)
    PROVE  /\ results' \in Seq(Completions) /\ Waiting' = Waiting \cup {c.id}
           /\ Len(results) \in Nat /\ Len(results') = Len(results) + 1
           /\ \A i, j \in DOMAIN results' : results'[i].id = results'[j].id => i = j
<1>1. /\ results \in Seq(Completions) /\ DOMAIN results = 1..Len(results) /\ Len(results) \in Nat
      /\ results' \in Seq(Completions)
      /\ DOMAIN results' = 1..(Len(results) + 1) /\ Len(results') = Len(results) + 1
      /\ results'[Len(results) + 1] = c /\ \A i \in 1..Len(results) : results'[i] = results[i]
  BY DEF Typed
<1>2. /\ 1..(Len(results) + 1) = 1..Len(results) \cup {Len(results) + 1}
      /\ Len(results) + 1 \notin 1..Len(results)
  BY <1>1
<1>3. Waiting' = Waiting \cup {c.id}
  BY <1>1, <1>2 DEF Waiting
<1>4. \A i \in 1..Len(results) : results[i].id \in Waiting
  BY <1>1 DEF Waiting
<1>5. \A i, j \in DOMAIN results' : results'[i].id = results'[j].id => i = j
  <2> SUFFICES ASSUME NEW i \in DOMAIN results', NEW j \in DOMAIN results',
                      results'[i].id = results'[j].id
               PROVE  i = j
    OBVIOUS
  <2>1. CASE i \in 1..Len(results) /\ j \in 1..Len(results)
    BY <1>1, <2>1 DEF Placed
  <2>2. CASE i = Len(results) + 1 \/ j = Len(results) + 1
    BY <1>1, <1>2, <1>4, <2>2
  <2> QED BY <1>1, <1>2, <2>1, <2>2
<1> QED BY <1>1, <1>3, <1>5

\* resolve, from the cache or with a new lookup.
LEMMA ResolveSound ==
    ASSUME Counting, IInv, NEW name \in Names, Resolve(name)
    PROVE  IInv'
<1>1. /\ Typed /\ Placed /\ PortsOwned /\ NetCurrent /\ Cached /\ Delivered
      /\ nextId \in Nat /\ nextId > 0 /\ generation \in Nat /\ Capacity \in Nat
      /\ Len(results) \in Nat /\ IsFiniteSet(DOMAIN pending)
  BY Numbers DEF IInv, Typed, Placed
<1>2. /\ nextId' = nextId + 1 /\ UNCHANGED <<cache, bound, net, generation, taken, at, todo>>
      /\ Cardinality(DOMAIN pending) + Len(results) < Capacity
  BY DEF Resolve, Room
<1>3. /\ 1..(nextId' - 1) = 1..(nextId - 1) \cup {nextId} /\ nextId \notin 1..(nextId - 1)
  BY <1>1, <1>2
<1>4. nextId \notin DOMAIN pending /\ nextId \notin Waiting /\ nextId \notin taken
  BY <1>1, <1>3 DEF Placed
<1>5. Cached'
  BY <1>1, <1>2 DEF Cached
<1>6. CASE name \in DOMAIN cache /\ cache[name].left > 0
  <2> DEFINE c == Completion(nextId, name, TRUE, cache[name].result)
  <2>1. results' = Append(results, c) /\ pending' = pending
    BY ZenonT(60), <1>6 DEF Resolve
  <2>2. c \in Completions /\ c.id = nextId /\ c.result.asked = c.generation
    <3>1. cache[name].result \in Outcomes /\ cache[name].result.asked = generation
      BY <1>1, <1>6 DEF Cached, Entries, Outcomes, Kinds
    <3> QED BY <1>1, <3>1 DEF Completion, Completions
  <2> HIDE DEF c
  <2>3. /\ results' \in Seq(Completions) /\ Waiting' = Waiting \cup {nextId}
        /\ Len(results') = Len(results) + 1
        /\ \A i, j \in DOMAIN results' : results'[i].id = results'[j].id => i = j
    BY <1>1, <1>4, <2>1, <2>2, Appended
  <2>4. Typed'
    BY <1>1, <1>2, <2>1, <2>3 DEF Typed
  <2>5. Placed'
    <3>1. Cardinality(DOMAIN pending) \in Nat
      BY <1>1 DEF Counting
    <3>2. Cardinality(DOMAIN pending') + Len(results') <= Capacity
      BY <1>1, <1>2, <2>1, <2>3, <3>1
    <3> QED BY <1>1, <1>2, <1>3, <1>4, <2>1, <2>3, <3>2 DEF Placed
  <2>6. PortsOwned' /\ NetCurrent'
    BY <1>1, <1>2, <2>1 DEF PortsOwned, NetCurrent
  <2>7. Delivered'
    BY <1>1, <2>1, <2>2 DEF Delivered, Typed
  <2> QED BY <1>5, <2>4, <2>5, <2>6, <2>7 DEF IInv
<1>7. CASE ~(name \in DOMAIN cache /\ cache[name].left > 0)
  <2> DEFINE q == Lookup(name)
  <2>1. results' = results /\ pending' = With(pending, nextId, q)
    BY ZenonT(60), <1>7 DEF Resolve
  <2>2. Sound(q) /\ q.token = NoToken /\ q.asked = FALSE
    BY Numbers DEF Sound, Lookups, Lookup, Times
  <2> HIDE DEF q
  <2>3. /\ DOMAIN pending' = DOMAIN pending \cup {nextId} /\ pending'[nextId] = q
        /\ \A k \in DOMAIN pending : pending'[k] = pending[k]
    BY <1>4, <2>1 DEF With
  <2>4. Typed'
    BY <1>1, <1>2, <2>1, <2>2, <2>3 DEF Typed
  <2>5. Placed'
    <3>1. /\ IsFiniteSet(DOMAIN pending \cup {nextId}) /\ Cardinality(DOMAIN pending) \in Nat
          /\ Cardinality(DOMAIN pending \cup {nextId}) = Cardinality(DOMAIN pending) + 1
      BY ZenonT(60), <1>1, <1>4, Added
    <3>2. Cardinality(DOMAIN pending') + Len(results') <= Capacity
      BY <1>1, <1>2, <2>1, <2>3, <3>1
    <3>3. Waiting' = Waiting
      BY <2>1 DEF Waiting
    <3> QED BY <1>1, <1>2, <1>3, <1>4, <2>1, <2>3, <3>1, <3>2, <3>3 DEF Placed
  <2>6. PortsOwned'
    BY <1>1, <1>2, <2>2, <2>3 DEF PortsOwned
  <2>7. NetCurrent'
    <3>1. net' = net /\ generation' = generation
      BY <1>2
    <3>2. ASSUME NEW k \in DOMAIN pending', pending'[k].asked
          PROVE  k \in DOMAIN pending /\ pending'[k] = pending[k]
      BY <2>2, <2>3, <3>2
    <3>3. NetCurrent
      BY <1>1
    <3> QED BY <3>1, <3>2, <3>3 DEF NetCurrent
  <2>8. Delivered'
    BY <1>1, <2>1 DEF Delivered
  <2> QED BY <1>5, <2>4, <2>5, <2>6, <2>7, <2>8 DEF IInv
<1> QED BY <1>6, <1>7

\* pop_result: the oldest completion is taken, once.
LEMMA PopSound ==
    ASSUME Counting, IInv, PopResult
    PROVE  IInv'
<1>1. /\ Typed /\ Placed /\ PortsOwned /\ NetCurrent /\ Cached /\ Delivered
      /\ results \in Seq(Completions) /\ results # <<>>
  BY DEF IInv, Typed, PopResult
<1>2. /\ results' = Tail(results) /\ taken' = taken \cup {Head(results).id}
      /\ UNCHANGED <<pending, cache, bound, net, generation, nextId, at, todo>>
  BY DEF PopResult
<1>3. /\ Len(results) \in Nat /\ Len(results) > 0 /\ DOMAIN results = 1..Len(results)
      /\ results' \in Seq(Completions) /\ Len(results') = Len(results) - 1
      /\ DOMAIN results' = 1..(Len(results) - 1) /\ Head(results) = results[1]
      /\ \A i \in 1..(Len(results) - 1) : results'[i] = results[i + 1]
  BY <1>1, <1>2
<1> DEFINE id == Head(results).id
<1>4. \A i \in DOMAIN results' : i + 1 \in DOMAIN results /\ results'[i] = results[i + 1]
  BY <1>3
<1>5. \A i \in DOMAIN results : i = 1 \/ (i - 1 \in DOMAIN results' /\ results[i] = results'[i - 1])
  BY <1>3
<1>6. 1 \in DOMAIN results /\ results[1].id = id /\ \A i \in DOMAIN results : results[i].id = id => i = 1
  BY <1>1, <1>3 DEF Placed
<1>7. Waiting' = Waiting \ {id}
  <2>1. ASSUME NEW x \in Waiting' PROVE x \in Waiting /\ x # id
    <3>1. PICK i \in DOMAIN results' : x = results'[i].id BY DEF Waiting
    <3>2. i + 1 \in DOMAIN results /\ x = results[i + 1].id /\ i + 1 # 1 BY <1>3, <1>4, <3>1
    <3> QED BY <1>6, <3>2 DEF Waiting
  <2>2. ASSUME NEW x \in Waiting, x # id PROVE x \in Waiting'
    <3>1. PICK i \in DOMAIN results : x = results[i].id BY DEF Waiting
    <3>2. i # 1 BY <1>6, <2>2, <3>1
    <3>3. i - 1 \in DOMAIN results' /\ x = results'[i - 1].id BY <1>5, <3>1, <3>2
    <3> QED BY <3>3 DEF Waiting
  <2> QED BY <2>1, <2>2
<1>8. id \in Waiting BY <1>6 DEF Waiting
<1>9. \A i, j \in DOMAIN results' : results'[i].id = results'[j].id => i = j
  <2> SUFFICES ASSUME NEW i \in DOMAIN results', NEW j \in DOMAIN results', results'[i].id = results'[j].id
               PROVE  i = j
    OBVIOUS
  <2>1. i + 1 = j + 1 BY <1>1, <1>4 DEF Placed
  <2> QED BY <1>3, <2>1
<1> HIDE DEF id
<1>10. Placed'
  <2>1. Cardinality(DOMAIN pending) \in Nat /\ Capacity \in Nat
    BY <1>1, Numbers DEF Counting, Placed
  <2>2. Cardinality(DOMAIN pending') + Len(results') <= Capacity
    BY <1>1, <1>2, <1>3, <2>1 DEF Placed
  <2> QED BY <1>1, <1>2, <1>7, <1>8, <1>9, <2>2 DEF Placed, id
<1>11. Typed' BY <1>1, <1>2, <1>3 DEF Typed
<1>12. PortsOwned' /\ NetCurrent' BY <1>1, <1>2 DEF PortsOwned, NetCurrent
<1>13. Cached' BY <1>1, <1>2 DEF Cached
<1>14. Delivered' BY <1>1, <1>4 DEF Delivered
<1> QED BY <1>10, <1>11, <1>12, <1>13, <1>14 DEF IInv

\* cancel.
LEMMA CancelSound ==
    ASSUME Counting, WellOrdered, IInv, NEW id \in DOMAIN pending, Cancel(id)
    PROVE  IInv'
<1>1. /\ Finish(id, Error("Cancelled"), NoTime) /\ at = "idle"
      /\ UNCHANGED <<net, generation, nextId, taken, at, todo>>
  BY DEF Cancel
<1>2. /\ "Cancelled" \in Kinds /\ net' \subseteq net /\ todo' = {} /\ todo' \subseteq DOMAIN pending \ {id}
      /\ at' \in {"idle", "receive", "events", "ids"} /\ (at' # "ids" => todo' = {})
  BY <1>1 DEF Kinds, IInv, Typed
<1> QED BY ZenonT(60), <1>1, <1>2, ErrorSound

\* The lookups in progress, from the oldest to the newest, are all of them.
LEMMA OrderComplete ==
    ASSUME Counting, Enumerating, Typed, Placed, NEW ids \in Orders
    PROVE  LET count == Cardinality(DOMAIN pending) IN
           /\ count \in Nat /\ ids \in [1..count -> DOMAIN pending]
           /\ \A i, j \in 1..count : ids[i] = ids[j] => i = j
           /\ \A id \in DOMAIN pending : \E i \in 1..count : ids[i] = id
<1> DEFINE count == Cardinality(DOMAIN pending)
<1>1. IsFiniteSet(DOMAIN pending) /\ count \in Nat
  BY DEF Placed, Counting
<1>2. /\ ids \in [1..count -> DOMAIN pending] /\ DOMAIN ids = 1..count
      /\ \A i, j \in DOMAIN ids : i < j => ids[i] < ids[j]
  BY DEF Orders
<1>3. \A id \in DOMAIN pending : id \in Nat
  <2>1. DOMAIN pending \subseteq 1..(nextId - 1) /\ nextId \in Nat
    BY DEF Placed, Typed
  <2> QED BY <2>1
<1> HIDE DEF count
<1>4. \A i, j \in 1..count : ids[i] = ids[j] => i = j
  <2> SUFFICES ASSUME NEW i \in 1..count, NEW j \in 1..count, ids[i] = ids[j] PROVE i = j
    OBVIOUS
  <2>1. ids[i] \in Nat /\ ids[j] \in Nat
    BY <1>2, <1>3
  <2>2. ~(i < j) /\ ~(j < i)
    BY <1>2, <2>1
  <2> QED BY <1>1, <2>2
<1>5. \A id \in DOMAIN pending : \E i \in 1..count : ids[i] = id
  <2>1. ids \in [1..Cardinality(DOMAIN pending) -> DOMAIN pending]
    BY <1>2 DEF count
  <2>2. \A i, j \in 1..Cardinality(DOMAIN pending) : ids[i] = ids[j] => i = j
    BY <1>4 DEF count
  <2>3. \A id \in DOMAIN pending : \E i \in 1..Cardinality(DOMAIN pending) : ids[i] = id
    BY ZenonT(60), <1>1, <2>1, <2>2 DEF Enumerating
  <2> QED BY <2>3 DEF count
<1> QED BY <1>1, <1>2, <1>4, <1>5 DEF count

\* invalidate: every lookup in progress completes, once, in the old generation.
LEMMA InvalidateSound ==
    ASSUME Counting, Enumerating, IInv, Invalidate
    PROVE  IInv'
<1> DEFINE D == DOMAIN pending
           C == Cardinality(D)
           n == Len(results)
<1>1. /\ Typed /\ Placed /\ PortsOwned /\ NetCurrent /\ Cached /\ Delivered
      /\ results \in Seq(Completions) /\ n \in Nat /\ generation \in Nat
      /\ generation + 1 \in 0..MaxGeneration /\ DOMAIN results = 1..n
  BY Numbers DEF IInv, Typed, Invalidate
<1>2. /\ pending' = <<>> /\ bound' = bound \ {pending[id].token : id \in DOMAIN pending}
      /\ cache' = <<>> /\ generation' = generation + 1
      /\ UNCHANGED <<net, nextId, taken, at, todo>> /\ at = "idle"
  BY DEF Invalidate, CacheCleared
<1>3. PICK ids \in Orders : results' = results \o
         [i \in DOMAIN ids |-> Completion(ids[i], pending[ids[i]].name, FALSE, Error("NetworkChanged"))]
  BY ZenonT(60) DEF Invalidate
<1> DEFINE new == [i \in DOMAIN ids |->
                      Completion(ids[i], pending[ids[i]].name, FALSE, Error("NetworkChanged"))]
<1>4. /\ C \in Nat /\ ids \in [1..C -> D] /\ DOMAIN ids = 1..C
      /\ \A i, j \in 1..C : ids[i] = ids[j] => i = j
      /\ \A id \in D : \E i \in 1..C : ids[i] = id
  BY <1>1, OrderComplete
<1>5. ASSUME NEW i \in 1..C
      PROVE  new[i] \in Completions /\ new[i].id = ids[i] /\ new[i].result.asked = new[i].generation
  <2> DEFINE e == Error("NetworkChanged")
             name == pending[ids[i]].name
  <2>1. e \in Outcomes /\ e.asked = generation
    BY <1>1 DEF Error, Outcomes, Kinds
  <2>2. ids[i] \in D /\ ids[i] \in Nat
    <3>1. ids[i] \in D /\ D \subseteq 1..(nextId - 1)
      BY <1>1, <1>4 DEF Placed
    <3> QED BY <3>1
  <2>3. name \in Names
    BY <1>1, <2>2 DEF Typed, Sound, Lookups
  <2>4. new[i] = Completion(ids[i], name, FALSE, e)
    BY <1>4
  <2> HIDE DEF e, name, new
  <2> QED BY <1>1, <2>1, <2>2, <2>3, <2>4 DEF Completion, Completions
<1>6. new \in [1..C -> Completions]
  <2>1. DOMAIN new = 1..C /\ new = [i \in 1..C |-> new[i]]
    BY <1>4
  <2> HIDE DEF new
  <2> QED BY ZenonT(60), <1>5, <2>1
<1>7. results' = results \o new
  BY <1>3
<1> HIDE DEF new, C
<1>8. /\ results' \in Seq(Completions) /\ Len(results') = n + C /\ DOMAIN results' = 1..(n + C)
      /\ \A k \in 1..n : results'[k] = results[k]
      /\ \A k \in 1..C : results'[n + k] = new[k]
  <2>1. new \in Seq(Completions) /\ Len(new) = C
    BY <1>4, <1>6
  <2>2. results \in Seq(Completions)
    BY <1>1
  <2>3. /\ results \o new \in Seq(Completions) /\ Len(results \o new) = Len(results) + Len(new)
        /\ DOMAIN (results \o new) = 1..(Len(results) + Len(new))
        /\ \A k \in 1..Len(results) : (results \o new)[k] = results[k]
        /\ \A k \in 1..Len(new) : (results \o new)[Len(results) + k] = new[k]
    BY <2>1, <2>2
  <2> QED BY ZenonT(60), <1>7, <2>1, <2>3 DEF n
<1> HIDE DEF n
<1>9. ASSUME NEW k \in 1..(n + C) PROVE k \in 1..n \/ \E i \in 1..C : k = n + i
  <2>1. CASE k > n
    <3>1. k - n \in 1..C /\ k = n + (k - n) BY <1>1, <1>4, <2>1
    <3> QED BY <3>1
  <2> QED BY <1>1, <1>4, <2>1
<1>10. ASSUME NEW k \in 1..C PROVE n + k \in 1..(n + C) /\ results'[n + k].id = ids[k] /\ ids[k] \in D
  <2>1. n + k \in 1..(n + C)
    BY <1>1, <1>4
  <2> QED BY ZenonT(60), <1>4, <1>5, <1>8, <2>1
<1>11. ASSUME NEW k \in 1..n PROVE k \in 1..(n + C) /\ results'[k].id = results[k].id /\ results[k].id \in Waiting
  <2>1. k \in 1..(n + C)
    BY <1>1, <1>4
  <2>2. k \in DOMAIN results /\ results'[k] = results[k]
    BY <1>1, <1>8
  <2> QED BY <2>1, <2>2 DEF Waiting
<1>12. Waiting' = Waiting \cup D
  <2>1. ASSUME NEW x \in Waiting' PROVE x \in Waiting \cup D
    <3>1. PICK k \in 1..(n + C) : x = results'[k].id BY <1>8 DEF Waiting
    <3> QED BY <1>9, <1>10, <1>11, <3>1
  <2>2. ASSUME NEW x \in Waiting PROVE x \in Waiting'
    <3>1. PICK k \in 1..n : x = results[k].id BY <1>1 DEF Waiting
    <3> QED BY <1>8, <1>11, <3>1 DEF Waiting
  <2>3. ASSUME NEW x \in D PROVE x \in Waiting'
    <3>1. PICK i \in 1..C : ids[i] = x BY <1>4
    <3> QED BY <1>8, <1>10, <3>1 DEF Waiting
  <2> QED BY <2>1, <2>2, <2>3
<1>13. \A i, j \in DOMAIN results' : results'[i].id = results'[j].id => i = j
  <2> SUFFICES ASSUME NEW i \in 1..(n + C), NEW j \in 1..(n + C), results'[i].id = results'[j].id
               PROVE  i = j
    BY <1>8
  <2>0. \A x \in Waiting : x \notin D
    BY <1>1 DEF Placed
  <2>1. CASE i \in 1..n /\ j \in 1..n
    BY <1>1, <1>11, <2>1 DEF Placed
  <2>2. CASE i \in 1..n /\ \E k \in 1..C : j = n + k
    BY <1>10, <1>11, <2>0, <2>2
  <2>3. CASE j \in 1..n /\ \E k \in 1..C : i = n + k
    BY <1>10, <1>11, <2>0, <2>3
  <2>4. CASE (\E k \in 1..C : i = n + k) /\ \E k \in 1..C : j = n + k
    <3>1. PICK a \in 1..C : i = n + a BY <2>4
    <3>2. PICK b \in 1..C : j = n + b BY <2>4
    <3>3. ids[a] = ids[b] BY <1>10, <3>1, <3>2
    <3> QED BY <1>4, <3>1, <3>2, <3>3
  <2> QED BY <1>9, <2>1, <2>2, <2>3, <2>4
<1>14. DOMAIN pending' = {} /\ DOMAIN cache' = {}
  BY <1>2
<1>15. Typed'
  BY <1>1, <1>2, <1>8, <1>14 DEF Typed
<1>16. Placed'
  <2>1. IsFiniteSet({}) /\ Cardinality({}) = 0
    BY DEF Counting
  <2>2. Cardinality(DOMAIN pending') + Len(results') <= Capacity
    <3>1. C + n <= Capacity BY <1>1 DEF Placed, C, n
    <3> QED BY <1>1, <1>4, <1>8, <1>14, <2>1, <3>1
  <2> QED BY <1>1, <1>2, <1>12, <1>13, <1>14, <2>1, <2>2 DEF Placed
<1>17. PortsOwned' /\ NetCurrent'
  BY <1>1, <1>2, <1>14 DEF PortsOwned, NetCurrent
<1>18. Cached'
  <2>1. IsFiniteSet({}) /\ Cardinality({}) = 0 /\ CacheCapacity \in Nat
    BY Numbers DEF Counting
  <2> QED BY <1>14, <2>1 DEF Cached
<1>19. Delivered'
  <2> SUFFICES ASSUME NEW k \in 1..(n + C) PROVE results'[k].result.asked = results'[k].generation
    BY <1>8 DEF Delivered
  <2>1. CASE k \in 1..n
    BY <1>1, <1>8, <2>1 DEF Delivered
  <2>2. CASE \E i \in 1..C : k = n + i
    BY ZenonT(60), <1>5, <1>8, <2>2
  <2> QED BY <1>9, <2>1, <2>2
<1> QED BY <1>15, <1>16, <1>17, <1>18, <1>19 DEF IInv

-----------------------------------------------------------------------------
(* The stages of poll *)

\* A lookup ages.
LEMMA AgedSound ==
    ASSUME NEW q, Sound(q), NEW d \in Nat
    PROVE  Sound(Aged(q, d)) /\ Aged(q, d).token = q.token /\ Aged(q, d).asked = q.asked
<1> DEFINE a == Aged(q, d)
<1>1. /\ q \in Lookups /\ q.deadline \in 0..LookupTimeout /\ q.next \in 0..LookupTimeout
      /\ q.chain \in 0..MaxCacheTtl \cup {NoTime} /\ q.truth \in Nat \cup {NoTime}
      /\ {q.name, q.question} \subseteq q.aliases
      /\ q.chain = NoTime <=> q.truth = NoTime
      /\ q.chain # NoTime => q.chain <= q.truth
  BY DEF Sound, Lookups, Times
<1>2. Later(q.deadline, d) \in 0..LookupTimeout /\ Later(q.next, d) \in 0..LookupTimeout
  <2>1. q.deadline \in Nat /\ q.next \in Nat /\ LookupTimeout \in Nat
    BY <1>1, Numbers
  <2>2. Later(q.deadline, d) \in 0..q.deadline /\ Later(q.next, d) \in 0..q.next
    BY ZenonT(60), <2>1, LaterTyped
  <2> QED BY <1>1, <2>1, <2>2
<1>3. /\ Later(q.chain, d) \in 0..MaxCacheTtl \cup {NoTime} /\ Later(q.truth, d) \in Nat \cup {NoTime}
      /\ Later(q.chain, d) = NoTime <=> Later(q.truth, d) = NoTime
      /\ Later(q.chain, d) # NoTime => Later(q.chain, d) <= Later(q.truth, d)
  <2>1. CASE q.chain = NoTime
    BY <1>1, <2>1 DEF Later
  <2>2. CASE q.chain # NoTime
    <3>1. q.chain \in 0..MaxCacheTtl /\ q.chain \in Nat /\ q.truth \in Nat /\ q.chain <= q.truth
      BY <1>1, <2>2, Numbers
    <3>2. Later(q.chain, d) \in 0..q.chain /\ Later(q.chain, d) \in Nat /\ Later(q.truth, d) \in Nat
      BY ZenonT(60), <3>1, LaterTyped
    <3>3. Later(q.chain, d) <= Later(q.truth, d)
      BY ZenonT(60), <3>1, LaterOrder
    <3>4. Later(q.chain, d) # NoTime /\ Later(q.truth, d) # NoTime /\ MaxCacheTtl \in Nat
      BY <3>2, Numbers
    <3> QED BY <3>1, <3>2, <3>3, <3>4
  <2> QED BY <2>1, <2>2
<1>4. a \in Lookups
  BY ZenonT(60), <1>1, <1>2, <1>3 DEF Lookups, Times, Aged
<1>5. /\ a.name = q.name /\ a.question = q.question /\ a.aliases = q.aliases
      /\ a.chain = Later(q.chain, d) /\ a.truth = Later(q.truth, d)
      /\ a.token = q.token /\ a.asked = q.asked
  BY <1>1 DEF Lookups, Aged
<1> HIDE DEF a
<1>6. Sound(a) BY <1>1, <1>3, <1>4, <1>5 DEF Sound
<1> QED BY <1>5, <1>6 DEF a

\* So does a cached result.
LEMMA OlderHonest ==
    ASSUME NEW e \in Entries, NEW d \in Nat, e.left > d, e.left <= e.result.truth
    PROVE  /\ Older(e, d) \in Entries /\ Older(e, d).result.asked = e.result.asked
           /\ Older(e, d).left > 0 /\ Older(e, d).left <= Older(e, d).result.truth
<1>1. e.left \in Nat /\ e.result.truth \in Nat
  BY DEF Entries
<1>2. /\ Later(e.left, d) \in Nat /\ Later(e.left, d) > 0 /\ Later(e.result.truth, d) \in Nat
  BY ZenonT(60), <1>1, LaterTyped
<1>3. Later(e.left, d) <= Later(e.result.truth, d)
  BY ZenonT(60), <1>1, LaterOrder
<1>4. /\ Older(e, d) \in Entries /\ Older(e, d).result.asked = e.result.asked
      /\ Older(e, d).left = Later(e.left, d) /\ Older(e, d).result.truth = Later(e.result.truth, d)
  BY <1>2 DEF Entries, Older
<1> QED BY <1>2, <1>3, <1>4

\* poll starts: time passes for lookups and cache alike.
LEMMA PollSound ==
    ASSUME Counting, IInv, NEW elapsed \in Nat, Poll(elapsed)
    PROVE  IInv'
<1>1. /\ Typed /\ Placed /\ PortsOwned /\ NetCurrent /\ Cached /\ Delivered
      /\ at = "idle" /\ todo = {}
  BY DEF IInv, Typed, Poll
<1>2. /\ pending' = [id \in DOMAIN pending |-> Aged(pending[id], elapsed)]
      /\ cache' = [n \in {m \in DOMAIN cache : cache[m].left > elapsed} |-> Older(cache[n], elapsed)]
      /\ net' \subseteq net /\ at' \in {"idle", "receive"}
      /\ UNCHANGED <<results, bound, generation, nextId, taken, todo>>
  BY DEF Poll
<1>3. /\ DOMAIN pending' = DOMAIN pending
      /\ \A id \in DOMAIN pending : /\ Sound(pending'[id]) /\ pending'[id].token = pending[id].token
                                    /\ pending'[id].asked = pending[id].asked
  <2>1. DOMAIN pending' = DOMAIN pending BY <1>2
  <2>2. ASSUME NEW id \in DOMAIN pending
        PROVE  /\ Sound(pending'[id]) /\ pending'[id].token = pending[id].token
               /\ pending'[id].asked = pending[id].asked
    <3> DEFINE q == pending[id]
    <3>1. Sound(q) BY <1>1 DEF Typed
    <3>2. pending'[id] = Aged(q, elapsed)
      BY ZenonT(60), <1>2
    <3> HIDE DEF q
    <3> QED BY ZenonT(60), <3>1, <3>2, AgedSound DEF q
  <2> QED BY <2>1, <2>2
<1>4. Typed'
  BY <1>1, <1>2, <1>3 DEF Typed
<1>5. Placed'
  BY <1>1, <1>2, <1>3 DEF Placed, Waiting
<1>6. PortsOwned'
  BY <1>1, <1>2, <1>3 DEF PortsOwned
<1>7. NetCurrent'
  BY <1>1, <1>2, <1>3 DEF NetCurrent
<1>8. Cached'
  <2>1. DOMAIN cache' = {m \in DOMAIN cache : cache[m].left > elapsed}
    BY <1>2
  <2>2. ASSUME NEW n \in DOMAIN cache'
        PROVE  /\ cache'[n] \in Entries /\ cache'[n].result.asked = generation'
               /\ cache'[n].left > 0 /\ cache'[n].left <= cache'[n].result.truth
    <3> DEFINE e == cache[n]
    <3>1. /\ e \in Entries /\ e.result.asked = generation /\ e.left > elapsed /\ e.left <= e.result.truth
          /\ e.left \in Nat /\ e.result.truth \in Nat
      BY <1>1, <2>1 DEF Cached, Entries
    <3>2. cache'[n] = Older(e, elapsed)
      BY ZenonT(60), <1>2, <2>1
    <3> HIDE DEF e
    <3>3. /\ Older(e, elapsed) \in Entries /\ Older(e, elapsed).result.asked = e.result.asked
          /\ Older(e, elapsed).left > 0 /\ Older(e, elapsed).left <= Older(e, elapsed).result.truth
      BY ZenonT(60), <3>1, OlderHonest
    <3> QED BY <1>2, <3>1, <3>2, <3>3
  <2>3. IsFiniteSet(DOMAIN cache') /\ Cardinality(DOMAIN cache') <= CacheCapacity
    <3>1. /\ IsFiniteSet(DOMAIN cache) /\ DOMAIN cache' \subseteq DOMAIN cache
          /\ Cardinality(DOMAIN cache) <= CacheCapacity /\ CacheCapacity \in Nat
      BY <1>1, <2>1, Numbers DEF Cached
    <3>2. /\ IsFiniteSet(DOMAIN cache') /\ Cardinality(DOMAIN cache') <= Cardinality(DOMAIN cache)
          /\ Cardinality(DOMAIN cache) \in Nat
      BY ZenonT(60), <3>1 DEF Counting
    <3>3. Cardinality(DOMAIN cache') \in Nat
      BY ZenonT(60), <3>2 DEF Counting
    <3> QED BY <3>1, <3>2, <3>3
  <2> QED BY <1>1, <2>1, <2>2, <2>3 DEF Cached
<1>9. Delivered'
  BY <1>1, <1>2 DEF Delivered
<1> QED BY <1>4, <1>5, <1>6, <1>7, <1>8, <1>9 DEF IInv

\* What a response of each kind carries.
LEMMA AnswerFields ==
    ASSUME NEW a \in Answers
    PROVE  /\ a.kind \in {"addresses", "negative", "alias"} => a.ttl \in Nat
           /\ a.kind = "alias" => a.target \in Names /\ a.hops \in {0, 1}
<1>0. \A t \in Ttls : t \in Nat
  BY Numbers
<1>1. CASE a \in [kind : {"addresses", "negative"}, ttl : Ttls]
  <2>1. a.kind \in {"addresses", "negative"} /\ a.ttl \in Ttls
    BY <1>1
  <2> QED BY <1>0, <2>1
<1>2. CASE a \in [kind : {"alias"}, ttl : Ttls, target : Names, hops : {0, 1}]
  <2>1. a.target \in Names /\ a.hops \in {0, 1} /\ a.ttl \in Ttls
    BY <1>2
  <2> QED BY <1>0, <2>1
<1>3. CASE a \in [kind : {"unknown", "retry", "failure", "malformed"}]
  <2>1. a.kind \in {"unknown", "retry", "failure", "malformed"}
    BY <1>3
  <2> QED BY <2>1
<1> QED BY <1>1, <1>2, <1>3 DEF Answers

\* An alias that is followed keeps the lookup within its limits.
LEMMA FollowSound ==
    ASSUME NEW q, Sound(q), NEW a \in Answers, a.kind = "alias", ~(q.hops + a.hops > AliasLimit)
    PROVE  Sound(Follow(q, a)) /\ Follow(q, a).token = q.token /\ Follow(q, a).asked = FALSE
<1> DEFINE n == Follow(q, a)
<1>1. a.ttl \in Nat /\ a.target \in Names /\ a.hops \in {0, 1}
  BY AnswerFields
<1>2. /\ q \in Lookups /\ q.hops \in 0..(AliasLimit + 1) /\ q.aliases \in SUBSET Names
      /\ q.name \in q.aliases
  BY DEF Sound, Lookups
<1>3. q.hops + (IF a.hops = 0 THEN 1 ELSE a.hops) \in 0..(AliasLimit + 1)
  BY <1>1, <1>2, Numbers
<1>4. /\ Expiry(q, a.ttl) \in 0..MaxCacheTtl /\ Truth(q, a.ttl) \in Nat
      /\ Expiry(q, a.ttl) <= Truth(q, a.ttl)
  BY ZenonT(60), <1>1, ExpiryBounded
<1>5. /\ q.aliases \cup {a.target} \in SUBSET Names /\ Expiry(q, a.ttl) \in 0..MaxCacheTtl \cup {NoTime}
      /\ Truth(q, a.ttl) \in Nat \cup {NoTime} /\ 0 \in 0..AttemptsPerName /\ 0 \in 0..LookupTimeout
      /\ FALSE \in BOOLEAN /\ Expiry(q, a.ttl) # NoTime /\ Truth(q, a.ttl) # NoTime
  BY <1>1, <1>2, <1>4, Numbers
<1>6. n \in Lookups
  BY ZenonT(60), <1>1, <1>2, <1>3, <1>5 DEF Lookups, Times, Follow
<1>7. /\ n.name = q.name /\ n.question = a.target /\ n.aliases = q.aliases \cup {a.target}
      /\ n.chain = Expiry(q, a.ttl) /\ n.truth = Truth(q, a.ttl)
      /\ n.token = q.token /\ n.asked = FALSE
  BY ZenonT(60), <1>2 DEF Lookups, Follow
<1> HIDE DEF n
<1>8. Sound(n)
  BY <1>2, <1>4, <1>5, <1>6, <1>7 DEF Sound
<1> QED BY <1>7, <1>8 DEF n

\* A lookup that is to ask again at once.
LEMMA DueSound ==
    ASSUME NEW q, Sound(q)
    PROVE  /\ Sound([q EXCEPT !.next = 0, !.asked = FALSE])
           /\ [q EXCEPT !.next = 0, !.asked = FALSE].token = q.token
           /\ [q EXCEPT !.next = 0, !.asked = FALSE].asked = FALSE
           /\ Sound([q EXCEPT !.next = 0])
           /\ [q EXCEPT !.next = 0].token = q.token /\ [q EXCEPT !.next = 0].asked = q.asked
<1> DEFINE m == [q EXCEPT !.next = 0, !.asked = FALSE]
           n == [q EXCEPT !.next = 0]
<1>1. q \in Lookups /\ 0 \in 0..LookupTimeout /\ FALSE \in BOOLEAN
  BY Numbers DEF Sound
<1>2. m \in Lookups /\ n \in Lookups
  BY ZenonT(60), <1>1 DEF Lookups
<1>3. /\ m.name = q.name /\ m.question = q.question /\ m.aliases = q.aliases
      /\ m.chain = q.chain /\ m.truth = q.truth /\ m.token = q.token /\ m.asked = FALSE
  BY ZenonT(60), <1>1 DEF Lookups
<1>4. /\ n.name = q.name /\ n.question = q.question /\ n.aliases = q.aliases
      /\ n.chain = q.chain /\ n.truth = q.truth /\ n.token = q.token /\ n.asked = q.asked
  BY ZenonT(60), <1>1 DEF Lookups
<1> HIDE DEF m, n
<1>5. Sound(m) BY <1>2, <1>3 DEF Sound
<1>6. Sound(n) BY <1>2, <1>4 DEF Sound
<1> QED BY ZenonT(60), <1>3, <1>4, <1>5, <1>6 DEF m, n

\* A response that its query takes is of the present generation.
LEMMA AnsweredSound ==
    ASSUME Counting, WellOrdered, IInv, NEW id \in DOMAIN pending, NEW r \in net, NEW a \in Answers,
           Matches(pending[id], r), Answered(id, r, a), net' \subseteq net,
           at = "receive", UNCHANGED <<generation, nextId, taken, at, todo>>
    PROVE  IInv'
<1> DEFINE q == pending[id]
           result(ttl) == [kind |-> a.kind, asked |-> r.generation, truth |-> ttl]
<1>1. Sound(q) /\ generation \in Nat /\ todo = {} /\ q.asked /\ r.token = q.token
  BY Numbers DEF IInv, Typed, Matches
<1>2. r.generation = generation
  BY ZenonT(60), <1>1 DEF IInv, NetCurrent
<1>3. /\ todo' = {} /\ todo' \subseteq DOMAIN pending /\ todo' \subseteq DOMAIN pending \ {id}
      /\ at' \in {"idle", "receive", "events", "ids"} /\ (at' # "ids" => todo' = {})
      /\ UNCHANGED <<generation, nextId, taken>>
  BY <1>1
<1>4. /\ "AliasLimit" \in Kinds /\ "Failure" \in Kinds /\ "unknown" \in Kinds
      /\ "addresses" \in Kinds /\ "negative" \in Kinds
  BY DEF Kinds
<1>5. ASSUME a.kind \in {"addresses", "negative"}, Finish(id, result(Truth(q, a.ttl)), Expiry(q, a.ttl))
      PROVE  IInv'
  <2>1. a.ttl \in Nat
    BY <1>5, AnswerFields
  <2> DEFINE ttl == Expiry(q, a.ttl)
             truth == Truth(q, a.ttl)
  <2>2. ttl \in Nat /\ truth \in Nat /\ ttl <= truth
    <3>1. ttl \in 0..MaxCacheTtl /\ truth \in Nat /\ ttl <= truth
      BY ZenonT(60), <1>1, <2>1, ExpiryBounded
    <3> QED BY <3>1
  <2>3. Finish(id, result(truth), ttl)
    BY ZenonT(60), <1>5
  <2> HIDE DEF ttl, truth, q
  <2> DEFINE o == result(truth)
  <2>4. /\ o \in [kind : {"addresses", "negative"}, asked : Nat, truth : Nat] /\ o \in Outcomes
        /\ o.asked = generation /\ o.truth = truth
    BY <1>1, <1>2, <1>5, <2>2 DEF Outcomes, Kinds
  <2>5. Finish(id, o, ttl)
    BY <2>3
  <2> HIDE DEF o
  <2>6. Kept(o, ttl)
    BY <2>2, <2>4 DEF Kept
  <2> QED BY ZenonT(60), <1>3, <2>4, <2>5, <2>6, FinishSound
<1>6. ASSUME a.kind = "unknown", Finish(id, result(NoTime), NoTime) PROVE IInv'
  <2> DEFINE o == result(NoTime)
  <2>1. o \in Outcomes /\ o.asked = generation
    BY <1>1, <1>2, <1>6 DEF Outcomes, Kinds
  <2>2. Kept(o, NoTime)
    BY ZenonT(60) DEF Kept
  <2>3. Finish(id, o, NoTime)
    BY <1>6
  <2> HIDE DEF o
  <2> QED BY ZenonT(60), <1>3, <2>1, <2>2, <2>3, FinishSound
<1>7. ASSUME NEW kind \in Kinds, Finish(id, Error(kind), NoTime) PROVE IInv'
  BY ZenonT(60), <1>3, <1>7, ErrorSound
<1>8. ASSUME NEW n, Sound(n), n.token = q.token, n.asked = FALSE, Update(id, n) PROVE IInv'
  <2>1. n.asked => pending[id].asked
    BY <1>8
  <2> QED BY ZenonT(60), <1>3, <1>8, <2>1, UpdateSound
<1>9. ASSUME a.kind = "alias", ~(q.hops + a.hops > AliasLimit), Update(id, Follow(q, a)) PROVE IInv'
  <2>1. Sound(Follow(q, a)) /\ Follow(q, a).token = q.token /\ Follow(q, a).asked = FALSE
    BY ZenonT(60), <1>1, <1>9, FollowSound
  <2> QED BY ZenonT(60), <1>8, <1>9, <2>1
<1>10. ASSUME Update(id, [q EXCEPT !.next = 0, !.asked = FALSE]) PROVE IInv'
  <2>1. /\ Sound([q EXCEPT !.next = 0, !.asked = FALSE])
        /\ [q EXCEPT !.next = 0, !.asked = FALSE].token = q.token
        /\ [q EXCEPT !.next = 0, !.asked = FALSE].asked = FALSE
    BY ZenonT(60), <1>1, DueSound
  <2> QED BY ZenonT(60), <1>8, <1>10, <2>1
<1>11. ASSUME UNCHANGED <<pending, results, cache, bound>> PROVE IInv'
  BY ZenonT(60), <1>3, <1>11, CallSound
<1> QED BY ZenonT(60), <1>4, <1>5, <1>6, <1>7, <1>9, <1>10, <1>11 DEF Answered

\* receive.
LEMMA ReceiveSound ==
    ASSUME Counting, WellOrdered, IInv, NEW r \in net, NEW a \in Answers, NEW again \in BOOLEAN,
           Receive(r, a, again)
    PROVE  IInv'
<1>1. /\ net' \subseteq net /\ at = "receive" /\ UNCHANGED <<generation, nextId, taken, at, todo>>
      /\ \/ UNCHANGED <<pending, results, cache, bound>>
         \/ \E id \in DOMAIN pending : Matches(pending[id], r) /\ Answered(id, r, a)
  BY ZenonT(60) DEF Receive
<1>2. CASE UNCHANGED <<pending, results, cache, bound>>
  <2>1. /\ todo' \subseteq DOMAIN pending /\ at' \in {"idle", "receive", "events", "ids"}
        /\ (at' # "ids" => todo' = {})
    BY <1>1 DEF IInv, Typed
  <2> QED BY ZenonT(60), <1>1, <1>2, <2>1, CallSound
<1>3. ASSUME NEW id \in DOMAIN pending, Matches(pending[id], r), Answered(id, r, a) PROVE IInv'
  BY ZenonT(60), <1>1, <1>3, AnsweredSound
<1> QED BY <1>1, <1>2, <1>3

\* process_events: a datagram that never left ends or hurries its attempt.
LEMMA DroppedSound ==
    ASSUME Counting, WellOrdered, IInv, NEW id \in DOMAIN pending, NEW deviceError \in BOOLEAN,
           Dropped(id, deviceError)
    PROVE  IInv'
<1> DEFINE q == pending[id]
<1>1. /\ net' \subseteq net /\ at = "events" /\ UNCHANGED <<generation, nextId, taken, at, todo>>
      /\ \/ Finish(id, Error("Local"), NoTime)
         \/ Update(id, [q EXCEPT !.next = 0])
  BY DEF Dropped
<1>2. /\ todo' = {} /\ todo' \subseteq DOMAIN pending /\ todo' \subseteq DOMAIN pending \ {id}
      /\ at' \in {"idle", "receive", "events", "ids"} /\ (at' # "ids" => todo' = {})
      /\ "Local" \in Kinds /\ UNCHANGED <<generation, nextId, taken>>
  BY <1>1 DEF IInv, Typed, Kinds
<1>3. CASE Finish(id, Error("Local"), NoTime)
  BY ZenonT(60), <1>1, <1>2, <1>3, ErrorSound
<1>4. CASE Update(id, [q EXCEPT !.next = 0])
  <2> DEFINE n == [q EXCEPT !.next = 0]
  <2>1. Sound(q)
    BY DEF IInv, Typed
  <2>2. Sound(n) /\ n.token = q.token /\ n.asked = q.asked
    BY ZenonT(60), <2>1, DueSound
  <2>3. Update(id, n)
    BY ZenonT(60), <1>4
  <2> HIDE DEF n
  <2> QED BY ZenonT(60), <1>1, <1>2, <2>2, <2>3, UpdateSound
<1> QED BY <1>1, <1>3, <1>4

\* One lookup of the ids poll collected: expired, due or waiting.
LEMMA VisitSound ==
    ASSUME Counting, WellOrdered, IInv, NEW id \in todo, Visit(id)
    PROVE  IInv'
<1>1. /\ at = "ids" /\ todo' = todo \ {id} /\ UNCHANGED <<generation, nextId, taken, at>>
      /\ \/ Finish(id, Error("Timeout"), NoTime) /\ net' = net
         \/ ~Expired(pending[id]) /\ pending[id].next = 0 /\ Attempt(id)
         \/ UNCHANGED <<pending, results, cache, bound, net>>
  BY ZenonT(60) DEF Visit
<1>2. /\ id \in DOMAIN pending /\ todo' \subseteq DOMAIN pending /\ todo' \subseteq DOMAIN pending \ {id}
      /\ at' \in {"idle", "receive", "events", "ids"} /\ (at' # "ids" => todo' = {})
      /\ "Timeout" \in Kinds /\ UNCHANGED <<generation, nextId, taken>>
  BY <1>1 DEF IInv, Typed, Kinds
<1>3. CASE Finish(id, Error("Timeout"), NoTime) /\ net' = net
  <2>1. net' \subseteq net
    BY <1>3
  <2> QED BY ZenonT(60), <1>2, <1>3, <2>1, ErrorSound
<1>4. CASE ~Expired(pending[id]) /\ pending[id].next = 0 /\ Attempt(id)
  BY ZenonT(60), <1>1, <1>4, AttemptSound
<1>5. CASE UNCHANGED <<pending, results, cache, bound, net>>
  <2>1. net' \subseteq net
    BY <1>5
  <2> QED BY ZenonT(60), <1>2, <1>5, <2>1, CallSound
<1> QED BY <1>1, <1>3, <1>4, <1>5

\* The steps between the stages
LEMMA StageSound ==
    ASSUME IInv, Received \/ EventsSeen \/ Visited
    PROVE  IInv'
<1>1. /\ UNCHANGED <<pending, results, cache, bound, generation, nextId, taken>>
      /\ net' \subseteq net /\ todo' \subseteq DOMAIN pending
      /\ at' \in {"idle", "receive", "events", "ids"} /\ (at' # "ids" => todo' = {})
  <2>1. todo \subseteq DOMAIN pending /\ (at # "ids" => todo = {})
    BY DEF IInv, Typed
  <2> QED BY <2>1 DEF Received, EventsSeen, Visited
<1> QED BY ZenonT(60), <1>1, CallSound

-----------------------------------------------------------------------------
(* The invariant is inductive *)

\* A new resolver has nothing.
LEMMA InitSound == ASSUME Counting, Init PROVE IInv
<1>1. DOMAIN pending = {} /\ DOMAIN cache = {} /\ DOMAIN results = {} /\ Len(results) = 0
  BY DEF Init
<1>2. IsFiniteSet({}) /\ Cardinality({}) = 0
  BY DEF Counting
<1>3. Typed
  BY <1>1, Numbers DEF Init, Typed
<1>4. Placed
  <2>1. Waiting = {} /\ 1..(nextId - 1) = {}
    BY <1>1 DEF Init, Waiting
  <2> QED BY <1>1, <1>2, <2>1, Numbers DEF Init, Placed
<1>5. PortsOwned /\ NetCurrent /\ Delivered
  BY <1>1 DEF Init, PortsOwned, NetCurrent, Delivered
<1>6. Cached
  BY <1>1, <1>2, Numbers DEF Cached
<1> QED BY <1>3, <1>4, <1>5, <1>6 DEF IInv

\* Every step keeps the invariant.
LEMMA StepSound ==
    ASSUME Counting, Enumerating, WellOrdered, IInv, [Next]_vars
    PROVE  IInv'
<1>1. CASE UNCHANGED vars
  <2>1. /\ UNCHANGED <<pending, results, cache, bound, generation, nextId, taken>>
        /\ net' \subseteq net /\ todo' \subseteq DOMAIN pending
        /\ at' \in {"idle", "receive", "events", "ids"} /\ (at' # "ids" => todo' = {})
    BY <1>1 DEF vars, IInv, Typed
  <2> QED BY ZenonT(60), <2>1, CallSound
<1>2. ASSUME NEW name \in Names, Resolve(name) PROVE IInv'
  BY ZenonT(60), <1>2, ResolveSound
<1>3. ASSUME NEW id \in DOMAIN pending, Cancel(id) PROVE IInv'
  BY ZenonT(60), <1>3, CancelSound
<1>4. ASSUME NEW elapsed \in 0..MaxElapsed, Poll(elapsed) PROVE IInv'
  <2>1. elapsed \in Nat
    OBVIOUS
  <2> QED BY ZenonT(60), <1>4, <2>1, PollSound
<1>5. ASSUME NEW r \in net, NEW a \in Answers, NEW again \in BOOLEAN, Receive(r, a, again) PROVE IInv'
  BY ZenonT(60), <1>5, ReceiveSound
<1>6. ASSUME NEW id \in DOMAIN pending, NEW deviceError \in BOOLEAN, Dropped(id, deviceError) PROVE IInv'
  BY ZenonT(60), <1>6, DroppedSound
<1>7. ASSUME NEW id \in todo, Visit(id) PROVE IInv'
  BY ZenonT(60), <1>7, VisitSound
<1> QED
  BY ZenonT(60), <1>1, <1>2, <1>3, <1>4, <1>5, <1>6, <1>7,
     PopSound, InvalidateSound, StageSound DEF Next

-----------------------------------------------------------------------------
(* The facts of the library *)

Sets == INSTANCE FiniteSetTheorems

\* The instance's cardinality is that of FiniteSets.
LEMMA SameCardinality == \A S : Sets!Cardinality(S) = Cardinality(S)
BY ZenonT(60) DEF Sets!Cardinality, Cardinality, Sets!IsFiniteSet, IsFiniteSet

\* So is its notion of a finite set.
LEMMA SameFinite == \A S : Sets!IsFiniteSet(S) <=> IsFiniteSet(S)
BY ZenonT(60) DEF Sets!IsFiniteSet, IsFiniteSet

\* The sizes of finite sets.
LEMMA CountingHolds == Counting
<1>1. IsFiniteSet({}) /\ Cardinality({}) = 0
  BY Sets!FS_EmptySet, SameCardinality, SameFinite
<1>2. \A S : IsFiniteSet(S) => Cardinality(S) \in Nat
  BY Sets!FS_CardinalityType, SameFinite, SameCardinality
<1>3. \A S, T : IsFiniteSet(S) /\ T \subseteq S =>
          IsFiniteSet(T) /\ Cardinality(T) <= Cardinality(S)
  BY Sets!FS_Subset, SameFinite, SameCardinality
<1>4. \A S, x : IsFiniteSet(S) =>
          /\ IsFiniteSet(S \cup {x})
          /\ Cardinality(S \cup {x}) = IF x \in S THEN Cardinality(S) ELSE Cardinality(S) + 1
  BY Sets!FS_AddElement, SameFinite, SameCardinality
<1>5. \A S, x : IsFiniteSet(S) =>
          Cardinality(S \ {x}) = IF x \in S THEN Cardinality(S) - 1 ELSE Cardinality(S)
  BY Sets!FS_RemoveElement, SameFinite, SameCardinality
<1> QED BY <1>1, <1>2, <1>3, <1>4, <1>5 DEF Counting

\* 1..n has n elements, and n different things are n.
LEMMA Counted ==
    ASSUME NEW n \in Nat
    PROVE  /\ IsFiniteSet(1..n) /\ Cardinality(1..n) = n
           /\ \A T : \A f \in [1..n -> T] :
                /\ \A x \in T : \E i \in 1..n : f[i] = x
                /\ \A i, j \in 1..n : f[i] = f[j] => i = j
                => IsFiniteSet(T) /\ Cardinality(T) = n
<1>1. IsFiniteSet(1..n) /\ Cardinality(1..n) = n
  <2>1. Sets!IsFiniteSet(1..n) /\ Sets!Cardinality(1..n) = n
    BY Sets!FS_Interval
  <2> QED BY <2>1, SameFinite, SameCardinality
<1>2. ASSUME NEW T, NEW f \in [1..n -> T], \A x \in T : \E i \in 1..n : f[i] = x,
             \A i, j \in 1..n : f[i] = f[j] => i = j
      PROVE  IsFiniteSet(T) /\ Cardinality(T) = n
  <2>1. f \in Sets!Surjection(1..n, T)
    BY <1>2 DEF Sets!Surjection
  <2>2. f \in Sets!Injection(1..n, T)
    BY <1>2 DEF Sets!Injection, Sets!IsInjective
  <2>3. Sets!IsFiniteSet(T) /\ Sets!Cardinality(T) = Sets!Cardinality(1..n)
    BY ZenonT(60), <1>1, <2>1, <2>2, SameFinite, Sets!FS_Surjection
  <2> QED BY ZenonT(60), <1>1, <2>3, SameFinite, SameCardinality
<1> QED BY ZenonT(60), <1>1, <1>2

\* A list without repetitions that is as long as the set is large is complete.
LEMMA EnumeratingHolds == Enumerating
<1> SUFFICES ASSUME NEW S, IsFiniteSet(S), NEW f \in [1..Cardinality(S) -> S],
                    \A i, j \in 1..Cardinality(S) : f[i] = f[j] => i = j
             PROVE  \A x \in S : \E i \in 1..Cardinality(S) : f[i] = x
  BY ZenonT(60) DEF Enumerating
<1> DEFINE n == Cardinality(S)
<1>1. n \in Nat
  BY CountingHolds DEF Counting
<1>2. IsFiniteSet(1..n) /\ Cardinality(1..n) = Cardinality(S)
  <2> HIDE DEF n
  <2>1. IsFiniteSet(1..n) /\ Cardinality(1..n) = n
    BY <1>1, Counted
  <2> QED BY <2>1 DEF n
<1>3. f \in Sets!Injection(1..n, S)
  BY DEF Sets!Injection, Sets!IsInjective
<1> HIDE DEF n
<1>4. f \in Sets!Surjection(1..n, S)
  <2>1. Sets!IsFiniteSet(S) /\ Sets!Cardinality(1..n) = Sets!Cardinality(S)
    BY ZenonT(60), <1>2, SameFinite, SameCardinality
  <2> QED BY ZenonT(60), <1>3, <2>1, Sets!FS_Injection
<1>5. \A x \in S : \E i \in 1..n : f[i] = x
  BY <1>4 DEF Sets!Surjection
<1> QED BY <1>5 DEF n

\* A set of naturals that is not empty has a least element.
LEMMA WellOrderedHolds == WellOrdered
<1> SUFFICES ASSUME NEW B, B \subseteq Nat, B # {} PROVE \E n \in B : \A m \in B : n <= m
  BY ZenonT(60) DEF WellOrdered
<1>1. PICK n \in B : \A m \in B : ~(<<m, n>> \in Sets!OpToRel(<, Nat))
  BY Sets!NatLessThanWellFounded, Sets!WFMin, ZenonT(60)
<1>2. \A m \in B : ~(m < n)
  BY ZenonT(60), <1>1 DEF Sets!OpToRel
<1> QED BY <1>2

\* Disjoint sets
LEMMA Disjoint ==
    ASSUME NEW S, NEW T, IsFiniteSet(S), IsFiniteSet(T), S \cap T = {}
    PROVE  IsFiniteSet(S \cup T) /\ Cardinality(S \cup T) = Cardinality(S) + Cardinality(T)
<1>1. Cardinality(S) \in Nat /\ Cardinality(T) \in Nat /\ Cardinality(S \cap T) = 0
  BY CountingHolds DEF Counting
<1>2. Sets!IsFiniteSet(S) /\ Sets!IsFiniteSet(T)
  BY SameFinite
<1>3. /\ Sets!IsFiniteSet(S \cup T)
      /\ Sets!Cardinality(S \cup T) = Sets!Cardinality(S) + Sets!Cardinality(T) - Sets!Cardinality(S \cap T)
  BY ZenonT(60), <1>2, Sets!FS_Union
<1>4. /\ IsFiniteSet(S \cup T)
      /\ Cardinality(S \cup T) = Cardinality(S) + Cardinality(T) - Cardinality(S \cap T)
  BY ZenonT(60), <1>3, SameFinite, SameCardinality
<1> QED BY <1>1, <1>4

-----------------------------------------------------------------------------
(* Theorems *)

\* The invariant holds in every reachable state.
LEMMA Inductive == Spec => []IInv
<1>1. Init => IInv
  BY InitSound, CountingHolds
<1>2. IInv /\ [Next]_vars => IInv'
  BY StepSound, CountingHolds, EnumeratingHolds, WellOrderedHolds
<1> QED BY <1>1, <1>2, PTL DEF Spec

\* Queries in one place each add up to those issued.
LEMMA PlacedCounts == ASSUME IInv PROVE CompletedOnce
<1> DEFINE D == DOMAIN pending
           N == Len(results)
<1>1. /\ D \cup Waiting \cup taken = 1..(nextId - 1) /\ D \cap Waiting = {} /\ IsFiniteSet(D)
      /\ (D \cup Waiting) \cap taken = {} /\ Cardinality(D) + N <= Capacity
      /\ \A i, j \in DOMAIN results : results[i].id = results[j].id => i = j
  BY DEF IInv, Placed
<1>2. nextId - 1 \in Nat /\ N \in Nat /\ DOMAIN results = 1..N
  BY DEF IInv, Typed
<1>3. IsFiniteSet(Waiting) /\ Cardinality(Waiting) = N
  <2> DEFINE f == [i \in 1..N |-> results[i].id]
  <2>1. /\ f \in [1..N -> Waiting] /\ \A x \in Waiting : \E i \in 1..N : f[i] = x
        /\ \A i, j \in 1..N : f[i] = f[j] => i = j
    BY <1>1, <1>2 DEF Waiting
  <2> HIDE DEF f, N
  <2> QED BY ZenonT(60), <1>2, <2>1, Counted
<1>4. IsFiniteSet(1..(nextId - 1)) /\ Cardinality(1..(nextId - 1)) = nextId - 1
  <2> DEFINE m == nextId - 1
  <2> HIDE DEF m
  <2>1. m \in Nat BY <1>2 DEF m
  <2>2. IsFiniteSet(1..m) /\ Cardinality(1..m) = m BY <2>1, Counted
  <2> QED BY <2>2 DEF m
<1>5. IsFiniteSet(taken)
  <2>1. taken \subseteq 1..(nextId - 1) BY <1>1
  <2> QED BY ZenonT(60), <1>4, <2>1, CountingHolds DEF Counting
<1>6. IsFiniteSet(D \cup Waiting) /\ Cardinality(D \cup Waiting) = Cardinality(D) + Cardinality(Waiting)
  BY ZenonT(60), <1>1, <1>3, Disjoint
<1>7. Cardinality((D \cup Waiting) \cup taken) = Cardinality(D \cup Waiting) + Cardinality(taken)
  BY ZenonT(60), <1>1, <1>5, <1>6, Disjoint
<1>8. Cardinality(D) + Cardinality(Waiting) + Cardinality(taken) = nextId - 1
  <2>1. Cardinality((D \cup Waiting) \cup taken) = nextId - 1
    BY ZenonT(60), <1>1, <1>4
  <2> QED BY ZenonT(60), <1>6, <1>7, <2>1
<1> QED BY ZenonT(60), <1>1, <1>3, <1>8 DEF CompletedOnce, Waiting

\* Every query completes exactly once and is never forgotten, whatever the
\* network loses, repeats or answers late and however calls of the application
\* fall between polls; what is not yet taken fits the capacity; and a source
\* port is bound exactly while one lookup owns it.
THEOREM CompletesOnce == Spec => []OneCompletion
<1>1. IInv => OneCompletion
  <2> SUFFICES ASSUME IInv PROVE OneCompletion
    OBVIOUS
  <2>1. TypeOK
    <3>1. /\ DOMAIN pending \subseteq 1..(nextId - 1) /\ taken \subseteq 1..(nextId - 1)
          /\ DOMAIN cache \subseteq Names /\ generation \in 0..MaxGeneration
          /\ at \in {"idle", "receive", "events", "ids"} /\ todo \subseteq DOMAIN pending
      BY DEF IInv, Typed, Placed, Cached
    <3>2. ASSUME NEW id \in DOMAIN pending
          PROVE  LET q == pending[id] IN
                 /\ {q.name, q.question} \subseteq q.aliases /\ q.aliases \subseteq Names
                 /\ q.deadline \in 0..LookupTimeout /\ q.next \in 0..LookupTimeout
                 /\ q.attempts \in 0..AttemptsPerName /\ q.hops \in 0..AliasLimit + 1
                 /\ q.token \in Tokens \cup {NoToken} /\ q.server \in 0..(NumServers - 1)
                 /\ q.chain \in Times(MaxCacheTtl)
      <4> DEFINE q == pending[id]
      <4>1. Sound(q) BY DEF IInv, Typed
      <4> HIDE DEF q
      <4>2. /\ {q.name, q.question} \subseteq q.aliases /\ q.aliases \subseteq Names
            /\ q.deadline \in 0..LookupTimeout /\ q.next \in 0..LookupTimeout
            /\ q.attempts \in 0..AttemptsPerName /\ q.hops \in 0..AliasLimit + 1
            /\ q.token \in Tokens \cup {NoToken} /\ q.server \in 0..(NumServers - 1)
            /\ q.chain \in Times(MaxCacheTtl)
        BY <4>1 DEF Sound, Lookups
      <4> QED BY <4>2 DEF q
    <3>3. bound \subseteq Tokens
      BY <3>2 DEF IInv, PortsOwned
    <3> QED BY ZenonT(60), <3>1, <3>2, <3>3 DEF TypeOK
  <2>2. PortsOwned
    BY DEF IInv
  <2> QED BY <2>1, <2>2, PlacedCounts DEF OneCompletion
<1> QED BY <1>1, Inductive, PTL

\* No answer of an earlier network is delivered or cached, nothing stays in the
\* cache longer than the shortest TTL on the way to it, and the cache never
\* exceeds its capacity, for every TTL and every chain of aliases.
THEOREM CacheStaysHonest == Spec => []CacheHonest
<1>1. IInv => CacheHonest
  <2> SUFFICES ASSUME IInv PROVE CacheHonest
    OBVIOUS
  <2>1. AnswersCurrent
    BY DEF IInv, Cached, Delivered, AnswersCurrent
  <2>2. \A n \in DOMAIN cache :
          /\ cache[n].result.kind \in {"addresses", "negative"}
          /\ cache[n].left > 0 /\ cache[n].left <= cache[n].result.truth
    BY DEF IInv, Cached, Entries
  <2> QED BY <2>1, <2>2 DEF IInv, Cached, CacheHonest
<1> QED BY <1>1, Inductive, PTL

=============================================================================
