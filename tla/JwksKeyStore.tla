---------------------------- MODULE JwksKeyStore ----------------------------
(***************************************************************************)
(* The cache of an issuer's keys in auth/oidc-verifier.js: fetches that    *)
(* overlap, fail or answer late, keys served stale during an outage, and   *)
(* keys that the issuer withdraws.  Times are ages in ticks, cut off where *)
(* the code no longer tells them apart.                                    *)
(***************************************************************************)
EXTENDS Naturals, FiniteSets

CONSTANTS
  Key, Fetch,   \* key ids; slots for fetches that overlap
  CacheTtl, MaxStale, NegativeCache, MinRefetch, HttpTimeout \* in ticks

ASSUME JwksAssumption ==
  {CacheTtl, MaxStale, NegativeCache, MinRefetch, HttpTimeout} \subseteq Nat \ {0}

VARIABLES
  published, \* the keys the issuer publishes
  unheard,   \* ticks since a key was last published, per key
  cache,     \* cache.keys; {} stands for no cache as well
  cacheAge,  \* ticks since cache.fetchedAt
  fetchAge,  \* ticks since lastFetchAt
  failAge,   \* ticks since lastFailureAt
  fetching   \* per slot: what the issuer has answered, and since when

jwksVars == <<published, unheard, cache, cacheAge, fetchAge, failAge, fetching>>

MaxCacheAge == CacheTtl + MaxStale
Limit == MaxCacheAge + HttpTimeout
NoFetch == [on |-> FALSE, keys |-> {}, age |-> 0]

JwksInit ==
  /\ published \in SUBSET Key
  /\ unheard = [k \in Key |-> IF k \in published THEN 0 ELSE Limit + 1]
  /\ cache = {} /\ cacheAge = MaxCacheAge + 1 /\ fetchAge = MinRefetch
  /\ failAge = NegativeCache /\ fetching = [f \in Fetch |-> NoFetch]

JwksTypeOK ==
  /\ published \subseteq Key /\ unheard \in [Key -> 0..Limit + 1]
  /\ cache \subseteq Key /\ cacheAge \in 0..MaxCacheAge + 1
  /\ fetchAge \in 0..MinRefetch /\ failAge \in 0..NegativeCache
  /\ fetching \in [Fetch -> [on : BOOLEAN, keys : SUBSET Key, age : 0..HttpTimeout]]

CachedKeys == IF cacheAge < CacheTtl THEN cache ELSE {}

\* (Mutant: stale keys are served for as long as the issuer is away.)
StaleForever == cache
StaleKeys == IF cacheAge <= MaxCacheAge THEN cache ELSE {}

\* keyFor(): nothing usable in the cache, or not this key and not too often.
Misses(k) ==
  \/ CachedKeys = {}
  \/ k \notin CachedKeys /\ fetchAge >= MinRefetch

\* refreshOrStale() goes to the network; the issuer may answer at once.
StartFetch(f, k) ==
  /\ Misses(k) /\ failAge >= NegativeCache /\ ~fetching[f].on
  /\ fetching' = [fetching EXCEPT ![f] = [on |-> TRUE, keys |-> published, age |-> 0]]
  /\ fetchAge' = 0
  /\ UNCHANGED <<published, unheard, cache, cacheAge, failAge>>

FetchSucceeds(f) ==
  /\ fetching[f].on /\ fetching' = [fetching EXCEPT ![f] = NoFetch]
  /\ \E keys \in {fetching[f].keys, published} : cache' = keys
  /\ cacheAge' = 0 /\ failAge' = NegativeCache
  /\ UNCHANGED <<published, unheard, fetchAge>>

FetchFails(f) ==
  /\ fetching[f].on /\ fetching' = [fetching EXCEPT ![f] = NoFetch]
  /\ failAge' = 0
  /\ UNCHANGED <<published, unheard, cache, cacheAge, fetchAge>>

Publishes(keys) ==
  /\ keys # published /\ published' = keys
  /\ unheard' = [k \in Key |-> IF k \in keys THEN 0 ELSE unheard[k]]
  /\ UNCHANGED <<cache, cacheAge, fetchAge, failAge, fetching>>

Older(age, cap) == IF age < cap THEN age + 1 ELSE cap

\* A tick; a fetch is aborted before it is older than its timeout.
Tick ==
  /\ \A f \in Fetch : fetching[f].on => fetching[f].age < HttpTimeout
  /\ fetching' = [f \in Fetch |-> IF fetching[f].on THEN [fetching[f] EXCEPT !.age = @ + 1]
                                                    ELSE NoFetch]
  /\ unheard' = [k \in Key |-> IF k \in published THEN 0 ELSE Older(unheard[k], Limit + 1)]
  /\ cacheAge' = Older(cacheAge, MaxCacheAge + 1)
  /\ fetchAge' = Older(fetchAge, MinRefetch) /\ failAge' = Older(failAge, NegativeCache)
  /\ UNCHANGED <<published, cache>>

JwksNext ==
  \/ \E f \in Fetch : FetchSucceeds(f) \/ FetchFails(f) \/ \E k \in Key : StartFetch(f, k)
  \/ \E keys \in SUBSET Key : Publishes(keys)
  \/ Tick

\* A key the issuer has withdrawn is trusted no longer than the time to live,
\* the stale ceiling and the slowest fetch together, whatever outages and
\* late answers of overlapping fetches come between.
WithdrawnKeyDies == \A k \in StaleKeys : unheard[k] <= Limit
=============================================================================
