---------------------------- MODULE ThreatIntel -----------------------------
(***************************************************************************)
(* ThreatIntelManager.lookup_indicator (threat_intel/manager.py) with its  *)
(* reputation cache, and the circuit breaker and rate limiter it keeps for *)
(* each provider (threat_intel/resilience/circuit_breaker.py).  What a     *)
(* provider reports is in IntelEnrichment.                                 *)
(*                                                                         *)
(* A look-up runs to its end before the next one starts, but time passes   *)
(* while a provider is asked.  Tokens are counted in fractions of Minute,  *)
(* so that max_queries / 60 per second is a whole number per tick.         *)
(***************************************************************************)
EXTENDS CircuitBreaker, Sequences, FiniteSets, Dict

CONSTANTS
  Indicators,  \* cache keys: "type:target"
  Providers,   \* the registered providers, in registration order
  Minute,      \* the 60 s of the rate limiter, in ticks
  MaxQueries,  \* max_queries_per_minute
  Ttl,         \* ttl_seconds of the cache
  MaxSize,     \* max_size of the cache
  MaxIntelTime      \* bound on the clock

ASSUME PositiveAssumption ==
  {Minute, MaxQueries, MaxSize} \subseteq Nat \ {0}
ASSUME IntelNatAssumption == {Ttl, MaxIntelTime} \subseteq Nat
ASSUME ProvidersAssumption == Providers \in Seq(STRING)

Names == {Providers[i] : i \in DOMAIN Providers}
Full == MaxQueries * Minute

VARIABLES
  inow,
  breaker,  \* provider -> [state, failures, since]
  limiter,  \* provider -> [tokens, refilled]
  rcache,    \* the OrderedDict: entries [key, at], least recently used first
  lookup,   \* the look-up in progress
  calls,    \* provider -> the calls made to it, [start, end, ok]
  used      \* the indicators answered so far, by their last use

intelVars == <<inow, breaker, limiter, rcache, lookup, calls, used>>

NoKey == "none"
NoLookup == [pc |-> "idle", key |-> NoKey, i |-> 0]

IntelInit ==
  /\ inow = 0
  /\ breaker = [p \in Names |-> NewBreaker]
  /\ limiter = [p \in Names |-> [tokens |-> Full, refilled |-> 0]]
  /\ rcache = <<>>
  /\ lookup = NoLookup
  /\ calls = [p \in Names |-> <<>>]
  /\ used = <<>>

At(pc, i) == [pc |-> pc, key |-> lookup.key, i |-> i]
Asking == Providers[lookup.i]

\* The keys in s but k, and k as the most recently used of them.
Others(s, k) == IF \E i \in DOMAIN s : s[i] = k THEN DelAt(s, CHOOSE i \in DOMAIN s : s[i] = k) ELSE s
Touched(s, k) == Append(Others(s, k), k)
Without(k) ==
  IF \E i \in DOMAIN rcache : rcache[i].key = k
  THEN DelAt(rcache, CHOOSE i \in DOMAIN rcache : rcache[i].key = k) ELSE rcache
Entry(k) == {rcache[i] : i \in {j \in DOMAIN rcache : rcache[j].key = k}}
IsExpired(e) == inow - e.at > Ttl

-----------------------------------------------------------------------------
\* ReputationCache.get finds an entry that has not expired: it is the answer.
Hit(k) ==
  /\ lookup.pc = "idle"
  /\ \E e \in Entry(k) : /\ ~IsExpired(e)
                         /\ rcache' = Append(Without(k), e)
  /\ used' = Touched(used, k)
  /\ UNCHANGED <<inow, breaker, limiter, lookup, calls>>

\* It finds none, or deletes one that has: the providers are asked in turn.
Miss(k) ==
  /\ lookup.pc = "idle"
  /\ \A e \in Entry(k) : IsExpired(e)
  /\ rcache' = Without(k)
  /\ lookup' = [pc |-> "next", key |-> k, i |-> 1]
  /\ UNCHANGED <<inow, breaker, limiter, calls, used>>

\* Mutant: the bucket is refilled beyond its limit.
RefilledUncapped(l) == l.tokens + (inow - l.refilled) * MaxQueries

\* acquire first refills the bucket for the time that has passed.
Refilled(l) ==
  LET t == l.tokens + (inow - l.refilled) * MaxQueries IN IF t < Full THEN t ELSE Full

\* The breaker is open: the provider is left out.
SkipOpen ==
  /\ lookup.pc = "next" /\ lookup.i <= Len(Providers)
  /\ ~Allows(breaker[Asking], inow)
  /\ lookup' = At("next", lookup.i + 1)
  /\ UNCHANGED <<inow, breaker, limiter, rcache, calls, used>>

\* The breaker lets the call through, perhaps as a probe, but no token is left.
SkipThrottled ==
  LET p == Asking IN
  /\ lookup.pc = "next" /\ lookup.i <= Len(Providers)
  /\ Allows(breaker[p], inow) /\ Refilled(limiter[p]) < Minute
  /\ breaker' = [breaker EXCEPT ![p] = AfterAllow(@, inow)]
  /\ limiter' = [limiter EXCEPT ![p] = [tokens |-> Refilled(@), refilled |-> inow]]
  /\ lookup' = At("next", lookup.i + 1)
  /\ UNCHANGED <<inow, rcache, calls, used>>

\* Mutant: last_refill is not moved forward.
CallUntimed ==
  LET p == Asking IN
  /\ lookup.pc = "next" /\ lookup.i <= Len(Providers)
  /\ Allows(breaker[p], inow) /\ Refilled(limiter[p]) >= Minute
  /\ breaker' = [breaker EXCEPT ![p] = AfterAllow(@, inow)]
  /\ limiter' = [limiter EXCEPT ![p] = [@ EXCEPT !.tokens = Refilled(limiter[p]) - Minute]]
  /\ calls' = [calls EXCEPT ![p] = Append(@, [start |-> inow, end |-> inow, ok |-> TRUE])]
  /\ lookup' = At("asked", lookup.i)
  /\ UNCHANGED <<inow, rcache, used>>

\* A token is taken and the provider is asked.
Call ==
  LET p == Asking IN
  /\ lookup.pc = "next" /\ lookup.i <= Len(Providers)
  /\ Allows(breaker[p], inow) /\ Refilled(limiter[p]) >= Minute
  /\ breaker' = [breaker EXCEPT ![p] = AfterAllow(@, inow)]
  /\ limiter' = [limiter EXCEPT ![p] = [tokens |-> Refilled(@) - Minute, refilled |-> inow]]
  /\ calls' = [calls EXCEPT ![p] = Append(@, [start |-> inow, end |-> inow, ok |-> TRUE])]
  /\ lookup' = At("asked", lookup.i)
  /\ UNCHANGED <<inow, rcache, used>>

\* The call that is being made to p has ended.
Ended(p, ok) ==
  LET c == calls[p] n == Len(calls[p]) IN
  [calls EXCEPT ![p] = [c EXCEPT ![n] = [start |-> c[n].start, end |-> inow, ok |-> ok]]]

\* It answers, with or without an observation.
Answered ==
  LET p == Asking IN
  /\ lookup.pc = "asked"
  /\ breaker' = [breaker EXCEPT ![p] = AfterSuccess(@, inow)]
  /\ calls' = Ended(p, TRUE)
  /\ lookup' = At("next", lookup.i + 1)
  /\ UNCHANGED <<inow, limiter, rcache, used>>

\* It raises.
Failed ==
  LET p == Asking IN
  /\ lookup.pc = "asked"
  /\ breaker' = [breaker EXCEPT ![p] = AfterFailure(@, inow)]
  /\ calls' = Ended(p, FALSE)
  /\ lookup' = At("next", lookup.i + 1)
  /\ UNCHANGED <<inow, limiter, rcache, used>>

\* Mutant: the cache makes room only once it is over its limit.
StoreOneMore ==
  /\ lookup.pc = "next" /\ lookup.i > Len(Providers)
  /\ rcache' = Append(IF Len(rcache) > MaxSize THEN Tail(rcache) ELSE rcache,
                     [key |-> lookup.key, at |-> inow])
  /\ used' = Touched(used, lookup.key)
  /\ lookup' = NoLookup
  /\ UNCHANGED <<inow, breaker, limiter, calls>>

\* Every provider has had its turn: ReputationCache.put stores the answer,
\* whoever could not be asked, evicting the least recently used entry.
Store ==
  /\ lookup.pc = "next" /\ lookup.i > Len(Providers)
  /\ rcache' = Append(IF Len(rcache) >= MaxSize THEN Tail(rcache) ELSE rcache,
                     [key |-> lookup.key, at |-> inow])
  /\ used' = Touched(used, lookup.key)
  /\ lookup' = NoLookup
  /\ UNCHANGED <<inow, breaker, limiter, calls>>

IntelTick ==
  /\ inow < MaxIntelTime
  /\ inow' = inow + 1
  /\ UNCHANGED <<breaker, limiter, rcache, lookup, calls, used>>

IntelNext == \/ \E k \in Indicators : Hit(k) \/ Miss(k)
             \/ SkipOpen \/ SkipThrottled \/ Call
             \/ Answered \/ Failed \/ Store \/ IntelTick

-----------------------------------------------------------------------------
\* Type invariant; a breaker is closed exactly while fewer failures than the
\* threshold are on count, and a bucket never holds more than a minute's worth.
IntelTypeOK ==
  /\ inow \in 0..MaxIntelTime
  /\ \A p \in Names :
       /\ breaker[p].state \in {"CLOSED", "OPEN", "HALF_OPEN"}
       /\ breaker[p].failures \in Nat /\ breaker[p].since \in 0..inow
       /\ breaker[p].state = "CLOSED" <=> breaker[p].failures < Threshold
       /\ limiter[p].tokens \in 0..Full /\ limiter[p].refilled \in 0..inow
  /\ \A i \in DOMAIN rcache : /\ rcache[i].key \in Indicators /\ rcache[i].at \in 0..inow
  /\ lookup.pc \in {"idle", "next", "asked"}
  /\ lookup.i \in 0..(Len(Providers) + 1)

\* The calls to p that have ended.
Done(p) ==
  IF lookup.pc = "asked" /\ Asking = p THEN SubSeq(calls[p], 1, Len(calls[p]) - 1) ELSE calls[p]

\* What a breaker is for, said of the calls alone: the last Threshold of them
\* failed, and the recovery time has not passed since.
MustRest(p) ==
  LET c == Done(p) n == Len(Done(p)) IN
  /\ n >= Threshold
  /\ \A i \in (n - Threshold + 1)..n : ~c[i].ok
  /\ inow - c[n].end < Recovery

\* The breaker refuses calls exactly when it must: neither a probe that finds
\* no token, nor a failing probe, nor a look-up that outlasts the recovery time
\* makes it let calls through too early or keep a provider out too long.
BreakerExact == \A p \in Names : ~Allows(breaker[p], inow) <=> MustRest(p)

\* No provider is asked more often than its rate allows, over any stretch of
\* time: in the time between two calls at most a full bucket is spent and what
\* flowed in meanwhile.
WithinRate ==
  \A p \in Names : \A i, j \in DOMAIN calls[p] :
    i <= j => (j - i + 1) * Minute <= Full + (calls[p][j].start - calls[p][i].start) * MaxQueries

\* The cache is a least-recently-used one although entries also expire: between
\* look-ups it holds the MaxSize indicators answered last, in order, each once.
KeepsMostRecent ==
  lookup.pc = "idle" =>
    LET n == Len(used)
        kept == IF n <= MaxSize THEN used ELSE SubSeq(used, n - MaxSize + 1, n) IN
    [i \in DOMAIN rcache |-> rcache[i].key] = kept

\* The limits of the manager hold in every order of queries, failures and ticks:
\* the breaker opens exactly at its threshold, no minute exceeds the rate, and
\* the cache keeps what was asked last.
IntelSafe == IntelTypeOK /\ BreakerExact /\ WithinRate /\ KeepsMostRecent
=============================================================================
