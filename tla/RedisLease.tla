----------------------------- MODULE RedisLease -----------------------------
(***************************************************************************)
(* What processes share through Redis (common/redis_client.py): the lease  *)
(* lock of a tenant, the distributed rate limiter, and the distributed     *)
(* deduplication of ingested mail (ingestion_gateway/redis_dedup.py).      *)
(*                                                                         *)
(* A client that meets one error or timeout works on a store of its own    *)
(* from then on, although the server may have carried out the command.     *)
(* Every command is atomic on the store it reaches.                        *)
(***************************************************************************)
EXTENDS Integers, FiniteSets, Dict

CONSTANTS
  Procs,        \* processes with a client each
  Server,       \* the name of the shared store
  LeaseTtl,     \* ttl_ms of the lock
  BucketLimit,  \* limit of the rate limiter
  BucketLength, \* window_sec
  MarkTtl,      \* default_ttl_sec of the deduplication
  MaxRequests,  \* bound on the requests of the limiter
  MaxAcquires,  \* bound on the leases of a process
  MaxRedisTime  \* bound on the clock

ASSUME ProcsAssumption == IsFiniteSet(Procs) /\ Server \notin Procs
ASSUME RedisAssumption ==
  /\ {LeaseTtl, BucketLimit, MarkTtl, MaxRequests, MaxAcquires, MaxRedisTime} \subseteq Nat
  /\ BucketLength \in Nat \ {0}

VARIABLES
  rclock,
  rstore,     \* store -> key -> [val, exp]
  degraded,  \* the processes with _is_degraded
  lock,      \* process -> [acquired, at, where, nth]: its DistributedTenantLock
  pendingTtl,\* process -> the bucket whose TTL it is about to set
  granted,   \* the requests the limiter allowed: [where, bucket, at, nth] (history)
  requests,  \* requests so far
  admitted   \* what deduplication let pass: [where, at, nth] (history)

redisVars == <<rclock, rstore, degraded, lock, pendingTtl, granted, requests, admitted>>

Never == -1
LockKey == <<"lock", "tenant">>
MailKey == <<"mail", "message">>
RateKey(b) == <<"rate", b>>
Forever == MaxRedisTime + 1
NotHeld == [acquired |-> FALSE, at |-> Never, where |-> Server, nth |-> 0]

RedisInit ==
  /\ rclock = 0 /\ degraded = {}
  /\ rstore = [s \in Procs \cup {Server} |-> EmptyDict]
  /\ lock = [p \in Procs |-> NotHeld]
  /\ pendingTtl = [p \in Procs |-> Never]
  /\ granted = {} /\ requests = 0 /\ admitted = {}

Alive(s, k) == k \in DOMAIN s /\ rclock <= s[k].exp

\* Mutant: the condition is dropped.
SetAlways(s, k, v, ttl) == [to |-> Put(s, k, [val |-> v, exp |-> rclock + ttl]), res |-> 1]

\* The commands: the store afterwards and the answer.
SetNx(s, k, v, ttl) ==
  IF Alive(s, k) THEN [to |-> s, res |-> 0]
  ELSE [to |-> Put(s, k, [val |-> v, exp |-> rclock + ttl]), res |-> 1]

SetEx(s, k, v, ttl) == [to |-> Put(s, k, [val |-> v, exp |-> rclock + ttl]), res |-> 1]

Incr(s, k) ==
  IF Alive(s, k) THEN [to |-> [s EXCEPT ![k].val = @ + 1], res |-> s[k].val + 1]
  ELSE [to |-> Put(s, k, [val |-> 1, exp |-> Forever]), res |-> 1]

Expire(s, k, ttl) ==
  IF k \in DOMAIN s THEN [to |-> [s EXCEPT ![k].exp = rclock + ttl], res |-> 1]
  ELSE [to |-> s, res |-> 0]

\* Mutant: DEL without looking at the owner.
CompareAndDeleteAny(s, k, v) == [to |-> Drop(s, {k}), res |-> 1]

\* RELEASE_LUA
CompareAndDelete(s, k, v) ==
  IF Alive(s, k) /\ s[k].val = v THEN [to |-> Drop(s, {k}), res |-> 1]
  ELSE [to |-> s, res |-> 0]

\* Mutant: the fallback is used from the start.
WhereOwn(p) == p

Where(p) == IF p \in degraded THEN p ELSE Server

\* An error makes a client use its fallback from then on.
Degrades(p) == p \notin degraded /\ degraded' = degraded \cup {p}

\* A command of AsyncRedisClient: answered by the store the client uses, or by
\* its fallback after an error before or after the server did its part.
Command(p, Op(_), res) ==
  \/ /\ rstore' = [rstore EXCEPT ![Where(p)] = Op(@).to]
     /\ res = Op(rstore[Where(p)]).res
     /\ UNCHANGED degraded
  \/ /\ Degrades(p)
     /\ rstore' \in {[rstore EXCEPT ![p] = Op(@).to],
                    [rstore EXCEPT ![p] = Op(@).to, ![Server] = Op(@).to]}
     /\ res = Op(rstore[p]).res

AnsweredBy(p) == IF p \in degraded' THEN p ELSE Server

(***************************************************************************)
(* DistributedTenantLock: an attempt of acquire, which polls, and release. *)
(* Each use of the lock has an owner token of its own.                     *)
(***************************************************************************)
Token(p) == <<p, lock[p].nth>>

acquire(p) ==
  /\ ~lock[p].acquired /\ lock[p].nth < MaxAcquires
  /\ Command(p, LAMBDA s : SetNx(s, LockKey, <<p, lock[p].nth + 1>>, LeaseTtl), 1)
  /\ lock' = [lock EXCEPT ![p] = [acquired |-> TRUE, at |-> rclock, where |-> AnsweredBy(p),
                                  nth |-> @.nth + 1]]
  /\ UNCHANGED <<rclock, pendingTtl, granted, requests, admitted>>

\* Also after the lease has run out, when another process may have it.
release(p) ==
  /\ lock[p].acquired
  /\ \E res \in {0, 1} : Command(p, LAMBDA s : CompareAndDelete(s, LockKey, Token(p)), res)
  /\ lock' = [lock EXCEPT ![p].acquired = FALSE]
  /\ UNCHANGED <<rclock, pendingTtl, granted, requests, admitted>>

(***************************************************************************)
(* DistributedRateLimiter.is_allowed: INCR of the bucket of this window,   *)
(* and EXPIRE by whoever came first.                                       *)
(***************************************************************************)
\* Mutant: the limit itself is refused one request late.
AllowedLate(count) == count <= BucketLimit + 1

Allowed(count) == count <= BucketLimit

Bucket == rclock \div BucketLength

is_allowed(p) ==
  /\ pendingTtl[p] = Never /\ requests < MaxRequests
  /\ \E count \in 1..MaxRequests :
       /\ Command(p, LAMBDA s : Incr(s, RateKey(Bucket)), count)
       /\ granted' = IF Allowed(count)
                     THEN granted \cup {[where |-> AnsweredBy(p), bucket |-> Bucket, at |-> rclock,
                                         nth |-> requests + 1]}
                     ELSE granted
       /\ pendingTtl' = [pendingTtl EXCEPT ![p] = IF count = 1 THEN Bucket ELSE Never]
  /\ requests' = requests + 1
  /\ UNCHANGED <<rclock, lock, admitted>>

SetTtl(p) ==
  /\ pendingTtl[p] # Never
  /\ \E res \in {0, 1} :
       Command(p, LAMBDA s : Expire(s, RateKey(pendingTtl[p]), 2 * BucketLength), res)
  /\ pendingTtl' = [pendingTtl EXCEPT ![p] = Never]
  /\ UNCHANGED <<rclock, lock, granted, requests, admitted>>

\* Mutant: exists, then set, as is_duplicate_async and mark_seen_async would do it:
\* the answer may be older than the mark.
CheckThenMark(p) ==
  /\ Command(p, LAMBDA s : SetEx(s, MailKey, "1", MarkTtl), 1)
  /\ \/ admitted' = admitted \cup {[where |-> AnsweredBy(p), at |-> rclock, nth |-> Cardinality(admitted)]}
     \/ UNCHANGED admitted
  /\ UNCHANGED <<rclock, lock, pendingTtl, granted, requests>>

\* check_and_mark_async
check_and_mark_async(p) ==
  /\ \E res \in {0, 1} :
       /\ Command(p, LAMBDA s : SetNx(s, MailKey, "1", MarkTtl), res)
       /\ admitted' = IF res = 1 THEN admitted \cup {[where |-> AnsweredBy(p), at |-> rclock,
                                                          nth |-> Cardinality(admitted)]}
                      ELSE admitted
  /\ UNCHANGED <<rclock, lock, pendingTtl, granted, requests>>

\* mark_seen_async
mark_seen_async(p) ==
  /\ Command(p, LAMBDA s : SetEx(s, MailKey, "1", MarkTtl), 1)
  /\ UNCHANGED <<rclock, lock, pendingTtl, granted, requests, admitted>>

RedisTick ==
  /\ rclock < MaxRedisTime /\ rclock' = rclock + 1
  /\ UNCHANGED <<rstore, degraded, lock, pendingTtl, granted, requests, admitted>>

\* The three uses have keys of their own.  A run follows one of them; RedisSpec
\* has all three at once.
RedisNext(use) ==
  \/ RedisTick
  \/ \E p \in Procs :
       \/ use = "lock" /\ (acquire(p) \/ release(p))
       \/ use = "rate" /\ (is_allowed(p) \/ SetTtl(p))
       \/ use = "mark" /\ (check_and_mark_async(p) \/ mark_seen_async(p))

RedisSpec == RedisInit /\ [][\E use \in {"lock", "rate", "mark"} : RedisNext(use)]_redisVars

-----------------------------------------------------------------------------
RedisTypeOK ==
  /\ rclock \in 0..MaxRedisTime /\ degraded \subseteq Procs
  /\ \A p \in Procs : pendingTtl[p] \in {Never} \cup 0..Bucket /\ lock[p].nth \in 0..MaxAcquires
  /\ \A s \in DOMAIN rstore : s \in Procs \ degraded => rstore[s] = EmptyDict

(***************************************************************************)
(* Mutual exclusion: at no time do more processes hold a lease that has    *)
(* not run out than there are stores in use, which is one as long as no    *)
(* client has degraded.                                                    *)
(***************************************************************************)
HoldsLease(p) == lock[p].acquired /\ rclock <= lock[p].at + LeaseTtl
LeaseExclusive ==
  /\ Cardinality({p \in Procs : HoldsLease(p)}) <= 1 + Cardinality(degraded)
  /\ Cardinality({p \in Procs : HoldsLease(p) /\ lock[p].where = Server}) <= 1

(***************************************************************************)
(* A late release of a lease that has run out never takes the lease away   *)
(* from the process that has it now.                                       *)
(***************************************************************************)
ReleaseTakesOwnLeaseOnly ==
  [][ \A p \in Procs :
        HoldsLease(p) /\ lock'[p] = lock[p] /\ Alive(rstore[lock[p].where], LockKey)
          /\ rstore[lock[p].where][LockKey].val = Token(p) =>
            /\ LockKey \in DOMAIN rstore'[lock[p].where]
            /\ rstore'[lock[p].where][LockKey].val = Token(p) ]_redisVars

(***************************************************************************)
(* The limiter grants at most its limit in a bucket on each store in use,  *)
(* and so at most twice the limit in any span of a bucket's length.        *)
(***************************************************************************)
GrantsWithinLimit ==
  \A s \in DOMAIN rstore : \A at \in 0..rclock :
    LET mine == {g \in granted : g.where = s} IN
    /\ Cardinality({g \in mine : g.bucket = at \div BucketLength}) <= BucketLimit
    /\ Cardinality({g \in mine : g.at \in at..(at + BucketLength - 1)}) <= 2 * BucketLimit

(***************************************************************************)
(* A mail is let through once per TTL by each store in use, however many   *)
(* processes ask at the same time.                                         *)
(***************************************************************************)
AdmittedOncePerTtl ==
  \A a, b \in admitted : a # b /\ a.where = b.where => a.at + MarkTtl < b.at \/ b.at + MarkTtl < a.at

\* Processes that share locks, rate limits and marks, with a server that comes
\* and goes: one lease at a time, no more grants than the limit, one admission
\* per mark, and nobody releases the lease of another.
RedisSafe == [](RedisTypeOK /\ LeaseExclusive /\ GrantsWithinLimit /\ AdmittedOncePerTtl) /\ ReleaseTakesOwnLeaseOnly
=============================================================================
