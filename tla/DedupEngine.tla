---------------------------- MODULE DedupEngine -----------------------------
(***************************************************************************)
(* IngestionDeduplicationEngine (ingestion_gateway/dedup.py): every method *)
(* runs under one re-entrant lock, so each is one action.  Time is counted *)
(* in ticks of the clock time.time() reads; hashing the key is abstracted  *)
(* to the key itself.                                                      *)
(***************************************************************************)
EXTENDS DedupStore

CONSTANTS
  Keys,      \* (tenant, account, stripped provider message id)
  Ttls,      \* default_ttl_sec and the values ttl_sec overrides it with
  Tenants,
  TenantOf,  \* Keys -> Tenants: rec.tenant_id
  MaxTime,   \* bound on the clock
  MaxChecks  \* bound on total_checked

ASSUME KeysAssumption == TenantOf \in [Keys -> Tenants]
ASSUME TtlAssumption == Ttls \subseteq Nat
ASSUME BoundAssumption == MaxTime \in Nat /\ MaxChecks \in Nat

VARIABLES
  store,             \* _store: key -> expiry
  now,
  answer,            \* what the last check or look-up returned
  total_checked,
  total_duplicates

vars == <<store, now, answer, total_checked, total_duplicates>>
counters == <<total_checked, total_duplicates>>

Init == /\ store = EmptyDict
        /\ now = 0
        /\ answer = <<>>
        /\ total_checked = 0
        /\ total_duplicates = 0

\* Mutant: a suppressed duplicate is not counted as a check.
check_and_mark_uncounted(k, ttl) ==
  /\ total_checked < MaxChecks
  /\ \/ /\ Live(store, k, now)
        /\ answer' = <<k, "duplicate">>
        /\ total_duplicates' = total_duplicates + 1
        /\ UNCHANGED <<store, total_checked>>
     \/ /\ ~Live(store, k, now)
        /\ answer' = <<k, "new">>
        /\ total_checked' = total_checked + 1
        /\ store' = Put(store, k, now + ttl)
        /\ UNCHANGED total_duplicates
  /\ UNCHANGED now

check_and_mark(k, ttl) ==
  /\ total_checked < MaxChecks
  /\ total_checked' = total_checked + 1
  /\ \/ /\ Live(store, k, now)
        /\ answer' = <<k, "duplicate">>
        /\ total_duplicates' = total_duplicates + 1
        /\ UNCHANGED store
     \/ /\ ~Live(store, k, now)
        /\ answer' = <<k, "new">>
        /\ store' = Put(store, k, now + ttl)
        /\ UNCHANGED total_duplicates
  /\ UNCHANGED now

\* is_duplicate and get_record: an expired record they meet is deleted.
LookUp(k) ==
  /\ answer' = <<k, IF Live(store, k, now) THEN "seen" ELSE "unseen">>
  /\ store' = IF Live(store, k, now) THEN store ELSE Drop(store, {k})
  /\ UNCHANGED <<now, counters>>

mark_seen(k, ttl) ==
  /\ store' = Put(store, k, now + ttl)
  /\ UNCHANGED <<now, answer, counters>>

\* Mutant: records are pruned one tick before they run out.
prune_expired_early ==
  /\ store' = Drop(store, Expired(store, now + 1))
  /\ UNCHANGED <<now, answer, counters>>

prune_expired ==
  /\ store' = Drop(store, Expired(store, now))
  /\ UNCHANGED <<now, answer, counters>>

\* clear(tenant_id) for one tenant, clear() for all of them.
clear(T) ==
  /\ store' = Drop(store, {k \in DOMAIN store : TenantOf[k] \in T})
  /\ UNCHANGED <<now, answer, counters>>

Tick == /\ now < MaxTime
        /\ now' = now + 1
        /\ UNCHANGED <<store, answer, counters>>

Next == \/ \E k \in Keys, ttl \in Ttls : check_and_mark(k, ttl) \/ mark_seen(k, ttl)
        \/ \E k \in Keys : LookUp(k)
        \/ prune_expired
        \/ \E T \in {{t} : t \in Tenants} \cup {Tenants} : clear(T)
        \/ Tick

Spec == Init /\ [][Next]_vars

-----------------------------------------------------------------------------
Verdicts == {"new", "duplicate", "seen", "unseen"}

\* Type invariant: the store is a finite map from keys to expiry times, and
\* get_stats never reports more suppressed duplicates than checks.
TypeOK ==
  /\ DOMAIN store \subseteq Keys
  /\ store \in [DOMAIN store -> Nat]
  /\ now \in 0..MaxTime
  /\ answer \in {<<>>} \cup (Keys \X Verdicts)
  /\ total_checked \in 0..MaxChecks
  /\ total_duplicates \in 0..total_checked

(***************************************************************************)
(* The refinement: a key's window is what is left of its live record.      *)
(***************************************************************************)
Remaining(k) == IF Live(store, k, now) THEN store[k] - now ELSE 0

Window == INSTANCE OncePerWindow WITH window <- [k \in Keys |-> Remaining(k)]

\* The engine admits a message at most once per window, whatever the callers
\* interleave: lazy deletion on look-up, pruning and clearing one tenant never
\* re-open the window of a key that is still suppressed, and an expired record
\* that nobody has deleted yet never suppresses one (check_and_mark,
\* is_duplicate, get_record, prune_expired, clear).
AdmitsOncePerWindow == Window!Spec
=============================================================================
