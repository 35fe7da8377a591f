----------------------------- MODULE DedupStore -----------------------------
(***************************************************************************)
(* The dictionary behind IngestionDeduplicationEngine, as pure operators:  *)
(* a store maps a deduplication key (tenant, account, provider message id) *)
(* to the time its record expires.  Every component that consults the      *)
(* engine shares these.                                                    *)
(***************************************************************************)
EXTENDS Naturals, Dict

\* "key in self._store" and "now < expiry".
Live(store, k, t) == k \in DOMAIN store /\ t < store[k]

\* The keys whose record has run out at time t: "now >= exp".
Expired(store, t) == {k \in DOMAIN store : t >= store[k]}
=============================================================================
