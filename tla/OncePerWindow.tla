--------------------------- MODULE OncePerWindow ----------------------------
(***************************************************************************)
(* What deduplication promises, without a store: every key has a quiet     *)
(* window that counts down, a key is admitted only when its window is      *)
(* over, and admitting it opens a new one.  How records are kept, expire   *)
(* or are pruned is not visible here.                                      *)
(***************************************************************************)
EXTENDS Naturals

CONSTANTS
  Keys,      \* deduplication keys
  Ttls,      \* the window lengths callers ask for
  Tenants,
  TenantOf   \* the tenant a key belongs to

VARIABLES
  window,    \* how long each key stays suppressed (0: it may be admitted)
  answer     \* the last answer given: <<key, verdict>>

Init == /\ window = [k \in Keys |-> 0]
        /\ answer = <<>>

Admit(k, ttl) == /\ window[k] = 0
                 /\ window' = [window EXCEPT ![k] = ttl]
                 /\ answer' = <<k, "new">>

Suppress(k) == /\ window[k] > 0
               /\ answer' = <<k, "duplicate">>
               /\ UNCHANGED window

\* A look at the window that does not open one.
Inspect(k) == /\ answer' = <<k, IF window[k] > 0 THEN "seen" ELSE "unseen">>
              /\ UNCHANGED window

\* An explicit record replaces whatever window the key had.
Record(k, ttl) == /\ window' = [window EXCEPT ![k] = ttl]
                  /\ UNCHANGED answer

Forget(T) == /\ window' = [k \in Keys |-> IF TenantOf[k] \in T THEN 0 ELSE window[k]]
             /\ UNCHANGED answer

Elapse == /\ window' = [k \in Keys |-> IF window[k] > 0 THEN window[k] - 1 ELSE 0]
          /\ UNCHANGED answer

Next == \/ \E k \in Keys, ttl \in Ttls : Admit(k, ttl) \/ Record(k, ttl)
        \/ \E k \in Keys : Suppress(k) \/ Inspect(k)
        \/ \E T \in SUBSET Tenants : Forget(T)
        \/ Elapse

Spec == Init /\ [][Next]_<<window, answer>>
=============================================================================
