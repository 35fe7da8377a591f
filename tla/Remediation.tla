---------------------------- MODULE Remediation -----------------------------
(***************************************************************************)
(* RemediationDispatcher.dispatch_remediation (remediation/dispatcher.py)  *)
(* with ResponsePolicyEngine, the audit repository and an adapter.         *)
(*                                                                         *)
(* A dispatch is synchronous.  What it shares with other processes is the  *)
(* audit table and the system the adapter acts on, so it is cut where it   *)
(* touches them: look up and decide, execute and verify, save.  Each       *)
(* worker process has a policy engine of its own, whose used approval ids  *)
(* live in memory.  Only one tenant is modelled: its id is part of every   *)
(* idempotency key.  SIEM export and event publication swallow their       *)
(* exceptions and change nothing that is modelled.                         *)
(***************************************************************************)
EXTENDS Naturals, FiniteSets

CONSTANTS
  Workers,    \* server processes
  Keys,       \* idempotency keys: incident, target and action of a dispatch
  ActionOf,   \* key -> its ActionTaken
  Tokens,     \* approval ids
  Requests,   \* the calls of dispatch_remediation: [key, dry, confident, lineage,
              \* token, bound]; token is an approval id or "None", bound whether
              \* it names the tenant and message of the plan
  RetryGap,   \* the fewest seconds before a key is dispatched again
  ReadsMayFail, \* whether a read of the audit log may raise
  MaxTime, MaxExec

ASSUME RequestAssumption ==
  Requests \subseteq [key : Keys, dry : BOOLEAN, confident : BOOLEAN, lineage : BOOLEAN,
                      token : Tokens \cup {"None"}, bound : BOOLEAN]
ASSUME BoundAssumption == ReadsMayFail \in BOOLEAN /\ RetryGap \in Nat /\ MaxTime \in Nat /\ MaxExec \in Nat

VARIABLES
  now,        \* datetime('now'), in whole seconds
  audit,      \* the rows of audit_logs: [key, status, dry, at]
  used,       \* worker -> _used_approval_ids
  call,       \* worker -> the dispatch it is in
  executed,   \* key -> how often its action was carried out
  grants,     \* worker -> token -> live dispatches it let through since the start
  confirmed   \* the keys a live call was answered VERIFIED for

vars == <<now, audit, used, call, executed, grants, confirmed>>

Statuses == {"VERIFIED", "FAILED", "FAILED_PERMANENTLY", "REJECTED", "PENDING_APPROVAL"}
HIGH_IMPACT_ACTIONS == {"BLOCKED"}
Informational == {"DELIVERED", "PENDING"}
Supported == {"QUARANTINED", "RETRACTED", "BANNER_INJECTED", "BLOCKED"}
NoCall == [pc |-> "idle"]

Init == /\ now = 0 /\ audit = {} /\ confirmed = {}
        /\ used = [w \in Workers |-> {}]
        /\ call = [w \in Workers |-> NoCall]
        /\ executed = [k \in Keys |-> 0]
        /\ grants = [w \in Workers |-> [t \in Tokens |-> 0]]

\* Mutant: rows are ordered oldest first.
OldestRows(k) == {r \in audit : r.key = k /\ \A o \in audit : o.key = k => r.at <= o.at}

\* Rows LIKE the key ORDER BY timestamp DESC LIMIT 1: any row of the last second.
LatestRows(k) == {r \in audit : r.key = k /\ \A o \in audit : o.key = k => o.at <= r.at}

\* A cached result is returned only for a row VERIFIED (EXECUTED is never saved).
Cached(r) == r.status = "VERIFIED"

NeedsApproval(req) ==
  ActionOf[req.key] \in HIGH_IMPACT_ACTIONS

\* Mutant: a token is checked against the plan but not against earlier uses.
PolicyReplaying(w, req) ==
  IF ~req.lineage THEN "FAILED_PERMANENTLY"
  ELSE IF ActionOf[req.key] \in Informational THEN "POLICY_VALIDATED"
  ELSE IF ~req.confident /\ ActionOf[req.key] # "BANNER_INJECTED" THEN "REJECTED"
  ELSE IF ~NeedsApproval(req) THEN "POLICY_VALIDATED"
  ELSE IF req.token = "None" THEN "PENDING_APPROVAL"
  ELSE IF ~req.bound THEN "FAILED_PERMANENTLY"
  ELSE "POLICY_VALIDATED"

\* evaluate_action_policy.
Policy(w, req) ==
  IF ~req.lineage THEN "FAILED_PERMANENTLY"
  ELSE IF ActionOf[req.key] \in Informational THEN "POLICY_VALIDATED"
  ELSE IF ~req.confident /\ ActionOf[req.key] # "BANNER_INJECTED" THEN "REJECTED"
  ELSE IF ~NeedsApproval(req) THEN "POLICY_VALIDATED"
  ELSE IF req.token = "None" THEN "PENDING_APPROVAL"
  ELSE IF req.token \in used[w] \/ ~req.bound THEN "FAILED_PERMANENTLY"
  ELSE "POLICY_VALIDATED"

\* What the dispatcher does with the verdict: refuse, simulate, or go ahead if an
\* adapter supports the action.
Decide(w, req) ==
  LET status == Policy(w, req) IN
  IF status # "POLICY_VALIDATED" THEN status
  ELSE IF req.dry THEN "VERIFIED"
  ELSE IF ActionOf[req.key] \notin Supported THEN "FAILED_PERMANENTLY"
  ELSE "DISPATCHING"

Saving(req, status) == [pc |-> "saving", req |-> req, status |-> status]
Executing(req) == [pc |-> "executing", req |-> req]

-----------------------------------------------------------------------------
Spaced(k) == \A r \in audit : r.key = k => r.at + RetryGap <= now

\* The dispatch finds an earlier success and returns it.
ReturnCached(w, req) ==
  /\ call[w] = NoCall /\ Spaced(req.key)
  /\ \E r \in LatestRows(req.key) : Cached(r)
  /\ confirmed' = IF req.dry THEN confirmed ELSE confirmed \cup {req.key}
  /\ UNCHANGED <<now, audit, used, call, executed, grants>>

\* The dispatch finds none (an exception while reading counts as none), evaluates
\* the policy, consuming the approval, and decides.
Evaluate(w, req) ==
  LET consumes == Policy(w, req) = "POLICY_VALIDATED" /\ NeedsApproval(req)
      goes == Decide(w, req) = "DISPATCHING" IN
  /\ call[w] = NoCall /\ Spaced(req.key)
  /\ \/ LatestRows(req.key) = {}
     \/ \E r \in LatestRows(req.key) : ~Cached(r)
     \/ ReadsMayFail
  /\ goes => executed[req.key] < MaxExec
  /\ used' = IF consumes THEN [used EXCEPT ![w] = @ \cup {req.token}] ELSE used
  /\ grants' = IF consumes /\ goes THEN [grants EXCEPT ![w][req.token] = @ + 1] ELSE grants
  /\ call' = [call EXCEPT ![w] = IF goes THEN Executing(req) ELSE Saving(req, Decide(w, req))]
  /\ UNCHANGED <<now, audit, executed, confirmed>>

\* Mutant: an adapter that reports a failure is recorded as a success.
ExecuteOptimistic(w) ==
  /\ call[w].pc = "executing"
  /\ \E done, ok \in BOOLEAN :
       /\ executed' = IF done THEN [executed EXCEPT ![call[w].req.key] = @ + 1] ELSE executed
       /\ call' = [call EXCEPT ![w] = Saving(@.req, "VERIFIED")]
  /\ UNCHANGED <<now, audit, used, grants, confirmed>>

\* Mutant: a failed verification leaves the status as it was.
ExecuteUnverified(w) ==
  /\ call[w].pc = "executing"
  /\ \E done, ok \in BOOLEAN :
       /\ ok => done
       /\ executed' = IF done THEN [executed EXCEPT ![call[w].req.key] = @ + 1] ELSE executed
       /\ call' = [call EXCEPT ![w] = Saving(@.req, IF ok THEN "VERIFIED" ELSE "VERIFYING")]
  /\ UNCHANGED <<now, audit, used, grants, confirmed>>

\* execute_action and verify_action: an action that succeeded and verified was
\* carried out; one that failed, or failed to verify, may have been.
Execute(w) ==
  /\ call[w].pc = "executing"
  /\ \E done, ok \in BOOLEAN :
       /\ ok => done
       /\ executed' = IF done THEN [executed EXCEPT ![call[w].req.key] = @ + 1] ELSE executed
       /\ call' = [call EXCEPT ![w] = Saving(@.req, IF ok THEN "VERIFIED" ELSE "FAILED")]
  /\ UNCHANGED <<now, audit, used, grants, confirmed>>

\* save_remediation_audit, and the result is returned.
Save(w) ==
  /\ call[w].pc = "saving"
  /\ audit' = audit \cup {[key |-> call[w].req.key, status |-> call[w].status,
                           dry |-> call[w].req.dry, at |-> now]}
  /\ confirmed' = IF call[w].req.dry \/ call[w].status # "VERIFIED" THEN confirmed
                   ELSE confirmed \cup {call[w].req.key}
  /\ call' = [call EXCEPT ![w] = NoCall]
  /\ UNCHANGED <<now, used, executed, grants>>

\* The adapter or the repository raises and so does the dispatch: no record.
Raise(w) ==
  /\ call[w] # NoCall
  /\ \/ UNCHANGED executed
     \/ /\ call[w].pc = "executing"
        /\ executed' = [executed EXCEPT ![call[w].req.key] = @ + 1]
  /\ call' = [call EXCEPT ![w] = NoCall]
  /\ UNCHANGED <<now, audit, used, grants, confirmed>>

\* The process dies and another takes its place.
Crash(w) ==
  /\ call' = [call EXCEPT ![w] = NoCall]
  /\ used' = [used EXCEPT ![w] = {}]
  /\ grants' = [grants EXCEPT ![w] = [t \in Tokens |-> 0]]
  /\ UNCHANGED <<now, audit, executed, confirmed>>

Tick == now < MaxTime /\ now' = now + 1 /\ UNCHANGED <<audit, used, call, executed, grants, confirmed>>

Next == \/ Tick
        \/ \E w \in Workers : \/ Execute(w) \/ Save(w) \/ Raise(w) \/ Crash(w)
                              \/ \E req \in Requests : ReturnCached(w, req) \/ Evaluate(w, req)

Spec == Init /\ [][Next]_vars

-----------------------------------------------------------------------------
\* Type invariant.
TypeOK ==
  /\ now \in 0..MaxTime
  /\ audit \subseteq [key : Keys, status : Statuses, dry : BOOLEAN, at : 0..MaxTime]
  /\ used \in [Workers -> SUBSET Tokens]
  /\ call \in [Workers -> {NoCall} \cup [pc : {"executing"}, req : Requests]
                          \cup [pc : {"saving"}, req : Requests, status : Statuses]]
  /\ executed \in [Keys -> Nat]
  /\ grants \in [Workers -> [Tokens -> Nat]]
  /\ confirmed \subseteq Keys

\* Re-submitting a key returns the cached result: once the audit log shows that
\* an action was carried out and verified, it is not carried out again, however
\* many dispatches failed before, raised, or died half way.
ReexecutionPrevented ==
  [][\A k \in Keys :
       (\E r \in audit : r.key = k /\ r.status = "VERIFIED" /\ ~r.dry) => executed'[k] = executed[k]]_vars

\* An approval lets a process carry out at most one high-impact action, and none
\* it has not recorded as used: not for another target of the same message, nor
\* for a retry after the adapter failed.
ApprovalUsedOnce ==
  \A w \in Workers, t \in Tokens :
    grants[w][t] <= 1 /\ (grants[w][t] = 1 => t \in used[w])

\* A VERIFIED row that is not marked as a dry run is the trace of an action that
\* was carried out.
AuditTruthful ==
  \A r \in audit : r.status = "VERIFIED" /\ ~r.dry => executed[r.key] > 0

\* A live call answered VERIFIED has had its action carried out.
VerifiedAnswerWasExecuted ==
  \A k \in confirmed : executed[k] > 0
=============================================================================
