------------------------------ MODULE Feedback ------------------------------
(***************************************************************************)
(* Analyst feedback (feedback/): the service that records corrections, the *)
(* convergence engine that moves the trust of an entity and can be rolled  *)
(* back, and the tuner that recommends and applies a tenant's sensitivity. *)
(*                                                                         *)
(* No body that holds one of the locks waits for anything, so that each    *)
(* call is one action.  A correction reaches the convergence engine as an  *)
(* event, which may be lost, come late, out of order or twice.  Trust is   *)
(* in thousandths, weights and signals in hundredths.                      *)
(***************************************************************************)
EXTENDS Integers, Sequences, FiniteSets

CONSTANTS
  Analysts,        \* analyst -> [tenant, role, trust, namedSenior]
  Incidents,       \* incident -> [tenant, entity]: entity is its message_id
  Corrections,     \* the verdicts analysts choose from
  IdempotencyWindow, \* 300 seconds
  AnalyticsWindow, \* window_days
  MinSamples,      \* min_sample_size
  MaxRecords,      \* bound on the corrections
  MaxRecommendations,
  MaxRedeliveries, \* bound on the events delivered twice
  MaxFeedbackTime

ASSUME WindowAssumption == IdempotencyWindow \in Nat
ASSUME AnalystAssumption == \A a \in DOMAIN Analysts : Analysts[a].trust \in {"unset", "JUNIOR", "SENIOR", "LEAD"}
ASSUME CorrectionAssumption ==
  Corrections \subseteq {"FALSE_POSITIVE", "CONFIRMED_CLEAN", "BENIGN_ANOMALY", "NEEDS_ESCALATION",
                        "CONFIRMED_SUSPICIOUS", "FALSE_NEGATIVE", "CONFIRMED_MALICIOUS"}

VARIABLES
  fclock,
  fbRecords,   \* the audit records: [analyst, tenant, incident, verdict, trust, at]
  trust,       \* entity -> trust_score
  audits,      \* [feedback, entity, prior, posterior, rolled]
  redelivered,
  recs,        \* [tenant, from, to, status]
  sensitivity, \* tenant -> 1 (permissive), 2 (balanced), 3 (aggressive)
  orderly      \* entities all of whose rollbacks undid the latest update (history)

fbVars == <<fclock, fbRecords, trust, audits, redelivered, recs, sensitivity, orderly>>

Entities == {Incidents[i].entity : i \in DOMAIN Incidents}
FbTenants == {Incidents[i].tenant : i \in DOMAIN Incidents}
InitialTrust == 500

FeedbackInit ==
  /\ fclock = 0 /\ fbRecords = <<>> /\ audits = <<>> /\ redelivered = 0 /\ recs = <<>>
  /\ trust = [e \in Entities |-> InitialTrust]
  /\ sensitivity = [t \in FbTenants |-> 2]
  /\ orderly = Entities

-----------------------------------------------------------------------------
\* get_recent_analyst_feedback
RecentlyCorrected(a, i) ==
  \E r \in DOMAIN fbRecords : /\ fbRecords[r].analyst = a /\ fbRecords[r].incident = i
                              /\ fbRecords[r].at >= fclock - IdempotencyWindow

Admins == {"ADMIN", "SUPER_ADMIN", "LEAD_SOC_ADMIN"}

\* Trust levels of callers without one of their own.
TrustLevel(a) ==
  CASE Analysts[a].trust # "unset" -> Analysts[a].trust
    [] Analysts[a].trust = "unset" /\ Analysts[a].role \in Admins -> "LEAD"
    [] Analysts[a].trust = "unset" /\ Analysts[a].role \notin Admins ->
         IF Analysts[a].namedSenior THEN "SENIOR" ELSE "JUNIOR"

\* Mutant: the window is looked up for the incident's last correction only.
SubmitUnlessLast(a, i, v) ==
  /\ Len(fbRecords) < MaxRecords
  /\ Analysts[a].role # "AUDITOR"
  /\ Incidents[i].tenant = Analysts[a].tenant
  /\ fbRecords # <<>> => fbRecords[Len(fbRecords)].analyst # a
  /\ fbRecords' = Append(fbRecords, [analyst |-> a, tenant |-> Analysts[a].tenant, incident |-> i,
                                     verdict |-> v, trust |-> TrustLevel(a), at |-> fclock])
  /\ UNCHANGED <<fclock, trust, audits, redelivered, recs, sensitivity, orderly>>

\* submit_incident_feedback and submit_feedback: refused for auditors, for an
\* incident of another tenant and within the window; the publication of the
\* event cannot fail the call.
submit_feedback(a, i, v) ==
  /\ Len(fbRecords) < MaxRecords
  /\ Analysts[a].role # "AUDITOR"
  /\ Incidents[i].tenant = Analysts[a].tenant
  /\ ~RecentlyCorrected(a, i)
  /\ fbRecords' = Append(fbRecords, [analyst |-> a, tenant |-> Analysts[a].tenant, incident |-> i,
                                     verdict |-> v, trust |-> TrustLevel(a), at |-> fclock])
  /\ UNCHANGED <<fclock, trust, audits, redelivered, recs, sensitivity, orderly>>

-----------------------------------------------------------------------------
Weight == [JUNIOR |-> 50, SENIOR |-> 85, LEAD |-> 100]

\* FEEDBACK_SIGNAL_MAPPING
SignalOf == [FALSE_POSITIVE |-> 100, CONFIRMED_CLEAN |-> 80, BENIGN_ANOMALY |-> 40,
             NEEDS_ESCALATION |-> 0, CONFIRMED_SUSPICIOUS |-> -50, FALSE_NEGATIVE |-> -100,
             CONFIRMED_MALICIOUS |-> -100]

LearningRate == 200
MaxDelta == 200

Clamp(x, lo, hi) == IF x < lo THEN lo ELSE IF x > hi THEN hi ELSE x

Delta(r) == Clamp((LearningRate * Weight[r.trust] * SignalOf[r.verdict]) \div 10000, -MaxDelta, MaxDelta)

\* Mutant: the posterior is not clamped.
PosteriorUnclamped(prior, r) == prior + Delta(r)

Posterior(prior, r) == Clamp(prior + Delta(r), 0, 1000)

Processed(f) == \E n \in DOMAIN audits : audits[n].feedback = f

\* handle_event, apply_convergence of an event that was not seen before
apply_convergence(f) ==
  LET e == Incidents[fbRecords[f].incident].entity IN
  /\ ~Processed(f)
  /\ trust' = [trust EXCEPT ![e] = Posterior(@, fbRecords[f])]
  /\ audits' = Append(audits, [feedback |-> f, entity |-> e, prior |-> trust[e],
                               posterior |-> trust'[e], rolled |-> FALSE])
  /\ UNCHANGED <<fclock, fbRecords, redelivered, recs, sensitivity, orderly>>

\* Mutant: the trail is not asked whether the event was seen.
RedeliverAgain(f) ==
  LET e == Incidents[fbRecords[f].incident].entity IN
  /\ Processed(f) /\ redelivered < MaxRedeliveries /\ redelivered' = redelivered + 1
  /\ trust' = [trust EXCEPT ![e] = Posterior(@, fbRecords[f])]
  /\ audits' = Append(audits, [feedback |-> f, entity |-> e, prior |-> trust[e],
                               posterior |-> trust'[e], rolled |-> FALSE])
  /\ UNCHANGED <<fclock, fbRecords, recs, sensitivity, orderly>>

\* The same event again: IDEMPOTENT_DUPLICATE, also after a rollback.
Redelivered(f) ==
  /\ Processed(f) /\ redelivered < MaxRedeliveries /\ redelivered' = redelivered + 1
  /\ UNCHANGED <<fclock, fbRecords, trust, audits, recs, sensitivity, orderly>>

IsAdmin(a, t) == /\ Analysts[a].role \in Admins
                 /\ Analysts[a].tenant = t

Standing(e) == {n \in DOMAIN audits : audits[n].entity = e /\ ~audits[n].rolled}

\* Mutant: the update's posterior is put back.
RollbackToPosterior(n) ==
  /\ ~audits[n].rolled
  /\ \E a \in DOMAIN Analysts : IsAdmin(a, fbRecords[audits[n].feedback].tenant)
  /\ trust' = [trust EXCEPT ![audits[n].entity] = audits[n].posterior]
  /\ audits' = [audits EXCEPT ![n].rolled = TRUE]
  /\ orderly' = IF \A m \in Standing(audits[n].entity) : m <= n THEN orderly
                ELSE orderly \ {audits[n].entity}
  /\ UNCHANGED <<fclock, fbRecords, redelivered, recs, sensitivity>>

\* rollback_convergence puts back the score from before the update, whatever has
\* been learnt since.
rollback_convergence(n) ==
  /\ ~audits[n].rolled
  /\ \E a \in DOMAIN Analysts : IsAdmin(a, fbRecords[audits[n].feedback].tenant)
  /\ trust' = [trust EXCEPT ![audits[n].entity] = audits[n].prior]
  /\ audits' = [audits EXCEPT ![n].rolled = TRUE]
  /\ orderly' = IF \A m \in Standing(audits[n].entity) : m <= n THEN orderly
                ELSE orderly \ {audits[n].entity}
  /\ UNCHANGED <<fclock, fbRecords, redelivered, recs, sensitivity>>

-----------------------------------------------------------------------------
InWindow(t) == {r \in DOMAIN fbRecords : fbRecords[r].tenant = t /\ fbRecords[r].at >= fclock - AnalyticsWindow}
Count(t, vs) == Cardinality({r \in InWindow(t) : fbRecords[r].verdict \in vs})

\* calculate_window_analytics: errors and their base, in which the rate has no
\* value when the base is 0.
FalsePositives(t) == [n |-> Count(t, {"FALSE_POSITIVE"}),
                      of |-> Count(t, {"FALSE_POSITIVE", "CONFIRMED_CLEAN", "BENIGN_ANOMALY"})]
FalseNegatives(t) == [n |-> Count(t, {"FALSE_NEGATIVE"}),
                      of |-> Count(t, {"FALSE_NEGATIVE", "CONFIRMED_MALICIOUS", "CONFIRMED_SUSPICIOUS"})]

AtLeast(rate, pct) == rate.of > 0 /\ 100 * rate.n >= pct * rate.of

Direction(t) ==
  CASE Cardinality(InWindow(t)) < MinSamples -> 0
    [] /\ Cardinality(InWindow(t)) >= MinSamples
       /\ AtLeast(FalsePositives(t), 15) /\ ~AtLeast(FalseNegatives(t), 5) -> -1
    [] /\ Cardinality(InWindow(t)) >= MinSamples
       /\ AtLeast(FalseNegatives(t), 5) /\ ~AtLeast(FalsePositives(t), 10) -> 1
    [] OTHER -> 0

\* generate_recommendation, from the sensitivity at that moment
generate_recommendation(t) ==
  /\ Len(recs) < MaxRecommendations
  /\ recs' = Append(recs, [tenant |-> t, from |-> sensitivity[t],
                           to |-> Clamp(sensitivity[t] + Direction(t), 1, 3),
                           status |-> "PENDING_REVIEW"])
  /\ UNCHANGED <<fclock, fbRecords, trust, audits, redelivered, sensitivity, orderly>>

\* Mutant: a recommendation stays pending when it is applied.
ApplyPending(n) ==
  /\ recs[n].status = "PENDING_REVIEW"
  /\ \E a \in DOMAIN Analysts : IsAdmin(a, recs[n].tenant)
  /\ sensitivity' = [sensitivity EXCEPT ![recs[n].tenant] = recs[n].to]
  /\ UNCHANGED <<fclock, fbRecords, trust, audits, redelivered, recs, orderly>>

\* apply_recommendation, whatever the sensitivity has become since
apply_recommendation(n) ==
  /\ recs[n].status = "PENDING_REVIEW"
  /\ \E a \in DOMAIN Analysts : IsAdmin(a, recs[n].tenant)
  /\ recs' = [recs EXCEPT ![n].status = "APPLIED"]
  /\ sensitivity' = [sensitivity EXCEPT ![recs[n].tenant] = recs[n].to]
  /\ UNCHANGED <<fclock, fbRecords, trust, audits, redelivered, orderly>>

FeedbackTick ==
  /\ fclock < MaxFeedbackTime /\ fclock' = fclock + 1
  /\ UNCHANGED <<fbRecords, trust, audits, redelivered, recs, sensitivity, orderly>>

\* Convergence and tuning both read the records and do not touch one another; a
\* behaviour follows one of them.
FeedbackNext(use) ==
  \/ FeedbackTick
  \/ \E a \in DOMAIN Analysts, i \in DOMAIN Incidents, v \in Corrections : submit_feedback(a, i, v)
  \/ /\ use = "convergence"
     /\ \/ \E f \in DOMAIN fbRecords : apply_convergence(f) \/ Redelivered(f)
        \/ \E n \in DOMAIN audits : rollback_convergence(n)
  \/ /\ use = "tuning"
     /\ \/ \E t \in FbTenants : generate_recommendation(t)
        \/ \E n \in DOMAIN recs : apply_recommendation(n)

FeedbackSpec == FeedbackInit /\ [][\E use \in {"convergence", "tuning"} : FeedbackNext(use)]_fbVars

-----------------------------------------------------------------------------
\* Types; trust and its movements stay in the ranges the DTOs accept.
FeedbackTypeOK ==
  /\ \A e \in Entities : trust[e] \in 0..1000
  /\ \A n \in DOMAIN audits : audits[n].posterior - audits[n].prior \in -MaxDelta..MaxDelta
  /\ \A t \in FbTenants : sensitivity[t] \in 1..3
  /\ \A n \in DOMAIN recs : recs[n].from \in 1..3 /\ recs[n].to \in 1..3

(***************************************************************************)
(* An analyst speaks about an incident at most once in five minutes, and   *)
(* only about incidents of the own tenant, whoever else corrects it in     *)
(* between.                                                                *)
(***************************************************************************)
OneVerdictPerWindow ==
  \A r, s \in DOMAIN fbRecords :
    /\ Incidents[fbRecords[r].incident].tenant = Analysts[fbRecords[r].analyst].tenant
    /\ r < s /\ fbRecords[r].analyst = fbRecords[s].analyst
         /\ fbRecords[r].incident = fbRecords[s].incident
       => fbRecords[s].at - fbRecords[r].at > IdempotencyWindow

(***************************************************************************)
(* A correction moves trust once, however often and in whatever order the  *)
(* events arrive, and a rollback does not let it in again.                 *)
(***************************************************************************)
ConvergesOnce ==
  \A m, n \in DOMAIN audits : audits[m].feedback = audits[n].feedback => m = n

(***************************************************************************)
(* Rolling back the latest updates first undoes them: the trust is what    *)
(* the last update that stands left, or the initial trust.  In another     *)
(* order an update that stands is lost, or one rolled back comes back.     *)
(***************************************************************************)
RollbackRestores ==
  \A e \in orderly :
    trust[e] = IF Standing(e) = {} THEN InitialTrust
               ELSE audits[CHOOSE n \in Standing(e) : \A m \in Standing(e) : m <= n].posterior

(***************************************************************************)
(* The sensitivity changes only by applying a recommendation, once; and by *)
(* more than one tier only when the recommendation is older than another   *)
(* that has been applied.                                                  *)
(***************************************************************************)
JumpsOnlyWhenStale ==
  [][ \A t \in FbTenants : sensitivity'[t] # sensitivity[t] =>
        \E n \in DOMAIN recs :
          /\ recs[n].tenant = t /\ recs[n].to = sensitivity'[t]
          /\ recs[n].status = "PENDING_REVIEW" /\ recs'[n].status = "APPLIED"
          /\ \/ sensitivity'[t] - sensitivity[t] \in -1..1
             \/ \E m \in DOMAIN recs : recs[m].status = "APPLIED" /\ recs[n].from # sensitivity[t] ]_fbVars

\* Feedback that is redelivered or contradicted, and thresholds that are tuned
\* and rolled back: one verdict per window, one convergence per consensus, a
\* rollback that restores, and jumps only from a stale recommendation.
FeedbackSafe == [](FeedbackTypeOK /\ OneVerdictPerWindow /\ ConvergesOnce /\ RollbackRestores) /\ JumpsOnlyWhenStale
=============================================================================
