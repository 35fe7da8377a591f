--------------------------- MODULE Notifications ----------------------------
(***************************************************************************)
(* The SOC notification engine (notifications/engine.py), the subscriber   *)
(* that turns domain events into alerts (notifications/subscribers.py) and *)
(* the channels that carry them.  A handler runs without a pause up to the *)
(* first send, so rate limit, deduplication and routing of an alert are    *)
(* one action; each attempt on each channel is an action of its own, since *)
(* the channels of an alert and the alerts themselves run concurrently.    *)
(***************************************************************************)
EXTENDS Naturals, FiniteSets, Dict

CONSTANTS
  Alerts,       \* the domain events: event -> [kind, tenant, target, verdict, secrets]
  Scenarios,    \* sets of events that are published together
  NoTarget,     \* an event without incident_id and message_id
  ChannelsOf,   \* tenant -> the enabled channels
  Route,        \* tenant -> channel -> "none", "refused", "simulated" or "url"
  RateWindow,   \* 60 seconds
  RateLimit,    \* rate_limit_per_minute
  DedupWindow,  \* threat_dedup_window_sec
  MaxSends,     \* max_retries + 1
  MaxLost,      \* bound on the answers lost after a delivery
  MaxTime       \* bound on the clock

ASSUME AlertsAssumption == IsFiniteSet(DOMAIN Alerts)
ASSUME LimitsAssumption == RateWindow \in Nat /\ RateLimit \in Nat /\ DedupWindow \in Nat /\ MaxSends \in Nat

\* Only a webhook's URL is validated, and only a mail can do without a receiver.
ASSUME ChannelsAssumption ==
  \A a \in DOMAIN Alerts : \A c \in ChannelsOf[Alerts[a].tenant] :
    /\ c \in {"slack", "teams", "webhook", "email"}
    /\ \/ Route[Alerts[a].tenant][c] \in {"none", "url"}
       \/ c = "webhook" /\ Route[Alerts[a].tenant][c] = "refused"
       \/ c = "email" /\ Route[Alerts[a].tenant][c] = "simulated"

VARIABLES
  clock,         \* time.time()
  phase,        \* event -> where its alert is
  handledAt,    \* event -> when it was handled (history)
  records,      \* _rate_limit_records: tenant -> the timestamps, by the alert of each
  cache,        \* _dedup_cache: key -> expiry
  tries,        \* event -> channel -> attempts made
  outcome,      \* event -> channel -> the status of the last attempt
  copies,       \* event -> channel -> the copies that reached the receiver
  lost,         \* <<event, channel, attempt>> of the copies whose answer was lost (history)
  counts,       \* the counters of get_metrics
  announced     \* what _post_dispatch_publish published: <<event, what>>

notifyVars == <<clock, phase, handledAt, records, cache, tries, outcome, copies, lost, counts,
                announced>>

Events == DOMAIN Alerts
AlertTenants == {Alerts[a].tenant : a \in Events}
Targets(a) == ChannelsOf[Alerts[a].tenant]
PerChannel(v) == [a \in Events |-> [c \in Targets(a) |-> v]]

NotifyInit ==
  /\ clock = 0
  /\ \E s \in Scenarios : phase = [a \in Events |-> IF a \in s THEN "published" ELSE "absent"]
  /\ handledAt = [a \in Events |-> 0]
  /\ records = [t \in AlertTenants |-> EmptyDict] /\ cache = EmptyDict
  /\ tries = PerChannel(0) /\ outcome = PerChannel("PENDING") /\ copies = PerChannel({})
  /\ lost = {}
  /\ counts = [dispatched |-> 0, delivered |-> 0, failed |-> 0, suppressed |-> 0, limited |-> 0]
  /\ announced = {}

\* handle_risk_scored alerts about these verdicts only; the other handlers
\* about every event.
Notifies(a) == Alerts[a].kind = "risk" => Alerts[a].verdict \in {"MALICIOUS", "SUSPICIOUS"}

\* Mutant: the key leaves out the name of the event.
DedupKeyLoose(a) == <<Alerts[a].tenant, Alerts[a].target>>

\* tenant:event:target, without which an alert is never a duplicate
DedupKey(a) == <<Alerts[a].tenant, Alerts[a].kind, Alerts[a].target>>

\* The timestamps a sliding window of a minute still holds.
Recent(t) == Drop(records[t], {a \in DOMAIN records[t] : records[t][a] + RateWindow <= clock})

\* Mutant: one too many.
RateAllowsOneMore(t) == Cardinality(DOMAIN Recent(t)) <= RateLimit

\* _check_rate_limit
RateAllows(t) == Cardinality(DOMAIN Recent(t)) < RateLimit

\* Keys that have not expired.
Unexpired == Drop(cache, {k \in DOMAIN cache : cache[k] <= clock})

Deduplicates(a) == DedupWindow > 0 /\ Alerts[a].target # NoTarget

IsDuplicate(a) == Deduplicates(a) /\ DedupKey(a) \in DOMAIN Unexpired

(***************************************************************************)
(* A handler of the subscriber and dispatch, up to the sends.  An alert    *)
(* that is refused by the rate limit is announced as failed on every       *)
(* channel and leaves no mark; a duplicate has used up a place in the      *)
(* window all the same; an alert is marked before anything is sent.        *)
(***************************************************************************)
Ignore(a) ==
  /\ ~Notifies(a)
  /\ phase' = [phase EXCEPT ![a] = "ignored"]
  /\ UNCHANGED <<records, cache, counts, announced>>

RateLimited(a) ==
  /\ Notifies(a) /\ ~RateAllows(Alerts[a].tenant)
  /\ phase' = [phase EXCEPT ![a] = "limited"]
  /\ records' = [records EXCEPT ![Alerts[a].tenant] = Recent(Alerts[a].tenant)]
  /\ counts' = [counts EXCEPT !.dispatched = @ + 1, !.limited = @ + 1]
  /\ announced' = announced \cup IF Targets(a) = {} THEN {} ELSE {<<a, "failed">>}
  /\ UNCHANGED cache

Recorded(a) ==
  records' = [records EXCEPT ![Alerts[a].tenant] = Put(Recent(Alerts[a].tenant), a, clock)]

SuppressAlert(a) ==
  /\ Notifies(a) /\ RateAllows(Alerts[a].tenant) /\ IsDuplicate(a)
  /\ phase' = [phase EXCEPT ![a] = "suppressed"]
  /\ Recorded(a)
  /\ cache' = Unexpired
  /\ counts' = [counts EXCEPT !.dispatched = @ + 1, !.suppressed = @ + 1]
  /\ UNCHANGED announced

StartSending(a) ==
  /\ Notifies(a) /\ RateAllows(Alerts[a].tenant) /\ ~IsDuplicate(a)
  /\ phase' = [phase EXCEPT ![a] = "sending"]
  /\ Recorded(a)
  /\ cache' = IF Deduplicates(a) THEN Put(Unexpired, DedupKey(a), clock + DedupWindow) ELSE cache
  /\ counts' = [counts EXCEPT !.dispatched = @ + 1]
  /\ UNCHANGED announced

dispatch(a) ==
  /\ phase[a] = "published"
  /\ handledAt' = [handledAt EXCEPT ![a] = clock]
  /\ Ignore(a) \/ RateLimited(a) \/ SuppressAlert(a) \/ StartSending(a)
  /\ UNCHANGED <<clock, tries, outcome, copies, lost>>

\* sanitize_payload: the copy every channel is given.
sanitize_payload(secrets) == secrets \ {"credential", "sensitive_key"}

\* What a call of send_async answers, and whether a copy reached the receiver: a
\* failure may come before or after that.
Posted == {<<"DELIVERED", TRUE>>, <<"FAILED", FALSE>>, <<"FAILED", TRUE>>}
Skipped == {<<"SKIPPED", FALSE>>}

SlackAnswers(route) == IF route = "none" THEN Skipped ELSE Posted

TeamsAnswers(route) == IF route = "none" THEN Skipped ELSE Posted

\* A URL that validate_webhook_url_ssrf refuses is refused at every attempt.
WebhookAnswers(route) ==
  CASE route = "none"    -> Skipped
    [] route = "refused" -> {<<"FAILED", FALSE>>}
    [] OTHER             -> Posted

\* Without an SMTP host the mail is only logged, and counts as delivered.
EmailAnswers(route) ==
  CASE route = "none"      -> Skipped
    [] route = "simulated" -> {<<"DELIVERED", FALSE>>}
    [] OTHER               -> Posted

Answers(a, c) ==
  LET route == Route[Alerts[a].tenant][c] IN
  CASE c = "slack"   -> SlackAnswers(route)
    [] c = "teams"   -> TeamsAnswers(route)
    [] c = "webhook" -> WebhookAnswers(route)
    [] c = "email"   -> EmailAnswers(route)

\* Mutant: every channel is called max_retries + 1 times.
SettledAtLast(a, c) == tries[a][c] = MaxSends

\* Mutant: a failure of a refused URL is retried without end.
SettledUnlessFailed(a, c) == outcome[a][c] \in {"DELIVERED", "SKIPPED"}

\* _send_with_retries ends at an answer that is not a failure, or at the last attempt.
Settled(a, c) == outcome[a][c] \in {"DELIVERED", "SKIPPED"} \/ tries[a][c] = MaxSends

Attempt(a, c) ==
  /\ phase[a] = "sending" /\ ~Settled(a, c)
  /\ \E ans \in Answers(a, c) :
       /\ lost' = lost \cup (IF ans = <<"FAILED", TRUE>> THEN {<<a, c, tries[a][c] + 1>>} ELSE {})
       /\ Cardinality(lost') <= MaxLost
       /\ outcome' = [outcome EXCEPT ![a][c] = ans[1]]
       /\ copies' = IF ans[2]
                    THEN [copies EXCEPT ![a][c] = @ \cup
                            {[nth |-> tries[a][c] + 1, secrets |-> sanitize_payload(Alerts[a].secrets)]}]
                    ELSE copies
  /\ tries' = [tries EXCEPT ![a][c] = @ + 1]
  /\ UNCHANGED <<clock, phase, handledAt, records, cache, counts, announced>>

Having(a, s) == {c \in Targets(a) : outcome[a][c] = s}

\* Mutant: the summary waits for channels that did not fail.
AggregateWhenDelivered(a) ==
  /\ phase[a] = "sending" /\ \A c \in Targets(a) : Settled(a, c) /\ outcome[a][c] # "FAILED"
  /\ phase' = [phase EXCEPT ![a] = "done"]
  /\ counts' = [counts EXCEPT !.delivered = @ + Cardinality(Having(a, "DELIVERED"))]
  /\ announced' = announced \cup {<<a, "dispatched">>}
  /\ UNCHANGED <<clock, handledAt, records, cache, tries, outcome, copies, lost>>

\* Mutant: a channel that was skipped is counted as delivered.
AggregateSkipped(a) ==
  /\ phase[a] = "sending" /\ \A c \in Targets(a) : Settled(a, c)
  /\ phase' = [phase EXCEPT ![a] = "done"]
  /\ counts' = [counts EXCEPT !.delivered = @ + Cardinality(Targets(a) \ Having(a, "FAILED")),
                              !.failed = @ + Cardinality(Having(a, "FAILED"))]
  /\ announced' = announced \cup {<<a, "dispatched">>}
                    \cup (IF Having(a, "FAILED") = {} THEN {} ELSE {<<a, "failed">>})
  /\ UNCHANGED <<clock, handledAt, records, cache, tries, outcome, copies, lost>>

\* The summary once every channel has answered, and the events it leads to.
Aggregate(a) ==
  /\ phase[a] = "sending" /\ \A c \in Targets(a) : Settled(a, c)
  /\ phase' = [phase EXCEPT ![a] = "done"]
  /\ counts' = [counts EXCEPT !.delivered = @ + Cardinality(Having(a, "DELIVERED")),
                              !.failed = @ + Cardinality(Having(a, "FAILED"))]
  /\ announced' = announced \cup (IF Having(a, "DELIVERED") = {} THEN {} ELSE {<<a, "dispatched">>})
                    \cup (IF Having(a, "FAILED") = {} THEN {} ELSE {<<a, "failed">>})
  /\ UNCHANGED <<clock, handledAt, records, cache, tries, outcome, copies, lost>>

NotifyTick ==
  /\ clock < MaxTime /\ clock' = clock + 1
  /\ UNCHANGED <<phase, handledAt, records, cache, tries, outcome, copies, lost, counts, announced>>

NotifyNext ==
  \/ \E a \in Events : dispatch(a) \/ Aggregate(a) \/ \E c \in Targets(a) : Attempt(a, c)
  \/ NotifyTick

\* Every send returns: it has a timeout, and the backoff is a timer.
NotifyFairness ==
  \A a \in Events : /\ WF_notifyVars(Aggregate(a))
                    /\ WF_notifyVars(\E c \in Targets(a) : Attempt(a, c))

NotifySpec == NotifyInit /\ [][NotifyNext]_notifyVars /\ NotifyFairness

-----------------------------------------------------------------------------
NotifyTypeOK ==
  /\ phase \in [Events -> {"absent", "published", "ignored", "limited", "suppressed", "sending", "done"}]
  /\ \A t \in AlertTenants : \A a \in DOMAIN records[t] : records[t][a] \in 0..clock
  /\ \A a \in Events : \A c \in Targets(a) :
       /\ tries[a][c] \in 0..MaxSends
       /\ outcome[a][c] \in {"PENDING", "DELIVERED", "FAILED", "SKIPPED"}
  /\ announced \subseteq Events \X {"dispatched", "failed"}

Admitted(a) == phase[a] \in {"suppressed", "sending", "done"}

(***************************************************************************)
(* The rate limit holds over every span of a window's length, wherever it  *)
(* starts: _check_rate_limit slides.                                       *)
(***************************************************************************)
RateHeldInEveryWindow ==
  \A t \in AlertTenants : \A start \in 0..clock :
    Cardinality({a \in Events : /\ Alerts[a].tenant = t /\ Admitted(a)
                                /\ handledAt[a] \in start..(start + RateWindow - 1)}) <= RateLimit

(***************************************************************************)
(* An alert is suppressed only when one about the same event and target of *)
(* the same tenant was taken on less than a window before, and two that    *)
(* were both taken on are at least a window apart.                         *)
(***************************************************************************)
Same(a, b) ==
  /\ a # b /\ Alerts[a].tenant = Alerts[b].tenant
  /\ Alerts[a].kind = Alerts[b].kind /\ Alerts[a].target = Alerts[b].target
SuppressesExactlyRepeats ==
  \A a \in Events :
    /\ phase[a] = "suppressed" =>
         \E b \in Events : /\ Same(a, b) /\ phase[b] \in {"sending", "done"}
                           /\ handledAt[b] <= handledAt[a] /\ handledAt[a] < handledAt[b] + DedupWindow
    /\ phase[a] \in {"sending", "done"} /\ Deduplicates(a) =>
         \A b \in Events : Same(a, b) /\ phase[b] \in {"sending", "done"} =>
           \/ handledAt[a] + DedupWindow <= handledAt[b]
           \/ handledAt[b] + DedupWindow <= handledAt[a]

(***************************************************************************)
(* What reached a receiver is the attempts whose answer was lost and the   *)
(* last one if it was answered as delivered, and holds no secret:          *)
(* _send_with_retries repeats failures only, and every channel is given    *)
(* the sanitised copy.                                                     *)
(***************************************************************************)
LostOn(a, c) == {n \in 1..tries[a][c] : <<a, c, n>> \in lost}
Answered(a, c) == IF outcome[a][c] = "DELIVERED" /\ Route[Alerts[a].tenant][c] = "url" THEN {tries[a][c]} ELSE {}
RepeatsOnlyLostAnswers ==
  \A a \in Events : \A c \in Targets(a) :
    /\ \A copy \in copies[a][c] : copy.secrets \cap {"credential", "sensitive_key"} = {}
    /\ {copy.nth : copy \in copies[a][c]} = LostOn(a, c) \cup Answered(a, c)

(***************************************************************************)
(* The counters and the published events agree with what became of the     *)
(* alerts: none is counted twice, a failure is always announced, and a     *)
(* skipped channel is neither a delivery nor a failure.                    *)
(***************************************************************************)
InPhase(ps) == {a \in Events : phase[a] \in ps}
DoneWith(s) == UNION {{<<a, c>> : c \in Having(a, s)} : a \in InPhase({"done"})}
MetricsAgree ==
  /\ counts.dispatched = Cardinality(InPhase({"limited", "suppressed", "sending", "done"}))
  /\ counts.limited = Cardinality(InPhase({"limited"}))
  /\ counts.suppressed = Cardinality(InPhase({"suppressed"}))
  /\ counts.delivered = Cardinality(DoneWith("DELIVERED"))
  /\ counts.failed = Cardinality(DoneWith("FAILED"))
  /\ \A a \in InPhase({"limited", "done"}) :
       <<a, "failed">> \in announced <=>
         IF phase[a] = "limited" THEN Targets(a) # {} ELSE Having(a, "FAILED") # {}

(***************************************************************************)
(* An alert that was taken on is settled: every channel has an answer      *)
(* after at most max_retries + 1 attempts, whatever the receivers do.      *)
(***************************************************************************)
AlertsSettle == \A a \in Events : phase[a] = "sending" ~> phase[a] = "done"

\* The engine's four windows and retries together: no more than the limit in any
\* window, exactly the repeats suppressed, a channel asked again only when its
\* answer was lost, and metrics that agree.
NotifySafe ==
  /\ NotifyTypeOK /\ RateHeldInEveryWindow /\ SuppressesExactlyRepeats
  /\ RepeatsOnlyLostAnswers /\ MetricsAgree
=============================================================================
