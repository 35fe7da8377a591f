-------------------------- MODULE IntelEnrichment ---------------------------
(***************************************************************************)
(* The enrichment of a mail (threat_intel/pipeline.py): its indicators are *)
(* harvested, each is looked up, and the answers make a count, a           *)
(* confidence and an impact on the risk score.  The providers are the      *)
(* seven that the manager registers itself, or those that call a live      *)
(* service and keep a circuit breaker of their own.                        *)
(*                                                                         *)
(* ThreatIntel has the manager in detail; here a look-up is one step, and  *)
(* the providers that the manager leaves out (open breaker, no token, an   *)
(* exception) are any of Outages.  A mail is enriched within a tick.       *)
(* Confidences are in percent.                                             *)
(***************************************************************************)
EXTENDS ThreatIntel, FiniteSetsExt

CONSTANTS
  Iocs,          \* indicator -> [kind, host, lists, new]: what it is, the domain a
                 \* link or an address contains, the simulated lists it is on, and
                 \* whether the domain was registered less than 30 days ago
  IocMails,      \* mails: [text, origin, hops, from, spf, dkim, names], sets of indicators
  Replies,       \* what the services may answer to a look-up: provider -> [status,
                 \* hits, more]; status 0 is no answer
  Outages,       \* the sets of providers that a look-up may leave out
  MaxEnriched, MaxEnrichTime    \* bounds on the mails and on the clock

ASSUME IocsAssumption ==
  /\ IsFiniteSet(DOMAIN Iocs)
  /\ \A m \in IocMails : m.text \cup m.origin \cup m.hops \cup m.from \cup m.spf \cup m.dkim \cup m.names
                           \subseteq DOMAIN Iocs
  /\ \A i \in DOMAIN Iocs : Iocs[i].kind \in {"url", "email"} => Iocs[i].host \in DOMAIN Iocs

VARIABLES
  setup,     \* the registry, "simulated" or "live", and whether API keys are configured
  job_,      \* the mail under work: what is left to look up, and what was observed
  answers,   \* the manager's cache: indicator -> [obs, at]
  own,       \* live provider -> its circuit breaker
  sent,      \* live provider -> the requests sent, [at, ok]
  replied,   \* indicator -> the last answer of the providers: when, and who flagged it
  enriched,  \* the result for the last mail
  mails_     \* mails enriched so far

enrichVars == <<setup, job_, answers, own, sent, replied, enriched, mails_>>

Kinds == <<"ip", "domain", "url", "hash", "email">>
Of(s, kind) == {i \in s : Iocs[i].kind = kind}
HostsIn(s) == {Iocs[i].host : i \in s}
LiveFeeds == {"VirusTotal_v3", "AbuseIPDB_v2", "GoogleSafeBrowsing_v4"}

ASSUME RepliesAssumption ==
  Replies \subseteq [LiveFeeds \cup {"Google Safe Browsing", "PhishTank"}
                       -> [status : Nat, hits : Nat, more : Nat]]

NoMail == [pc |-> "idle", todo |-> {}, seen |-> EmptyDict]
NoResult == [mail |-> {}, flagged |-> {}, confidence |-> 0, impact |-> 0, feeds |-> {},
             categories |-> {}]

EnrichInit ==
  /\ setup \in [registry : {"simulated", "live"}, keyed : BOOLEAN]
  /\ job_ = NoMail /\ answers = EmptyDict
  /\ own = [p \in LiveFeeds |-> NewBreaker] /\ sent = [p \in LiveFeeds |-> <<>>]
  /\ replied = EmptyDict /\ enriched = NoResult /\ mails_ = 0

-----------------------------------------------------------------------------
\* extract_iocs: a domain is dropped when an address or a link contains it, but
\* only in a text that has both an address and a link.
Extracted(text) ==
  LET urls == Of(text, "url") emails == Of(text, "email")
      found == Of(text, "domain") \cup HostsIn(urls \cup emails) IN
  (text \ Of(text, "domain"))
    \cup {d \in found : ~\E e \in emails, u \in urls : d \in {Iocs[e].host, Iocs[u].host}}

\* harvest: the text, and what transmission and authentication have found.
harvest(m) ==
  Extracted(m.text) \cup m.origin \cup m.hops \cup m.from \cup m.spf \cup m.dkim
    \cup Of(Extracted(m.names), "hash")

-----------------------------------------------------------------------------
\* What lookup returns: one observation or none.
Obs(by, bad, conf, cat) == {[by |-> by, bad |-> bad, conf |-> conf, cat |-> cat]}
Nothing == {}
Clean(by) == Obs(by, FALSE, 0, "clean")
Listed(i, by) == by \in Iocs[i].lists
Web(i) == Iocs[i].kind \in {"url", "domain"}

VirusTotal(i) ==
  IF Listed(i, "VirusTotal") /\ Iocs[i].kind = "hash" THEN Obs("VirusTotal", TRUE, 95, "MALWARE")
  ELSE IF Listed(i, "VirusTotal") /\ Web(i) THEN Obs("VirusTotal", TRUE, 95, "BRAND_IMPERSONATION")
  ELSE Clean("VirusTotal")

AbuseIPDB(i) ==
  IF Iocs[i].kind # "ip" THEN Nothing
  ELSE IF Listed(i, "AbuseIPDB") THEN Obs("AbuseIPDB", TRUE, 90, "C2") ELSE Clean("AbuseIPDB")

AlienVaultOTX(i) ==
  IF Listed(i, "AlienVaultOTX") THEN Obs("AlienVaultOTX", TRUE, 85, "CREDENTIAL_THEFT")
  ELSE Clean("AlienVaultOTX")

\* Mutant: a domain registered less than 30 days ago is reported with certainty.
CertainWHOIS(i) ==
  IF Iocs[i].kind \notin {"domain", "ip"} THEN Nothing
  ELSE Obs("WHOIS/RDAP", FALSE, IF Iocs[i].new THEN 100 ELSE 50, "registered")

\* It never flags anything, but has a confidence in what it says; an error or an
\* answer without a date counts as 365 days.
WHOIS(i) ==
  IF Iocs[i].kind \notin {"domain", "ip"} THEN Nothing
  ELSE IF Iocs[i].new THEN Obs("WHOIS/RDAP", FALSE, 85, "newly_registered_domain")
  ELSE Obs("WHOIS/RDAP", FALSE, 50, "established_domain")

\* Without a key, and after any error, these two report the indicator as clean.
GoogleSafeBrowsing(i, r) ==
  IF ~Web(i) THEN Nothing
  ELSE IF Listed(i, "Google Safe Browsing")
       THEN Obs("Google Safe Browsing", TRUE, 98, "SOCIAL_ENGINEERING")
  ELSE IF setup.keyed /\ r.status = 200 /\ r.hits > 0
       THEN Obs("Google Safe Browsing", TRUE, 95, "SOCIAL_ENGINEERING")
  ELSE Clean("Google Safe Browsing")

PhishTank(i, r) ==
  IF ~Web(i) THEN Nothing
  ELSE IF Listed(i, "PhishTank") THEN Obs("PhishTank", TRUE, 90, "PHISHING")
  ELSE IF setup.keyed /\ r.status = 200 /\ r.hits > 0 THEN Obs("PhishTank", TRUE, 92, "PHISHING")
  ELSE Clean("PhishTank")

OpenPhish(i) ==
  IF ~Web(i) THEN Nothing
  ELSE IF Listed(i, "OpenPhish") THEN Obs("OpenPhish", TRUE, 88, "PHISHING") ELSE Clean("OpenPhish")

\* The order in which the providers are registered: by the manager itself, or the
\* live ones and WHOIS.
Registered ==
  <<"VirusTotal", "AbuseIPDB", "AlienVaultOTX", "VirusTotal_v3", "AbuseIPDB_v2", "GoogleSafeBrowsing_v4",
    "WHOIS/RDAP", "Google Safe Browsing", "PhishTank", "OpenPhish">>

Simulated(i, r) ==
  VirusTotal(i) \cup AbuseIPDB(i) \cup AlienVaultOTX(i) \cup WHOIS(i)
    \cup GoogleSafeBrowsing(i, r["Google Safe Browsing"]) \cup PhishTank(i, r["PhishTank"]) \cup OpenPhish(i)

-----------------------------------------------------------------------------
(***************************************************************************)
(* The live providers.  An error is counted by the provider's own breaker  *)
(* and returned as no observation, which the manager takes for a success.  *)
(***************************************************************************)
\* Which indicators a provider asks its service about, given a key.
Asks(p, i) ==
  setup.keyed /\ CASE p = "VirusTotal_v3" -> TRUE
                   [] p = "AbuseIPDB_v2" -> Iocs[i].kind = "ip"
                   [] p = "GoogleSafeBrowsing_v4" -> Web(i)

\* Unknown to VirusTotal is an answer too; to the others a 404 is an error.
Answers(p, r) == r.status = 200 \/ (p = "VirusTotal_v3" /\ r.status = 404)

VirusTotalV3(i, r) ==
  LET total == r.hits + r.more
      bad == r.hits >= 3 \/ total >= 5 IN
  IF r.status = 404 THEN Obs("VirusTotal_v3", FALSE, 0, "unknown")
  ELSE Obs("VirusTotal_v3", bad, IF bad THEN Min({100, Max({50, 10 * total})}) ELSE 0,
           IF Iocs[i].kind = "hash" THEN "MALWARE" ELSE IF bad THEN "PHISHING" ELSE "clean")

\* Here the hits are the service's confidence score.
AbuseIPDBV2(r) ==
  Obs("AbuseIPDB_v2", r.hits >= 25, Min({100, r.hits}), IF r.hits >= 25 THEN "ABUSE_IP" ELSE "clean")

\* Here the hits are the matches, and there is more when the first is no phishing.
GoogleSafeBrowsingV4(r) ==
  IF r.hits = 0 THEN Clean("GoogleSafeBrowsing_v4")
  ELSE Obs("GoogleSafeBrowsing_v4", TRUE, 95, IF r.more > 0 THEN "MALWARE" ELSE "PHISHING")

LiveAnswer(p, i, r) ==
  IF ~Answers(p, r) THEN Nothing
  ELSE CASE p = "VirusTotal_v3" -> VirusTotalV3(i, r)
         [] p = "AbuseIPDB_v2" -> AbuseIPDBV2(r)
         [] p = "GoogleSafeBrowsing_v4" -> GoogleSafeBrowsingV4(r)

-----------------------------------------------------------------------------
EnrichBegin(m) ==
  /\ job_.pc = "idle" /\ mails_ < MaxEnriched
  /\ job_' = [pc |-> "busy", todo |-> harvest(m), seen |-> EmptyDict]
  /\ enriched' = NoResult
  /\ UNCHANGED <<setup, answers, own, sent, replied, mails_>>

\* The kinds come in the order of type_mapping; within one the order is sorted,
\* which makes no difference.
Turn(i) ==
  /\ job_.pc = "busy" /\ i \in job_.todo
  /\ \A k, l \in DOMAIN Kinds :
       Kinds[k] = Iocs[i].kind /\ l < k => Of(job_.todo, Kinds[l]) = {}

Observed(i, obs) == [job_ EXCEPT !.todo = @ \ {i}, !.seen = Put(@, i, obs)]
Fresh(i) == i \in DOMAIN answers /\ ~IsExpired(answers[i])

\* lookup_indicator finds the answer in its cache.
LookUpCached(i) ==
  /\ Turn(i) /\ Fresh(i)
  /\ job_' = Observed(i, answers[i].obs)
  /\ UNCHANGED <<setup, answers, own, sent, replied, enriched, mails_>>

\* It asks the providers that it does not leave out, and stores what they say.
Learn(i, obs) ==
  /\ job_' = Observed(i, obs)
  /\ answers' = Put(answers, i, [obs |-> obs, at |-> inow])
  /\ replied' = Put(replied, i, [at |-> inow, by |-> {o.by : o \in {x \in obs : x.bad}}])
  /\ UNCHANGED <<setup, enriched, mails_>>

LookUpSimulated(i) ==
  /\ Turn(i) /\ ~Fresh(i) /\ setup.registry = "simulated"
  /\ \E r \in Replies, out \in Outages :
       Learn(i, {o \in Simulated(i, r) : o.by \notin out})
  /\ UNCHANGED <<own, sent>>

LookUpLive(i) ==
  /\ Turn(i) /\ ~Fresh(i) /\ setup.registry = "live"
  /\ \E r \in Replies, out \in Outages :
       LET Sends(p) == p \notin out /\ Asks(p, i) /\ Allows(own[p], inow)
           Says(p) == IF Sends(p) THEN LiveAnswer(p, i, r[p]) ELSE Nothing IN
       /\ Learn(i, (UNION {Says(p) : p \in LiveFeeds}) \cup WHOIS(i))
       /\ own' = [p \in LiveFeeds |->
            IF ~Sends(p) THEN own[p]
            ELSE IF Answers(p, r[p]) THEN AfterSuccess(AfterAllow(own[p], inow), inow)
            ELSE AfterFailure(AfterAllow(own[p], inow), inow)]
       /\ sent' = [p \in LiveFeeds |->
            IF Sends(p) THEN Append(sent[p], [at |-> inow, ok |-> Answers(p, r[p])]) ELSE sent[p]]

-----------------------------------------------------------------------------
ThreatCategory == {"CREDENTIAL_THEFT", "BRAND_IMPERSONATION", "MALWARE", "C2"}

Flaggers(i) == {o \in job_.seen[i] : o.bad}
Malicious(i) == Flaggers(i) # {}

\* Mutant: the confidence of an indicator nobody flagged counts too.
AnyConfidence(i) == Max({0} \cup {o.conf : o \in job_.seen[i]})

\* The confidence in a flagged indicator: the greatest of all observations.
Confidence(i) == IF Malicious(i) THEN Max({o.conf : o \in job_.seen[i]}) ELSE 0

\* The first provider that flags it names the category.
CategoryOf(i) ==
  LET by == CHOOSE p \in DOMAIN Registered :
              /\ \E o \in Flaggers(i) : o.by = Registered[p]
              /\ \A o \in Flaggers(i) : \A q \in 1..(p - 1) : o.by # Registered[q]
      c == (CHOOSE o \in Flaggers(i) : o.by = Registered[by]).cat IN
  IF c \in ThreatCategory THEN c ELSE "SUSPICIOUS_INFRASTRUCTURE"

\* Every indicator has been looked up: the result.
EnrichFinish ==
  LET flagged == {i \in DOMAIN job_.seen : Malicious(i)} IN
  /\ job_.pc = "busy" /\ job_.todo = {}
  /\ enriched' = [mail |-> DOMAIN job_.seen, flagged |-> flagged,
                  confidence |-> Max({0} \cup {Confidence(i) : i \in DOMAIN job_.seen}),
                  impact |-> Min({50, 20 * Cardinality(flagged)}),
                  feeds |-> UNION {{o.by : o \in Flaggers(i)} : i \in flagged},
                  categories |-> {CategoryOf(i) : i \in flagged}]
  /\ job_' = NoMail
  /\ mails_' = mails_ + 1
  /\ UNCHANGED <<setup, answers, own, sent, replied>>

EnrichNext ==
  \/ /\ \/ \E m \in IocMails : EnrichBegin(m)
        \/ \E i \in DOMAIN Iocs : LookUpCached(i) \/ LookUpSimulated(i) \/ LookUpLive(i)
        \/ EnrichFinish
     /\ UNCHANGED intelVars
  \/ job_ = NoMail /\ inow < MaxEnrichTime /\ IntelTick /\ UNCHANGED enrichVars

IntelSpec ==
  IntelInit /\ EnrichInit
  /\ [][(IntelNext /\ UNCHANGED enrichVars) \/ EnrichNext]_<<intelVars, enrichVars>>

-----------------------------------------------------------------------------
\* A mail is charged for an indicator exactly when a provider vouches for it, in
\* answers no older than the TTL when they were used: an outage, a refused key or
\* a stale entry never flags anything, and a provider's verdict is never dropped
\* on the way through the cache.
ChargedIsVouched ==
  /\ job_.pc = "busy" => \A i \in DOMAIN job_.seen : {o.by : o \in Flaggers(i)} = replied[i].by
  /\ enriched.feeds = {} <=> enriched.flagged = {}
  /\ enriched.impact = 0 <=> enriched.confidence = 0

\* The confidence is taken over all observations of a flagged indicator, those
\* that found it harmless too; with the manager's own providers it is still that
\* of a provider which flagged it.
ConfidenceIsAFlaggers ==
  setup.registry = "simulated" /\ job_.pc = "busy" =>
    \A i \in DOMAIN job_.seen :
      Malicious(i) => \E o \in Flaggers(i) : o.conf = Confidence(i)

\* The manager never sees the errors of a live provider, so the provider's own
\* breaker is what protects its service: after Threshold failures in a row no
\* request is sent until the recovery time has passed.
LiveServicesRest ==
  \A p \in LiveFeeds : \A n \in (Threshold + 1)..Len(sent[p]) :
    (\A k \in (n - Threshold)..(n - 1) : ~sent[p][k].ok)
      => sent[p][n].at - sent[p][n - 1].at >= Recovery

EnrichmentSound == ChargedIsVouched /\ ConfidenceIsAFlaggers /\ LiveServicesRest

\* The manager and what is made of its answers: IntelSafe and EnrichmentSound.
IntelSound == IntelSafe /\ EnrichmentSound
=============================================================================
