---------------------------- MODULE RiskScoring -----------------------------
(***************************************************************************)
(* How the findings about a mail become a score and an action: the signal  *)
(* fuser (risk/multimodal_fuser.py), the weighted scoring strategy with    *)
(* its ceilings and scalings (risk/strategies/deterministic.py), the       *)
(* tenant's policy (risk/profiles.py) and the choice between the two       *)
(* scorings (risk/pipeline.py).                                            *)
(*                                                                         *)
(* A mail is given by how bad each upstream finding is.  The state machine *)
(* makes findings worse one at a time, so that what one more finding does  *)
(* to the score is a property of a step.  Scores of signals, confidences   *)
(* and weights are hundredths; points are counted in units of 1/20000.     *)
(***************************************************************************)
EXTENDS Integers, Sequences, FiniteSets
LOCAL INSTANCE FiniteSetsExt

CONSTANTS
  Groups,           \* sets of findings that are varied together
  IntelConfidences, \* what intel.overall_confidence may be, in hundredths
  OcrConfidences    \* what media.ocr_confidence may be

Hundredths == 0..100
ASSUME ConfidenceAssumption == IntelConfidences \cup OcrConfidences \subseteq Hundredths

(***************************************************************************)
(* The upstream findings, each with its values from harmless to worst.     *)
(* Numbers are hundredths, days, hops or counts, on either side of the     *)
(* thresholds the code compares them with.                                 *)
(***************************************************************************)
Findings ==
  [dmarc |-> <<"PASS", "NONE", "FAIL">>, spf |-> <<"PASS", "NONE", "SOFTFAIL", "FAIL">>,
   dkim |-> <<"PASS", "NONE", "FAIL">>, arc |-> <<"valid", "absent", "broken">>,
   spoofed |-> <<FALSE, TRUE>>, replyTo |-> <<"same", "other", "webmail">>,
   hijack |-> <<FALSE, TRUE>>, messageId |-> <<"aligned", "foreign", "missing">>,
   slowHops |-> <<0, 1, 2>>, returnPath |-> <<FALSE, TRUE>>,
   iocs |-> <<0, 1, 2>>, age |-> <<365, 29, 6>>,
   urgency |-> <<0, 85>>, coercion |-> <<0, 90>>,
   hidden |-> <<FALSE, TRUE>>, beacons |-> <<FALSE, TRUE>>,
   ocr |-> <<"skipped", "benign", "threat">>, qr |-> <<"skipped", "none", "found", "malicious">>,
   credForm |-> <<FALSE, TRUE>>, hops |-> <<0, 2, 3, 5>>, ssrf |-> <<FALSE, TRUE>>,
   senderRuns |-> <<0, 1, 2>>, subjectRuns |-> <<0, 1>>, urlRuns |-> <<0, 1>>]

VARIABLES
  level,    \* finding -> how bad it is, an index into Findings
  present,  \* which optional stages gave a result: content, url, correlation
  group,    \* the findings this mail is examined for
  intelConfidence,
  ocrConfidence

riskVars == <<level, present, group, intelConfidence, ocrConfidence>>
context == <<present, group, intelConfidence, ocrConfidence>>

Is(f) == Findings[f][level[f]]

Min2(a, b) == IF a < b THEN a ELSE b

\* Python's round(): to the nearest integer, halves to the even one.
Round(x, unit) ==
  LET q == x \div unit
      r == 2 * (x % unit) IN
  IF r > unit \/ (r = unit /\ q % 2 = 1) THEN q + 1 ELSE q

Weight(b, w) == IF b THEN w ELSE 0

(***************************************************************************)
(* What the transmission and correlation stages derive from the findings.  *)
(***************************************************************************)
ReplyToMismatched == Is("replyTo") # "same"
FreeWebmail == Is("replyTo") = "webmail"

\* What each header and identity anomaly takes away from the header's integrity.
AnomalyImpact ==
  Weight(Is("messageId") = "missing", 15) + Weight(Is("messageId") = "foreign", 10)
    + Weight(Is("hijack"), 30) + 5 * Is("slowHops")
    + Weight(Is("spoofed"), 40) + Weight(ReplyToMismatched, 25) + Weight(FreeWebmail, 30)

HeaderIntegrity == 100 - Min2(100, AnomalyImpact)

\* Earlier investigations with the sender, the subject or a link of this mail:
\* which of the three matched, and whether more than one row was found.
CampaignScore == Min2(100, Weight(Is("senderRuns") > 0, 40) + Weight(Is("subjectRuns") > 0, 30)
                             + Weight(Is("urlRuns") > 0, 30))
CampaignDetected == Is("senderRuns") + Is("subjectRuns") + Is("urlRuns") > 1

-----------------------------------------------------------------------------
(***************************************************************************)
(* The normalisers.  A signal has a severity, a confidence, and the status *)
(* that makes it count (EVALUATED_POSITIVE) or not.                        *)
(***************************************************************************)
Signal(score, conf, positive) == [score |-> score, conf |-> conf, positive |-> positive]
Skipped == Signal(0, 0, FALSE)
Flag(b, score, conf) == Signal(IF b THEN score ELSE 0, conf, b)

AuthSignals ==
  [dmarc_result |-> CASE Is("dmarc") = "PASS" -> Signal(0, 100, FALSE)
                      [] Is("dmarc") = "FAIL" -> Signal(100, 100, TRUE)
                      [] OTHER -> Signal(20, 100, FALSE),
   spf_result |-> CASE Is("spf") = "PASS" -> Signal(0, 95, FALSE)
                    [] Is("spf") = "FAIL" -> Signal(90, 95, TRUE)
                    [] Is("spf") = "SOFTFAIL" -> Signal(60, 95, TRUE)
                    [] OTHER -> Signal(20, 95, FALSE),
   dkim_result |-> CASE Is("dkim") = "PASS" -> Signal(0, 95, FALSE)
                     [] Is("dkim") = "FAIL" -> Signal(80, 95, TRUE)
                     [] OTHER -> Signal(20, 95, FALSE),
   arc_chain_valid |-> Flag(Is("arc") = "broken", 70, 85)]

TransmissionSignals ==
  [is_display_name_spoofed |-> Flag(Is("spoofed"), 100, 100),
   is_reply_to_mismatched |-> Flag(ReplyToMismatched, 90, 95),
   is_thread_hijack_suspect |-> Flag(Is("hijack"), 85, 90),
   header_integrity_score |-> Signal(100 - HeaderIntegrity, 85, 100 - HeaderIntegrity > 40)]

IntelSignals ==
  [malicious_ioc_count |-> Signal(Min2(100, 50 * Is("iocs")), intelConfidence, Is("iocs") > 0),
   whois_age_days |-> CASE Is("age") < 7 -> Signal(90, 85, TRUE)
                        [] Is("age") \in 7..29 -> Signal(60, 85, TRUE)
                        [] OTHER -> Signal(0, 85, FALSE)]

ContentSignals ==
  IF "content" \notin present
  THEN [s \in {"urgency_score", "financial_coercion_score", "has_hidden_dom_text",
               "tracking_beacons"} |-> Skipped]
  ELSE [urgency_score |-> Signal(Is("urgency"), 90, Is("urgency") > 40),
        financial_coercion_score |-> Signal(Is("coercion"), 90, Is("coercion") > 40),
        has_hidden_dom_text |-> Flag(Is("hidden"), 80, 95),
        tracking_beacons |-> Flag(Is("beacons"), 30, 80)]

\* A QR code that was found counts, whether or not its target looks malicious.
MediaSignals ==
  IF "content" \notin present
  THEN [s \in {"ocr_phishing_detected", "qr_malicious_destination"} |-> Skipped]
  ELSE [ocr_phishing_detected |->
          IF Is("ocr") = "skipped" THEN Skipped
          ELSE Signal(IF Is("ocr") = "threat" THEN (ocrConfidence * 90) \div 100 ELSE 0,
                      ocrConfidence, Is("ocr") = "threat"),
        qr_malicious_destination |->
          CASE Is("qr") = "skipped" -> Skipped
            [] Is("qr") = "none" -> Signal(0, 95, FALSE)
            [] Is("qr") = "found" -> Signal(20, 95, TRUE)
            [] OTHER -> Signal(100, 95, TRUE)]

UrlSignals ==
  IF "url" \notin present
  THEN [s \in {"has_credential_form", "redirect_depth", "ssrf_violation"} |-> Skipped]
  ELSE [has_credential_form |-> Flag(Is("credForm"), 100, 95),
        redirect_depth |-> Flag(Is("hops") > 2, Min2(100, 25 * Is("hops")), 90),
        ssrf_violation |-> Flag(Is("ssrf"), 100, 100)]

CorrelationSignals ==
  IF "correlation" \notin present
  THEN [s \in {"campaign_detected", "historical_similarity_score"} |-> Skipped]
  ELSE [campaign_detected |-> Flag(CampaignDetected, 85, 90),
        historical_similarity_score |-> Signal(CampaignScore, 85, CampaignScore > 40)]

-----------------------------------------------------------------------------
BaseWeight ==
  [dmarc_result |-> 30, spf_result |-> 15, dkim_result |-> 15, arc_chain_valid |-> 10,
   is_display_name_spoofed |-> 40, is_reply_to_mismatched |-> 25,
   is_thread_hijack_suspect |-> 25, header_integrity_score |-> 15,
   malicious_ioc_count |-> 35, whois_age_days |-> 15,
   urgency_score |-> 15, financial_coercion_score |-> 20, has_hidden_dom_text |-> 15,
   tracking_beacons |-> 5, ocr_phishing_detected |-> 20, qr_malicious_destination |-> 25,
   has_credential_form |-> 30, redirect_depth |-> 15, ssrf_violation |-> 35,
   campaign_detected |-> 20, historical_similarity_score |-> 15]

\* fuse_signals, one entry per domain: its ceiling and its signals.
Domains == {<<30, AuthSignals>>, <<40, TransmissionSignals>>, <<35, IntelSignals>>,
            <<25, ContentSignals>>, <<25, MediaSignals>>, <<35, UrlSignals>>,
            <<20, CorrelationSignals>>}

Unit == 20000

\* Mutant: rule B halves every link signal.
ScaleWide(s) ==
  CASE s \in {"has_credential_form", "redirect_depth", "ssrf_violation"}
         /\ IntelSignals.malicious_ioc_count.score >= 50 -> 1
    [] OTHER -> 2

\* The scaling against counting a cause twice, in halves: SPF under a failed
\* DMARC (rule A), a credential form behind a known indicator (rule B), the
\* language of a mail whose sender is spoofed (rule C).
Scale(s) ==
  CASE /\ s = "spf_result" /\ AuthSignals.dmarc_result.score >= 50
       /\ AuthSignals.spf_result.score >= 50 -> 1
    [] /\ s = "has_credential_form" /\ IntelSignals.malicious_ioc_count.score >= 50
       /\ UrlSignals.has_credential_form.score >= 50 -> 1
    [] /\ s \in {"urgency_score", "financial_coercion_score"}
       /\ TransmissionSignals.is_display_name_spoofed.score >= 50 -> 1
    [] OTHER -> 2

SignalPoints(sigs, s) ==
  IF sigs[s].positive THEN BaseWeight[s] * sigs[s].score * sigs[s].conf * Scale(s) ELSE 0

\* Mutant: the ceiling of a domain is not enforced.
DomainScoreUncapped(d) == Round(MapThenSumSet(LAMBDA s : SignalPoints(d[2], s), DOMAIN d[2]), Unit)

\* The points of a domain, cut at its ceiling and rounded.
DomainScore(d) ==
  Round(Min2(d[1] * Unit, MapThenSumSet(LAMBDA s : SignalPoints(d[2], s), DOMAIN d[2])), Unit)

\* Mutant: a single point leaves no line of evidence.
EvidenceFromTwo(d) == {s \in DOMAIN d[2] : Round(SignalPoints(d[2], s), Unit) > 1}

\* The signals that leave a line of evidence: those that round to a point.
Evidence(d) == {s \in DOMAIN d[2] : Round(SignalPoints(d[2], s), Unit) > 0}

MultimodalScore == Min2(100, MapThenSumSet(DomainScore, Domains))

\* The scoring of findings without the optional stages: one weight per rule.
LegacyScore ==
  Min2(100, Weight(Is("spoofed"), 40) + Weight(Is("iocs") > 0, 35)
              + Weight(Is("dmarc") = "FAIL", 30) + Weight(ReplyToMismatched, 25)
              + Weight(Is("hijack"), 25) + Weight(Is("spf") \in {"FAIL", "SOFTFAIL"}, 20)
              + Weight(Is("dkim") = "FAIL", 15) + Weight(HeaderIntegrity < 60, 15)
              + Weight(FreeWebmail, 15) + Weight(Is("returnPath"), 10))

\* assess_risk: the legacy scoring is used when no optional stage gave a result.
RiskScore == IF present = {} THEN LegacyScore ELSE MultimodalScore

-----------------------------------------------------------------------------
\* A tenant's profile and evaluate_policy; actions in order of severity.
DELIVERED == 0
BANNER_INJECTED == 1
QUARANTINED == 2
BLOCKED == 3

Profile(clean, suspicious, quarantine, strict) ==
  [clean |-> clean, suspicious |-> suspicious, quarantine |-> quarantine, strict |-> strict]

\* Mutant: two thresholds of the profile are swapped.
AggressiveSwapped == Profile(49, 19, 79, TRUE)

Aggressive == Profile(19, 49, 79, TRUE)
Balanced == Profile(29, 69, 89, FALSE)
Permissive == Profile(39, 79, 94, FALSE)

Action(p, score) ==
  CASE score <= p.clean -> DELIVERED
    [] score > p.clean /\ score <= p.suspicious -> IF p.strict THEN QUARANTINED ELSE BANNER_INJECTED
    [] score > p.clean /\ score > p.suspicious /\ score <= p.quarantine -> QUARANTINED
    [] OTHER -> BLOCKED

-----------------------------------------------------------------------------
RiskInit == /\ level = [f \in DOMAIN Findings |-> 1]
        /\ present \in SUBSET {"content", "url", "correlation"}
        /\ group \in Groups
        /\ intelConfidence \in IntelConfidences
        /\ ocrConfidence \in OcrConfidences

\* One finding about the mail is worse than before.
Worsen(f) == /\ f \in group /\ level[f] < Len(Findings[f])
             /\ level' = [level EXCEPT ![f] = @ + 1]
             /\ UNCHANGED context

RiskNext == \E f \in DOMAIN Findings : Worsen(f)

-----------------------------------------------------------------------------
\* Type invariant: the score stays where the calibrator accepts it (it raises
\* outside 0..100), and every signal's severity is a fraction.
RiskTypeOK ==
  /\ \A f \in DOMAIN Findings : level[f] \in DOMAIN Findings[f]
  /\ RiskScore \in 0..100
  /\ \A d \in Domains : /\ DomainScore(d) \in 0..d[1]
                        /\ \A s \in DOMAIN d[2] : d[2][s].score \in Hundredths

\* A finding that gets worse never makes a mail look better, whatever else is
\* known: the halvings of rules A and B take away less than the finding that
\* triggers them adds, after ceilings and rounding.  Rule C is the exception: a
\* spoofed name found in a domain that is at its ceiling adds nothing and still
\* halves the language score: at most 11 of the 25 points of that domain, since
\* 11 + 16 points of language are cut at 25 before, and halved to 14 after.
MaxRelief == 11
WorseNeverScoresLower ==
  [][RiskScore' >= RiskScore - (IF level["spoofed"] # level'["spoofed"] THEN MaxRelief ELSE 0)]_riskVars

\* No score without a reason: a domain that adds points to the score has a line
\* of evidence of its own, although evidence and score are rounded separately.
ScoreIsExplained == \A d \in Domains : DomainScore(d) > 0 => Evidence(d) # {}

\* A tenant that asked for more caution is never treated with less.
StricterProfilesActFirst ==
  /\ Action(Aggressive, RiskScore) >= Action(Balanced, RiskScore)
  /\ Action(Balanced, RiskScore) >= Action(Permissive, RiskScore)

\* The score of the deterministic engine over every combination of findings: it
\* is what its explanation says, a stricter profile never acts later, and a
\* finding that is added never lowers it.
RiskIsSound == [](RiskTypeOK /\ ScoreIsExplained /\ StricterProfilesActFirst) /\ WorseNeverScoresLower
=============================================================================
