------------------------------ MODULE Verdict ------------------------------
(***************************************************************************)
(* What the tools of an investigation report about a mail, and the verdict *)
(* that is reasoned from it: the tools under analyzers/agent, the          *)
(* conversion of their findings to evidence (models/agent.py), the         *)
(* ReasoningEngine (planner/reasoning.py) and its weighted score           *)
(* (planner/risk_scoring.py).                                              *)
(*                                                                         *)
(* A mail is the set of its traits.  A piece of evidence is what the       *)
(* reasoning looks at: the words of its category, its severity, the        *)
(* telling words of its description.  Evidence of severity "info" without  *)
(* such a word counts for nothing; one such item stands for all of a tool. *)
(***************************************************************************)
EXTENDS Integers, Sequences, FiniteSets
LOCAL INSTANCE FiniteSetsExt
LOCAL INSTANCE SequencesExt

CONSTANTS
  TraitGroups, \* sets of traits; those of a mail come from one of them
  Histories,   \* what memory may hold: similar investigations that ended in
               \* phishing, and similar ones that ended well
  MaxRuns      \* bound on the tools that complete

VARIABLES
  traits,      \* the traits of the mail
  lead,        \* the tactic that a Python set happens to yield first
  past,        \* the similar investigations: supporting and conflicting
  ran,         \* the tools that have completed, in order
  evidence     \* the evidence in the state, in order

verdictVars == <<traits, lead, past, ran, evidence>>

info == 0
low == 1
medium == 2
high == 3
critical == 4

Item(cat, sev, words) == [cat |-> cat, sev |-> sev, words |-> words]

\* The evidence of a table of rows: trait, severity, words.  The name of the file
\* is part of every description, and with it the words of the name.
Rows(m, cat, rows) ==
  LET fits == SelectSeq(rows, LAMBDA r : r[1] \in m)
      named == IF "zip_name" \in m THEN {"zip"} ELSE {} IN
  [i \in DOMAIN fits |-> Item(cat, fits[i][2], fits[i][3] \cup IF "attachment" \in cat THEN named ELSE {})]

-----------------------------------------------------------------------------
(***************************************************************************)
(* The analyzers of an attachment.  All but the first two need its bytes.  *)
(***************************************************************************)
AttachmentMetadata(m) ==
  Rows(m, {"attachment"},
       << <<"no_name", medium, {}>>, <<"no_type", medium, {}>>, <<"generic_type", low, {}>>,
          <<"empty", low, {}>>, <<"wrong_size", medium, {}>>, <<"restricted_type", high, {}>> >>)

AttachmentAnomaly(m) ==
  IF "no_name" \in m THEN <<>>
  ELSE Rows(m, {"attachment"},
            << <<"rtlo", critical, {}>>, <<"control_chars", high, {}>>, <<"trailing_dot", high, {}>>,
               <<"hidden_extension", critical, {}>>, <<"dangerous_extension", high, {"executable"}>>,
               <<"double_extension", critical, {"double extension"}>>, <<"long_name", low, {}>> >>)

\* A signature is known by its format; a declared type that differs is a mismatch.
AttachmentSignature(m) ==
  Rows(m, {"attachment", "signature"},
       << <<"zip", info, {"zip"}>>, <<"corrupt_zip", info, {"zip"}>>,
          <<"program", info, {"executable"}>>, <<"disguised_program", info, {"executable"}>>,
          <<"disguised_program", critical, {"executable"}>>, <<"mismatch", high, {}>> >>)

AttachmentEntropy(m) == Rows(m, {"attachment"}, << <<"high_entropy", medium, {}>> >>)

AttachmentHash(m) == Rows(m, {"attachment"}, << <<"zip_name", info, {}>> >>)

\* The entries of an archive can be read unless it is corrupted.
ArchiveFormat(m) ==
  Rows(m, {"attachment"},
       << <<"zip", info, {"zip"}>>, <<"encrypted_zip", high, {"zip"}>>,
          <<"program_in_zip", critical, {"zip", "executable"}>>, <<"zip_bomb", critical, {"zip"}>>,
          <<"corrupt_zip", medium, {"zip"}>> >>)

OfficeDocument(m) == Rows(m, {"attachment"}, << <<"macros", high, {}>> >>)

PdfFormat(m) ==
  Rows(m, {"attachment"}, << <<"pdf_action", high, {}>>, <<"pdf_file", medium, {}>> >>)

ExecutableFormat(m) ==
  Rows(m, {"attachment"},
       << <<"program", critical, {"executable"}>>, <<"disguised_program", critical, {"executable"}>> >>)

\* A rule set and a reputation service may be injected.
YaraRules(m) == Rows(m, {"attachment"}, << <<"yara_match", high, {}>> >>)
Reputation(m) ==
  Rows(m, {"attachment"},
       << <<"bad_reputation", critical, {"malicious"}>>, <<"doubtful_reputation", high, {"suspicious"}>>,
          <<"flagged_hash", high, {}>> >>)

AttachmentEvidence(m) ==
  AttachmentMetadata(m) \o AttachmentSignature(m) \o AttachmentAnomaly(m) \o AttachmentEntropy(m)
    \o AttachmentHash(m) \o ArchiveFormat(m) \o OfficeDocument(m) \o PdfFormat(m)
    \o ExecutableFormat(m) \o YaraRules(m) \o Reputation(m)

-----------------------------------------------------------------------------
(***************************************************************************)
(* The other tools.                                                        *)
(***************************************************************************)
\* The engine's findings carry neither a severity nor a telling word, whatever
\* SPF, DKIM and DMARC say; only an infrastructure provider can speak up.
SenderEvidence(m) == <<Item({"sender"}, info, {})>> \o Rows(m, {"sender"}, << <<"flagged_sender", high, {}>> >>)

\* The severity that the tool works out is not part of what it hands over.
UrlEvidence(m) ==
  Rows(m, {"url"}, << <<"shortened_url", info, {"shortener"}>>, <<"odd_url", info, {"suspicious"}>>,
                      <<"flagged_url", high, {}>> >>)

\* The traits of a mail with a picture.
Pictures == {"qr_picture", "qr_plain_link"}

\* The recognised text holds no links, addresses or numbers, and is "info" itself.
OcrEvidence(m) == IF m \cap Pictures = {} THEN <<>> ELSE <<Item({"ocr"}, info, {})>>

\* Without a link in the picture's bytes the decoder answers with a shortened
\* one, and every shortened link resolves to a phishing portal.
QrIsMalicious(m) == "qr_plain_link" \notin m
QrEvidence(m) ==
  IF m \cap Pictures = {} THEN <<>>
  ELSE IF QrIsMalicious(m) THEN <<Item({"qr"}, high, {})>> ELSE <<>>

ThreatIntelligence(m) ==
  Rows(m, {"threat_intelligence"}, << <<"known_indicator", high, {"flagged"}>> >>)

\* A campaign scores 4 for the sender and 3 each for the subject and the links.
CampaignEvidence(m) ==
  Rows(m, {"campaign"}, << <<"same_subject_before", medium, {}>>, <<"same_sender_before", high, {}>> >>)

\* These two say what they have done.
ParserEvidence(m) == <<Item({"parser"}, info, {})>>
ReportEvidence(m) == <<Item({"diagnostic_report"}, info, {})>>

ToolEvidence ==
  [parser_tool |-> ParserEvidence(traits), sender_tool |-> SenderEvidence(traits),
   url_tool |-> UrlEvidence(traits), attachment_tool |-> AttachmentEvidence(traits),
   ocr_tool |-> OcrEvidence(traits), qr_tool |-> QrEvidence(traits),
   threat_intelligence_tool |-> ThreatIntelligence(traits),
   campaign_correlation_tool |-> CampaignEvidence(traits), report_tool |-> ReportEvidence(traits)]

-----------------------------------------------------------------------------
(***************************************************************************)
(* The reasoning.                                                          *)
(***************************************************************************)
\* The rules that look at one piece of evidence.
Telling(e, cats, sev, words) == e.cat \cap cats # {} /\ (e.sev >= sev \/ e.words \cap words # {})

Correlates(e) ==
  {r \in {"intel", "campaign", "spf", "dkim", "dmarc", "url", "attachment", "sender"} :
     CASE r = "intel" -> "threat_intelligence" \in e.cat /\ "flagged" \in e.words
       [] r = "campaign" -> "campaign" \in e.cat
       [] r \in {"spf", "dkim", "dmarc"} -> Telling(e, {r}, high, {"fail"})
       [] r = "url" -> Telling(e, {"url", "domain"}, high, {"suspicious", "malicious", "shortener"})
       [] r = "attachment" -> Telling(e, {"attachment", "signature"}, high,
                                      {"executable", "zip", "double extension"})
       [] r = "sender" -> Telling(e, {"sender", "relationship"}, medium,
                                  {"mismatch", "spoof", "display name"})}

Tactics == {"urgency_manipulation", "bec_impersonation", "credential_harvesting", "financial_fraud"}

\* The brand look-up: any of its four ways to tell an imitation.
Impersonates == traits \cap {"brand_name", "typosquatting", "homograph", "hyphenated"} # {}

\* The keywords of the body.  The tactics come out of a Python set.
DetectedTactics ==
  LET found == traits \cap Tactics IN
  IF lead \in found THEN <<lead>> \o SetToSeq(found \ {lead}) ELSE SetToSeq(found)

\* Evidence that the reasoning adds for its own score; it is not part of the state.
Synthesized ==
  (IF Impersonates THEN <<Item({"sender", "impersonation"}, critical, {})>> ELSE <<>>)
    \o [i \in DOMAIN DetectedTactics |->
          Item({"behavior"},
               IF DetectedTactics[i] \in {"credential_harvesting", "urgency_manipulation"}
               THEN critical ELSE high, {})]

Correlations(evs) == FoldSeq(LAMBDA e, n : n + Cardinality(Correlates(e)), 0, evs)
                       + Len(Synthesized)
Noticed(evs) == UNION {Correlates(evs[i]) : i \in DOMAIN evs}
Severe(evs, s) == Cardinality({i \in DOMAIN evs : evs[i].sev = s})

\* Mutant: exactly two high findings are critical.
BaseLevelExactly(evs) ==
  IF Severe(evs, critical) > 0 \/ Severe(evs, high) = 2 \/ (Impersonates /\ traits \cap Tactics # {})
  THEN critical
  ELSE IF Severe(evs, high) > 0 \/ {"attachment", "intel"} \cap Noticed(evs) # {}
          \/ Impersonates \/ traits \cap Tactics # {}
  THEN high
  ELSE IF Severe(evs, medium) > 0 \/ "sender" \in Noticed(evs) THEN medium ELSE low

\* What the evidence alone amounts to.
BaseLevel(evs) ==
  LET has == Noticed(evs)
      social == traits \cap Tactics # {} IN
  IF \/ Severe(evs, critical) > 0
     \/ Severe(evs, high) >= 2
     \/ {"spf", "url", "attachment"} \subseteq has
     \/ Impersonates /\ social
  THEN critical
  ELSE IF \/ Severe(evs, high) > 0
          \/ {"spf", "url"} \subseteq has
          \/ {"attachment", "intel"} \cap has # {}
          \/ Impersonates
          \/ social
  THEN high
  ELSE IF Severe(evs, medium) > 0 \/ {"sender", "spf", "dkim"} \cap has # {} THEN medium ELSE low

\* What memory adds: a campaign of its own, and some confidence.  Investigations
\* that ended well silence those that did not.
Conflict == past.supporting > 0 /\ past.conflicting > 0
CampaignMatch == past.supporting >= 2 /\ ~Conflict
Adjustment == IF Conflict THEN 0 ELSE Min({9, 3 * past.supporting})

Lifted(evs) == CampaignMatch /\ BaseLevel(evs) = low
RiskLevel(evs) == IF Lifted(evs) THEN medium ELSE BaseLevel(evs)

\* In hundredths.
BaseConfidence(evs) ==
  CASE BaseLevel(evs) = critical -> IF Severe(evs, critical) > 0 THEN 95 ELSE 88
    [] BaseLevel(evs) = high -> 85
    [] BaseLevel(evs) = medium -> 75
    [] BaseLevel(evs) = low -> 90

\* Mutant: the density of the correlations is not capped.
ConfidenceUncapped(evs) ==
  LET n == Correlations(evs)
      dense == IF n > 1 THEN BaseConfidence(evs) + 2 * n ELSE BaseConfidence(evs) IN
  (IF Lifted(evs) THEN 75 ELSE dense) + Adjustment

Confidence(evs) ==
  LET n == Correlations(evs)
      dense == IF n > 1 THEN Min({99, BaseConfidence(evs) + 2 * n}) ELSE BaseConfidence(evs) IN
  Min({99, (IF Lifted(evs) THEN 75 ELSE dense) + Adjustment})

-----------------------------------------------------------------------------
(***************************************************************************)
(* The weighted score, in hundredths.                                      *)
(***************************************************************************)
DefaultWeights ==
  [impersonation |-> 18, social_engineering |-> 18, threat_intelligence |-> 15, campaign |-> 12,
   attachment |-> 15, sender |-> 10, qr |-> 8, url |-> 18, general |-> 5]

Multiplier == <<25, 50, 80, 100>>

\* The first word of the list that is in the category decides.
Factor(e) ==
  IF "impersonation" \in e.cat THEN "impersonation"
  ELSE IF "behavior" \in e.cat THEN "social_engineering"
  ELSE IF e.cat \cap {"threat_intelligence", "campaign", "attachment"} # {}
       THEN CHOOSE c \in {"threat_intelligence", "campaign", "attachment"} : c \in e.cat
  ELSE IF "sender" \in e.cat THEN "sender"
  ELSE IF "qr" \in e.cat THEN "qr"
  ELSE IF "url" \in e.cat THEN "url"
  ELSE "general"

\* Mutant: the factors that were seen are forgotten.
ScoreEvery(evs) ==
  LET all == evs \o Synthesized
      counts == {i \in DOMAIN all : all[i].sev > info} IN
  Min({10000, MapThenSumSet(LAMBDA i : DefaultWeights[Factor(all[i])] * Multiplier[all[i].sev], counts)})

\* Mutant: only neighbours are compared.
ScoreNeighbours(evs) ==
  LET all == evs \o Synthesized
      counts == {i \in DOMAIN all :
                   all[i].sev > info /\ (i > 1 => Factor(all[i - 1]) # Factor(all[i]))} IN
  Min({10000, MapThenSumSet(LAMBDA i : DefaultWeights[Factor(all[i])] * Multiplier[all[i].sev], counts)})

\* A factor counts once, with the first of its items that has any weight.
Score(evs) ==
  LET all == evs \o Synthesized
      counts == {i \in DOMAIN all :
                   /\ all[i].sev > info
                   /\ \A j \in 1..(i - 1) : all[j].sev > info => Factor(all[j]) # Factor(all[i])}
      points == MapThenSumSet(LAMBDA i : DefaultWeights[Factor(all[i])] * Multiplier[all[i].sev], counts) IN
  Min({10000, points})

Band(score) ==
  IF score >= 7500 THEN critical ELSE IF score >= 5000 THEN high
  ELSE IF score >= 2500 THEN medium ELSE low

-----------------------------------------------------------------------------
(***************************************************************************)
(* An investigation's tools complete in some order; the verdict is asked   *)
(* for after any of them.  The mail has at most one attachment, of one     *)
(* format.                                                                 *)
(***************************************************************************)
Implied ==
  {<<"double_extension", "dangerous_extension">>, <<"encrypted_zip", "zip">>,
   <<"program_in_zip", "zip">>, <<"zip_bomb", "zip">>}
Formats == {{"zip"}, {"corrupt_zip"}, {"program"}, {"disguised_program"}, {"pdf_action", "pdf_file"}}
NameTraits == {"zip_name", "rtlo", "control_chars", "trailing_dot", "hidden_extension",
               "dangerous_extension", "double_extension", "long_name"}
ByteTraits == UNION Formats \cup {"mismatch", "high_entropy", "macros", "wrong_size", "yara_match",
                                  "bad_reputation", "doubtful_reputation", "flagged_hash"}
Possible(m) ==
  /\ \A p \in Implied : p[1] \in m => p[2] \in m
  /\ Cardinality({f \in Formats : f \cap m # {}}) <= 1
  /\ Cardinality(m \cap {"no_type", "generic_type", "restricted_type"}) <= 1
  /\ Cardinality(m \cap {"no_type", "generic_type", "disguised_program"}) <= 1
  /\ m \cap {"no_type", "generic_type"} # {} => "mismatch" \notin m
  /\ "mismatch" \in m => \E f \in Formats : f \cap m # {}
  /\ "no_name" \in m => m \cap NameTraits = {}
  /\ "empty" \in m => m \cap ByteTraits = {}
  /\ Cardinality(m \cap {"bad_reputation", "doubtful_reputation"}) <= 1
  /\ Cardinality(m \cap Pictures) <= 1

VerdictInit ==
  /\ traits \in UNION {SUBSET g : g \in TraitGroups}
  /\ Possible(traits)
  /\ lead \in (IF traits \cap Tactics = {} THEN {"none"} ELSE traits \cap Tactics)
  /\ past \in Histories
  /\ ran = <<>>
  /\ evidence = <<>>

EvidenceOf(tools) == FlattenSeq([i \in DOMAIN tools |-> ToolEvidence[tools[i]]])

\* A tool completes.  A later plan may name it again: only a plan in which every
\* step was seen before is not executed, and what a tool found is then added once
\* more.  A tool that has nothing to say changes no verdict.
RunTool(t) ==
  /\ Len(ran) < MaxRuns
  /\ ToolEvidence[t] # <<>>
  /\ ran' = Append(ran, t)
  /\ evidence' = evidence \o ToolEvidence[t]
  /\ UNCHANGED <<traits, lead, past>>

VerdictNext == \E t \in DOMAIN ToolEvidence : RunTool(t)

-----------------------------------------------------------------------------
\* The numbers that ReasoningOutput accepts, and a verdict never below "low".
VerdictTypeOK ==
  /\ RiskLevel(evidence) \in low..critical
  /\ Confidence(evidence) \in 75..99
  /\ Score(evidence) \in 0..10000

\* Nothing a tool finds speaks for the mail: a further tool neither lowers the
\* level of ReasoningEngine.reason nor the weighted score.
EvidenceOnlyAdds ==
  [][/\ RiskLevel(evidence') >= RiskLevel(evidence)
     /\ Score(evidence') >= Score(evidence)]_verdictVars

\* The planner is free to order the tools as it likes: two tools that change
\* places change neither the level nor the confidence nor the score, although
\* the score takes the first item of each factor.
Swapped(i) == [ran EXCEPT ![i] = ran[i + 1], ![i + 1] = ran[i]]
ToolOrderIsIrrelevant ==
  \A i \in 1..(Len(ran) - 1) :
    LET other == EvidenceOf(Swapped(i)) IN
    /\ RiskLevel(evidence) = RiskLevel(other)
    /\ Confidence(evidence) = Confidence(other)
    /\ Score(evidence) = Score(other)

\* "Score evidence once per factor": a tool that is run again, by a later plan
\* that names it again, leaves the weighted score as it is.  (The level does not
\* have this property: one high finding that is reported twice is critical.)
RepeatedToolKeepsScore ==
  [][\A i \in DOMAIN ran : ran'[Len(ran')] = ran[i] => Score(evidence') = Score(evidence)]_verdictVars

\* The two verdicts that a report shows side by side agree in this much: the
\* band of the weighted score is never above the reasoned level.
BandWithinLevel == Band(Score(evidence)) <= RiskLevel(evidence)

\* The verdict over every set of findings and every order and repetition of the
\* tools: the order is irrelevant, the band fits the level, and a tool that runs
\* again, or one more, takes no evidence away.
VerdictIsSound ==
  [](VerdictTypeOK /\ ToolOrderIsIrrelevant /\ BandWithinLevel) /\ EvidenceOnlyAdds /\ RepeatedToolKeepsScore
=============================================================================
