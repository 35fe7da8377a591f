----------------------------- MODULE MCAnalysis -----------------------------
(***************************************************************************)
(* The two ways a mail is judged: the pipeline of engines with its risk    *)
(* score, and the investigation by planned tools with its verdict.         *)
(* A behaviour moves one of them.                                          *)
(***************************************************************************)
EXTENDS Pipeline, RiskScoring, Investigation, Verdict

CONSTANT Parts
VARIABLE part

NoPast == [supporting |-> 0, conflicting |-> 0]

\* One initial state of the parts that do not move.
RiskRests ==
  /\ present = {} /\ group = CHOOSE g \in Groups : TRUE
  /\ intelConfidence = CHOOSE c \in IntelConfidences : TRUE
  /\ ocrConfidence = CHOOSE c \in OcrConfidences : TRUE
  /\ RiskInit
InvRests ==
  /\ policy = "default" /\ parsed = FALSE /\ mail = {}
  /\ registered = CHOOSE r \in Registries : TRUE
  /\ InvInit
\* A confidence is varied with the finding that it belongs to.
Relevant ==
  /\ "iocs" \in group \/ intelConfidence = CHOOSE c \in IntelConfidences : TRUE
  /\ "ocr" \in group \/ ocrConfidence = CHOOSE c \in OcrConfidences : TRUE
VerdictRests == traits = {} /\ past = NoPast /\ VerdictInit

AnalysisInit ==
  /\ part \in Parts
  /\ Init
  /\ IF part = "risk" THEN RiskInit /\ Relevant ELSE RiskRests
  /\ IF part = "investigation" THEN InvInit ELSE InvRests
  /\ IF part = "verdict" THEN VerdictInit ELSE VerdictRests

AnalysisNext ==
  \/ part = "pipeline" /\ Next /\ UNCHANGED <<part, riskVars, invVars, verdictVars>>
  \/ part = "risk" /\ RiskNext /\ UNCHANGED <<part, vars, invVars, verdictVars>>
  \/ part = "investigation" /\ InvNext /\ UNCHANGED <<part, vars, riskVars, verdictVars>>
  \/ part = "verdict" /\ VerdictNext /\ UNCHANGED <<part, vars, riskVars, invVars>>

analysisVars == <<part, vars, riskVars, invVars, verdictVars>>

AnalysisSpec ==
  /\ AnalysisInit /\ [][AnalysisNext]_analysisVars
  /\ \A a \in Analyses : WF_vars(Advance(a))
  /\ InvFairness

\* The findings that meet in one domain or in one of the three rules; the
\* domains are summed, so the others need not vary at the same time.
CoupledFindings ==
  {{"dmarc", "spf", "dkim", "arc", "returnPath"},
   {"spoofed", "replyTo", "hijack", "messageId", "slowHops",
    "urgency", "coercion", "hidden", "beacons"},
   {"iocs", "age", "credForm", "hops", "ssrf"},
   {"ocr", "qr", "senderRuns", "subjectRuns", "urlRuns"}}

Step(i, t, p, d, c, r) == [id |-> i, tool |-> t, priority |-> p, deps |-> d, conds |-> c, retries |-> r]

\* Nothing; a chain with a condition; steps that share a tool; a cycle; a tool
\* that is not registered.
MCProposals ==
  {{},
   {Step("s1", "parser_tool", 2, {}, {}, 0), Step("s2", "url_tool", 1, {"s1"}, {"has_urls"}, 0),
    Step("s3", "report_tool", 1, {"url_tool"}, {}, 1)},
   {Step("u1", "url_tool", 1, {}, {}, 1), Step("u2", "url_tool", 1, {}, {}, 0),
    Step("s3", "report_tool", 1, {"url_tool", "parser_tool"}, {}, 0)},
   {Step("c1", "url_tool", 1, {"c2"}, {}, 0), Step("c2", "report_tool", 2, {"url_tool"}, {}, 0)},
   {Step("x1", "shell_tool", 1, {}, {}, 0)}}
MCTools == {"parser_tool", "sender_tool", "url_tool", "report_tool", "shell_tool"}
MCRegistries == {MCTools \ {"shell_tool"}, {"parser_tool", "report_tool"}}
MCCandidates == <<"parser_tool", "url_tool", "report_tool">>
MCMails == {{}, {"other_urls", "attachments"}}
MCPreconditions == [url_tool |-> {"parser_tool"}]

\* Traits that meet in one tool, then traits of several tools.
MCTraitGroups ==
  {{"dangerous_extension", "double_extension", "zip", "encrypted_zip", "corrupt_zip",
    "mismatch", "zip_name"},
   {"macros", "pdf_action", "pdf_file", "program", "disguised_program", "generic_type",
    "bad_reputation"},
   {"no_name", "no_type", "empty", "wrong_size", "high_entropy", "brand_name"},
   {"rtlo", "yara_match", "odd_url", "typosquatting"},
   {"flagged_sender", "flagged_url", "known_indicator", "same_sender_before",
    "program", "credential_harvesting"},
   {"shortened_url", "qr_picture", "qr_plain_link", "same_subject_before",
    "urgency_manipulation", "bec_impersonation", "homograph"}}
MCHistories ==
  {NoPast, [supporting |-> 4, conflicting |-> 0], [supporting |-> 2, conflicting |-> 1]}
=============================================================================
