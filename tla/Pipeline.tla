------------------------------ MODULE Pipeline ------------------------------
(***************************************************************************)
(* The analysis of a mail: analyze_email (orchestrator/engine.py) around   *)
(* the stages of execute_pipeline (orchestrator/orchestrator.py).          *)
(*                                                                         *)
(* A coroutine can be interrupted only where it awaits: in a stage's       *)
(* engine (some never suspend; the model lets each of them) or in the      *)
(* event publisher.  What runs between two awaits (the end of a stage, the *)
(* cancellation check, the entry into the next stage) is one step.  While  *)
(* it awaits, the caller may set the cancellation token, or cancel the     *)
(* task itself, which no "except Exception" catches.                       *)
(***************************************************************************)
EXTENDS Integers, Sequences

CONSTANTS Analyses

Parallel == {"transmission_analysis", "auth_verification"}
Enrichments == {"content_intelligence", "url_intelligence", "threat_correlation"}
Critical == {"mime_parsing", "risk_assessment"}

\* The stage that follows each one; "completing" publishes the result.
After ==
  [mime_parsing |-> "stage2_parallel", stage2_parallel |-> "threat_intel",
   threat_intel |-> "content_intelligence", content_intelligence |-> "url_intelligence",
   url_intelligence |-> "threat_correlation", threat_correlation |-> "risk_assessment",
   risk_assessment |-> "ai_decision", ai_decision |-> "remediation",
   remediation |-> "analytics", analytics |-> "completing"]

Stages == DOMAIN After
UntilRisk == {"mime_parsing", "stage2_parallel", "threat_intel", "risk_assessment"} \cup Enrichments

\* The event that is being published at a control point.
Announces == [starting |-> "started", completing |-> "completed", failing |-> "failed"]
Ended == {"returned", "raised", "killed"}
Points == {"idle"} \cup DOMAIN Announces \cup Stages \cup Ended

VARIABLES
  pc,      \* where each analysis awaits
  token,   \* is the cancellation token set?
  asked,   \* where the analysis was when its token was set ("idle": it is not)
  running, \* the coroutines of the parallel stage that have not ended
  given,   \* the stages whose own result is used; the others are degraded
  scored,  \* the enrichments whose results the risk assessment was given
  dryRuns, \* remediation records made for the mail
  events   \* what the subscribers have received

vars == <<pc, token, asked, running, given, scored, dryRuns, events>>

NotScored == {"idle"}

Init == /\ pc = [a \in Analyses |-> "idle"]
        /\ token = [a \in Analyses |-> FALSE]
        /\ asked = [a \in Analyses |-> "idle"]
        /\ running = [a \in Analyses |-> {}]
        /\ given = [a \in Analyses |-> {}]
        /\ scored = [a \in Analyses |-> NotScored]
        /\ dryRuns = [a \in Analyses |-> 0]
        /\ events = [a \in Analyses |-> <<>>]

-----------------------------------------------------------------------------
\* Mutant: nothing is checked once the risk is known.
CheckedLess == {"mime_parsing", "stage2_parallel", "threat_intel", "risk_assessment"}

\* The stages that are entered only after _check_cancellation.
Checked == {"mime_parsing", "stage2_parallel", "threat_intel", "risk_assessment", "ai_decision"}

\* Where an analysis goes when stage s is next.
Entry(a, s) == IF s \in Checked /\ token[a] THEN "failing" ELSE s

Enter(a, s) ==
  /\ pc' = [pc EXCEPT ![a] = Entry(a, s)]
  /\ running' = [running EXCEPT ![a] = IF Entry(a, s) = "stage2_parallel" THEN Parallel ELSE {}]

\* analyze_email is called.
Analyze(a) ==
  /\ pc[a] = "idle"
  /\ pc' = [pc EXCEPT ![a] = "starting"]
  /\ UNCHANGED <<token, asked, running, given, scored, dryRuns, events>>

\* The publisher hands the event to its subscribers.
Deliver(a) ==
  /\ pc[a] \in DOMAIN Announces
  /\ \A i \in DOMAIN events[a] : events[a][i] # Announces[pc[a]]
  /\ events' = [events EXCEPT ![a] = Append(@, Announces[pc[a]])]
  /\ UNCHANGED <<pc, token, asked, running, given, scored, dryRuns>>

\* publish() returns or raises, which _publish_event swallows: the event may or
\* may not have been delivered.
Start(a) ==
  /\ pc[a] = "starting"
  /\ Enter(a, "mime_parsing")
  /\ UNCHANGED <<token, asked, given, scored, dryRuns, events>>

-----------------------------------------------------------------------------
\* Mutant: the gather is over with the first of its coroutines.
EndParallelEarly(a, b, ok) ==
  /\ pc[a] = "stage2_parallel" /\ b \in running[a]
  /\ given' = [given EXCEPT ![a] = IF ok THEN @ \cup {b} ELSE @]
  /\ pc' = [pc EXCEPT ![a] = Entry(a, "threat_intel")]
  /\ running' = [running EXCEPT ![a] = @ \ {b}]
  /\ UNCHANGED <<token, asked, scored, dryRuns, events>>

\* One of the two coroutines of the parallel stage ends; the gather waits for both.
EndParallel(a, b, ok) ==
  /\ pc[a] = "stage2_parallel" /\ b \in running[a]
  /\ given' = [given EXCEPT ![a] = IF ok THEN @ \cup {b} ELSE @]
  /\ \/ /\ running[a] # {b}
        /\ running' = [running EXCEPT ![a] = @ \ {b}]
        /\ UNCHANGED pc
     \/ /\ running[a] = {b}
        /\ Enter(a, "threat_intel")
  /\ UNCHANGED <<token, asked, scored, dryRuns, events>>

\* A stage ends with its own result; the risk assessment scores what the
\* enrichments gave, the remediation stage records a dry run.
Succeed(a) ==
  LET s == pc[a] IN
  /\ s \in Stages \ {"stage2_parallel"}
  /\ given' = [given EXCEPT ![a] = @ \cup {s}]
  /\ scored' = [scored EXCEPT ![a] = IF s = "risk_assessment" THEN given[a] \cap Enrichments ELSE @]
  /\ dryRuns' = [dryRuns EXCEPT ![a] = IF s = "remediation" THEN @ + 1 ELSE @]
  /\ Enter(a, After[s])
  /\ UNCHANGED <<token, asked, events>>

\* Mutant: when the last enrichment fails, all of them are tried again.
FailRetrying(a) ==
  LET s == pc[a] IN
  /\ s \in Stages \ {"stage2_parallel"}
  /\ IF s \in Critical THEN pc' = [pc EXCEPT ![a] = "failing"] /\ UNCHANGED running
     ELSE Enter(a, IF s = "threat_correlation" THEN "content_intelligence" ELSE After[s])
  /\ UNCHANGED <<token, asked, given, scored, dryRuns, events>>

\* A stage raises: a critical one ends the analysis, the others are degraded.
\* Saving its record is the last thing the remediation stage does.
Fail(a) ==
  LET s == pc[a] IN
  /\ s \in Stages \ {"stage2_parallel"}
  /\ IF s \in Critical THEN pc' = [pc EXCEPT ![a] = "failing"] /\ UNCHANGED running
                       ELSE Enter(a, After[s])
  /\ UNCHANGED <<token, asked, given, scored, dryRuns, events>>

\* Mutant: an error of the publisher is treated like one of the analysis.
ReturnStrict(a) ==
  /\ pc[a] = "completing"
  /\ \E p \in {"returned", "failing"} : pc' = [pc EXCEPT ![a] = p]
  /\ UNCHANGED <<token, asked, running, given, scored, dryRuns, events>>

\* publish() of PipelineCompletedEvent is over, and the result is returned.
Return(a) ==
  /\ pc[a] = "completing"
  /\ pc' = [pc EXCEPT ![a] = "returned"]
  /\ UNCHANGED <<token, asked, running, given, scored, dryRuns, events>>

\* publish() of PipelineFailedEvent is over, and the exception is raised again.
Raise(a) ==
  /\ pc[a] = "failing"
  /\ pc' = [pc EXCEPT ![a] = "raised"]
  /\ UNCHANGED <<token, asked, running, given, scored, dryRuns, events>>

-----------------------------------------------------------------------------
\* The caller sets the token while the analysis awaits.
Cancel(a) ==
  /\ pc[a] \notin Ended \cup {"idle"} /\ ~token[a]
  /\ token' = [token EXCEPT ![a] = TRUE]
  /\ asked' = [asked EXCEPT ![a] = pc[a]]
  /\ UNCHANGED <<pc, running, given, scored, dryRuns, events>>

\* The task is cancelled (a daemon or the server stops): CancelledError passes
\* every handler of the pipeline, and gather cancels its coroutines.
Kill(a) ==
  /\ pc[a] \notin Ended \cup {"idle"}
  /\ pc' = [pc EXCEPT ![a] = "killed"]
  /\ running' = [running EXCEPT ![a] = {}]
  /\ UNCHANGED <<token, asked, given, scored, dryRuns, events>>

\* A step of the analysis itself.
Advance(a) == \/ Start(a) \/ Succeed(a) \/ Fail(a) \/ Return(a) \/ Raise(a)
              \/ \E b \in Parallel, ok \in BOOLEAN : EndParallel(a, b, ok)

Next == \E a \in Analyses : Analyze(a) \/ Advance(a) \/ Deliver(a) \/ Cancel(a) \/ Kill(a)

Spec == Init /\ [][Next]_vars

\* Every engine and the publisher come to an end: their network calls have timeouts.
FairSpec == Spec /\ \A a \in Analyses : WF_vars(Advance(a))

-----------------------------------------------------------------------------
\* Type invariant; coroutines run exactly during the parallel stage.
TypeOK ==
  /\ pc \in [Analyses -> Points]
  /\ token \in [Analyses -> BOOLEAN]
  /\ asked \in [Analyses -> Points]
  /\ running \in [Analyses -> SUBSET Parallel]
  /\ given \in [Analyses -> SUBSET (Stages \cup Parallel)]
  /\ scored \in [Analyses -> (SUBSET Enrichments) \cup {NotScored}]
  /\ dryRuns \in [Analyses -> Nat]
  /\ events \in [Analyses -> Seq({"started", "completed", "failed"})]
  /\ \A a \in Analyses : running[a] # {} <=> pc[a] = "stage2_parallel"

Heard(a, e) == \E i \in DOMAIN events[a] : events[a][i] = e

\* A cancellation asked for while the risk was not yet assessed is heeded: no
\* decision is made on the mail, no remediation is recorded, nothing completes.
CancelledInTime ==
  \A a \in Analyses :
    asked[a] \in UntilRisk => /\ pc[a] \in UntilRisk \cup {"failing", "raised", "killed"}
                              /\ dryRuns[a] = 0
                              /\ ~Heard(a, "completed")

\* What subscribers hear is what happened, whatever the publisher does: no mail
\* both completes and fails, one that completes was scored with the enrichments
\* that ended well, and one that fails is not returned to the caller.
EventsAreTrue ==
  \A a \in Analyses :
    /\ Heard(a, "completed") => /\ ~Heard(a, "failed")
                                /\ pc[a] \in {"completing", "returned", "killed"}
                                /\ scored[a] = given[a] \cap Enrichments
    /\ Heard(a, "failed") => pc[a] # "returned"

\* An analysis that was started comes to an end, and a cancellation asked for
\* before the risk assessment ends it without a result.
ComesToAnEnd ==
  \A a \in Analyses : /\ pc[a] = "starting" ~> pc[a] \in Ended
                      /\ asked[a] \in UntilRisk ~> pc[a] \in {"raised", "killed"}
=============================================================================
