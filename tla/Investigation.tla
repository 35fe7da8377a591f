--------------------------- MODULE Investigation ---------------------------
(***************************************************************************)
(* The investigation of a mail by planned tools: the loop of               *)
(* MultiStepInvestigator (planner/investigator.py), the planner and its    *)
(* fallback (planner/services/planner_service.py), the language model      *)
(* behind it (planner/providers/groq) and the executor of plans            *)
(* (planner/orchestration.py) with its dependencies, conditions and        *)
(* retries.                                                                *)
(*                                                                         *)
(* A plan is a set of steps.  The executor sorts it beforehand; since a    *)
(* step is decided only after everything it depends on, and the lowest     *)
(* priority number goes first, the next step of the model is any of those  *)
(* the sort could have put there.  Whoever called may ask to cancel at any *)
(* moment; the code looks at the request between steps.                    *)
(***************************************************************************)
EXTENDS Integers, Sequences, FiniteSets

CONSTANTS
  Tools,          \* names a plan may use
  Registries,     \* which of them are registered: the possible registries
  CandidateTools, \* the tools of the fallback plan, in their order
  Proposals,      \* plans the language model may come up with
  Mails,          \* what there is to find in the mail: sets of facts
  Preconditions,  \* configured policy: tool -> tools that come before it
  MaxSteps,       \* configured policy: steps of a plan
  MaxIterations,
  PlanRetries     \* repeated requests to the language model

ASSUME LimitAssumption == MaxIterations \in Nat \ {0} /\ PlanRetries \in Nat
ASSUME ToolAssumption == "none" \notin Tools /\ CandidateTools \in Seq(Tools)
ASSUME ProposalAssumption == \A p \in Proposals : IsFiniteSet(p) /\ \A s \in p : s.tool \in Tools

VARIABLES
  policy,     \* which PlanningPolicy the planner was given
  registered, \* the names in the tool registry
  mail,       \* the facts a tool would find
  parsed,     \* does the state hold a parsed mail?
  stage,      \* "idle", "planning", "deciding" (between steps), "running", "over"
  iteration,
  requests,   \* requests to the model for the current plan
  plan,       \* the steps of the current plan
  decided,    \* the records of the current plan: sequence of [step, status]
  active,     \* the step whose tool is running
  tries,      \* how often its tool was run
  seenIds,    \* executed_step_ids
  history,    \* execution_history: tool -> entries
  cancelled,  \* has the caller asked to cancel?
  outcome

invVars == <<policy, registered, mail, parsed, stage, iteration, requests, plan, decided,
             active, tries, seenIds, history, cancelled, outcome>>
given_ == <<policy, registered, mail>>

NoStep == [id |-> "none", tool |-> "none", priority |-> 0, deps |-> {}, conds |-> {}, retries |-> 0]
Statuses == {"COMPLETED", "FAILED", "SKIPPED", "CANCELLED"}
Outcomes == {"none", "success", "cancelled", "plan failed", "halted", "limit", "raised"}

InvInit ==
  /\ policy \in {"default", "configured"}
  /\ registered \in Registries
  /\ mail \in Mails
  /\ parsed \in BOOLEAN
  /\ stage = "idle" /\ iteration = 0 /\ requests = 0
  /\ plan = {} /\ decided = <<>> /\ active = NoStep /\ tries = 0
  /\ seenIds = {} /\ cancelled = FALSE /\ outcome = "none"
  /\ history = [t \in Tools |-> 0]

Done(t) == history[t] > 0
Used == {t \in Tools : Done(t)}
Ids(p) == {s.id : s \in p}
ToolsOf(p) == {s.tool : s \in p}

-----------------------------------------------------------------------------
(***************************************************************************)
(* Plans.                                                                  *)
(***************************************************************************)
\* The steps of plan p that step s depends on: a dependency is the identifier
\* of a step or else the name of a tool; one that is neither is ignored.
Prereqs(p, s) == {t \in p : t.id \in s.deps \/ t.tool \in s.deps \ Ids(p)}

Cyclic(p) == \E c \in SUBSET p \ {{}} : \A s \in c : Prereqs(p, s) \cap c # {}
Ambiguous(p) == \E s, t \in p : s # t /\ s.id = t.id

\* What the sort cannot put in order; the executor then runs nothing at all.
Unsortable(p) == Ambiguous(p) \/ Cyclic(p)

DefaultAccepts(p) == ToolsOf(p) \subseteq registered

\* validate_plan of the configurable policy: size, tools, repeated tools,
\* identifiers, preconditions, dependencies that resolve, and cycles.
ConfigurableAccepts(p) ==
  /\ Cardinality(p) <= MaxSteps
  /\ ToolsOf(p) \subseteq registered
  /\ Cardinality(ToolsOf(p)) = Cardinality(p)
  /\ ~Ambiguous(p)
  /\ \A s \in p :
       /\ s.tool \in DOMAIN Preconditions =>
            \A r \in Preconditions[s.tool] :
              r \in Used \/ \E t \in p : t.tool = r /\ t.priority < s.priority
       /\ s.deps \subseteq Ids(p) \cup ToolsOf(p) \cup Used
  /\ ~Cyclic(p)

Accepts(p) == IF policy = "default" THEN DefaultAccepts(p) ELSE ConfigurableAccepts(p)

\* The plan for a model that does not answer: nothing once a tool has been used.
FallbackPlan ==
  IF Used # {} THEN {}
  ELSE {[NoStep EXCEPT !.id = CandidateTools[i], !.tool = CandidateTools[i], !.priority = i] :
          i \in DOMAIN CandidateTools}

-----------------------------------------------------------------------------
(***************************************************************************)
(* Planning.                                                               *)
(***************************************************************************)
End(o) == stage' = "over" /\ outcome' = o

\* What investigate does with a plan: one without new steps ends it well.
Adopt(p) ==
  /\ requests' = 0
  /\ plan' = p /\ decided' = <<>>
  /\ IF Ids(p) \subseteq seenIds
     THEN End("success")
     ELSE stage' = "deciding" /\ UNCHANGED outcome
  /\ UNCHANGED <<given_, parsed, iteration, active, tries, seenIds, history, cancelled>>

\* A planning that gave no plan ends the investigation.
GiveUp(o) ==
  /\ requests' = 0
  /\ End(o)
  /\ UNCHANGED <<given_, parsed, iteration, plan, decided, active, tries, seenIds, history,
                 cancelled>>

\* investigate() is called.
Investigate ==
  /\ stage = "idle"
  /\ stage' = "planning"
  /\ UNCHANGED <<given_, parsed, iteration, requests, plan, decided, active, tries, seenIds,
                 history, cancelled, outcome>>

\* The top of the loop: the request to cancel is looked at before a plan is made.
CancelPlanning ==
  /\ stage = "planning" /\ requests = 0 /\ cancelled
  /\ GiveUp("cancelled")

Asking == stage = "planning" /\ (requests = 0 => ~cancelled)

\* The model answers with a plan; one that the policy rejects is an error.
Answer(p) ==
  /\ Asking
  /\ IF Accepts(p) THEN Adopt(p) ELSE GiveUp("plan failed")

\* The answer is no plan at all, the request was refused, or the mail does not
\* fit into the context (a subject of more than 512 characters).
Refuse == Asking /\ GiveUp("plan failed")

\* No answer this time: a time-out, a network error, a 429 or a 5xx status.
\* Only the last one, after all retries, leads to the fallback plan, and the
\* registry raises for the first of its tools that it does not have.
NoAnswer(busy) ==
  /\ Asking
  /\ IF requests < PlanRetries
     THEN /\ requests' = requests + 1
          /\ UNCHANGED <<given_, parsed, stage, iteration, plan, decided, active, tries,
                         seenIds, history, cancelled, outcome>>
     ELSE IF ~busy THEN GiveUp("plan failed")
     ELSE IF ToolsOf(FallbackPlan) \subseteq registered THEN Adopt(FallbackPlan)
     ELSE GiveUp("raised")

-----------------------------------------------------------------------------
(***************************************************************************)
(* Conditions of a step, evaluated on what is known so far.                *)
(***************************************************************************)
HasUrls == parsed /\ ("body_urls" \in mail \/ ("other_urls" \in mail /\ Done("url_tool")))
HasAttachments == parsed /\ "attachments" \in mail
HasImageAttachments == parsed /\ "images" \in mail

\* No tool reports evidence whose category or title names SPF.
SpfFailed == FALSE

\* Only the infrastructure providers give evidence on the sender a severity.
SuspiciousSender == "flagged_sender" \in mail /\ Done("sender_tool")

\* A condition without an evaluator is not met.
Met(c) == CASE c = "has_urls" -> HasUrls
            [] c = "has_attachments" -> HasAttachments
            [] c = "has_image_attachments" -> HasImageAttachments
            [] c = "spf_failed" -> SpfFailed
            [] c = "suspicious_sender" -> SuspiciousSender
            [] c = "always_true" -> TRUE
            [] OTHER -> FALSE

-----------------------------------------------------------------------------
(***************************************************************************)
(* Execution.                                                              *)
(***************************************************************************)
DecidedSteps == {decided[i].step : i \in DOMAIN decided}
Count(st) == Cardinality({i \in DOMAIN decided : decided[i].status = st})
StatusOf(s) == decided[CHOOSE i \in DOMAIN decided : decided[i].step = s].status

\* The steps the sort may have put next.
NextSteps ==
  LET ready == {s \in plan \ DecidedSteps : Prereqs(plan, s) \subseteq DecidedSteps} IN
  {s \in ready : \A t \in ready : s.priority <= t.priority}

\* The record of dependency d: that of the step with the identifier, or else of
\* the first step that was decided with that tool.
Ground(d) == LET named == {i \in DOMAIN decided : decided[i].step.id = d}
                 used == {i \in DOMAIN decided : decided[i].step.tool = d}
                 hits == IF named # {} THEN named ELSE used IN
             IF hits = {} THEN "none"
             ELSE decided[CHOOSE i \in hits : \A j \in hits : i <= j].status

\* Mutant: only a dependency that failed itself stands in the way.
BlockedByFailure(s) == \E d \in s.deps : Ground(d) = "FAILED"

\* Does a dependency stand in the way?
Blocked(s) == \E d \in s.deps : Ground(d) \in {"FAILED", "CANCELLED"}

Record(s, st) == decided' = Append(decided, [step |-> s, status |-> st])

\* A step is decided without its tool: the request to cancel, a dependency that
\* failed or was cancelled, a condition, a tool that is not registered.
Dispose(s) ==
  /\ stage = "deciding" /\ ~Unsortable(plan) /\ s \in NextSteps
  /\ \/ (cancelled \/ Blocked(s)) /\ Record(s, "CANCELLED")
     \/ ~cancelled /\ ~Blocked(s) /\ (\E c \in s.conds : ~Met(c)) /\ Record(s, "SKIPPED")
     \/ /\ ~cancelled /\ ~Blocked(s) /\ (\A c \in s.conds : Met(c))
        /\ s.tool \notin registered /\ Record(s, "FAILED")
  /\ UNCHANGED <<given_, parsed, stage, iteration, requests, plan, active, tries, seenIds,
                 history, cancelled, outcome>>

\* Mutant: the request to cancel is looked at once per plan.
BeginAnyway(s) ==
  /\ stage = "deciding" /\ ~Unsortable(plan) /\ s \in NextSteps
  /\ ~Blocked(s) /\ (decided = <<>> => ~cancelled)
  /\ \A c \in s.conds : Met(c)
  /\ s.tool \in registered
  /\ stage' = "running" /\ active' = s /\ tries' = 0
  /\ UNCHANGED <<given_, parsed, iteration, requests, plan, decided, seenIds, history, cancelled, outcome>>

\* The tool of a step is started.
Begin(s) ==
  /\ stage = "deciding" /\ ~Unsortable(plan) /\ s \in NextSteps
  /\ ~cancelled /\ ~Blocked(s)
  /\ \A c \in s.conds : Met(c)
  /\ s.tool \in registered
  /\ stage' = "running" /\ active' = s /\ tries' = 0
  /\ UNCHANGED <<given_, parsed, iteration, requests, plan, decided, seenIds, history, cancelled, outcome>>

\* The tool completes: its result goes into the state, with its evidence.
Complete ==
  /\ stage = "running"
  /\ Record(active, "COMPLETED")
  /\ history' = [history EXCEPT ![active.tool] = @ + 1]
  /\ parsed' = (parsed \/ active.tool = "parser_tool")
  /\ stage' = "deciding" /\ active' = NoStep
  /\ UNCHANGED <<given_, iteration, requests, plan, tries, seenIds, cancelled, outcome>>

\* The tool fails, raises or has nothing to do: it is run again, or the step has failed.
\* Nobody looks at the request to cancel between the attempts.
Break ==
  /\ stage = "running"
  /\ \/ /\ tries < active.retries
        /\ tries' = tries + 1
        /\ UNCHANGED <<decided, stage, active>>
     \/ /\ tries = active.retries
        /\ Record(active, "FAILED")
        /\ stage' = "deciding" /\ active' = NoStep /\ UNCHANGED tries
  /\ UNCHANGED <<given_, parsed, iteration, requests, plan, seenIds, history, cancelled,
                 outcome>>

\* Mutant: a plan that could not be sorted is not counted.
ConcludeForgiving ==
  /\ stage = "deciding" /\ (Unsortable(plan) \/ DecidedSteps = plan)
  /\ iteration' = IF Unsortable(plan) THEN iteration ELSE iteration + 1
  /\ seenIds' = seenIds \cup {decided[i].step.id :
                    i \in {j \in DOMAIN decided : decided[j].status # "CANCELLED"}}
  /\ IF Count("COMPLETED") = 0 /\ Count("FAILED") > 0 THEN End("halted")
     ELSE IF iteration' = MaxIterations THEN End("limit")
     ELSE stage' = "planning" /\ UNCHANGED outcome
  /\ UNCHANGED <<given_, parsed, requests, plan, decided, active, tries, history, cancelled>>

\* Mutant: the limit is compared before the plan is counted.
ConcludeLate ==
  /\ stage = "deciding" /\ (Unsortable(plan) \/ DecidedSteps = plan)
  /\ iteration' = iteration + 1
  /\ seenIds' = seenIds \cup {decided[i].step.id :
                    i \in {j \in DOMAIN decided : decided[j].status # "CANCELLED"}}
  /\ IF Count("COMPLETED") = 0 /\ Count("FAILED") > 0 THEN End("halted")
     ELSE IF iteration = MaxIterations THEN End("limit")
     ELSE stage' = "planning" /\ UNCHANGED outcome
  /\ UNCHANGED <<given_, parsed, requests, plan, decided, active, tries, history, cancelled>>

\* The plan is done: its steps count as seen, unless they were cancelled.  The
\* next plan is asked for if a step completed or none failed.
Conclude ==
  /\ stage = "deciding" /\ (Unsortable(plan) \/ DecidedSteps = plan)
  /\ iteration' = iteration + 1
  /\ seenIds' = seenIds \cup {decided[i].step.id :
                    i \in {j \in DOMAIN decided : decided[j].status # "CANCELLED"}}
  /\ IF Count("COMPLETED") = 0 /\ Count("FAILED") > 0 THEN End("halted")
     ELSE IF iteration' = MaxIterations THEN End("limit")
     ELSE stage' = "planning" /\ UNCHANGED outcome
  /\ UNCHANGED <<given_, parsed, requests, plan, decided, active, tries, history, cancelled>>

\* The caller's request.
AskToCancel ==
  /\ stage \notin {"idle", "over"} /\ ~cancelled
  /\ cancelled' = TRUE
  /\ UNCHANGED <<given_, parsed, stage, iteration, requests, plan, decided, active, tries,
                 seenIds, history, outcome>>

Proceed ==
  \/ CancelPlanning \/ Refuse \/ Complete \/ Break \/ Conclude
  \/ \E p \in Proposals : Answer(p)
  \/ \E busy \in BOOLEAN : NoAnswer(busy)
  \/ \E s \in plan : Dispose(s) \/ Begin(s)

InvNext == Investigate \/ Proceed \/ AskToCancel

InvSpec == InvInit /\ [][InvNext]_invVars

\* Requests to the model have a time-out, and so have the tools' own requests.
InvFairness == WF_invVars(Proceed)

-----------------------------------------------------------------------------
\* Type invariant; an investigation has an outcome exactly when it is over.
InvTypeOK ==
  /\ stage \in {"idle", "planning", "deciding", "running", "over"}
  /\ iteration \in 0..MaxIterations /\ requests \in 0..PlanRetries
  /\ outcome \in Outcomes /\ (outcome # "none" <=> stage = "over")
  /\ \A i \in DOMAIN decided : decided[i].step \in plan /\ decided[i].status \in Statuses
  /\ (active # NoStep <=> stage = "running") /\ (stage = "running" => active \in plan)
  /\ tries \in Nat /\ parsed \in BOOLEAN /\ cancelled \in BOOLEAN
  /\ history \in [Tools -> Nat]

Ran == {s \in DecidedSteps : StatusOf(s) \in {"COMPLETED", "FAILED"}}

\* No tool works on the ground of a step that failed or was called off, however
\* long the chain between them is: when a tool has run, everything its step
\* depends on was decided before, and was completed or skipped.  Without the
\* configured policy several steps may use one tool, and then the executor asks
\* for the first of them only.
NothingBuiltOnFailure ==
  LET sound == {"COMPLETED", "SKIPPED"} IN
  \A s \in Ran \cup (IF stage = "running" THEN {active} ELSE {}) :
    /\ Prereqs(plan, s) \subseteq DecidedSteps
    /\ \A t \in Prereqs(plan, s) :
         (t.id \in s.deps \/ policy = "configured") => StatusOf(t) \in sound
    /\ \A t \in Prereqs(plan, s) : \E u \in Prereqs(plan, s) : u.tool = t.tool /\ StatusOf(u) \in sound

\* Once the caller has asked to cancel, no further tool is started.
NoToolAfterCancel == [][cancelled => active' \in {active, NoStep}]_invVars

\* Whatever the model answers and the tools do, the investigation comes to an end.
InvestigationEnds == stage = "planning" ~> stage = "over"

\* What an investigation may build on: no step ran whose dependencies had not
\* completed, whatever was retried, skipped, failed or planned anew.
InvestigationSound == InvTypeOK /\ NothingBuiltOnFailure

\* An investigation comes to an end, and starts no tool once it is cancelled.
InvestigationHalts == InvestigationEnds /\ NoToolAfterCancel
=============================================================================
