-------------------------- MODULE PipelineProofs ----------------------------
(***************************************************************************)
(* Proofs about the analysis of a mail, for any number of analyses, and    *)
(* about the investigation by planned tools, for any plans the language    *)
(* model proposes and any tools.                                           *)
(***************************************************************************)
EXTENDS Pipeline, Investigation, FiniteSetTheorems, SequenceTheorems, TLAPS

Decided == {"ai_decision", "remediation", "analytics", "completing", "returned"}

\* CancelledInTime and EventsAreTrue made inductive: whoever asked set the token,
\* what was scored is settled once a decision is being made, and no event is
\* heard before the analysis has come to the point of publishing it.
Consistent(a) ==
  /\ asked[a] \in UntilRisk => /\ token[a]
                               /\ pc[a] \in UntilRisk \cup {"failing", "raised", "killed"}
                               /\ dryRuns[a] = 0
                               /\ ~Heard(a, "completed")
  /\ pc[a] \in Decided \/ Heard(a, "completed") => scored[a] = given[a] \cap Enrichments
  /\ Heard(a, "completed") => pc[a] \in {"completing", "returned", "killed"}
  /\ Heard(a, "failed") => pc[a] \in {"failing", "raised", "killed"}
  /\ ~(Heard(a, "completed") /\ Heard(a, "failed"))
  /\ dryRuns[a] = 0 \/ pc[a] \in {"analytics", "completing", "returned", "killed"}

\* The control points, spelled out.
LEMMA PointsAre ==
  /\ Stages = {"mime_parsing", "stage2_parallel", "threat_intel", "content_intelligence",
               "url_intelligence", "threat_correlation", "risk_assessment", "ai_decision",
               "remediation", "analytics"}
  /\ DOMAIN Announces = {"starting", "completing", "failing"}
  /\ Points = Stages \cup {"idle", "starting", "completing", "failing",
                           "returned", "raised", "killed"}
  BY DEF Stages, After, Announces, Points, Ended

\* Every stage is followed by a stage or by the publication of the result, and
\* only the parsing stage leads to the parallel one.
LEMMA AfterIsAPoint ==
  ASSUME NEW s \in Stages
  PROVE  /\ After[s] \in Points
         /\ After[s] = "stage2_parallel" <=> s = "mime_parsing"
         /\ After[s] \in UntilRisk \cup Decided
<1>1. After[s] \in {"stage2_parallel", "threat_intel", "content_intelligence", "url_intelligence",
                    "threat_correlation", "risk_assessment", "ai_decision", "remediation",
                    "analytics", "completing"}
  BY PointsAre DEF After
<1>2. After[s] = "stage2_parallel" <=> s = "mime_parsing"
  BY PointsAre DEF After
<1> QED
  BY <1>1, <1>2, PointsAre DEF UntilRisk, Decided, Enrichments

\* Entering a stage keeps the control state well formed.
LEMMA EnterIsTyped ==
  ASSUME TypeOK, NEW a \in Analyses, NEW s \in Points, Enter(a, s)
  PROVE  /\ pc' \in [Analyses -> Points]
         /\ running' \in [Analyses -> SUBSET Parallel]
         /\ \A x \in Analyses : running'[x] # {} <=> pc'[x] = "stage2_parallel"
  BY PointsAre DEF TypeOK, Enter, Entry, Parallel

\* Type correctness of the pipeline: coroutines run exactly during the parallel
\* stage, whatever fails and whenever the analysis is cancelled.
THEOREM TypeCorrect == Spec => []TypeOK
<1>1. Init => TypeOK
  <2> SUFFICES ASSUME Init PROVE TypeOK
    OBVIOUS
  <2>1. /\ pc \in [Analyses -> Points] /\ asked \in [Analyses -> Points]
        /\ token \in [Analyses -> BOOLEAN]
    BY PointsAre DEF Init
  <2>2. events \in [Analyses -> Seq({"started", "completed", "failed"})]
    BY DEF Init
  <2>3. /\ running \in [Analyses -> SUBSET Parallel]
        /\ given \in [Analyses -> SUBSET (Stages \cup Parallel)]
    BY DEF Init
  <2>4. /\ scored \in [Analyses -> (SUBSET Enrichments) \cup {NotScored}]
        /\ dryRuns \in [Analyses -> Nat]
    BY DEF Init
  <2>5. \A a \in Analyses : running[a] # {} <=> pc[a] = "stage2_parallel"
    BY DEF Init
  <2> QED
    BY <2>1, <2>2, <2>3, <2>4, <2>5 DEF TypeOK
<1>2. TypeOK /\ [Next]_vars => TypeOK'
  <2> SUFFICES ASSUME TypeOK, [Next]_vars PROVE TypeOK'
    OBVIOUS
  <2>1. ASSUME NEW a \in Analyses, Analyze(a) PROVE TypeOK'
    BY <2>1, PointsAre DEF TypeOK, Analyze
  <2>2. ASSUME NEW a \in Analyses, Start(a) PROVE TypeOK'
    <3>1. "mime_parsing" \in Points
      BY PointsAre
    <3> QED
      BY <2>2, <3>1, EnterIsTyped DEF TypeOK, Start
  <2>3. ASSUME NEW a \in Analyses, Succeed(a) PROVE TypeOK'
    <3>1. pc[a] \in Stages /\ After[pc[a]] \in Points /\ Enter(a, After[pc[a]])
      BY <2>3, AfterIsAPoint DEF Succeed
    <3>2. /\ pc' \in [Analyses -> Points]
          /\ running' \in [Analyses -> SUBSET Parallel]
          /\ \A x \in Analyses : running'[x] # {} <=> pc'[x] = "stage2_parallel"
      BY <3>1, EnterIsTyped
    <3>3. given' \in [Analyses -> SUBSET (Stages \cup Parallel)]
      BY <2>3, <3>1 DEF TypeOK, Succeed
    <3>4. scored' \in [Analyses -> (SUBSET Enrichments) \cup {NotScored}]
      BY <2>3 DEF TypeOK, Succeed
    <3>5. dryRuns' \in [Analyses -> Nat]
      BY <2>3 DEF TypeOK, Succeed
    <3> QED
      BY <2>3, <3>2, <3>3, <3>4, <3>5 DEF TypeOK, Succeed
  <2>4. ASSUME NEW a \in Analyses, Fail(a) PROVE TypeOK'
    <3>1. CASE pc[a] \in Critical
      BY <2>4, <3>1, PointsAre DEF TypeOK, Fail
    <3>2. CASE pc[a] \notin Critical
      <4>1. pc[a] \in Stages /\ After[pc[a]] \in Points /\ Enter(a, After[pc[a]])
        BY <2>4, <3>2, AfterIsAPoint DEF Fail
      <4> QED
        BY <2>4, <4>1, EnterIsTyped DEF TypeOK, Fail
    <3> QED
      BY <3>1, <3>2
  <2>5. ASSUME NEW a \in Analyses, Return(a) PROVE TypeOK'
    BY <2>5, PointsAre DEF TypeOK, Return
  <2>6. ASSUME NEW a \in Analyses, Raise(a) PROVE TypeOK'
    BY <2>6, PointsAre DEF TypeOK, Raise
  <2>7. ASSUME NEW a \in Analyses, NEW b \in Parallel, NEW ok \in BOOLEAN, EndParallel(a, b, ok)
        PROVE  TypeOK'
    <3>1. given' \in [Analyses -> SUBSET (Stages \cup Parallel)]
      BY <2>7 DEF TypeOK, EndParallel
    <3>2. CASE running[a] # {b}
      BY <2>7, <3>1, <3>2 DEF TypeOK, EndParallel
    <3>3. CASE running[a] = {b}
      <4>1. "threat_intel" \in Points /\ Enter(a, "threat_intel")
        BY <2>7, <3>3, PointsAre DEF EndParallel
      <4> QED
        BY <2>7, <3>1, <4>1, EnterIsTyped DEF TypeOK, EndParallel
    <3> QED
      BY <3>2, <3>3
  <2>8. ASSUME NEW a \in Analyses, Deliver(a) PROVE TypeOK'
    BY <2>8 DEF TypeOK, Deliver, Announces
  <2>9. ASSUME NEW a \in Analyses, Cancel(a) PROVE TypeOK'
    BY <2>9, PointsAre DEF TypeOK, Cancel
  <2>10. ASSUME NEW a \in Analyses, Kill(a) PROVE TypeOK'
    BY <2>10, PointsAre DEF TypeOK, Kill
  <2>11. CASE UNCHANGED vars
    BY <2>11 DEF TypeOK, vars
  <2> QED
    BY <2>1, <2>2, <2>3, <2>4, <2>5, <2>6, <2>7, <2>8, <2>9, <2>10, <2>11 DEF Next, Advance
<1> QED
  BY <1>1, <1>2, PTL DEF Spec

-----------------------------------------------------------------------------
\* An event is heard after a delivery when it was heard before or is the one
\* that was delivered.
LEMMA HeardAfterDelivery ==
  ASSUME TypeOK, NEW a \in Analyses, Deliver(a), NEW x \in Analyses, NEW e
  PROVE  Heard(x, e)' <=> Heard(x, e) \/ (x = a /\ e = Announces[pc[a]])
<1>1. events[x] \in Seq({"started", "completed", "failed"})
  BY DEF TypeOK
<1>2. CASE x # a
  BY <1>2 DEF TypeOK, Deliver, Heard
<1>3. CASE x = a
  <2>1. events'[a] = Append(events[a], Announces[pc[a]])
    BY DEF TypeOK, Deliver
  <2>2. /\ DOMAIN events'[a] = 1..(Len(events[a]) + 1)
        /\ \A i \in 1..Len(events[a]) : events'[a][i] = events[a][i]
        /\ events'[a][Len(events[a]) + 1] = Announces[pc[a]]
    BY <1>1, <1>3, <2>1
  <2>3. DOMAIN events[a] = 1..Len(events[a]) /\ Len(events[a]) \in Nat
    BY <1>1, <1>3
  <2> QED
    BY <1>3, <2>2, <2>3 DEF Heard
<1> QED
  BY <1>2, <1>3

\* What an analysis is judged by is left alone by the steps of the others.
Same(x) == /\ pc'[x] = pc[x] /\ token'[x] = token[x] /\ asked'[x] = asked[x]
           /\ given'[x] = given[x] /\ scored'[x] = scored[x] /\ dryRuns'[x] = dryRuns[x]
           /\ events'[x] = events[x]

LEMMA OthersKeepConsistent ==
  ASSUME NEW x \in Analyses, Consistent(x), Same(x)
  PROVE  Consistent(x)'
  BY DEF Same, Consistent, Heard

\* The order of the stages, as far as the invariant depends on it.
LEMMA StageOrder ==
  ASSUME NEW s \in Stages
  PROVE  /\ After[s] \in Points /\ After[s] \in UntilRisk \cup Decided /\ After[s] # "returned"
         /\ After[s] \in Decided <=> s \in Decided \cup {"risk_assessment"}
         /\ s = "risk_assessment" => After[s] = "ai_decision"
         /\ s = "remediation" => After[s] = "analytics"
         /\ s = "analytics" => After[s] = "completing"
<1>1. /\ After.mime_parsing = "stage2_parallel" /\ After.stage2_parallel = "threat_intel"
      /\ After.threat_intel = "content_intelligence"
      /\ After.content_intelligence = "url_intelligence"
      /\ After.url_intelligence = "threat_correlation"
      /\ After.threat_correlation = "risk_assessment" /\ After.risk_assessment = "ai_decision"
      /\ After.ai_decision = "remediation" /\ After.remediation = "analytics"
      /\ After.analytics = "completing"
  BY DEF After
<1> QED
  BY <1>1, PointsAre DEF UntilRisk, Decided, Enrichments

\* An analysis enters a stage with its events unchanged.
LEMMA EnterIsConsistent ==
  ASSUME TypeOK, NEW a \in Analyses, Consistent(a), NEW s \in Points, Enter(a, s),
         UNCHANGED <<token, asked, events>>,
         pc[a] \in Stages \cup {"starting"}, s \in UntilRisk \cup Decided,
         s \in Decided => pc[a] \in Decided \cup {"risk_assessment"},
         pc[a] \in Decided => s \in Decided,
         pc[a] = "risk_assessment" => s = "ai_decision",
         s # "returned",
         Entry(a, s) \in Decided => scored'[a] = given'[a] \cap Enrichments,
         dryRuns'[a] = 0 \/ s \in {"analytics", "completing"},
         asked[a] \in UntilRisk => dryRuns'[a] = dryRuns[a]
  PROVE  Consistent(a)'
<1>1. ~Heard(a, "completed") /\ ~Heard(a, "failed")
  BY PointsAre DEF Consistent
<1> QED
  BY <1>1, PointsAre DEF Consistent, Heard, TypeOK, Enter, Entry, Checked, UntilRisk,
         Enrichments, Decided

\* Every step of an analysis keeps it consistent.
LEMMA ConsistentStep ==
  ASSUME TypeOK, NEW a \in Analyses, Consistent(a),
         Analyze(a) \/ Advance(a) \/ Deliver(a) \/ Cancel(a) \/ Kill(a)
  PROVE  Consistent(a)'
<1>1. CASE Analyze(a)
  BY <1>1, PointsAre DEF Analyze, Consistent, Heard, TypeOK, UntilRisk, Decided, Enrichments
<1>2. CASE Start(a)
  <2>1. "mime_parsing" \in Points /\ "mime_parsing" \in UntilRisk /\ "mime_parsing" \notin Decided
    BY PointsAre DEF UntilRisk, Decided
  <2>2. dryRuns'[a] = 0 /\ pc[a] \notin Decided
    BY <1>2 DEF Start, Consistent, Decided
  <2>3. Entry(a, "mime_parsing") \notin Decided
    BY DEF Entry, Decided
  <2> QED
    BY <1>2, <2>1, <2>2, <2>3, EnterIsConsistent DEF Start
<1>3. CASE Succeed(a)
  <2> DEFINE s == pc[a]
  <2>1. s \in Stages /\ Enter(a, After[s]) /\ UNCHANGED <<token, asked, events>>
    BY <1>3 DEF Succeed
  <2>2. /\ given'[a] = given[a] \cup {s}
        /\ scored'[a] = IF s = "risk_assessment" THEN given[a] \cap Enrichments ELSE scored[a]
        /\ dryRuns'[a] = IF s = "remediation" THEN dryRuns[a] + 1 ELSE dryRuns[a]
    BY <1>3 DEF Succeed, TypeOK
  <2>3. Entry(a, After[s]) \in Decided => s \in Decided \cup {"risk_assessment"}
    BY <2>1, StageOrder DEF Entry, Decided
  <2>4. s \in Decided \cup {"risk_assessment"} => scored'[a] = given'[a] \cap Enrichments
    BY <2>2 DEF Consistent, Decided, Enrichments
  <2>5. dryRuns'[a] = 0 \/ After[s] \in {"analytics", "completing"}
    BY <2>1, <2>2, StageOrder, PointsAre DEF Consistent
  <2>6. asked[a] \in UntilRisk => dryRuns'[a] = dryRuns[a]
    BY <2>2 DEF Consistent, UntilRisk, Enrichments
  <2> QED
    BY <2>1, <2>3, <2>4, <2>5, <2>6, StageOrder, EnterIsConsistent
<1>4. CASE Fail(a)
  <2> DEFINE s == pc[a]
  <2>1. s \in Stages /\ UNCHANGED <<token, asked, given, scored, dryRuns, events>>
    BY <1>4 DEF Fail
  <2>2. CASE s \in Critical
    BY <1>4, <2>1, <2>2
       DEF Fail, Critical, Consistent, Heard, TypeOK, UntilRisk, Decided, Enrichments
  <2>3. CASE s \notin Critical
    <3>1. Enter(a, After[s]) /\ s # "risk_assessment"
      BY <1>4, <2>3 DEF Fail, Critical
    <3>2. Entry(a, After[s]) \in Decided => s \in Decided
      BY <2>1, <3>1, StageOrder DEF Entry, Decided
    <3>3. s \in Decided => scored'[a] = given'[a] \cap Enrichments
      BY <2>1 DEF Consistent
    <3>4. dryRuns'[a] = 0 \/ After[s] \in {"analytics", "completing"}
      BY <2>1, StageOrder, PointsAre DEF Consistent
    <3> QED
      BY <2>1, <3>1, <3>2, <3>3, <3>4, StageOrder, EnterIsConsistent
  <2> QED
    BY <2>2, <2>3
<1>5. CASE Return(a)
  BY <1>5 DEF Return, Consistent, Heard, TypeOK, UntilRisk, Decided, Enrichments
<1>6. CASE Raise(a)
  BY <1>6 DEF Raise, Consistent, Heard, TypeOK, UntilRisk, Decided, Enrichments
<1>7. ASSUME NEW b \in Parallel, NEW ok \in BOOLEAN, EndParallel(a, b, ok) PROVE Consistent(a)'
  <2>1. /\ pc[a] = "stage2_parallel" /\ dryRuns[a] = 0
        /\ UNCHANGED <<token, asked, scored, dryRuns, events>>
    BY <1>7 DEF EndParallel, Consistent
  <2>2. CASE UNCHANGED pc
    BY <2>1, <2>2 DEF Consistent, Heard, TypeOK, UntilRisk, Decided, Enrichments
  <2>3. CASE Enter(a, "threat_intel")
    <3>1. "threat_intel" \in Points /\ "threat_intel" \in UntilRisk /\ "threat_intel" \notin Decided
      BY PointsAre DEF UntilRisk, Decided
    <3>2. Entry(a, "threat_intel") \notin Decided /\ pc[a] \in Stages /\ pc[a] \notin Decided
      BY <2>1, PointsAre DEF Entry, Decided
    <3> QED
      BY <2>1, <2>3, <3>1, <3>2, EnterIsConsistent
  <2> QED
    BY <1>7, <2>2, <2>3 DEF EndParallel
<1>8. CASE Deliver(a)
  <2>1. \A e : Heard(a, e)' <=> Heard(a, e) \/ e = Announces[pc[a]]
    BY <1>8, HeardAfterDelivery
  <2>2. pc[a] \in {"starting", "completing", "failing"}
    BY <1>8, PointsAre DEF Deliver
  <2>3. CASE pc[a] = "starting"
    BY <1>8, <2>1, <2>3 DEF Deliver, Announces, Consistent, TypeOK
  <2>4. CASE pc[a] = "completing"
    BY <1>8, <2>1, <2>4 DEF Deliver, Announces, Consistent, TypeOK, UntilRisk, Decided, Enrichments
  <2>5. CASE pc[a] = "failing"
    BY <1>8, <2>1, <2>5 DEF Deliver, Announces, Consistent, TypeOK, UntilRisk, Decided, Enrichments
  <2> QED
    BY <2>2, <2>3, <2>4, <2>5
<1>9. CASE Cancel(a)
  BY <1>9, PointsAre DEF Cancel, Consistent, Heard, TypeOK, UntilRisk, Decided, Enrichments
<1>10. CASE Kill(a)
  BY <1>10 DEF Kill, Consistent, Heard, TypeOK, UntilRisk, Decided, Enrichments
<1> QED
  BY <1>1, <1>2, <1>3, <1>4, <1>5, <1>6, <1>7, <1>8, <1>9, <1>10 DEF Advance

\* A step of one analysis is not a step of another.
LEMMA OthersAreSame ==
  ASSUME TypeOK, NEW a \in Analyses, NEW x \in Analyses, x # a,
         Analyze(a) \/ Advance(a) \/ Deliver(a) \/ Cancel(a) \/ Kill(a)
  PROVE  Same(x)
<1>1. CASE Analyze(a) \/ Start(a) \/ Return(a) \/ Raise(a)
  BY <1>1 DEF Same, TypeOK, Analyze, Start, Return, Raise, Enter
<1>2. CASE Succeed(a)
  BY <1>2 DEF Same, TypeOK, Succeed, Enter
<1>3. CASE Fail(a)
  BY <1>3 DEF Same, TypeOK, Fail, Enter
<1>4. ASSUME NEW b \in Parallel, NEW ok \in BOOLEAN, EndParallel(a, b, ok) PROVE Same(x)
  BY <1>4 DEF Same, TypeOK, EndParallel, Enter
<1>5. CASE Deliver(a)
  <2>1. events'[x] = events[x]
    BY <1>5 DEF TypeOK, Deliver
  <2> QED
    BY <1>5, <2>1 DEF Same, Deliver
<1>6. CASE Cancel(a) \/ Kill(a)
  BY <1>6 DEF Same, TypeOK, Cancel, Kill
<1> QED
  BY <1>1, <1>2, <1>3, <1>4, <1>5, <1>6 DEF Advance

\* Every analysis stays consistent, whatever the others do.
LEMMA AlwaysConsistent == Spec => [](TypeOK /\ \A a \in Analyses : Consistent(a))
<1>1. Init => \A a \in Analyses : Consistent(a)
  <2> SUFFICES ASSUME Init, NEW a \in Analyses PROVE Consistent(a)
    OBVIOUS
  <2>1. events[a] = <<>>
    BY DEF Init
  <2>2. \A e : ~Heard(a, e)
    BY <2>1 DEF Heard
  <2>3. pc[a] = "idle" /\ asked[a] = "idle" /\ dryRuns[a] = 0
    BY DEF Init
  <2> QED
    BY <2>2, <2>3 DEF Consistent, UntilRisk, Enrichments, Decided
<1>2. TypeOK /\ (\A a \in Analyses : Consistent(a)) /\ [Next]_vars
        => (\A a \in Analyses : Consistent(a))'
  <2> SUFFICES ASSUME TypeOK, \A a \in Analyses : Consistent(a), [Next]_vars,
                      NEW x \in Analyses
               PROVE  Consistent(x)'
    OBVIOUS
  <2>1. CASE UNCHANGED vars
    BY <2>1, OthersKeepConsistent DEF vars, Same
  <2>2. ASSUME NEW a \in Analyses,
               Analyze(a) \/ Advance(a) \/ Deliver(a) \/ Cancel(a) \/ Kill(a)
        PROVE  Consistent(x)'
    BY <2>2, ConsistentStep, OthersAreSame, OthersKeepConsistent
  <2> QED
    BY <2>1, <2>2 DEF Next
<1> QED
  BY <1>1, <1>2, TypeCorrect, PTL DEF Spec

\* A cancellation asked for before the risk is assessed is always heeded: no
\* decision, no remediation record and no completion, for any number of analyses
\* and any failures of stages, publisher or task.
THEOREM CancellationHeeded == Spec => []CancelledInTime
<1>1. (\A a \in Analyses : Consistent(a)) => CancelledInTime
  BY DEF Consistent, CancelledInTime
<1> QED
  BY <1>1, AlwaysConsistent, PTL

\* The events tell the truth: no analysis is announced as completed and failed,
\* and one announced as completed was scored with what its stages gave.
THEOREM EventsTruthful == Spec => []EventsAreTrue
<1>1. (\A a \in Analyses : Consistent(a)) => EventsAreTrue
  BY DEF Consistent, EventsAreTrue
<1> QED
  BY <1>1, AlwaysConsistent, PTL

-----------------------------------------------------------------------------
(***************************************************************************)
(* The investigation.  A step whose tool has run, or runs, is founded:     *)
(* all it depends on was decided before, and well.  It stays founded,      *)
(* since a step is decided once and its record does not change.            *)
(***************************************************************************)
Sound == {"COMPLETED", "SKIPPED"}

Founded(s) ==
  /\ Prereqs(plan, s) \subseteq DecidedSteps
  /\ \A t \in Prereqs(plan, s) :
       (t.id \in s.deps \/ policy = "configured") => StatusOf(t) \in Sound
  /\ \A t \in Prereqs(plan, s) : \E u \in Prereqs(plan, s) : u.tool = t.tool /\ StatusOf(u) \in Sound

DecidedOnce == \A i, j \in DOMAIN decided : decided[i].step = decided[j].step => i = j
StepRecord == [step : plan, status : Statuses]

\* The configured policy lets a tool into a plan once; the fallback plan has no
\* dependencies.
PlanOK ==
  /\ \A s \in plan : s.tool \in Tools
  /\ policy = "configured" =>
       \/ \A s, t \in plan : s.tool = t.tool => s = t
       \/ \A s \in plan : s.deps = {}

StagesOK ==
  /\ stage \in {"idle", "planning", "deciding", "running", "over"}
  /\ iteration \in 0..MaxIterations /\ (stage # "over" => iteration < MaxIterations)
  /\ requests \in 0..PlanRetries
  /\ outcome \in Outcomes /\ (outcome # "none" <=> stage = "over")
  /\ tries \in Nat /\ parsed \in BOOLEAN /\ cancelled \in BOOLEAN /\ history \in [Tools -> Nat]

InvestigationInv ==
  /\ StagesOK /\ PlanOK
  /\ decided \in Seq(StepRecord) /\ DecidedOnce
  /\ \A i \in DOMAIN decided : decided[i].status \in {"COMPLETED", "FAILED"} => Founded(decided[i].step)
  /\ stage # "running" => active = NoStep
  /\ stage = "running" => active \in plan /\ active \notin DecidedSteps /\ Founded(active)

\* The status of a step is the one in its only record.
LEMMA StatusAt ==
  ASSUME DecidedOnce, NEW i \in DOMAIN decided
  PROVE  StatusOf(decided[i].step) = decided[i].status
<1>1. PICK j : j = CHOOSE k \in DOMAIN decided : decided[k].step = decided[i].step
  OBVIOUS
<1>2. j \in DOMAIN decided /\ decided[j].step = decided[i].step
  BY <1>1
<1> QED BY <1>1, <1>2 DEF DecidedOnce, StatusOf

LEMMA InvestigationInvSuffices == InvestigationInv => InvestigationSound
<1> SUFFICES ASSUME InvestigationInv PROVE InvTypeOK /\ NothingBuiltOnFailure
  BY DEF InvestigationSound
<1>1. InvTypeOK
  <2>1. \A i \in DOMAIN decided : decided[i].step \in plan /\ decided[i].status \in Statuses
    <3>1. \A i \in DOMAIN decided : decided[i] \in StepRecord
      BY LenProperties, ElementOfSeq DEF InvestigationInv
    <3> QED BY <3>1 DEF StepRecord
  <2>2. active # NoStep <=> stage = "running"
    BY ToolAssumption DEF InvestigationInv, PlanOK, NoStep
  <2> QED BY <2>1, <2>2 DEF InvestigationInv, StagesOK, InvTypeOK
<1>2. NothingBuiltOnFailure
  <2>1. ASSUME NEW s \in Ran PROVE Founded(s)
    <3>1. PICK i \in DOMAIN decided : s = decided[i].step /\ StatusOf(s) \in {"COMPLETED", "FAILED"}
      BY <2>1 DEF Ran, DecidedSteps
    <3> QED BY <3>1, StatusAt DEF InvestigationInv
  <2>2. \A s \in Ran \cup (IF stage = "running" THEN {active} ELSE {}) : Founded(s)
    BY <2>1 DEF InvestigationInv
  <2> QED BY <2>2 DEF NothingBuiltOnFailure, Founded, Sound
<1> QED BY <1>1, <1>2

\* A set of numbers has a least one.
LEMMA LeastNumber ==
  ASSUME NEW S, S \subseteq Nat, S # {}
  PROVE  \E x \in S : \A y \in S : x <= y
<1>1. PICK x \in S : \A y \in S : ~(<<y, x>> \in OpToRel(<, Nat))
  BY NatLessThanWellFounded, WFMin, Zenon
<1>2. ASSUME NEW y \in S PROVE x <= y
  <2>1. ~(y < x)
    BY <1>1 DEF OpToRel
  <2> QED BY <2>1
<1> QED BY <1>2

\* A step that is not blocked when all it depends on is decided is founded.
LEMMA UnblockedIsFounded ==
  ASSUME InvestigationInv, ~Unsortable(plan), NEW s \in plan, Prereqs(plan, s) \subseteq DecidedSteps, ~Blocked(s)
  PROVE  Founded(s)
<1>0. PICK n \in Nat : DOMAIN decided = 1..n
  BY LenProperties DEF InvestigationInv
<1>1. \A i \in DOMAIN decided : decided[i] \in StepRecord /\ decided[i].step \in plan /\ decided[i].status \in Statuses
  <2>1. \A i \in DOMAIN decided : decided[i] \in StepRecord
    BY LenProperties, ElementOfSeq DEF InvestigationInv
  <2> QED BY <2>1 DEF StepRecord
<1>2. ASSUME NEW d \in s.deps, NEW hits,
             hits = IF {i \in DOMAIN decided : decided[i].step.id = d} # {}
                    THEN {i \in DOMAIN decided : decided[i].step.id = d}
                    ELSE {i \in DOMAIN decided : decided[i].step.tool = d},
             hits # {}
      PROVE  \E i \in hits : decided[i].status \in Sound
  <2>1. hits \subseteq DOMAIN decided /\ hits \subseteq Nat
    BY <1>0, <1>2
  <2>2. PICK i : i = CHOOSE j \in hits : \A k \in hits : j <= k
    OBVIOUS
  <2>3. i \in hits
    BY <1>2, <2>1, <2>2, LeastNumber
  <2>4. Ground(d) = decided[i].status
    BY <1>2, <2>2 DEF Ground
  <2>5. decided[i].status \in Sound
    BY <1>1, <1>2, <2>1, <2>3, <2>4 DEF Blocked, Statuses, Sound
  <2> QED BY <2>3, <2>5
<1>3. ASSUME NEW t \in Prereqs(plan, s), t.id \in s.deps PROVE StatusOf(t) \in Sound
  <2>1. PICK k \in DOMAIN decided : decided[k].step = t
    BY <1>3 DEF DecidedSteps
  <2>2. PICK hits : hits = {i \in DOMAIN decided : decided[i].step.id = t.id}
    OBVIOUS
  <2>3. hits # {}
    BY <2>1, <2>2
  <2>4. PICK i \in hits : decided[i].status \in Sound
    BY <1>2, <1>3, <2>2, <2>3
  <2>5. decided[i].step = t
    BY <1>1, <2>2, <1>3 DEF Unsortable, Ambiguous, Prereqs
  <2> QED BY <2>2, <2>4, <2>5, StatusAt DEF InvestigationInv
<1>4. ASSUME NEW t \in Prereqs(plan, s), t.id \notin s.deps
      PROVE  \E u \in Prereqs(plan, s) : u.tool = t.tool /\ StatusOf(u) \in Sound
  <2>1. t.tool \in s.deps \ Ids(plan)
    BY <1>4 DEF Prereqs
  <2>2. PICK k \in DOMAIN decided : decided[k].step = t
    BY <1>4 DEF DecidedSteps
  <2>3. PICK hits : hits = {i \in DOMAIN decided : decided[i].step.tool = t.tool}
    OBVIOUS
  <2>4. {i \in DOMAIN decided : decided[i].step.id = t.tool} = {}
    BY <1>1, <2>1 DEF Ids
  <2>5. hits # {}
    BY <2>2, <2>3
  <2>6. PICK i \in hits : decided[i].status \in Sound
    BY <1>2, <2>1, <2>3, <2>4, <2>5
  <2>7. i \in DOMAIN decided /\ decided[i].step.tool = t.tool /\ decided[i].step \in Prereqs(plan, s)
    BY <1>1, <2>1, <2>3, <2>6 DEF Prereqs
  <2> QED BY <2>6, <2>7, StatusAt DEF InvestigationInv
<1>5. \A t \in Prereqs(plan, s) : \E u \in Prereqs(plan, s) : u.tool = t.tool /\ StatusOf(u) \in Sound
  BY <1>3, <1>4
<1>6. ASSUME policy = "configured", NEW t \in Prereqs(plan, s) PROVE StatusOf(t) \in Sound
  <2>1. t \in plan /\ s.deps # {}
    BY <1>6 DEF Prereqs
  <2>2. PICK u \in Prereqs(plan, s) : u.tool = t.tool /\ StatusOf(u) \in Sound
    BY <1>5
  <2>3. u \in plan /\ u = t
    BY <1>6, <2>1, <2>2 DEF Prereqs, InvestigationInv, PlanOK
  <2> QED BY <2>2, <2>3
<1> QED BY <1>3, <1>5, <1>6 DEF Founded

\* A further record: what was decided before stays as it is.
LEMMA DecideOneMore ==
  ASSUME InvestigationInv, NEW s \in plan, s \notin DecidedSteps, NEW st \in Statuses,
         Record(s, st), UNCHANGED <<plan, policy>>
  PROVE  /\ decided' \in Seq(StepRecord') /\ DecidedOnce'
         /\ DecidedSteps' = DecidedSteps \cup {s}
         /\ \A t : Founded(t) => Founded(t)'
         /\ \A i \in DOMAIN decided' : \/ i \in DOMAIN decided /\ decided'[i] = decided[i]
                                       \/ decided'[i].step = s /\ decided'[i].status = st
<1>0. PICK r : r = [step |-> s, status |-> st]
  OBVIOUS
<1>1. r \in StepRecord /\ r.step = s /\ r.status = st
  BY <1>0 DEF StepRecord
<1>2. StepRecord' = StepRecord
  BY DEF StepRecord
<1>3. decided' = Append(decided, r) /\ decided \in Seq(StepRecord)
  BY <1>0 DEF Record, InvestigationInv
<1>4. PICK n \in Nat : n = Len(decided)
  BY <1>3, LenProperties
<1>5. DOMAIN decided = 1..n
  BY <1>3, <1>4, LenProperties
<1>6. /\ decided' \in Seq(StepRecord) /\ Len(decided') = n + 1
      /\ \A i \in 1..n : decided'[i] = decided[i]
      /\ decided'[n + 1] = r
  BY <1>1, <1>3, <1>4, AppendProperties
<1>7. DOMAIN decided' = 1..(n + 1)
  BY <1>6, LenProperties
<1>8. \A i \in DOMAIN decided' : \/ i \in DOMAIN decided /\ decided'[i] = decided[i]
                                 \/ i = n + 1 /\ decided'[i] = r
  BY <1>5, <1>6, <1>7
<1>9. \A i \in DOMAIN decided : i # n + 1 /\ decided[i].step # s
  BY <1>5 DEF DecidedSteps
<1>10. DecidedOnce'
  <2> SUFFICES ASSUME NEW i \in DOMAIN decided', NEW j \in DOMAIN decided',
                      decided'[i].step = decided'[j].step
               PROVE  i = j
    BY DEF DecidedOnce
  <2> QED BY <1>1, <1>8, <1>9 DEF DecidedOnce, InvestigationInv
<1>11. DecidedSteps' = DecidedSteps \cup {s}
  <2>1. \A i \in DOMAIN decided : i \in DOMAIN decided' /\ decided'[i] = decided[i]
    BY <1>5, <1>6, <1>7
  <2>2. n + 1 \in DOMAIN decided' /\ decided'[n + 1].step = s
    BY <1>1, <1>6, <1>7
  <2>3. DecidedSteps' = {decided'[i].step : i \in DOMAIN decided'}
    BY DEF DecidedSteps
  <2> QED BY <1>1, <1>8, <2>1, <2>2, <2>3 DEF DecidedSteps
<1>12. ASSUME NEW t \in DecidedSteps PROVE StatusOf(t)' = StatusOf(t)
  <2>1. PICK i \in DOMAIN decided : decided[i].step = t
    BY DEF DecidedSteps
  <2>2. StatusOf(t) = decided[i].status
    BY <2>1, StatusAt DEF InvestigationInv
  <2>3. i \in DOMAIN decided' /\ decided'[i] = decided[i]
    BY <1>5, <1>6, <1>7
  <2>4. PICK j : j = CHOOSE k \in DOMAIN decided' : decided'[k].step = t
    OBVIOUS
  <2>5. j \in DOMAIN decided' /\ decided'[j].step = t
    BY <2>1, <2>3, <2>4
  <2>6. j = i
    BY <1>10, <2>1, <2>3, <2>5 DEF DecidedOnce
  <2>7. StatusOf(t)' = decided'[j].status
    BY <2>4 DEF StatusOf
  <2> QED BY <2>2, <2>3, <2>6, <2>7
<1>13. ASSUME NEW t, Founded(t) PROVE Founded(t)'
  <2>1. Prereqs(plan', t) = Prereqs(plan, t) /\ policy' = policy
    OBVIOUS
  <2>2. \A u \in Prereqs(plan, t) : u \in DecidedSteps /\ StatusOf(u)' = StatusOf(u)
    BY <1>12, <1>13 DEF Founded
  <2>3. Prereqs(plan', t) \subseteq DecidedSteps'
    BY <1>11, <1>13, <2>1 DEF Founded
  <2>4. \A u \in Prereqs(plan', t) : (u.id \in t.deps \/ policy' = "configured") => StatusOf(u)' \in Sound
    BY <1>13, <2>1, <2>2 DEF Founded
  <2>5. \A u \in Prereqs(plan', t) :
          \E v \in Prereqs(plan', t) : v.tool = u.tool /\ StatusOf(v)' \in Sound
    BY <1>13, <2>1, <2>2 DEF Founded
  <2> QED BY <2>3, <2>4, <2>5 DEF Founded
<1> QED BY <1>1, <1>2, <1>6, <1>8, <1>10, <1>11, <1>13

\* A plan with as many tools as steps has a tool for each.
LEMMA ToolsAreDistinct ==
  ASSUME NEW p, IsFiniteSet(p), Cardinality(ToolsOf(p)) = Cardinality(p),
         NEW s \in p, NEW t \in p, s.tool = t.tool
  PROVE  s = t
<1>1. PICK f : f = [x \in p |-> x.tool]
  OBVIOUS
<1>2. f \in Surjection(p, ToolsOf(p))
  BY <1>1 DEF Surjection, ToolsOf
<1>3. f \in Injection(p, ToolsOf(p))
  BY <1>2, FS_Surjection
<1> QED BY <1>1, <1>3 DEF Injection, IsInjective

LEMMA PlansFit ==
  ASSUME NEW p, \/ p \in Proposals /\ Accepts(p)
                \/ p = FallbackPlan
  PROVE  /\ \A s \in p : s.tool \in Tools
         /\ policy = "configured" =>
              \/ \A s, t \in p : s.tool = t.tool => s = t
              \/ \A s \in p : s.deps = {}
<1>1. CASE p \in Proposals /\ Accepts(p)
  <2>1. \A s \in p : s.tool \in Tools
    BY <1>1, ProposalAssumption
  <2>2. ASSUME policy = "configured" PROVE \A s, t \in p : s.tool = t.tool => s = t
    <3>1. IsFiniteSet(p) /\ Cardinality(ToolsOf(p)) = Cardinality(p)
      BY <1>1, <2>2, ProposalAssumption DEF Accepts, ConfigurableAccepts
    <3> QED BY <3>1, ToolsAreDistinct
  <2> QED BY <2>1, <2>2
<1>2. CASE p = FallbackPlan
  <2>1. ASSUME NEW s \in p PROVE s.tool \in Tools /\ s.deps = {}
    <3>1. PICK i \in DOMAIN CandidateTools :
            s = [NoStep EXCEPT !.id = CandidateTools[i], !.tool = CandidateTools[i], !.priority = i]
      BY <1>2, <2>1 DEF FallbackPlan
    <3>2. CandidateTools[i] \in Tools
      BY ToolAssumption, LenProperties, ElementOfSeq
    <3> QED BY <3>1, <3>2 DEF NoStep
  <2> QED BY <2>1
<1> QED BY <1>1, <1>2

\* Nothing has been decided of a new plan.
LEMMA AdoptKeeps ==
  ASSUME InvestigationInv, stage = "planning", NEW p, Adopt(p),
         \/ p \in Proposals /\ Accepts(p)
         \/ p = FallbackPlan
  PROVE  InvestigationInv'
<1>1. plan' = p /\ decided' = <<>> /\ policy' = policy /\ stage' \in {"over", "deciding"} /\ active' = NoStep
  BY DEF Adopt, End, given_, InvestigationInv
<1>2. StagesOK'
  <2>1. outcome = "none" /\ outcome' \in Outcomes /\ (outcome' # "none" <=> stage' = "over")
    BY DEF Adopt, End, InvestigationInv, StagesOK, Outcomes
  <2>2. UNCHANGED <<iteration, tries, parsed, cancelled, history>> /\ requests' = 0
    BY DEF Adopt
  <2>3. requests' \in 0..PlanRetries
    BY <2>2, LimitAssumption
  <2> QED BY <1>1, <2>1, <2>2, <2>3 DEF InvestigationInv, StagesOK
<1>3. PlanOK'
  BY <1>1, PlansFit DEF PlanOK
<1>4. decided' \in Seq(StepRecord') /\ DOMAIN decided' = {}
  BY <1>1, EmptySeq
<1> QED BY <1>1, <1>2, <1>3, <1>4 DEF InvestigationInv, DecidedOnce

\* What does not touch the plan and its records leaves every step founded.
LEMMA UntouchedStaysFounded ==
  ASSUME UNCHANGED <<plan, decided, policy>>
  PROVE  /\ \A t : Founded(t)' = Founded(t)
         /\ DecidedSteps' = DecidedSteps /\ DecidedOnce' = DecidedOnce
         /\ StepRecord' = StepRecord /\ PlanOK' = PlanOK
<1>1. DecidedSteps' = DecidedSteps /\ DecidedOnce' = DecidedOnce /\ StepRecord' = StepRecord /\ PlanOK' = PlanOK
  BY DEF DecidedSteps, DecidedOnce, StepRecord, PlanOK
<1>2. \A t : StatusOf(t)' = StatusOf(t)
  BY DEF StatusOf
<1> QED BY <1>1, <1>2 DEF Founded

LEMMA RecordKeeps ==
  ASSUME InvestigationInv, NEW s \in plan, s \notin DecidedSteps, NEW st \in Statuses,
         Record(s, st), UNCHANGED <<plan, policy>>, StagesOK',
         st \in {"COMPLETED", "FAILED"} => Founded(s),
         stage' = "deciding", active' = NoStep
  PROVE  InvestigationInv'
<1>1. PlanOK'
  BY DEF InvestigationInv, PlanOK
<1>2. ASSUME NEW i \in DOMAIN decided', decided'[i].status \in {"COMPLETED", "FAILED"}
      PROVE  Founded(decided[i].step)'
  <2>1. CASE i \in DOMAIN decided /\ decided'[i] = decided[i]
    <3>1. Founded(decided[i].step)
      BY <1>2, <2>1 DEF InvestigationInv
    <3>2. PICK t : t = decided[i].step /\ t = decided'[i].step
      BY <2>1
    <3>3. Founded(t)'
      BY <3>1, <3>2, DecideOneMore
    <3> QED BY <3>2, <3>3 DEF Founded
  <2>2. CASE decided'[i].step = s /\ decided'[i].status = st
    <3>1. Founded(s)'
      BY <1>2, <2>2, DecideOneMore
    <3> QED BY <2>2, <3>1 DEF Founded
  <2> QED BY <2>1, <2>2, DecideOneMore
<1> QED BY <1>1, <1>2, DecideOneMore DEF InvestigationInv

LEMMA InvestigationStep == InvestigationInv /\ [InvNext]_invVars => InvestigationInv'
<1> SUFFICES ASSUME InvestigationInv, [InvNext]_invVars PROVE InvestigationInv'
  OBVIOUS
<1>1. ASSUME StagesOK', UNCHANGED <<plan, decided, policy>>,
             stage' # "running", active' = NoStep
      PROVE  InvestigationInv'
  BY <1>1, UntouchedStaysFounded DEF InvestigationInv
<1>2. ASSUME StagesOK', UNCHANGED <<plan, decided, policy, stage, active>>
      PROVE  InvestigationInv'
  BY <1>2, UntouchedStaysFounded DEF InvestigationInv
<1>3. ASSUME stage = "planning", NEW o \in Outcomes \ {"none"}, GiveUp(o) PROVE InvestigationInv'
  <2>1. StagesOK'
    BY <1>3, LimitAssumption DEF GiveUp, End, given_, InvestigationInv, StagesOK
  <2> QED BY <1>1, <1>3, <2>1 DEF GiveUp, End, given_, InvestigationInv
<1>4. CASE Investigate
  <2>1. StagesOK'
    BY <1>4 DEF Investigate, given_, InvestigationInv, StagesOK
  <2> QED BY <1>1, <1>4, <2>1 DEF Investigate, given_, InvestigationInv
<1>5. CASE CancelPlanning
  BY <1>3, <1>5 DEF CancelPlanning, Outcomes
<1>6. CASE Refuse
  BY <1>3, <1>6 DEF Refuse, Asking, Outcomes
<1>7. ASSUME NEW p \in Proposals, Answer(p) PROVE InvestigationInv'
  <2>1. CASE Accepts(p)
    BY <1>7, <2>1, AdoptKeeps DEF Answer, Asking
  <2>2. CASE ~Accepts(p)
    BY <1>3, <1>7, <2>2 DEF Answer, Asking, Outcomes
  <2> QED BY <2>1, <2>2
<1>8. ASSUME NEW busy \in BOOLEAN, NoAnswer(busy) PROVE InvestigationInv'
  <2>0. stage = "planning"
    BY <1>8 DEF NoAnswer, Asking
  <2>1. CASE requests < PlanRetries
    <3>1. StagesOK'
      BY <1>8, <2>1, LimitAssumption DEF NoAnswer, given_, InvestigationInv, StagesOK
    <3> QED BY <1>2, <1>8, <2>1, <3>1 DEF NoAnswer, given_
  <2>2. CASE GiveUp("plan failed") \/ GiveUp("raised")
    BY <1>3, <2>0, <2>2 DEF Outcomes
  <2>3. CASE Adopt(FallbackPlan)
    BY <2>0, <2>3, AdoptKeeps
  <2> QED BY <1>8, <2>1, <2>2, <2>3 DEF NoAnswer
<1>9. ASSUME NEW s \in plan, Dispose(s) PROVE InvestigationInv'
  <2>1. /\ s \notin DecidedSteps /\ Prereqs(plan, s) \subseteq DecidedSteps
        /\ ~Unsortable(plan) /\ UNCHANGED <<plan, policy>>
        /\ stage = "deciding" /\ stage' = "deciding" /\ active' = NoStep
    BY <1>9 DEF Dispose, NextSteps, given_, InvestigationInv
  <2>2. StagesOK'
    BY <1>9 DEF Dispose, given_, InvestigationInv, StagesOK
  <2>3. CASE Record(s, "CANCELLED")
    BY <2>1, <2>2, <2>3, RecordKeeps DEF Statuses
  <2>4. CASE Record(s, "SKIPPED")
    BY <2>1, <2>2, <2>4, RecordKeeps DEF Statuses
  <2>5. CASE ~Blocked(s) /\ Record(s, "FAILED")
    <3>1. Founded(s)
      BY <2>1, <2>5, UnblockedIsFounded
    <3> QED BY <2>1, <2>2, <2>5, <3>1, RecordKeeps DEF Statuses
  <2> QED BY <1>9, <2>3, <2>4, <2>5 DEF Dispose
<1>10. ASSUME NEW s \in plan, Begin(s) PROVE InvestigationInv'
  <2>1. /\ s \notin DecidedSteps /\ Prereqs(plan, s) \subseteq DecidedSteps
        /\ ~Unsortable(plan) /\ ~Blocked(s) /\ UNCHANGED <<plan, policy, decided>>
        /\ stage' = "running" /\ active' = s
    BY <1>10 DEF Begin, NextSteps, given_
  <2>2. StagesOK'
    BY <1>10 DEF Begin, given_, InvestigationInv, StagesOK
  <2>3. Founded(s)
    BY <2>1, UnblockedIsFounded
  <2>4. Founded(active)'
    <3>1. Founded(s)'
      BY <2>1, <2>3, UntouchedStaysFounded
    <3> QED BY <2>1, <3>1 DEF Founded
  <2> QED BY <2>1, <2>2, <2>4, UntouchedStaysFounded DEF InvestigationInv
<1>11. CASE Complete
  <2>1. /\ active \in plan /\ active \notin DecidedSteps /\ Founded(active)
        /\ Record(active, "COMPLETED") /\ UNCHANGED <<plan, policy>>
        /\ stage' = "deciding" /\ active' = NoStep
    BY <1>11 DEF Complete, given_, InvestigationInv
  <2>2. history' \in [Tools -> Nat]
    BY <1>11, <2>1 DEF Complete, InvestigationInv, StagesOK, PlanOK
  <2>3. StagesOK'
    BY <1>11, <2>2 DEF Complete, given_, InvestigationInv, StagesOK
  <2> QED BY <2>1, <2>3, RecordKeeps DEF Statuses
<1>12. CASE Break
  <2>1. /\ active \in plan /\ active \notin DecidedSteps /\ Founded(active)
        /\ UNCHANGED <<plan, policy>>
    BY <1>12 DEF Break, given_, InvestigationInv
  <2>2. StagesOK'
    BY <1>12 DEF Break, given_, InvestigationInv, StagesOK
  <2>3. CASE UNCHANGED <<decided, stage, active>>
    BY <1>2, <2>1, <2>2, <2>3
  <2>4. CASE Record(active, "FAILED") /\ stage' = "deciding" /\ active' = NoStep
    BY <2>1, <2>2, <2>4, RecordKeeps DEF Statuses
  <2> QED BY <1>12, <2>3, <2>4 DEF Break
<1>13. CASE Conclude
  <2>1. stage' \in {"over", "planning"} /\ UNCHANGED <<plan, decided, policy>> /\ active' = NoStep
    BY <1>13 DEF Conclude, End, given_, InvestigationInv
  <2>2. StagesOK'
    <3>1. outcome' \in Outcomes /\ (outcome' # "none" <=> stage' = "over")
      BY <1>13 DEF Conclude, End, InvestigationInv, StagesOK, Outcomes
    <3>2. UNCHANGED <<requests, tries, parsed, cancelled, history>>
      BY <1>13 DEF Conclude
    <3>3. iteration \in 0..MaxIterations /\ iteration < MaxIterations /\ iteration' = iteration + 1
      BY <1>13 DEF Conclude, InvestigationInv, StagesOK
    <3>4. stage' # "over" => iteration' # MaxIterations
      BY <1>13 DEF Conclude, End
    <3>5. iteration' \in 0..MaxIterations /\ (stage' # "over" => iteration' < MaxIterations)
      BY <3>3, <3>4, LimitAssumption
    <3> QED BY <2>1, <3>1, <3>2, <3>5 DEF InvestigationInv, StagesOK
  <2> QED BY <1>1, <2>1, <2>2
<1>14. CASE AskToCancel
  <2>1. StagesOK'
    BY <1>14 DEF AskToCancel, given_, InvestigationInv, StagesOK
  <2> QED BY <1>2, <1>14, <2>1 DEF AskToCancel, given_
<1>15. CASE UNCHANGED invVars
  <2>1. StagesOK'
    BY <1>15 DEF invVars, InvestigationInv, StagesOK
  <2> QED BY <1>2, <1>15, <2>1 DEF invVars
<1> QED
  BY <1>4, <1>5, <1>6, <1>7, <1>8, <1>9, <1>10, <1>11, <1>12, <1>13, <1>14, <1>15
  DEF InvNext, Proceed

\* No tool works on the ground of a step that failed or was called off, whatever
\* plans the model proposes, whatever is registered and however tools fail
\* (investigate, execute_plan and the executor's check of the dependencies).
THEOREM InvestigationCorrect == InvSpec => []InvestigationSound
<1>1. InvInit => InvestigationInv
  <2> SUFFICES ASSUME InvInit PROVE InvestigationInv
    OBVIOUS
  <2>1. StagesOK
    <3>1. 0 \in 0..MaxIterations /\ 0 < MaxIterations /\ 0 \in 0..PlanRetries
      BY LimitAssumption
    <3>2. history \in [Tools -> Nat]
      BY DEF InvInit
    <3>3. parsed \in BOOLEAN /\ cancelled \in BOOLEAN
      BY DEF InvInit
    <3> QED BY <3>1, <3>2, <3>3 DEF InvInit, StagesOK, Outcomes
  <2>2. decided \in Seq(StepRecord) /\ DOMAIN decided = {}
    BY EmptySeq DEF InvInit
  <2> QED BY <2>1, <2>2 DEF InvInit, InvestigationInv, PlanOK, DecidedOnce
<1> QED BY <1>1, InvestigationStep, InvestigationInvSuffices, PTL DEF InvSpec

\* Once the caller has asked to cancel, the executor starts no further tool, for
\* any plans, tools and retries; only the one that runs may go on to its end.
THEOREM CancelStartsNothing == InvSpec => NoToolAfterCancel
<1> DEFINE OnlyEnds == cancelled => active' \in {active, NoStep}
<1>1. [InvNext]_invVars => [OnlyEnds]_invVars
  <2> SUFFICES ASSUME cancelled, InvNext \/ UNCHANGED invVars PROVE active' \in {active, NoStep}
    OBVIOUS
  <2>1. CASE Investigate \/ AskToCancel \/ UNCHANGED invVars
    BY <2>1 DEF Investigate, AskToCancel, invVars
  <2>2. CASE CancelPlanning \/ Refuse
    BY <2>2 DEF CancelPlanning, Refuse, GiveUp
  <2>3. ASSUME NEW p \in Proposals, Answer(p) PROVE active' \in {active, NoStep}
    BY <2>3 DEF Answer, Adopt, GiveUp
  <2>4. ASSUME NEW busy \in BOOLEAN, NoAnswer(busy) PROVE active' \in {active, NoStep}
    BY <2>4 DEF NoAnswer, Adopt, GiveUp
  <2>5. CASE Complete \/ Break \/ Conclude
    BY <2>5 DEF Complete, Break, Conclude
  <2>6. ASSUME NEW s \in plan, Dispose(s) \/ Begin(s) PROVE active' \in {active, NoStep}
    BY <2>6 DEF Dispose, Begin
  <2> QED BY <2>1, <2>2, <2>3, <2>4, <2>5, <2>6 DEF InvNext, Proceed
<1>2. NoToolAfterCancel <=> [][OnlyEnds]_invVars
  BY PTL DEF NoToolAfterCancel
<1> QED BY <1>1, <1>2, PTL DEF InvSpec
=============================================================================
