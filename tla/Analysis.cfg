CONSTANTS
  Parts = {"pipeline", "risk", "investigation", "verdict"}
  Analyses = {a1}
  Groups <- CoupledFindings
  IntelConfidences = {85, 95}
  OcrConfidences = {50, 100}
  Tools <- MCTools
  Registries <- MCRegistries
  CandidateTools <- MCCandidates
  Proposals <- MCProposals
  Mails <- MCMails
  Preconditions <- MCPreconditions
  MaxSteps = 3
  MaxIterations = 3
  PlanRetries = 1
  TraitGroups <- MCTraitGroups
  Histories <- MCHistories
  MaxRuns = 3
SPECIFICATION AnalysisSpec
INVARIANTS
  CancelledInTime EventsAreTrue InvestigationSound
PROPERTIES
  ComesToAnEnd RiskIsSound InvestigationHalts VerdictIsSound
CHECK_DEADLOCK FALSE
