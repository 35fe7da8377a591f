----------------------------- MODULE Lifecycle ------------------------------
(***************************************************************************)
(* ModuleRegistry (registry/module_registry.py): the start, the stop and   *)
(* the health check of the modules of the platform, and what each module   *)
(* does in its hooks (the module.py of every package).                     *)
(*                                                                         *)
(* One event loop runs all of it.  Most hooks never suspend; another task  *)
(* runs only while a call waits inside one of those that do.               *)
(***************************************************************************)
EXTENDS Naturals, Sequences, FiniteSets, Dict

CONSTANTS
  Deployed,       \* the modules that may be registered
  MaxRegistered,  \* bound on the modules registered
  MaxOps          \* bound on the calls of the registry

VARIABLES
  order,     \* _modules, in the order of registration
  bound,     \* the container: interface -> the module it is bound to
  up,        \* modules whose running flag is set
  built,     \* modules that were initialised at some time
  wired,     \* modules that found the event bus when they were initialised
  ready,     \* the registry's _initialized
  work,      \* the initialize_all or shutdown_all that holds the lock
  queued,    \* the calls that wait for the lock, in order
  probe,     \* the health_check_all in progress
  report,    \* what the last one answered
  ops,       \* calls made
  orphans,   \* up when an initialize_all failed (history)
  unstopped, \* their shutdown raised (history)
  moved      \* modules that went up or down since the probe began (history)

lifeVars == <<order, bound, up, built, wired, ready, work, queued, probe, report, ops,
              orphans, unstopped, moved>>

-----------------------------------------------------------------------------
\* A module: its name; whether a second initialize returns at once; what it
\* reports while it is down; the interfaces it is bound to besides its class;
\* whether its hooks may raise.
Kind(n, once, down, binds, startRaises, stopRaises) ==
  [name |-> n, once |-> once, down |-> down, binds |-> binds, startRaises |-> startRaises,
   stopRaises |-> stopRaises]

\* The usual module: it builds an engine at every initialize.
Engine(n) == Kind(n, FALSE, "UNHEALTHY", {"IHealthCheckable"}, TRUE, FALSE)

ParsingModule == Engine("parsing")
IngestionModule == Engine("ingestion")
TransmissionModule == Engine("transmission")
AuthenticationModule == Engine("authentication")
ContentIntelligenceModule == Engine("content_intelligence")
URLIntelligenceModule == Engine("url_intelligence")
ThreatIntelModule == Engine("threat_intel")
ThreatCorrelationModule == Engine("threat_correlation")
RiskAssessmentModule == Engine("risk_assessment")
AIDecisionModule == Engine("ai_decision")
RemediationModule == Engine("remediation")
OrchestratorModule == Engine("orchestrator")
OpsModule == Engine("ops")
IAMModule == Engine("iam")
\* Its engine is disposed of at shutdown, and still answers afterwards.
DatabaseModule == [Engine("database") EXCEPT !.stopRaises = TRUE]
\* It is the bus, for publishers and subscribers.
InMemoryEventBus == Kind("event_bus", FALSE, "UNHEALTHY", {"IEventPublisher", "IEventSubscriber"}, FALSE, FALSE)
AnalyticsModule == Kind("analytics", TRUE, "DEGRADED", {}, FALSE, FALSE)
NotificationModule == Kind("notifications", TRUE, "DEGRADED", {}, FALSE, FALSE)
RealtimeModule == Kind("realtime", TRUE, "DEGRADED", {}, FALSE, FALSE)
IngestionGatewayModule == Kind("ingestion_gateway", TRUE, "DEGRADED", {}, FALSE, FALSE)

Modules ==
  {ParsingModule, IngestionModule, TransmissionModule, AuthenticationModule,
   ContentIntelligenceModule, URLIntelligenceModule, ThreatIntelModule,
   ThreatCorrelationModule, RiskAssessmentModule, AIDecisionModule, RemediationModule,
   OrchestratorModule, OpsModule, IAMModule, DatabaseModule, InMemoryEventBus,
   AnalyticsModule, NotificationModule, RealtimeModule, IngestionGatewayModule}

Module(n) == CHOOSE m \in Modules : m.name = n

ASSUME DeployedAssumption == Deployed \subseteq {m.name : m \in Modules}
ASSUME LifeBoundAssumption == {MaxRegistered, MaxOps} \subseteq Nat

\* What the container can be asked.
ContainerMethods == {"register_instance", "register_factory", "resolve", "has", "reset"}

\* initialize of the modules that look for the bus: an exception in the attempt
\* is logged, and the module comes up without it.
FindsBus(n) ==
  \/ n \in {"realtime", "ingestion_gateway"} /\ "IEventPublisher" \in DOMAIN bound
  \/ n = "notifications" /\ "resolve_optional" \in ContainerMethods /\ "IEventSubscriber" \in DOMAIN bound

\* The hooks in which another task may run.
Suspends ==
  [initialize |-> {"ingestion_gateway"},
   shutdown |-> {"database", "realtime", "ingestion_gateway"},
   health |-> {"database"}]

-----------------------------------------------------------------------------
Idle == [op |-> "none", todo |-> <<>>, size |-> 0, healthy |-> TRUE]

LifeInit ==
  /\ order = <<>> /\ bound = EmptyDict /\ up = {} /\ built = {} /\ wired = {}
  /\ ready = FALSE /\ work = Idle /\ queued = <<>> /\ probe = Idle /\ report = "none"
  /\ ops = 0 /\ orphans = {} /\ unstopped = {} /\ moved = {}

\* The call is over, or waits inside a hook.
Yields(call) == call.todo # <<>> => Head(call.todo) \in Suspends[call.op]

\* Iterating over a dictionary that has grown raises before the next module.
Grown(call) == Len(order) # call.size

\* Mutant: a name is taken over by whoever registers last.
RegisterAgain(n) ==
  /\ Yields(work) /\ Yields(probe)
  /\ Len(order) < MaxRegistered
  /\ order' = Append(order, n)
  /\ bound' = [i \in DOMAIN bound \cup Module(n).binds |-> IF i \in Module(n).binds THEN n ELSE bound[i]]
  /\ UNCHANGED <<up, built, wired, ready, work, queued, probe, report, ops, orphans, unstopped, moved>>

\* register_*_module: the container takes the newest binding of an interface,
\* the registry refuses a name it has.
register(n) ==
  /\ Yields(work) /\ Yields(probe)
  /\ Len(order) < MaxRegistered
  /\ \A i \in DOMAIN order : order[i] # n
  /\ order' = Append(order, n)
  /\ bound' = [i \in DOMAIN bound \cup Module(n).binds |-> IF i \in Module(n).binds THEN n ELSE bound[i]]
  /\ UNCHANGED <<up, built, wired, ready, work, queued, probe, report, ops, orphans, unstopped, moved>>

\* A call of initialize_all or shutdown_all queues at the lock.
CallRegistry(op) ==
  /\ Yields(work) /\ Yields(probe)
  /\ ops < MaxOps /\ ops' = ops + 1
  /\ queued' = Append(queued, op)
  /\ UNCHANGED <<order, bound, up, built, wired, ready, work, probe, report, orphans, unstopped, moved>>

\* The modules a call goes through.
Course(op) ==
  IF op = "initialize" THEN order ELSE [i \in DOMAIN order |-> order[Len(order) + 1 - i]]

\* Mutant: a registry that is initialised is initialised again.
FoundDoneNever(op) == op = "shutdown" /\ ~ready

FoundDone(op) == ready = (op = "initialize")

\* The lock is granted; a call that finds its work done returns.
Begin ==
  /\ work = Idle /\ Yields(probe) /\ queued # <<>>
  /\ LET op == Head(queued) IN
     /\ work' = IF FoundDone(op) \/ order = <<>> THEN Idle
                ELSE [Idle EXCEPT !.op = op, !.size = Len(order), !.todo = Course(op)]
     /\ ready' = IF order = <<>> THEN op = "initialize" ELSE ready
  /\ queued' = Tail(queued)
  /\ UNCHANGED <<order, bound, up, built, wired, probe, report, ops, orphans, unstopped, moved>>

AtHook(op, n) == work.op = op /\ Head(work.todo) = n /\ Yields(probe)

\* On to the next module; after the last one the flag is set.
Onwards ==
  LET rest == Tail(work.todo) IN
  /\ work' = IF rest = <<>> THEN Idle ELSE [work EXCEPT !.todo = rest]
  /\ ready' = IF rest = <<>> THEN work.op = "initialize" ELSE ready

\* initialize_all ends with an exception: what is up stays up.
GiveUp == work' = Idle /\ orphans' = up' /\ UNCHANGED ready

Start(n) ==
  /\ AtHook("initialize", n)
  /\ up' = up \cup {n} /\ built' = built \cup {n} /\ moved' = moved \cup {n}
  /\ wired' = IF FindsBus(n) /\ ~(Module(n).once /\ n \in up) THEN wired \cup {n} ELSE wired
  /\ IF Grown(work) THEN GiveUp ELSE Onwards /\ UNCHANGED orphans
  /\ UNCHANGED <<order, bound, queued, probe, report, ops, unstopped>>

StartFails(n) ==
  /\ AtHook("initialize", n) /\ Module(n).startRaises
  /\ UNCHANGED up
  /\ GiveUp
  /\ UNCHANGED <<order, bound, built, wired, queued, probe, report, ops, unstopped, moved>>

Stop(n) ==
  /\ AtHook("shutdown", n)
  /\ up' = up \ {n} /\ moved' = moved \cup {n} /\ unstopped' = unstopped \ {n}
  /\ Onwards
  /\ orphans' = orphans \ {n}
  /\ UNCHANGED <<order, bound, built, wired, queued, probe, report, ops>>

\* Mutant: an error of one module ends the shutdown.
StopFailsAll(n) ==
  /\ AtHook("shutdown", n) /\ Module(n).stopRaises
  /\ work' = Idle /\ ready' = FALSE
  /\ unstopped' = unstopped \cup {n}
  /\ UNCHANGED <<order, bound, up, built, wired, queued, probe, report, ops, orphans, moved>>

\* The exception is logged, and the others are still stopped.
StopFails(n) ==
  /\ AtHook("shutdown", n) /\ Module(n).stopRaises
  /\ Onwards
  /\ unstopped' = unstopped \cup {n}
  /\ UNCHANGED <<order, bound, up, built, wired, queued, probe, report, ops, orphans, moved>>

-----------------------------------------------------------------------------
\* The health hook.  The database is asked once it was built, the gateway looks
\* at its daemons; the others report their flag.
HealthOf(n) ==
  CASE n = "database" -> IF n \in built THEN {"HEALTHY", "UNHEALTHY"} ELSE {"UNHEALTHY"}
    [] n = "ingestion_gateway" -> IF n \in up THEN {"HEALTHY", "DEGRADED"} ELSE {"DEGRADED"}
    [] OTHER -> IF n \in up THEN {"HEALTHY"} ELSE {Module(n).down}

ProbeStarts ==
  /\ Yields(work) /\ probe = Idle
  /\ ops < MaxOps /\ ops' = ops + 1
  /\ probe' = IF order = <<>> THEN Idle ELSE [Idle EXCEPT !.op = "health", !.size = Len(order), !.todo = order]
  /\ report' = IF order = <<>> THEN "UP" ELSE "none"
  /\ moved' = {}
  /\ UNCHANGED <<order, bound, up, built, wired, ready, work, queued, orphans, unstopped>>

\* Mutant: the last module decides.
WorseLast(healthy, status) == status = "HEALTHY"

StillHealthy(healthy, status) == healthy /\ status = "HEALTHY"

\* One module's report; health_check_all ends with an error if the dictionary has
\* grown meanwhile.
ProbeStep ==
  /\ Yields(work) /\ probe.todo # <<>>
  /\ \E status \in HealthOf(Head(probe.todo)) :
       LET ok == StillHealthy(probe.healthy, status)
           rest == Tail(probe.todo) IN
       /\ probe' = IF Grown(probe) \/ rest = <<>> THEN Idle ELSE [probe EXCEPT !.todo = rest, !.healthy = ok]
       /\ report' = CASE Grown(probe)                   -> "error"
                      [] ~Grown(probe) /\ rest = <<>>   -> IF ok THEN "UP" ELSE "DEGRADED"
                      [] OTHER                          -> report
  /\ UNCHANGED <<order, bound, up, built, wired, ready, work, queued, ops, orphans, unstopped, moved>>

LifeNext ==
  \/ \E n \in Deployed : register(n) \/ Start(n) \/ StartFails(n) \/ Stop(n) \/ StopFails(n)
  \/ \E op \in {"initialize", "shutdown"} : CallRegistry(op)
  \/ Begin \/ ProbeStarts \/ ProbeStep

LifeSpec == LifeInit /\ [][LifeNext]_lifeVars

-----------------------------------------------------------------------------
\* Type invariant; a bound interface is bound to a registered module.
LifeTypeOK ==
  /\ \A i, j \in DOMAIN order : order[i] = order[j] => i = j
  /\ \A i \in DOMAIN bound : \E k \in DOMAIN order : order[k] = bound[i] /\ i \in Module(order[k]).binds
  /\ up \cup wired \subseteq built /\ \A n \in built : \E k \in DOMAIN order : order[k] = n
  /\ ready \in BOOLEAN /\ report \in {"none", "UP", "DEGRADED", "error"}
  /\ work.op \in {"none", "initialize", "shutdown"} /\ (work.op = "none" <=> work.todo = <<>>)

(***************************************************************************)
(* While the registry is not initialised and no call is at work, the only  *)
(* modules up are those that an initialize_all left behind when it failed, *)
(* and those whose own shutdown raised: shutdown_all does nothing about    *)
(* the former, since the flag was never set.                               *)
(***************************************************************************)
LeavesNothingRunning == ~ready /\ work = Idle => up \subseteq orphans \cup unstopped

(***************************************************************************)
(* A module that is up is initialised anew (its engine replaced, with all  *)
(* the state in it) only by a call after one that failed, or after its own *)
(* shutdown raised.                                                        *)
(***************************************************************************)
RebuiltOnlyAfterFailure ==
  [][ \A n \in up : AtHook("initialize", n) /\ work' # work => n \in orphans \cup unstopped ]_lifeVars

(***************************************************************************)
(* A health report of UP is true of every registered module at the end of  *)
(* the check, unless the module went up or down during it; except for the  *)
(* database, whose checker outlives the shutdown.                          *)
(***************************************************************************)
HealthNeverFlatters ==
  [][ report' = "UP" /\ report # "UP" =>
        \A k \in DOMAIN order : order[k] \in up \cup moved \cup {"database"} ]_lifeVars

(***************************************************************************)
(* A notification module that is initialised with a bus in the container   *)
(* is subscribed to it: "wire up event subscriptions" if a subscriber is   *)
(* available (notifications/module.py).                                    *)
(***************************************************************************)
NotificationsAreWired ==
  [][ Start("notifications") /\ "notifications" \notin up /\ "IEventSubscriber" \in DOMAIN bound
        => "notifications" \in wired' ]_lifeVars

\* Modules over starts, failures and stops: a shutdown leaves nothing running,
\* an instance is built again only after a failure, and the health report never
\* says better than the modules are.
LifeSafe == [](LifeTypeOK /\ LeavesNothingRunning) /\ RebuiltOnlyAfterFailure /\ HealthNeverFlatters
=============================================================================
