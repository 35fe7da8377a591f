------------------------------ MODULE EventBus ------------------------------
(***************************************************************************)
(* The in-memory event bus (messaging/): registrations per event type, a   *)
(* publication that calls every registered handler concurrently, and the   *)
(* middlewares that count and dead-letter.  A publication takes the list   *)
(* of handlers once; registrations come and go while they run, a handler   *)
(* may raise, and the publisher may be cancelled while it waits for them.  *)
(***************************************************************************)
EXTENDS Naturals, FiniteSets, Sequences

CONSTANTS
  Types,        \* event types
  Ancestors,    \* type -> the types it is a subclass of, itself included
  Handlers,
  MaxPublished, \* bound on the publications
  MaxChanges    \* bound on the changes of registrations

ASSUME AncestorsAssumption == Ancestors \in [Types -> SUBSET Types]

VARIABLES
  subscriptions, \* type -> its handlers
  flights,       \* the publications so far: [type, due, raised, state]
  busMetrics,    \* the counters of MetricsMiddleware
  deadLetters,   \* the calls of the dead-letter callback
  changes,       \* registrations made or removed
  called         \* publication -> registrations whose handler was run (history)

busVars == <<subscriptions, flights, busMetrics, deadLetters, changes, called>>

BusInit ==
  /\ subscriptions = [t \in Types |-> {}]
  /\ flights = <<>> /\ called = <<>> /\ changes = 0
  /\ busMetrics = [published |-> 0, dispatched |-> 0, errors |-> 0]
  /\ deadLetters = {}

\* A handler is registered at most once for a type.
subscribe(t, h) ==
  /\ changes < MaxChanges /\ changes' = changes + 1
  /\ h \notin subscriptions[t]
  /\ subscriptions' = [subscriptions EXCEPT ![t] = @ \cup {h}]
  /\ UNCHANGED <<flights, busMetrics, deadLetters, called>>

unsubscribe(t, h) ==
  /\ changes < MaxChanges /\ changes' = changes + 1
  /\ h \in subscriptions[t]
  /\ subscriptions' = [subscriptions EXCEPT ![t] = @ \ {h}]
  /\ UNCHANGED <<flights, busMetrics, deadLetters, called>>

\* Mutant: every registration is called, whatever its type.
AllHandlers(t) == UNION {{p} \X subscriptions[p] : p \in Types}

\* The registrations for the type and for its parent types: a handler that is
\* registered for both is called twice.
get_handlers_for(t) == UNION {{p} \X subscriptions[p] : p \in Ancestors[t]}

\* Without a handler nothing happens and nothing is counted; otherwise the
\* before_dispatch hooks run and the handlers start.
publish(t) ==
  /\ Len(flights) < MaxPublished
  /\ get_handlers_for(t) # {}
  /\ flights' = Append(flights, [type |-> t, audience |-> get_handlers_for(t),
                                 due |-> get_handlers_for(t), raised |-> {}, state |-> "running"])
  /\ called' = Append(called, {})
  /\ busMetrics' = [busMetrics EXCEPT !.published = @ + 1]
  /\ UNCHANGED <<subscriptions, deadLetters, changes>>

Running(p) == p \in DOMAIN flights /\ flights[p].state = "running"

Returns(p, r) ==
  /\ Running(p) /\ r \in flights[p].due
  /\ flights' = [flights EXCEPT ![p].due = @ \ {r}]
  /\ called' = [called EXCEPT ![p] = @ \cup {r}]
  /\ UNCHANGED <<subscriptions, busMetrics, deadLetters, changes>>

\* Mutant: the exception of one handler ends the publication for the others.
RaisesThrough(p, r) ==
  /\ Running(p) /\ r \in flights[p].due
  /\ flights' = [flights EXCEPT ![p].due = {}, ![p].raised = @ \cup {r}]
  /\ called' = [called EXCEPT ![p] = @ \cup {r}]
  /\ busMetrics' = [busMetrics EXCEPT !.errors = @ + 1]
  /\ deadLetters' = deadLetters \cup {<<p, r>>}
  /\ UNCHANGED <<subscriptions, changes>>

\* _invoke_handler traps the exception and tells every middleware: one counts it,
\* one hands it to the dead-letter callback.
Raises(p, r) ==
  /\ Running(p) /\ r \in flights[p].due
  /\ flights' = [flights EXCEPT ![p].due = @ \ {r}, ![p].raised = @ \cup {r}]
  /\ called' = [called EXCEPT ![p] = @ \cup {r}]
  /\ busMetrics' = [busMetrics EXCEPT !.errors = @ + 1]
  /\ deadLetters' = deadLetters \cup {<<p, r>>}
  /\ UNCHANGED <<subscriptions, changes>>

\* The after_dispatch hooks, once every handler has ended.
AfterDispatch(p) ==
  /\ Running(p) /\ flights[p].due = {}
  /\ flights' = [flights EXCEPT ![p].state = "dispatched"]
  /\ busMetrics' = [busMetrics EXCEPT !.dispatched = @ + 1]
  /\ UNCHANGED <<subscriptions, deadLetters, changes, called>>

\* Mutant: a cancelled publication is counted as dispatched.
CancelCounted(p) ==
  /\ Running(p)
  /\ flights' = [flights EXCEPT ![p].state = "cancelled"]
  /\ busMetrics' = [busMetrics EXCEPT !.dispatched = @ + 1]
  /\ UNCHANGED <<subscriptions, deadLetters, changes, called>>

\* The publisher is cancelled: so are the handlers it waits for, which is no
\* Exception, so that no hook runs.
Cancel(p) ==
  /\ Running(p)
  /\ flights' = [flights EXCEPT ![p].state = "cancelled"]
  /\ UNCHANGED <<subscriptions, busMetrics, deadLetters, changes, called>>

BusNext ==
  \/ \E t \in Types : publish(t) \/ \E h \in Handlers : subscribe(t, h) \/ unsubscribe(t, h)
  \/ \E p \in 1..MaxPublished :
       \/ AfterDispatch(p) \/ Cancel(p)
       \/ \E r \in Types \X Handlers : Returns(p, r) \/ Raises(p, r)

BusSpec == BusInit /\ [][BusNext]_busVars

-----------------------------------------------------------------------------
BusTypeOK ==
  /\ subscriptions \in [Types -> SUBSET Handlers]
  /\ \A p \in DOMAIN flights :
       /\ flights[p].state \in {"running", "dispatched", "cancelled"}
       /\ flights[p].due \subseteq flights[p].audience
       /\ \A r \in flights[p].audience : r[1] \in Ancestors[flights[p].type]

(***************************************************************************)
(* A failing handler never costs another one its event: a publication that *)
(* was dispatched has run every registration there was when it began,      *)
(* whoever raised or was unsubscribed meanwhile, and no other.             *)
(***************************************************************************)
HandlersAreIsolated ==
  \A p \in DOMAIN flights :
    /\ called[p] \subseteq flights[p].audience
    /\ flights[p].state = "dispatched" => called[p] = flights[p].audience

(***************************************************************************)
(* The counters of the health check: what was published is dispatched, is  *)
(* running or was cancelled, and every exception of a handler is counted   *)
(* and dead-lettered once.                                                 *)
(***************************************************************************)
BusMetricsAgree ==
  LET in(s) == Cardinality({p \in DOMAIN flights : flights[p].state = s}) IN
  /\ busMetrics.published = Len(flights)
  /\ busMetrics.dispatched = busMetrics.published - in("running") - in("cancelled")
  /\ busMetrics.errors = Cardinality(deadLetters)
  /\ deadLetters = UNION {{p} \X flights[p].raised : p \in DOMAIN flights}

\* A handler that raises, or comes or goes during a publication, disturbs no
\* other, and the metrics agree with what was delivered.
BusSafe == BusTypeOK /\ HandlersAreIsolated /\ BusMetricsAgree
=============================================================================
