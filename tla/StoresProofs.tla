---------------------------- MODULE StoresProofs ----------------------------
(***************************************************************************)
(* Proofs about the parts of MCStores.  IngestionDeduplicationEngine: its  *)
(* type invariant, and that it implements OncePerWindow, for every set of  *)
(* keys and every ttl.  The event bus, for any event types and handlers.   *)
(* The registry, for any of the platform's modules, calls and failing      *)
(* hooks.  The check of links, for any web of links, hosts and lives of    *)
(* cache entries.  What processes share through Redis, for any processes   *)
(* and leases.  Threat intelligence, for any indicators, providers and     *)
(* bounds, and the enrichment of a mail.  The signatures of a letter, for  *)
(* any domains.                                                            *)
(***************************************************************************)
EXTENDS DedupEngine, EventBus, Lifecycle, LinkChecks, RedisLease, IntelEnrichment, MailHeaders, FiniteSetTheorems, SequenceTheorems, TLAPS

\* The counters, the clock and the store keep their types, and no more checks
\* are ever reported as duplicates than were made.
THEOREM TypeCorrect == Spec => []TypeOK
<1>1. Init => TypeOK
  BY BoundAssumption DEF Init, TypeOK, EmptyDict
<1>2. TypeOK /\ [Next]_vars => TypeOK'
  <2> SUFFICES ASSUME TypeOK, [Next]_vars PROVE TypeOK'
    OBVIOUS
  <2> USE KeysAssumption, TtlAssumption, BoundAssumption
  <2>1. ASSUME NEW k \in Keys, NEW ttl \in Ttls, check_and_mark(k, ttl) PROVE TypeOK'
    BY <2>1 DEF TypeOK, check_and_mark, Put, Verdicts
  <2>2. ASSUME NEW k \in Keys, NEW ttl \in Ttls, mark_seen(k, ttl) PROVE TypeOK'
    BY <2>2 DEF TypeOK, mark_seen, Put, counters
  <2>3. ASSUME NEW k \in Keys, LookUp(k) PROVE TypeOK'
    BY <2>3 DEF TypeOK, LookUp, Drop, counters, Verdicts
  <2>4. CASE prune_expired
    BY <2>4 DEF TypeOK, prune_expired, Drop, counters
  <2>5. ASSUME NEW T, clear(T) PROVE TypeOK'
    BY <2>5 DEF TypeOK, clear, Drop, counters
  <2>6. CASE Tick
    BY <2>6 DEF TypeOK, Tick, counters
  <2>7. CASE UNCHANGED vars
    BY <2>7 DEF TypeOK, vars
  <2> QED
    BY <2>1, <2>2, <2>3, <2>4, <2>5, <2>6, <2>7 DEF Next
<1> QED
  BY <1>1, <1>2, PTL DEF Spec

\* What is left of every key's record, the state OncePerWindow sees.
RemainingWindows == [k \in Keys |-> Remaining(k)]

\* Writing a record at time now opens a window of ttl for its key and leaves
\* every other key's window as it was (check_and_mark, mark_seen).
LEMMA PutOpensWindow ==
  ASSUME TypeOK, NEW k \in Keys, NEW ttl \in Ttls,
         store' = Put(store, k, now + ttl), now' = now
  PROVE RemainingWindows' = [RemainingWindows EXCEPT ![k] = ttl]
<1> USE TtlAssumption
<1>1. now \in Nat /\ ttl \in Nat
  BY BoundAssumption DEF TypeOK
<1>2. ASSUME NEW x \in Keys, x # k PROVE Remaining(x)' = Remaining(x)
  BY <1>2 DEF Remaining, Live, Put
<1>3. Remaining(k)' = ttl
  BY <1>1 DEF Remaining, Live, Put
<1> QED
  BY <1>2, <1>3 DEF RemainingWindows

\* IngestionDeduplicationEngine implements OncePerWindow: each method, seen
\* through the time its live records have left, is an abstract step or no step.
THEOREM EngineAdmitsOncePerWindow == Spec => AdmitsOncePerWindow
<1> USE KeysAssumption, TtlAssumption, BoundAssumption
<1>1. Init => Window!Init
  BY DEF Init, Window!Init, Remaining, Live, EmptyDict
<1>2. TypeOK /\ [Next]_vars => [Window!Next]_<<RemainingWindows, answer>>
  <2> SUFFICES ASSUME TypeOK, [Next]_vars
               PROVE Window!Next \/ UNCHANGED <<RemainingWindows, answer>>
    OBVIOUS
  <2>1. ASSUME NEW k \in Keys, NEW ttl \in Ttls, check_and_mark(k, ttl)
        PROVE Window!Next
    <3>1. CASE Live(store, k, now)
      <4>1. Window!Suppress(k)
        BY <2>1, <3>1 DEF check_and_mark, Window!Suppress, Remaining, Live, TypeOK
      <4> QED BY <4>1 DEF Window!Next
    <3>2. CASE ~Live(store, k, now)
      <4>1. store' = Put(store, k, now + ttl) /\ now' = now /\ answer' = <<k, "new">>
        BY <2>1, <3>2 DEF check_and_mark
      <4>2. Window!Admit(k, ttl)
        BY <4>1, <3>2, PutOpensWindow DEF Window!Admit, Remaining, RemainingWindows
      <4> QED BY <4>2 DEF Window!Next
    <3> QED BY <3>1, <3>2
  <2>2. ASSUME NEW k \in Keys, NEW ttl \in Ttls, mark_seen(k, ttl) PROVE Window!Next
    <3>1. store' = Put(store, k, now + ttl) /\ now' = now /\ answer' = answer
      BY <2>2 DEF mark_seen
    <3>2. Window!Record(k, ttl)
      BY <3>1, PutOpensWindow DEF Window!Record, RemainingWindows
    <3> QED BY <3>2 DEF Window!Next
  <2>3. ASSUME NEW k \in Keys, LookUp(k) PROVE Window!Next
    <3>1. Window!Inspect(k)
      BY <2>3 DEF LookUp, Window!Inspect, Remaining, Live, Drop, TypeOK
    <3> QED BY <3>1 DEF Window!Next
  <2>4. CASE prune_expired
    BY <2>4 DEF prune_expired, RemainingWindows, Remaining, Live, Drop, Expired, TypeOK
  <2>5. ASSUME NEW T \in SUBSET Tenants, clear(T) PROVE Window!Next
    <3>1. Window!Forget(T)
      BY <2>5 DEF clear, Window!Forget, Remaining, Live, Drop, TypeOK
    <3> QED BY <3>1 DEF Window!Next
  <2>6. CASE Tick
    <3>1. Window!Elapse
      BY <2>6 DEF Tick, Window!Elapse, Remaining, Live, TypeOK
    <3> QED BY <3>1 DEF Window!Next
  <2>7. CASE UNCHANGED vars
    BY <2>7 DEF vars, RemainingWindows, Remaining, Live
  <2> QED
    BY <2>1, <2>2, <2>3, <2>4, <2>5, <2>6, <2>7 DEF Next
<1> QED
  BY <1>1, <1>2, TypeCorrect, PTL DEF Spec, AdmitsOncePerWindow, Window!Spec, RemainingWindows

-----------------------------------------------------------------------------
(***************************************************************************)
(* The event bus.  A publication has called exactly those of its audience  *)
(* that are no longer due, and those that raised are among them; the       *)
(* publications that run and those that were cancelled are counted apart.  *)
(***************************************************************************)
Registrations == Types \X Handlers
Flight == [type : Types, audience : SUBSET Registrations, due : SUBSET Registrations,
           raised : SUBSET Registrations, state : {"running", "dispatched", "cancelled"}]

FlightOK(f, c) ==
  /\ f.due \subseteq f.audience /\ c = f.audience \ f.due /\ f.raised \subseteq c
  /\ \A r \in f.audience : r[1] \in Ancestors[f.type]
  /\ f.state = "dispatched" => f.due = {}

In(s) == {p \in DOMAIN flights : flights[p].state = s}
Letters == UNION {{p} \X flights[p].raised : p \in DOMAIN flights}

FlightsOK ==
  /\ subscriptions \in [Types -> SUBSET Handlers]
  /\ flights \in Seq(Flight) /\ called \in Seq(SUBSET Registrations) /\ Len(called) = Len(flights)
  /\ \A p \in DOMAIN flights : FlightOK(flights[p], called[p])

CountsOK ==
  /\ busMetrics \in [published : Nat, dispatched : Int, errors : Nat]
  /\ IsFiniteSet(In("running")) /\ IsFiniteSet(In("cancelled")) /\ IsFiniteSet(deadLetters)
  /\ busMetrics.published = Len(flights)
  /\ busMetrics.dispatched =
       busMetrics.published - Cardinality(In("running")) - Cardinality(In("cancelled"))
  /\ busMetrics.errors = Cardinality(deadLetters) /\ deadLetters = Letters

BusInv == FlightsOK /\ CountsOK

LEMMA BusInvSuffices == BusInv => BusSafe
<1> SUFFICES ASSUME BusInv PROVE BusTypeOK /\ HandlersAreIsolated /\ BusMetricsAgree
  BY DEF BusSafe
<1>1. \A p \in DOMAIN flights : flights[p] \in Flight /\ FlightOK(flights[p], called[p])
  BY ElementOfSeq, LenProperties DEF BusInv, FlightsOK
<1>2. BusTypeOK
  BY <1>1 DEF BusTypeOK, BusInv, FlightsOK, Flight, FlightOK
<1>3. HandlersAreIsolated
  <2> SUFFICES ASSUME NEW p \in DOMAIN flights
               PROVE  called[p] \subseteq flights[p].audience
                      /\ (flights[p].state = "dispatched" => called[p] = flights[p].audience)
    BY DEF HandlersAreIsolated
  <2>1. PICK f, c : f = flights[p] /\ c = called[p]
    OBVIOUS
  <2>2. FlightOK(f, c)
    BY <1>1, <2>1
  <2> QED BY <2>1, <2>2 DEF FlightOK
<1>4. BusMetricsAgree
  BY DEF BusMetricsAgree, BusInv, CountsOK, In, Letters
<1> QED BY <1>2, <1>3, <1>4

\* A step of one publication: its record and what it has called are replaced.
LEMMA FlightStep ==
  ASSUME FlightsOK, NEW p \in DOMAIN flights, NEW f \in Flight, NEW c \in SUBSET Registrations,
         flights' = [flights EXCEPT ![p] = f], called' = [called EXCEPT ![p] = c],
         UNCHANGED subscriptions, FlightOK(f, c)
  PROVE  /\ FlightsOK' /\ DOMAIN flights' = DOMAIN flights /\ Len(flights') = Len(flights)
         /\ flights'[p] = f /\ \A q \in DOMAIN flights \ {p} : flights'[q] = flights[q]
<1>1. PICK n \in Nat : n = Len(flights) /\ DOMAIN flights = 1..n /\ DOMAIN called = 1..n
  BY LenProperties DEF FlightsOK
<1>2. flights' \in Seq(Flight) /\ Len(flights') = n /\ called' \in Seq(SUBSET Registrations) /\ Len(called') = n
  <2>1. p \in 1..Len(flights) /\ p \in 1..Len(called) /\ flights \in Seq(Flight) /\ called \in Seq(SUBSET Registrations)
        /\ n = Len(flights) /\ n = Len(called)
    BY <1>1 DEF FlightsOK
  <2>2. [flights EXCEPT ![p] = f] \in Seq(Flight) /\ Len([flights EXCEPT ![p] = f]) = Len(flights)
    BY <2>1, ExceptSeq, Zenon
  <2>3. [called EXCEPT ![p] = c] \in Seq(SUBSET Registrations) /\ Len([called EXCEPT ![p] = c]) = Len(called)
    <3>1. PICK T : T = SUBSET Registrations
      OBVIOUS
    <3>2. called \in Seq(T) /\ c \in T
      BY <2>1, <3>1
    <3>3. [called EXCEPT ![p] = c] \in Seq(T) /\ Len([called EXCEPT ![p] = c]) = Len(called)
      BY <2>1, <3>2, ExceptSeq
    <3> QED BY <3>1, <3>3
  <2> QED BY <2>1, <2>2, <2>3
<1>3. DOMAIN flights' = 1..n
  BY <1>1
<1>4. \A q \in DOMAIN flights' : FlightOK(flights'[q], called'[q])
  BY <1>1, <1>3 DEF FlightsOK
<1> QED BY <1>1, <1>2, <1>3, <1>4 DEF FlightsOK

\* ... and nothing is counted as dispatched or as an error.
LEMMA QuietStep ==
  ASSUME BusInv, NEW p \in DOMAIN flights, NEW f \in Flight, NEW c \in SUBSET Registrations,
         flights' = [flights EXCEPT ![p] = f], called' = [called EXCEPT ![p] = c],
         UNCHANGED <<subscriptions, busMetrics, deadLetters>>, FlightOK(f, c),
         f.raised = flights[p].raised, f.state = flights[p].state
  PROVE  BusInv'
<1>1. /\ FlightsOK' /\ DOMAIN flights' = DOMAIN flights /\ Len(flights') = Len(flights)
      /\ flights'[p] = f /\ \A q \in DOMAIN flights \ {p} : flights'[q] = flights[q]
  BY FlightStep, Zenon DEF BusInv
<1>2. \A q \in DOMAIN flights : flights'[q].state = flights[q].state /\ flights'[q].raised = flights[q].raised
  BY <1>1
<1>3. In("running")' = In("running") /\ In("cancelled")' = In("cancelled")
  BY <1>1, <1>2 DEF In
<1>4. Letters' = Letters
  BY <1>1, <1>2 DEF Letters
<1> QED BY <1>1, <1>3, <1>4 DEF BusInv, CountsOK

\* What happened in a bus is kept as the invariant says: handlers return and raise,
\* publications begin, end and are cancelled, registrations come and go.
LEMMA HandlerKeeps ==
  ASSUME BusInv, NEW p, NEW r \in Types \X Handlers, Returns(p, r) \/ Raises(p, r)
  PROVE  BusInv'
<1>1. p \in DOMAIN flights /\ flights[p].state = "running" /\ r \in flights[p].due
  BY DEF Returns, Raises, Running
<1>2. PICK g \in Flight, c \in SUBSET Registrations : g = flights[p] /\ c = called[p] /\ FlightOK(g, c)
  BY <1>1, ElementOfSeq, LenProperties DEF BusInv, FlightsOK
<1>3. CASE Returns(p, r)
  <2>1. PICK f : f = [g EXCEPT !.due = @ \ {r}]
    OBVIOUS
  <2>2. f \in Flight /\ FlightOK(f, c \cup {r}) /\ c \cup {r} \in SUBSET Registrations
        /\ f.raised = flights[p].raised /\ f.state = flights[p].state
    BY <1>1, <1>2, <2>1 DEF Flight, FlightOK, Registrations
  <2>3. flights' = [flights EXCEPT ![p] = f] /\ called' = [called EXCEPT ![p] = c \cup {r}]
        /\ UNCHANGED <<subscriptions, busMetrics, deadLetters>>
    BY <1>2, <1>3, <2>1 DEF Returns
  <2> QED BY <1>1, <2>2, <2>3, QuietStep, Zenon
<1>4. CASE Raises(p, r)
  <2>1. PICK f : f = [g EXCEPT !.due = @ \ {r}, !.raised = @ \cup {r}]
    OBVIOUS
  <2>2. f \in Flight /\ FlightOK(f, c \cup {r}) /\ c \cup {r} \in SUBSET Registrations
        /\ f.raised = g.raised \cup {r} /\ f.state = g.state
    BY <1>1, <1>2, <2>1 DEF Flight, FlightOK, Registrations
  <2>3. flights' = [flights EXCEPT ![p] = f] /\ called' = [called EXCEPT ![p] = c \cup {r}]
        /\ UNCHANGED subscriptions
    BY <1>2, <1>4, <2>1 DEF Raises
  <2>4. /\ FlightsOK' /\ DOMAIN flights' = DOMAIN flights /\ Len(flights') = Len(flights)
        /\ flights'[p] = f /\ \A q \in DOMAIN flights \ {p} : flights'[q] = flights[q]
    BY <1>1, <2>2, <2>3, FlightStep, Zenon DEF BusInv
  <2>5. In("running")' = In("running") /\ In("cancelled")' = In("cancelled")
    BY <1>2, <2>2, <2>4 DEF In
  <2>6. <<p, r>> \notin deadLetters
    <3>1. r \notin flights[p].raised
      BY <1>1, <1>2 DEF FlightOK
    <3> QED BY <3>1 DEF BusInv, CountsOK, Letters
  <2>7. deadLetters' = deadLetters \cup {<<p, r>>} /\ busMetrics' = [busMetrics EXCEPT !.errors = @ + 1]
    BY <1>4 DEF Raises
  <2>8. IsFiniteSet(deadLetters') /\ Cardinality(deadLetters') = Cardinality(deadLetters) + 1
    BY <2>6, <2>7, FS_AddElement DEF BusInv, CountsOK
  <2>9. Letters' = Letters \cup {<<p, r>>}
    <3>1. \A x : x \in Letters' <=> \E q \in DOMAIN flights : \E y \in flights'[q].raised : x = <<q, y>>
      BY <2>4 DEF Letters
    <3>2. \A x : x \in Letters <=> \E q \in DOMAIN flights : \E y \in flights[q].raised : x = <<q, y>>
      BY DEF Letters
    <3>3. \A q \in DOMAIN flights : flights'[q].raised = IF q = p THEN flights[q].raised \cup {r} ELSE flights[q].raised
      BY <1>2, <2>2, <2>4
    <3>4. \A x : x \in Letters' <=> x \in Letters \/ x = <<p, r>>
      BY <1>1, <3>1, <3>2, <3>3
    <3> QED BY <3>4
  <2> QED BY <2>4, <2>5, <2>7, <2>8, <2>9 DEF BusInv, CountsOK
<1> QED BY <1>3, <1>4

LEMMA EndKeeps ==
  ASSUME BusInv, NEW p, AfterDispatch(p) \/ Cancel(p)
  PROVE  BusInv'
<1>1. p \in DOMAIN flights /\ flights[p].state = "running"
  BY DEF AfterDispatch, Cancel, Running
<1>2. PICK g \in Flight, c \in SUBSET Registrations : g = flights[p] /\ c = called[p] /\ FlightOK(g, c)
  BY <1>1, ElementOfSeq, LenProperties DEF BusInv, FlightsOK
<1>3. PICK s \in {"dispatched", "cancelled"} :
        /\ flights' = [flights EXCEPT ![p].state = s]
        /\ s = "dispatched" => g.due = {} /\ busMetrics' = [busMetrics EXCEPT !.dispatched = @ + 1]
        /\ s = "cancelled" => busMetrics' = busMetrics
        /\ UNCHANGED <<subscriptions, deadLetters, called>>
  BY <1>2 DEF AfterDispatch, Cancel
<1>4. PICK f : f = [g EXCEPT !.state = s]
  OBVIOUS
<1>5. f \in Flight /\ FlightOK(f, c) /\ f.state = s /\ f.raised = g.raised
  BY <1>2, <1>3, <1>4 DEF Flight, FlightOK
<1>6. flights' = [flights EXCEPT ![p] = f] /\ UNCHANGED subscriptions
  BY <1>2, <1>3, <1>4
<1>7. called' = [called EXCEPT ![p] = c]
  BY <1>1, <1>2, <1>3, LenProperties DEF BusInv, FlightsOK
<1>8. /\ FlightsOK' /\ DOMAIN flights' = DOMAIN flights /\ Len(flights') = Len(flights)
      /\ flights'[p] = f /\ \A q \in DOMAIN flights \ {p} : flights'[q] = flights[q]
  BY <1>1, <1>5, <1>6, <1>7, FlightStep, Zenon DEF BusInv
<1>9. \A q \in DOMAIN flights : flights'[q].raised = flights[q].raised
                             /\ flights'[q].state = IF q = p THEN s ELSE flights[q].state
  BY <1>2, <1>5, <1>8
<1>10. Letters' = Letters
  BY <1>8, <1>9 DEF Letters
<1>11. PICK R, C : R = In("running") /\ C = In("cancelled") /\ p \in R /\ p \notin C
                   /\ IsFiniteSet(R) /\ IsFiniteSet(C)
  BY <1>1 DEF In, BusInv, CountsOK
<1>12. In("running")' = R \ {p}
  BY <1>1, <1>3, <1>8, <1>9, <1>11 DEF In
<1>13. In("cancelled")' = IF s = "cancelled" THEN C \cup {p} ELSE C
  BY <1>1, <1>3, <1>8, <1>9, <1>11 DEF In
<1>14. IsFiniteSet(R \ {p}) /\ Cardinality(R \ {p}) = Cardinality(R) - 1
       /\ IsFiniteSet(C \cup {p}) /\ Cardinality(C \cup {p}) = Cardinality(C) + 1
       /\ Cardinality(R) \in Nat /\ Cardinality(C) \in Nat
  BY <1>11, FS_AddElement, FS_RemoveElement, FS_CardinalityType
<1>15. PICK cr, cc \in Nat : cr = Cardinality(R) /\ cc = Cardinality(C)
  BY <1>14
<1>16. CountsOK'
  <2>1. PICK m \in [published : Nat, dispatched : Int, errors : Nat] : m = busMetrics
    BY DEF BusInv, CountsOK
  <2>2. m.published = Len(flights) /\ m.dispatched = m.published - cr - cc
        /\ m.errors = Cardinality(deadLetters) /\ deadLetters = Letters /\ IsFiniteSet(deadLetters)
    BY <1>11, <1>15, <2>1 DEF BusInv, CountsOK
  <2>3. CASE s = "dispatched"
    <3>1. busMetrics' = [m EXCEPT !.dispatched = @ + 1] /\ In("cancelled")' = C
      BY <1>3, <1>13, <2>1, <2>3
    <3>2. m.dispatched + 1 = m.published - (cr - 1) - cc
      BY <2>2
    <3>3. Cardinality(In("running")') = cr - 1 /\ Cardinality(In("cancelled")') = cc
      BY <1>12, <1>14, <1>15, <3>1
    <3>4. busMetrics' \in [published : Nat, dispatched : Int, errors : Nat]
          /\ busMetrics'.dispatched = m.dispatched + 1 /\ busMetrics'.published = m.published
          /\ busMetrics'.errors = m.errors
      BY <3>1
    <3>5. busMetrics'.dispatched =
            busMetrics'.published - Cardinality(In("running")') - Cardinality(In("cancelled")')
      BY <3>2, <3>3, <3>4
    <3> QED BY <1>3, <1>8, <1>10, <1>11, <1>12, <1>14, <2>2, <3>1, <3>4, <3>5 DEF CountsOK
  <2>4. CASE s = "cancelled"
    <3>1. busMetrics' = m /\ In("cancelled")' = C \cup {p}
      BY <1>3, <1>13, <2>1, <2>4
    <3>2. m.dispatched = m.published - (cr - 1) - (cc + 1)
      BY <2>2
    <3>3. Cardinality(In("running")') = cr - 1 /\ Cardinality(In("cancelled")') = cc + 1
      BY <1>12, <1>14, <1>15, <3>1
    <3>4. busMetrics'.dispatched =
            busMetrics'.published - Cardinality(In("running")') - Cardinality(In("cancelled")')
      BY <3>1, <3>2, <3>3
    <3> QED BY <1>3, <1>8, <1>10, <1>12, <1>14, <2>2, <3>1, <3>4 DEF CountsOK
  <2> QED BY <1>3, <2>3, <2>4
<1> QED BY <1>8, <1>16 DEF BusInv

LEMMA PublishKeeps ==
  ASSUME BusInv, NEW t \in Types, publish(t)
  PROVE  BusInv'
<1>1. PICK a : a = get_handlers_for(t)
  OBVIOUS
<1>2. a \in SUBSET Registrations /\ \A r \in a : r[1] \in Ancestors[t]
  BY <1>1, AncestorsAssumption DEF get_handlers_for, Registrations, BusInv, FlightsOK
<1>3. PICK f : f = [type |-> t, audience |-> a, due |-> a, raised |-> {}, state |-> "running"]
  OBVIOUS
<1>4. f \in Flight /\ FlightOK(f, {}) /\ f.raised = {} /\ f.state = "running"
  BY <1>2, <1>3 DEF Flight, FlightOK
<1>5. PICK n \in Nat : /\ n = Len(flights) /\ n = Len(called)
                       /\ DOMAIN flights = 1..n /\ DOMAIN called = 1..n
  BY LenProperties DEF BusInv, FlightsOK
<1>6. flights' = Append(flights, f) /\ called' = Append(called, {})
      /\ busMetrics' = [busMetrics EXCEPT !.published = @ + 1] /\ UNCHANGED <<subscriptions, deadLetters>>
  BY <1>1, <1>3 DEF publish
<1>7. flights' \in Seq(Flight) /\ Len(flights') = n + 1 /\ flights'[n + 1] = f
      /\ \A q \in 1..n : flights'[q] = flights[q]
  BY <1>4, <1>5, <1>6, AppendProperties DEF BusInv, FlightsOK
<1>8. called' \in Seq(SUBSET Registrations) /\ Len(called') = n + 1 /\ called'[n + 1] = {}
      /\ \A q \in 1..n : called'[q] = called[q]
  <2>1. PICK T : T = SUBSET Registrations
    OBVIOUS
  <2>2. called \in Seq(T) /\ {} \in T
    BY <2>1 DEF BusInv, FlightsOK
  <2>3. Append(called, {}) \in Seq(T) /\ Len(Append(called, {})) = Len(called) + 1
        /\ Append(called, {})[Len(called) + 1] = {} /\ \A q \in 1..Len(called) : Append(called, {})[q] = called[q]
    BY <2>2, AppendProperties
  <2> QED BY <1>5, <1>6, <2>1, <2>3
<1>9. DOMAIN flights' = 1..(n + 1) /\ 1..(n + 1) = (1..n) \cup {n + 1}
  BY <1>7, LenProperties
<1>10. FlightsOK'
  BY <1>4, <1>5, <1>6, <1>7, <1>8, <1>9 DEF BusInv, FlightsOK
<1>11. \A x : x \in Letters' <=> x \in Letters
  <2>1. \A x : x \in Letters' <=> \E q \in DOMAIN flights' : \E y \in flights'[q].raised : x = <<q, y>>
    BY DEF Letters
  <2>2. \A x : x \in Letters <=> \E q \in DOMAIN flights : \E y \in flights[q].raised : x = <<q, y>>
    BY DEF Letters
  <2>3. \A x : x \in Letters' <=> \E q \in 1..n : \E y \in flights'[q].raised : x = <<q, y>>
    BY <1>4, <1>7, <1>9, <2>1
  <2> QED BY <1>5, <1>7, <2>2, <2>3
<1>12. PICK R, C : R = In("running") /\ C = In("cancelled") /\ n + 1 \notin R
                   /\ IsFiniteSet(R) /\ IsFiniteSet(C)
  BY <1>5 DEF In, BusInv, CountsOK
<1>13. In("running")' = R \cup {n + 1} /\ In("cancelled")' = C
  BY <1>4, <1>5, <1>7, <1>9, <1>12 DEF In
<1>14. IsFiniteSet(R \cup {n + 1}) /\ Cardinality(R \cup {n + 1}) = Cardinality(R) + 1
  BY <1>12, FS_AddElement
<1>15. PICK cr, cc \in Nat : cr = Cardinality(R) /\ cc = Cardinality(C)
  BY <1>12, FS_CardinalityType
<1>16. PICK m \in [published : Nat, dispatched : Int, errors : Nat] : m = busMetrics
  BY DEF BusInv, CountsOK
<1>17. m.published = n /\ m.dispatched = n - cr - cc
       /\ m.errors = Cardinality(deadLetters) /\ deadLetters = Letters /\ IsFiniteSet(deadLetters)
  BY <1>5, <1>12, <1>15, <1>16 DEF BusInv, CountsOK
<1>18. busMetrics' = [m EXCEPT !.published = n + 1] /\ m.dispatched = (n + 1) - (cr + 1) - cc
  BY <1>6, <1>16, <1>17
<1>19. Letters' = Letters
  BY <1>11
<1>20. CountsOK'
  <2>1. busMetrics' \in [published : Nat, dispatched : Int, errors : Nat]
        /\ busMetrics'.dispatched = m.dispatched /\ busMetrics'.published = n + 1
        /\ busMetrics'.errors = m.errors
    BY <1>18
  <2>2. Cardinality(In("running")') = cr + 1 /\ Cardinality(In("cancelled")') = cc
    BY <1>13, <1>14, <1>15
  <2>3. busMetrics'.dispatched =
          busMetrics'.published - Cardinality(In("running")') - Cardinality(In("cancelled")')
    BY <1>18, <2>1, <2>2
  <2> QED BY <1>6, <1>7, <1>12, <1>13, <1>14, <1>17, <1>19, <2>1, <2>3 DEF CountsOK
<1> QED BY <1>10, <1>20 DEF BusInv

\* However handlers raise, register and leave while publications run or are
\* cancelled, a dispatched publication has run its whole audience and nobody else,
\* and the counters and the dead letters say exactly what happened.
THEOREM BusCorrect == BusSpec => []BusSafe
<1>1. BusInit => BusInv
  <2> SUFFICES ASSUME BusInit PROVE BusInv
    OBVIOUS
  <2>1. FlightsOK
    BY EmptySeq DEF BusInit, FlightsOK
  <2>2. In("running") = {} /\ In("cancelled") = {} /\ Letters = {} /\ Len(flights) = 0
    BY EmptySeq DEF BusInit, In, Letters
  <2>3. IsFiniteSet(In("running")) /\ IsFiniteSet(In("cancelled")) /\ IsFiniteSet(deadLetters)
        /\ Cardinality(In("running")) = 0 /\ Cardinality(In("cancelled")) = 0 /\ Cardinality(deadLetters) = 0
    BY <2>2, FS_EmptySet DEF BusInit
  <2>4. busMetrics \in [published : Nat, dispatched : Int, errors : Nat] /\ deadLetters = Letters
        /\ busMetrics.published = 0 /\ busMetrics.dispatched = 0 /\ busMetrics.errors = 0
    BY <2>2 DEF BusInit
  <2>5. CountsOK
    BY <2>2, <2>3, <2>4 DEF CountsOK
  <2> QED BY <2>1, <2>5 DEF BusInv
<1>2. BusInv /\ [BusNext]_busVars => BusInv'
  <2> SUFFICES ASSUME BusInv, [BusNext]_busVars PROVE BusInv'
    OBVIOUS
  <2>1. ASSUME UNCHANGED <<flights, called, busMetrics, deadLetters>>,
               subscriptions' \in [Types -> SUBSET Handlers]
        PROVE  BusInv'
    BY <2>1 DEF BusInv, FlightsOK, CountsOK, In, Letters
  <2>2. ASSUME NEW t \in Types, NEW h \in Handlers, subscribe(t, h) \/ unsubscribe(t, h) PROVE BusInv'
    BY <2>1, <2>2 DEF subscribe, unsubscribe, BusInv, FlightsOK
  <2>3. CASE UNCHANGED busVars
    BY <2>1, <2>3 DEF busVars, BusInv, FlightsOK
  <2> QED BY <2>2, <2>3, HandlerKeeps, EndKeeps, PublishKeeps DEF BusNext
<1> QED BY <1>1, <1>2, BusInvSuffices, PTL DEF BusSpec

-----------------------------------------------------------------------------
(***************************************************************************)
(* The registry of modules.  A call goes through modules that it has not   *)
(* visited yet; what a shutdown has not reached, and what an initialize    *)
(* has not reached and is up all the same, was left over by a failure.     *)
(* The probe has found up, or moving, all modules before its place.        *)
(***************************************************************************)
Occurs(n, s) == \E i \in DOMAIN s : s[i] = n

Calls(ops_) == [op : ops_, todo : Seq(Deployed), size : Nat, healthy : BOOLEAN]

LifeTypes ==
  /\ order \in Seq(Deployed) /\ report \in {"none", "UP", "DEGRADED", "error"}
  /\ up \subseteq Deployed /\ built \subseteq Deployed /\ wired \subseteq Deployed
  /\ ready \in BOOLEAN /\ ops \in Nat
  /\ work \in Calls({"none", "initialize", "shutdown"})
  /\ probe \in Calls({"none", "health"})
  /\ queued \in Seq({"initialize", "shutdown"})

OrderInv ==
  /\ \A i, j \in DOMAIN order : order[i] = order[j] => i = j
  /\ \A i \in DOMAIN bound : Occurs(bound[i], order) /\ i \in Module(bound[i]).binds
  /\ up \cup wired \subseteq built /\ \A n \in built : Occurs(n, order)

WorkInv ==
  /\ (work.op = "none" <=> work.todo = <<>>) /\ (work.op = "none" => work = Idle)
  /\ \A i \in DOMAIN work.todo : Occurs(work.todo[i], order)
  /\ \A i, j \in DOMAIN work.todo : work.todo[i] = work.todo[j] => i = j
  /\ work.op = "none" /\ ~ready => up \subseteq orphans \cup unstopped
  /\ work.op = "initialize" => \A n \in up : Occurs(n, work.todo) => n \in orphans \cup unstopped
  /\ work.op = "shutdown" => \A n \in up : Occurs(n, work.todo) \/ n \in orphans \cup unstopped

Passed == {order[k] : k \in 1..(probe.size - Len(probe.todo))}

ProbeInv ==
  /\ (probe.op = "none" <=> probe.todo = <<>>) /\ (probe.op = "none" => probe = Idle)
  /\ Len(probe.todo) <= probe.size /\ probe.size <= Len(order)
  /\ \A i \in 1..Len(probe.todo) : probe.todo[i] = order[probe.size - Len(probe.todo) + i]
  /\ probe.healthy => Passed \subseteq up \cup moved \cup {"database"}

LifeInv == LifeTypes /\ OrderInv /\ WorkInv /\ ProbeInv

\* What a sequence of modules loses and gains.
LEMMA TailOf ==
  ASSUME NEW S, NEW s \in Seq(S), s # <<>>
  PROVE /\ Tail(s) \in Seq(S) /\ Len(Tail(s)) = Len(s) - 1 /\ Len(s) \in Nat \ {0}
        /\ Head(s) = s[1] /\ 1 \in DOMAIN s /\ Head(s) \in S
        /\ \A i \in 1..(Len(s) - 1) : Tail(s)[i] = s[i + 1]
        /\ DOMAIN s = 1..Len(s) /\ DOMAIN Tail(s) = 1..(Len(s) - 1)
        /\ \A n : Occurs(n, s) => n = Head(s) \/ Occurs(n, Tail(s))
        /\ \A n : Occurs(n, Tail(s)) => Occurs(n, s)
<1>1. /\ Tail(s) \in Seq(S) /\ Len(Tail(s)) = Len(s) - 1 /\ Len(s) \in Nat \ {0}
      /\ Head(s) = s[1] /\ 1 \in DOMAIN s /\ Head(s) \in S
      /\ \A i \in 1..(Len(s) - 1) : Tail(s)[i] = s[i + 1]
      /\ DOMAIN s = 1..Len(s) /\ DOMAIN Tail(s) = 1..(Len(s) - 1)
  BY HeadTailProperties, ElementOfSeq, LenProperties, SMT
<1>2. ASSUME NEW n, Occurs(n, s), n # Head(s) PROVE Occurs(n, Tail(s))
  <2>1. PICK i \in DOMAIN s : s[i] = n
    BY <1>2 DEF Occurs
  <2>2. i # 1 /\ i - 1 \in 1..(Len(s) - 1)
    BY <1>1, <2>1, <1>2
  <2>3. Tail(s)[i - 1] = n
    BY <1>1, <2>1, <2>2
  <2> QED BY <1>1, <2>2, <2>3 DEF Occurs
<1>3. ASSUME NEW n, Occurs(n, Tail(s)) PROVE Occurs(n, s)
  <2>1. PICK i \in DOMAIN Tail(s) : Tail(s)[i] = n
    BY <1>3 DEF Occurs
  <2>2. i + 1 \in DOMAIN s /\ s[i + 1] = n
    BY <1>1, <2>1
  <2> QED BY <2>2 DEF Occurs
<1> QED BY <1>1, <1>2, <1>3

\* The types of the registry are kept.
LEMMA LifeTypesKept == LifeInv /\ [LifeNext]_lifeVars => LifeTypes'
<1> SUFFICES ASSUME LifeInv, [LifeNext]_lifeVars PROVE LifeTypes'
  OBVIOUS
<1> USE LifeBoundAssumption
<1>0. LifeTypes
  BY DEF LifeInv
<1>a. Idle \in Calls({"none", "initialize", "shutdown"}) /\ Idle \in Calls({"none", "health"})
  BY DEF Idle, Calls
<1>t. ASSUME NEW n, \/ AtHook("initialize", n) \/ AtHook("shutdown", n)
      PROVE work.todo # <<>> /\ Tail(work.todo) \in Seq(Deployed) /\ n \in Deployed
  <2>1. work.op # "none" /\ work.todo # <<>> /\ Head(work.todo) = n
    BY <1>t DEF AtHook, LifeInv, WorkInv
  <2>2. work.todo \in Seq(Deployed)
    BY <1>0 DEF LifeTypes, Calls
  <2> QED BY <2>1, <2>2, TailOf
<1>w. ASSUME NEW n, \/ AtHook("initialize", n) \/ AtHook("shutdown", n), Onwards
      PROVE work' \in Calls({"none", "initialize", "shutdown"}) /\ ready' \in BOOLEAN
  BY <1>w, <1>t, <1>a, <1>0 DEF Onwards, LifeTypes, Calls
<1>1. ASSUME NEW n \in Deployed, register(n) PROVE LifeTypes'
  <2>1. order' \in Seq(Deployed)
    BY <1>0, <1>1, AppendProperties DEF register, LifeTypes
  <2> QED BY <2>1, <1>0, <1>1 DEF register, LifeTypes
<1>2. ASSUME NEW n \in Deployed, Start(n) PROVE LifeTypes'
  <2>1. work' \in Calls({"none", "initialize", "shutdown"}) /\ ready' \in BOOLEAN
    BY <1>2, <1>w, <1>a, <1>0 DEF Start, GiveUp, LifeTypes
  <2> QED BY <2>1, <1>0, <1>2 DEF Start, LifeTypes
<1>3. ASSUME NEW n \in Deployed, StartFails(n) PROVE LifeTypes'
  BY <1>3, <1>0, <1>a DEF StartFails, GiveUp, LifeTypes
<1>4. ASSUME NEW n \in Deployed, Stop(n) PROVE LifeTypes'
  <2>1. work' \in Calls({"none", "initialize", "shutdown"}) /\ ready' \in BOOLEAN
    BY <1>4, <1>w DEF Stop
  <2> QED BY <2>1, <1>0, <1>4 DEF Stop, LifeTypes
<1>5. ASSUME NEW n \in Deployed, StopFails(n) PROVE LifeTypes'
  <2>1. work' \in Calls({"none", "initialize", "shutdown"}) /\ ready' \in BOOLEAN
    BY <1>5, <1>w DEF StopFails
  <2> QED BY <2>1, <1>0, <1>5 DEF StopFails, LifeTypes
<1>6. ASSUME NEW op \in {"initialize", "shutdown"}, CallRegistry(op) PROVE LifeTypes'
  <2>1. queued' \in Seq({"initialize", "shutdown"})
    BY <1>0, <1>6, AppendProperties DEF CallRegistry, LifeTypes
  <2> QED BY <2>1, <1>0, <1>6 DEF CallRegistry, LifeTypes
<1>7. CASE Begin
  <2>1. queued # <<>> /\ Head(queued) \in {"initialize", "shutdown"}
        /\ Tail(queued) \in Seq({"initialize", "shutdown"})
    BY <1>7, <1>0, TailOf DEF Begin, LifeTypes
  <2>2. Course(Head(queued)) \in Seq(Deployed)
    <3>1. order \in Seq(Deployed) /\ Len(order) \in Nat /\ DOMAIN order = 1..Len(order)
          /\ \A i \in 1..Len(order) : order[i] \in Deployed
      BY <1>0, LenProperties, ElementOfSeq DEF LifeTypes
    <3>2. \A i \in DOMAIN order : order[Len(order) + 1 - i] \in Deployed
      BY <3>1
    <3>3. [i \in DOMAIN order |-> order[Len(order) + 1 - i]] \in Seq(Deployed)
      <4>1. [i \in 1..Len(order) |-> order[Len(order) + 1 - i]] \in [1..Len(order) -> Deployed]
        BY <3>1, <3>2
      <4> QED BY <4>1, <3>1, IsASeq
    <3> QED BY <3>1, <3>3 DEF Course
  <2>3. Len(order) \in Nat
    BY <1>0, LenProperties DEF LifeTypes
  <2>4. work' \in Calls({"none", "initialize", "shutdown"})
    BY <1>7, <1>a, <2>1, <2>2, <2>3 DEF Begin, Calls, Idle
  <2>5. ready' \in BOOLEAN
    BY <1>7, <1>0 DEF Begin, LifeTypes
  <2> QED BY <1>7, <1>0, <2>1, <2>4, <2>5 DEF Begin, LifeTypes
<1>8. CASE ProbeStarts
  <2>1. Len(order) \in Nat
    BY <1>0, LenProperties DEF LifeTypes
  <2>2. probe' \in Calls({"none", "health"})
    BY <1>8, <1>a, <1>0, <2>1 DEF ProbeStarts, Calls, Idle, LifeTypes
  <2> QED BY <1>8, <1>0, <2>2 DEF ProbeStarts, LifeTypes
<1>9. CASE ProbeStep
  <2>1. PICK status \in HealthOf(Head(probe.todo)) :
          /\ probe' = IF Grown(probe) \/ Tail(probe.todo) = <<>> THEN Idle
                      ELSE [probe EXCEPT !.todo = Tail(probe.todo),
                                         !.healthy = StillHealthy(probe.healthy, status)]
          /\ report' \in {report, "error", "UP", "DEGRADED"}
    BY <1>9 DEF ProbeStep
  <2>2. Tail(probe.todo) \in Seq(Deployed)
    BY <1>9, <1>0, TailOf DEF ProbeStep, LifeTypes, Calls
  <2>3. probe' \in Calls({"none", "health"})
    BY <2>1, <2>2, <1>a, <1>0 DEF Calls, LifeTypes, StillHealthy
  <2> QED BY <1>9, <1>0, <2>1, <2>3 DEF ProbeStep, LifeTypes
<1>10. CASE UNCHANGED lifeVars
  BY <1>10, <1>0 DEF lifeVars, LifeTypes
<1> QED
  BY <1>1, <1>2, <1>3, <1>4, <1>5, <1>6, <1>7, <1>8, <1>9, <1>10 DEF LifeNext

\* A step that registers nothing leaves the order; up, and with it built, grows
\* by modules of the course only.
LEMMA OrderKept == LifeInv /\ [LifeNext]_lifeVars => OrderInv'
<1> SUFFICES ASSUME LifeInv, [LifeNext]_lifeVars PROVE OrderInv'
  OBVIOUS
<1>0. LifeTypes /\ OrderInv /\ WorkInv
  BY DEF LifeInv
<1>1. ASSUME NEW n \in Deployed, register(n) PROVE OrderInv'
  <2>1. /\ order \in Seq(Deployed) /\ order' = Append(order, n) /\ Len(order) \in Nat
        /\ DOMAIN order = 1..Len(order) /\ DOMAIN order' = 1..(Len(order) + 1)
        /\ order'[Len(order) + 1] = n /\ \A i \in 1..Len(order) : order'[i] = order[i]
        /\ \A i \in 1..Len(order) : order[i] # n
    BY <1>0, <1>1, AppendProperties, LenProperties DEF register, LifeTypes
  <2>2. \A m : Occurs(m, order) => Occurs(m, order')
    BY <2>1 DEF Occurs
  <2>3. Occurs(n, order')
    BY <2>1 DEF Occurs
  <2>4. \A i, j \in DOMAIN order' : order'[i] = order'[j] => i = j
    BY <2>1, <1>0 DEF OrderInv
  <2>5. \A i \in DOMAIN bound' : Occurs(bound'[i], order') /\ i \in Module(bound'[i]).binds
    BY <1>0, <1>1, <2>2, <2>3 DEF register, OrderInv
  <2>6. up' = up /\ wired' = wired /\ built' = built
    BY <1>1 DEF register
  <2> QED BY <1>0, <2>2, <2>4, <2>5, <2>6 DEF OrderInv
<1>2. ASSUME NEW n \in Deployed, Start(n) PROVE OrderInv'
  <2>1. Occurs(n, order)
    <3>1. work.op # "none" /\ work.todo # <<>> /\ Head(work.todo) = n
      BY <1>2, <1>0 DEF Start, AtHook, WorkInv
    <3>2. work.todo \in Seq(Deployed)
      BY <1>0 DEF LifeTypes, Calls
    <3> QED BY <3>1, <3>2, <1>0, TailOf DEF WorkInv
  <2>2. order' = order /\ bound' = bound /\ up' = up \cup {n} /\ built' = built \cup {n}
        /\ wired' \subseteq wired \cup {n}
    BY <1>2 DEF Start
  <2>3. \A m : Occurs(m, order') <=> Occurs(m, order)
    BY <2>2 DEF Occurs
  <2> QED BY <1>0, <2>1, <2>2, <2>3 DEF OrderInv
<1>3. ASSUME order' = order, bound' = bound, up' \subseteq up, built' = built, wired' = wired
      PROVE OrderInv'
  <2>1. \A m : Occurs(m, order') <=> Occurs(m, order)
    BY <1>3 DEF Occurs
  <2> QED BY <1>0, <1>3, <2>1 DEF OrderInv
<1>4. \/ \E n \in Deployed : register(n) \/ Start(n)
      \/ order' = order /\ bound' = bound /\ up' \subseteq up /\ built' = built /\ wired' = wired
  BY DEF LifeNext, StartFails, Stop, StopFails, CallRegistry, Begin, ProbeStarts, ProbeStep, lifeVars
<1> QED BY <1>1, <1>2, <1>3, <1>4

\* At a module of a course: it is the first of what is left, and comes once.
LEMMA AtHookFacts ==
  ASSUME LifeInv, NEW op \in {"initialize", "shutdown"}, NEW n, AtHook(op, n)
  PROVE /\ work.op = op /\ work.todo # <<>> /\ n = Head(work.todo) /\ Occurs(n, work.todo)
        /\ Tail(work.todo) \in Seq(Deployed)
        /\ ~Occurs(n, Tail(work.todo))
        /\ \A m : Occurs(m, work.todo) <=> m = n \/ Occurs(m, Tail(work.todo))
        /\ \A i \in DOMAIN Tail(work.todo) : Occurs(Tail(work.todo)[i], order)
        /\ \A i, j \in DOMAIN Tail(work.todo) : Tail(work.todo)[i] = Tail(work.todo)[j] => i = j
<1>1. work.op = op /\ work.todo # <<>> /\ Head(work.todo) = n
  BY DEF AtHook, LifeInv, WorkInv
<1>2. work.todo \in Seq(Deployed)
  BY DEF LifeInv, LifeTypes, Calls
<1> DEFINE s == work.todo
<1>3. /\ Tail(s) \in Seq(Deployed) /\ Len(s) \in Nat \ {0} /\ n = s[1] /\ 1 \in DOMAIN s
      /\ \A i \in 1..(Len(s) - 1) : Tail(s)[i] = s[i + 1]
      /\ DOMAIN s = 1..Len(s) /\ DOMAIN Tail(s) = 1..(Len(s) - 1)
      /\ \A m : Occurs(m, s) => m = n \/ Occurs(m, Tail(s))
      /\ \A m : Occurs(m, Tail(s)) => Occurs(m, s)
  BY <1>1, <1>2, TailOf
<1>4. /\ \A i, j \in DOMAIN s : s[i] = s[j] => i = j
      /\ \A i \in DOMAIN s : Occurs(s[i], order)
  BY DEF LifeInv, WorkInv
<1>5. Occurs(n, s)
  BY <1>3 DEF Occurs
<1>6. ~Occurs(n, Tail(s))
  <2> SUFFICES ASSUME NEW i \in DOMAIN Tail(s), Tail(s)[i] = n PROVE FALSE
    BY DEF Occurs
  <2> QED BY <1>3, <1>4
<1>7. \A i \in DOMAIN Tail(s) : i + 1 \in DOMAIN s /\ Tail(s)[i] = s[i + 1]
  BY <1>3
<1>8. \A i, j \in DOMAIN Tail(s) : Tail(s)[i] = Tail(s)[j] => i = j
  BY <1>7, <1>4, <1>3
<1>9. \A i \in DOMAIN Tail(s) : Occurs(Tail(s)[i], order)
  BY <1>7, <1>4
<1> QED BY <1>1, <1>3, <1>5, <1>6, <1>8, <1>9

\* The courses of the registry and what is left over.
LEMMA WorkKept == LifeInv /\ [LifeNext]_lifeVars => WorkInv'
<1> SUFFICES ASSUME LifeInv, [LifeNext]_lifeVars PROVE WorkInv'
  OBVIOUS
<1>0. LifeTypes /\ OrderInv /\ WorkInv
  BY DEF LifeInv
<1>i. Idle.op = "none" /\ Idle.todo = <<>> /\ DOMAIN Idle.todo = {} /\ \A n : ~Occurs(n, Idle.todo)
  BY DEF Idle, Occurs
<1>n. \A m : ~Occurs(m, <<>>)
  BY DEF Occurs
<1>o. ASSUME order' = order PROVE \A m : Occurs(m, order') <=> Occurs(m, order)
  BY <1>o DEF Occurs
<1>g. ASSUME work' = Idle, ready' \/ up' \subseteq orphans' \cup unstopped' PROVE WorkInv'
  BY <1>g, <1>i DEF WorkInv
<1>t. ASSUME NEW op \in {"initialize", "shutdown"}, NEW n, AtHook(op, n), Tail(work.todo) # <<>>, Onwards
      PROVE work' = [work EXCEPT !.todo = Tail(work.todo)] /\ work'.op = op
            /\ work'.todo = Tail(work.todo) /\ ready' = ready
  <2>1. work \in Calls({"none", "initialize", "shutdown"})
    BY <1>0 DEF LifeTypes
  <2> QED BY <1>t, <2>1, AtHookFacts DEF Onwards, Calls
<1>s. ASSUME NEW op \in {"initialize", "shutdown"}, NEW n, AtHook(op, n), Tail(work.todo) = <<>>, Onwards
      PROVE work' = Idle /\ ready' = (op = "initialize")
  BY <1>s, AtHookFacts DEF Onwards
<1>1. ASSUME NEW n \in Deployed, register(n) PROVE WorkInv'
  <2>1. \A m : Occurs(m, order) => Occurs(m, order')
    <3>1. order \in Seq(Deployed) /\ order' = Append(order, n)
      BY <1>0, <1>1 DEF register, LifeTypes
    <3>2. DOMAIN order \subseteq DOMAIN order' /\ \A i \in DOMAIN order : order'[i] = order[i]
      BY <3>1, AppendProperties, LenProperties
    <3> QED BY <3>2 DEF Occurs
  <2>2. UNCHANGED <<up, ready, work, orphans, unstopped>>
    BY <1>1 DEF register
  <2> QED BY <1>0, <2>1, <2>2 DEF WorkInv, Occurs
<1>2. ASSUME NEW n \in Deployed, Start(n) PROVE WorkInv'
  <2>1. AtHook("initialize", n) /\ up' = up \cup {n} /\ unstopped' = unstopped /\ order' = order
    BY <1>2 DEF Start
  <2>2. CASE Grown(work)
    BY <1>2, <2>2, <1>g DEF Start, GiveUp
  <2>3. CASE ~Grown(work) /\ Tail(work.todo) = <<>>
    BY <1>2, <2>1, <2>3, <1>s, <1>g DEF Start
  <2>4. CASE ~Grown(work) /\ Tail(work.todo) # <<>>
    <3>1. /\ work'.op = "initialize" /\ work'.todo = Tail(work.todo) /\ ready' = ready
          /\ orphans' = orphans
      BY <1>2, <2>1, <2>4, <1>t DEF Start
    <3>2. \A m \in up' : Occurs(m, Tail(work.todo)) => m \in orphans' \cup unstopped'
      <4> SUFFICES ASSUME NEW m \in up', Occurs(m, Tail(work.todo)) PROVE m \in orphans' \cup unstopped'
        OBVIOUS
      <4>1. m # n /\ m \in up /\ Occurs(m, work.todo)
        BY <2>1, AtHookFacts
      <4>2. work.op = "initialize"
        BY <2>1, AtHookFacts
      <4> QED BY <1>0, <2>1, <3>1, <4>1, <4>2 DEF WorkInv
    <3>3. /\ \A i \in DOMAIN Tail(work.todo) : Occurs(Tail(work.todo)[i], order)
          /\ \A i, j \in DOMAIN Tail(work.todo) : Tail(work.todo)[i] = Tail(work.todo)[j] => i = j
      BY <2>1, AtHookFacts
    <3> QED BY <2>1, <2>4, <3>1, <3>2, <3>3, <1>o DEF WorkInv, Occurs
  <2> QED BY <2>2, <2>3, <2>4
<1>3. ASSUME NEW n \in Deployed, StartFails(n) PROVE WorkInv'
  BY <1>3, <1>g DEF StartFails, GiveUp
<1>4. ASSUME NEW n \in Deployed, AtHook("shutdown", n), Onwards, order' = order,
             up' \ {n} \subseteq up, n \in up' => n \in unstopped',
             (orphans \cup unstopped) \ {n} \subseteq orphans' \cup unstopped'
      PROVE WorkInv'
  <2>1. \A m \in up' : m \in orphans' \cup unstopped' \/ Occurs(m, Tail(work.todo))
    <3> SUFFICES ASSUME NEW m \in up', m # n PROVE m \in orphans' \cup unstopped' \/ Occurs(m, Tail(work.todo))
      BY <1>4
    <3>1. m \in up /\ work.op = "shutdown"
      BY <1>4, AtHookFacts
    <3>2. CASE Occurs(m, work.todo)
      BY <3>2, <1>4, AtHookFacts
    <3>3. CASE m \in orphans \cup unstopped
      BY <3>3, <1>4
    <3> QED BY <3>1, <3>2, <3>3, <1>0 DEF WorkInv
  <2>2. CASE Tail(work.todo) = <<>>
    BY <2>1, <2>2, <1>4, <1>s, <1>g, <1>n
  <2>3. CASE Tail(work.todo) # <<>>
    <3>1. work'.op = "shutdown" /\ work'.todo = Tail(work.todo) /\ ready' = ready
      BY <1>4, <2>3, <1>t
    <3>2. /\ \A i \in DOMAIN Tail(work.todo) : Occurs(Tail(work.todo)[i], order)
          /\ \A i, j \in DOMAIN Tail(work.todo) : Tail(work.todo)[i] = Tail(work.todo)[j] => i = j
      BY <1>4, AtHookFacts
    <3> QED BY <1>4, <2>1, <2>3, <3>1, <3>2, <1>o DEF WorkInv, Occurs
  <2> QED BY <2>2, <2>3
<1>5. ASSUME NEW n \in Deployed, Stop(n) \/ StopFails(n) PROVE WorkInv'
  BY <1>4, <1>5 DEF Stop, StopFails
<1>6. CASE Begin
  <2> DEFINE op == Head(queued)
  <2>1. op \in {"initialize", "shutdown"} /\ work.op = "none" /\ work = Idle
    BY <1>6, <1>0, <1>i, TailOf DEF Begin, LifeTypes
  <2>2. UNCHANGED <<order, up, orphans, unstopped>>
    BY <1>6 DEF Begin
  <2>e. order = <<>> => up = {}
    <3>1. ASSUME NEW n \in up, order = <<>> PROVE FALSE
      <4>1. Occurs(n, order)
        BY <1>0 DEF OrderInv
      <4> QED BY <4>1, <3>1, <1>n
    <3> QED BY <3>1
  <2>3. CASE FoundDone(op) \/ order = <<>>
    <3>1. work' = Idle /\ ready' = IF order = <<>> THEN op = "initialize" ELSE ready
      BY <1>6, <2>3 DEF Begin
    <3>2. ready' \/ up \subseteq orphans \cup unstopped
      BY <3>1, <2>1, <2>3, <2>e, <1>0 DEF FoundDone, WorkInv, LifeTypes
    <3> QED BY <3>1, <3>2, <2>2, <1>g
  <2>4. CASE ~FoundDone(op) /\ order # <<>>
    <3>1. work' = [Idle EXCEPT !.op = op, !.size = Len(order), !.todo = Course(op)] /\ ready' = ready
      BY <1>6, <2>4 DEF Begin
    <3>2. work'.op = op /\ work'.todo = Course(op)
      BY <3>1 DEF Idle
    <3>3. order \in Seq(Deployed) /\ Len(order) \in Nat \ {0} /\ DOMAIN order = 1..Len(order)
      BY <1>0, <2>4, TailOf DEF LifeTypes
    <3>4. DOMAIN Course(op) = 1..Len(order)
      BY <3>3 DEF Course
    <3>5. \A i \in DOMAIN Course(op) : Occurs(Course(op)[i], order)
      <4>1. \A i \in 1..Len(order) : Len(order) + 1 - i \in 1..Len(order)
        BY <3>3
      <4> QED BY <3>3, <4>1 DEF Course, Occurs
    <3>6. \A i, j \in DOMAIN Course(op) : Course(op)[i] = Course(op)[j] => i = j
      <4>1. \A i, j \in DOMAIN order : order[i] = order[j] => i = j
        BY <1>0 DEF OrderInv
      <4> QED BY <3>3, <4>1 DEF Course
    <3>7. \A n \in up : Occurs(n, Course(op))
      <4> TAKE n \in up
      <4>1. PICK k \in DOMAIN order : order[k] = n
        BY <1>0 DEF OrderInv, Occurs
      <4>2. Len(order) + 1 - k \in 1..Len(order) /\ order[Len(order) + 1 - (Len(order) + 1 - k)] = n
        BY <4>1, <3>3
      <4>3. CASE op = "initialize"
        BY <4>1, <4>3 DEF Course, Occurs
      <4>4. CASE op # "initialize"
        BY <4>2, <4>4, <3>3 DEF Course, Occurs
      <4> QED BY <4>3, <4>4
    <3>8. op = "initialize" => up \subseteq orphans \cup unstopped
      BY <2>1, <2>4, <1>0 DEF FoundDone, WorkInv, LifeTypes
    <3>9. Course(op) # <<>> /\ op # "none"
      BY <3>3, <3>4, <2>1
    <3>10. \A m : Occurs(m, order') <=> Occurs(m, order)
      BY <2>2, <1>o
    <3> QED
      BY <3>2, <3>5, <3>6, <3>7, <3>8, <3>9, <3>10, <2>2 DEF WorkInv, Occurs
  <2> QED BY <2>3, <2>4
<1>7. ASSUME UNCHANGED <<order, up, ready, work, orphans, unstopped>> PROVE WorkInv'
  BY <1>0, <1>7 DEF WorkInv, Occurs
<1>8. \/ \E n \in Deployed : register(n) \/ Start(n) \/ StartFails(n) \/ Stop(n) \/ StopFails(n)
      \/ Begin \/ UNCHANGED <<order, up, ready, work, orphans, unstopped>>
  BY DEF LifeNext, CallRegistry, ProbeStarts, ProbeStep, lifeVars
<1> QED BY <1>1, <1>2, <1>3, <1>5, <1>6, <1>7, <1>8

\* A module reports HEALTHY only while it is up; the database also afterwards.
LEMMA HealthyIsUp ==
  ASSUME NEW n \in Deployed, "HEALTHY" \in HealthOf(n) PROVE n \in up \cup {"database"}
<1>1. \A m \in Modules : m.down # "HEALTHY"
  BY DEF Modules, ParsingModule, IngestionModule, TransmissionModule, AuthenticationModule,
         ContentIntelligenceModule, URLIntelligenceModule, ThreatIntelModule,
         ThreatCorrelationModule, RiskAssessmentModule, AIDecisionModule, RemediationModule,
         OrchestratorModule, OpsModule, IAMModule, DatabaseModule, InMemoryEventBus,
         AnalyticsModule, NotificationModule, RealtimeModule, IngestionGatewayModule, Engine, Kind
<1>2. Module(n) \in Modules
  BY DeployedAssumption DEF Module
<1>3. Module(n).down # "HEALTHY"
  BY <1>1, <1>2
<1> QED BY <1>3 DEF HealthOf

\* What the probe has passed was up, or moved since, or is the database.
LEMMA ProbeKept == LifeInv /\ [LifeNext]_lifeVars => ProbeInv'
<1> SUFFICES ASSUME LifeInv, [LifeNext]_lifeVars PROVE ProbeInv'
  OBVIOUS
<1>0. LifeTypes /\ ProbeInv /\ WorkInv
  BY DEF LifeInv
<1>a. order \in Seq(Deployed) /\ Len(order) \in Nat /\ DOMAIN order = 1..Len(order)
      /\ probe.todo \in Seq(Deployed) /\ Len(probe.todo) \in Nat /\ probe.size \in Nat
  BY <1>0, LenProperties DEF LifeTypes, Calls
<1>i. ASSUME probe' = Idle, Len(order') \in Nat PROVE ProbeInv'
  <2>1. probe'.op = "none" /\ probe'.todo = <<>> /\ probe'.size = 0 /\ Len(probe'.todo) = 0
    BY <1>i DEF Idle
  <2>2. Passed' = {}
    BY <2>1 DEF Passed
  <2> QED BY <1>i, <2>1, <2>2 DEF ProbeInv
<1>1. ASSUME NEW n \in Deployed, register(n) PROVE ProbeInv'
  <2>1. /\ Len(order') = Len(order) + 1
        /\ \A i \in 1..Len(order) : order'[i] = order[i]
        /\ UNCHANGED <<probe, up, moved>>
    BY <1>a, <1>1, AppendProperties DEF register
  <2>2. Passed' = Passed
    BY <2>1, <1>a, <1>0 DEF Passed, ProbeInv
  <2>3. \A i \in 1..Len(probe.todo) : probe.size - Len(probe.todo) + i \in 1..Len(order)
    BY <1>a, <1>0 DEF ProbeInv
  <2>4. \A i \in 1..Len(probe.todo) : probe.todo[i] = order'[probe.size - Len(probe.todo) + i]
    BY <2>1, <2>3, <1>0 DEF ProbeInv
  <2>5. probe.size <= Len(order')
    BY <2>1, <1>0, <1>a DEF ProbeInv
  <2> QED BY <2>1, <2>2, <2>4, <2>5, <1>0 DEF ProbeInv
<1>2. ASSUME UNCHANGED <<order, probe>>, up \cup moved \subseteq up' \cup moved' PROVE ProbeInv'
  <2>1. Passed' = Passed
    BY <1>2 DEF Passed
  <2> QED BY <2>1, <1>2, <1>0 DEF ProbeInv
<1>3. CASE ProbeStarts
  <2>1. CASE order = <<>>
    BY <2>1, <1>3, <1>i, <1>a DEF ProbeStarts
  <2>2. CASE order # <<>>
    <3>1. probe' = [Idle EXCEPT !.op = "health", !.size = Len(order), !.todo = order] /\ order' = order
      BY <2>2, <1>3 DEF ProbeStarts
    <3>2. probe'.op = "health" /\ probe'.size = Len(order) /\ probe'.todo = order
      BY <3>1 DEF Idle
    <3>3. Passed' = {}
      BY <3>1, <3>2, <1>a DEF Passed
    <3> QED BY <3>1, <3>2, <3>3, <2>2, <1>a DEF ProbeInv
  <2> QED BY <2>1, <2>2
<1>4. CASE ProbeStep
  <2> DEFINE rest == Tail(probe.todo)
  <2>1. PICK status \in HealthOf(Head(probe.todo)) :
          probe' = IF Grown(probe) \/ rest = <<>> THEN Idle
                   ELSE [probe EXCEPT !.todo = rest, !.healthy = StillHealthy(probe.healthy, status)]
    BY <1>4 DEF ProbeStep
  <2>2. UNCHANGED <<order, up, moved>> /\ probe.todo # <<>>
    BY <1>4 DEF ProbeStep
  <2>3. CASE Grown(probe) \/ rest = <<>>
    BY <2>1, <2>2, <2>3, <1>i, <1>a
  <2>4. CASE ~Grown(probe) /\ rest # <<>>
    <3>1. probe'.op = probe.op /\ probe'.todo = rest /\ probe'.size = probe.size
          /\ probe'.healthy = StillHealthy(probe.healthy, status)
      BY <2>1, <2>4, <1>0 DEF LifeTypes, Calls
    <3>2. /\ Len(rest) = Len(probe.todo) - 1 /\ Len(probe.todo) \in Nat \ {0}
          /\ Head(probe.todo) = probe.todo[1] /\ Head(probe.todo) \in Deployed
          /\ \A i \in 1..(Len(probe.todo) - 1) : rest[i] = probe.todo[i + 1]
      BY <2>2, <1>a, TailOf
    <3> DEFINE at == probe.size - Len(probe.todo)
    <3>3. at \in Nat /\ probe.todo[1] = order[at + 1] /\ probe.size - Len(rest) = at + 1
      BY <3>2, <1>a, <1>0 DEF ProbeInv
    <3>4. \A i \in 1..Len(rest) : rest[i] = order[probe.size - Len(rest) + i]
      <4> TAKE i \in 1..Len(rest)
      <4>1. i + 1 \in 1..Len(probe.todo) /\ rest[i] = probe.todo[i + 1]
        BY <3>2
      <4>2. probe.todo[i + 1] = order[probe.size - Len(probe.todo) + (i + 1)]
        BY <4>1, <1>0 DEF ProbeInv
      <4>3. probe.size - Len(probe.todo) + (i + 1) = probe.size - Len(rest) + i
        <5>1. \A a, b, c, j \in Int : b = c - 1 => a - c + (j + 1) = a - b + j
          OBVIOUS
        <5>2. i \in Int /\ Len(rest) \in Int /\ Len(rest) = Len(probe.todo) - 1
              /\ probe.size \in Int /\ Len(probe.todo) \in Int
          BY <3>2, <1>a
        <5> QED BY <5>1, <5>2
      <4> QED BY <4>1, <4>2, <4>3
    <3>5. probe'.healthy => Passed' \subseteq up \cup moved \cup {"database"}
      <4> SUFFICES ASSUME probe'.healthy PROVE Passed' \subseteq up \cup moved \cup {"database"}
        OBVIOUS
      <4>1. probe.healthy /\ status = "HEALTHY"
        BY <3>1 DEF StillHealthy
      <4>2. order[at + 1] \in up \cup {"database"}
        BY <4>1, <2>1, <3>2, <3>3, HealthyIsUp
      <4>3. Passed' = Passed \cup {order[at + 1]}
        <5>1. Passed' = {order[k] : k \in 1..(at + 1)} /\ Passed = {order[k] : k \in 1..at}
          BY <2>2, <3>1, <3>3 DEF Passed
        <5> QED BY <5>1, <3>3
      <4> QED BY <4>1, <4>2, <4>3, <1>0 DEF ProbeInv
    <3>6. probe.op # "none" /\ Len(rest) <= probe.size
      BY <2>2, <3>2, <1>0, <1>a DEF ProbeInv
    <3> QED
      BY <2>2, <2>4, <3>1, <3>4, <3>5, <3>6, <1>0 DEF ProbeInv
  <2> QED BY <2>3, <2>4
<1>5. \/ \E n \in Deployed : register(n)
      \/ ProbeStarts \/ ProbeStep
      \/ UNCHANGED <<order, probe>> /\ up \cup moved \subseteq up' \cup moved'
  BY DEF LifeNext, Start, StartFails, Stop, StopFails, CallRegistry, Begin, lifeVars
<1> QED BY <1>1, <1>2, <1>3, <1>4, <1>5

\* Modules over starts, failures and stops (module_registry.py): whatever is
\* deployed and whatever its hooks raise, a shutdown leaves nothing running but
\* what failed, an instance is built again only after a failure, and the health
\* report never says better than the modules are.
THEOREM LifeCorrect == LifeSpec => LifeSafe
<1>1. LifeInit => LifeInv
  <2> SUFFICES ASSUME LifeInit PROVE LifeInv
    OBVIOUS
  <2>1. /\ Idle \in Calls({"none", "initialize", "shutdown"}) /\ Idle \in Calls({"none", "health"})
        /\ Idle.op = "none" /\ Idle.todo = <<>> /\ Idle.size = 0 /\ Len(Idle.todo) = 0
    BY DEF Idle, Calls
  <2>2. LifeTypes
    <3>1. <<>> \in Seq(Deployed) /\ <<>> \in Seq({"initialize", "shutdown"})
      BY EmptySeq
    <3> QED BY <2>1, <3>1 DEF LifeInit, LifeTypes
  <2>3. OrderInv
    BY DEF LifeInit, OrderInv, EmptyDict
  <2>4. WorkInv
    BY <2>1 DEF LifeInit, WorkInv
  <2>5. ProbeInv
    BY <2>1 DEF LifeInit, ProbeInv, Passed
  <2> QED BY <2>2, <2>3, <2>4, <2>5 DEF LifeInv
<1>2. LifeInv /\ [LifeNext]_lifeVars => LifeInv'
  BY LifeTypesKept, OrderKept, WorkKept, ProbeKept DEF LifeInv
<1>3. LifeInv => LifeTypeOK /\ LeavesNothingRunning
  <2> SUFFICES ASSUME LifeInv PROVE LifeTypeOK /\ LeavesNothingRunning
    OBVIOUS
  <2>1. LifeTypeOK
    BY DEF LifeInv, LifeTypes, OrderInv, WorkInv, LifeTypeOK, Occurs, Calls
  <2>2. LeavesNothingRunning
    BY DEF LifeInv, WorkInv, LeavesNothingRunning, Idle
  <2> QED BY <2>1, <2>2
<1>4. LifeInv /\ [LifeNext]_lifeVars =>
        [\A n \in up : AtHook("initialize", n) /\ work' # work => n \in orphans \cup unstopped]_lifeVars
  <2> SUFFICES ASSUME LifeInv, NEW n \in up, AtHook("initialize", n) PROVE n \in orphans \cup unstopped
    OBVIOUS
  <2>1. work.op = "initialize" /\ Occurs(n, work.todo)
    BY AtHookFacts
  <2> QED BY <2>1 DEF LifeInv, WorkInv
<1>5. LifeInv /\ [LifeNext]_lifeVars =>
        [report' = "UP" /\ report # "UP" =>
           \A k \in DOMAIN order : order[k] \in up \cup moved \cup {"database"}]_lifeVars
  <2> SUFFICES ASSUME LifeInv, [LifeNext]_lifeVars, report' = "UP", report # "UP",
                      NEW k \in DOMAIN order
               PROVE order[k] \in up \cup moved \cup {"database"}
    OBVIOUS
  <2>1. ProbeStarts \/ ProbeStep
    BY DEF LifeNext, register, Start, StartFails, Stop, StopFails, CallRegistry, Begin, lifeVars
  <2>2. CASE ProbeStarts
    BY <2>2 DEF ProbeStarts
  <2>3. CASE ProbeStep
    <3>1. PICK status \in HealthOf(Head(probe.todo)) :
            StillHealthy(probe.healthy, status) /\ ~Grown(probe) /\ Tail(probe.todo) = <<>>
      BY <2>3 DEF ProbeStep
    <3>2. /\ order \in Seq(Deployed) /\ Len(order) \in Nat /\ DOMAIN order = 1..Len(order)
          /\ probe.todo \in Seq(Deployed) /\ probe.todo # <<>> /\ probe.size \in Nat
      BY <2>3, LenProperties DEF ProbeStep, LifeInv, LifeTypes, Calls
    <3>3. Len(probe.todo) = 1 /\ Head(probe.todo) = probe.todo[1] /\ Head(probe.todo) \in Deployed
      <4>0. Tail(probe.todo) = <<>>
        BY <3>1
      <4>1. \A t : t = <<>> => Len(t) = 0
        OBVIOUS
      <4>2. Len(Tail(probe.todo)) = Len(probe.todo) - 1 /\ Len(probe.todo) \in Nat
            /\ Head(probe.todo) = probe.todo[1] /\ Head(probe.todo) \in Deployed
        BY <3>2, TailOf
      <4>3. Len(Tail(probe.todo)) = 0
        BY <4>0, <4>1, Zenon
      <4> QED BY <4>2, <4>3
    <3>4. probe.size = Len(order) /\ probe.todo[1] = order[Len(order)]
      BY <3>1, <3>2, <3>3 DEF Grown, LifeInv, ProbeInv
    <3>5. CASE k = Len(order)
      BY <3>1, <3>3, <3>4, <3>5, HealthyIsUp DEF StillHealthy
    <3>6. CASE k # Len(order)
      <4>1. k \in 1..(probe.size - Len(probe.todo))
        BY <3>2, <3>3, <3>4, <3>6
      <4>2. order[k] \in Passed
        BY <4>1 DEF Passed
      <4> QED BY <4>2, <3>1 DEF StillHealthy, LifeInv, ProbeInv
    <3> QED BY <3>5, <3>6
  <2> QED BY <2>1, <2>2, <2>3
<1> QED
  BY <1>1, <1>2, <1>3, <1>4, <1>5, PTL
  DEF LifeSpec, LifeSafe, RebuiltOnlyAfterFailure, HealthNeverFlatters

-----------------------------------------------------------------------------
(***************************************************************************)
(* The check of links.  Every entry of the resolver's cache was true of    *)
(* its host when it was made and has the life of its kind; the job has     *)
(* visited the hops of its chain and the link it is at, each once.         *)
(***************************************************************************)
DnsEntries ==
  [host : Hosts, ans : Addresses, at : 0..MaxLinkTime, ttl : {PositiveTtl, NegativeTtl}]

\* What the cache c may hold at the time now, when hosts had the addresses seen.
EntryOK(x, now_, seen) ==
  /\ x \in DnsEntries /\ x.at <= now_
  /\ x.ans # "none" => x.ttl = PositiveTtl /\ x.ans \in seen[x.host][x.at]

CacheOK(c, now_, seen) ==
  /\ c \in Seq(DnsEntries) /\ Len(c) <= CacheSize
  /\ \A i, j \in DOMAIN c : c[i].host = c[j].host => i = j
  /\ \A i \in DOMAIN c : EntryOK(c[i], now_, seen)

WorldOK ==
  /\ linkClock \in 0..MaxLinkTime /\ zone \in [Hosts -> Addresses]
  /\ shown \in [Hosts -> [0..MaxLinkTime -> SUBSET Addresses]]
  /\ \A h \in Hosts : zone[h] \in shown[h][linkClock]
  /\ CacheOK(dns, linkClock, shown)

Jobs ==
  [pc : {"idle", "check", "request", "sandbox", "done"}, at : Nat,
   hops : Seq([link : Links, safe : BOOLEAN]), visited : SUBSET Links, loop : BOOLEAN,
   lost : BOOLEAN, eager : BOOLEAN, sandbox : {"SKIPPED", "UNAVAILABLE", "SUCCESS", "FAILED"},
   since : Nat]

\* Hops that follow one another and come once each.
Linked(s) ==
  /\ \A i \in 1..(Len(s) - 1) :
       s[i].safe /\ Target[s[i].link] # 0 /\ s[i + 1].link = NextLink(s[i].link)
  /\ \A i, j \in 1..Len(s) : s[i].link = s[j].link => i = j

LinksOf(s) == {s[i].link : i \in 1..Len(s)}

\* On its way the job is where the last hop leads, for the first time.
OnItsWay(j) ==
  /\ j.at \in Links /\ j.at \notin LinksOf(j.hops) /\ j.visited = LinksOf(j.hops) \cup {j.at}
  /\ Len(j.hops) < MaxHops /\ ~j.loop /\ ~j.lost
  /\ j.hops # <<>> => /\ LastHop(j.hops).safe /\ Target[LastHop(j.hops).link] # 0
                      /\ j.at = NextLink(LastHop(j.hops).link)

\* Why a chain ends where it does.
EndsRightly(j) ==
  LET n == Len(j.hops) l == j.hops[n].link IN
  /\ n > 0
  /\ j.loop => Target[l] # 0 /\ NextLink(l) \in LinksOf(j.hops)
  /\ (j.hops[n].safe /\ ~j.loop /\ ~j.lost /\ n < MaxHops) => Target[l] = 0

JobOK(j) ==
  /\ j \in Jobs /\ Linked(j.hops) /\ Len(j.hops) <= MaxHops
  /\ j.pc \in {"check", "request"} => OnItsWay(j)
  /\ j.pc = "sandbox" \/ (j.pc = "done" /\ j.hops # <<>>) => EndsRightly(j)
  /\ j.pc # "done" => j.sandbox = "SKIPPED"
  /\ j.sandbox = "SUCCESS" => j.hops # <<>>
  /\ j.pc = "idle" => j = NoJob

LinkInv ==
  /\ WorldOK /\ JobOK(job) /\ job.since <= linkClock /\ ReachedWasPublic

\* The invariant gives the properties.
LEMMA LinkInvSuffices == LinkInv => LinksSound
<1> SUFFICES ASSUME LinkInv PROVE LinksSound
  OBVIOUS
<1> USE LinkAssumption, RedirectAssumption
<1>1. LinkTypeOK
  BY DEF LinkInv, WorldOK, CacheOK, JobOK, Jobs, LinkTypeOK
<1>2. ChainIsExact
  <2> SUFFICES ASSUME job.pc \in {"sandbox", "done"}, job.hops # <<>> PROVE ChainIsExact
    BY DEF ChainIsExact
  <2>1. Linked(job.hops) /\ EndsRightly(job)
    BY DEF LinkInv, JobOK
  <2>2. Len(job.hops) \in Nat
    BY LenProperties DEF LinkInv, JobOK, Jobs
  <2> QED BY <2>1, <2>2 DEF ChainIsExact, Linked, EndsRightly, LinksOf
<1> QED BY <1>1, <1>2 DEF LinkInv, LinksSound

\* Deleting the only entry of a host leaves a sound cache without it.
LEMMA WithoutKeeps ==
  ASSUME WorldOK, NEW h
  PROVE /\ CacheOK(DnsWithout(h), linkClock, shown)
        /\ \A i \in DOMAIN DnsWithout(h) : DnsWithout(h)[i].host # h
        /\ Len(DnsWithout(h)) = IF AnswersOf(h) = {} THEN Len(dns) ELSE Len(dns) - 1
<1>0. /\ dns \in Seq(DnsEntries) /\ Len(dns) \in Nat /\ DOMAIN dns = 1..Len(dns)
      /\ CacheOK(dns, linkClock, shown)
  BY LenProperties DEF WorldOK, CacheOK
<1>1. CASE AnswersOf(h) = {}
  BY <1>1, <1>0 DEF DnsWithout, AnswersOf
<1>2. CASE AnswersOf(h) # {}
  <2>1. PICK k : k = (CHOOSE i \in AnswersOf(h) : TRUE)
    OBVIOUS
  <2>2. k \in 1..Len(dns) /\ dns[k].host = h
    BY <1>0, <1>2, <2>1 DEF AnswersOf
  <2>3. PICK c : c = [i \in 1..(Len(dns) - 1) |-> IF i < k THEN dns[i] ELSE dns[i + 1]]
    OBVIOUS
  <2>4. DnsWithout(h) = c
    BY <1>2, <2>1, <2>3 DEF DnsWithout, DelAt
  <2>5. Len(dns) - 1 \in Nat /\ \A i \in 1..Len(dns) : dns[i] \in DnsEntries
    BY <1>0, <2>2, ElementOfSeq
  <2>6. c \in [1..(Len(dns) - 1) -> DnsEntries]
    BY <2>3, <2>5
  <2>7. c \in Seq(DnsEntries) /\ Len(c) = Len(dns) - 1 /\ DOMAIN c = 1..(Len(dns) - 1)
    BY <2>5, <2>6, IsASeq, LenProperties
  <2> DEFINE from(i) == IF i < k THEN i ELSE i + 1
  <2>8. \A i \in DOMAIN c : from(i) \in DOMAIN dns /\ from(i) # k /\ c[i] = dns[from(i)]
    BY <2>7, <2>3, <2>2, <1>0
  <2>9. \A i, j \in DOMAIN c : from(i) = from(j) => i = j
    BY <2>7, <2>2
  <2> HIDE DEF from
  <2>10. \A i, j \in DOMAIN c : c[i].host = c[j].host => i = j
    BY <2>8, <2>9, <1>0 DEF CacheOK
  <2>11. \A i \in DOMAIN c : EntryOK(c[i], linkClock, shown) /\ c[i].host # h
    BY <2>8, <2>2, <1>0 DEF CacheOK
  <2>12. Len(c) <= CacheSize
    BY <2>7, <1>0, LinkAssumption DEF CacheOK
  <2> QED BY <2>4, <2>7, <2>10, <2>11, <2>12, <1>2 DEF CacheOK
<1> QED BY <1>1, <1>2

\* A sound cache with room takes an entry for a host it does not have.
LEMMA AppendKeeps ==
  ASSUME NEW c, NEW t, NEW seen, CacheOK(c, t, seen), NEW x, EntryOK(x, t, seen),
         \A i \in DOMAIN c : c[i].host # x.host, Len(c) < CacheSize
  PROVE CacheOK(Append(c, x), t, seen)
<1>1. c \in Seq(DnsEntries) /\ x \in DnsEntries /\ Len(c) \in Nat /\ DOMAIN c = 1..Len(c)
  BY LenProperties DEF CacheOK, EntryOK
<1>2. PICK d : d = Append(c, x)
  OBVIOUS
<1>3. /\ d \in Seq(DnsEntries) /\ Len(d) = Len(c) + 1 /\ DOMAIN d = 1..(Len(c) + 1)
      /\ d[Len(c) + 1] = x /\ \A i \in 1..Len(c) : d[i] = c[i]
  BY <1>1, <1>2, AppendProperties, LenProperties
<1>4. \A i \in DOMAIN d : EntryOK(d[i], t, seen)
  BY <1>1, <1>3 DEF CacheOK
<1>5. \A i, j \in DOMAIN d : d[i].host = d[j].host => i = j
  BY <1>1, <1>3 DEF CacheOK
<1>6. Len(d) <= CacheSize
  BY <1>1, <1>3, LinkAssumption
<1> QED BY <1>2, <1>3, <1>4, <1>5, <1>6 DEF CacheOK

\* A sound cache without its oldest entry is sound, and has room.
LEMMA TailKeeps ==
  ASSUME NEW c, NEW t, NEW seen, CacheOK(c, t, seen), Len(c) >= CacheSize
  PROVE /\ CacheOK(Tail(c), t, seen) /\ Len(Tail(c)) < CacheSize
        /\ \A i \in DOMAIN Tail(c) : \E k \in DOMAIN c : Tail(c)[i] = c[k]
<1>1. c \in Seq(DnsEntries) /\ Len(c) \in Nat /\ DOMAIN c = 1..Len(c) /\ Len(c) = CacheSize /\ Len(c) > 0
  BY LenProperties, LinkAssumption DEF CacheOK
<1>2. c # <<>>
  BY <1>1
<1>3. PICK d : d = Tail(c)
  OBVIOUS
<1>4. /\ d \in Seq(DnsEntries) /\ Len(d) = Len(c) - 1 /\ DOMAIN d = 1..(Len(c) - 1)
      /\ \A i \in 1..(Len(c) - 1) : d[i] = c[i + 1]
  BY <1>1, <1>2, <1>3, HeadTailProperties, LenProperties
<1>5. \A i \in DOMAIN d : i + 1 \in DOMAIN c /\ d[i] = c[i + 1]
  BY <1>1, <1>4
<1>6. \A i \in DOMAIN d : EntryOK(d[i], t, seen)
  BY <1>5 DEF CacheOK
<1>7. \A i, j \in DOMAIN d : d[i].host = d[j].host => i = j
  <2> SUFFICES ASSUME NEW i \in DOMAIN d, NEW j \in DOMAIN d, d[i].host = d[j].host PROVE i = j
    OBVIOUS
  <2>1. i + 1 = j + 1
    BY <1>5 DEF CacheOK
  <2> QED BY <2>1, <1>4
<1>8. Len(d) < CacheSize
  BY <1>1, <1>4
<1> QED BY <1>3, <1>4, <1>5, <1>6, <1>7, <1>8, <1>1 DEF CacheOK

\* A check leaves a sound cache, and answers "public" only for a host that was
\* public at most PositiveTtl ago.
LEMMA ChecksAreSound ==
  ASSUME WorldOK, NEW l \in Links, NEW r \in Checks(l)
  PROVE /\ CacheOK(r.cache, linkClock, shown)
        /\ r.ans = "public" => \E t \in 0..linkClock : linkClock - t <= PositiveTtl /\ "public" \in shown[Host[l]][t]
<1> DEFINE h == Host[l]
<1> USE LinkAssumption
<1>0. h \in Hosts /\ linkClock \in 0..MaxLinkTime /\ MaxLinkTime \in Nat /\ linkClock \in Nat
      /\ zone[h] \in Addresses /\ zone[h] \in shown[h][linkClock]
  BY DEF WorldOK, Hosts
<1>d. dns \in Seq(DnsEntries) /\ Len(dns) \in Nat /\ DOMAIN dns = 1..Len(dns)
      /\ CacheOK(dns, linkClock, shown) /\ Len(dns) <= CacheSize
  BY LenProperties DEF WorldOK, CacheOK
<1> DEFINE Good(c) == CacheOK(c, linkClock, shown)
           Recent == \E t \in 0..linkClock : linkClock - t <= PositiveTtl /\ "public" \in shown[h][t]
<1>z. zone[h] = "public" => Recent
  BY <1>0
<1>1. ASSUME NEW x \in FreshAnswers(h)
      PROVE Good(DnsHit(x)) /\ (x.ans = "public" => Recent)
  <2>1. PICK k \in AnswersOf(h) : x = dns[k] /\ ~DnsExpired(dns[k])
    BY <1>1 DEF FreshAnswers
  <2>2. k \in DOMAIN dns /\ x.host = h /\ EntryOK(x, linkClock, shown) /\ AnswersOf(h) # {}
    BY <2>1, <1>d DEF AnswersOf, CacheOK
  <2>3. Good(DnsWithout(h)) /\ Len(DnsWithout(h)) = Len(dns) - 1
        /\ \A i \in DOMAIN DnsWithout(h) : DnsWithout(h)[i].host # h
    BY <2>2, WithoutKeeps
  <2>4. Len(DnsWithout(h)) < CacheSize
    BY <2>3, <1>d
  <2>5. Good(DnsHit(x))
    BY <2>2, <2>3, <2>4, AppendKeeps DEF DnsHit
  <2>6. ASSUME x.ans = "public" PROVE Recent
    <3>1. x.ttl = PositiveTtl /\ "public" \in shown[h][x.at] /\ x.at \in 0..linkClock
      BY <2>2, <2>6, <1>0 DEF EntryOK, DnsEntries
    <3>2. linkClock - x.at <= PositiveTtl
      BY <2>1, <3>1, <1>0 DEF DnsExpired
    <3> QED BY <3>1, <3>2
  <2> QED BY <2>5, <2>6
<1>2. ASSUME NEW a \in {zone[h], "none"} PROVE Good(PutInCache(NewEntry(h, a)))
  <2>1. PICK x : x = NewEntry(h, a)
    OBVIOUS
  <2>2. x.host = h /\ EntryOK(x, linkClock, shown)
    BY <2>1, <1>0, <1>2 DEF NewEntry, EntryOK, DnsEntries, Addresses
  <2>3. PICK kept : kept = DnsWithout(h)
    OBVIOUS
  <2>4. Good(kept) /\ \A i \in DOMAIN kept : kept[i].host # h
    BY <2>3, WithoutKeeps
  <2>5. Len(kept) \in Nat
    BY <2>4, LenProperties DEF CacheOK
  <2>6. CASE Len(kept) >= CacheSize
    <3>1. Good(Tail(kept)) /\ Len(Tail(kept)) < CacheSize /\ \A i \in DOMAIN Tail(kept) : Tail(kept)[i].host # h
      BY <2>4, <2>6, TailKeeps
    <3>2. Good(Append(Tail(kept), x))
      BY <2>2, <3>1, AppendKeeps
    <3> QED BY <2>1, <2>2, <2>3, <2>6, <3>2 DEF PutInCache
  <2>7. CASE ~(Len(kept) >= CacheSize)
    <3>1. Good(Append(kept, x))
      BY <2>2, <2>4, <2>5, <2>7, AppendKeeps
    <3> QED BY <2>1, <2>2, <2>3, <2>7, <3>1 DEF PutInCache
  <2> QED BY <2>6, <2>7
<1>3. \A q \in Resolutions(h) : Good(q.cache) /\ (q.ans = "public" => Recent)
  <2> TAKE q \in Resolutions(h)
  <2>1. CASE FreshAnswers(h) # {}
    <3>1. PICK x \in FreshAnswers(h) : q = [ans |-> x.ans, cache |-> DnsHit(x)]
      BY <2>1 DEF Resolutions
    <3> QED BY <3>1, <1>1
  <2>2. CASE FreshAnswers(h) = {}
    <3>1. PICK a \in {zone[h], "none"} : q = [ans |-> a, cache |-> PutInCache(NewEntry(h, a))]
      BY <2>2 DEF Resolutions
    <3> QED BY <3>1, <1>2, <1>z
  <2> QED BY <2>1, <2>2
<1> HIDE DEF Good, Recent
<1>4. CASE r \in Resolutions(h)
  BY <1>3, <1>4 DEF Good, Recent
<1>5. CASE r \notin Resolutions(h)
  <2>1. PICK a \in {zone[h], "none"}, q \in Resolutions(h) : r = [ans |-> a, cache |-> q.cache]
    BY <1>5 DEF Checks
  <2> QED BY <2>1, <1>3, <1>z DEF Good, Recent
<1> QED BY <1>4, <1>5

\* A set of numbers has a least one.
LEMMA LeastLink ==
  ASSUME NEW S \in SUBSET Nat, S # {} PROVE \E l \in S : \A k \in S : l <= k
<1>1. PICK l \in S : \A k \in S : ~(<<k, l>> \in OpToRel(<, Nat))
  BY WFMin, NatLessThanWellFounded, Zenon
<1>2. ASSUME NEW k \in S PROVE l <= k
  <2>1. ~(k < l)
    BY <1>1 DEF OpToRel
  <2> QED BY <2>1
<1> QED BY <1>2

\* The last of some hops.
LEMMA LastIsALink ==
  ASSUME NEW s \in Seq([link : Links, safe : BOOLEAN]), s # <<>>
  PROVE  Len(s) \in Nat \ {0} /\ LastHop(s).link \in Links
<1>1. Len(s) \in Nat \ {0}
  BY LenProperties, EmptySeq
<1>2. s[Len(s)] \in [link : Links, safe : BOOLEAN]
  <2>1. s \in [1..Len(s) -> [link : Links, safe : BOOLEAN]]
    BY LenProperties
  <2>2. Len(s) \in 1..Len(s)
    BY <1>1
  <2> QED BY <2>1, <2>2
<1> QED BY <1>1, <1>2 DEF LastHop

\* A hop more: the chain stays linked.
LEMMA HopAppended ==
  ASSUME NEW j, JobOK(j), OnItsWay(j), NEW ok \in BOOLEAN
  PROVE LET hops == Append(j.hops, Hop(j.at, ok)) IN
        /\ hops \in Seq([link : Links, safe : BOOLEAN]) /\ hops # <<>> /\ Linked(hops)
        /\ Len(hops) = Len(j.hops) + 1 /\ Len(hops) \in Nat /\ Len(hops) <= MaxHops
        /\ hops[Len(hops)] = Hop(j.at, ok)
        /\ LinksOf(hops) = LinksOf(j.hops) \cup {j.at}
<1>1. j.hops \in Seq([link : Links, safe : BOOLEAN]) /\ Hop(j.at, ok) \in [link : Links, safe : BOOLEAN]
  BY DEF JobOK, Jobs, OnItsWay, Hop
<1>2. PICK s, n, x, t : s = j.hops /\ n = Len(j.hops) /\ x = Hop(j.at, ok) /\ t = Append(j.hops, Hop(j.at, ok))
  OBVIOUS
<1>3. /\ n \in Nat /\ t \in Seq([link : Links, safe : BOOLEAN]) /\ Len(t) = n + 1 /\ t[n + 1] = x
      /\ \A i \in 1..n : t[i] = s[i]
  BY <1>1, <1>2, AppendProperties, LenProperties
<1>4. x.link = j.at /\ x.safe = ok
  BY <1>2 DEF Hop
<1>5. LinksOf(t) = LinksOf(s) \cup {j.at}
  <2>1. LinksOf(t) = {t[i].link : i \in 1..(n + 1)} /\ LinksOf(s) = {s[i].link : i \in 1..n}
    BY <1>2, <1>3 DEF LinksOf
  <2>2. {t[i].link : i \in 1..(n + 1)} = {s[i].link : i \in 1..n} \cup {j.at}
    BY <1>3, <1>4
  <2> QED BY <2>1, <2>2
<1>6. Linked(s) /\ Len(s) = n
  BY <1>2 DEF JobOK
<1>7. ASSUME NEW i \in 1..n PROVE t[i].safe /\ Target[t[i].link] # 0 /\ t[i + 1].link = NextLink(t[i].link)
  <2>1. CASE i < n
    <3>1. i \in 1..(n - 1) /\ i + 1 \in 1..n
      BY <2>1, <1>3
    <3>2. s[i].safe /\ Target[s[i].link] # 0 /\ s[i + 1].link = NextLink(s[i].link)
      BY <3>1, <1>6 DEF Linked
    <3> QED BY <3>1, <3>2, <1>3
  <2>2. CASE i = n
    <3>1. s # <<>>
      BY <2>2, <1>2, <1>3, <1>7
    <3>2. s[n].safe /\ Target[s[n].link] # 0 /\ j.at = NextLink(s[n].link)
      BY <3>1, <1>2 DEF OnItsWay, LastHop
    <3> QED BY <2>2, <3>2, <1>3, <1>4
  <2> QED BY <2>1, <2>2, <1>3
<1>8. ASSUME NEW i \in 1..(n + 1), NEW k \in 1..(n + 1), t[i].link = t[k].link PROVE i = k
  <2>1. \A m \in 1..n : t[m].link # j.at
    BY <1>2, <1>3 DEF OnItsWay, LinksOf
  <2>2. CASE i \in 1..n /\ k \in 1..n
    <3>1. s[i].link = s[k].link
      BY <2>2, <1>3, <1>8
    <3> QED BY <3>1, <2>2, <1>6 DEF Linked
  <2>3. CASE i = n + 1
    BY <2>1, <2>3, <1>3, <1>4, <1>8
  <2>4. CASE k = n + 1
    BY <2>1, <2>4, <1>3, <1>4, <1>8
  <2> QED BY <2>2, <2>3, <2>4, <1>3
<1>9. Linked(t)
  BY <1>3, <1>7, <1>8 DEF Linked
<1>10. n < MaxHops
  BY <1>2 DEF OnItsWay
<1>11. t # <<>>
  BY <1>3
<1> QED BY <1>2, <1>3, <1>5, <1>9, <1>10, <1>11, LinkAssumption

\* Time and new addresses only add to what hosts have shown up to now.
LEMMA WorldSteps ==
  ASSUME WorldOK, (\E h \in Hosts, a \in Addresses : Rezone(h, a)) \/ LinkTick
  PROVE /\ WorldOK' /\ linkClock' >= linkClock /\ job' = job
        /\ \A h \in Hosts : \A t \in 0..linkClock : shown[h][t] \subseteq shown'[h][t]
<1> USE LinkAssumption
<1>0. /\ linkClock \in 0..MaxLinkTime /\ MaxLinkTime \in Nat /\ zone \in [Hosts -> Addresses]
      /\ shown \in [Hosts -> [0..MaxLinkTime -> SUBSET Addresses]]
      /\ \A h \in Hosts : zone[h] \in shown[h][linkClock]
  BY DEF WorldOK
<1>1. ASSUME \A h \in Hosts : \A t \in 0..linkClock : shown[h][t] \subseteq shown'[h][t],
             linkClock' \in 0..MaxLinkTime, linkClock' >= linkClock, dns' = dns
      PROVE CacheOK(dns', linkClock', shown')
  <2>1. ASSUME NEW x, EntryOK(x, linkClock, shown) PROVE EntryOK(x, linkClock', shown')
    <3>1. x.host \in Hosts /\ x.at \in 0..linkClock
      BY <2>1, <1>0 DEF EntryOK, DnsEntries
    <3> QED BY <2>1, <3>1, <1>1, <1>0 DEF EntryOK
  <2> QED BY <2>1, <1>1 DEF WorldOK, CacheOK
<1>2. ASSUME NEW h \in Hosts, NEW a \in Addresses, Rezone(h, a)
      PROVE /\ WorldOK' /\ linkClock' >= linkClock /\ job' = job
            /\ \A g \in Hosts : \A t \in 0..linkClock : shown[g][t] \subseteq shown'[g][t]
  <2>1. /\ zone' = [zone EXCEPT ![h] = a] /\ dns' = dns /\ job' = job /\ linkClock' = linkClock
        /\ shown' = [shown EXCEPT ![h] = [shown[h] EXCEPT ![linkClock] = shown[h][linkClock] \cup {a}]]
    BY <1>2 DEF Rezone
  <2>2. zone' \in [Hosts -> Addresses] /\ shown' \in [Hosts -> [0..MaxLinkTime -> SUBSET Addresses]]
    BY <2>1, <1>0
  <2>3. \A g \in Hosts : \A t \in 0..linkClock : shown[g][t] \subseteq shown'[g][t]
    BY <2>1, <1>0
  <2>4. \A g \in Hosts : zone'[g] \in shown'[g][linkClock']
    BY <2>1, <1>0
  <2>5. CacheOK(dns', linkClock', shown')
    BY <2>1, <2>3, <1>0, <1>1
  <2> QED BY <2>1, <2>2, <2>3, <2>4, <2>5, <1>0 DEF WorldOK
<1>3. CASE LinkTick
  <2>1. /\ zone' = zone /\ dns' = dns /\ job' = job /\ linkClock' = linkClock + 1 /\ linkClock < MaxLinkTime
        /\ shown' = [h \in Hosts |-> [shown[h] EXCEPT ![linkClock + 1] = {zone[h]}]]
    BY <1>3 DEF LinkTick
  <2>2. linkClock' \in 0..MaxLinkTime /\ linkClock' >= linkClock
    BY <2>1, <1>0
  <2>3. shown' \in [Hosts -> [0..MaxLinkTime -> SUBSET Addresses]]
    <3>1. \A h \in Hosts : [shown[h] EXCEPT ![linkClock + 1] = {zone[h]}] \in [0..MaxLinkTime -> SUBSET Addresses]
      BY <1>0
    <3> QED BY <2>1, <3>1
  <2>4. \A g \in Hosts : \A t \in 0..linkClock : shown[g][t] \subseteq shown'[g][t]
    BY <2>1, <1>0
  <2>5. \A g \in Hosts : zone'[g] \in shown'[g][linkClock']
    BY <2>1, <2>2, <1>0
  <2>6. CacheOK(dns', linkClock', shown')
    BY <2>1, <2>2, <2>4, <1>0, <1>1
  <2> QED BY <2>1, <2>2, <2>3, <2>4, <2>5, <2>6, <1>0 DEF WorldOK
<1> QED BY <1>2, <1>3

\* The check of a mail's links (url_intelligence/), over any redirects, any names
\* that change their addresses at any time, and any sizes and lives of the cache:
\* the chain reported is exact, and what is requested or opened was public within
\* the life of a cache entry.
THEOREM LinksCorrect == LinkSpec => []LinksSound
<1> USE LinkAssumption
<1>j. NoJob \in Jobs /\ JobOK(NoJob)
  <2>1. NoJob \in Jobs
    BY EmptySeq DEF NoJob, Jobs
  <2>2. NoJob.hops = <<>> /\ Len(NoJob.hops) = 0 /\ NoJob.pc = "idle" /\ NoJob.sandbox = "SKIPPED"
    BY DEF NoJob
  <2> QED BY <2>1, <2>2 DEF JobOK, Linked
<1>1. LinkInit => LinkInv
  <2> SUFFICES ASSUME LinkInit PROVE LinkInv
    OBVIOUS
  <2>1. zone \in [Hosts -> Addresses]
    BY ZoneAssumption DEF LinkInit, Hosts, Addresses
  <2>2. shown \in [Hosts -> [0..MaxLinkTime -> SUBSET Addresses]]
    <3>1. \A h \in Hosts : [t \in 0..MaxLinkTime |-> IF t = 0 THEN {zone[h]} ELSE {}]
                             \in [0..MaxLinkTime -> SUBSET Addresses]
      BY <2>1
    <3> QED BY <3>1 DEF LinkInit
  <2>3. \A h \in Hosts : zone[h] \in shown[h][linkClock]
    BY DEF LinkInit
  <2>4. CacheOK(dns, linkClock, shown)
    <3>1. dns = <<>> /\ dns \in Seq(DnsEntries) /\ Len(dns) = 0 /\ DOMAIN dns = {}
      BY EmptySeq DEF LinkInit
    <3> QED BY <3>1 DEF CacheOK
  <2>5. job = NoJob /\ linkClock = 0 /\ job.since = 0 /\ job.pc = "idle" /\ job.sandbox = "SKIPPED"
    BY DEF LinkInit, NoJob
  <2> QED BY <2>1, <2>2, <2>3, <2>4, <2>5, <1>j DEF LinkInv, WorldOK, ReachedWasPublic
<1>2. LinkInv /\ [LinkNext]_linkVars => LinkInv'
  <2> SUFFICES ASSUME LinkInv, [LinkNext]_linkVars PROVE LinkInv'
    OBVIOUS
  <2>0. WorldOK /\ JobOK(job) /\ job.since <= linkClock /\ ReachedWasPublic /\ job \in Jobs
        /\ linkClock \in Nat /\ job.since \in Nat
    BY DEF LinkInv, JobOK, Jobs, WorldOK
  <2>w. ASSUME UNCHANGED <<zone, linkClock, shown>>, CacheOK(dns', linkClock, shown) PROVE WorldOK'
    BY <2>0, <2>w DEF WorldOK
  <2>v. ASSUME UNCHANGED <<zone, linkClock, shown, dns>> PROVE WorldOK'
    BY <2>0, <2>v, <2>w DEF WorldOK
  <2>1. ASSUME NEW links \in MailLinks, NEW eager \in BOOLEAN, AnalyzeUrls(links, eager) PROVE LinkInv'
    <3>1. WorldOK' /\ linkClock' = linkClock
      BY <2>1, <2>v DEF AnalyzeUrls
    <3>2. CASE links = {}
      <4>1. job' = [NoJob EXCEPT !.pc = "done"]
        BY <2>1, <3>2 DEF AnalyzeUrls
      <4>2. job' \in Jobs /\ job'.hops = <<>> /\ Len(job'.hops) = 0 /\ job'.pc = "done" /\ job'.sandbox = "SKIPPED"
            /\ job'.since = 0
        BY <4>1, <1>j DEF NoJob, Jobs
      <4>3. JobOK(job')
        BY <4>2 DEF JobOK, Linked
      <4> QED BY <4>2, <4>3, <3>1, <2>0 DEF LinkInv, ReachedWasPublic
    <3>3. CASE links # {}
      <4>1. PICK f : f = FirstLink(links)
        OBVIOUS
      <4>2. f \in links /\ f \in Links
        <5>1. links \subseteq Links /\ links \subseteq Nat
          BY RedirectAssumption
        <5>2. \E l \in links : \A k \in links : l <= k
          BY <5>1, <3>3, LeastLink
        <5> QED BY <5>1, <5>2, <4>1 DEF FirstLink
      <4>3. job' = [NoJob EXCEPT !.pc = "check", !.at = f, !.visited = {f}, !.eager = eager]
        BY <2>1, <3>3, <4>1 DEF AnalyzeUrls
      <4>4. /\ job'.hops = <<>> /\ Len(job'.hops) = 0 /\ job'.pc = "check" /\ job'.sandbox = "SKIPPED"
            /\ job'.since = 0 /\ job'.at = f /\ job'.visited = {f} /\ ~job'.loop /\ ~job'.lost
        BY <4>3 DEF NoJob
      <4>5. job' \in Jobs
        BY <4>2, <4>3, <1>j, RedirectAssumption DEF NoJob, Jobs
      <4>6. OnItsWay(job')
        BY <4>2, <4>4 DEF OnItsWay, LinksOf
      <4>7. JobOK(job')
        BY <4>4, <4>5, <4>6 DEF JobOK, Linked
      <4> QED BY <4>4, <4>7, <3>1, <2>0 DEF LinkInv, ReachedWasPublic
    <3> QED BY <3>2, <3>3
  <2>2. CASE CheckHop
    <3>1. PICK r \in Checks(job.at) :
            /\ dns' = r.cache
            /\ job' = IF r.ans = "public" THEN [job EXCEPT !.pc = "request", !.since = linkClock]
                      ELSE [job EXCEPT !.pc = "sandbox", !.hops = Append(@, Hop(job.at, FALSE))]
      BY <2>2 DEF CheckHop
    <3>2. OnItsWay(job) /\ job.at \in Links /\ job.pc = "check"
      BY <2>2, <2>0 DEF CheckHop, JobOK, OnItsWay
    <3>3. CacheOK(dns', linkClock, shown)
      BY <3>1, <3>2, <2>0, ChecksAreSound
    <3>4. WorldOK' /\ linkClock' = linkClock /\ shown' = shown
      BY <2>2, <3>3, <2>w DEF CheckHop
    <3>5. CASE r.ans = "public"
      <4>1. job' = [job EXCEPT !.pc = "request", !.since = linkClock]
        BY <3>1, <3>5
      <4>2. job' \in Jobs /\ job'.pc = "request" /\ job'.since = linkClock
            /\ UNCHANGED <<job.hops, job.at, job.visited, job.loop, job.lost, job.sandbox>>
        BY <4>1, <2>0 DEF Jobs
      <4>3. JobOK(job')
        BY <4>2, <3>2, <2>0 DEF JobOK, OnItsWay
      <4>4. WasPublic(job.at)'
        BY <4>2, <3>4, <3>1, <3>5, <3>2, <2>0, ChecksAreSound DEF WasPublic
      <4> QED BY <4>2, <4>3, <4>4, <3>4, <3>2, <2>0 DEF LinkInv, ReachedWasPublic, JobOK
    <3>6. CASE r.ans # "public"
      <4>1. job' = [job EXCEPT !.pc = "sandbox", !.hops = Append(@, Hop(job.at, FALSE))]
        BY <3>1, <3>6
      <4> DEFINE hops == Append(job.hops, Hop(job.at, FALSE))
      <4>2. /\ hops \in Seq([link : Links, safe : BOOLEAN]) /\ hops # <<>> /\ Linked(hops)
            /\ Len(hops) = Len(job.hops) + 1 /\ Len(hops) \in Nat /\ Len(hops) <= MaxHops
            /\ hops[Len(hops)] = Hop(job.at, FALSE)
        BY <2>0, <3>2, HopAppended
      <4>3. Len(hops) > 0 /\ ~hops[Len(hops)].safe
        BY <4>2, <2>0, LenProperties DEF Hop, Jobs
      <4> HIDE DEF hops
      <4>4. job' \in Jobs /\ job'.pc = "sandbox" /\ job'.since = job.since /\ job'.hops = hops
            /\ UNCHANGED <<job.at, job.visited, job.loop, job.lost, job.sandbox>>
        BY <4>1, <4>2, <2>0 DEF Jobs, hops
      <4>5. EndsRightly(job')
        BY <4>3, <4>4, <3>2 DEF EndsRightly, OnItsWay
      <4>6. job'.sandbox = "SKIPPED"
        BY <4>4, <3>2, <2>0 DEF JobOK
      <4>7. JobOK(job')
        BY <4>2, <4>4, <4>5, <4>6 DEF JobOK
      <4> QED BY <4>4, <4>6, <4>7, <3>4, <2>0 DEF LinkInv, ReachedWasPublic
    <3> QED BY <3>5, <3>6
  <2>3. CASE PinnedRequest
    <3> DEFINE hops == Append(job.hops, Hop(job.at, TRUE))
    <3>1. OnItsWay(job) /\ job.at \in Links /\ job.pc = "request" /\ job.sandbox = "SKIPPED"
      BY <2>3, <2>0 DEF PinnedRequest, JobOK, OnItsWay
    <3>2. WorldOK' /\ linkClock' = linkClock
      BY <2>3, <2>v DEF PinnedRequest
    <3>3. /\ hops \in Seq([link : Links, safe : BOOLEAN]) /\ hops # <<>> /\ Linked(hops)
          /\ Len(hops) = Len(job.hops) + 1 /\ Len(hops) \in Nat /\ Len(hops) <= MaxHops
          /\ hops[Len(hops)] = Hop(job.at, TRUE) /\ LinksOf(hops) = LinksOf(job.hops) \cup {job.at}
      BY <2>0, <3>1, HopAppended
    <3>4. /\ Len(hops) > 0 /\ hops[Len(hops)].safe /\ hops[Len(hops)].link = job.at
          /\ LinksOf(hops) = job.visited /\ LastHop(hops) = hops[Len(hops)] /\ ~job.loop /\ ~job.lost
      <4>1. Len(hops) > 0
        BY <3>3, LastIsALink
      <4>2. hops[Len(hops)].safe /\ hops[Len(hops)].link = job.at
        BY <3>3 DEF Hop
      <4>3. job.visited = LinksOf(job.hops) \cup {job.at} /\ ~job.loop /\ ~job.lost
        BY <3>1 DEF OnItsWay
      <4> QED BY <4>1, <4>2, <4>3, <3>3 DEF LastHop
    <3>5. \/ /\ Target[job.at] # 0 /\ NextLink(job.at) \in job.visited
             /\ job' = [job EXCEPT !.pc = "sandbox", !.hops = hops, !.loop = TRUE]
          \/ /\ Target[job.at] # 0 /\ NextLink(job.at) \notin job.visited
             /\ job' = [job EXCEPT !.pc = IF Len(hops) < MaxHops THEN "check" ELSE "sandbox",
                                   !.at = NextLink(job.at), !.visited = @ \cup {NextLink(job.at)}, !.hops = hops]
          \/ job' = [job EXCEPT !.pc = "sandbox", !.hops = hops, !.lost = Target[job.at] # 0]
      BY <2>3 DEF PinnedRequest
    <3>6. Target[job.at] # 0 => NextLink(job.at) \in Links
      BY <3>1, RedirectAssumption DEF NextLink
    <3> HIDE DEF hops
    <3>7. ASSUME job' \in Jobs, JobOK(job'), job'.since = job.since, job'.pc \in {"check", "sandbox"} PROVE LinkInv'
      <4>1. job'.sandbox = "SKIPPED"
        BY <3>7 DEF JobOK
      <4> QED BY <3>7, <4>1, <3>2, <2>0 DEF LinkInv, ReachedWasPublic
    <3>8. CASE /\ Target[job.at] # 0 /\ NextLink(job.at) \in job.visited
               /\ job' = [job EXCEPT !.pc = "sandbox", !.hops = hops, !.loop = TRUE]
      <4>1. /\ job' \in Jobs /\ job'.pc = "sandbox" /\ job'.hops = hops /\ job'.since = job.since
            /\ job'.loop /\ job'.sandbox = "SKIPPED"
        BY <3>8, <3>3, <3>1, <2>0 DEF Jobs
      <4>2. EndsRightly(job')
        BY <4>1, <3>4, <3>8 DEF EndsRightly
      <4> QED BY <4>1, <4>2, <3>3, <3>7 DEF JobOK
    <3>9. CASE /\ Target[job.at] # 0 /\ NextLink(job.at) \notin job.visited
               /\ job' = [job EXCEPT !.pc = IF Len(hops) < MaxHops THEN "check" ELSE "sandbox",
                                     !.at = NextLink(job.at), !.visited = @ \cup {NextLink(job.at)}, !.hops = hops]
      <4>1. PICK next : next = NextLink(job.at)
        OBVIOUS
      <4>2. next \in Links /\ next \in Nat /\ next \notin job.visited
        BY <4>1, <3>6, <3>9, RedirectAssumption
      <4>3. job' = [job EXCEPT !.pc = IF Len(hops) < MaxHops THEN "check" ELSE "sandbox",
                               !.at = next, !.visited = job.visited \cup {next}, !.hops = hops]
        BY <4>1, <3>9
      <4>4. /\ job' \in Jobs /\ job'.pc = (IF Len(hops) < MaxHops THEN "check" ELSE "sandbox")
            /\ job'.hops = hops /\ job'.since = job.since /\ job'.at = next
            /\ job'.visited = job.visited \cup {next} /\ job'.loop = job.loop /\ job'.lost = job.lost
            /\ job'.sandbox = "SKIPPED"
        BY <4>2, <4>3, <3>3, <3>1, <2>0 DEF Jobs
      <4>5. job'.pc = "check" => OnItsWay(job')
        BY <4>1, <4>2, <4>4, <3>3, <3>4, <3>9 DEF OnItsWay
      <4>6. job'.pc = "sandbox" => EndsRightly(job')
        BY <4>4, <3>3, <3>4 DEF EndsRightly
      <4>7. JobOK(job')
        BY <4>4, <4>5, <4>6, <3>3 DEF JobOK
      <4> QED BY <4>4, <4>7, <3>7
    <3>10. CASE job' = [job EXCEPT !.pc = "sandbox", !.hops = hops, !.lost = Target[job.at] # 0]
      <4>1. /\ job' \in Jobs /\ job'.pc = "sandbox" /\ job'.hops = hops /\ job'.since = job.since
            /\ job'.loop = job.loop /\ job'.lost = (Target[job.at] # 0) /\ job'.sandbox = "SKIPPED"
        BY <3>10, <3>3, <3>1, <2>0 DEF Jobs
      <4>2. EndsRightly(job')
        BY <4>1, <3>4 DEF EndsRightly
      <4> QED BY <4>1, <4>2, <3>3, <3>7 DEF JobOK
    <3> QED BY <3>5, <3>8, <3>9, <3>10
  <2>4. CASE Sandbox
    <3>1. job.pc = "sandbox" /\ EndsRightly(job) /\ job.hops # <<>> /\ job.sandbox = "SKIPPED"
      <4>1. job.pc = "sandbox" /\ EndsRightly(job) /\ job.sandbox = "SKIPPED"
        BY <2>4, <2>0 DEF Sandbox, JobOK
      <4>2. Len(job.hops) > 0
        BY <4>1 DEF EndsRightly
      <4> QED BY <4>1, <4>2
    <3>2. LastHop(job.hops).link \in Links
      BY <3>1, <2>0, LastIsALink DEF Jobs
    <3>3. ASSUME NEW v \in {"SKIPPED", "UNAVAILABLE", "SUCCESS", "FAILED"}, NEW t \in Nat,
                 job' = [job EXCEPT !.pc = "done", !.sandbox = v, !.since = t], t <= linkClock,
                 WorldOK', linkClock' = linkClock, v = "SUCCESS" => WasPublic(LastHop(job.hops).link)'
          PROVE LinkInv'
      <4>1. /\ job' \in Jobs /\ job'.pc = "done" /\ job'.sandbox = v /\ job'.since = t
            /\ UNCHANGED <<job.hops, job.at, job.visited, job.loop, job.lost>>
        BY <3>3, <2>0 DEF Jobs
      <4>2. JobOK(job')
        BY <4>1, <3>1, <2>0 DEF JobOK, EndsRightly
      <4> QED BY <4>1, <4>2, <3>3, <2>0 DEF LinkInv, ReachedWasPublic
    <3>4. CASE job' = [job EXCEPT !.pc = "done"] /\ UNCHANGED dns
      <4>1. job' = [job EXCEPT !.pc = "done", !.sandbox = "SKIPPED", !.since = job.since]
        BY <3>4, <3>1, <2>0 DEF Jobs
      <4>2. WorldOK' /\ linkClock' = linkClock
        BY <2>4, <3>4, <2>v DEF Sandbox
      <4> QED BY <4>1, <4>2, <3>3, <2>0
    <3>5. CASE job' = [job EXCEPT !.pc = "done", !.sandbox = "UNAVAILABLE"] /\ UNCHANGED dns
      <4>1. job' = [job EXCEPT !.pc = "done", !.sandbox = "UNAVAILABLE", !.since = job.since]
        BY <3>5, <2>0 DEF Jobs
      <4>2. WorldOK' /\ linkClock' = linkClock
        BY <2>4, <3>5, <2>v DEF Sandbox
      <4> QED BY <4>1, <4>2, <3>3, <2>0
    <3>6. ASSUME NEW r \in Checks(LastHop(job.hops).link), dns' = r.cache,
                 job' = [job EXCEPT !.pc = "done", !.since = linkClock,
                                    !.sandbox = IF r.ans = "public" THEN "SUCCESS" ELSE "FAILED"]
          PROVE LinkInv'
      <4>1. /\ CacheOK(r.cache, linkClock, shown)
            /\ r.ans = "public" => \E t \in 0..linkClock : linkClock - t <= PositiveTtl
                                     /\ "public" \in shown[Host[LastHop(job.hops).link]][t]
        BY <3>2, <3>6, <2>0, ChecksAreSound
      <4>2. WorldOK' /\ linkClock' = linkClock /\ shown' = shown
        BY <2>4, <3>6, <4>1, <2>w DEF Sandbox
      <4>3. PICK v : v = IF r.ans = "public" THEN "SUCCESS" ELSE "FAILED"
        OBVIOUS
      <4>4. job' = [job EXCEPT !.pc = "done", !.sandbox = v, !.since = linkClock]
        BY <3>6, <4>3, <2>0 DEF Jobs
      <4>5. job'.since = linkClock /\ job'.hops = job.hops
        BY <4>4, <2>0 DEF Jobs
      <4>6. v = "SUCCESS" => WasPublic(LastHop(job.hops).link)'
        BY <4>1, <4>2, <4>3, <4>5 DEF WasPublic
      <4>7. v \in {"SKIPPED", "UNAVAILABLE", "SUCCESS", "FAILED"} /\ linkClock <= linkClock /\ linkClock \in Nat
        BY <4>3, <2>0
      <4> QED BY <4>2, <4>4, <4>6, <4>7, <3>3, Zenon
    <3> QED BY <2>4, <3>4, <3>5, <3>6 DEF Sandbox
  <2>5. CASE ReportLinks
    <3>1. WorldOK' /\ linkClock' = linkClock /\ job' = NoJob
      BY <2>5, <2>v DEF ReportLinks
    <3>2. NoJob.since = 0 /\ NoJob.pc = "idle" /\ NoJob.sandbox = "SKIPPED"
      BY DEF NoJob
    <3> QED BY <3>1, <3>2, <2>0, <1>j DEF LinkInv, ReachedWasPublic
  <2>6. CASE (\E h \in Hosts, a \in Addresses : Rezone(h, a)) \/ LinkTick
    <3>1. /\ WorldOK' /\ linkClock' >= linkClock /\ job' = job
          /\ \A h \in Hosts : \A t \in 0..linkClock : shown[h][t] \subseteq shown'[h][t]
      BY <2>6, <2>0, WorldSteps
    <3>2. linkClock' \in Nat
      BY <3>1 DEF WorldOK
    <3>3. ASSUME NEW l \in Links, WasPublic(l)
          PROVE \E t \in 0..job.since : job.since - t <= PositiveTtl /\ "public" \in shown'[Host[l]][t]
      <4>1. PICK t \in 0..job.since : job.since - t <= PositiveTtl /\ "public" \in shown[Host[l]][t]
        BY <3>3 DEF WasPublic
      <4>2. t \in 0..linkClock /\ Host[l] \in Hosts
        BY <2>0 DEF Hosts
      <4> QED BY <4>1, <4>2, <3>1
    <3>4. ReachedWasPublic'
      <4>1. ASSUME job.pc = "request" PROVE WasPublic(job.at)'
        <5>1. job.at \in Links /\ WasPublic(job.at)
          BY <4>1, <2>0 DEF JobOK, OnItsWay, ReachedWasPublic
        <5> QED BY <5>1, <3>1, <3>3 DEF WasPublic
      <4>2. ASSUME job.sandbox = "SUCCESS" PROVE WasPublic(LastHop(job.hops).link)'
        <5>1. job.hops # <<>> /\ WasPublic(LastHop(job.hops).link)
          BY <4>2, <2>0 DEF JobOK, ReachedWasPublic
        <5>2. LastHop(job.hops).link \in Links
          BY <5>1, <2>0, LastIsALink DEF Jobs
        <5> QED BY <5>1, <5>2, <3>1, <3>3 DEF WasPublic
      <4> QED BY <4>1, <4>2, <3>1 DEF ReachedWasPublic
    <3> QED BY <3>1, <3>2, <3>4, <2>0 DEF LinkInv
  <2>7. CASE UNCHANGED linkVars
    BY <2>7 DEF linkVars, LinkInv, WorldOK, ReachedWasPublic, WasPublic
  <2> QED BY <2>1, <2>2, <2>3, <2>4, <2>5, <2>6, <2>7 DEF LinkNext
<1> QED
  BY <1>1, <1>2, LinkInvSuffices, PTL DEF LinkSpec

-----------------------------------------------------------------------------
(***************************************************************************)
(* What processes share through Redis.  The invariant is said store by     *)
(* store, so that it does not matter which stores a command reached: a     *)
(* lease that has not run out is in the store that gave it, the counter of *)
(* a bucket is at least what was granted there and outlives the bucket,    *)
(* and the mark of a mail outlives the TTL of each admission.              *)
(***************************************************************************)
RedisStores == Procs \cup {Server}
KeyedRecord(r) == r = [val |-> r.val, exp |-> r.exp] /\ r.exp \in Int

RedisTypes ==
  /\ rclock \in 0..MaxRedisTime /\ degraded \subseteq Procs
  /\ rstore = [s \in RedisStores |-> rstore[s]]
  /\ \A s \in RedisStores : \A x \in DOMAIN rstore[s] : KeyedRecord(rstore[s][x])
  /\ \A s \in Procs \ degraded : rstore[s] = EmptyDict
  /\ lock \in [Procs -> [acquired : BOOLEAN, at : Int, where : RedisStores, nth : 0..MaxAcquires]]
  /\ pendingTtl \in [Procs -> {Never} \cup Nat] /\ requests \in Nat
  /\ \A p \in Procs : pendingTtl[p] # Never => pendingTtl[p] <= Bucket

LeaseIn(p, st) ==
  LockKey \in DOMAIN st /\ st[LockKey].val = Token(p) /\ st[LockKey].exp >= lock[p].at + LeaseTtl

LeaseInv ==
  \A p \in Procs :
    /\ lock[p].acquired =>
         /\ lock[p].at \in 0..rclock
         /\ lock[p].where = Server \/ (lock[p].where = p /\ p \in degraded)
    /\ HoldsLease(p) => LeaseIn(p, rstore[lock[p].where])

GrantsOf(s, b) == {g \in granted : g.where = s /\ g.bucket = b}
Outlives(e, b) == \A t \in 0..MaxRedisTime : t \div BucketLength = b => t <= e

\* What the counter in a store says of what was granted there.
CounterOK(st, b, G) ==
  IF RateKey(b) \in DOMAIN st
  THEN st[RateKey(b)].val \in Nat /\ Cardinality(G) <= st[RateKey(b)].val /\ Outlives(st[RateKey(b)].exp, b)
  ELSE G = {}

RateInv ==
  /\ IsFiniteSet(granted)
  /\ \A g \in granted : g.at \in 0..rclock /\ g.bucket = g.at \div BucketLength /\ g.nth \in 1..requests
  /\ \A s \in RedisStores : \A b \in Nat :
       CounterOK(rstore[s], b, GrantsOf(s, b)) /\ Cardinality(GrantsOf(s, b)) <= BucketLimit

MarkedIn(a, st) == MailKey \in DOMAIN st /\ st[MailKey].exp >= a.at + MarkTtl

MarkInv ==
  /\ \A a \in admitted : a.where \in RedisStores /\ a.at \in 0..rclock /\ MarkedIn(a, rstore[a.where])
  /\ AdmittedOncePerTtl

RedisInv == RedisTypes /\ LeaseInv /\ RateInv /\ MarkInv

\* A command of p that takes a store s to F[s] was carried out by the stores T,
\* the one that answered among them.
Commanded(p, F) ==
  /\ degraded \subseteq degraded' /\ degraded' \subseteq degraded \cup {p}
  /\ \E T \in SUBSET {p, Server} :
       /\ AnsweredBy(p) \in T /\ (p \in T => p \in degraded')
       /\ rstore' = [s \in RedisStores |-> IF s \in T THEN F[s] ELSE rstore[s]]

SameAt(x, a, b) == (x \in DOMAIN a <=> x \in DOMAIN b) /\ (x \in DOMAIN a => b[x] = a[x])
OnlyAt(k, a, b) == \A x : x # k => SameAt(x, a, b)

\* The keys of the three uses are different.
LEMMA KeysDiffer ==
  /\ LockKey # MailKey
  /\ \A b : RateKey(b) # LockKey /\ RateKey(b) # MailKey
  /\ \A b, c : RateKey(b) = RateKey(c) => b = c
BY DEF LockKey, MailKey, RateKey

\* Windows of the limiter: a counter that is given two windows outlives its own.
LEMMA BucketsArePast ==
  \A t, c \in Nat : t \div BucketLength <= c \div BucketLength => t <= c + 2 * BucketLength
BY RedisAssumption

\* Windows are numbered from 0.
LEMMA BucketIsNat == \A t \in Nat : t \div BucketLength \in Nat
BY RedisAssumption

\* The window's number does not fall.
LEMMA BucketsGrow == \A t \in Nat : t \div BucketLength <= (t + 1) \div BucketLength
BY RedisAssumption

\* A span of a window's length lies in a window and the next one.
LEMMA SpanOfBuckets ==
  \A a \in Nat : \A t \in a..(a + BucketLength - 1) :
    t \div BucketLength = a \div BucketLength \/ t \div BucketLength = (a \div BucketLength) + 1
BY RedisAssumption

\* A command reaches the store that answers, and the server perhaps as well.
LEMMA CommandReaches ==
  ASSUME RedisTypes, NEW p \in Procs, NEW F,
         \/ /\ degraded' = degraded
            /\ rstore' = [rstore EXCEPT ![Where(p)] = F[Where(p)]]
         \/ /\ Degrades(p)
            /\ rstore' \in {[rstore EXCEPT ![p] = F[p]], [rstore EXCEPT ![p] = F[p], ![Server] = F[Server]]}
  PROVE  Commanded(p, F)
<1> USE ProcsAssumption
<1>0. rstore = [s \in RedisStores |-> rstore[s]] /\ p \in RedisStores /\ Server \in RedisStores
      /\ p # Server /\ DOMAIN rstore = RedisStores
  BY DEF RedisTypes, RedisStores
<1> DEFINE After(T) == [s \in RedisStores |-> IF s \in T THEN F[s] ELSE rstore[s]]
<1>1. CASE /\ degraded' = degraded
           /\ rstore' = [rstore EXCEPT ![Where(p)] = F[Where(p)]]
  <2>1. AnsweredBy(p) = Where(p) /\ Where(p) \in {p, Server} /\ (Where(p) = p => p \in degraded)
    BY <1>1, <1>0 DEF AnsweredBy, Where
  <2>2. rstore' = After({Where(p)})
    BY <1>1, <1>0, <2>1
  <2> QED BY <1>1, <2>1, <2>2 DEF Commanded
<1>2. CASE Degrades(p) /\ rstore' = [rstore EXCEPT ![p] = F[p]]
  <2>1. AnsweredBy(p) = p /\ degraded' = degraded \cup {p}
    BY <1>2 DEF AnsweredBy, Degrades
  <2>2. rstore' = After({p})
    BY <1>2, <1>0
  <2> QED BY <2>1, <2>2 DEF Commanded
<1>3. CASE Degrades(p) /\ rstore' = [rstore EXCEPT ![p] = F[p], ![Server] = F[Server]]
  <2>1. AnsweredBy(p) = p /\ degraded' = degraded \cup {p}
    BY <1>3 DEF AnsweredBy, Degrades
  <2>2. rstore' = After({p, Server})
    BY <1>3, <1>0
  <2> QED BY <2>1, <2>2 DEF Commanded
<1> QED BY <1>1, <1>2, <1>3

\* What every command does to the stores.
LEMMA StoresAfter ==
  ASSUME RedisTypes, NEW p \in Procs, NEW F, Commanded(p, F)
  PROVE  /\ degraded \subseteq degraded' /\ degraded' \subseteq Procs /\ degraded' \subseteq degraded \cup {p}
         /\ rstore' = [s \in RedisStores |-> rstore'[s]]
         /\ AnsweredBy(p) \in RedisStores /\ rstore'[AnsweredBy(p)] = F[AnsweredBy(p)]
         /\ AnsweredBy(p) = Server \/ (AnsweredBy(p) = p /\ p \in degraded')
         /\ \A s \in RedisStores : rstore'[s] = rstore[s] \/ rstore'[s] = F[s]
         /\ \A s \in Procs : s # p => rstore'[s] = rstore[s]
         /\ \A s \in Procs \ degraded' : rstore'[s] = EmptyDict
<1> USE ProcsAssumption
<1>1. PICK T \in SUBSET {p, Server} :
        /\ AnsweredBy(p) \in T /\ (p \in T => p \in degraded')
        /\ rstore' = [s \in RedisStores |-> IF s \in T THEN F[s] ELSE rstore[s]]
  BY DEF Commanded
<1>2. degraded \subseteq degraded' /\ degraded' \subseteq degraded \cup {p} /\ degraded' \subseteq Procs
  BY DEF Commanded, RedisTypes
<1>3. \A s \in RedisStores : rstore'[s] = IF s \in T THEN F[s] ELSE rstore[s]
  BY <1>1
<1>4. rstore' = [s \in RedisStores |-> rstore'[s]]
  BY <1>1
<1>5. AnsweredBy(p) \in {p, Server} /\ AnsweredBy(p) \in RedisStores
  BY <1>1 DEF RedisStores
<1>6. \A s \in Procs : s # p => s \notin T /\ s \in RedisStores
  BY <1>1 DEF RedisStores
<1>7. \A s \in Procs \ degraded' : rstore'[s] = EmptyDict
  <2> TAKE s \in Procs \ degraded'
  <2>1. s \notin T /\ s \in RedisStores /\ s \in Procs \ degraded
    BY <1>1, <1>2 DEF RedisStores
  <2> QED BY <2>1, <1>3 DEF RedisTypes
<1> QED BY <1>1, <1>2, <1>3, <1>4, <1>5, <1>6, <1>7

\* A command that leaves the lock's key alone leaves the leases alone.
LEMMA LeaseFrame ==
  ASSUME RedisInv, NEW p \in Procs, NEW F, Commanded(p, F), UNCHANGED <<rclock, lock>>,
         \A s \in RedisStores : SameAt(LockKey, rstore[s], F[s])
  PROVE  LeaseInv'
<1>0. RedisTypes /\ LeaseInv
  BY DEF RedisInv
<1>1. /\ degraded \subseteq degraded'
      /\ \A s \in RedisStores : rstore'[s] = rstore[s] \/ rstore'[s] = F[s]
  BY <1>0, StoresAfter
<1>2. \A q \in Procs : HoldsLease(q)' <=> HoldsLease(q)
  BY DEF HoldsLease
<1>3. ASSUME NEW q \in Procs, LeaseIn(q, rstore[lock[q].where]) PROVE LeaseIn(q, rstore[lock[q].where])'
  <2>1. lock[q].where \in RedisStores
    BY <1>0 DEF RedisTypes
  <2>2. SameAt(LockKey, rstore[lock[q].where], rstore'[lock[q].where])
    BY <1>1, <2>1 DEF SameAt
  <2> QED BY <1>3, <2>2 DEF LeaseIn, SameAt, Token
<1> QED BY <1>0, <1>1, <1>2, <1>3 DEF LeaseInv

\* A command that grants nothing and leaves every counter in order.
LEMMA RateFrame ==
  ASSUME RedisInv, NEW p \in Procs, NEW F, Commanded(p, F), UNCHANGED <<rclock, granted, requests>>,
         \A s \in RedisStores : \A b \in Nat : CounterOK(F[s], b, GrantsOf(s, b))
  PROVE  RateInv'
<1>0. RedisTypes /\ RateInv
  BY DEF RedisInv
<1>1. \A s \in RedisStores : rstore'[s] = rstore[s] \/ rstore'[s] = F[s]
  BY <1>0, StoresAfter
<1>2. ASSUME NEW s \in RedisStores, NEW b \in Nat
      PROVE (CounterOK(rstore[s], b, GrantsOf(s, b)) /\ Cardinality(GrantsOf(s, b)) <= BucketLimit)'
  <2>1. GrantsOf(s, b)' = GrantsOf(s, b)
    BY DEF GrantsOf
  <2>2. CounterOK(rstore[s], b, GrantsOf(s, b)) /\ Cardinality(GrantsOf(s, b)) <= BucketLimit
    BY <1>0 DEF RateInv
  <2>3. CounterOK(rstore'[s], b, GrantsOf(s, b))
    BY <1>1, <2>2
  <2> QED BY <2>1, <2>2, <2>3 DEF CounterOK
<1> QED BY <1>0, <1>2 DEF RateInv

\* A command that leaves the counters' keys alone.
LEMMA CountersSame ==
  ASSUME RedisInv, NEW F, NEW s \in RedisStores, NEW b \in Nat, SameAt(RateKey(b), rstore[s], F[s])
  PROVE  CounterOK(F[s], b, GrantsOf(s, b))
<1>1. CounterOK(rstore[s], b, GrantsOf(s, b))
  BY DEF RedisInv, RateInv
<1> QED BY <1>1 DEF CounterOK, SameAt

\* A command that admits nothing and takes no mark away.
LEMMA MarkFrame ==
  ASSUME RedisInv, NEW p \in Procs, NEW F, Commanded(p, F), UNCHANGED <<rclock, admitted>>,
         \A a \in admitted : MarkedIn(a, F[a.where])
  PROVE  MarkInv'
<1>0. RedisTypes /\ MarkInv
  BY DEF RedisInv
<1>1. \A s \in RedisStores : rstore'[s] = rstore[s] \/ rstore'[s] = F[s]
  BY <1>0, StoresAfter
<1>2. \A a \in admitted : MarkedIn(a, rstore[a.where])'
  <2> TAKE a \in admitted
  <2>1. MarkedIn(a, rstore[a.where]) /\ MarkedIn(a, F[a.where]) /\ a.where \in RedisStores
    BY <1>0 DEF MarkInv
  <2>2. MarkedIn(a, rstore'[a.where])
    BY <2>1, <1>1
  <2> QED BY <2>2 DEF MarkedIn
<1>3. AdmittedOncePerTtl'
  BY <1>0 DEF MarkInv, AdmittedOncePerTtl
<1> QED BY <1>0, <1>2, <1>3 DEF MarkInv

\* A command that leaves the mail's mark alone.
LEMMA MarksSame ==
  ASSUME RedisInv, NEW F, \A s \in RedisStores : SameAt(MailKey, rstore[s], F[s])
  PROVE  \A a \in admitted : MarkedIn(a, F[a.where])
BY DEF RedisInv, MarkInv, MarkedIn, SameAt

\* What the commands do to a store: one key changes, and its record is well made.
LEMMA CommandsAre ==
  ASSUME RedisTypes, NEW s \in RedisStores, NEW k, NEW v, NEW ttl \in Nat
  PROVE  LET st == rstore[s] IN
         /\ OnlyAt(k, st, SetNx(st, k, v, ttl).to) /\ OnlyAt(k, st, SetEx(st, k, v, ttl).to)
         /\ OnlyAt(k, st, CompareAndDelete(st, k, v).to)
         /\ OnlyAt(k, st, Incr(st, k).to) /\ OnlyAt(k, st, Expire(st, k, ttl).to)
         /\ \A x \in DOMAIN SetNx(st, k, v, ttl).to : KeyedRecord(SetNx(st, k, v, ttl).to[x])
         /\ \A x \in DOMAIN SetEx(st, k, v, ttl).to : KeyedRecord(SetEx(st, k, v, ttl).to[x])
         /\ \A x \in DOMAIN CompareAndDelete(st, k, v).to : KeyedRecord(CompareAndDelete(st, k, v).to[x])
         /\ \A x \in DOMAIN Incr(st, k).to : KeyedRecord(Incr(st, k).to[x])
         /\ \A x \in DOMAIN Expire(st, k, ttl).to : KeyedRecord(Expire(st, k, ttl).to[x])
<1>0. \A x \in DOMAIN rstore[s] : KeyedRecord(rstore[s][x])
  BY DEF RedisTypes
<1>t. rclock \in Int /\ ttl \in Int /\ rclock + ttl \in Int /\ Forever \in Int
  BY RedisAssumption DEF RedisTypes, Forever
<1>1. PICK st : st = rstore[s]
  OBVIOUS
<1>2. OnlyAt(k, st, SetNx(st, k, v, ttl).to) /\ OnlyAt(k, st, SetEx(st, k, v, ttl).to)
  BY DEF OnlyAt, SameAt, SetNx, SetEx, Put
<1>3. OnlyAt(k, st, CompareAndDelete(st, k, v).to)
  BY DEF OnlyAt, SameAt, CompareAndDelete, Drop
<1>4. OnlyAt(k, st, Incr(st, k).to)
  BY DEF OnlyAt, SameAt, Incr, Put
<1>5. OnlyAt(k, st, Expire(st, k, ttl).to)
  BY DEF OnlyAt, SameAt, Expire
<1>6. KeyedRecord([val |-> v, exp |-> rclock + ttl]) /\ KeyedRecord([val |-> 1, exp |-> Forever])
  BY <1>t DEF KeyedRecord
<1>7. \A x \in DOMAIN SetEx(st, k, v, ttl).to : KeyedRecord(SetEx(st, k, v, ttl).to[x])
  BY <1>0, <1>1, <1>6 DEF SetEx, Put
<1>8. \A x \in DOMAIN SetNx(st, k, v, ttl).to : KeyedRecord(SetNx(st, k, v, ttl).to[x])
  BY <1>0, <1>1, <1>6 DEF SetNx, Put
<1>9. \A x \in DOMAIN CompareAndDelete(st, k, v).to : KeyedRecord(CompareAndDelete(st, k, v).to[x])
  BY <1>0, <1>1 DEF CompareAndDelete, Drop
<1>10. \A x \in DOMAIN Incr(st, k).to : KeyedRecord(Incr(st, k).to[x])
  <2>1. ASSUME Alive(st, k) PROVE KeyedRecord([st[k] EXCEPT !.val = st[k].val + 1])
    <3>1. KeyedRecord(st[k])
      BY <1>0, <1>1, <2>1 DEF Alive
    <3>2. [st[k] EXCEPT !.val = st[k].val + 1] = [val |-> st[k].val + 1, exp |-> st[k].exp]
      BY <3>1 DEF KeyedRecord
    <3> QED BY <3>1, <3>2 DEF KeyedRecord
  <2> QED BY <2>1, <1>0, <1>1, <1>6 DEF Incr, Put
<1>11. \A x \in DOMAIN Expire(st, k, ttl).to : KeyedRecord(Expire(st, k, ttl).to[x])
  <2>1. ASSUME k \in DOMAIN st PROVE KeyedRecord([st[k] EXCEPT !.exp = rclock + ttl])
    <3>1. KeyedRecord(st[k])
      BY <1>0, <1>1, <2>1
    <3>2. [st[k] EXCEPT !.exp = rclock + ttl] = [val |-> st[k].val, exp |-> rclock + ttl]
      BY <3>1 DEF KeyedRecord
    <3> QED BY <3>2, <1>t DEF KeyedRecord
  <2> QED BY <2>1, <1>0, <1>1 DEF Expire
<1> QED BY <1>1, <1>2, <1>3, <1>4, <1>5, <1>7, <1>8, <1>9, <1>10, <1>11

\* The types after a command.
LEMMA TypesAfter ==
  ASSUME RedisTypes, NEW p \in Procs, NEW F, Commanded(p, F), rclock' = rclock,
         \A s \in RedisStores : \A x \in DOMAIN F[s] : KeyedRecord(F[s][x]),
         lock' \in [Procs -> [acquired : BOOLEAN, at : Int, where : RedisStores, nth : 0..MaxAcquires]],
         pendingTtl' \in [Procs -> {Never} \cup Nat], requests' \in Nat,
         \A q \in Procs : pendingTtl'[q] # Never => pendingTtl'[q] <= Bucket
  PROVE  RedisTypes'
<1>1. /\ degraded' \subseteq Procs /\ rstore' = [s \in RedisStores |-> rstore'[s]]
      /\ \A s \in RedisStores : rstore'[s] = rstore[s] \/ rstore'[s] = F[s]
      /\ \A s \in Procs \ degraded' : rstore'[s] = EmptyDict
  BY StoresAfter
<1>2. \A s \in RedisStores : \A x \in DOMAIN rstore'[s] : KeyedRecord(rstore'[s][x])
  BY <1>1 DEF RedisTypes
<1>3. Bucket' = Bucket
  BY DEF Bucket
<1> QED BY <1>1, <1>2, <1>3 DEF RedisTypes

\* An attempt to acquire leaves the leases of the others, and is one if it gets it.
LEMMA AcquireKeeps == ASSUME RedisInv, NEW p \in Procs, acquire(p) PROVE RedisInv'
<1> USE RedisAssumption
<1>0. RedisTypes /\ LeaseInv
  BY DEF RedisInv
<1>t. PICK tok : tok = <<p, lock[p].nth + 1>>
  OBVIOUS
<1>f. PICK F : F = [s \in RedisStores |-> SetNx(rstore[s], LockKey, tok, LeaseTtl).to]
  OBVIOUS
<1>a. p \in RedisStores /\ Server \in RedisStores /\ Where(p) \in RedisStores
      /\ DOMAIN rstore = RedisStores /\ LeaseTtl \in Nat
  BY <1>0 DEF RedisStores, Where, RedisTypes
<1>1. Commanded(p, F) /\ SetNx(rstore[AnsweredBy(p)], LockKey, tok, LeaseTtl).res = 1
  <2>1. \/ /\ rstore' = [rstore EXCEPT ![Where(p)] = F[Where(p)]]
           /\ 1 = SetNx(rstore[Where(p)], LockKey, tok, LeaseTtl).res /\ degraded' = degraded
        \/ /\ Degrades(p)
           /\ rstore' \in {[rstore EXCEPT ![p] = F[p]], [rstore EXCEPT ![p] = F[p], ![Server] = F[Server]]}
           /\ 1 = SetNx(rstore[p], LockKey, tok, LeaseTtl).res
    BY <1>a, <1>t, <1>f DEF acquire, Command
  <2>2. Commanded(p, F)
    BY <2>1, <1>0, CommandReaches
  <2>3. degraded' = degraded => AnsweredBy(p) = Where(p)
    BY DEF AnsweredBy, Where
  <2>4. Degrades(p) => AnsweredBy(p) = p
    BY DEF AnsweredBy, Degrades
  <2> QED BY <2>1, <2>2, <2>3, <2>4
<1>2. /\ UNCHANGED <<rclock, pendingTtl, granted, requests, admitted>>
      /\ ~lock[p].acquired /\ lock[p].nth < MaxAcquires
      /\ lock' = [lock EXCEPT ![p] = [acquired |-> TRUE, at |-> rclock, where |-> AnsweredBy(p),
                                      nth |-> lock[p].nth + 1]]
  BY DEF acquire
<1>3. \A s \in RedisStores : OnlyAt(LockKey, rstore[s], F[s]) /\ \A x \in DOMAIN F[s] : KeyedRecord(F[s][x])
  BY <1>0, <1>a, <1>f, CommandsAre
<1>4. PICK w : w = AnsweredBy(p)
  OBVIOUS
<1>5. /\ degraded \subseteq degraded' /\ w \in RedisStores /\ rstore'[w] = F[w]
      /\ w = Server \/ (w = p /\ p \in degraded')
      /\ \A s \in RedisStores : rstore'[s] = rstore[s] \/ rstore'[s] = F[s]
  BY <1>0, <1>1, <1>4, StoresAfter
<1>6. lock' \in [Procs -> [acquired : BOOLEAN, at : Int, where : RedisStores, nth : 0..MaxAcquires]]
  BY <1>0, <1>2, <1>4, <1>5 DEF RedisTypes
<1>7. RedisTypes'
  BY <1>0, <1>1, <1>2, <1>3, <1>6, TypesAfter DEF RedisTypes
<1>8. LeaseInv'
  <2>1. lock'[p] = [acquired |-> TRUE, at |-> rclock, where |-> w, nth |-> lock[p].nth + 1]
    BY <1>0, <1>2, <1>4 DEF RedisTypes
  <2>2. /\ lock'[p].at = rclock /\ lock'[p].where = w /\ lock'[p].nth = lock[p].nth + 1
    BY <2>1
  <2>3. LeaseIn(p, rstore[lock[p].where])'
    <3>1. F[w] = SetNx(rstore[w], LockKey, tok, LeaseTtl).to
      BY <1>f, <1>5
    <3>2. ~Alive(rstore[w], LockKey)
      BY <1>1, <1>4 DEF SetNx
    <3>3. LockKey \in DOMAIN F[w] /\ F[w][LockKey] = [val |-> tok, exp |-> rclock + LeaseTtl]
      BY <3>1, <3>2 DEF SetNx, Put
    <3>4. rclock \in Int
      BY <1>0 DEF RedisTypes
    <3> QED BY <3>3, <3>4, <1>5, <2>2, <1>t, <1>a DEF LeaseIn, Token
  <2>4. ASSUME NEW q \in Procs, q # p
        PROVE /\ lock'[q] = lock[q] /\ (HoldsLease(q)' <=> HoldsLease(q))
              /\ HoldsLease(q) => LeaseIn(q, rstore[lock[q].where])'
    <3>1. lock'[q] = lock[q]
      BY <1>2, <2>4, <1>0 DEF RedisTypes
    <3>2. HoldsLease(q)' <=> HoldsLease(q)
      BY <3>1, <1>2 DEF HoldsLease
    <3>3. ASSUME HoldsLease(q) PROVE LeaseIn(q, rstore[lock[q].where])'
      <4>1. LeaseIn(q, rstore[lock[q].where]) /\ lock[q].where \in RedisStores /\ lock[q].at \in Int
        BY <3>3, <1>0 DEF LeaseInv, RedisTypes
      <4>2. PICK s : s = lock[q].where
        OBVIOUS
      <4>3. KeyedRecord(rstore[s][LockKey]) /\ rclock \in Int
        BY <4>1, <4>2, <1>0 DEF LeaseIn, RedisTypes
      <4>4. Alive(rstore[s], LockKey)
        BY <3>3, <4>1, <4>2, <4>3, <1>a DEF LeaseIn, HoldsLease, Alive, KeyedRecord
      <4>5. F[s] = rstore[s]
        BY <4>4, <4>1, <4>2, <1>f DEF SetNx
      <4>6. rstore'[s] = rstore[s]
        BY <4>5, <4>1, <4>2, <1>5
      <4> QED BY <3>1, <4>1, <4>2, <4>6 DEF LeaseIn, Token
    <3> QED BY <3>1, <3>2, <3>3
  <2>5. rclock \in 0..rclock
    BY <1>0 DEF RedisTypes
  <2>6. ASSUME NEW q \in Procs
        PROVE (/\ lock[q].acquired =>
                    /\ lock[q].at \in 0..rclock
                    /\ lock[q].where = Server \/ (lock[q].where = q /\ q \in degraded)
               /\ HoldsLease(q) => LeaseIn(q, rstore[lock[q].where]))'
    <3>1. CASE q = p
      BY <3>1, <2>2, <2>3, <2>5, <1>5, <1>2
    <3>2. CASE q # p
      BY <3>2, <2>4, <1>0, <1>5, <1>2 DEF LeaseInv
    <3> QED BY <3>1, <3>2
  <2> QED BY <2>6 DEF LeaseInv
<1>9. RateInv'
  <2>1. \A s \in RedisStores : \A b \in Nat : SameAt(RateKey(b), rstore[s], F[s])
    BY <1>3, KeysDiffer DEF OnlyAt
  <2>2. \A s \in RedisStores : \A b \in Nat : CounterOK(F[s], b, GrantsOf(s, b))
    BY <2>1, CountersSame
  <2> QED BY <2>2, <1>1, <1>2, RateFrame
<1>10. MarkInv'
  <2>1. \A s \in RedisStores : SameAt(MailKey, rstore[s], F[s])
    BY <1>3, KeysDiffer DEF OnlyAt
  <2> QED BY <2>1, <1>1, <1>2, MarksSame, MarkFrame
<1> QED BY <1>7, <1>8, <1>9, <1>10 DEF RedisInv

\* A release, also a late one, deletes only the owner's own record.
LEMMA ReleaseKeeps == ASSUME RedisInv, NEW p \in Procs, release(p) PROVE RedisInv'
<1> USE RedisAssumption
<1>0. RedisTypes /\ LeaseInv
  BY DEF RedisInv
<1>t. PICK tok : tok = Token(p)
  OBVIOUS
<1>f. PICK F : F = [s \in RedisStores |-> CompareAndDelete(rstore[s], LockKey, tok).to]
  OBVIOUS
<1>a. p \in RedisStores /\ Server \in RedisStores /\ Where(p) \in RedisStores /\ DOMAIN rstore = RedisStores
  BY <1>0 DEF RedisStores, Where, RedisTypes
<1>1. Commanded(p, F)
  <2>1. \/ /\ rstore' = [rstore EXCEPT ![Where(p)] = F[Where(p)]] /\ degraded' = degraded
        \/ /\ Degrades(p)
           /\ rstore' \in {[rstore EXCEPT ![p] = F[p]], [rstore EXCEPT ![p] = F[p], ![Server] = F[Server]]}
    BY <1>a, <1>t, <1>f DEF release, Command
  <2> QED BY <2>1, <1>0, CommandReaches
<1>2. /\ UNCHANGED <<rclock, pendingTtl, granted, requests, admitted>>
      /\ lock' = [lock EXCEPT ![p] = [lock[p] EXCEPT !.acquired = FALSE]]
  BY DEF release
<1>3. \A s \in RedisStores : OnlyAt(LockKey, rstore[s], F[s]) /\ \A x \in DOMAIN F[s] : KeyedRecord(F[s][x])
  BY <1>0, <1>f, CommandsAre
<1>5. /\ degraded \subseteq degraded'
      /\ \A s \in RedisStores : rstore'[s] = rstore[s] \/ rstore'[s] = F[s]
  BY <1>0, <1>1, StoresAfter
<1>6. lock' \in [Procs -> [acquired : BOOLEAN, at : Int, where : RedisStores, nth : 0..MaxAcquires]]
  BY <1>0, <1>2 DEF RedisTypes
<1>7. RedisTypes'
  BY <1>0, <1>1, <1>2, <1>3, <1>6, TypesAfter DEF RedisTypes
<1>8. LeaseInv'
  <2>1. lock'[p].acquired = FALSE
    BY <1>0, <1>2 DEF RedisTypes
  <2>4. ASSUME NEW q \in Procs, q # p
        PROVE /\ lock'[q] = lock[q] /\ (HoldsLease(q)' <=> HoldsLease(q))
              /\ HoldsLease(q) => LeaseIn(q, rstore[lock[q].where])'
    <3>1. lock'[q] = lock[q]
      BY <1>2, <2>4, <1>0 DEF RedisTypes
    <3>2. HoldsLease(q)' <=> HoldsLease(q)
      BY <3>1, <1>2 DEF HoldsLease
    <3>3. ASSUME HoldsLease(q) PROVE LeaseIn(q, rstore[lock[q].where])'
      <4>1. LeaseIn(q, rstore[lock[q].where]) /\ lock[q].where \in RedisStores
        BY <3>3, <1>0 DEF LeaseInv, RedisTypes
      <4>2. PICK s : s = lock[q].where
        OBVIOUS
      <4>3. rstore[s][LockKey].val # tok
        BY <4>1, <4>2, <1>t, <2>4 DEF LeaseIn, Token
      <4>5. F[s] = rstore[s]
        BY <4>3, <4>1, <4>2, <1>f DEF CompareAndDelete
      <4>6. rstore'[s] = rstore[s]
        BY <4>5, <4>1, <4>2, <1>5
      <4> QED BY <3>1, <4>1, <4>2, <4>6 DEF LeaseIn, Token
    <3> QED BY <3>1, <3>2, <3>3
  <2>6. ASSUME NEW q \in Procs
        PROVE (/\ lock[q].acquired =>
                    /\ lock[q].at \in 0..rclock
                    /\ lock[q].where = Server \/ (lock[q].where = q /\ q \in degraded)
               /\ HoldsLease(q) => LeaseIn(q, rstore[lock[q].where]))'
    <3>1. CASE q = p
      BY <3>1, <2>1 DEF HoldsLease
    <3>2. CASE q # p
      BY <3>2, <2>4, <1>0, <1>5, <1>2 DEF LeaseInv
    <3> QED BY <3>1, <3>2
  <2> QED BY <2>6 DEF LeaseInv
<1>9. RateInv'
  <2>1. \A s \in RedisStores : \A b \in Nat : SameAt(RateKey(b), rstore[s], F[s])
    BY <1>3, KeysDiffer DEF OnlyAt
  <2>2. \A s \in RedisStores : \A b \in Nat : CounterOK(F[s], b, GrantsOf(s, b))
    BY <2>1, CountersSame
  <2> QED BY <2>2, <1>1, <1>2, RateFrame
<1>10. MarkInv'
  <2>1. \A s \in RedisStores : SameAt(MailKey, rstore[s], F[s])
    BY <1>3, KeysDiffer DEF OnlyAt
  <2> QED BY <2>1, <1>1, <1>2, MarksSame, MarkFrame
<1> QED BY <1>7, <1>8, <1>9, <1>10 DEF RedisInv

\* INCR of a bucket's counter, in a store where the counter says enough.
LEMMA IncrCounts ==
  ASSUME RedisInv, NEW s \in RedisStores
  PROVE  LET c == Incr(rstore[s], RateKey(Bucket)) IN
         /\ RateKey(Bucket) \in DOMAIN c.to /\ c.to[RateKey(Bucket)].val = c.res
         /\ c.res \in Nat /\ Cardinality(GrantsOf(s, Bucket)) + 1 <= c.res
         /\ Outlives(c.to[RateKey(Bucket)].exp, Bucket)
<1> USE RedisAssumption
<1>0. RedisTypes /\ RateInv
  BY DEF RedisInv
<1>1. PICK st, b, k : st = rstore[s] /\ b = Bucket /\ k = RateKey(Bucket)
  OBVIOUS
<1>2. rclock \in 0..MaxRedisTime /\ rclock \in Nat /\ b \in Nat /\ rclock \div BucketLength = b
  BY <1>0, <1>1, BucketIsNat DEF RedisTypes, Bucket
<1>3. CounterOK(st, b, GrantsOf(s, b))
  BY <1>0, <1>1, <1>2 DEF RateInv
<1>4. CASE k \in DOMAIN st
  <2>1. st[k].val \in Nat /\ Cardinality(GrantsOf(s, b)) <= st[k].val /\ Outlives(st[k].exp, b)
    BY <1>1, <1>3, <1>4 DEF CounterOK
  <2>2. rclock <= st[k].exp
    BY <2>1, <1>2 DEF Outlives
  <2>3. KeyedRecord(st[k])
    BY <1>0, <1>1, <1>4 DEF RedisTypes
  <2>4. Incr(st, k) = [to |-> [st EXCEPT ![k] = [st[k] EXCEPT !.val = st[k].val + 1]], res |-> st[k].val + 1]
    BY <2>2, <1>4 DEF Incr, Alive
  <2>5. [st[k] EXCEPT !.val = st[k].val + 1] = [val |-> st[k].val + 1, exp |-> st[k].exp]
    BY <2>3 DEF KeyedRecord
  <2>6. /\ Incr(st, k).res = st[k].val + 1 /\ k \in DOMAIN Incr(st, k).to
        /\ Incr(st, k).to[k] = [val |-> st[k].val + 1, exp |-> st[k].exp]
    BY <2>4, <2>5, <1>4
  <2>7. IsFiniteSet(GrantsOf(s, b))
    BY <1>0, FS_Subset DEF RateInv, GrantsOf
  <2>8. Cardinality(GrantsOf(s, b)) \in Nat
    BY <2>7, FS_CardinalityType
  <2>9. /\ Incr(st, k).to[k].val = Incr(st, k).res /\ Incr(st, k).to[k].exp = st[k].exp
        /\ Incr(st, k).res \in Nat /\ Cardinality(GrantsOf(s, b)) + 1 <= Incr(st, k).res
    BY <2>1, <2>6, <2>8
  <2> QED BY <2>1, <2>6, <2>9, <1>1
<1>5. CASE k \notin DOMAIN st
  <2>1. GrantsOf(s, b) = {}
    BY <1>1, <1>3, <1>5 DEF CounterOK
  <2>2. Cardinality(GrantsOf(s, b)) = 0
    BY <2>1, FS_EmptySet
  <2>3. /\ Incr(st, k).res = 1 /\ k \in DOMAIN Incr(st, k).to
        /\ Incr(st, k).to[k] = [val |-> 1, exp |-> Forever]
    BY <1>5 DEF Incr, Alive, Put
  <2>4. Outlives(Forever, b)
    BY DEF Outlives, Forever
  <2>5. Incr(st, k).to[k].val = 1 /\ Incr(st, k).to[k].exp = Forever
    BY <2>3
  <2> QED BY <2>2, <2>3, <2>4, <2>5, <1>1
<1> QED BY <1>4, <1>5

\* A request of the limiter is counted before it is granted.
LEMMA AllowedKeeps == ASSUME RedisInv, NEW p \in Procs, is_allowed(p) PROVE RedisInv'
<1> USE RedisAssumption
<1>0. RedisTypes /\ RateInv
  BY DEF RedisInv
<1>k. PICK k : k = RateKey(Bucket)
  OBVIOUS
<1>f. PICK F : F = [s \in RedisStores |-> Incr(rstore[s], k).to]
  OBVIOUS
<1>a. p \in RedisStores /\ Server \in RedisStores /\ Where(p) \in RedisStores /\ DOMAIN rstore = RedisStores
  BY <1>0 DEF RedisStores, Where, RedisTypes
<1>c. PICK count \in 1..MaxRequests :
        /\ Command(p, LAMBDA s : Incr(s, RateKey(Bucket)), count)
        /\ granted' = IF Allowed(count)
                      THEN granted \cup {[where |-> AnsweredBy(p), bucket |-> Bucket, at |-> rclock,
                                          nth |-> requests + 1]}
                      ELSE granted
        /\ pendingTtl' = [pendingTtl EXCEPT ![p] = IF count = 1 THEN Bucket ELSE Never]
  BY DEF is_allowed
<1>1. Commanded(p, F) /\ Incr(rstore[AnsweredBy(p)], k).res = count
  <2>1. \/ /\ rstore' = [rstore EXCEPT ![Where(p)] = F[Where(p)]]
           /\ count = Incr(rstore[Where(p)], k).res /\ degraded' = degraded
        \/ /\ Degrades(p)
           /\ rstore' \in {[rstore EXCEPT ![p] = F[p]], [rstore EXCEPT ![p] = F[p], ![Server] = F[Server]]}
           /\ count = Incr(rstore[p], k).res
    BY <1>a, <1>k, <1>f, <1>c DEF Command
  <2>2. Commanded(p, F)
    BY <2>1, <1>0, CommandReaches
  <2>3. degraded' = degraded => AnsweredBy(p) = Where(p)
    BY DEF AnsweredBy, Where
  <2>4. Degrades(p) => AnsweredBy(p) = p
    BY DEF AnsweredBy, Degrades
  <2> QED BY <2>1, <2>2, <2>3, <2>4
<1>2. UNCHANGED <<rclock, lock, admitted>> /\ requests' = requests + 1
  BY DEF is_allowed
<1>3. \A s \in RedisStores : OnlyAt(k, rstore[s], F[s]) /\ \A x \in DOMAIN F[s] : KeyedRecord(F[s][x])
  <2>1. MarkTtl \in Nat
    OBVIOUS
  <2> QED BY <2>1, <1>0, <1>f, CommandsAre
<1>4. PICK w : w = AnsweredBy(p)
  OBVIOUS
<1>5. /\ w \in RedisStores /\ rstore'[w] = F[w]
      /\ \A s \in RedisStores : rstore'[s] = rstore[s] \/ rstore'[s] = F[s]
  BY <1>0, <1>1, <1>4, StoresAfter
<1>b. PICK b : b = Bucket
  OBVIOUS
<1>6. b \in Nat /\ rclock \in Nat /\ b = rclock \div BucketLength /\ requests \in Nat
  BY <1>0, <1>b, BucketIsNat DEF RedisTypes, Bucket
<1>7. RedisTypes'
  <2>1. pendingTtl' \in [Procs -> {Never} \cup Nat]
    BY <1>0, <1>c, <1>b, <1>6 DEF RedisTypes
  <2>2. \A q \in Procs : pendingTtl'[q] # Never => pendingTtl'[q] <= Bucket
    BY <1>0, <1>c, <1>b, <1>6 DEF RedisTypes
  <2> QED BY <2>1, <2>2, <1>0, <1>1, <1>2, <1>3, <1>6, TypesAfter DEF RedisTypes
<1>8. LeaseInv'
  <2>1. \A s \in RedisStores : SameAt(LockKey, rstore[s], F[s])
    BY <1>3, <1>k, KeysDiffer DEF OnlyAt
  <2> QED BY <2>1, <1>1, <1>2, LeaseFrame
<1>10. MarkInv'
  <2>1. \A s \in RedisStores : SameAt(MailKey, rstore[s], F[s])
    BY <1>3, <1>k, KeysDiffer DEF OnlyAt
  <2> QED BY <2>1, <1>1, <1>2, MarksSame, MarkFrame
<1>9. RateInv'
  <2>g. PICK g : g = [where |-> w, bucket |-> b, at |-> rclock, nth |-> requests + 1]
    OBVIOUS
  <2>h. g.where = w /\ g.bucket = b /\ g.at = rclock /\ g.nth = requests + 1
    BY <2>g
  <2>1. granted' = (IF count <= BucketLimit THEN granted \cup {g} ELSE granted)
    BY <1>c, <2>g, <1>4, <1>b DEF Allowed
  <2>2. IsFiniteSet(granted')
    BY <2>1, <1>0, FS_AddElement DEF RateInv
  <2>3. \A x \in granted' : x.at \in 0..rclock' /\ x.bucket = x.at \div BucketLength /\ x.nth \in 1..requests'
    BY <2>1, <2>h, <1>0, <1>2, <1>6 DEF RateInv
  <2>4. ASSUME NEW s \in RedisStores, NEW c \in Nat
        PROVE CounterOK(rstore'[s], c, GrantsOf(s, c)') /\ Cardinality(GrantsOf(s, c)') <= BucketLimit
    <3>1. CounterOK(rstore[s], c, GrantsOf(s, c)) /\ Cardinality(GrantsOf(s, c)) <= BucketLimit
      BY <1>0 DEF RateInv
    <3>2. IsFiniteSet(GrantsOf(s, c))
      BY <1>0, FS_Subset DEF RateInv, GrantsOf
    <3>3. CASE c # b
      <4>1. GrantsOf(s, c)' = GrantsOf(s, c)
        BY <3>3, <2>1, <2>h DEF GrantsOf
      <4>2. SameAt(RateKey(c), rstore[s], F[s])
        BY <3>3, <1>3, <1>k, <1>b, KeysDiffer DEF OnlyAt
      <4>3. SameAt(RateKey(c), rstore[s], rstore'[s])
        BY <4>2, <1>5 DEF SameAt
      <4>4. CounterOK(rstore'[s], c, GrantsOf(s, c))
        BY <3>1, <4>3 DEF CounterOK, SameAt
      <4> QED BY <3>1, <4>1, <4>4
    <3>4. CASE c = b
      <4>0. F[s] = Incr(rstore[s], k).to
        BY <1>f
      <4>1. /\ k \in DOMAIN F[s] /\ F[s][k].val = Incr(rstore[s], k).res
            /\ Incr(rstore[s], k).res \in Nat /\ Cardinality(GrantsOf(s, b)) + 1 <= Incr(rstore[s], k).res
            /\ Outlives(F[s][k].exp, b)
        BY <4>0, <1>k, <1>b, IncrCounts
      <4>2. Cardinality(GrantsOf(s, b)) \in Nat
        BY <3>2, <3>4, FS_CardinalityType
      <4>3. CASE s = w /\ count <= BucketLimit
        <5>1. GrantsOf(s, c)' = GrantsOf(s, b) \cup {g}
          BY <4>3, <2>1, <2>h, <3>4 DEF GrantsOf
        <5>2. Cardinality(GrantsOf(s, b) \cup {g}) <= Cardinality(GrantsOf(s, b)) + 1
              /\ Cardinality(GrantsOf(s, b) \cup {g}) \in Nat
          <6>1. PICK G : G = GrantsOf(s, b)
            OBVIOUS
          <6>2. IsFiniteSet(G) /\ Cardinality(G) \in Nat
            BY <6>1, <3>2, <3>4, <4>2
          <6>3. Cardinality(G \cup {g}) = IF g \in G THEN Cardinality(G) ELSE Cardinality(G) + 1
            BY <6>2, FS_AddElement
          <6> QED BY <6>1, <6>2, <6>3
        <5>3. Incr(rstore[s], k).res = count
          BY <1>1, <1>4, <4>3
        <5>4. Cardinality(GrantsOf(s, b) \cup {g}) <= count
          BY <4>1, <4>2, <5>2, <5>3
        <5>5. rstore'[s] = F[s]
          BY <1>5, <4>3
        <5>6. CounterOK(F[s], c, GrantsOf(s, b) \cup {g})
          BY <4>1, <5>3, <5>4, <3>4, <1>k, <1>b DEF CounterOK
        <5> QED BY <5>1, <5>2, <5>4, <5>5, <5>6, <4>3
      <4>4. CASE ~(s = w /\ count <= BucketLimit)
        <5>1. GrantsOf(s, c)' = GrantsOf(s, c)
          BY <4>4, <2>1, <2>h DEF GrantsOf
        <5>2. CounterOK(F[s], c, GrantsOf(s, c))
          BY <4>1, <4>2, <3>4, <1>k, <1>b DEF CounterOK
        <5>3. CounterOK(rstore'[s], c, GrantsOf(s, c))
          BY <5>2, <3>1, <1>5
        <5> QED BY <5>1, <5>3, <3>1
      <4> QED BY <4>3, <4>4
    <3> QED BY <3>3, <3>4
  <2>5. ASSUME NEW s \in RedisStores, NEW c \in Nat
        PROVE (CounterOK(rstore[s], c, GrantsOf(s, c)) /\ Cardinality(GrantsOf(s, c)) <= BucketLimit)'
    BY <2>4 DEF CounterOK, Outlives, RateKey
  <2> QED BY <2>2, <2>3, <2>5 DEF RateInv
<1> QED BY <1>7, <1>8, <1>9, <1>10 DEF RedisInv

\* The TTL that the first request of a bucket sets is two windows long.
LEMMA SetTtlKeeps == ASSUME RedisInv, NEW p \in Procs, SetTtl(p) PROVE RedisInv'
<1> USE RedisAssumption
<1>0. RedisTypes /\ RateInv
  BY DEF RedisInv
<1>b. PICK b : b = pendingTtl[p]
  OBVIOUS
<1>k. PICK k : k = RateKey(b)
  OBVIOUS
<1>f. PICK F : F = [s \in RedisStores |-> Expire(rstore[s], k, 2 * BucketLength).to]
  OBVIOUS
<1>a. p \in RedisStores /\ Server \in RedisStores /\ Where(p) \in RedisStores /\ DOMAIN rstore = RedisStores
  BY <1>0 DEF RedisStores, Where, RedisTypes
<1>1. Commanded(p, F)
  <2>1. \/ /\ rstore' = [rstore EXCEPT ![Where(p)] = F[Where(p)]] /\ degraded' = degraded
        \/ /\ Degrades(p)
           /\ rstore' \in {[rstore EXCEPT ![p] = F[p]], [rstore EXCEPT ![p] = F[p], ![Server] = F[Server]]}
    BY <1>a, <1>b, <1>k, <1>f DEF SetTtl, Command
  <2> QED BY <2>1, <1>0, CommandReaches
<1>2. /\ UNCHANGED <<rclock, lock, granted, requests, admitted>> /\ b # Never
      /\ pendingTtl' = [pendingTtl EXCEPT ![p] = Never]
  BY <1>b DEF SetTtl
<1>6. rclock \in Nat /\ b \in Nat /\ b <= rclock \div BucketLength /\ 2 * BucketLength \in Nat
  BY <1>0, <1>b, <1>2 DEF RedisTypes, Bucket
<1>3. \A s \in RedisStores : OnlyAt(k, rstore[s], F[s]) /\ \A x \in DOMAIN F[s] : KeyedRecord(F[s][x])
  BY <1>0, <1>6, <1>f, CommandsAre
<1>7. RedisTypes'
  <2>1. pendingTtl' \in [Procs -> {Never} \cup Nat] /\ \A q \in Procs : pendingTtl'[q] # Never => pendingTtl'[q] <= Bucket
    BY <1>0, <1>2 DEF RedisTypes
  <2> QED BY <2>1, <1>0, <1>1, <1>2, <1>3, TypesAfter DEF RedisTypes
<1>8. LeaseInv'
  <2>1. \A s \in RedisStores : SameAt(LockKey, rstore[s], F[s])
    BY <1>3, <1>k, KeysDiffer DEF OnlyAt
  <2> QED BY <2>1, <1>1, <1>2, LeaseFrame
<1>9. RateInv'
  <2>1. ASSUME NEW s \in RedisStores, NEW c \in Nat PROVE CounterOK(F[s], c, GrantsOf(s, c))
    <3>1. CASE c # b
      <4>1. SameAt(RateKey(c), rstore[s], F[s])
        BY <3>1, <1>3, <1>k, KeysDiffer DEF OnlyAt
      <4> QED BY <4>1, CountersSame
    <3>2. CASE c = b
      <4>1. CounterOK(rstore[s], c, GrantsOf(s, c))
        BY <1>0 DEF RateInv
      <4>2. CASE k \in DOMAIN rstore[s]
        <5>1. F[s] = [rstore[s] EXCEPT ![k] = [rstore[s][k] EXCEPT !.exp = rclock + 2 * BucketLength]]
          BY <4>2, <1>f DEF Expire
        <5>2. KeyedRecord(rstore[s][k])
          BY <4>2, <1>0 DEF RedisTypes
        <5>3. F[s][k] = [val |-> rstore[s][k].val, exp |-> rclock + 2 * BucketLength] /\ k \in DOMAIN F[s]
          BY <5>1, <5>2, <4>2 DEF KeyedRecord
        <5>4. F[s][k].val = rstore[s][k].val /\ F[s][k].exp = rclock + 2 * BucketLength
          BY <5>3
        <5>5. Outlives(rclock + 2 * BucketLength, b)
          BY <1>6, BucketsArePast DEF Outlives
        <5> QED BY <4>1, <4>2, <5>3, <5>4, <5>5, <3>2, <1>k DEF CounterOK
      <4>3. CASE k \notin DOMAIN rstore[s]
        <5>1. F[s] = rstore[s]
          BY <4>3, <1>f DEF Expire
        <5> QED BY <5>1, <4>1
      <4> QED BY <4>2, <4>3
    <3> QED BY <3>1, <3>2
  <2> QED BY <2>1, <1>1, <1>2, RateFrame
<1>10. MarkInv'
  <2>1. \A s \in RedisStores : SameAt(MailKey, rstore[s], F[s])
    BY <1>3, <1>k, KeysDiffer DEF OnlyAt
  <2> QED BY <2>1, <1>1, <1>2, MarksSame, MarkFrame
<1> QED BY <1>7, <1>8, <1>9, <1>10 DEF RedisInv

\* SET of the mail's mark, with NX or without, lengthens it or leaves it.
LEMMA MarkingLasts ==
  ASSUME RedisInv, NEW a \in admitted
  PROVE  /\ MarkedIn(a, SetNx(rstore[a.where], MailKey, "1", MarkTtl).to)
         /\ MarkedIn(a, SetEx(rstore[a.where], MailKey, "1", MarkTtl).to)
<1> USE RedisAssumption
<1>1. a.where \in RedisStores /\ a.at \in 0..rclock /\ MarkedIn(a, rstore[a.where]) /\ rclock \in Nat
  BY DEF RedisInv, MarkInv, RedisTypes
<1>2. PICK st : st = rstore[a.where]
  OBVIOUS
<1>3. SetEx(st, MailKey, "1", MarkTtl).to[MailKey] = [val |-> "1", exp |-> rclock + MarkTtl]
      /\ MailKey \in DOMAIN SetEx(st, MailKey, "1", MarkTtl).to
  BY DEF SetEx, Put
<1>4. MarkedIn(a, SetEx(st, MailKey, "1", MarkTtl).to)
  BY <1>1, <1>3 DEF MarkedIn
<1>5. SetNx(st, MailKey, "1", MarkTtl).to = st
      \/ SetNx(st, MailKey, "1", MarkTtl).to = SetEx(st, MailKey, "1", MarkTtl).to
  BY DEF SetNx, SetEx
<1> QED BY <1>1, <1>2, <1>4, <1>5

\* A mail that is let through has no mark that lives, and gets one.
LEMMA CheckAndMarkKeeps == ASSUME RedisInv, NEW p \in Procs, check_and_mark_async(p) PROVE RedisInv'
<1> USE RedisAssumption
<1>0. RedisTypes /\ MarkInv
  BY DEF RedisInv
<1>f. PICK F : F = [s \in RedisStores |-> SetNx(rstore[s], MailKey, "1", MarkTtl).to]
  OBVIOUS
<1>a. p \in RedisStores /\ Server \in RedisStores /\ Where(p) \in RedisStores
      /\ DOMAIN rstore = RedisStores /\ MarkTtl \in Nat
  BY <1>0 DEF RedisStores, Where, RedisTypes
<1>c. PICK res \in {0, 1} :
        /\ Command(p, LAMBDA s : SetNx(s, MailKey, "1", MarkTtl), res)
        /\ admitted' = IF res = 1 THEN admitted \cup {[where |-> AnsweredBy(p), at |-> rclock,
                                                       nth |-> Cardinality(admitted)]}
                       ELSE admitted
  BY DEF check_and_mark_async
<1>1. Commanded(p, F) /\ SetNx(rstore[AnsweredBy(p)], MailKey, "1", MarkTtl).res = res
  <2>1. \/ /\ rstore' = [rstore EXCEPT ![Where(p)] = F[Where(p)]]
           /\ res = SetNx(rstore[Where(p)], MailKey, "1", MarkTtl).res /\ degraded' = degraded
        \/ /\ Degrades(p)
           /\ rstore' \in {[rstore EXCEPT ![p] = F[p]], [rstore EXCEPT ![p] = F[p], ![Server] = F[Server]]}
           /\ res = SetNx(rstore[p], MailKey, "1", MarkTtl).res
    BY <1>a, <1>f, <1>c DEF Command
  <2>2. Commanded(p, F)
    BY <2>1, <1>0, CommandReaches
  <2>3. degraded' = degraded => AnsweredBy(p) = Where(p)
    BY DEF AnsweredBy, Where
  <2>4. Degrades(p) => AnsweredBy(p) = p
    BY DEF AnsweredBy, Degrades
  <2> QED BY <2>1, <2>2, <2>3, <2>4
<1>2. UNCHANGED <<rclock, lock, pendingTtl, granted, requests>>
  BY DEF check_and_mark_async
<1>3. \A s \in RedisStores : OnlyAt(MailKey, rstore[s], F[s]) /\ \A x \in DOMAIN F[s] : KeyedRecord(F[s][x])
  BY <1>0, <1>a, <1>f, CommandsAre
<1>4. PICK w : w = AnsweredBy(p)
  OBVIOUS
<1>5. /\ w \in RedisStores /\ rstore'[w] = F[w]
      /\ \A s \in RedisStores : rstore'[s] = rstore[s] \/ rstore'[s] = F[s]
  BY <1>0, <1>1, <1>4, StoresAfter
<1>7. RedisTypes'
  BY <1>0, <1>1, <1>2, <1>3, TypesAfter DEF RedisTypes
<1>8. LeaseInv'
  <2>1. \A s \in RedisStores : SameAt(LockKey, rstore[s], F[s])
    BY <1>3, KeysDiffer DEF OnlyAt
  <2> QED BY <2>1, <1>1, <1>2, LeaseFrame
<1>9. RateInv'
  <2>1. \A s \in RedisStores : \A b \in Nat : SameAt(RateKey(b), rstore[s], F[s])
    BY <1>3, KeysDiffer DEF OnlyAt
  <2>2. \A s \in RedisStores : \A b \in Nat : CounterOK(F[s], b, GrantsOf(s, b))
    BY <2>1, CountersSame
  <2> QED BY <2>2, <1>1, <1>2, RateFrame
<1>m. \A a \in admitted : /\ a.where \in RedisStores /\ a.at \in 0..rclock
                          /\ MarkedIn(a, rstore[a.where]) /\ MarkedIn(a, F[a.where])
  BY <1>0, <1>f, MarkingLasts DEF MarkInv
<1>10. MarkInv'
  <2>1. CASE res = 0
    <3>1. admitted' = admitted
      BY <2>1, <1>c
    <3> QED BY <3>1, <1>m, <1>1, <1>2, MarkFrame
  <2>2. CASE res = 1
    <3>g. PICK g : g = [where |-> w, at |-> rclock, nth |-> Cardinality(admitted)]
      OBVIOUS
    <3>h. g.where = w /\ g.at = rclock /\ admitted' = admitted \cup {g} /\ rclock \in Nat
      BY <3>g, <2>2, <1>c, <1>4, <1>0 DEF RedisTypes
    <3>1. ~Alive(rstore[w], MailKey)
      BY <1>1, <1>4, <2>2 DEF SetNx
    <3>2. F[w] = Put(rstore[w], MailKey, [val |-> "1", exp |-> rclock + MarkTtl])
      BY <3>1, <1>f, <1>5 DEF SetNx
    <3>3. MailKey \in DOMAIN F[w] /\ F[w][MailKey].exp = rclock + MarkTtl
      BY <3>2 DEF Put
    <3>4. \A a \in admitted : a.where = w => a.at + MarkTtl < rclock
      <4> TAKE a \in admitted
      <4> HAVE a.where = w
      <4>1. MailKey \in DOMAIN rstore[w] /\ rstore[w][MailKey].exp >= a.at + MarkTtl /\ a.at \in 0..rclock
        BY <1>m DEF MarkedIn
      <4>2. KeyedRecord(rstore[w][MailKey])
        BY <4>1, <1>5, <1>0 DEF RedisTypes
      <4> QED BY <4>1, <4>2, <3>1, <3>h DEF Alive, KeyedRecord
    <3>5. \A a \in admitted' : a.where \in RedisStores /\ a.at \in 0..rclock' /\ MarkedIn(a, rstore'[a.where])
      <4>1. ASSUME NEW a \in admitted
            PROVE a.where \in RedisStores /\ a.at \in 0..rclock' /\ MarkedIn(a, rstore'[a.where])
        <5>1. PICK s \in RedisStores : s = a.where
          BY <1>m
        <5> QED BY <5>1, <1>m, <1>5, <1>2
      <4>2. g.where \in RedisStores /\ g.at \in 0..rclock' /\ MarkedIn(g, rstore'[g.where])
        BY <3>3, <3>h, <1>5, <1>2 DEF MarkedIn
      <4> QED BY <4>1, <4>2, <3>h
    <3>6. AdmittedOncePerTtl'
      <4>1. ASSUME NEW a \in admitted', NEW b \in admitted', a # b, a.where = b.where
            PROVE a.at + MarkTtl < b.at \/ b.at + MarkTtl < a.at
        <5>1. CASE a \in admitted /\ b \in admitted
          BY <5>1, <4>1, <1>0 DEF MarkInv, AdmittedOncePerTtl
        <5>2. CASE a = g /\ b \in admitted
          BY <5>2, <4>1, <3>4, <3>h
        <5>3. CASE b = g /\ a \in admitted
          BY <5>3, <4>1, <3>4, <3>h
        <5> QED BY <5>1, <5>2, <5>3, <4>1, <3>h
      <4> QED BY <4>1 DEF AdmittedOncePerTtl
    <3>7. \A a \in admitted' : (a.where \in RedisStores /\ a.at \in 0..rclock)' /\ MarkedIn(a, rstore[a.where])'
      BY <3>5 DEF MarkedIn, RedisStores
    <3> QED BY <3>6, <3>7 DEF MarkInv, RedisStores
  <2> QED BY <2>1, <2>2
<1> QED BY <1>7, <1>8, <1>9, <1>10 DEF RedisInv

\* Marking without asking admits nothing.
LEMMA MarkSeenKeeps == ASSUME RedisInv, NEW p \in Procs, mark_seen_async(p) PROVE RedisInv'
<1> USE RedisAssumption
<1>0. RedisTypes /\ MarkInv
  BY DEF RedisInv
<1>f. PICK F : F = [s \in RedisStores |-> SetEx(rstore[s], MailKey, "1", MarkTtl).to]
  OBVIOUS
<1>a. p \in RedisStores /\ Server \in RedisStores /\ Where(p) \in RedisStores
      /\ DOMAIN rstore = RedisStores /\ MarkTtl \in Nat
  BY <1>0 DEF RedisStores, Where, RedisTypes
<1>1. Commanded(p, F)
  <2>1. \/ /\ rstore' = [rstore EXCEPT ![Where(p)] = F[Where(p)]] /\ degraded' = degraded
        \/ /\ Degrades(p)
           /\ rstore' \in {[rstore EXCEPT ![p] = F[p]], [rstore EXCEPT ![p] = F[p], ![Server] = F[Server]]}
    BY <1>a, <1>f DEF mark_seen_async, Command
  <2> QED BY <2>1, <1>0, CommandReaches
<1>2. UNCHANGED <<rclock, lock, pendingTtl, granted, requests, admitted>>
  BY DEF mark_seen_async
<1>3. \A s \in RedisStores : OnlyAt(MailKey, rstore[s], F[s]) /\ \A x \in DOMAIN F[s] : KeyedRecord(F[s][x])
  BY <1>0, <1>a, <1>f, CommandsAre
<1>7. RedisTypes'
  BY <1>0, <1>1, <1>2, <1>3, TypesAfter DEF RedisTypes
<1>8. LeaseInv'
  <2>1. \A s \in RedisStores : SameAt(LockKey, rstore[s], F[s])
    BY <1>3, KeysDiffer DEF OnlyAt
  <2> QED BY <2>1, <1>1, <1>2, LeaseFrame
<1>9. RateInv'
  <2>1. \A s \in RedisStores : \A b \in Nat : SameAt(RateKey(b), rstore[s], F[s])
    BY <1>3, KeysDiffer DEF OnlyAt
  <2>2. \A s \in RedisStores : \A b \in Nat : CounterOK(F[s], b, GrantsOf(s, b))
    BY <2>1, CountersSame
  <2> QED BY <2>2, <1>1, <1>2, RateFrame
<1>10. MarkInv'
  <2>1. \A a \in admitted : MarkedIn(a, F[a.where])
    BY <1>0, <1>f, MarkingLasts DEF MarkInv
  <2> QED BY <2>1, <1>1, <1>2, MarkFrame
<1> QED BY <1>7, <1>8, <1>9, <1>10 DEF RedisInv

\* Time only takes leases away.
LEMMA RedisTickKeeps == ASSUME RedisInv, RedisTick PROVE RedisInv'
<1> USE RedisAssumption
<1>0. RedisTypes /\ LeaseInv /\ RateInv /\ MarkInv
  BY DEF RedisInv
<1>1. /\ rclock \in Nat /\ rclock < MaxRedisTime /\ rclock' = rclock + 1
      /\ UNCHANGED <<rstore, degraded, lock, pendingTtl, granted, requests, admitted>>
  BY <1>0 DEF RedisTick, RedisTypes
<1>2. Bucket \in Nat /\ Bucket' \in Nat /\ Bucket <= Bucket'
  BY <1>1, BucketsGrow, BucketIsNat DEF Bucket
<1>3. RedisTypes'
  BY <1>0, <1>1, <1>2 DEF RedisTypes
<1>4. LeaseInv'
  <2>1. ASSUME NEW q \in Procs, HoldsLease(q)' PROVE HoldsLease(q)
    <3>1. lock[q].acquired /\ rclock + 1 <= lock[q].at + LeaseTtl /\ lock[q].at \in Int /\ LeaseTtl \in Int
      BY <2>1, <1>0, <1>1 DEF HoldsLease, RedisTypes
    <3> QED BY <3>1, <1>1 DEF HoldsLease
  <2>2. \A q \in Procs : LeaseIn(q, rstore[lock[q].where])' <=> LeaseIn(q, rstore[lock[q].where])
    BY <1>1 DEF LeaseIn, Token, LockKey
  <2> QED BY <2>1, <2>2, <1>0, <1>1 DEF LeaseInv
<1>5. RateInv'
  <2>1. \A s \in RedisStores : \A b \in Nat : GrantsOf(s, b)' = GrantsOf(s, b)
    BY <1>1 DEF GrantsOf
  <2>2. \A s \in RedisStores : \A b \in Nat : CounterOK(rstore[s], b, GrantsOf(s, b))'
    BY <2>1, <1>0, <1>1 DEF RateInv, CounterOK
  <2> QED BY <2>1, <2>2, <1>0, <1>1 DEF RateInv
<1>6. MarkInv'
  BY <1>0, <1>1 DEF MarkInv, MarkedIn, AdmittedOncePerTtl
<1> QED BY <1>3, <1>4, <1>5, <1>6 DEF RedisInv

\* At the server a token is in the lock's record, so its holder is one.
LEMMA OneHolderPerStore == ASSUME RedisInv PROVE LeaseExclusive
<1>0. RedisTypes /\ LeaseInv
  BY DEF RedisInv
<1>h. PICK H, S : H = {p \in Procs : HoldsLease(p)} /\ S = {p \in Procs : HoldsLease(p) /\ lock[p].where = Server}
  OBVIOUS
<1>1. \A p, q \in S : p = q
  <2> TAKE p, q \in S
  <2>1. p \in Procs /\ q \in Procs /\ LeaseIn(p, rstore[Server]) /\ LeaseIn(q, rstore[Server])
    BY <1>0, <1>h DEF LeaseInv
  <2>2. Token(p) = Token(q)
    BY <2>1 DEF LeaseIn
  <2> QED BY <2>2 DEF Token
<1>2. IsFiniteSet(S) /\ Cardinality(S) \in Nat /\ Cardinality(S) <= 1
  <2>1. CASE S = {}
    BY <2>1, FS_EmptySet
  <2>2. CASE S # {}
    <3>1. PICK x : x \in S
      BY <2>2
    <3>2. S = {x}
      BY <3>1, <1>1
    <3>3. IsFiniteSet({x}) /\ Cardinality({x}) = 1
      BY FS_Singleton
    <3> QED BY <3>2, <3>3
  <2> QED BY <2>1, <2>2
<1>3. IsFiniteSet(degraded) /\ Cardinality(degraded) \in Nat
  <2>1. IsFiniteSet(degraded)
    BY <1>0, ProcsAssumption, FS_Subset DEF RedisTypes
  <2> QED BY <2>1, FS_CardinalityType
<1>4. H \subseteq S \cup degraded
  <2>1. \A p \in Procs : HoldsLease(p) => lock[p].where = Server \/ p \in degraded
    BY <1>0 DEF LeaseInv, HoldsLease
  <2> QED BY <1>h, <2>1
<1>5. /\ IsFiniteSet(S \cup degraded) /\ Cardinality(S \cap degraded) \in Nat
      /\ Cardinality(S \cup degraded) = Cardinality(S) + Cardinality(degraded) - Cardinality(S \cap degraded)
  <2>1. /\ IsFiniteSet(S \cup degraded)
        /\ Cardinality(S \cup degraded) = Cardinality(S) + Cardinality(degraded) - Cardinality(S \cap degraded)
    BY <1>2, <1>3, FS_Union
  <2>2. IsFiniteSet(S \cap degraded)
    BY <1>2, FS_Subset
  <2>3. Cardinality(S \cap degraded) \in Nat
    BY <2>2, FS_CardinalityType
  <2> QED BY <2>1, <2>3
<1>6. Cardinality(H) \in Nat /\ Cardinality(H) <= Cardinality(S \cup degraded)
  <2>1. IsFiniteSet(H) /\ Cardinality(H) <= Cardinality(S \cup degraded)
    BY <1>4, <1>5, FS_Subset
  <2> QED BY <2>1, FS_CardinalityType
<1>7. Cardinality(H) <= 1 + Cardinality(degraded)
  BY <1>2, <1>3, <1>5, <1>6
<1> QED BY <1>2, <1>7, <1>h DEF LeaseExclusive

\* A span of a window's length meets two buckets of a store.
LEMMA GrantsOfSpans == ASSUME RedisInv PROVE GrantsWithinLimit
<1> USE RedisAssumption
<1>0. RedisTypes /\ RateInv
  BY DEF RedisInv
<1>1. ASSUME NEW s \in DOMAIN rstore, NEW at \in 0..rclock
      PROVE LET mine == {g \in granted : g.where = s} IN
            /\ Cardinality({g \in mine : g.bucket = at \div BucketLength}) <= BucketLimit
            /\ Cardinality({g \in mine : g.at \in at..(at + BucketLength - 1)}) <= 2 * BucketLimit
  <2>1. s \in RedisStores /\ at \in Nat
    BY <1>0 DEF RedisTypes
  <2>2. PICK b \in Nat : b = at \div BucketLength
    BY <2>1, BucketIsNat
  <2>3. PICK A, B, S : /\ A = GrantsOf(s, b) /\ B = GrantsOf(s, b + 1)
                       /\ S = {g \in {h \in granted : h.where = s} : g.at \in at..(at + BucketLength - 1)}
    OBVIOUS
  <2>4. IsFiniteSet(A) /\ IsFiniteSet(B) /\ Cardinality(A) <= BucketLimit /\ Cardinality(B) <= BucketLimit
    <3>1. IsFiniteSet(A) /\ IsFiniteSet(B)
      BY <1>0, <2>3, FS_Subset DEF RateInv, GrantsOf
    <3>2. b + 1 \in Nat
      OBVIOUS
    <3> QED BY <3>1, <3>2, <1>0, <2>1, <2>3 DEF RateInv
  <2>5. S \subseteq A \cup B
    <3>1. ASSUME NEW g \in S PROVE g \in A \cup B
      <4>1. g \in granted /\ g.where = s /\ g.at \in at..(at + BucketLength - 1) /\ g.bucket = g.at \div BucketLength
        BY <2>3, <1>0 DEF RateInv
      <4>2. g.bucket = b \/ g.bucket = b + 1
        BY <4>1, <2>1, <2>2, SpanOfBuckets
      <4> QED BY <4>1, <4>2, <2>3 DEF GrantsOf
    <3> QED BY <3>1
  <2>6. Cardinality(A) \in Nat /\ Cardinality(B) \in Nat /\ Cardinality(A \cap B) \in Nat
    <3>1. IsFiniteSet(A \cap B)
      BY <2>4, FS_Subset
    <3> QED BY <2>4, <3>1, FS_CardinalityType
  <2>7. IsFiniteSet(A \cup B) /\ Cardinality(A \cup B) = Cardinality(A) + Cardinality(B) - Cardinality(A \cap B)
    BY <2>4, FS_Union
  <2>8. Cardinality(S) \in Nat /\ Cardinality(S) <= Cardinality(A \cup B)
    <3>1. IsFiniteSet(S) /\ Cardinality(S) <= Cardinality(A \cup B)
      BY <2>5, <2>7, FS_Subset
    <3> QED BY <3>1, FS_CardinalityType
  <2>9. Cardinality(S) <= 2 * BucketLimit
    BY <2>4, <2>6, <2>7, <2>8
  <2>10. {g \in {h \in granted : h.where = s} : g.bucket = at \div BucketLength} = A
    BY <2>2, <2>3 DEF GrantsOf
  <2> QED BY <2>3, <2>4, <2>9, <2>10
<1> QED BY <1>1 DEF GrantsWithinLimit

\* The four invariants follow from the inductive one.
LEMMA RedisInvImplies == RedisInv => RedisTypeOK /\ LeaseExclusive /\ GrantsWithinLimit /\ AdmittedOncePerTtl
<1> SUFFICES ASSUME RedisInv PROVE RedisTypeOK /\ LeaseExclusive /\ GrantsWithinLimit /\ AdmittedOncePerTtl
  OBVIOUS
<1>1. RedisTypes /\ MarkInv
  BY DEF RedisInv
<1>2. RedisTypeOK
  <2>1. rclock \in Nat
    BY <1>1, RedisAssumption DEF RedisTypes
  <2>2. Bucket \in Nat
    BY <2>1, BucketIsNat DEF Bucket
  <2>3. \A p \in Procs : pendingTtl[p] \in {Never} \cup 0..Bucket /\ lock[p].nth \in 0..MaxAcquires
    BY <1>1, <2>2 DEF RedisTypes
  <2> QED BY <1>1, <2>3 DEF RedisTypes, RedisTypeOK, RedisStores
<1>3. AdmittedOncePerTtl
  BY <1>1 DEF MarkInv
<1> QED BY <1>2, <1>3, OneHolderPerStore, GrantsOfSpans

\* Whatever a process does to the stores, a lease that has not run out and is
\* not its own is in its store afterwards.
LEMMA RedisStepKeepsLeases ==
  ASSUME RedisInv, RedisInv', NEW p \in Procs, HoldsLease(p), lock'[p] = lock[p],
         rclock' = rclock \/ rstore' = rstore
  PROVE  /\ LockKey \in DOMAIN rstore'[lock[p].where]
         /\ rstore'[lock[p].where][LockKey].val = Token(p)
<1>1. LeaseIn(p, rstore[lock[p].where])
  BY DEF RedisInv, LeaseInv
<1>2. CASE rstore' = rstore
  BY <1>1, <1>2 DEF LeaseIn
<1>3. CASE rclock' = rclock
  <2>1. HoldsLease(p)'
    BY <1>3 DEF HoldsLease
  <2>2. LeaseIn(p, rstore[lock[p].where])'
    BY <2>1 DEF RedisInv, LeaseInv
  <2> QED BY <2>2 DEF LeaseIn, Token
<1> QED BY <1>2, <1>3

\* Processes that share a lease, a limiter and marks through Redis, any number
\* of them and with any of the three uses at any time: at most one lease at the
\* server and one more for each client that has degraded; at most the limit
\* granted in a bucket by a store and twice the limit in any span of a bucket's
\* length; one admission per TTL and store; and no command, a late release
\* included, takes away a lease that has not run out (redis_client.py,
\* redis_dedup.py).
THEOREM RedisCorrect == RedisSpec => RedisSafe
<1> USE RedisAssumption
<1> DEFINE Use == \E use \in {"lock", "rate", "mark"} : RedisNext(use)
<1>1. RedisInit => RedisInv
  <2> SUFFICES ASSUME RedisInit PROVE RedisInv
    OBVIOUS
  <2>1. /\ rclock = 0 /\ degraded = {} /\ granted = {} /\ requests = 0 /\ admitted = {}
        /\ rstore = [s \in RedisStores |-> EmptyDict]
        /\ lock = [p \in Procs |-> NotHeld] /\ pendingTtl = [p \in Procs |-> Never]
    BY DEF RedisInit, RedisStores
  <2>2. \A s \in RedisStores : rstore[s] = EmptyDict
    BY <2>1
  <2>3. \A x : x \notin DOMAIN EmptyDict
    BY DEF EmptyDict
  <2>4. RedisTypes
    BY <2>1, <2>2, <2>3 DEF RedisTypes, NotHeld, Never, RedisStores
  <2>5. LeaseInv
    BY <2>1 DEF LeaseInv, NotHeld, HoldsLease
  <2>6. RateInv
    <3>1. \A s, b : GrantsOf(s, b) = {}
      BY <2>1 DEF GrantsOf
    <3>2. \A s \in RedisStores : \A b : CounterOK(rstore[s], b, GrantsOf(s, b))
      BY <2>2, <2>3, <3>1 DEF CounterOK
    <3>3. IsFiniteSet({}) /\ Cardinality({}) = 0
      BY FS_EmptySet
    <3>4. 0 <= BucketLimit
      OBVIOUS
    <3> QED BY <2>1, <3>1, <3>2, <3>3, <3>4 DEF RateInv
  <2>7. MarkInv
    BY <2>1 DEF MarkInv, AdmittedOncePerTtl
  <2> QED BY <2>4, <2>5, <2>6, <2>7 DEF RedisInv
<1>2. RedisInv /\ [Use]_redisVars => RedisInv'
  <2> SUFFICES ASSUME RedisInv, [Use]_redisVars PROVE RedisInv'
    OBVIOUS
  <2>1. CASE UNCHANGED redisVars
    <3>1. UNCHANGED <<rclock, rstore, degraded, lock, pendingTtl, granted, requests, admitted>>
      BY <2>1 DEF redisVars
    <3>2. RedisTypes' /\ LeaseInv' /\ MarkInv'
      BY <3>1 DEF RedisInv, RedisTypes, Bucket, LeaseInv, HoldsLease, LeaseIn, Token,
                  MarkInv, MarkedIn, AdmittedOncePerTtl
    <3>3. RateInv'
      <4>1. \A s \in RedisStores : \A b \in Nat : GrantsOf(s, b)' = GrantsOf(s, b)
        BY <3>1 DEF GrantsOf
      <4>2. \A s \in RedisStores : \A b \in Nat : CounterOK(rstore[s], b, GrantsOf(s, b))'
        BY <3>1, <4>1 DEF RedisInv, RateInv, CounterOK
      <4> QED BY <3>1, <4>1, <4>2 DEF RedisInv, RateInv
    <3> QED BY <3>2, <3>3 DEF RedisInv
  <2>2. CASE RedisTick
    BY <2>2, RedisTickKeeps
  <2>3. ASSUME NEW p \in Procs,
               \/ acquire(p) \/ release(p) \/ is_allowed(p) \/ SetTtl(p)
               \/ check_and_mark_async(p) \/ mark_seen_async(p)
        PROVE RedisInv'
    BY <2>3, AcquireKeeps, ReleaseKeeps, AllowedKeeps, SetTtlKeeps, CheckAndMarkKeeps, MarkSeenKeeps
  <2> QED BY <2>1, <2>2, <2>3 DEF RedisNext
<1>3. RedisInv /\ RedisInv' /\ [Use]_redisVars =>
        [\A p \in Procs :
           HoldsLease(p) /\ lock'[p] = lock[p] /\ Alive(rstore[lock[p].where], LockKey)
             /\ rstore[lock[p].where][LockKey].val = Token(p) =>
               /\ LockKey \in DOMAIN rstore'[lock[p].where]
               /\ rstore'[lock[p].where][LockKey].val = Token(p)]_redisVars
  <2> SUFFICES ASSUME RedisInv, RedisInv', Use, NEW p \in Procs, HoldsLease(p), lock'[p] = lock[p]
               PROVE  /\ LockKey \in DOMAIN rstore'[lock[p].where]
                      /\ rstore'[lock[p].where][LockKey].val = Token(p)
    OBVIOUS
  <2>1. RedisTick => rstore' = rstore
    BY DEF RedisTick
  <2>2. ASSUME NEW q \in Procs,
               \/ acquire(q) \/ release(q) \/ is_allowed(q) \/ SetTtl(q)
               \/ check_and_mark_async(q) \/ mark_seen_async(q)
        PROVE rclock' = rclock
    BY <2>2 DEF acquire, release, is_allowed, SetTtl, check_and_mark_async, mark_seen_async
  <2>3. rclock' = rclock \/ rstore' = rstore
    BY <2>1, <2>2 DEF RedisNext
  <2> QED BY <2>3, RedisStepKeepsLeases
<1> QED
  BY <1>1, <1>2, <1>3, RedisInvImplies, PTL DEF RedisSpec, RedisSafe, ReleaseTakesOwnLeaseOnly

-----------------------------------------------------------------------------
(***************************************************************************)
(* The threat-intelligence manager.  What it has heard from a provider is  *)
(* the row of the calls that have ended; what is left in a bucket is what  *)
(* the calls so far have left of it; and the cache is the end of the row   *)
(* of the indicators answered, without the one that is being looked up.    *)
(***************************************************************************)
CallOut == [start : Nat, end : Nat, ok : BOOLEAN]
Ring(p) == IF lookup.pc = "asked" /\ Asking = p THEN Len(calls[p]) - 1 ELSE Len(calls[p])
Row(p) == [i \in 1..Ring(p) |-> [at |-> calls[p][i].end, ok |-> calls[p][i].ok]]

LookupOK ==
  /\ lookup \in [pc : {"idle", "next", "asked"}, key : Indicators \cup {NoKey}, i : 0..(Len(Providers) + 1)]
  /\ lookup.pc # "idle" => lookup.key \in Indicators /\ lookup.i > 0
  /\ lookup.pc = "asked" => /\ lookup.i <= Len(Providers) /\ Len(calls[Asking]) > 0
                            /\ breaker[Asking].state # "OPEN"

\* A breaker has heard of the calls that ended.
ProvidersHeard ==
  /\ breaker = [p \in Names |-> breaker[p]] /\ calls \in [Names -> Seq(CallOut)]
  /\ \A p \in Names : Heard(breaker[p], Row(p), inow) /\ breaker[p].since <= inow

\* A call that was made has taken a token which is not back before its time.
Spent(l, c) ==
  /\ \A i \in DOMAIN c :
       /\ c[i].start <= l.refilled
       /\ (Len(c) - i + 1) * Minute + l.tokens <= Full + (l.refilled - c[i].start) * MaxQueries
  /\ \A i, j \in DOMAIN c :
       i <= j => (j - i + 1) * Minute <= Full + (c[j].start - c[i].start) * MaxQueries

TokensOK ==
  /\ limiter \in [Names -> [tokens : 0..Full, refilled : Nat]]
  /\ \A p \in Names : limiter[p].refilled <= inow /\ Spent(limiter[p], calls[p])

\* c is the end of u.
EndOf(c, u) ==
  /\ Len(c) <= Len(u)
  /\ \A i \in 1..Len(c) : c[i].key = u[Len(u) - Len(c) + i]

Once(u) == \A i, j \in DOMAIN u : u[i] = u[j] => i = j
CacheRow == [key : Indicators, at : Nat]

RecentOK ==
  /\ rcache \in Seq(CacheRow) /\ used \in Seq(Indicators) /\ Once(used) /\ Len(rcache) <= MaxSize
  /\ \A i \in DOMAIN rcache : rcache[i].at <= inow
  /\ lookup.pc = "idle" => EndOf(rcache, used) /\ (Len(rcache) = Len(used) \/ Len(rcache) = MaxSize)
  /\ lookup.pc # "idle" =>
       LET o == Others(used, lookup.key) IN
       EndOf(rcache, o) /\ (Len(rcache) = Len(o) \/ Len(rcache) >= MaxSize - 1)

ManagerInv == inow \in 0..MaxIntelTime /\ LookupOK /\ ProvidersHeard /\ TokensOK /\ RecentOK

\* A bucket's size and the registered providers.
LEMMA Sizes == /\ Minute \in Nat \ {0} /\ MaxQueries \in Nat \ {0} /\ MaxSize \in Nat \ {0} /\ Full \in Nat
               /\ Ttl \in Nat /\ MaxIntelTime \in Nat
BY PositiveAssumption, IntelNatAssumption DEF Full

\* Arithmetic of rates.
LEMMA Products == \A a, b, c \in Int : a * c \in Int /\ (a + b) * c = a * c + b * c
OBVIOUS

\* Some provider is being asked.
LEMMA AskingIsRegistered ==
  ASSUME LookupOK, lookup.pc # "idle", lookup.i <= Len(Providers)
  PROVE  Asking \in Names
<1>1. Len(Providers) \in Nat /\ DOMAIN Providers = 1..Len(Providers)
  BY ProvidersAssumption, LenProperties
<1> QED BY <1>1 DEF LookupOK, Asking, Names

\* The refilled bucket: never more than full, and never more than what flowed in.
LEMMA RefillIsBounded ==
  ASSUME NEW l \in [tokens : 0..Full, refilled : Nat], inow \in Nat, l.refilled <= inow
  PROVE  /\ Refilled(l) \in 0..Full
         /\ Refilled(l) <= l.tokens + (inow - l.refilled) * MaxQueries
<1>1. PICK d \in Nat : d = inow - l.refilled
  OBVIOUS
<1>2. d * MaxQueries \in Nat
  BY <1>1, Sizes
<1>3. PICK e \in Nat : e = d * MaxQueries
  BY <1>2
<1> QED BY <1>1, <1>3, Sizes DEF Refilled

\* A look at the bucket, with the tokens that flowed in.
LEMMA SpentRefilled ==
  ASSUME NEW l \in [tokens : 0..Full, refilled : Nat], inow \in Nat, l.refilled <= inow,
         NEW c \in Seq(CallOut), Spent(l, c)
  PROVE  Spent([tokens |-> Refilled(l), refilled |-> inow], c)
<1> USE Sizes
<1>1. PICK r : r = Refilled(l) /\ r \in 0..Full /\ r <= l.tokens + (inow - l.refilled) * MaxQueries
  BY RefillIsBounded
<1>m. PICK m : m = [tokens |-> r, refilled |-> inow]
  OBVIOUS
<1>2. m.tokens = r /\ m.refilled = inow
  BY <1>m
<1>3. ASSUME NEW i \in DOMAIN c
      PROVE /\ c[i].start <= inow
            /\ (Len(c) - i + 1) * Minute + r <= Full + (inow - c[i].start) * MaxQueries
  <2>1. c[i] \in CallOut /\ i \in Nat /\ Len(c) \in Nat
    BY ElementOfSeq, LenProperties
  <2>2. PICK a \in Nat : a = c[i].start
    BY <2>1 DEF CallOut
  <2>3. a <= l.refilled /\ (Len(c) - i + 1) * Minute + l.tokens <= Full + (l.refilled - a) * MaxQueries
    BY <2>2 DEF Spent
  <2>0. l.refilled \in Nat /\ l.tokens \in Nat
    OBVIOUS
  <2>4. PICK k \in Int, d \in Int, g \in Int : k = Len(c) - i + 1 /\ d = l.refilled - a /\ g = inow - l.refilled
    BY <2>0, <2>1, <2>2
  <2>8. d + g = inow - a
    BY <2>0, <2>2, <2>4
  <2>5. /\ k * Minute \in Int /\ d * MaxQueries \in Int /\ g * MaxQueries \in Int
        /\ (d + g) * MaxQueries = d * MaxQueries + g * MaxQueries
    BY Products
  <2>6. r <= l.tokens + g * MaxQueries /\ k * Minute + l.tokens <= Full + d * MaxQueries
    BY <1>1, <2>3, <2>4
  <2>7. k * Minute + r <= Full + (d + g) * MaxQueries
    BY <2>0, <2>5, <2>6, <1>1
  <2>9. a <= inow
    BY <2>0, <2>2, <2>3
  <2> QED BY <2>2, <2>4, <2>7, <2>8, <2>9
<1>4. Spent(m, c)
  BY <1>2, <1>3 DEF Spent
<1> QED BY <1>1, <1>m, <1>4

\* A token is taken for a call that starts now.
LEMMA SpentCall ==
  ASSUME NEW l, l.tokens \in 0..Full, l.refilled = inow, inow \in Nat, l.tokens >= Minute,
         NEW c \in Seq(CallOut), Spent(l, c), NEW e \in CallOut, e.start = inow
  PROVE  Spent([tokens |-> l.tokens - Minute, refilled |-> inow], Append(c, e))
<1> USE Sizes
<1>m. PICK m : m = [tokens |-> l.tokens - Minute, refilled |-> inow]
  OBVIOUS
<1>1. m.tokens = l.tokens - Minute /\ m.refilled = inow
  BY <1>m
<1>2. PICK n \in Nat : n = Len(c)
  BY LenProperties
<1>3. PICK f : /\ f = Append(c, e) /\ Len(f) = n + 1 /\ DOMAIN f = 1..(n + 1) /\ f[n + 1] = e
               /\ \A i \in 1..n : f[i] = c[i] /\ i \in DOMAIN c
  <2>1. Append(c, e) \in Seq(CallOut) /\ Len(Append(c, e)) = n + 1 /\ Append(c, e)[n + 1] = e
        /\ (\A i \in 1..n : Append(c, e)[i] = c[i]) /\ DOMAIN c = 1..n
    BY <1>2, AppendProperties, LenProperties
  <2>2. DOMAIN Append(c, e) = 1..(n + 1)
    BY <2>1, LenProperties
  <2> QED BY <2>1, <2>2
<1>4. \A i \in 1..n : f[i] \in CallOut /\ f[i].start \in Nat
  <2>1. \A i \in 1..n : c[i] \in CallOut
    BY <1>2, ElementOfSeq
  <2> QED BY <2>1, <1>3 DEF CallOut
<1>5. ASSUME NEW i \in 1..n
      PROVE /\ f[i].start <= inow
            /\ (n - i + 1) * Minute + l.tokens <= Full + (inow - f[i].start) * MaxQueries
  BY <1>2, <1>3 DEF Spent
<1>6. ASSUME NEW i \in 1..n
      PROVE (n + 1 - i + 1) * Minute = (n - i + 1) * Minute + Minute
  <2>1. PICK k \in Int : k = n - i + 1 /\ n + 1 - i + 1 = k + 1
    OBVIOUS
  <2>2. (k + 1) * Minute = k * Minute + 1 * Minute /\ 1 * Minute = Minute
    BY Products
  <2> QED BY <2>1, <2>2
<1>7. ASSUME NEW i \in 1..(n + 1)
      PROVE /\ f[i].start <= inow
            /\ (n + 1 - i + 1) * Minute + m.tokens <= Full + (inow - f[i].start) * MaxQueries
  <2>1. CASE i = n + 1
    <3>1. f[i].start = inow /\ (n + 1 - i + 1) * Minute = Minute /\ (inow - f[i].start) * MaxQueries = 0
      BY <2>1, <1>3
    <3> QED BY <3>1, <1>1
  <2>2. CASE i # n + 1
    <3>1. i \in 1..n
      BY <2>2
    <3>2. PICK x \in Int, y \in Int : x = (n - i + 1) * Minute /\ y = (inow - f[i].start) * MaxQueries
      <4>1. n - i + 1 \in Int /\ inow - f[i].start \in Int
        BY <3>1, <1>4
      <4> QED BY <4>1, Products
    <3> QED BY <3>1, <3>2, <1>1, <1>5, <1>6
  <2> QED BY <2>1, <2>2
<1>8. ASSUME NEW i \in 1..(n + 1), NEW j \in 1..(n + 1), i <= j
      PROVE (j - i + 1) * Minute <= Full + (f[j].start - f[i].start) * MaxQueries
  <2>1. CASE j # n + 1
    <3>1. i \in DOMAIN c /\ j \in DOMAIN c /\ f[i] = c[i] /\ f[j] = c[j]
      BY <2>1, <1>8, <1>3
    <3> QED BY <3>1, <1>8 DEF Spent
  <2>2. CASE j = n + 1
    <3>1. f[j].start = inow
      BY <2>2, <1>3
    <3>2. f[i].start \in Nat
      BY <1>3, <1>4
    <3>3. PICK x \in Int, y \in Int : x = (j - i + 1) * Minute /\ y = (inow - f[i].start) * MaxQueries
      <4>1. j - i + 1 \in Int /\ inow - f[i].start \in Int
        BY <3>2
      <4> QED BY <4>1, Products
    <3>4. x + m.tokens <= Full + y
      BY <3>3, <2>2, <1>7
    <3>5. PICK t \in Nat : t = m.tokens
      BY <1>1
    <3>6. x <= Full + y
      BY <3>4, <3>5
    <3> QED BY <3>1, <3>3, <3>6
  <2> QED BY <2>1, <2>2
<1>9. Spent(m, f)
  <2>1. \A i \in DOMAIN f :
          /\ f[i].start <= m.refilled
          /\ (Len(f) - i + 1) * Minute + m.tokens <= Full + (m.refilled - f[i].start) * MaxQueries
    BY <1>1, <1>3, <1>7
  <2>2. \A i, j \in DOMAIN f :
          i <= j => (j - i + 1) * Minute <= Full + (f[j].start - f[i].start) * MaxQueries
    BY <1>3, <1>8
  <2> QED BY <2>1, <2>2 DEF Spent
<1> QED BY <1>m, <1>3, <1>9

\* That the call ends changes none of this.
LEMMA SpentEnded ==
  ASSUME NEW l, NEW c, NEW d, Spent(l, c), Len(d) = Len(c), DOMAIN d = DOMAIN c,
         \A i \in DOMAIN c : d[i].start = c[i].start
  PROVE  Spent(l, d)
BY DEF Spent

\* del of an OrderedDict's entry.
LEMMA DeletedAt ==
  ASSUME NEW S, NEW s \in Seq(S), NEW i \in DOMAIN s
  PROVE  LET d == DelAt(s, i) IN
         /\ d \in Seq(S) /\ Len(d) = Len(s) - 1 /\ DOMAIN d = 1..(Len(s) - 1) /\ Len(d) \in Nat
         /\ \A k \in 1..(Len(s) - 1) : d[k] = IF k < i THEN s[k] ELSE s[k + 1]
<1>1. PICK n \in Nat : n = Len(s) /\ DOMAIN s = 1..n
  BY LenProperties
<1>2. PICK d : d = [k \in 1..(n - 1) |-> IF k < i THEN s[k] ELSE s[k + 1]]
  OBVIOUS
<1>3. DelAt(s, i) = d
  BY <1>1, <1>2 DEF DelAt
<1>4. n - 1 \in Nat /\ \A k \in 1..n : s[k] \in S
  BY <1>1, ElementOfSeq
<1>5. d \in [1..(n - 1) -> S]
  BY <1>2, <1>4, <1>1
<1>6. d \in Seq(S) /\ Len(d) = n - 1 /\ DOMAIN d = 1..(n - 1)
  BY <1>4, <1>5, IsASeq, LenProperties
<1>7. \A k \in 1..(n - 1) : d[k] = IF k < i THEN s[k] ELSE s[k + 1]
  BY <1>2
<1> QED BY <1>1, <1>3, <1>4, <1>6, <1>7

\* The keys but k.
LEMMA OthersAre ==
  ASSUME NEW S, NEW u \in Seq(S), Once(u), NEW k
  PROVE  LET o == Others(u, k) IN
         /\ o \in Seq(S) /\ Once(o) /\ \A i \in DOMAIN o : o[i] # k
         /\ \/ o = u /\ \A i \in DOMAIN u : u[i] # k
            \/ \E h \in DOMAIN u : u[h] = k /\ o = DelAt(u, h)
<1>1. CASE ~\E i \in DOMAIN u : u[i] = k
  BY <1>1 DEF Others
<1>2. CASE \E i \in DOMAIN u : u[i] = k
  <2>1. PICK h : h = CHOOSE i \in DOMAIN u : u[i] = k
    OBVIOUS
  <2>2. h \in DOMAIN u /\ u[h] = k
    BY <1>2, <2>1
  <2>3. PICK o : o = DelAt(u, h)
    OBVIOUS
  <2>4. Others(u, k) = o
    BY <1>2, <2>1, <2>3 DEF Others
  <2>5. PICK n \in Nat : n = Len(u) /\ DOMAIN u = 1..n
    BY LenProperties
  <2>6. /\ o \in Seq(S) /\ DOMAIN o = 1..(n - 1)
        /\ \A j \in 1..(n - 1) : o[j] = IF j < h THEN u[j] ELSE u[j + 1]
    BY <2>2, <2>3, <2>5, DeletedAt
  <2>7. Once(o)
    <3>1. ASSUME NEW i \in 1..(n - 1), NEW j \in 1..(n - 1), o[i] = o[j] PROVE i = j
      <4>1. PICK a \in 1..n, b \in 1..n : /\ a = (IF i < h THEN i ELSE i + 1) /\ b = (IF j < h THEN j ELSE j + 1)
        BY <2>2, <2>5
      <4>2. o[i] = u[a] /\ o[j] = u[b]
        BY <4>1, <2>6
      <4>3. a = b
        BY <4>2, <3>1, <2>5 DEF Once
      <4> QED BY <4>1, <4>3, <2>2, <2>5
    <3> QED BY <3>1, <2>6 DEF Once
  <2>8. \A i \in DOMAIN o : o[i] # k
    <3> SUFFICES ASSUME NEW i \in 1..(n - 1), o[i] = k PROVE FALSE
      BY <2>6
    <3>1. PICK a \in 1..n : a = (IF i < h THEN i ELSE i + 1) /\ o[i] = u[a]
      BY <2>2, <2>5, <2>6
    <3>2. a = h
      BY <3>1, <2>2, <2>5 DEF Once
    <3> QED BY <3>1, <3>2, <2>2, <2>5
  <2> QED BY <2>2, <2>3, <2>4, <2>6, <2>7, <2>8
<1> QED BY <1>1, <1>2

\* The cache without k is the end of the keys without k.
LEMMA CacheWithout ==
  ASSUME rcache \in Seq(CacheRow), used \in Seq(Indicators), Once(used), EndOf(rcache, used), NEW k
  PROVE  LET c == Without(k) o == Others(used, k) IN
         /\ c \in Seq(CacheRow) /\ EndOf(c, o)
         /\ \A j \in DOMAIN c : \E i \in DOMAIN rcache : c[j] = rcache[i]
         /\ \/ /\ Len(c) = Len(rcache) /\ (Len(o) = Len(used) \/ (Len(o) = Len(used) - 1 /\ Len(rcache) < Len(used)))
               /\ \A i \in DOMAIN rcache : rcache[i].key # k
            \/ Len(c) = Len(rcache) - 1 /\ Len(o) = Len(used) - 1
<1>1. PICK n \in Nat, R \in Nat : n = Len(used) /\ R = Len(rcache) /\ DOMAIN used = 1..n /\ DOMAIN rcache = 1..R /\ R <= n
  BY LenProperties DEF EndOf
<1>2. \A i \in 1..R : rcache[i].key = used[n - R + i] /\ n - R + i \in 1..n
  BY <1>1 DEF EndOf
<1>o. PICK o, c : o = Others(used, k) /\ c = Without(k)
  OBVIOUS
<1>3. CASE \E i \in DOMAIN rcache : rcache[i].key = k
  <2>1. PICK i : i = CHOOSE x \in DOMAIN rcache : rcache[x].key = k
    OBVIOUS
  <2>2. i \in 1..R /\ rcache[i].key = k
    BY <1>1, <1>3, <2>1
  <2>3. c = DelAt(rcache, i)
    BY <1>3, <1>o, <2>1 DEF Without
  <2>4. PICK h \in 1..n : used[h] = k /\ o = DelAt(used, h)
    <3>1. used[n - R + i] = k /\ n - R + i \in DOMAIN used
      BY <2>2, <1>1, <1>2
    <3> QED BY <3>1, <1>1, <1>o, OthersAre
  <2>5. h = n - R + i
    BY <2>2, <2>4, <1>1, <1>2 DEF Once
  <2>6. /\ c \in Seq(CacheRow) /\ Len(c) = R - 1 /\ DOMAIN c = 1..(R - 1)
        /\ \A j \in 1..(R - 1) : c[j] = IF j < i THEN rcache[j] ELSE rcache[j + 1]
    BY <2>2, <2>3, <1>1, DeletedAt
  <2>7. /\ Len(o) = n - 1 /\ \A j \in 1..(n - 1) : o[j] = IF j < h THEN used[j] ELSE used[j + 1]
    BY <2>4, <1>1, DeletedAt
  <2>8. EndOf(c, o)
    <3>1. ASSUME NEW j \in 1..(R - 1) PROVE c[j].key = o[(n - 1) - (R - 1) + j]
      <4>1. (n - 1) - (R - 1) + j = n - R + j /\ n - R + j \in 1..(n - 1)
        BY <1>1
      <4>2. CASE j < i
        <5>1. c[j] = rcache[j] /\ j \in 1..R /\ n - R + j < h
          BY <4>2, <2>2, <2>5, <2>6
        <5> QED BY <5>1, <4>1, <1>2, <2>7
      <4>3. CASE ~(j < i)
        <5>1. j + 1 \in 1..R /\ n - R + (j + 1) = (n - R + j) + 1
          BY <1>1
        <5>2. ~(n - R + j < h)
          BY <4>3, <1>1, <2>2, <2>5
        <5>3. c[j] = rcache[j + 1]
          BY <4>3, <2>6
        <5>4. c[j].key = used[(n - R + j) + 1]
          BY <5>1, <5>3, <1>2
        <5> QED BY <5>2, <5>4, <4>1, <2>7
      <4> QED BY <4>2, <4>3
    <3> QED BY <3>1, <2>6, <2>7, <1>1 DEF EndOf
  <2>9. \A j \in DOMAIN c : \E x \in DOMAIN rcache : c[j] = rcache[x]
    <3> SUFFICES ASSUME NEW j \in 1..(R - 1) PROVE \E x \in 1..R : c[j] = rcache[x]
      BY <2>6, <1>1
    <3>1. CASE j < i
      BY <3>1, <2>2, <2>6
    <3>2. CASE ~(j < i)
      <4>1. j + 1 \in 1..R /\ c[j] = rcache[j + 1]
        BY <3>2, <2>2, <2>6
      <4> QED BY <4>1
    <3> QED BY <3>1, <3>2
  <2> QED BY <1>1, <1>o, <2>6, <2>7, <2>8, <2>9
<1>4. CASE ~\E i \in DOMAIN rcache : rcache[i].key = k
  <2>1. c = rcache
    BY <1>4, <1>o DEF Without
  <2>2. CASE o = used
    BY <2>1, <2>2, <1>4, <1>o, <1>1
  <2>3. ASSUME NEW h \in DOMAIN used, used[h] = k, o = DelAt(used, h)
        PROVE EndOf(c, o) /\ Len(o) = n - 1 /\ R < n
    <3>1. h \in 1..(n - R)
      <4>1. SUFFICES ASSUME h > n - R PROVE FALSE
        BY <2>3, <1>1
      <4>2. PICK i \in 1..R : i = h - (n - R)
        BY <4>1, <2>3, <1>1
      <4>3. n - R + i = h
        BY <4>2, <2>3, <1>1
      <4>4. rcache[i].key = used[n - R + i]
        BY <4>2, <1>2
      <4>5. rcache[i].key = k /\ i \in DOMAIN rcache
        BY <4>2, <4>3, <4>4, <2>3, <1>1
      <4> QED BY <4>5, <1>4
    <3>2. /\ Len(o) = n - 1 /\ \A j \in 1..(n - 1) : o[j] = IF j < h THEN used[j] ELSE used[j + 1]
      BY <2>3, <1>1, DeletedAt
    <3>3. ASSUME NEW j \in 1..R PROVE c[j].key = o[(n - 1) - R + j]
      <4>1. (n - 1) - R + j \in 1..(n - 1) /\ ~((n - 1) - R + j < h) /\ ((n - 1) - R + j) + 1 = n - R + j
        BY <3>1, <1>1
      <4> QED BY <4>1, <3>2, <2>1, <1>2
    <3> QED BY <3>1, <3>2, <3>3, <2>1, <1>1 DEF EndOf
  <2>4. o = used \/ \E h \in DOMAIN used : used[h] = k /\ o = DelAt(used, h)
    BY <1>o, OthersAre
  <2> QED BY <2>1, <2>2, <2>3, <2>4, <1>1, <1>4, <1>o
<1> QED BY <1>3, <1>4

\* An entry is added at the end of both.
LEMMA EndOfAppend ==
  ASSUME NEW c \in Seq(CacheRow), NEW o \in Seq(Indicators), EndOf(c, o), NEW e \in CacheRow
  PROVE  LET d == Append(c, e) p == Append(o, e.key) IN
         /\ d \in Seq(CacheRow) /\ p \in Seq(Indicators) /\ EndOf(d, p)
         /\ Len(d) = Len(c) + 1 /\ Len(p) = Len(o) + 1
         /\ \A j \in DOMAIN d : d[j] = e \/ (j \in DOMAIN c /\ d[j] = c[j])
<1>1. PICK n \in Nat, R \in Nat : n = Len(o) /\ R = Len(c) /\ DOMAIN o = 1..n /\ DOMAIN c = 1..R /\ R <= n
  BY LenProperties DEF EndOf
<1>k. PICK k \in Indicators : k = e.key
  BY DEF CacheRow
<1>2. PICK d, p : d = Append(c, e) /\ p = Append(o, k)
  OBVIOUS
<1>3. d \in Seq(CacheRow) /\ Len(d) = R + 1 /\ d[R + 1] = e /\ \A j \in 1..R : d[j] = c[j]
  BY <1>1, <1>2, AppendProperties
<1>4. p \in Seq(Indicators) /\ Len(p) = n + 1 /\ p[n + 1] = k /\ \A j \in 1..n : p[j] = o[j]
  BY <1>1, <1>2, AppendProperties
<1>5. DOMAIN d = 1..(R + 1)
  BY <1>3, LenProperties
<1>6. ASSUME NEW j \in 1..(R + 1) PROVE d[j].key = p[(n + 1) - (R + 1) + j]
  <2>1. CASE j = R + 1
    <3>1. (n + 1) - (R + 1) + j = n + 1
      BY <2>1, <1>1
    <3> QED BY <3>1, <2>1, <1>3, <1>4, <1>k
  <2>2. CASE j # R + 1
    <3>1. j \in 1..R /\ (n + 1) - (R + 1) + j = n - R + j /\ n - R + j \in 1..n
      BY <2>2, <1>1
    <3>2. c[j].key = o[n - R + j]
      BY <3>1, <1>1 DEF EndOf
    <3> QED BY <3>1, <3>2, <1>3, <1>4
  <2> QED BY <2>1, <2>2
<1>7. EndOf(d, p)
  BY <1>1, <1>3, <1>4, <1>6 DEF EndOf
<1>8. \A j \in DOMAIN d : d[j] = e \/ (j \in DOMAIN c /\ d[j] = c[j])
  BY <1>1, <1>3, <1>5
<1> QED BY <1>1, <1>2, <1>3, <1>4, <1>7, <1>8, <1>k

\* The least recently used entry goes.
LEMMA EndOfTail ==
  ASSUME NEW c \in Seq(CacheRow), NEW o \in Seq(Indicators), EndOf(c, o), Len(c) > 0
  PROVE  LET d == Tail(c) IN
         /\ d \in Seq(CacheRow) /\ EndOf(d, o) /\ Len(d) = Len(c) - 1
         /\ \A j \in DOMAIN d : j + 1 \in DOMAIN c /\ d[j] = c[j + 1]
<1>1. PICK n \in Nat, R \in Nat : n = Len(o) /\ R = Len(c) /\ DOMAIN o = 1..n /\ DOMAIN c = 1..R /\ R <= n /\ R > 0
  BY LenProperties DEF EndOf
<1>2. c # <<>>
  <2>1. \A t : t = <<>> => Len(t) = 0
    OBVIOUS
  <2> QED BY <2>1, <1>1
<1>3. PICK d : d = Tail(c)
  OBVIOUS
<1>4. d \in Seq(CacheRow) /\ Len(d) = R - 1 /\ \A i \in 1..(R - 1) : d[i] = c[i + 1]
  BY <1>1, <1>2, <1>3, HeadTailProperties
<1>5. DOMAIN d = 1..(R - 1)
  BY <1>4, LenProperties
<1>6. ASSUME NEW j \in 1..(R - 1) PROVE d[j].key = o[n - (R - 1) + j]
  <2>1. d[j] = c[j + 1] /\ j + 1 \in 1..R /\ n - R + (j + 1) = n - (R - 1) + j
    BY <1>1, <1>4
  <2> QED BY <2>1, <1>1 DEF EndOf
<1>7. EndOf(d, o)
  BY <1>1, <1>4, <1>6 DEF EndOf
<1> QED BY <1>1, <1>3, <1>4, <1>5, <1>7

\* A key that is new stays the only one of its kind.
LEMMA OnceAppended ==
  ASSUME NEW S, NEW o \in Seq(S), Once(o), NEW k \in S, \A i \in DOMAIN o : o[i] # k
  PROVE  Once(Append(o, k))
<1>1. PICK n \in Nat : n = Len(o) /\ DOMAIN o = 1..n
  BY LenProperties
<1>2. PICK p : p = Append(o, k)
  OBVIOUS
<1>3. p \in Seq(S) /\ Len(p) = n + 1 /\ p[n + 1] = k /\ \A j \in 1..n : p[j] = o[j]
  BY <1>1, <1>2, AppendProperties
<1>4. DOMAIN p = 1..(n + 1)
  BY <1>3, LenProperties
<1>5. ASSUME NEW i \in 1..(n + 1), NEW j \in 1..(n + 1), p[i] = p[j] PROVE i = j
  BY <1>1, <1>3, <1>5 DEF Once
<1> QED BY <1>2, <1>4, <1>5 DEF Once

\* The inputs of a look-up are of no concern to what it says of the rest: frames.
LEMMA HeardFrame ==
  ASSUME ProvidersHeard, LookupOK, LookupOK', NEW p, UNCHANGED inow, inow \in Nat,
         calls' \in [Names -> Seq(CallOut)], breaker' = [q \in Names |-> breaker'[q]],
         \A q \in Names : q # p => calls'[q] = calls[q] /\ breaker'[q] = breaker[q] /\ Ring(q)' = Ring(q),
         p \in Names => Heard(breaker'[p], Row(p)', inow) /\ breaker'[p].since <= inow
  PROVE  ProvidersHeard'
<1>1. ASSUME NEW q \in Names PROVE Heard(breaker'[q], Row(q)', inow) /\ breaker'[q].since <= inow
  <2>1. CASE q # p
    <3>1. Row(q)' = Row(q)
      BY <2>1 DEF Row
    <3> QED BY <3>1, <2>1 DEF ProvidersHeard
  <2>2. CASE q = p
    BY <2>2
  <2> QED BY <2>1, <2>2
<1>2. \A q \in Names : (Heard(breaker[q], Row(q), inow) /\ breaker[q].since <= inow)'
  BY <1>1 DEF Heard
<1> QED BY <1>2 DEF ProvidersHeard

\* Only the row of the provider that is being asked can be short of a call.
LEMMA RingsOfOthers ==
  ASSUME NEW p, lookup.pc = "asked" => Asking = p, lookup'.pc = "asked" => Asking' = p
  PROVE  \A q : q # p /\ calls'[q] = calls[q] => Ring(q)' = Ring(q)
BY DEF Ring

\* Where a look-up goes.
LEMMA LookupMoves ==
  ASSUME LookupOK, lookup.pc # "idle", lookup.i <= Len(Providers), NEW i, i \in {lookup.i, lookup.i + 1},
         NEW pc \in {"next", "asked"}, lookup' = At(pc, i)
  PROVE  /\ lookup' \in [pc : {"idle", "next", "asked"}, key : Indicators \cup {NoKey}, i : 0..(Len(Providers) + 1)]
         /\ lookup'.pc = pc /\ lookup'.key = lookup.key /\ lookup'.i = i /\ lookup.key \in Indicators /\ i > 0
<1>1. Len(Providers) \in Nat
  BY ProvidersAssumption, LenProperties
<1> QED BY <1>1 DEF LookupOK, At

\* Steps that leave the providers, the buckets or the cache alone.
LEMMA ManagerFrames ==
  ASSUME ManagerInv, UNCHANGED inow
  PROVE  /\ UNCHANGED <<breaker, calls>> /\ lookup.pc # "asked" /\ lookup'.pc # "asked" => ProvidersHeard'
         /\ UNCHANGED <<limiter, calls>> => TokensOK'
         /\ UNCHANGED <<rcache, used>> /\ lookup.pc # "idle" /\ lookup'.pc # "idle" /\ lookup'.key = lookup.key
              => RecentOK'
<1>1. ASSUME UNCHANGED <<breaker, calls>>, lookup.pc # "asked", lookup'.pc # "asked" PROVE ProvidersHeard'
  <2>1. \A q : Row(q)' = Row(q)
    BY <1>1 DEF Row, Ring
  <2>2. \A q \in Names : (Heard(breaker[q], Row(q), inow) /\ breaker[q].since <= inow)'
    BY <1>1, <2>1 DEF ManagerInv, ProvidersHeard, Heard
  <2> QED BY <1>1, <2>2 DEF ManagerInv, ProvidersHeard
<1>2. ASSUME UNCHANGED <<limiter, calls>> PROVE TokensOK'
  BY <1>2 DEF ManagerInv, TokensOK
<1>3. ASSUME UNCHANGED <<rcache, used>>, lookup.pc # "idle", lookup'.pc # "idle", lookup'.key = lookup.key
      PROVE RecentOK'
  BY <1>3 DEF ManagerInv, RecentOK
<1> QED BY <1>1, <1>2, <1>3

\* A hit moves its entry to the end.
LEMMA HitKeeps == ASSUME ManagerInv, NEW k \in Indicators, Hit(k) PROVE ManagerInv'
<1>0. inow \in 0..MaxIntelTime /\ LookupOK /\ RecentOK /\ UNCHANGED <<inow, breaker, limiter, lookup, calls>>
      /\ lookup.pc = "idle"
  BY DEF ManagerInv, Hit
<1>1. PICK e \in Entry(k) : rcache' = Append(Without(k), e)
  BY DEF Hit
<1>2. PICK x \in DOMAIN rcache : rcache[x].key = k /\ e = rcache[x]
  BY <1>1 DEF Entry
<1>3. rcache \in Seq(CacheRow) /\ used \in Seq(Indicators) /\ Once(used) /\ EndOf(rcache, used)
      /\ (Len(rcache) = Len(used) \/ Len(rcache) = MaxSize) /\ Len(rcache) <= MaxSize
      /\ \A i \in DOMAIN rcache : rcache[i].at <= inow
  BY <1>0 DEF RecentOK
<1>4. e \in CacheRow /\ e.key = k /\ e.at <= inow
  BY <1>2, <1>3, ElementOfSeq, LenProperties
<1>5. PICK c, o : c = Without(k) /\ o = Others(used, k)
  OBVIOUS
<1>6. /\ c \in Seq(CacheRow) /\ EndOf(c, o) /\ \A j \in DOMAIN c : \E i \in DOMAIN rcache : c[j] = rcache[i]
      /\ Len(c) = Len(rcache) - 1 /\ Len(o) = Len(used) - 1
  BY <1>2, <1>3, <1>5, CacheWithout
<1>7. o \in Seq(Indicators) /\ Once(o) /\ \A i \in DOMAIN o : o[i] # k
  BY <1>3, <1>5, OthersAre
<1>8. /\ rcache' \in Seq(CacheRow) /\ used' \in Seq(Indicators) /\ EndOf(rcache', used')
      /\ Len(rcache') = Len(c) + 1 /\ Len(used') = Len(o) + 1
      /\ \A j \in DOMAIN rcache' : rcache'[j] = e \/ (j \in DOMAIN c /\ rcache'[j] = c[j])
  <2>1. rcache' = Append(c, e) /\ used' = Append(o, e.key)
    BY <1>1, <1>4, <1>5 DEF Hit, Touched
  <2> QED BY <2>1, <1>4, <1>6, <1>7, EndOfAppend
<1>9. Once(used')
  <2>1. used' = Append(o, k)
    BY <1>5 DEF Hit, Touched
  <2> QED BY <2>1, <1>7, OnceAppended
<1>10. \A i \in DOMAIN rcache' : rcache'[i].at <= inow
  BY <1>3, <1>4, <1>6, <1>8
<1>11. Len(rcache') = Len(rcache) /\ Len(used') = Len(used)
  BY <1>3, <1>6, <1>8, LenProperties
<1>12. RecentOK'
  BY <1>0, <1>3, <1>8, <1>9, <1>10, <1>11 DEF RecentOK
<1>13. LookupOK'
  BY <1>0 DEF LookupOK, Asking
<1> QED BY <1>0, <1>12, <1>13, ManagerFrames DEF ManagerInv

\* A miss deletes what has expired.
LEMMA MissKeeps == ASSUME ManagerInv, NEW k \in Indicators, Miss(k) PROVE ManagerInv'
<1>0. inow \in 0..MaxIntelTime /\ LookupOK /\ RecentOK /\ UNCHANGED <<inow, breaker, limiter, calls, used>>
      /\ lookup.pc = "idle" /\ lookup' = [pc |-> "next", key |-> k, i |-> 1] /\ rcache' = Without(k)
  BY DEF ManagerInv, Miss
<1>3. rcache \in Seq(CacheRow) /\ used \in Seq(Indicators) /\ Once(used) /\ EndOf(rcache, used)
      /\ (Len(rcache) = Len(used) \/ Len(rcache) = MaxSize) /\ Len(rcache) <= MaxSize
      /\ \A i \in DOMAIN rcache : rcache[i].at <= inow
  BY <1>0 DEF RecentOK
<1>4. Len(rcache) \in Nat /\ Len(used) \in Nat
  BY <1>3, LenProperties
<1>5. PICK c, o : c = Without(k) /\ o = Others(used, k)
  OBVIOUS
<1>6. /\ c \in Seq(CacheRow) /\ EndOf(c, o) /\ \A j \in DOMAIN c : \E i \in DOMAIN rcache : c[j] = rcache[i]
      /\ \/ /\ Len(c) = Len(rcache)
            /\ Len(o) = Len(used) \/ (Len(o) = Len(used) - 1 /\ Len(rcache) < Len(used))
         \/ Len(c) = Len(rcache) - 1 /\ Len(o) = Len(used) - 1
  BY <1>3, <1>5, CacheWithout
<1>7. Len(c) <= MaxSize /\ (Len(c) = Len(o) \/ Len(c) >= MaxSize - 1)
  BY <1>3, <1>4, <1>6, Sizes
<1>8. lookup'.pc = "next" /\ lookup'.key = k /\ lookup'.i = 1
  BY <1>0
<1>9. \A j \in DOMAIN c : c[j].at <= inow
  BY <1>3, <1>6
<1>10. RecentOK'
  BY <1>0, <1>3, <1>5, <1>6, <1>7, <1>8, <1>9 DEF RecentOK
<1>11. LookupOK'
  <2>1. Len(Providers) \in Nat
    BY ProvidersAssumption, LenProperties
  <2> QED BY <1>0, <1>8, <2>1 DEF LookupOK
<1> QED BY <1>0, <1>8, <1>10, <1>11, ManagerFrames DEF ManagerInv

\* The answer is stored, and the least recently used entry goes if it must.
LEMMA StoreKeeps == ASSUME ManagerInv, Store PROVE ManagerInv'
<1> USE Sizes
<1>0. inow \in 0..MaxIntelTime /\ LookupOK /\ RecentOK /\ UNCHANGED <<inow, breaker, limiter, calls>>
      /\ lookup.pc = "next" /\ lookup' = NoLookup
  BY DEF ManagerInv, Store
<1>k. PICK k \in Indicators : k = lookup.key
  BY <1>0 DEF LookupOK
<1>e. PICK e : e = [key |-> k, at |-> inow]
  OBVIOUS
<1>o. PICK o : o = Others(used, k)
  OBVIOUS
<1>3. rcache \in Seq(CacheRow) /\ used \in Seq(Indicators) /\ Once(used) /\ EndOf(rcache, o)
      /\ (Len(rcache) = Len(o) \/ Len(rcache) >= MaxSize - 1) /\ Len(rcache) <= MaxSize
      /\ \A i \in DOMAIN rcache : rcache[i].at <= inow
  BY <1>0, <1>k, <1>o DEF RecentOK
<1>4. e \in CacheRow /\ e.key = k /\ e.at = inow
  BY <1>e, <1>0 DEF CacheRow
<1>7. o \in Seq(Indicators) /\ Once(o) /\ \A i \in DOMAIN o : o[i] # k
  BY <1>3, <1>o, OthersAre
<1>5. Len(rcache) \in Nat /\ Len(o) \in Nat
  BY <1>3, <1>7, LenProperties
<1>6. PICK c : c = IF Len(rcache) >= MaxSize THEN Tail(rcache) ELSE rcache
  OBVIOUS
<1>8. /\ c \in Seq(CacheRow) /\ EndOf(c, o) /\ Len(c) = (IF Len(rcache) >= MaxSize THEN Len(rcache) - 1 ELSE Len(rcache))
      /\ \A j \in DOMAIN c : c[j].at <= inow
  <2>1. CASE Len(rcache) >= MaxSize
    BY <2>1, <1>3, <1>5, <1>6, <1>7, EndOfTail
  <2>2. CASE ~(Len(rcache) >= MaxSize)
    BY <2>2, <1>3, <1>6
  <2> QED BY <2>1, <2>2
<1>9. rcache' = Append(c, e) /\ used' = Append(o, k)
  BY <1>6, <1>e, <1>k, <1>o DEF Store, Touched
<1>10. /\ rcache' \in Seq(CacheRow) /\ used' \in Seq(Indicators) /\ EndOf(rcache', used')
       /\ Len(rcache') = Len(c) + 1 /\ Len(used') = Len(o) + 1
       /\ \A j \in DOMAIN rcache' : rcache'[j] = e \/ (j \in DOMAIN c /\ rcache'[j] = c[j])
  BY <1>4, <1>7, <1>8, <1>9, EndOfAppend
<1>11. Once(used')
  BY <1>7, <1>9, OnceAppended
<1>12. Len(rcache') <= MaxSize /\ (Len(rcache') = Len(used') \/ Len(rcache') = MaxSize)
  BY <1>3, <1>5, <1>8, <1>10
<1>13. \A i \in DOMAIN rcache' : rcache'[i].at <= inow
  BY <1>0, <1>4, <1>8, <1>10
<1>14. lookup'.pc = "idle" /\ LookupOK'
  <2>1. Len(Providers) \in Nat
    BY ProvidersAssumption, LenProperties
  <2> QED BY <1>0, <2>1 DEF LookupOK, NoLookup
<1>15. RecentOK'
  BY <1>0, <1>10, <1>11, <1>12, <1>13, <1>14 DEF RecentOK
<1> QED BY <1>0, <1>14, <1>15, ManagerFrames DEF ManagerInv

\* A provider whose breaker is open is left out.
LEMMA SkipOpenKeeps == ASSUME ManagerInv, SkipOpen PROVE ManagerInv'
<1>0. inow \in 0..MaxIntelTime /\ LookupOK /\ lookup.pc = "next" /\ lookup.i <= Len(Providers)
      /\ UNCHANGED <<inow, breaker, limiter, rcache, calls, used>> /\ lookup' = At("next", lookup.i + 1)
  BY DEF ManagerInv, SkipOpen
<1>1. /\ lookup' \in [pc : {"idle", "next", "asked"}, key : Indicators \cup {NoKey}, i : 0..(Len(Providers) + 1)]
      /\ lookup'.pc = "next" /\ lookup'.key = lookup.key /\ lookup'.i = lookup.i + 1 /\ lookup.key \in Indicators
      /\ lookup.i + 1 > 0
  BY <1>0, LookupMoves
<1>2. LookupOK'
  BY <1>1 DEF LookupOK
<1> QED BY <1>0, <1>1, <1>2, ManagerFrames DEF ManagerInv

\* One that finds no token may leave its breaker half open.
LEMMA SkipThrottledKeeps == ASSUME ManagerInv, SkipThrottled PROVE ManagerInv'
<1>p. PICK p : p = Asking
  OBVIOUS
<1>0. /\ inow \in 0..MaxIntelTime /\ inow \in Nat /\ LookupOK /\ lookup.pc = "next" /\ lookup.i <= Len(Providers)
      /\ Allows(breaker[p], inow) /\ UNCHANGED <<inow, rcache, calls, used>>
      /\ breaker' = [breaker EXCEPT ![p] = AfterAllow(breaker[p], inow)]
      /\ limiter' = [limiter EXCEPT ![p] = [tokens |-> Refilled(limiter[p]), refilled |-> inow]]
      /\ lookup' = At("next", lookup.i + 1) /\ ProvidersHeard /\ TokensOK
  BY <1>p, Sizes DEF ManagerInv, SkipThrottled
<1>1. /\ lookup' \in [pc : {"idle", "next", "asked"}, key : Indicators \cup {NoKey}, i : 0..(Len(Providers) + 1)]
      /\ lookup'.pc = "next" /\ lookup'.key = lookup.key /\ lookup'.i = lookup.i + 1 /\ lookup.key \in Indicators
      /\ lookup.i + 1 > 0
  BY <1>0, LookupMoves
<1>2. LookupOK'
  BY <1>1 DEF LookupOK
<1>3. p \in Names
  BY <1>0, <1>p, AskingIsRegistered
<1>4. ProvidersHeard'
  <2>1. \A q : Ring(q)' = Ring(q) /\ Row(q)' = Row(q)
    BY <1>0, <1>1 DEF Ring, Row
  <2>2. Heard(breaker[p], Row(p), inow) /\ breaker[p].since <= inow /\ breaker = [q \in Names |-> breaker[q]]
    BY <1>0, <1>3 DEF ProvidersHeard
  <2>3. PICK d : d = AfterAllow(breaker[p], inow)
    OBVIOUS
  <2>4. Heard(d, Row(p), inow)
    BY <1>0, <2>2, <2>3, HeardAllow
  <2>5. d.since <= inow
    BY <2>2, <2>3, <1>0 DEF AfterAllow, Heard, BreakerRow
  <2>6. breaker' = [q \in Names |-> breaker'[q]] /\ breaker'[p] = d /\ \A q \in Names : q # p => breaker'[q] = breaker[q]
    BY <1>0, <1>3, <2>2, <2>3
  <2>7. calls' \in [Names -> Seq(CallOut)]
    BY <1>0 DEF ProvidersHeard
  <2> QED BY <1>0, <1>2, <2>1, <2>4, <2>5, <2>6, <2>7, HeardFrame
<1>5. TokensOK'
  <2>1. limiter[p] \in [tokens : 0..Full, refilled : Nat] /\ limiter[p].refilled <= inow /\ Spent(limiter[p], calls[p])
        /\ calls[p] \in Seq(CallOut) /\ limiter \in [Names -> [tokens : 0..Full, refilled : Nat]]
    BY <1>0, <1>3 DEF TokensOK, ProvidersHeard
  <2>2. PICK m : m = [tokens |-> Refilled(limiter[p]), refilled |-> inow]
    OBVIOUS
  <2>3. Spent(m, calls[p])
    BY <2>1, <2>2, <1>0, SpentRefilled
  <2>4. m \in [tokens : 0..Full, refilled : Nat] /\ m.refilled <= inow
    BY <2>1, <2>2, <1>0, RefillIsBounded
  <2>5. limiter' \in [Names -> [tokens : 0..Full, refilled : Nat]] /\ limiter'[p] = m
        /\ \A q \in Names : q # p => limiter'[q] = limiter[q]
    BY <2>1, <2>2, <2>4, <1>0, <1>3
  <2>6. \A q \in Names : limiter'[q].refilled <= inow /\ Spent(limiter'[q], calls[q])
    BY <2>3, <2>4, <2>5, <1>0 DEF TokensOK
  <2> QED BY <2>5, <2>6, <1>0 DEF TokensOK
<1>6. RecentOK'
  BY <1>0, <1>1, ManagerFrames
<1> QED BY <1>0, <1>2, <1>4, <1>5, <1>6 DEF ManagerInv

\* A call takes a token, and its breaker is not open meanwhile.
LEMMA CallKeeps == ASSUME ManagerInv, Call PROVE ManagerInv'
<1>p. PICK p : p = Asking
  OBVIOUS
<1>e. PICK e : e = [start |-> inow, end |-> inow, ok |-> TRUE]
  OBVIOUS
<1>0. /\ inow \in 0..MaxIntelTime /\ inow \in Nat /\ LookupOK /\ lookup.pc = "next" /\ lookup.i <= Len(Providers)
      /\ Allows(breaker[p], inow) /\ UNCHANGED <<inow, rcache, used>> /\ Refilled(limiter[p]) >= Minute
      /\ breaker' = [breaker EXCEPT ![p] = AfterAllow(breaker[p], inow)]
      /\ limiter' = [limiter EXCEPT ![p] = [tokens |-> Refilled(limiter[p]) - Minute, refilled |-> inow]]
      /\ calls' = [calls EXCEPT ![p] = Append(calls[p], e)]
      /\ lookup' = At("asked", lookup.i) /\ ProvidersHeard /\ TokensOK
  BY <1>p, <1>e, Sizes DEF ManagerInv, Call
<1>1. /\ lookup' \in [pc : {"idle", "next", "asked"}, key : Indicators \cup {NoKey}, i : 0..(Len(Providers) + 1)]
      /\ lookup'.pc = "asked" /\ lookup'.key = lookup.key /\ lookup'.i = lookup.i /\ lookup.key \in Indicators
      /\ lookup.i > 0
  BY <1>0, LookupMoves
<1>3. p \in Names /\ Asking' = p
  BY <1>0, <1>1, <1>p, AskingIsRegistered DEF Asking
<1>4. PICK n \in Nat : n = Len(calls[p]) /\ calls[p] \in Seq(CallOut) /\ calls \in [Names -> Seq(CallOut)]
  BY <1>0, <1>3, LenProperties DEF ProvidersHeard
<1>5. e \in CallOut /\ e.start = inow
  BY <1>0, <1>e DEF CallOut
<1>6. PICK f : /\ f = Append(calls[p], e) /\ f \in Seq(CallOut) /\ Len(f) = n + 1
               /\ \A i \in 1..n : f[i] = calls[p][i]
  <2>1. /\ Append(calls[p], e) \in Seq(CallOut) /\ Len(Append(calls[p], e)) = n + 1
        /\ \A i \in 1..n : Append(calls[p], e)[i] = calls[p][i]
    BY <1>4, <1>5, AppendProperties
  <2> QED BY <2>1
<1>7. calls' \in [Names -> Seq(CallOut)] /\ calls'[p] = f /\ \A q \in Names : q # p => calls'[q] = calls[q]
  BY <1>0, <1>3, <1>4, <1>6
<1>d. PICK d : d = AfterAllow(breaker[p], inow)
  OBVIOUS
<1>8. Heard(breaker[p], Row(p), inow) /\ breaker[p].since <= inow /\ breaker = [q \in Names |-> breaker[q]]
  BY <1>0, <1>3 DEF ProvidersHeard
<1>9. Heard(d, Row(p), inow) /\ d.state # "OPEN"
  BY <1>0, <1>8, <1>d, HeardAllow
<1>10. d.since <= inow
  BY <1>8, <1>d, <1>0 DEF AfterAllow, Heard, BreakerRow
<1>11. breaker' = [q \in Names |-> breaker'[q]] /\ breaker'[p] = d /\ \A q \in Names : q # p => breaker'[q] = breaker[q]
  BY <1>0, <1>3, <1>8, <1>d
<1>12. LookupOK'
  BY <1>0, <1>1, <1>3, <1>4, <1>6, <1>7, <1>9, <1>11 DEF LookupOK
<1>13. ProvidersHeard'
  <2>1. Ring(p) = n /\ Ring(p)' = n
    BY <1>0, <1>1, <1>3, <1>4, <1>6, <1>7 DEF Ring
  <2>2. Row(p)' = Row(p)
    BY <2>1, <1>6, <1>7 DEF Row
  <2>3. \A q \in Names : q # p => Ring(q)' = Ring(q)
    BY <1>0, <1>3, <1>7, RingsOfOthers
  <2> QED BY <1>0, <1>7, <1>9, <1>10, <1>11, <1>12, <2>2, <2>3, HeardFrame
<1>14. TokensOK'
  <2>1. limiter[p] \in [tokens : 0..Full, refilled : Nat] /\ limiter[p].refilled <= inow /\ Spent(limiter[p], calls[p])
        /\ limiter \in [Names -> [tokens : 0..Full, refilled : Nat]]
    BY <1>0, <1>3 DEF TokensOK
  <2>2. PICK r : r = Refilled(limiter[p]) /\ r \in 0..Full
    BY <2>1, <1>0, RefillIsBounded
  <2>3. PICK m : m = [tokens |-> r, refilled |-> inow]
    OBVIOUS
  <2>4. m.tokens = r /\ m.refilled = inow
    BY <2>3
  <2>5. Spent(m, calls[p])
    BY <2>1, <2>2, <2>3, <1>0, <1>4, SpentRefilled
  <2>6. PICK g : g = [tokens |-> r - Minute, refilled |-> inow]
    OBVIOUS
  <2>7. Spent(g, f)
    BY <2>2, <2>4, <2>5, <2>6, <1>0, <1>4, <1>5, <1>6, SpentCall
  <2>8. g \in [tokens : 0..Full, refilled : Nat] /\ g.refilled <= inow
    BY <2>2, <2>6, <1>0, Sizes
  <2>9. limiter' \in [Names -> [tokens : 0..Full, refilled : Nat]] /\ limiter'[p] = g
        /\ \A q \in Names : q # p => limiter'[q] = limiter[q]
    BY <2>1, <2>2, <2>6, <2>8, <1>0, <1>3
  <2>10. \A q \in Names : limiter'[q].refilled <= inow /\ Spent(limiter'[q], calls'[q])
    BY <2>7, <2>8, <2>9, <1>0, <1>7 DEF TokensOK
  <2> QED BY <2>9, <2>10, <1>0 DEF TokensOK
<1>15. RecentOK'
  BY <1>0, <1>1, ManagerFrames
<1> QED BY <1>0, <1>12, <1>13, <1>14, <1>15 DEF ManagerInv

\* A call that ends, well or badly, is heard of.
LEMMA CallEndKeeps == ASSUME ManagerInv, Answered \/ Failed PROVE ManagerInv'
<1>p. PICK p : p = Asking
  OBVIOUS
<1>b. PICK good, d :
        /\ good \in BOOLEAN /\ d = (IF good THEN AfterSuccess(breaker[p], inow) ELSE AfterFailure(breaker[p], inow))
        /\ breaker' = [breaker EXCEPT ![p] = d] /\ calls' = Ended(p, good)
  <2>1. CASE Answered
    BY <2>1, <1>p DEF Answered
  <2>2. CASE Failed
    BY <2>2, <1>p DEF Failed
  <2> QED BY <2>1, <2>2
<1>0. /\ inow \in 0..MaxIntelTime /\ inow \in Nat /\ LookupOK /\ lookup.pc = "asked" /\ lookup.i <= Len(Providers)
      /\ UNCHANGED <<inow, limiter, rcache, used>>
      /\ lookup' = At("next", lookup.i + 1) /\ ProvidersHeard /\ TokensOK
  <2>1. inow \in 0..MaxIntelTime /\ inow \in Nat /\ LookupOK /\ ProvidersHeard /\ TokensOK
    BY Sizes DEF ManagerInv
  <2>2. /\ lookup.pc = "asked" /\ UNCHANGED <<inow, limiter, rcache, used>>
        /\ lookup' = At("next", lookup.i + 1)
    BY DEF Answered, Failed
  <2>3. lookup.i <= Len(Providers)
    BY <2>1, <2>2 DEF LookupOK
  <2> QED BY <2>1, <2>2, <2>3
<1>1. /\ lookup' \in [pc : {"idle", "next", "asked"}, key : Indicators \cup {NoKey}, i : 0..(Len(Providers) + 1)]
      /\ lookup'.pc = "next" /\ lookup'.key = lookup.key /\ lookup'.i = lookup.i + 1 /\ lookup.key \in Indicators
      /\ lookup.i + 1 > 0
  BY <1>0, LookupMoves
<1>2. LookupOK'
  BY <1>1 DEF LookupOK
<1>3. p \in Names /\ Len(calls[p]) > 0 /\ breaker[p].state # "OPEN"
  BY <1>0, <1>p, AskingIsRegistered DEF LookupOK
<1>4. PICK n \in Nat : n = Len(calls[p]) /\ calls[p] \in Seq(CallOut) /\ calls \in [Names -> Seq(CallOut)]
                       /\ n > 0 /\ DOMAIN calls[p] = 1..n
  BY <1>0, <1>3, LenProperties DEF ProvidersHeard
<1>5. PICK e : e = [start |-> calls[p][n].start, end |-> inow, ok |-> good]
  OBVIOUS
<1>6. e \in CallOut /\ e.start = calls[p][n].start /\ e.end = inow /\ e.ok = good
  <2>1. calls[p][n] \in CallOut
    BY <1>4, ElementOfSeq
  <2> QED BY <2>1, <1>5, <1>0, <1>b DEF CallOut
<1>7. PICK f : f = [calls[p] EXCEPT ![n] = e]
  OBVIOUS
<1>8. f \in Seq(CallOut) /\ Len(f) = n /\ DOMAIN f = 1..n /\ \A j \in 1..n : f[j] = IF j = n THEN e ELSE calls[p][j]
  <2>1. f \in Seq(CallOut) /\ Len(f) = n /\ \A j \in 1..n : f[j] = IF j = n THEN e ELSE calls[p][j]
    BY <1>4, <1>6, <1>7, ExceptSeq
  <2> QED BY <2>1, LenProperties
<1>9. calls' \in [Names -> Seq(CallOut)] /\ calls'[p] = f /\ \A q \in Names : q # p => calls'[q] = calls[q]
  <2>1. calls' = [calls EXCEPT ![p] = f]
    BY <1>b, <1>4, <1>5, <1>7 DEF Ended
  <2> QED BY <2>1, <1>3, <1>4, <1>8
<1>10. Heard(breaker[p], Row(p), inow) /\ breaker[p].since <= inow /\ breaker = [q \in Names |-> breaker[q]]
  BY <1>0, <1>3 DEF ProvidersHeard
<1>11. Row(p)' = Append(Row(p), [at |-> inow, ok |-> good])
  <2>1. Ring(p) = n - 1 /\ Ring(p)' = n /\ n - 1 \in Nat
    BY <1>0, <1>1, <1>p, <1>4, <1>8, <1>9 DEF Ring
  <2>2. PICK x \in CallRow : x = [at |-> inow, ok |-> good]
    BY <1>0, <1>b DEF CallRow
  <2>3. PICK h : h = Row(p) /\ h \in Seq(CallRow)
    BY <1>10 DEF Heard
  <2>4. h = [i \in 1..(n - 1) |-> [at |-> calls[p][i].end, ok |-> calls[p][i].ok]]
    BY <2>1, <2>3 DEF Row
  <2>5. Len(h) = n - 1
    BY <2>1, <2>3, <2>4, LenProperties
  <2>6. PICK g : g = Append(h, x)
    OBVIOUS
  <2>7. g \in Seq(CallRow) /\ Len(g) = n /\ g[n] = x /\ \A i \in 1..(n - 1) : g[i] = h[i]
    BY <2>1, <2>2, <2>3, <2>5, <2>6, AppendProperties
  <2>8. PICK t : t = Row(p)' /\ t = [i \in 1..n |-> [at |-> f[i].end, ok |-> f[i].ok]]
    BY <2>1, <1>9 DEF Row
  <2>9. \A i \in 1..n : t[i] = g[i]
    <3> TAKE i \in 1..n
    <3>1. t[i] = [at |-> f[i].end, ok |-> f[i].ok]
      BY <2>8
    <3>2. CASE i = n
      BY <3>1, <3>2, <1>6, <1>8, <2>2, <2>7
    <3>3. CASE i # n
      <4>1. i \in 1..(n - 1)
        BY <3>3
      <4>2. f[i] = calls[p][i]
        BY <3>3, <1>8
      <4>3. h[i] = [at |-> calls[p][i].end, ok |-> calls[p][i].ok]
        BY <4>1, <2>4
      <4>4. g[i] = h[i]
        BY <4>1, <2>7
      <4> QED BY <3>1, <4>2, <4>3, <4>4
    <3> QED BY <3>2, <3>3
  <2>10. g = [i \in 1..n |-> g[i]]
    BY <2>7, LenProperties
  <2>11. t = g
    BY <2>8, <2>9, <2>10
  <2> QED BY <2>2, <2>3, <2>6, <2>8, <2>11
<1>12. Heard(d, Row(p)', inow)
  <2>1. CASE good
    BY <2>1, <1>0, <1>b, <1>3, <1>10, <1>11, HeardSuccess
  <2>2. CASE ~good
    BY <2>2, <1>0, <1>b, <1>3, <1>10, <1>11, HeardFailure
  <2> QED BY <2>1, <2>2, <1>b
<1>13. d.since <= inow
  BY <1>b, <1>10, <1>0 DEF AfterSuccess, AfterFailure, Heard, BreakerRow
<1>14. breaker' = [q \in Names |-> breaker'[q]] /\ breaker'[p] = d /\ \A q \in Names : q # p => breaker'[q] = breaker[q]
  BY <1>b, <1>3, <1>10
<1>15. ProvidersHeard'
  <2>1. \A q \in Names : q # p => Ring(q)' = Ring(q)
    BY <1>p, <1>1, <1>9, RingsOfOthers
  <2> QED BY <1>0, <1>2, <1>9, <1>12, <1>13, <1>14, <2>1, HeardFrame
<1>16. TokensOK'
  <2>1. Spent(limiter[p], calls[p])
    BY <1>0, <1>3 DEF TokensOK
  <2>2. \A i \in DOMAIN calls[p] : f[i].start = calls[p][i].start
    BY <1>4, <1>6, <1>8
  <2>3. Spent(limiter[p], f)
    <3>1. PICK l, c : l = limiter[p] /\ c = calls[p]
      OBVIOUS
    <3>2. Spent(l, c) /\ Len(f) = Len(c) /\ DOMAIN f = DOMAIN c /\ \A i \in DOMAIN c : f[i].start = c[i].start
      BY <3>1, <2>1, <2>2, <1>4, <1>8
    <3>3. Spent(l, f)
      BY <3>2, SpentEnded
    <3> QED BY <3>1, <3>3
  <2>4. \A q \in Names : limiter'[q].refilled <= inow /\ Spent(limiter'[q], calls'[q])
    BY <2>3, <1>0, <1>9 DEF TokensOK
  <2> QED BY <2>4, <1>0 DEF TokensOK
<1>17. RecentOK'
  BY <1>0, <1>1, ManagerFrames
<1> QED BY <1>0, <1>2, <1>15, <1>16, <1>17 DEF ManagerInv

\* Time passes, during a look-up too.
LEMMA IntelTickKeeps == ASSUME ManagerInv, IntelTick PROVE ManagerInv'
<1>0. inow \in Nat /\ inow' = inow + 1 /\ inow' \in 0..MaxIntelTime /\ inow' \in Nat
      /\ UNCHANGED <<breaker, limiter, rcache, lookup, calls, used>>
      /\ LookupOK /\ ProvidersHeard /\ TokensOK /\ RecentOK
  BY Sizes DEF ManagerInv, IntelTick
<1>1. LookupOK'
  BY <1>0 DEF LookupOK, Asking
<1>2. ProvidersHeard'
  <2>1. \A q : Row(q)' = Row(q)
    BY <1>0 DEF Row, Ring, Asking
  <2>2. ASSUME NEW q \in Names PROVE Heard(breaker[q], Row(q), inow') /\ breaker[q].since <= inow'
    <3>1. Heard(breaker[q], Row(q), inow) /\ breaker[q].since <= inow /\ breaker[q].since \in Nat
      BY <1>0 DEF ProvidersHeard, Heard, BreakerRow
    <3>2. Heard(breaker[q], Row(q), inow')
      BY <3>1, <1>0, HeardLater
    <3> QED BY <3>1, <3>2, <1>0
  <2>3. \A q \in Names : (Heard(breaker[q], Row(q), inow) /\ breaker[q].since <= inow)'
    BY <2>1, <2>2, <1>0
  <2> QED BY <2>3, <1>0 DEF ProvidersHeard
<1>3. TokensOK'
  BY <1>0 DEF TokensOK
<1>4. RecentOK'
  <2>1. \A i \in DOMAIN rcache : rcache[i].at \in Nat
    <3>1. \A i \in DOMAIN rcache : rcache[i] \in CacheRow
      BY <1>0, ElementOfSeq, LenProperties DEF RecentOK
    <3> QED BY <3>1 DEF CacheRow
  <2>2. \A i \in DOMAIN rcache : rcache[i].at <= inow'
    BY <2>1, <1>0 DEF RecentOK
  <2> QED BY <2>2, <1>0 DEF RecentOK
<1> QED BY <1>0, <1>1, <1>2, <1>3, <1>4 DEF ManagerInv

\* A breaker that has heard of the calls refuses exactly when it must.
LEMMA ManagerBreakerExact == ASSUME ManagerInv PROVE BreakerExact
<1>0. inow \in Nat /\ LookupOK /\ ProvidersHeard
  BY Sizes DEF ManagerInv
<1>1. ASSUME NEW p \in Names PROVE ~Allows(breaker[p], inow) <=> MustRest(p)
  <2>1. PICK r : r = Row(p) /\ Heard(breaker[p], r, inow)
    BY <1>0 DEF ProvidersHeard
  <2>2. calls[p] \in Seq(CallOut) /\ Len(calls[p]) \in Nat /\ DOMAIN calls[p] = 1..Len(calls[p])
    BY <1>0, LenProperties DEF ProvidersHeard
  <2>3. PICK n \in Nat : n = Ring(p) /\ n <= Len(calls[p])
    <3>1. CASE lookup.pc = "asked" /\ Asking = p
      <4>1. Len(calls[p]) > 0
        BY <3>1, <1>0 DEF LookupOK
      <4>2. PICK m \in Nat : m = Len(calls[p])
        BY <2>2
      <4>3. Ring(p) = m - 1
        BY <3>1, <4>2 DEF Ring
      <4>4. m - 1 \in Nat /\ m - 1 <= m
        BY <4>1, <4>2
      <4> QED BY <4>2, <4>3, <4>4
    <3>2. CASE ~(lookup.pc = "asked" /\ Asking = p)
      BY <3>2, <2>2 DEF Ring
    <3> QED BY <3>1, <3>2
  <2>4. r = [i \in 1..n |-> [at |-> calls[p][i].end, ok |-> calls[p][i].ok]]
    BY <2>1, <2>3 DEF Row
  <2>5. Len(r) = n
    <3>1. r \in Seq(CallRow)
      BY <2>1 DEF Heard
    <3> QED BY <3>1, <2>4, LenProperties
  <2>6. PICK c : c = Done(p)
    OBVIOUS
  <2>7. Len(c) = n /\ \A i \in 1..n : c[i] = calls[p][i]
    <3>1. CASE lookup.pc = "asked" /\ Asking = p
      <4>1. n = Len(calls[p]) - 1 /\ c = SubSeq(calls[p], 1, n)
        BY <3>1, <2>2, <2>3, <2>6 DEF Ring, Done
      <4>2. \A i \in 1..n : calls[p][i] \in CallOut
        BY <2>2, <2>3, ElementOfSeq
      <4>3. Len(SubSeq(calls[p], 1, n)) = (IF 1 <= n THEN n - 1 + 1 ELSE 0)
            /\ \A i \in 1..(n - 1 + 1) : SubSeq(calls[p], 1, n)[i] = calls[p][1 + i - 1]
        BY <4>2, SubSeqProperties
      <4> QED BY <4>1, <4>3
    <3>2. CASE ~(lookup.pc = "asked" /\ Asking = p)
      BY <3>2, <2>3, <2>6 DEF Ring, Done
    <3> QED BY <3>1, <3>2
  <2>8. \A i \in 1..n : r[i].ok = c[i].ok /\ r[i].at = c[i].end
    BY <2>4, <2>7
  <2>9. ~Allows(breaker[p], inow) <=> /\ n >= Threshold /\ inow - r[n].at < Recovery
                                      /\ \A i \in (n - Threshold + 1)..n : ~r[i].ok
    BY <1>0, <2>1, <2>5, HeardRests
  <2>10. ASSUME n >= Threshold PROVE n \in 1..n /\ (n - Threshold + 1)..n \subseteq 1..n
    BY <2>10, BreakerAssumption
  <2>11. ~Allows(breaker[p], inow) <=> /\ n >= Threshold /\ inow - c[n].end < Recovery
                                       /\ \A i \in (n - Threshold + 1)..n : ~c[i].ok
    BY <2>8, <2>9, <2>10
  <2> QED BY <2>6, <2>7, <2>11 DEF MustRest
<1> QED BY <1>1 DEF BreakerExact

\* The cache is what was used last.
LEMMA ManagerKeepsMostRecent == ASSUME ManagerInv PROVE KeepsMostRecent
<1> USE Sizes
<1> SUFFICES ASSUME lookup.pc = "idle"
             PROVE LET n == Len(used)
                       kept == IF n <= MaxSize THEN used ELSE SubSeq(used, n - MaxSize + 1, n) IN
                   [i \in DOMAIN rcache |-> rcache[i].key] = kept
  BY DEF KeepsMostRecent
<1>1. /\ rcache \in Seq(CacheRow) /\ used \in Seq(Indicators) /\ EndOf(rcache, used) /\ Len(rcache) <= MaxSize
      /\ (Len(rcache) = Len(used) \/ Len(rcache) = MaxSize)
  BY DEF ManagerInv, RecentOK
<1>2. PICK n \in Nat, R \in Nat : n = Len(used) /\ R = Len(rcache) /\ DOMAIN rcache = 1..R /\ DOMAIN used = 1..n
                                  /\ R <= n
  BY <1>1, LenProperties DEF EndOf
<1>3. \A i \in 1..R : rcache[i].key = used[n - R + i]
  BY <1>1, <1>2 DEF EndOf
<1>4. CASE n <= MaxSize
  <2>1. R = n
    BY <1>1, <1>2, <1>4
  <2>2. used = [i \in 1..n |-> used[i]]
    BY <1>1, <1>2, LenProperties
  <2>3. \A i \in 1..n : rcache[i].key = used[i]
    BY <1>3, <2>1
  <2> QED BY <1>2, <1>4, <2>1, <2>2, <2>3
<1>5. CASE ~(n <= MaxSize)
  <2>1. R = MaxSize
    BY <1>1, <1>2, <1>5
  <2>2. PICK s : s = SubSeq(used, n - R + 1, n)
    OBVIOUS
  <2>3. \A i \in (n - R + 1)..n : used[i] \in Indicators
    BY <1>1, <1>2, ElementOfSeq
  <2>4. s \in Seq(Indicators) /\ Len(s) = R /\ \A i \in 1..R : s[i] = used[n - R + i]
    <3>1. n - R + 1 \in Int /\ n \in Int /\ n - (n - R + 1) + 1 = R /\ (n - R + 1 <= n <=> R >= 1)
      BY <1>2
    <3>2. /\ s \in Seq(Indicators) /\ Len(s) = (IF n - R + 1 <= n THEN n - (n - R + 1) + 1 ELSE 0)
          /\ \A i \in 1..(n - (n - R + 1) + 1) : s[i] = used[(n - R + 1) + i - 1]
      BY <3>1, <2>2, <2>3, SubSeqProperties
    <3>3. \A i \in 1..R : (n - R + 1) + i - 1 = n - R + i
      BY <1>2
    <3>4. R >= 1 /\ n - R + 1 <= n
      BY <2>1, <3>1
    <3>5. Len(s) = R
      BY <3>1, <3>2, <3>4
    <3>6. \A i \in 1..R : s[i] = used[(n - R + 1) + i - 1]
      BY <3>1, <3>2
    <3> QED BY <3>2, <3>3, <3>5, <3>6
  <2>5. s = [i \in 1..R |-> s[i]]
    BY <2>4, LenProperties
  <2>6. \A i \in 1..R : rcache[i].key = s[i]
    BY <1>3, <2>4
  <2> QED BY <1>2, <1>5, <2>1, <2>2, <2>5, <2>6
<1> QED BY <1>4, <1>5

\* The four properties of the manager follow from the inductive invariant.
LEMMA ManagerInvSuffices == ASSUME ManagerInv PROVE IntelSafe
<1>0. inow \in 0..MaxIntelTime /\ inow \in Nat /\ LookupOK /\ ProvidersHeard /\ TokensOK /\ RecentOK
  BY Sizes DEF ManagerInv
<1>1. IntelTypeOK
  <2>1. \A p \in Names :
          /\ breaker[p].state \in {"CLOSED", "OPEN", "HALF_OPEN"}
          /\ breaker[p].failures \in Nat /\ breaker[p].since \in 0..inow
          /\ breaker[p].state = "CLOSED" <=> breaker[p].failures < Threshold
    BY <1>0 DEF ProvidersHeard, Heard, BreakerRow
  <2>2. \A p \in Names : limiter[p].tokens \in 0..Full /\ limiter[p].refilled \in 0..inow
    BY <1>0 DEF TokensOK
  <2>3. \A i \in DOMAIN rcache : rcache[i].key \in Indicators /\ rcache[i].at \in 0..inow
    <3>1. \A i \in DOMAIN rcache : rcache[i] \in CacheRow /\ rcache[i].at <= inow
      BY <1>0, ElementOfSeq, LenProperties DEF RecentOK
    <3> QED BY <3>1, <1>0 DEF CacheRow
  <2>4. lookup.pc \in {"idle", "next", "asked"} /\ lookup.i \in 0..(Len(Providers) + 1)
    BY <1>0 DEF LookupOK
  <2> QED BY <1>0, <2>1, <2>2, <2>3, <2>4 DEF IntelTypeOK
<1>2. WithinRate
  BY <1>0 DEF TokensOK, Spent, WithinRate
<1> QED BY <1>1, <1>2, ManagerBreakerExact, ManagerKeepsMostRecent DEF IntelSafe

\* The manager as it is built.
LEMMA ManagerStarts == IntelInit => ManagerInv
<1> SUFFICES ASSUME IntelInit PROVE ManagerInv
  OBVIOUS
<1> USE Sizes
<1>0. Len(Providers) \in Nat
  BY ProvidersAssumption, LenProperties
<1>1. inow = 0 /\ inow \in 0..MaxIntelTime
  BY DEF IntelInit
<1>2. LookupOK
  BY <1>0 DEF IntelInit, LookupOK, NoLookup
<1>3. ProvidersHeard
  <2>1. calls \in [Names -> Seq(CallOut)] /\ \A p \in Names : calls[p] = <<>> /\ breaker[p] = NewBreaker
    BY DEF IntelInit
  <2>2. ASSUME NEW p \in Names PROVE Heard(breaker[p], Row(p), inow) /\ breaker[p].since <= inow
    <3>1. PICK r : r = Row(p)
      OBVIOUS
    <3>2. Ring(p) = 0
      BY <2>1 DEF Ring, IntelInit, NoLookup
    <3>3. r = [i \in 1..0 |-> [at |-> calls[p][i].end, ok |-> calls[p][i].ok]]
      BY <3>1, <3>2 DEF Row
    <3>4. r \in Seq(CallRow) /\ Len(r) = 0
      <4>1. r = <<>>
        BY <3>3
      <4>2. \A t : t = <<>> => Len(t) = 0 /\ t \in Seq(CallRow)
        OBVIOUS
      <4> QED BY <4>1, <4>2
    <3>5. breaker[p] \in BreakerRow /\ breaker[p].failures = 0 /\ breaker[p].state = "CLOSED" /\ breaker[p].since = 0
      BY <2>1 DEF NewBreaker, BreakerRow
    <3>6. Heard(breaker[p], r, inow)
      BY <3>4, <3>5, BreakerAssumption DEF Heard
    <3> QED BY <1>1, <3>1, <3>5, <3>6
  <2>3. breaker = [p \in Names |-> breaker[p]]
    BY DEF IntelInit
  <2> QED BY <2>1, <2>2, <2>3 DEF ProvidersHeard
<1>4. TokensOK
  <2>1. \A p \in Names : calls[p] = <<>>
    BY DEF IntelInit
  <2>2. \A p \in Names : DOMAIN calls[p] = {}
    BY <2>1
  <2>3. limiter \in [Names -> [tokens : 0..Full, refilled : Nat]] /\ \A p \in Names : limiter[p].refilled <= inow
    BY DEF IntelInit
  <2> QED BY <2>2, <2>3 DEF TokensOK, Spent
<1>5. RecentOK
  <2>1. rcache = <<>> /\ used = <<>> /\ lookup.pc = "idle"
    BY DEF IntelInit, NoLookup
  <2>2. \A t : t = <<>> => Len(t) = 0 /\ t \in Seq(CacheRow) /\ t \in Seq(Indicators) /\ DOMAIN t = {}
    OBVIOUS
  <2>3. /\ Len(rcache) = 0 /\ rcache \in Seq(CacheRow) /\ DOMAIN rcache = {}
        /\ Len(used) = 0 /\ used \in Seq(Indicators) /\ DOMAIN used = {}
    BY <2>1, <2>2
  <2>4. EndOf(rcache, used) /\ Once(used)
    BY <2>3 DEF EndOf, Once
  <2> QED BY <2>1, <2>3, <2>4 DEF RecentOK
<1> QED BY <1>1, <1>2, <1>3, <1>4, <1>5 DEF ManagerInv

\* Every step of the manager keeps its invariant.
LEMMA ManagerMoves == ManagerInv /\ IntelNext => ManagerInv'
BY HitKeeps, MissKeeps, SkipOpenKeeps, SkipThrottledKeeps, CallKeeps, CallEndKeeps, StoreKeeps, IntelTickKeeps
   DEF IntelNext

\* So does a step that leaves the manager alone.
LEMMA ManagerRests == ManagerInv /\ UNCHANGED intelVars => ManagerInv'
BY DEF ManagerInv, intelVars, LookupOK, ProvidersHeard, TokensOK, RecentOK, Row, Ring, Asking

-----------------------------------------------------------------------------
(***************************************************************************)
(* The enrichment of a mail.  An answer that is cached or was used says of *)
(* an indicator what its providers said last, with confidences in their    *)
(* ranges: the simulated providers are surer of what they flag than WHOIS  *)
(* of anything.  A live provider's breaker has heard of its requests.      *)
(***************************************************************************)
ObservationOK(o) ==
  \/ o.bad = TRUE /\ o.conf \in 1..100 /\ (setup.registry = "simulated" => o.conf >= 85)
  \/ o.bad = FALSE /\ o.conf \in 0..100 /\ (setup.registry = "simulated" => o.conf <= 85)

Blamed(s) == {o.by : o \in {x \in s : x.bad}}

\* What is known of an indicator is what its providers said.
Vouched(i, s) == i \in DOMAIN replied /\ Blamed(s) = replied[i].by /\ \A o \in s : ObservationOK(o)

MailOK ==
  /\ job_ = [pc |-> job_.pc, todo |-> job_.todo, seen |-> job_.seen]
  /\ job_.todo \subseteq DOMAIN Iocs /\ DOMAIN job_.seen \subseteq DOMAIN Iocs
  /\ \A i \in DOMAIN job_.seen : Vouched(i, job_.seen[i])

AnswersOK == \A i \in DOMAIN answers : Vouched(i, answers[i].obs)

ResultOK ==
  /\ enriched.feeds = {} <=> enriched.flagged = {}
  /\ enriched.impact = 0 <=> enriched.confidence = 0

Rests(c) ==
  \A n \in (Threshold + 1)..Len(c) :
    (\A k \in (n - Threshold)..(n - 1) : ~c[k].ok) => c[n].at - c[n - 1].at >= Recovery

FeedsOK ==
  /\ own = [p \in LiveFeeds |-> own[p]] /\ sent = [p \in LiveFeeds |-> sent[p]]
  /\ \A p \in LiveFeeds : Heard(own[p], sent[p], inow) /\ Rests(sent[p])

EnrichInv == MailOK /\ AnswersOK /\ ResultOK /\ FeedsOK

\* Some confidences have a greatest one.
LEMMA GreatestConfidence ==
  ASSUME NEW S, S \subseteq 0..100, S # {}
  PROVE  Max(S) \in S /\ \A y \in S : y <= Max(S)
<1>1. PICK T : T = {100 - y : y \in S}
  OBVIOUS
<1>2. T \in SUBSET Nat /\ T # {}
  <2>1. \A y \in S : y \in 0..100
    OBVIOUS
  <2>2. \A y \in 0..100 : 100 - y \in Nat
    OBVIOUS
  <2> QED BY <1>1, <2>1, <2>2
<1>3. PICK z \in T : \A t \in T : ~(<<t, z>> \in OpToRel(<, Nat))
  BY <1>2, WFMin, NatLessThanWellFounded, Zenon
<1>4. \A t \in T : ~(t < z)
  BY <1>2, <1>3 DEF OpToRel
<1>5. PICK x \in S : z = 100 - x
  BY <1>1
<1>6. ASSUME NEW y \in S PROVE x >= y /\ y \in Nat
  <2>1. 100 - y \in T
    BY <1>1
  <2>2. ~(100 - y < 100 - x)
    BY <1>4, <1>5, <2>1
  <2> QED BY <2>2
<1>7. Max(S) \in S /\ \A y \in S : Max(S) >= y
  BY <1>6, Zenon DEF Max
<1> QED BY <1>6, <1>7

\* The smaller of two numbers.
LEMMA SmallerOf ==
  ASSUME NEW a \in Nat, NEW b \in Nat
  PROVE  Min({a, b}) = IF a <= b THEN a ELSE b
<1>1. PICK x \in {a, b} : \A y \in {a, b} : x =< y
  OBVIOUS
<1>2. Min({a, b}) \in {a, b} /\ \A y \in {a, b} : Min({a, b}) =< y
  BY <1>1, Zenon DEF Min
<1> QED BY <1>2

\* The larger of two.
LEMMA LargerOf ==
  ASSUME NEW a \in Nat, NEW b \in Nat
  PROVE  Max({a, b}) = IF a >= b THEN a ELSE b
<1>1. PICK x \in {a, b} : \A y \in {a, b} : x >= y
  OBVIOUS
<1>2. Max({a, b}) \in {a, b} /\ \A y \in {a, b} : Max({a, b}) >= y
  BY <1>1, Zenon DEF Max
<1> QED BY <1>2

\* A breaker that lets a request through has kept the recovery time.
LEMMA RestKept ==
  ASSUME NEW b, NEW c, NEW t \in Nat, NEW e \in CallRow, e.at = t, Heard(b, c, t), Allows(b, t), Rests(c)
  PROVE  Rests(Append(c, e))
<1>0. Threshold \in Nat \ {0} /\ Recovery \in Nat \ {0}
  BY BreakerAssumption
<1>1. PICK m \in Nat : m = Len(c) /\ c \in Seq(CallRow)
  BY LenProperties DEF Heard
<1>2. PICK f : f = Append(c, e) /\ Len(f) = m + 1 /\ f[m + 1] = e /\ \A i \in 1..m : f[i] = c[i]
  <2>1. Len(Append(c, e)) = m + 1 /\ Append(c, e)[m + 1] = e /\ \A i \in 1..m : Append(c, e)[i] = c[i]
    BY <1>1, AppendProperties
  <2> QED BY <2>1
<1>3. ASSUME NEW n \in (Threshold + 1)..(m + 1), \A k \in (n - Threshold)..(n - 1) : ~f[k].ok
      PROVE  f[n].at - f[n - 1].at >= Recovery
  <2>1. CASE n = m + 1
    <3>1. m >= Threshold /\ m \in 1..m /\ (m - Threshold + 1)..m \subseteq 1..m
      BY <1>0, <1>1, <2>1
    <3>2. \A i \in (m - Threshold + 1)..m : ~c[i].ok
      BY <1>0, <1>2, <1>3, <2>1, <3>1
    <3>3. ~(t - c[m].at < Recovery)
      BY <1>1, <3>1, <3>2, HeardRests
    <3>4. c[m].at \in Nat
      <4>1. c[m] \in CallRow
        BY <1>1, <3>1, ElementOfSeq
      <4> QED BY <4>1 DEF CallRow
    <3>5. f[n].at = t /\ f[n - 1] = c[m]
      BY <1>1, <1>2, <2>1, <3>1
    <3> QED BY <1>0, <3>3, <3>4, <3>5
  <2>2. CASE n # m + 1
    <3>1. n \in (Threshold + 1)..m /\ n \in 1..m /\ n - 1 \in 1..m /\ (n - Threshold)..(n - 1) \subseteq 1..m
      BY <1>0, <1>1, <2>2
    <3>2. \A k \in (n - Threshold)..(n - 1) : ~c[k].ok
      BY <1>2, <1>3, <3>1
    <3>3. c[n].at - c[n - 1].at >= Recovery
      BY <1>1, <3>1, <3>2 DEF Rests
    <3> QED BY <1>2, <3>1, <3>3
  <2> QED BY <2>1, <2>2
<1>4. Rests(f)
  BY <1>2, <1>3 DEF Rests
<1> QED BY <1>2, <1>4

\* The manager's own providers: each is sure of what it flags.
LEMMA SimulatedObserve ==
  ASSUME NEW i, NEW r, NEW o \in Simulated(i, r)
  PROVE  (o.bad = TRUE /\ o.conf \in 85..100) \/ (o.bad = FALSE /\ o.conf \in 0..85)
<1> USE DEF Obs, Nothing, Clean
<1>1. CASE o \in VirusTotal(i)
  BY <1>1 DEF VirusTotal
<1>2. CASE o \in AbuseIPDB(i)
  BY <1>2 DEF AbuseIPDB
<1>3. CASE o \in AlienVaultOTX(i)
  BY <1>3 DEF AlienVaultOTX
<1>4. CASE o \in WHOIS(i)
  BY <1>4 DEF WHOIS
<1>5. CASE o \in GoogleSafeBrowsing(i, r["Google Safe Browsing"])
  <2>1. PICK by : by = "Google Safe Browsing"
    BY Zenon
  <2>2. \/ o \in Obs(by, TRUE, 98, "SOCIAL_ENGINEERING")
        \/ o \in Obs(by, TRUE, 95, "SOCIAL_ENGINEERING")
        \/ o \in Obs(by, FALSE, 0, "clean")
    BY <1>5, <2>1, Zenon DEF GoogleSafeBrowsing
  <2> QED BY <2>2
<1>6. CASE o \in PhishTank(i, r["PhishTank"])
  BY <1>6 DEF PhishTank
<1>7. CASE o \in OpenPhish(i)
  BY <1>7 DEF OpenPhish
<1> QED BY <1>1, <1>2, <1>3, <1>4, <1>5, <1>6, <1>7 DEF Simulated

\* WHOIS flags nothing.
LEMMA WhoisObserves ==
  ASSUME NEW i, NEW o \in WHOIS(i)
  PROVE  o.bad = FALSE /\ o.conf \in 0..100
BY DEF WHOIS, Obs, Nothing

\* What a live provider says: its confidence is a percentage, and no flag is
\* without one.
LEMMA LiveObserve ==
  ASSUME NEW p \in LiveFeeds, NEW i, NEW r \in [status : Nat, hits : Nat, more : Nat], NEW o \in LiveAnswer(p, i, r)
  PROVE  (o.bad = TRUE /\ o.conf \in 1..100) \/ (o.bad = FALSE /\ o.conf \in 0..100)
<1>0. r.hits \in Nat /\ r.more \in Nat
  OBVIOUS
<1>1. CASE o \in VirusTotalV3(i, r)
  <2>1. PICK t \in Nat : t = r.hits + r.more
    BY <1>0
  <2>2. PICK u \in Nat : u = Max({50, 10 * t}) /\ u >= 50
    BY <2>1, LargerOf
  <2>3. PICK v : v = Min({100, u})
    OBVIOUS
  <2>4. v \in 1..100
    <3>1. PICK c \in Nat : c = 100
      OBVIOUS
    <3>2. Min({c, u}) = IF c <= u THEN c ELSE u
      BY SmallerOf, Zenon
    <3> QED BY <2>2, <2>3, <3>1, <3>2
  <2>5. CASE r.status = 404
    BY <1>1, <2>5 DEF VirusTotalV3, Obs
  <2>6. CASE r.status # 404
    <3>1. PICK k : o \in Obs("VirusTotal_v3", r.hits >= 3 \/ t >= 5, IF r.hits >= 3 \/ t >= 5 THEN v ELSE 0, k)
      BY <1>1, <2>1, <2>2, <2>3, <2>6 DEF VirusTotalV3
    <3>2. CASE r.hits >= 3 \/ t >= 5
      BY <2>4, <3>1, <3>2 DEF Obs
    <3>3. CASE ~(r.hits >= 3 \/ t >= 5)
      <4>1. (r.hits >= 3 \/ t >= 5) = FALSE
        BY <3>3, Zenon
      <4>2. o \in Obs("VirusTotal_v3", FALSE, 0, k)
        BY <3>1, <4>1, Zenon
      <4> QED BY <4>2 DEF Obs
    <3> QED BY <3>2, <3>3
  <2> QED BY <2>5, <2>6
<1>2. CASE o \in AbuseIPDBV2(r)
  <2>1. PICK v : v = Min({100, r.hits})
    OBVIOUS
  <2>2. v \in 0..100 /\ (r.hits >= 25 => v > 0)
    <3>1. PICK c \in Nat : c = 100
      OBVIOUS
    <3>2. Min({c, r.hits}) = IF c <= r.hits THEN c ELSE r.hits
      BY <1>0, SmallerOf, Zenon
    <3> QED BY <1>0, <2>1, <3>1, <3>2
  <2>3. CASE r.hits >= 25
    BY <1>2, <2>1, <2>2, <2>3 DEF AbuseIPDBV2, Obs
  <2>4. CASE ~(r.hits >= 25)
    <3>1. (r.hits >= 25) = FALSE
      BY <2>4
    <3>2. PICK b : b = (r.hits >= 25) /\ b = FALSE
      BY <3>1, Zenon
    <3>3. PICK k : o \in Obs("AbuseIPDB_v2", b, v, k)
      BY <1>2, <2>1, <3>2, Zenon DEF AbuseIPDBV2
    <3>4. o \in Obs("AbuseIPDB_v2", FALSE, v, k)
      BY <3>2, <3>3, Zenon
    <3> QED BY <2>2, <3>4 DEF Obs
  <2> QED BY <2>3, <2>4
<1>3. CASE o \in GoogleSafeBrowsingV4(r)
  BY <1>3 DEF GoogleSafeBrowsingV4, Clean, Obs
<1> QED BY <1>1, <1>2, <1>3 DEF LiveAnswer, LiveFeeds, Nothing

\* A domain, a link or an address in a mail is one of the indicators.
LEMMA HarvestOfIocs == ASSUME NEW m \in IocMails PROVE harvest(m) \subseteq DOMAIN Iocs
<1>1. /\ m.text \subseteq DOMAIN Iocs /\ m.origin \subseteq DOMAIN Iocs /\ m.hops \subseteq DOMAIN Iocs
      /\ m.from \subseteq DOMAIN Iocs /\ m.spf \subseteq DOMAIN Iocs /\ m.dkim \subseteq DOMAIN Iocs
      /\ m.names \subseteq DOMAIN Iocs
  BY IocsAssumption
<1>2. ASSUME NEW t, t \subseteq DOMAIN Iocs PROVE Extracted(t) \subseteq DOMAIN Iocs
  <2>1. \A i \in t : Iocs[i].kind \in {"url", "email"} => Iocs[i].host \in DOMAIN Iocs
    BY <1>2, IocsAssumption
  <2>2. HostsIn(Of(t, "url") \cup Of(t, "email")) \subseteq DOMAIN Iocs
    BY <2>1 DEF HostsIn, Of
  <2>3. Of(t, "domain") \subseteq DOMAIN Iocs
    BY <1>2 DEF Of
  <2> QED BY <1>2, <2>2, <2>3 DEF Extracted
<1>3. Of(Extracted(m.names), "hash") \subseteq DOMAIN Iocs
  BY <1>1, <1>2 DEF Of
<1>4. Extracted(m.text) \subseteq DOMAIN Iocs
  BY <1>1, <1>2
<1> QED BY <1>1, <1>3, <1>4 DEF harvest

\* A look-up whose observations are in order.
LEMMA LearnKeeps ==
  ASSUME MailOK, AnswersOK, ResultOK, NEW i \in DOMAIN Iocs, NEW obs, \A o \in obs : ObservationOK(o), Learn(i, obs)
  PROVE  MailOK' /\ AnswersOK' /\ ResultOK'
<1>1. /\ job_' = Observed(i, obs) /\ UNCHANGED <<setup, enriched>>
      /\ answers' = Put(answers, i, [obs |-> obs, at |-> inow])
      /\ replied' = Put(replied, i, [at |-> inow, by |-> Blamed(obs)])
  BY DEF Learn, Blamed
<1>2. DOMAIN replied' = DOMAIN replied \cup {i} /\ replied'[i].by = Blamed(obs)
      /\ \A j \in DOMAIN replied : j # i => replied'[j] = replied[j]
  BY <1>1 DEF Put
<1>3. \A o : ObservationOK(o)' <=> ObservationOK(o)
  BY <1>1 DEF ObservationOK
<1>4. ASSUME NEW j, NEW s, IF j = i THEN s = obs ELSE Vouched(j, s)
      PROVE  j \in DOMAIN replied' /\ Blamed(s) = replied'[j].by /\ \A o \in s : ObservationOK(o)'
  BY <1>2, <1>3, <1>4 DEF Vouched
<1>5. /\ job_' = [pc |-> job_.pc, todo |-> job_.todo \ {i}, seen |-> Put(job_.seen, i, obs)]
  BY <1>1 DEF Observed, MailOK
<1>6. MailOK'
  <2>1. job_'.pc = job_.pc /\ job_'.todo = job_.todo \ {i} /\ job_'.seen = Put(job_.seen, i, obs)
    BY <1>5
  <2>2. DOMAIN job_'.seen = DOMAIN job_.seen \cup {i} /\ job_'.seen[i] = obs
        /\ \A j \in DOMAIN job_.seen : j # i => job_'.seen[j] = job_.seen[j]
    BY <2>1 DEF Put
  <2>3. \A j \in DOMAIN job_'.seen : /\ j \in DOMAIN replied' /\ Blamed(job_'.seen[j]) = replied'[j].by
                                    /\ \A o \in job_'.seen[j] : ObservationOK(o)'
    BY <1>4, <2>2 DEF MailOK
  <2> QED BY <1>5, <2>1, <2>2, <2>3 DEF MailOK, Vouched, Blamed
<1>7. AnswersOK'
  <2>1. DOMAIN answers' = DOMAIN answers \cup {i} /\ answers'[i].obs = obs
        /\ \A j \in DOMAIN answers : j # i => answers'[j] = answers[j]
    BY <1>1 DEF Put
  <2>2. \A j \in DOMAIN answers' : /\ j \in DOMAIN replied' /\ Blamed(answers'[j].obs) = replied'[j].by
                                   /\ \A o \in answers'[j].obs : ObservationOK(o)'
    BY <1>4, <2>1 DEF AnswersOK
  <2> QED BY <2>2 DEF AnswersOK, Vouched, Blamed
<1> QED BY <1>1, <1>6, <1>7 DEF ResultOK

\* A step that leaves what the providers said alone.
LEMMA VouchedFrame ==
  ASSUME UNCHANGED <<setup, replied>>, NEW i, NEW s, Vouched(i, s)
  PROVE  i \in DOMAIN replied' /\ Blamed(s) = replied'[i].by /\ \A o \in s : ObservationOK(o)'
BY DEF Vouched, ObservationOK

\* Requests and their breakers are as they were.
LEMMA FeedsFrame == ASSUME FeedsOK, UNCHANGED <<inow, own, sent>> PROVE FeedsOK'
BY DEF FeedsOK, Rests

\* So is the cache of answers.
LEMMA AnswersFrame == ASSUME AnswersOK, UNCHANGED <<setup, replied, answers>> PROVE AnswersOK'
BY DEF AnswersOK, Vouched, ObservationOK

\* A mail is taken up.
LEMMA EnrichBeginKeeps ==
  ASSUME EnrichInv, NEW m \in IocMails, EnrichBegin(m), UNCHANGED inow PROVE EnrichInv'
<1>1. /\ job_' = [pc |-> "busy", todo |-> harvest(m), seen |-> EmptyDict] /\ enriched' = NoResult
      /\ UNCHANGED <<setup, answers, own, sent, replied>>
  BY DEF EnrichBegin
<1>2. MailOK'
  <2>1. harvest(m) \subseteq DOMAIN Iocs
    BY HarvestOfIocs
  <2>2. job_'.pc = "busy" /\ job_'.todo = harvest(m) /\ job_'.seen = EmptyDict /\ DOMAIN job_'.seen = {}
    BY <1>1 DEF EmptyDict
  <2> QED BY <1>1, <2>1, <2>2 DEF MailOK
<1>3. ResultOK'
  BY <1>1 DEF NoResult, ResultOK
<1> QED BY <1>1, <1>2, <1>3, FeedsFrame, AnswersFrame DEF EnrichInv

\* The answer is in the cache.
LEMMA LookUpCachedKeeps ==
  ASSUME EnrichInv, NEW i \in DOMAIN Iocs, LookUpCached(i), UNCHANGED inow PROVE EnrichInv'
<1>1. /\ i \in DOMAIN answers /\ job_' = Observed(i, answers[i].obs)
      /\ UNCHANGED <<setup, answers, own, sent, replied, enriched>>
  BY DEF LookUpCached, Fresh
<1>2. PICK obs : obs = answers[i].obs /\ Vouched(i, obs)
  BY <1>1 DEF EnrichInv, AnswersOK
<1>3. job_' = [pc |-> job_.pc, todo |-> job_.todo \ {i}, seen |-> Put(job_.seen, i, obs)]
  BY <1>1, <1>2 DEF Observed, EnrichInv, MailOK
<1>4. MailOK'
  <2>1. job_'.pc = job_.pc /\ job_'.todo = job_.todo \ {i} /\ job_'.seen = Put(job_.seen, i, obs)
    BY <1>3
  <2>2. DOMAIN job_'.seen = DOMAIN job_.seen \cup {i} /\ job_'.seen[i] = obs
        /\ \A j \in DOMAIN job_.seen : j # i => job_'.seen[j] = job_.seen[j]
    BY <2>1 DEF Put
  <2>3. \A j \in DOMAIN job_'.seen : Vouched(j, job_'.seen[j])
    BY <1>2, <2>2 DEF EnrichInv, MailOK
  <2>4. \A j \in DOMAIN job_'.seen : /\ j \in DOMAIN replied' /\ Blamed(job_'.seen[j]) = replied'[j].by
                                    /\ \A o \in job_'.seen[j] : ObservationOK(o)'
    BY <1>1, <2>3, VouchedFrame
  <2> QED BY <1>3, <2>1, <2>2, <2>4 DEF EnrichInv, MailOK, Vouched, Blamed
<1>5. ResultOK'
  BY <1>1 DEF EnrichInv, ResultOK
<1> QED BY <1>1, <1>4, <1>5, FeedsFrame, AnswersFrame DEF EnrichInv

\* The manager's own providers are asked.
LEMMA LookUpSimulatedKeeps ==
  ASSUME EnrichInv, NEW i \in DOMAIN Iocs, LookUpSimulated(i), UNCHANGED inow PROVE EnrichInv'
<1>1. PICK r \in Replies, out \in Outages : Learn(i, {o \in Simulated(i, r) : o.by \notin out})
  BY DEF LookUpSimulated
<1>2. PICK obs : obs = {o \in Simulated(i, r) : o.by \notin out}
  OBVIOUS
<1>3. \A o \in obs : ObservationOK(o)
  <2> TAKE o \in obs
  <2>1. o \in Simulated(i, r)
    BY <1>2
  <2>2. (o.bad = TRUE /\ o.conf \in 85..100) \/ (o.bad = FALSE /\ o.conf \in 0..85)
    BY <2>1, SimulatedObserve
  <2> QED BY <2>2 DEF ObservationOK
<1>4. MailOK' /\ AnswersOK' /\ ResultOK'
  <2>1. Learn(i, obs)
    BY <1>1, <1>2
  <2> QED BY <2>1, <1>3, LearnKeeps DEF EnrichInv
<1>5. UNCHANGED <<own, sent>>
  BY DEF LookUpSimulated
<1> QED BY <1>4, <1>5, FeedsFrame DEF EnrichInv

\* The live providers are asked, those whose breaker allows it.
LEMMA LookUpLiveKeeps ==
  ASSUME EnrichInv, inow \in Nat, NEW i \in DOMAIN Iocs, LookUpLive(i), UNCHANGED inow PROVE EnrichInv'
<1>1. PICK r \in Replies, out \in Outages :
       LET Sends(p) == p \notin out /\ Asks(p, i) /\ Allows(own[p], inow)
           Says(p) == IF Sends(p) THEN LiveAnswer(p, i, r[p]) ELSE Nothing IN
       /\ Learn(i, (UNION {Says(p) : p \in LiveFeeds}) \cup WHOIS(i))
       /\ own' = [p \in LiveFeeds |->
            IF ~Sends(p) THEN own[p]
            ELSE IF Answers(p, r[p]) THEN AfterSuccess(AfterAllow(own[p], inow), inow)
            ELSE AfterFailure(AfterAllow(own[p], inow), inow)]
       /\ sent' = [p \in LiveFeeds |->
            IF Sends(p) THEN Append(sent[p], [at |-> inow, ok |-> Answers(p, r[p])]) ELSE sent[p]]
  BY DEF LookUpLive
<1> DEFINE Sends(p) == p \notin out /\ Asks(p, i) /\ Allows(own[p], inow)
           Says(p) == IF Sends(p) THEN LiveAnswer(p, i, r[p]) ELSE Nothing
<1>2. PICK U, obs : U = UNION {Says(p) : p \in LiveFeeds} /\ obs = U \cup WHOIS(i) /\ Learn(i, obs)
  <2>1. Learn(i, (UNION {Says(p) : p \in LiveFeeds}) \cup WHOIS(i))
    BY <1>1
  <2> HIDE DEF Says
  <2> QED BY <2>1, Zenon
<1>3. setup.registry # "simulated"
  BY DEF LookUpLive
<1>4. \A p \in LiveFeeds : r[p] \in [status : Nat, hits : Nat, more : Nat]
  <2>1. r \in [LiveFeeds \cup {"Google Safe Browsing", "PhishTank"} -> [status : Nat, hits : Nat, more : Nat]]
    BY RepliesAssumption, Zenon
  <2> QED BY <2>1, Zenon
<1>5. \A o \in obs : ObservationOK(o)
  <2> TAKE o \in obs
  <2>1. CASE o \in WHOIS(i)
    BY <2>1, <1>3, WhoisObserves DEF ObservationOK
  <2>2. CASE o \notin WHOIS(i)
    <3>1. PICK p \in LiveFeeds : o \in LiveAnswer(p, i, r[p])
      <4>1. o \in U
        BY <1>2, <2>2
      <4>2. PICK p \in LiveFeeds : o \in Says(p)
        BY <1>2, <4>1
      <4> QED BY <4>2 DEF Nothing
    <3>2. (o.bad = TRUE /\ o.conf \in 1..100) \/ (o.bad = FALSE /\ o.conf \in 0..100)
      BY <1>4, <3>1, LiveObserve
    <3> QED BY <1>3, <3>2 DEF ObservationOK
  <2> QED BY <2>1, <2>2
<1>6. MailOK' /\ AnswersOK' /\ ResultOK'
  <2>1. Learn(i, obs)
    BY <1>2
  <2> QED BY <2>1, <1>5, LearnKeeps DEF EnrichInv
<1>7. FeedsOK'
  <2>1. own' = [p \in LiveFeeds |-> own'[p]] /\ sent' = [p \in LiveFeeds |-> sent'[p]]
    BY <1>1
  <2>2. ASSUME NEW p \in LiveFeeds PROVE Heard(own'[p], sent'[p], inow) /\ Rests(sent'[p])
    <3>0. Heard(own[p], sent[p], inow) /\ Rests(sent[p])
      BY DEF EnrichInv, FeedsOK
    <3>1. CASE ~Sends(p)
      <4>1. own'[p] = own[p] /\ sent'[p] = sent[p]
        BY <1>1, <3>1
      <4> QED BY <3>0, <4>1
    <3>2. CASE Sends(p)
      <4>1. PICK a : a = AfterAllow(own[p], inow)
        OBVIOUS
      <4>2. Heard(a, sent[p], inow) /\ a.state # "OPEN" /\ Allows(own[p], inow)
        BY <3>0, <3>2, <4>1, HeardAllow
      <4>3. CASE Answers(p, r[p])
        <5>1. PICK e : e = [at |-> inow, ok |-> TRUE]
          OBVIOUS
        <5>2. e \in CallRow /\ e.at = inow
          BY <5>1 DEF CallRow
        <5>3. own'[p] = AfterSuccess(a, inow) /\ sent'[p] = Append(sent[p], e)
          BY <1>1, <3>2, <4>1, <4>3, <5>1
        <5>4. Heard(AfterSuccess(a, inow), Append(sent[p], e), inow)
          BY <4>2, <5>1, HeardSuccess
        <5>5. Rests(Append(sent[p], e))
          BY <3>0, <4>2, <5>2, RestKept
        <5> QED BY <5>3, <5>4, <5>5
      <4>4. CASE ~Answers(p, r[p])
        <5>1. PICK e : e = [at |-> inow, ok |-> FALSE]
          OBVIOUS
        <5>2. e \in CallRow /\ e.at = inow
          BY <5>1 DEF CallRow
        <5>3. own'[p] = AfterFailure(a, inow) /\ sent'[p] = Append(sent[p], e)
          <6>1. Answers(p, r[p]) = FALSE
            BY <4>4 DEF Answers
          <6> QED BY <1>1, <3>2, <4>1, <4>4, <5>1, <6>1
        <5>4. Heard(AfterFailure(a, inow), Append(sent[p], e), inow)
          BY <4>2, <5>1, HeardFailure
        <5>5. Rests(Append(sent[p], e))
          BY <3>0, <4>2, <5>2, RestKept
        <5> QED BY <5>3, <5>4, <5>5
      <4> QED BY <4>3, <4>4
    <3> QED BY <3>1, <3>2
  <2> QED BY <2>1, <2>2 DEF FeedsOK, Rests
<1> QED BY <1>6, <1>7 DEF EnrichInv

\* The confidence in a flagged indicator is positive, and a flagger's own with
\* the simulated providers.
LEMMA ConfidenceOf ==
  ASSUME NEW i, \A o \in job_.seen[i] : ObservationOK(o)
  PROVE  /\ Confidence(i) \in 0..100
         /\ Malicious(i) <=> Confidence(i) # 0
         /\ setup.registry = "simulated" /\ Malicious(i) => \E o \in Flaggers(i) : o.conf = Confidence(i)
<1>1. PICK s : s = job_.seen[i]
  OBVIOUS
<1>2. \A o \in s : ObservationOK(o)
  BY <1>1
<1>3. CASE ~Malicious(i)
  BY <1>3 DEF Confidence
<1>4. CASE Malicious(i)
  <2>1. PICK f \in s : f \in Flaggers(i) /\ f.bad
    BY <1>1, <1>4 DEF Malicious, Flaggers
  <2>2. PICK S : S = {o.conf : o \in s}
    OBVIOUS
  <2>3. S \subseteq 0..100 /\ S # {} /\ f.conf \in S
    BY <1>2, <2>1, <2>2 DEF ObservationOK
  <2>4. PICK c : c = Max(S)
    OBVIOUS
  <2>5. c \in S /\ \A y \in S : y <= c
    BY <2>3, <2>4, GreatestConfidence
  <2>6. Confidence(i) = c
    BY <1>1, <1>4, <2>2, <2>4 DEF Confidence
  <2>7. f.conf \in 1..100 /\ (setup.registry = "simulated" => f.conf >= 85)
    BY <1>2, <2>1 DEF ObservationOK
  <2>8. c \in 0..100 /\ f.conf <= c /\ c # 0
    BY <2>3, <2>5, <2>7
  <2>9. ASSUME setup.registry = "simulated" PROVE \E o \in Flaggers(i) : o.conf = c
    <3>1. PICK g \in s : g.conf = c
      BY <2>2, <2>5
    <3>2. CASE g.bad
      <4>1. g \in Flaggers(i)
        BY <1>1, <3>2 DEF Flaggers
      <4> QED BY <3>1, <4>1
    <3>3. CASE ~g.bad
      <4>1. c <= 85
        BY <1>2, <2>9, <3>1, <3>3 DEF ObservationOK
      <4>2. f.conf = c
        BY <2>7, <2>8, <2>9, <4>1
      <4> QED BY <2>1, <4>2
    <3> QED BY <3>2, <3>3
  <2> QED BY <1>4, <2>6, <2>8, <2>9
<1> QED BY <1>3, <1>4

\* The result of a mail: it is charged exactly when something was flagged.
LEMMA EnrichFinishKeeps == ASSUME EnrichInv, EnrichFinish, UNCHANGED inow PROVE EnrichInv'
<1>1. job_' = NoMail /\ UNCHANGED <<setup, answers, own, sent, replied>>
  BY DEF EnrichFinish
<1>2. MailOK'
  <2>1. job_' = [pc |-> "idle", todo |-> {}, seen |-> EmptyDict]
    BY <1>1 DEF NoMail
  <2>2. job_'.pc = "idle" /\ job_'.todo = {} /\ job_'.seen = EmptyDict /\ DOMAIN job_'.seen = {}
    BY <2>1 DEF EmptyDict
  <2> QED BY <2>1, <2>2 DEF MailOK
<1>3. ResultOK'
  <2>1. PICK D : D = DOMAIN job_.seen /\ D \subseteq DOMAIN Iocs
    BY DEF EnrichInv, MailOK
  <2>2. \A i \in D : Confidence(i) \in 0..100 /\ (Malicious(i) <=> Confidence(i) # 0)
    BY <2>1, ConfidenceOf DEF EnrichInv, MailOK, Vouched
  <2>3. PICK flagged : flagged = {i \in D : Malicious(i)}
    OBVIOUS
  <2>4. PICK C : C = {0} \cup {Confidence(i) : i \in D}
    OBVIOUS
  <2>5. PICK feeds : feeds = UNION {{o.by : o \in Flaggers(i)} : i \in flagged}
    OBVIOUS
  <2>6. enriched'.flagged = flagged /\ enriched'.confidence = Max(C) /\ enriched'.feeds = feeds
        /\ enriched'.impact = Min({50, 20 * Cardinality(flagged)})
    BY <2>1, <2>3, <2>4, <2>5 DEF EnrichFinish
  <2>7. feeds = {} <=> flagged = {}
    <3>1. \A i \in flagged : \E o : o \in Flaggers(i)
      BY <2>3 DEF Malicious
    <3>2. ASSUME NEW i \in flagged PROVE \E x : x \in feeds
      <4>1. PICK o \in Flaggers(i) : TRUE
        BY <3>1
      <4>2. o.by \in feeds
        BY <2>5, <4>1
      <4> QED BY <4>2
    <3>3. flagged = {} => feeds = {}
      BY <2>5
    <3> QED BY <3>2, <3>3
  <2>8. Max(C) = 0 <=> flagged = {}
    <3>1. C \subseteq 0..100 /\ 0 \in C
      BY <2>2, <2>4
    <3>2. PICK c : c = Max(C) /\ c \in C /\ \A y \in C : y <= c
      BY <3>1, GreatestConfidence
    <3>3. ASSUME flagged = {} PROVE c = 0
      <4>1. \A i \in D : Confidence(i) = 0
        BY <2>2, <2>3, <3>3
      <4> QED BY <2>4, <3>2, <4>1
    <3>4. ASSUME NEW i \in flagged PROVE c # 0
      <4>1. Confidence(i) \in C /\ Confidence(i) \in 1..100
        BY <2>2, <2>3, <2>4
      <4> QED BY <3>1, <3>2, <4>1
    <3> QED BY <3>2, <3>3, <3>4
  <2>9. PICK n \in Nat : n = Cardinality(flagged) /\ (n = 0 <=> flagged = {})
    <3>1. IsFiniteSet(flagged)
      <4>1. flagged \subseteq DOMAIN Iocs /\ IsFiniteSet(DOMAIN Iocs)
        BY <2>1, <2>3, IocsAssumption
      <4> QED BY <4>1, FS_Subset
    <3>2. Cardinality(flagged) \in Nat /\ (Cardinality(flagged) = 0 <=> flagged = {})
      BY <3>1, FS_CardinalityType, FS_EmptySet
    <3> QED BY <3>2
  <2>10. Min({50, 20 * n}) = 0 <=> n = 0
    <3>1. PICK a \in Nat, b \in Nat : a = 50 /\ b = 20 * n
      OBVIOUS
    <3>2. Min({a, b}) = IF a <= b THEN a ELSE b
      BY SmallerOf, Zenon
    <3> QED BY <3>1, <3>2
  <2> QED BY <2>6, <2>7, <2>8, <2>9, <2>10 DEF ResultOK
<1> QED BY <1>1, <1>2, <1>3, FeedsFrame, AnswersFrame DEF EnrichInv

\* The clock of the enrichment is the manager's.
LEMMA EnrichRests ==
  ASSUME EnrichInv, inow \in Nat, inow' \in Nat, inow <= inow', UNCHANGED enrichVars PROVE EnrichInv'
<1>0. UNCHANGED <<setup, job_, answers, own, sent, replied, enriched>>
  BY DEF enrichVars
<1>1. MailOK' /\ AnswersOK' /\ ResultOK'
  BY <1>0 DEF EnrichInv, MailOK, AnswersOK, ResultOK, Vouched, ObservationOK
<1>2. FeedsOK'
  <2>1. \A p \in LiveFeeds : Heard(own[p], sent[p], inow') /\ Rests(sent[p])
    BY HeardLater DEF EnrichInv, FeedsOK
  <2> QED BY <1>0, <2>1 DEF EnrichInv, FeedsOK, Rests
<1> QED BY <1>1, <1>2 DEF EnrichInv

\* No step of the manager turns the clock back.
LEMMA ManagerClock ==
  ASSUME ManagerInv, IntelNext PROVE inow \in Nat /\ inow' \in Nat /\ inow <= inow'
<1>1. inow \in Nat
  BY Sizes DEF ManagerInv
<1>2. inow' = inow \/ inow' = inow + 1
  BY DEF IntelNext, Hit, Miss, SkipOpen, SkipThrottled, Call, Answered, Failed, Store, IntelTick
<1> QED BY <1>1, <1>2

\* Before the first mail.
LEMMA EnrichStarts == ASSUME IntelInit, EnrichInit PROVE EnrichInv
<1>1. MailOK
  <2>1. job_ = [pc |-> "idle", todo |-> {}, seen |-> EmptyDict]
    BY DEF EnrichInit, NoMail
  <2>2. job_.pc = "idle" /\ job_.todo = {} /\ job_.seen = EmptyDict /\ DOMAIN job_.seen = {}
    BY <2>1 DEF EmptyDict
  <2> QED BY <2>1, <2>2 DEF MailOK
<1>2. AnswersOK
  BY DEF EnrichInit, AnswersOK, EmptyDict
<1>3. ResultOK
  BY DEF EnrichInit, NoResult, ResultOK
<1>4. FeedsOK
  <2>1. own = [p \in LiveFeeds |-> own[p]] /\ sent = [p \in LiveFeeds |-> sent[p]]
    BY DEF EnrichInit
  <2>2. ASSUME NEW p \in LiveFeeds PROVE Heard(own[p], sent[p], inow) /\ Rests(sent[p])
    <3>1. PICK c : c = sent[p] /\ c = <<>>
      BY DEF EnrichInit
    <3>2. \A t : t = <<>> => Len(t) = 0 /\ t \in Seq(CallRow)
      OBVIOUS
    <3>3. c \in Seq(CallRow) /\ Len(c) = 0
      BY <3>1, <3>2
    <3>4. PICK b : b = own[p] /\ b = NewBreaker
      BY DEF EnrichInit
    <3>5. b \in BreakerRow /\ b.failures = 0 /\ b.state = "CLOSED"
      BY <3>4 DEF NewBreaker, BreakerRow
    <3>6. Heard(b, c, inow) /\ Rests(c)
      BY <3>3, <3>5, BreakerAssumption DEF Heard, Rests
    <3> QED BY <3>1, <3>4, <3>6
  <2> QED BY <2>1, <2>2 DEF FeedsOK
<1> QED BY <1>1, <1>2, <1>3, <1>4 DEF EnrichInv

\* What EnrichInv says of a mail is what the properties ask.
LEMMA EnrichInvSuffices == EnrichInv => EnrichmentSound
<1> SUFFICES ASSUME EnrichInv PROVE EnrichmentSound
  OBVIOUS
<1>1. ChargedIsVouched
  <2>1. \A i \in DOMAIN job_.seen : {o.by : o \in Flaggers(i)} = replied[i].by
    BY DEF EnrichInv, MailOK, Vouched, Blamed, Flaggers
  <2> QED BY <2>1 DEF ChargedIsVouched, EnrichInv, ResultOK
<1>2. ConfidenceIsAFlaggers
  BY ConfidenceOf DEF ConfidenceIsAFlaggers, EnrichInv, MailOK, Vouched
<1>3. LiveServicesRest
  BY DEF LiveServicesRest, EnrichInv, FeedsOK, Rests
<1> QED BY <1>1, <1>2, <1>3 DEF EnrichmentSound

\* The manager keeps its limits and an enriched mail is charged for what the
\* providers vouch for (IntelSound), for every set of indicators, providers,
\* answers and outages, and every threshold, rate, TTL and cache size.
THEOREM IntelCorrect == IntelSpec => []IntelSound
<1>1. IntelInit /\ EnrichInit => ManagerInv /\ EnrichInv
  BY ManagerStarts, EnrichStarts
<1>2. ManagerInv /\ EnrichInv /\ [(IntelNext /\ UNCHANGED enrichVars) \/ EnrichNext]_<<intelVars, enrichVars>>
      => ManagerInv' /\ EnrichInv'
  <2> SUFFICES ASSUME ManagerInv, EnrichInv,
                      [(IntelNext /\ UNCHANGED enrichVars) \/ EnrichNext]_<<intelVars, enrichVars>>
               PROVE  ManagerInv' /\ EnrichInv'
    OBVIOUS
  <2>0. inow \in Nat
    BY Sizes DEF ManagerInv
  <2>1. CASE IntelNext /\ UNCHANGED enrichVars
    BY <2>1, ManagerMoves, ManagerClock, EnrichRests
  <2>2. CASE UNCHANGED intelVars /\ \E m \in IocMails : EnrichBegin(m)
    <3>1. UNCHANGED inow
      BY <2>2 DEF intelVars
    <3> QED BY <2>2, <3>1, ManagerRests, EnrichBeginKeeps
  <2>3. CASE UNCHANGED intelVars /\ \E i \in DOMAIN Iocs : LookUpCached(i) \/ LookUpSimulated(i) \/ LookUpLive(i)
    <3>1. UNCHANGED inow
      BY <2>3 DEF intelVars
    <3> QED BY <2>0, <2>3, <3>1, ManagerRests, LookUpCachedKeeps, LookUpSimulatedKeeps, LookUpLiveKeeps
  <2>4. CASE UNCHANGED intelVars /\ EnrichFinish
    <3>1. UNCHANGED inow
      BY <2>4 DEF intelVars
    <3> QED BY <2>4, <3>1, ManagerRests, EnrichFinishKeeps
  <2>5. CASE IntelTick /\ UNCHANGED enrichVars
    <3>1. IntelNext
      BY <2>5 DEF IntelNext
    <3> QED BY <2>5, <3>1, ManagerMoves, ManagerClock, EnrichRests
  <2>6. CASE UNCHANGED <<intelVars, enrichVars>>
    <3>1. inow' = inow
      BY <2>6 DEF intelVars
    <3> QED BY <2>0, <2>6, <3>1, ManagerRests, EnrichRests
  <2> QED BY <2>1, <2>2, <2>3, <2>4, <2>5, <2>6 DEF EnrichNext
<1>3. ManagerInv /\ EnrichInv => IntelSound
  BY ManagerInvSuffices, EnrichInvSuffices DEF IntelSound
<1> QED BY <1>1, <1>2, <1>3, PTL DEF IntelSpec

-----------------------------------------------------------------------------
(***************************************************************************)
(* Signatures.  In the pipeline there is no address, so a verdict rests on *)
(* the signatures alone: they are a set that only grows on the way.        *)
(***************************************************************************)
LetterTyped == /\ DOMAIN letter = {"from", "marks", "spf", "received", "dkim", "seals"}
               /\ letter.dkim \in Seq(Signatures)

Signed(m) == {m.dkim[i] : i \in DOMAIN m.dkim}
AlignedBy(m, s) == s.long /\ check_domain_alignment(Signer(m, s), m.from)

LEMMA ResultsFacts ==
  ASSUME NEW m
  PROVE  /\ DkimAligned(m) <=> \E s \in Signed(m) : AlignedBy(m, s)
         /\ (\E r \in Results(m) : r.ok) <=> \E s \in Signed(m) : s.long
         /\ Results(m) = {} <=> Signed(m) = {}
<1>1. Results(m) = {[domain |-> Signer(m, s), ok |-> s.long] : s \in Signed(m)}
  BY DEF Results, Signed
<1>2. ASSUME NEW r \in Results(m) PROVE \E s \in Signed(m) : r.domain = Signer(m, s) /\ r.ok = s.long
  <2>1. PICK s \in Signed(m) : r = [domain |-> Signer(m, s), ok |-> s.long]
    BY <1>1, Zenon
  <2>2. r.domain = Signer(m, s) /\ r.ok = s.long
    BY <2>1, Zenon
  <2> QED BY <2>2, Zenon
<1>3. ASSUME NEW s \in Signed(m) PROVE \E r \in Results(m) : r.domain = Signer(m, s) /\ r.ok = s.long
  <2>1. PICK r : r = [domain |-> Signer(m, s), ok |-> s.long]
    BY Zenon
  <2>2. r \in Results(m)
    BY <1>1, <2>1, Zenon
  <2>3. r.domain = Signer(m, s) /\ r.ok = s.long
    BY <2>1, Zenon
  <2> QED BY <2>2, <2>3, Zenon
<1>4. DkimAligned(m) <=> \E s \in Signed(m) : AlignedBy(m, s)
  BY <1>2, <1>3, Zenon DEF DkimAligned, AlignedBy
<1>5. (\E r \in Results(m) : r.ok) <=> \E s \in Signed(m) : s.long
  BY <1>2, <1>3, Zenon
<1>6. Results(m) = {} <=> Signed(m) = {}
  BY <1>2, <1>3, Zenon
<1> QED BY <1>4, <1>5, <1>6, Zenon

\* What the pipeline makes of the signatures of a letter.
LEMMA PipelineFacts ==
  ASSUME NEW m
  PROVE  /\ InPipeline(m).pass <=> m.from # None /\ DkimAligned(m)
         /\ InPipeline(m).impact = Worth(m.from # None /\ ~DkimAligned(m), 30) + Worth(DkimOverall(m) = "FAIL", 10)
         /\ DkimAligned(m) => DkimOverall(m) = "PASS"
         /\ m.from # None /\ DkimAligned(m) => \A ip : Verify(m, ip).pass
<1>1. \A ip : evaluate_dmarc(m, ip) = IF m.from = None THEN "NONE" ELSE IF ip = "PASS" \/ DkimAligned(m) THEN "PASS" ELSE "FAIL"
  BY DEF evaluate_dmarc
<1>2. evaluate_spf_record(m.from, None, m.spf) = "NONE"
  BY DEF evaluate_spf_record
<1>3. PICK dmarc : dmarc = evaluate_dmarc(m, "NONE")
  OBVIOUS
<1>4. dmarc = IF m.from = None THEN "NONE" ELSE IF DkimAligned(m) THEN "PASS" ELSE "FAIL"
  BY <1>1, <1>3
<1>5. /\ InPipeline(m).pass <=> dmarc = "PASS" \/ ("NONE" = "PASS" /\ DkimOverall(m) = "PASS")
      /\ InPipeline(m).impact = Worth(dmarc = "FAIL", 30) + Worth("NONE" \in {"FAIL", "SOFTFAIL"}, 10)
                                  + Worth(DkimOverall(m) = "FAIL", 10)
  BY <1>2, <1>3 DEF InPipeline, Verify
<1>6. InPipeline(m).pass <=> m.from # None /\ DkimAligned(m)
  BY <1>4, <1>5
<1>7. (dmarc = "FAIL") <=> (m.from # None /\ ~DkimAligned(m))
  BY <1>4
<1>8. InPipeline(m).impact = Worth(m.from # None /\ ~DkimAligned(m), 30) + Worth(DkimOverall(m) = "FAIL", 10)
  BY <1>5, <1>7 DEF Worth
<1>9. DkimAligned(m) => DkimOverall(m) = "PASS"
  BY DEF DkimAligned, DkimOverall
<1>10. ASSUME m.from # None, DkimAligned(m), NEW ip PROVE Verify(m, ip).pass
  <2>1. evaluate_dmarc(m, evaluate_spf_record(m.from, ip, m.spf)) = "PASS"
    BY <1>1, <1>10
  <2> QED BY <2>1 DEF Verify
<1> QED BY <1>6, <1>8, <1>9, <1>10

LEMMA LetterInvSuffices == LetterTyped => PassesBySignatureOnly
<1> SUFFICES ASSUME LetterTyped PROVE PassesBySignatureOnly
  OBVIOUS
<1>1. InPipeline(letter).pass <=> letter.from # None /\ DkimAligned(letter)
  BY PipelineFacts
<1>2. DkimAligned(letter) <=>
        \E i \in DOMAIN letter.dkim :
          letter.dkim[i].long /\ check_domain_alignment(Signer(letter, letter.dkim[i]), letter.from)
  BY ResultsFacts, Zenon DEF AlignedBy, Signed
<1>3. ASSUME letter.from # None, NEW s
      PROVE check_domain_alignment(Signer(letter, s), letter.from) <=> s.d = None \/ OrgOf[s.d] = OrgOf[letter.from]
  BY <1>3 DEF check_domain_alignment, Signer
<1>4. InPipeline(letter).pass => Verify(letter, Transmission(letter).origin).pass
  BY PipelineFacts
<1>5. InPipeline(letter).impact <= 50
  <2>1. PICK a : a = Worth(letter.from # None /\ ~DkimAligned(letter), 30)
    OBVIOUS
  <2>2. PICK b : b = Worth(DkimOverall(letter) = "FAIL", 10)
    OBVIOUS
  <2>3. InPipeline(letter).impact = a + b
    BY <2>1, <2>2, PipelineFacts
  <2>4. a \in {0, 30} /\ b \in {0, 10}
    BY <2>1, <2>2 DEF Worth
  <2> QED BY <2>3, <2>4
<1> QED BY <1>1, <1>2, <1>3, <1>4, <1>5 DEF PassesBySignatureOnly

\* One more signature on top.
LEMMA SignatureAdded ==
  ASSUME NEW m, NEW n, NEW s, n.from = m.from, Signed(n) = Signed(m) \cup {s}
  PROVE  /\ InPipeline(m).pass => InPipeline(n).pass
         /\ InPipeline(n).impact <= InPipeline(m).impact + Worth(~s.long, 10)
<1>1. DkimAligned(m) => DkimAligned(n)
  <2>1. \A x : Signer(n, x) = Signer(m, x)
    BY DEF Signer
  <2>2. \A x : AlignedBy(n, x) <=> AlignedBy(m, x)
    BY <2>1 DEF AlignedBy
  <2>3. Signed(m) \subseteq Signed(n)
    OBVIOUS
  <2> QED BY <2>2, <2>3, ResultsFacts, Zenon
<1>2. DkimOverall(n) = "FAIL" => ~s.long
  <2>1. s \in Signed(n)
    OBVIOUS
  <2>2. s.long => \E r \in Results(n) : r.ok
    BY <2>1, ResultsFacts, Zenon
  <2>3. s.long => DkimOverall(n) = "PASS"
    BY <2>2 DEF DkimOverall
  <2> QED BY <2>3
<1>3. PICK a, b, c, d, e : /\ a = Worth(m.from # None /\ ~DkimAligned(m), 30) /\ b = Worth(DkimOverall(m) = "FAIL", 10)
                           /\ c = Worth(n.from # None /\ ~DkimAligned(n), 30) /\ d = Worth(DkimOverall(n) = "FAIL", 10)
                           /\ e = Worth(~s.long, 10)
  OBVIOUS
<1>4. a \in {0, 30} /\ b \in {0, 10} /\ c \in {0, 30} /\ d \in {0, 10} /\ e \in {0, 10}
  BY <1>3 DEF Worth
<1>5. (c = 30 => a = 30) /\ (d = 10 => e = 10)
  BY <1>1, <1>2, <1>3 DEF Worth
<1>6. c + d <= a + b + e
  BY <1>4, <1>5
<1>7. InPipeline(m).impact = a + b /\ InPipeline(n).impact = c + d
  BY <1>3, PipelineFacts
<1> QED BY <1>1, <1>3, <1>6, <1>7, PipelineFacts

SignatureHelps ==
  letter'.dkim # letter.dkim =>
    LET old == InPipeline(letter)  new == InPipeline(letter') IN
    /\ old.pass => new.pass
    /\ new.impact <= old.impact + Worth(~letter'.dkim[1].long, 10)

LEMMA LetterStep == ASSUME LetterTyped, [LetterNext]_letterVars PROVE LetterTyped' /\ SignatureHelps
<1>1. CASE UNCHANGED letterVars
  BY <1>1 DEF letterVars, LetterTyped, SignatureHelps
<1>2. ASSUME NEW h, Relay(h) PROVE LetterTyped' /\ SignatureHelps
  BY <1>2 DEF Relay, LetterTyped, SignatureHelps
<1>3. ASSUME NEW cv, Seal(cv) PROVE LetterTyped' /\ SignatureHelps
  BY <1>3 DEF Seal, LetterTyped, SignatureHelps
<1>4. ASSUME NEW s \in Signatures, Sign(s) PROVE LetterTyped' /\ SignatureHelps
  <2>1. PICK old : old = letter.dkim
    OBVIOUS
  <2>2. PICK top : top = <<s>> \o old
    OBVIOUS
  <2>3. /\ letter' = [letter EXCEPT !.dkim = top] /\ DOMAIN letter' = DOMAIN letter
        /\ letter'.dkim = top /\ letter'.from = letter.from
    BY <1>4, <2>1, <2>2 DEF Sign, OnTop, LetterTyped
  <2>4. PICK k \in Nat : k = Len(old) /\ DOMAIN old = 1..k
    BY <2>1, LenProperties DEF LetterTyped
  <2>5. /\ top \in Seq(Signatures) /\ DOMAIN top = 1..(k + 1) /\ top[1] = s
        /\ \A i \in 1..k : top[i + 1] = old[i]
    BY <2>1, <2>2, <2>4 DEF LetterTyped
  <2>6. LetterTyped'
    BY <2>3, <2>5 DEF LetterTyped
  <2>7. Signed(letter') = Signed(letter) \cup {s}
    <3>1. ASSUME NEW i \in DOMAIN top PROVE top[i] = s \/ \E j \in DOMAIN old : top[i] = old[j]
      <4>1. i = 1 \/ (i - 1 \in 1..k /\ top[i] = old[i - 1])
        BY <2>5
      <4> QED BY <2>4, <2>5, <4>1
    <3>2. ASSUME NEW i \in DOMAIN old PROVE \E j \in DOMAIN top : top[j] = old[i]
      <4>1. i + 1 \in 1..(k + 1) /\ top[i + 1] = old[i]
        BY <2>4, <2>5
      <4> QED BY <2>5, <4>1
    <3>3. 1 \in DOMAIN top /\ top[1] = s
      BY <2>5
    <3>4. Signed(letter') = {top[i] : i \in DOMAIN top} /\ Signed(letter) = {old[i] : i \in DOMAIN old}
      BY <2>1, <2>3 DEF Signed
    <3> QED BY <3>1, <3>2, <3>3, <3>4
  <2>11. /\ InPipeline(letter).pass => InPipeline(letter').pass
         /\ InPipeline(letter').impact <= InPipeline(letter).impact + Worth(~s.long, 10)
    BY <2>3, <2>7, SignatureAdded
  <2> QED BY <2>3, <2>5, <2>6, <2>11 DEF SignatureHelps
<1> QED BY <1>1, <1>2, <1>3, <1>4 DEF LetterNext

\* However many relays, lists and signatures a letter passes: in the pipeline it
\* passes exactly by a good signature of its sender's organisation, wherever that
\* stands, and would then pass with its address known; and a signature that is
\* added never turns a pass into a fail.
THEOREM SignaturesCorrect == LetterSpec => []PassesBySignatureOnly /\ SignaturesOnlyHelp
<1>1. LetterInit => LetterTyped
  <2> SUFFICES ASSUME LetterInit PROVE LetterTyped
    OBVIOUS
  <2>1. letter.dkim = <<>>
    BY DEF LetterInit
  <2>2. DOMAIN letter = {"from", "marks", "spf", "received", "dkim", "seals"}
    BY DEF LetterInit
  <2> QED BY <2>1, <2>2 DEF LetterTyped
<1>2. LetterTyped /\ [LetterNext]_letterVars => LetterTyped' /\ [SignatureHelps]_letterVars
  BY LetterStep
<1>3. SignaturesOnlyHelp <=> [][SignatureHelps]_letterVars
  BY PTL DEF SignaturesOnlyHelp, SignatureHelps
<1> QED BY <1>1, <1>2, <1>3, LetterInvSuffices, PTL DEF LetterSpec
=============================================================================
