--------------------------- MODULE GraphIngestion ---------------------------
(***************************************************************************)
(* The Microsoft Graph path of the ingestion gateway, end to end: the      *)
(* webhook endpoint (webhook_handler.py), the daemons it routes to         *)
(* (providers/msgraph_daemon.py, providers/base.py), the manager's         *)
(* delivery handler (manager.py) and the dead-letter queue it feeds.       *)
(*                                                                         *)
(* Requests are coroutines of one event loop.  Between two actions of a    *)
(* request others may run; the code only yields at its awaits, so the      *)
(* model interleaves at least as finely as the program.  The provider may  *)
(* post a batch again at any time, and the account coordinator may add and *)
(* remove daemons while requests are under way.  The daemons of a snapshot *)
(* are visited in any order; the code visits them in registration order.   *)
(***************************************************************************)
EXTENDS DedupStore, Sequences, FiniteSets

CONSTANTS
  Requests,    \* concurrent invocations of msgraph_webhook_endpoint
  Daemons,     \* MSGraphIngestionDaemon instances, one per (tenant, account)
  Churning,    \* the daemons the account coordinator adds and removes
  StateOf,     \* daemon -> client_state, or NoState when none is configured
  NoState,
  Messages,    \* provider message ids
  Batches,     \* batch name -> the "value" array of one notification post
  Oversized,   \* messages whose MIME exceeds max_mime_size_bytes
  Ttl,         \* default_ttl_sec of the shared deduplication engine
  MaxTime      \* bound on the clock

ASSUME TtlAssumption == Ttl \in Nat \ {0}
ASSUME TimeAssumption == MaxTime \in Nat
ASSUME ChurnAssumption == Churning \subseteq Daemons
ASSUME BatchAssumption ==
  /\ \A b \in DOMAIN Batches : /\ Len(Batches[b]) \in Nat
                              /\ DOMAIN Batches[b] = 1..Len(Batches[b])
                              /\ \A i \in DOMAIN Batches[b] : Batches[b][i].msg \in Messages

VARIABLES
  registry,    \* the registered daemons: _daemons_by_id.values()
  store,       \* the deduplication engine's _store, keyed by <<daemon, message>>
  now,
  req,         \* request -> where it is and what it holds
  ingested,    \* daemon -> _messages_ingested
  delivered,   \* <<daemon, message, time marked>> the pipeline accepted
  dlq,         \* <<daemon, message, time marked, reason>> quarantined
  acked        \* batches the provider has had a 2xx for

vars == <<registry, store, now, req, ingested, delivered, dlq, acked>>
outcome == <<ingested, delivered, dlq>>

(***************************************************************************)
(* A request: the batch it carries, the number of the item it is routing,  *)
(* the daemons of that item's snapshot still to visit, and, while it waits *)
(* for a message, the key and time that check_and_mark recorded.           *)
(***************************************************************************)
NoBatch == "no batch"
NoMark == <<>>
Idle == [pc |-> "idle", batch |-> NoBatch, i |-> 0, todo |-> {}, mark |-> NoMark]

Init == /\ registry = Daemons \ Churning
        /\ store = EmptyDict
        /\ now = 0
        /\ req = [r \in Requests |-> Idle]
        /\ ingested = [d \in Daemons |-> 0]
        /\ delivered = {}
        /\ dlq = {}
        /\ acked = {}

\* Request r moves to pc, with these values of what it is routing and holds.
At(r, pc, i, todo, mark) ==
  [pc |-> pc, batch |-> req[r].batch, i |-> i, todo |-> todo, mark |-> mark]

InFlight(r) == req[r].pc \in {"fetch", "handle"}
Quarantine(r, reason) ==
  dlq \cup {<<req[r].mark[1], req[r].mark[2], req[r].mark[3], reason>>}

-----------------------------------------------------------------------------
\* A notification post arrives; the endpoint awaits and validates its body.
Post(r, b) ==
  /\ req[r].pc = "idle"
  /\ req' = [req EXCEPT ![r] = [pc |-> "route", batch |-> b, i |-> 0, todo |-> {}, mark |-> NoMark]]
  /\ UNCHANGED <<registry, store, now, outcome, acked>>

\* The next item of the batch: the registered daemons are listed afresh.
NextItem(r) ==
  /\ req[r].pc = "route" /\ req[r].todo = {}
  /\ req[r].i < Len(Batches[req[r].batch])
  /\ req' = [req EXCEPT ![r] = At(r, "route", req[r].i + 1, registry, NoMark)]
  /\ UNCHANGED <<registry, store, now, outcome, acked>>

\* Every item has been routed: the endpoint answers 200.
Accept(r) ==
  /\ req[r].pc = "route" /\ req[r].todo = {}
  /\ req[r].i = Len(Batches[req[r].batch])
  /\ acked' = acked \cup {req[r].batch}
  /\ req' = [req EXCEPT ![r] = Idle]
  /\ UNCHANGED <<registry, store, now, outcome>>

\* The clientState test of the endpoint and validate_client_state agree: a
\* daemon without a client_state takes every notification.
Matches(d, item) == StateOf[d] = NoState \/ StateOf[d] = item.state

\* Only arrivals are processed.
Arrival(item) == item.change \in {"created", "updated"}

\* Mutant: a duplicate is refused, and the provider told to post again.
SkipRefusing(r, d) ==
  LET item == Batches[req[r].batch][req[r].i] IN
  /\ req[r].pc = "route" /\ d \in req[r].todo
  /\ \/ ~Matches(d, item)
     \/ ~Arrival(item)
     \/ Live(store, <<d, item.msg>>, now)
  /\ req' = [req EXCEPT ![r] = IF Matches(d, item) /\ Arrival(item) THEN Idle
                               ELSE At(r, "route", req[r].i, req[r].todo \ {d}, NoMark)]
  /\ UNCHANGED <<registry, store, now, outcome, acked>>

\* The item is not for this daemon, is no arrival, or is a duplicate.
Skip(r, d) ==
  LET item == Batches[req[r].batch][req[r].i] IN
  /\ req[r].pc = "route" /\ d \in req[r].todo
  /\ \/ ~Matches(d, item)
     \/ ~Arrival(item)
     \/ Live(store, <<d, item.msg>>, now)
  /\ req' = [req EXCEPT ![r] = At(r, "route", req[r].i, req[r].todo \ {d}, NoMark)]
  /\ UNCHANGED <<registry, store, now, outcome, acked>>

\* Mutant: the check is made, but the mark only once the message is delivered.
TakeUnmarked(r, d) ==
  LET item == Batches[req[r].batch][req[r].i] IN
  /\ req[r].pc = "route" /\ d \in req[r].todo
  /\ Matches(d, item) /\ Arrival(item)
  /\ ~Live(store, <<d, item.msg>>, now)
  /\ req' = [req EXCEPT ![r] = At(r, "fetch", req[r].i, req[r].todo \ {d},
                                    <<d, item.msg, now>>)]
  /\ UNCHANGED <<registry, store, now, outcome, acked>>

\* check_and_mark says the message is new: it is marked, and its MIME awaited.
Take(r, d) ==
  LET item == Batches[req[r].batch][req[r].i] IN
  /\ req[r].pc = "route" /\ d \in req[r].todo
  /\ Matches(d, item) /\ Arrival(item)
  /\ ~Live(store, <<d, item.msg>>, now)
  /\ store' = Put(store, <<d, item.msg>>, now + Ttl)
  /\ req' = [req EXCEPT ![r] = At(r, "fetch", req[r].i, req[r].todo \ {d},
                                    <<d, item.msg, now>>)]
  /\ UNCHANGED <<registry, now, outcome, acked>>

\* Mutant: a failed retrieval is answered with 500 but not quarantined.
FetchFailsSilently(r) ==
  /\ req[r].pc = "fetch"
  /\ req' = [req EXCEPT ![r] = Idle]
  /\ UNCHANGED <<registry, store, now, outcome, acked>>

\* fetch_raw_mime raises: quarantined, 500, the rest of the batch unrouted.
FetchFails(r) ==
  /\ req[r].pc = "fetch"
  /\ dlq' = Quarantine(r, "PROCESSING_FAILURE")
  /\ req' = [req EXCEPT ![r] = Idle]
  /\ UNCHANGED <<registry, store, now, ingested, delivered, acked>>

\* The MIME is too large: quarantined, 422, the rest of the batch unrouted.
TooLarge(r) ==
  /\ req[r].pc = "fetch" /\ req[r].mark[2] \in Oversized
  /\ dlq' = Quarantine(r, "PAYLOAD_SIZE_EXCEEDED")
  /\ req' = [req EXCEPT ![r] = Idle]
  /\ UNCHANGED <<registry, store, now, ingested, delivered, acked>>

\* deliver: the daemon counts the message, then awaits handle_ingested_email.
Deliver(r) ==
  /\ req[r].pc = "fetch" /\ req[r].mark[2] \notin Oversized
  /\ ingested' = [ingested EXCEPT ![req[r].mark[1]] = @ + 1]
  /\ req' = [req EXCEPT ![r] = At(r, "handle", req[r].i, req[r].todo, req[r].mark)]
  /\ UNCHANGED <<registry, store, now, delivered, dlq, acked>>

\* Mutant: the mark of a handled message is kept.
HandledKeepsMark(r) ==
  /\ req[r].pc = "handle"
  /\ delivered' = delivered \cup {req[r].mark}
  /\ req' = [req EXCEPT ![r] = At(r, "route", req[r].i, req[r].todo, req[r].mark)]
  /\ UNCHANGED <<registry, store, now, ingested, dlq, acked>>

\* handle_ingested_email returns: its event was published or the failure
\* logged, and execute_pipeline succeeded.  Routing goes on.
Handled(r) ==
  /\ req[r].pc = "handle"
  /\ delivered' = delivered \cup {req[r].mark}
  /\ req' = [req EXCEPT ![r] = At(r, "route", req[r].i, req[r].todo, NoMark)]
  /\ UNCHANGED <<registry, store, now, ingested, dlq, acked>>

\* Mutant: the endpoint carries on after a pipeline failure nobody recorded.
PipelineFailsSilently(r) ==
  /\ req[r].pc = "handle"
  /\ req' = [req EXCEPT ![r] = At(r, "route", req[r].i, req[r].todo, NoMark)]
  /\ UNCHANGED <<registry, store, now, outcome, acked>>

\* execute_pipeline raises: the manager quarantines the message and re-raises,
\* the endpoint quarantines it a second time and answers 500.
PipelineFails(r) ==
  /\ req[r].pc = "handle"
  /\ dlq' = Quarantine(r, "PIPELINE_ORCHESTRATOR_FAILURE")
              \cup Quarantine(r, "PROCESSING_FAILURE")
  /\ req' = [req EXCEPT ![r] = Idle]
  /\ UNCHANGED <<registry, store, now, ingested, delivered, acked>>

-----------------------------------------------------------------------------
\* The account coordinator adds a daemon, or stops and removes one.
Register(d) == /\ d \in Churning \ registry
               /\ registry' = registry \cup {d}
               /\ UNCHANGED <<store, now, req, outcome, acked>>

Unregister(d) == /\ d \in Churning \cap registry
                 /\ registry' = registry \ {d}
                 /\ UNCHANGED <<store, now, req, outcome, acked>>

Tick == /\ now < MaxTime
        /\ now' = now + 1
        /\ UNCHANGED <<registry, store, req, outcome, acked>>

\* What a request does next once it has been posted.
Step(r) == \/ NextItem(r) \/ Accept(r)
           \/ \E d \in Daemons : Skip(r, d) \/ Take(r, d)
           \/ FetchFails(r) \/ TooLarge(r) \/ Deliver(r)
           \/ Handled(r) \/ PipelineFails(r)

Next == \/ \E r \in Requests, b \in DOMAIN Batches : Post(r, b)
        \/ \E r \in Requests : Step(r)
        \/ \E d \in Daemons : Register(d) \/ Unregister(d)
        \/ Tick

Spec == Init /\ [][Next]_vars

\* Every awaited call returns or raises, and the provider posts a batch again
\* until it has had a 2xx for it.
Retry(b) == b \notin acked /\ \E r \in Requests : Post(r, b)
FairSpec == /\ Spec
            /\ \A r \in Requests : WF_vars(Step(r))
            /\ \A b \in DOMAIN Batches : SF_vars(Retry(b))

-----------------------------------------------------------------------------
Reasons == {"PROCESSING_FAILURE", "PAYLOAD_SIZE_EXCEEDED", "PIPELINE_ORCHESTRATOR_FAILURE"}

\* The marks a request holds now, or left behind as an outcome.
Held == {req[r].mark : r \in {q \in Requests : InFlight(q)}}
Quarantined == {<<e[1], e[2], e[3]>> : e \in dlq}
Settled == delivered \cup Quarantined

Marks == Daemons \X Messages \X (0..MaxTime)
RequestStates == [pc : {"idle", "route", "fetch", "handle"}, batch : DOMAIN Batches \cup {NoBatch},
                  i : Nat, todo : SUBSET Daemons, mark : Marks \cup {NoMark}]

\* Type invariant: a request that is not idle carries a batch, the item it is
\* routing exists, and it holds a mark exactly while it awaits a message.
TypeOK ==
  /\ registry \subseteq Daemons
  /\ DOMAIN store \subseteq Daemons \X Messages
  /\ store \in [DOMAIN store -> Nat]
  /\ now \in 0..MaxTime
  /\ req \in [Requests -> RequestStates]
  /\ \A r \in Requests :
       /\ req[r].pc # "idle" => req[r].batch \in DOMAIN Batches
       /\ req[r].todo # {} => req[r].pc # "idle" /\ req[r].i \in 1..Len(Batches[req[r].batch])
       /\ InFlight(r) <=> req[r].mark \in Marks
  /\ ingested \in [Daemons -> Nat]
  /\ delivered \subseteq Marks
  /\ dlq \subseteq Daemons \X Messages \X (0..MaxTime) \X Reasons
  /\ acked \subseteq DOMAIN Batches

\* Two handlers never process the same message of the same account inside one
\* deduplication window: whatever they interleave at their awaits, the times
\* at which check_and_mark let the same key through are at least Ttl apart,
\* and no two requests hold the same mark.
ProcessedOncePerWindow ==
  /\ \A r, s \in Requests :
       r # s /\ InFlight(r) /\ InFlight(s) => req[r].mark # req[s].mark
  /\ Held \cap Settled = {}
  /\ \A x, y \in Held \cup Settled :
       x[1] = y[1] /\ x[2] = y[2] /\ x[3] < y[3] => x[3] + Ttl <= y[3]

\* Suppression never hides a loss: a key is only ever suppressed while the
\* message that was marked under it is still being processed, or has reached
\* the pipeline or the dead-letter queue.  check_and_mark marks before the
\* message is fetched, so every early exit must leave a trace.
SuppressedIsAccountedFor ==
  \A k \in DOMAIN store : <<k[1], k[2], store[k] - Ttl>> \in Held \cup Settled

\* The strengthening that makes the two properties above inductive: the record
\* of a key outlives, by Ttl, every mark ever made under it.
RecordOutlivesMarks ==
  \A x \in Held \cup Settled :
    /\ x[3] <= now
    /\ <<x[1], x[2]>> \in DOMAIN store
    /\ x[3] + Ttl <= store[<<x[1], x[2]>>]

\* The items of a batch that a daemon registered throughout has to process.
Owed(b, d) ==
  {Batches[b][i].msg : i \in {j \in DOMAIN Batches[b] :
                                Matches(d, Batches[b][j]) /\ Arrival(Batches[b][j])}}

\* A 2xx to the provider hands every message over: for each daemon that stayed
\* registered and each arrival it matches, the message is delivered, dead-
\* lettered, or in the hands of another request, although an error in the
\* middle of a batch drops the rest of it and the retry is partly suppressed.
AcknowledgedIsAccountedFor ==
  \A b \in acked, d \in Daemons \ Churning : \A m \in Owed(b, d) :
    \E x \in Held \cup Settled : x[1] = d /\ x[2] = m

\* Every notified message is eventually delivered or dead-lettered for every
\* daemon that stays registered: the batch abort at the first failing item
\* never starves the items behind it, because each retry gets further.
EventuallySettled ==
  \A b \in DOMAIN Batches, d \in Daemons \ Churning : \A m \in Owed(b, d) :
    <>(\E x \in Settled : x[1] = d /\ x[2] = m)
=============================================================================
