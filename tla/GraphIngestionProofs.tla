------------------------ MODULE GraphIngestionProofs ------------------------
(***************************************************************************)
(* Proofs about the Microsoft Graph ingestion path, for any number of      *)
(* concurrent requests, daemons, messages and batches, and any window.     *)
(***************************************************************************)
EXTENDS GraphIngestion, TLAPS

USE TtlAssumption, TimeAssumption, ChurnAssumption, BatchAssumption

\* The empty mark of a request that waits for nothing is no mark.
LEMMA NoMarkIsNoMark == NoMark \notin Marks
  BY DEF NoMark, Marks

\* No request is under way initially, and nothing is marked.
LEMMA TypeInitially == Init => TypeOK
<1> SUFFICES ASSUME Init PROVE TypeOK
  OBVIOUS
<1>1. \A r \in Requests : req[r] = Idle
  BY DEF Init
<1>2. Idle \in RequestStates
  BY DEF Idle, RequestStates
<1>3. /\ DOMAIN store \subseteq Daemons \X Messages
      /\ store \in [DOMAIN store -> Nat]
  BY DEF Init, EmptyDict
<1> QED
  BY <1>1, <1>2, <1>3, NoMarkIsNoMark DEF Init, TypeOK, Idle, InFlight

\* Every step of a request, of the registry and of the clock keeps the types.
LEMMA TypePreserved == TypeOK /\ [Next]_vars => TypeOK'
<1> SUFFICES ASSUME TypeOK, [Next]_vars PROVE TypeOK'
  OBVIOUS
<1> USE NoMarkIsNoMark
<1> USE DEF TypeOK, InFlight, outcome, RequestStates, At
<1>1. ASSUME NEW r \in Requests, NEW b \in DOMAIN Batches, Post(r, b) PROVE TypeOK'
  BY <1>1 DEF Post, Idle
<1>2. ASSUME NEW r \in Requests, NextItem(r) PROVE TypeOK'
  <2>1. req[r].i + 1 \in 1..Len(Batches[req[r].batch])
    BY <1>2 DEF NextItem
  <2> QED BY <1>2, <2>1 DEF NextItem
<1>3. ASSUME NEW r \in Requests, Accept(r) PROVE TypeOK'
  BY <1>3 DEF Accept, Idle
<1>4. ASSUME NEW r \in Requests, NEW d \in Daemons, Skip(r, d) PROVE TypeOK'
  BY <1>4 DEF Skip
<1>5. ASSUME NEW r \in Requests, NEW d \in Daemons, Take(r, d) PROVE TypeOK'
  <2> DEFINE m == Batches[req[r].batch][req[r].i].msg
  <2>1. m \in Messages /\ <<d, m, now>> \in Marks
    BY <1>5 DEF Take, Marks
  <2>2. /\ req' = [req EXCEPT ![r] = At(r, "fetch", req[r].i, req[r].todo \ {d}, <<d, m, now>>)]
        /\ store' = Put(store, <<d, m>>, now + Ttl)
        /\ req[r].pc = "route"
        /\ UNCHANGED <<registry, now, outcome, acked>>
    BY <1>5 DEF Take
  <2> HIDE DEF m
  <2>3. DOMAIN store' \subseteq Daemons \X Messages /\ store' \in [DOMAIN store' -> Nat]
    BY <2>1, <2>2 DEF Put, Marks
  <2> QED BY <2>1, <2>2, <2>3
<1>6. ASSUME NEW r \in Requests, FetchFails(r) PROVE TypeOK'
  BY <1>6 DEF FetchFails, Quarantine, Idle, Marks, Reasons
<1>7. ASSUME NEW r \in Requests, TooLarge(r) PROVE TypeOK'
  BY <1>7 DEF TooLarge, Quarantine, Idle, Marks, Reasons
<1>8. ASSUME NEW r \in Requests, Deliver(r) PROVE TypeOK'
  <2>1. req[r].mark \in Marks /\ req[r].mark[1] \in Daemons
    BY <1>8 DEF Deliver, Marks
  <2>2. ingested' \in [Daemons -> Nat]
    BY <1>8, <2>1 DEF Deliver
  <2> QED BY <1>8, <2>1, <2>2 DEF Deliver
<1>9. ASSUME NEW r \in Requests, Handled(r) PROVE TypeOK'
  BY <1>9 DEF Handled
<1>10. ASSUME NEW r \in Requests, PipelineFails(r) PROVE TypeOK'
  BY <1>10 DEF PipelineFails, Quarantine, Idle, Marks, Reasons
<1>11. ASSUME NEW d \in Daemons, Register(d) \/ Unregister(d) PROVE TypeOK'
  BY <1>11 DEF Register, Unregister
<1>12. CASE Tick
  BY <1>12 DEF Tick
<1>13. CASE UNCHANGED vars
  BY <1>13 DEF vars
<1> QED
  BY <1>1, <1>2, <1>3, <1>4, <1>5, <1>6, <1>7, <1>8, <1>9, <1>10, <1>11, <1>12, <1>13
  DEF Next, Step

\* Requests, store, outcomes and acknowledgements keep their types, and a
\* request holds a mark exactly while it awaits a message.
THEOREM TypeCorrect == Spec => []TypeOK
  BY TypeInitially, TypePreserved, PTL DEF Spec

-----------------------------------------------------------------------------
(***************************************************************************)
(* The window properties.  Only four things happen to the marks: a request *)
(* takes one, settles the one it holds, or neither; the clock advances.    *)
(***************************************************************************)
WindowInv == TypeOK /\ ProcessedOncePerWindow /\ SuppressedIsAccountedFor /\ RecordOutlivesMarks

\* A step that leaves the store, the outcomes and every held mark alone, and
\* does not turn the clock back, keeps the window properties.
LEMMA QuietStep ==
  ASSUME WindowInv, TypeOK', now <= now', store' = store,
         delivered' = delivered, dlq' = dlq,
         \A r \in Requests : /\ InFlight(r)' <=> InFlight(r)
                             /\ InFlight(r) => req'[r].mark = req[r].mark
  PROVE WindowInv'
<1>1. Held' = Held /\ Settled' = Settled
  BY DEF Held, Settled, Quarantined
<1>2. ProcessedOncePerWindow'
  BY <1>1 DEF WindowInv, ProcessedOncePerWindow
<1>3. SuppressedIsAccountedFor'
  BY <1>1 DEF WindowInv, SuppressedIsAccountedFor
<1>4. RecordOutlivesMarks'
  <2>1. \A x \in Held \cup Settled : x \in Marks
    BY DEF WindowInv, TypeOK, Held, Settled, Quarantined, Marks
  <2>2. \A x \in Held \cup Settled : x[3] \in Nat
    BY <2>1 DEF Marks
  <2>3. now \in Nat /\ now' \in Nat
    BY DEF WindowInv, TypeOK
  <2>4. \A x \in Held \cup Settled : x[3] <= now
    BY DEF WindowInv, RecordOutlivesMarks
  <2>5. ASSUME NEW a \in Nat, NEW b \in Nat, NEW c \in Nat, a <= b, b <= c PROVE a <= c
    BY <2>5
  <2>6. \A x \in Held \cup Settled : x[3] <= now'
    BY <2>2, <2>3, <2>4, <2>5
  <2> QED
    BY <1>1, <2>6 DEF WindowInv, RecordOutlivesMarks
<1> QED
  BY <1>2, <1>3, <1>4 DEF WindowInv

\* A request that hands its mark to the pipeline or the dead-letter queue and
\* holds none afterwards keeps the window properties.
LEMMA SettlingStep ==
  ASSUME WindowInv, TypeOK', NEW r \in Requests, InFlight(r), ~InFlight(r)',
         store' = store, now' = now,
         Settled' = Settled \cup {req[r].mark},
         \A s \in Requests \ {r} : req'[s] = req[s]
  PROVE WindowInv'
<1> DEFINE x == req[r].mark
<1>1. \A s \in Requests : InFlight(s)' <=> s # r /\ InFlight(s)
  BY DEF InFlight
<1>2. Held' = Held \ {x}
  BY <1>1 DEF Held, WindowInv, ProcessedOncePerWindow
<1>3. x \in Held
  BY DEF Held
<1>4. Held' \cup Settled' = Held \cup Settled
  BY <1>2, <1>3
<1>5. ProcessedOncePerWindow'
  <2>1. \A p, s \in Requests :
           p # s /\ InFlight(p)' /\ InFlight(s)' => req'[p].mark # req'[s].mark
    BY <1>1 DEF WindowInv, ProcessedOncePerWindow
  <2>2. Held' \cap Settled' = {}
    BY <1>2 DEF WindowInv, ProcessedOncePerWindow
  <2> QED
    BY <1>4, <2>1, <2>2 DEF WindowInv, ProcessedOncePerWindow
<1>6. SuppressedIsAccountedFor'
  BY <1>4 DEF WindowInv, SuppressedIsAccountedFor
<1>7. RecordOutlivesMarks'
  BY <1>4 DEF WindowInv, RecordOutlivesMarks
<1> QED
  BY <1>5, <1>6, <1>7 DEF WindowInv

\* Letting a key through check_and_mark, once its record has run out, keeps the
\* window properties: all its earlier marks are at least Ttl old.
LEMMA TakingStep ==
  ASSUME WindowInv, TypeOK', NEW r \in Requests, NEW d \in Daemons, NEW m \in Messages,
         ~InFlight(r), ~Live(store, <<d, m>>, now),
         store' = Put(store, <<d, m>>, now + Ttl), now' = now,
         delivered' = delivered, dlq' = dlq,
         InFlight(r)', req'[r].mark = <<d, m, now>>,
         \A s \in Requests \ {r} : req'[s] = req[s]
  PROVE WindowInv'
<1> DEFINE new == <<d, m, now>>
           k == <<d, m>>
<1>0. now \in Nat /\ DOMAIN store \subseteq Daemons \X Messages /\ store \in [DOMAIN store -> Nat]
  BY DEF WindowInv, TypeOK
<1>1. \A s \in Requests : InFlight(s)' <=> s = r \/ InFlight(s)
  BY DEF InFlight
<1>2. Held' = Held \cup {new}
  BY <1>1 DEF Held
<1>3. Settled' = Settled
  BY DEF Settled, Quarantined
<1>4. \A x \in Held \cup Settled : x \in Marks
  BY DEF WindowInv, TypeOK, Held, Settled, Quarantined, Marks
<1>5. \A x \in Held \cup Settled : x[1] = d /\ x[2] = m => x[3] + Ttl <= now
  BY <1>0, <1>4 DEF WindowInv, RecordOutlivesMarks, Live, Marks
<1>6. new \notin Held \cup Settled
  BY <1>0, <1>5
<1>7. ProcessedOncePerWindow'
  <2>1. \A p, s \in Requests :
           p # s /\ InFlight(p)' /\ InFlight(s)' => req'[p].mark # req'[s].mark
    BY <1>1, <1>6 DEF WindowInv, ProcessedOncePerWindow, Held
  <2>2. Held' \cap Settled' = {}
    BY <1>2, <1>3, <1>6 DEF WindowInv, ProcessedOncePerWindow
  <2>3. ASSUME NEW x \in Held' \cup Settled', NEW y \in Held' \cup Settled',
               x[1] = y[1], x[2] = y[2], x[3] < y[3]
        PROVE x[3] + Ttl <= y[3]
    <3>1. CASE x = new
      BY <1>0, <1>2, <1>3, <1>4, <1>5, <2>3, <3>1 DEF Marks
    <3>2. CASE y = new
      BY <1>0, <1>2, <1>3, <1>5, <2>3, <3>2
    <3>3. CASE x # new /\ y # new
      BY <1>2, <1>3, <2>3, <3>3 DEF WindowInv, ProcessedOncePerWindow
    <3> QED BY <3>1, <3>2, <3>3
  <2> QED
    BY <2>1, <2>2, <2>3 DEF ProcessedOncePerWindow
<1>8. SuppressedIsAccountedFor'
  <2> SUFFICES ASSUME NEW q \in DOMAIN store'
               PROVE <<q[1], q[2], store'[q] - Ttl>> \in Held' \cup Settled'
    BY DEF SuppressedIsAccountedFor
  <2>1. CASE q = k
    BY <1>0, <1>2, <2>1 DEF Put
  <2>2. CASE q # k
    BY <1>2, <1>3, <2>2 DEF Put, WindowInv, SuppressedIsAccountedFor
  <2> QED BY <2>1, <2>2
<1>9. RecordOutlivesMarks'
  <2> SUFFICES ASSUME NEW x \in Held' \cup Settled'
               PROVE /\ x[3] <= now
                     /\ <<x[1], x[2]>> \in DOMAIN store'
                     /\ x[3] + Ttl <= store'[<<x[1], x[2]>>]
    BY DEF RecordOutlivesMarks
  <2>1. CASE x = new
    BY <1>0, <2>1 DEF Put
  <2>2. CASE x # new /\ x[1] = d /\ x[2] = m
    BY <1>0, <1>2, <1>3, <1>4, <1>5, <2>2 DEF Put, Marks, WindowInv, RecordOutlivesMarks
  <2>3. CASE x # new /\ ~(x[1] = d /\ x[2] = m)
    BY <1>2, <1>3, <2>3 DEF Put, WindowInv, RecordOutlivesMarks
  <2> QED BY <2>1, <2>2, <2>3
<1> QED
  BY <1>7, <1>8, <1>9 DEF WindowInv

\* Every step quietly keeps, settles or takes a mark, so the window properties
\* and the strengthening they need hold throughout.
LEMMA WindowInvariant == Spec => []WindowInv
<1>1. Init => WindowInv
  <2> SUFFICES ASSUME Init PROVE ProcessedOncePerWindow /\ SuppressedIsAccountedFor /\ RecordOutlivesMarks
    BY TypeInitially DEF WindowInv
  <2>1. Held = {} /\ Settled = {} /\ \A r \in Requests : ~InFlight(r)
    BY DEF Init, Held, Settled, Quarantined, InFlight, Idle
  <2>2. DOMAIN store = {}
    BY DEF Init, EmptyDict
  <2> QED
    BY <2>1, <2>2 DEF ProcessedOncePerWindow, SuppressedIsAccountedFor, RecordOutlivesMarks
<1>2. WindowInv /\ [Next]_vars => WindowInv'
  <2> SUFFICES ASSUME WindowInv, [Next]_vars PROVE WindowInv'
    OBVIOUS
  <2> TypeOK /\ TypeOK'
    BY TypePreserved DEF WindowInv
  <2> now \in Nat
    BY DEF TypeOK
  <2> USE DEF outcome
  <2>1. ASSUME NEW r \in Requests, NEW b \in DOMAIN Batches, Post(r, b) PROVE WindowInv'
    BY <2>1, QuietStep DEF Post, InFlight, TypeOK
  <2>2. ASSUME NEW r \in Requests, NextItem(r) PROVE WindowInv'
    BY <2>2, QuietStep DEF NextItem, InFlight, At, TypeOK
  <2>3. ASSUME NEW r \in Requests, Accept(r) PROVE WindowInv'
    BY <2>3, QuietStep DEF Accept, InFlight, Idle, TypeOK
  <2>4. ASSUME NEW r \in Requests, NEW d \in Daemons, Skip(r, d) PROVE WindowInv'
    BY <2>4, QuietStep DEF Skip, InFlight, At, TypeOK
  <2>5. ASSUME NEW r \in Requests, NEW d \in Daemons, Take(r, d) PROVE WindowInv'
    <3> DEFINE m == Batches[req[r].batch][req[r].i].msg
    <3>1. m \in Messages
      BY <2>5 DEF Take, TypeOK
    <3>2. /\ req' = [req EXCEPT ![r] = At(r, "fetch", req[r].i, req[r].todo \ {d}, <<d, m, now>>)]
          /\ store' = Put(store, <<d, m>>, now + Ttl) /\ ~Live(store, <<d, m>>, now)
          /\ now' = now /\ delivered' = delivered /\ dlq' = dlq
          /\ ~InFlight(r)
      BY <2>5 DEF Take, InFlight
    <3> HIDE DEF m
    <3>3. InFlight(r)' /\ req'[r].mark = <<d, m, now>> /\ \A s \in Requests \ {r} : req'[s] = req[s]
      BY <3>2 DEF InFlight, At, TypeOK
    <3> QED BY <3>1, <3>2, <3>3, TakingStep
  <2>6. ASSUME NEW r \in Requests, FetchFails(r) \/ TooLarge(r) \/ PipelineFails(r) PROVE WindowInv'
    <3>1. InFlight(r) /\ req[r].mark \in Marks
      BY <2>6 DEF FetchFails, TooLarge, PipelineFails, InFlight, TypeOK
    <3>2. /\ req' = [req EXCEPT ![r] = Idle]
          /\ store' = store /\ now' = now /\ delivered' = delivered
      BY <2>6 DEF FetchFails, TooLarge, PipelineFails
    <3> DEFINE x == req[r].mark
               entry(reason) == <<x[1], x[2], x[3], reason>>
    <3>3. \/ dlq' = dlq \cup {entry("PROCESSING_FAILURE")}
          \/ dlq' = dlq \cup {entry("PAYLOAD_SIZE_EXCEEDED")}
          \/ dlq' = dlq \cup {entry("PIPELINE_ORCHESTRATOR_FAILURE"), entry("PROCESSING_FAILURE")}
      BY <2>6 DEF FetchFails, TooLarge, PipelineFails, Quarantine
    <3>4. x = <<x[1], x[2], x[3]>>
      BY <3>1 DEF Marks
    <3>5. Settled' = Settled \cup {x}
      <4>1. \A reason : <<entry(reason)[1], entry(reason)[2], entry(reason)[3]>> = x
        BY <3>4
      <4> HIDE DEF entry
      <4>2. Quarantined' = Quarantined \cup {x}
        BY <3>3, <4>1 DEF Quarantined
      <4> QED BY <3>2, <4>2 DEF Settled
    <3>6. ~InFlight(r)' /\ \A s \in Requests \ {r} : req'[s] = req[s]
      BY <3>2 DEF InFlight, Idle, TypeOK
    <3> QED BY <3>1, <3>2, <3>5, <3>6, SettlingStep
  <2>7. ASSUME NEW r \in Requests, Deliver(r) PROVE WindowInv'
    BY <2>7, QuietStep DEF Deliver, InFlight, At, TypeOK
  <2>8. ASSUME NEW r \in Requests, Handled(r) PROVE WindowInv'
    <3>1. InFlight(r) /\ store' = store /\ now' = now
      BY <2>8 DEF Handled, InFlight
    <3>2. Settled' = Settled \cup {req[r].mark}
      BY <2>8 DEF Handled, Settled, Quarantined
    <3>3. ~InFlight(r)' /\ \A s \in Requests \ {r} : req'[s] = req[s]
      BY <2>8 DEF Handled, InFlight, At, TypeOK
    <3> QED BY <3>1, <3>2, <3>3, SettlingStep
  <2>9. ASSUME NEW d \in Daemons, Register(d) \/ Unregister(d) PROVE WindowInv'
    BY <2>9, QuietStep DEF Register, Unregister, InFlight
  <2>10. CASE Tick
    BY <2>10, QuietStep DEF Tick, InFlight
  <2>11. CASE UNCHANGED vars
    BY <2>11, QuietStep DEF vars, InFlight
  <2> QED
    BY <2>1, <2>2, <2>3, <2>4, <2>5, <2>6, <2>7, <2>8, <2>9, <2>10, <2>11 DEF Next, Step
<1> QED
  BY <1>1, <1>2, PTL DEF Spec

\* However the requests interleave, a message of an account is processed once
\* per deduplication window: check_and_mark runs without an await.
THEOREM WindowCorrect == Spec => []ProcessedOncePerWindow
<1>1. WindowInv => ProcessedOncePerWindow
  BY DEF WindowInv
<1> QED
  BY <1>1, WindowInvariant, PTL

\* A suppressed notification always has the message it duplicates in progress,
\* delivered or dead-lettered, although the message is marked before it is
\* fetched and every later step of its request may fail.
THEOREM SuppressionCorrect == Spec => []SuppressedIsAccountedFor
<1>1. WindowInv => SuppressedIsAccountedFor
  BY DEF WindowInv
<1> QED
  BY <1>1, WindowInvariant, PTL

-----------------------------------------------------------------------------
(***************************************************************************)
(* What a 2xx means.  A request has covered, for each daemon that stays    *)
(* registered, the items before the one it is routing, and that one too    *)
(* for the daemons it has visited.                                         *)
(***************************************************************************)
Covered(d, m) == \E x \in Held \cup Settled : x[1] = d /\ x[2] = m

Wanted(d, item) == Matches(d, item) /\ Arrival(item)

RoutedSoFar(r) ==
  LET batch == Batches[req[r].batch] IN
  req[r].pc # "idle" =>
    /\ req[r].i <= Len(batch)
    /\ \A d \in Daemons \ Churning, j \in 1..req[r].i :
         (j < req[r].i \/ d \notin req[r].todo) /\ Wanted(d, batch[j]) => Covered(d, batch[j].msg)

AckInv ==
  /\ Daemons \ Churning \subseteq registry
  /\ \A r \in Requests : RoutedSoFar(r)
  /\ AcknowledgedIsAccountedFor

\* No step loses a mark: it stays in flight, or moves to the pipeline or to the
\* dead-letter queue.
LEMMA MarksAreKept ==
  ASSUME WindowInv, TypeOK', [Next]_vars
  PROVE Held \cup Settled \subseteq Held' \cup Settled'
<1> TypeOK
  BY DEF WindowInv
<1> USE DEF outcome
<1>1. Settled \subseteq Settled'
  BY DEF Settled, Quarantined, Quarantine, Next, Step, vars, Post, NextItem, Accept, Skip, Take,
         FetchFails, TooLarge, Deliver, Handled, PipelineFails, Register, Unregister, Tick
<1>2. ASSUME NEW r \in Requests, InFlight(r) PROVE req[r].mark \in Held' \cup Settled'
  <2>0. req[r].mark \in Marks /\ req[r].mark = <<req[r].mark[1], req[r].mark[2], req[r].mark[3]>>
    BY <1>2 DEF TypeOK, Marks
  <2>1. CASE InFlight(r)' /\ req'[r].mark = req[r].mark
    BY <2>1 DEF Held
  <2>2. CASE FetchFails(r) \/ TooLarge(r) \/ PipelineFails(r)
    <3> DEFINE x == req[r].mark
    <3>1. \E reason : <<x[1], x[2], x[3], reason>> \in dlq'
      BY <2>2 DEF FetchFails, TooLarge, PipelineFails, Quarantine
    <3>2. \A reason : LET e == <<x[1], x[2], x[3], reason>> IN <<e[1], e[2], e[3]>> = x
      BY <2>0
    <3> QED BY <3>1, <3>2 DEF Settled, Quarantined
  <2>3. CASE Handled(r)
    BY <2>3 DEF Handled, Settled
  <2>4. CASE Deliver(r)
    <3>1. InFlight(r)' /\ req'[r].mark = req[r].mark
      BY <2>4 DEF Deliver, InFlight, At, TypeOK
    <3> QED BY <3>1, <2>1
  <2>5. CASE ~(FetchFails(r) \/ TooLarge(r) \/ PipelineFails(r) \/ Handled(r) \/ Deliver(r))
    <3>0. req[r].pc \notin {"idle", "route"} /\ req \in [Requests -> RequestStates]
      BY <1>2 DEF InFlight, TypeOK
    <3>1. req'[r] = req[r]
      <4>1. ASSUME NEW s \in Requests, NEW b \in DOMAIN Batches, Post(s, b) PROVE req'[r] = req[r]
        BY <3>0, <4>1 DEF Post
      <4>2. ASSUME NEW s \in Requests, NextItem(s) \/ Accept(s) PROVE req'[r] = req[r]
        BY <3>0, <4>2 DEF NextItem, Accept
      <4>3. ASSUME NEW s \in Requests, NEW d \in Daemons, Skip(s, d) \/ Take(s, d) PROVE req'[r] = req[r]
        BY <3>0, <4>3 DEF Skip, Take
      <4>4. ASSUME NEW s \in Requests,
                   FetchFails(s) \/ TooLarge(s) \/ PipelineFails(s) \/ Handled(s) \/ Deliver(s)
            PROVE req'[r] = req[r]
        BY <2>5, <3>0, <4>4 DEF FetchFails, TooLarge, PipelineFails, Handled, Deliver
      <4>5. ASSUME NEW d \in Daemons, Register(d) \/ Unregister(d) PROVE req'[r] = req[r]
        BY <4>5 DEF Register, Unregister
      <4>6. CASE Tick \/ UNCHANGED vars
        BY <4>6 DEF Tick, vars
      <4> QED BY <4>1, <4>2, <4>3, <4>4, <4>5, <4>6 DEF Next, Step
    <3> QED BY <1>2, <3>1, <2>1 DEF InFlight
  <2> QED BY <2>2, <2>3, <2>4, <2>5
<1> QED BY <1>1, <1>2 DEF Held

\* What was covered stays so, hence a request that does not move keeps what it
\* has routed, and acknowledged batches stay accounted for.
LEMMA CoverageIsKept ==
  ASSUME WindowInv, TypeOK', [Next]_vars, AckInv
  PROVE /\ \A d, m : Covered(d, m) => Covered(d, m)'
        /\ \A r \in Requests : req'[r] = req[r] => RoutedSoFar(r)'
        /\ acked' = acked => AcknowledgedIsAccountedFor'
        /\ Daemons \ Churning \subseteq registry'
<1>1. \A d, m : Covered(d, m) => Covered(d, m)'
  BY MarksAreKept DEF Covered
<1>2. ASSUME NEW r \in Requests, req'[r] = req[r] PROVE RoutedSoFar(r)'
  <2>1. RoutedSoFar(r)
    BY DEF AckInv
  <2> QED BY <1>1, <1>2, <2>1 DEF RoutedSoFar
<1>3. acked' = acked => AcknowledgedIsAccountedFor'
  BY <1>1 DEF AckInv, AcknowledgedIsAccountedFor, Covered
<1>4. Daemons \ Churning \subseteq registry'
  BY DEF AckInv, outcome, Next, Step, vars, Post, NextItem, Accept, Skip, Take,
         FetchFails, TooLarge, Deliver, Handled, PipelineFails, Register, Unregister, Tick
<1> QED BY <1>1, <1>2, <1>3, <1>4

\* A 2xx to the provider hands every message over: each daemon that stays
\* registered and each arrival it matches has the message delivered, dead-
\* lettered or in progress.  A notification that the endpoint skips as a
\* duplicate is covered because suppression never hides a loss.
THEOREM AcknowledgementCorrect == Spec => []AcknowledgedIsAccountedFor
<1>1. Init => AckInv
  BY DEF Init, AckInv, RoutedSoFar, AcknowledgedIsAccountedFor, Idle
<1>2. AckInv /\ WindowInv /\ TypeOK' /\ [Next]_vars => AckInv'
  <2> SUFFICES ASSUME AckInv, WindowInv, TypeOK', [Next]_vars PROVE AckInv'
    OBVIOUS
  <2> TypeOK
    BY DEF WindowInv
  <2> USE DEF outcome
  <2> USE CoverageIsKept
  <2>0. req \in [Requests -> RequestStates] /\ Daemons \ Churning \subseteq registry
    BY DEF TypeOK, AckInv
  <2>1. ASSUME NEW r \in Requests, NEW b \in DOMAIN Batches, Post(r, b) PROVE AckInv'
    <3>1. RoutedSoFar(r)'
      BY <2>0, <2>1 DEF Post, RoutedSoFar
    <3> QED BY <2>0, <2>1, <3>1 DEF Post, AckInv
  <2>2. ASSUME NEW r \in Requests, NextItem(r) PROVE AckInv'
    <3>0. PICK batch : batch = Batches[req[r].batch]
      OBVIOUS
    <3>1. /\ req[r].pc = "route" /\ req[r].todo = {} /\ req[r].i \in Nat
          /\ req[r].i < Len(batch) /\ Len(batch) \in Nat
      BY <2>0, <2>2, <3>0 DEF NextItem, RequestStates, TypeOK
    <3>2. /\ req'[r].batch = req[r].batch /\ req'[r].i = req[r].i + 1
          /\ req'[r].todo = registry
      BY <2>0, <2>2 DEF NextItem, At
    <3>3. ASSUME NEW d \in Daemons \ Churning, NEW j \in 1..req'[r].i,
                 j < req'[r].i \/ d \notin req'[r].todo, Wanted(d, batch[j])
          PROVE Covered(d, batch[j].msg)'
      <4>1. j \in 1..req[r].i /\ (j < req[r].i \/ d \notin req[r].todo)
        BY <2>0, <3>1, <3>2, <3>3
      <4>2. Covered(d, batch[j].msg)
        BY <3>0, <3>1, <3>3, <4>1 DEF AckInv, RoutedSoFar
      <4> QED BY <4>2
    <3>4. RoutedSoFar(r)'
      BY <3>0, <3>1, <3>2, <3>3 DEF RoutedSoFar
    <3> QED BY <2>0, <2>2, <3>4 DEF NextItem, AckInv
  <2>3. ASSUME NEW r \in Requests, Accept(r) PROVE AckInv'
    <3> DEFINE b == req[r].batch
    <3>1. /\ req[r].pc = "route" /\ req[r].todo = {} /\ req[r].i = Len(Batches[b])
          /\ b \in DOMAIN Batches /\ acked' = acked \cup {b}
      BY <2>3 DEF Accept, TypeOK
    <3>2. ASSUME NEW d \in Daemons \ Churning, NEW m \in Owed(b, d) PROVE Covered(d, m)'
      <4>1. PICK j \in DOMAIN Batches[b] : Wanted(d, Batches[b][j]) /\ m = Batches[b][j].msg
        BY <3>2 DEF Owed, Wanted
      <4>2. j \in 1..req[r].i
        BY <3>1
      <4>3. Covered(d, m)
        BY <3>1, <4>1, <4>2 DEF AckInv, RoutedSoFar
      <4> QED BY <4>3
    <3>3. ASSUME NEW c \in acked, NEW d \in Daemons \ Churning, NEW m \in Owed(c, d)
          PROVE Covered(d, m)'
      BY DEF AckInv, AcknowledgedIsAccountedFor, Covered
    <3>4. AcknowledgedIsAccountedFor'
      BY <3>1, <3>2, <3>3 DEF AcknowledgedIsAccountedFor, Covered
    <3>5. RoutedSoFar(r)'
      BY <2>0, <2>3 DEF Accept, RoutedSoFar, Idle
    <3> QED BY <2>0, <2>3, <3>4, <3>5 DEF Accept, AckInv
  <2>4. ASSUME NEW r \in Requests, NEW d \in Daemons, Skip(r, d) \/ Take(r, d) PROVE AckInv'
    <3>0. PICK batch, item : batch = Batches[req[r].batch] /\ item = batch[req[r].i]
      OBVIOUS
    <3>1. /\ req[r].pc = "route" /\ d \in req[r].todo /\ req[r].i \in 1..Len(batch)
          /\ req[r].batch \in DOMAIN Batches /\ item.msg \in Messages
      BY <2>4, <3>0 DEF Skip, Take, TypeOK
    <3>2. /\ req'[r].batch = req[r].batch /\ req'[r].i = req[r].i
          /\ req'[r].todo = req[r].todo \ {d} /\ acked' = acked
          /\ \A s \in Requests \ {r} : req'[s] = req[s]
      BY <2>0, <2>4 DEF Skip, Take, At
    <3>3. Wanted(d, item) => Covered(d, item.msg)'
      <4>1. CASE Skip(r, d) /\ Wanted(d, item)
        <5>1. <<d, item.msg>> \in DOMAIN store
          BY <3>0, <4>1 DEF Skip, Wanted, Live
        <5>2. <<d, item.msg, store[<<d, item.msg>>] - Ttl>> \in Held \cup Settled
          BY <5>1 DEF WindowInv, SuppressedIsAccountedFor
        <5>3. Covered(d, item.msg)
          BY <5>2 DEF Covered
        <5> QED BY <5>3
      <4>2. CASE Take(r, d)
        <5>1. InFlight(r)' /\ req'[r].mark = <<d, item.msg, now>>
          BY <2>0, <3>0, <4>2 DEF Take, At, InFlight
        <5>2. <<d, item.msg, now>> \in Held'
          BY <5>1 DEF Held
        <5> QED BY <5>2 DEF Covered
      <4> QED BY <2>4, <4>1, <4>2
    <3>4. ASSUME NEW e \in Daemons \ Churning, NEW j \in 1..req'[r].i,
                 j < req'[r].i \/ e \notin req'[r].todo, Wanted(e, batch[j])
          PROVE Covered(e, batch[j].msg)'
      <4>1. CASE e = d /\ j = req[r].i
        BY <3>0, <3>3, <3>4, <4>1
      <4>2. CASE ~(e = d /\ j = req[r].i)
        <5>1. j < req[r].i \/ e \notin req[r].todo
          BY <3>1, <3>2, <3>4, <4>2
        <5>2. Covered(e, batch[j].msg)
          BY <3>0, <3>1, <3>2, <3>4, <5>1 DEF AckInv, RoutedSoFar
        <5> QED BY <5>2
      <4> QED BY <4>1, <4>2
    <3>5. RoutedSoFar(r)'
      BY <3>0, <3>1, <3>2, <3>4 DEF RoutedSoFar
    <3> QED BY <3>2, <3>5 DEF AckInv
  <2>5. ASSUME NEW r \in Requests, FetchFails(r) \/ TooLarge(r) \/ PipelineFails(r) PROVE AckInv'
    <3>1. RoutedSoFar(r)'
      BY <2>0, <2>5 DEF FetchFails, TooLarge, PipelineFails, RoutedSoFar, Idle
    <3> QED BY <2>0, <2>5, <3>1 DEF FetchFails, TooLarge, PipelineFails, AckInv
  <2>6. ASSUME NEW r \in Requests, Deliver(r) \/ Handled(r) PROVE AckInv'
    <3>1. /\ req[r].pc # "idle" /\ req'[r].pc # "idle" /\ req'[r].batch = req[r].batch
          /\ req'[r].i = req[r].i /\ req'[r].todo = req[r].todo
      BY <2>0, <2>6 DEF Deliver, Handled, At
    <3>2. RoutedSoFar(r)'
      BY <3>1 DEF AckInv, RoutedSoFar
    <3> QED BY <2>0, <2>6, <3>2 DEF Deliver, Handled, AckInv
  <2>7. ASSUME NEW d \in Daemons, Register(d) \/ Unregister(d) PROVE AckInv'
    BY <2>7 DEF Register, Unregister, AckInv
  <2>8. CASE Tick \/ UNCHANGED vars
    BY <2>8 DEF Tick, vars, AckInv
  <2> QED
    BY <2>1, <2>2, <2>3, <2>4, <2>5, <2>6, <2>7, <2>8 DEF Next, Step
<1>3. AckInv => AcknowledgedIsAccountedFor
  BY DEF AckInv
<1> QED
  BY <1>1, <1>2, <1>3, WindowInvariant, TypeCorrect, PTL DEF Spec
=============================================================================
