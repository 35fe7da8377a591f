---------------------------- MODULE Broadcaster -----------------------------
(***************************************************************************)
(* SOCEventBroadcaster and its WebSocketClients (realtime/broadcaster.py)  *)
(* behind the WebSocket endpoint (realtime/router.py): events of a tenant  *)
(* go to the bounded queue of each of its clients, and a sender task per   *)
(* client empties the queue.                                               *)
(*                                                                         *)
(* Everything runs in one event loop and no section under the broadcaster's*)
(* lock suspends, so a handler runs up to its next await as one step.  An  *)
(* event is its publication number; a heartbeat ping is 0.  Time is counted*)
(* in heartbeat intervals.                                                 *)
(***************************************************************************)
EXTENDS Naturals, Sequences, FiniteSets

CONSTANTS
  Tenants,
  Clients,        \* WebSocket connections, each made once
  TenantOf,       \* connection -> its tenant
  QueueSize,      \* max_client_queue
  MaxClients,     \* max_clients_per_tenant
  IdleLimit,      \* client_timeout_sec in heartbeat intervals
  MaxEvents       \* bound on the events published

ASSUME ClientAssumption == TenantOf \in [Clients -> Tenants]
ASSUME SizeAssumption == /\ QueueSize \in Nat \ {0} /\ MaxClients \in Nat \ {0}
                         /\ IdleLimit \in Nat \ {0} /\ MaxEvents \in Nat

VARIABLES
  isRunning,      \* the heartbeat loop runs
  clients,        \* tenant -> its registered clients
  conn,           \* the endpoint's view of a connection
  active,         \* the clients whose _is_active holds
  queue,          \* client -> its queue
  sending,        \* client -> the event its sender has taken, if any
  idle,           \* client -> heartbeats since last_activity
  stale,          \* clients that a broadcast or a heartbeat is about to unregister
  published,      \* the tenants of the events published so far
  since,          \* client -> number of the last event before it registered
  received,       \* client -> events sent to it
  dropped         \* client -> events its full queue gave up (dropped_events)

vars == <<isRunning, clients, conn, active, queue, sending, idle, stale, published,
          since, received, dropped>>
history == <<published, since>>

Ping == 0

Init == /\ isRunning = TRUE /\ stale = {} /\ published = <<>>
        /\ clients = [t \in Tenants |-> {}]
        /\ conn = [c \in Clients |-> "new"]
        /\ active = Clients
        /\ queue = [c \in Clients |-> <<>>] /\ sending = [c \in Clients |-> <<>>]
        /\ idle = [c \in Clients |-> 0] /\ since = [c \in Clients |-> 0]
        /\ received = [c \in Clients |-> {}] /\ dropped = [c \in Clients |-> {}]

Registered == UNION {clients[t] : t \in Tenants}

\* Mutant: a full queue refuses the event without counting it.
EnqueueSilently(targets, e) ==
  /\ queue' = [c \in Clients |-> IF c \in targets /\ Len(queue[c]) < QueueSize
                                 THEN Append(queue[c], e) ELSE queue[c]]
  /\ UNCHANGED dropped

\* Mutant: the bound is checked after the event has been put.
EnqueueLate(targets, e) ==
  /\ queue' = [c \in Clients |->
       IF c \notin targets THEN queue[c]
       ELSE IF Len(queue[c]) > QueueSize THEN Append(Tail(queue[c]), e) ELSE Append(queue[c], e)]
  /\ dropped' = [c \in Clients |->
       IF c \in targets /\ Len(queue[c]) > QueueSize
       THEN dropped[c] \cup ({Head(queue[c])} \ {Ping}) ELSE dropped[c]]

\* Mutant: the newcomer goes to the front, for the next send.
EnqueueUrgent(targets, e) ==
  /\ queue' = [c \in Clients |->
       IF c \notin targets THEN queue[c]
       ELSE IF Len(queue[c]) = QueueSize THEN <<e>> \o Tail(queue[c]) ELSE <<e>> \o queue[c]]
  /\ dropped' = [c \in Clients |->
       IF c \in targets /\ Len(queue[c]) = QueueSize
       THEN dropped[c] \cup ({Head(queue[c])} \ {Ping}) ELSE dropped[c]]

\* enqueue_event at each of these clients: a full queue gives up its oldest event.
Enqueue(targets, e) ==
  /\ queue' = [c \in Clients |->
       IF c \notin targets THEN queue[c]
       ELSE IF Len(queue[c]) = QueueSize THEN Append(Tail(queue[c]), e) ELSE Append(queue[c], e)]
  /\ dropped' = [c \in Clients |->
       IF c \in targets /\ Len(queue[c]) = QueueSize
       THEN dropped[c] \cup ({Head(queue[c])} \ {Ping}) ELSE dropped[c]]

-----------------------------------------------------------------------------
\* The endpoint registers a connection and its sender starts.
Register(c) ==
  LET t == TenantOf[c] IN
  /\ conn[c] = "new"
  /\ Cardinality(clients[t]) < MaxClients
  /\ clients' = [clients EXCEPT ![t] = @ \cup {c}]
  /\ conn' = [conn EXCEPT ![c] = "open"]
  /\ since' = [since EXCEPT ![c] = Len(published)]
  /\ UNCHANGED <<isRunning, active, queue, sending, idle, stale, published, received, dropped>>

\* The tenant has its limit of clients: the connection is closed.
Reject(c) ==
  /\ conn[c] = "new"
  /\ Cardinality(clients[TenantOf[c]]) >= MaxClients
  /\ conn' = [conn EXCEPT ![c] = "closed"]
  /\ UNCHANGED <<isRunning, clients, active, queue, sending, idle, stale, history,
                 received, dropped>>

\* broadcast_event for tenant t: inactive clients are left to be unregistered.
Broadcast(t) ==
  /\ Len(published) < MaxEvents
  /\ published' = Append(published, t)
  /\ Enqueue(clients[t] \cap active, Len(published) + 1)
  /\ stale' = stale \cup (clients[t] \ active)
  /\ UNCHANGED <<isRunning, clients, conn, active, sending, idle, since, received>>

\* Mutant: only clients known to be dead are given up.
HeartbeatPatient ==
  LET gone == Registered \ active IN
  /\ isRunning
  /\ Enqueue(Registered \ gone, Ping)
  /\ stale' = stale \cup gone
  /\ idle' = [c \in Clients |-> IF c \in Registered \ gone /\ idle[c] < IdleLimit
                                THEN idle[c] + 1 ELSE idle[c]]
  /\ UNCHANGED <<isRunning, clients, conn, active, sending, history, received>>

\* A round of the heartbeat loop: inactive and timed-out clients are left to be
\* unregistered, the others get a ping.
Heartbeat ==
  LET gone == {c \in Registered : c \notin active \/ idle[c] + 1 > IdleLimit} IN
  /\ isRunning
  /\ Enqueue(Registered \ gone, Ping)
  /\ stale' = stale \cup gone
  /\ idle' = [c \in Clients |-> IF c \in Registered \ gone THEN idle[c] + 1 ELSE idle[c]]
  /\ UNCHANGED <<isRunning, clients, conn, active, sending, history, received>>

\* unregister: off the list, then close(), which cancels the sender.  The event
\* in its hands is lost.
Unregister(c) ==
  /\ clients' = [clients EXCEPT ![TenantOf[c]] = @ \ {c}]
  /\ active' = active \ {c}
  /\ sending' = [sending EXCEPT ![c] = <<>>]
  /\ stale' = stale \ {c}
  /\ conn' = [conn EXCEPT ![c] = "closed"]
  /\ UNCHANGED <<isRunning, queue, idle, history, received, dropped>>

\* A broadcast or a heartbeat unregisters a client it found stale.
Prune(c) == c \in stale /\ Unregister(c)

\* The peer goes away and the endpoint unregisters the client.
Disconnect(c) == conn[c] = "open" /\ Unregister(c)

\* The sender takes the next event ...
Take(c) ==
  /\ conn[c] = "open" /\ c \in active
  /\ sending[c] = <<>> /\ queue[c] # <<>>
  /\ sending' = [sending EXCEPT ![c] = <<Head(queue[c])>>]
  /\ queue' = [queue EXCEPT ![c] = Tail(queue[c])]
  /\ UNCHANGED <<isRunning, clients, conn, active, idle, stale, history, received, dropped>>

\* ... and has sent it ...
Sent(c) ==
  /\ sending[c] # <<>>
  /\ received' = [received EXCEPT ![c] = @ \cup ({Head(sending[c])} \ {Ping})]
  /\ sending' = [sending EXCEPT ![c] = <<>>]
  /\ idle' = [idle EXCEPT ![c] = 0]
  /\ UNCHANGED <<isRunning, clients, conn, active, queue, stale, history, dropped>>

\* ... or could not: the event is lost and the sender ends.
SendFails(c) ==
  /\ sending[c] # <<>>
  /\ sending' = [sending EXCEPT ![c] = <<>>]
  /\ active' = active \ {c}
  /\ UNCHANGED <<isRunning, clients, conn, queue, idle, stale, history, received, dropped>>

Start == /\ ~isRunning /\ isRunning' = TRUE
         /\ UNCHANGED <<clients, conn, active, queue, sending, idle, stale, history,
                        received, dropped>>

\* stop() takes every client off its list and then closes them one by one.
Stop == /\ isRunning /\ isRunning' = FALSE
        /\ clients' = [t \in Tenants |-> {}]
        /\ stale' = stale \cup Registered
        /\ UNCHANGED <<conn, active, queue, sending, idle, history, received, dropped>>

Next == \/ Heartbeat \/ Start \/ Stop
        \/ \E t \in Tenants : Broadcast(t)
        \/ \E c \in Clients : \/ Register(c) \/ Reject(c) \/ Prune(c) \/ Disconnect(c)
                              \/ Take(c) \/ Sent(c) \/ SendFails(c)

Spec == Init /\ [][Next]_vars

\* The heartbeat loop runs as long as it is not stopped, and a task that found a
\* stale client gets round to unregistering it.  No fairness for the senders: a
\* peer may stop reading.
BroadcasterFairness == WF_vars(Heartbeat) /\ \A c \in Clients : WF_vars(Prune(c))

FairSpec == Spec /\ BroadcasterFairness

-----------------------------------------------------------------------------
\* Type invariant; no queue and no tenant's list exceeds its bound.
TypeOK ==
  /\ isRunning \in BOOLEAN
  /\ \A t \in Tenants : /\ clients[t] \subseteq {c \in Clients : TenantOf[c] = t}
                        /\ Cardinality(clients[t]) <= MaxClients
  /\ conn \in [Clients -> {"new", "open", "closed"}]
  /\ active \subseteq Clients /\ stale \subseteq Clients
  /\ published \in Seq(Tenants)
  /\ \A c \in Clients :
       /\ queue[c] \in Seq(0..Len(published)) /\ Len(queue[c]) <= QueueSize
       /\ sending[c] \in Seq(0..Len(published)) /\ Len(sending[c]) <= 1
       /\ idle[c] \in 0..IdleLimit
       /\ since[c] \in 0..Len(published)
       /\ received[c] \cup dropped[c] \subseteq 1..Len(published)

Line(c) == sending[c] \o queue[c]
Waiting(c) == {Line(c)[i] : i \in DOMAIN Line(c)} \ {Ping}
Due(c) == {e \in DOMAIN published : e > since[c] /\ published[e] = TenantOf[c]}

\* A client gets its tenant's events in the order they were published: whatever
\* drops, pings and slow sends come in between, what waits for it is in order
\* and newer than anything it has received.
InOrder ==
  \A c \in Clients :
    /\ \A i, j \in DOMAIN Line(c) :
         i < j /\ Line(c)[i] # Ping /\ Line(c)[j] # Ping => Line(c)[i] < Line(c)[j]
    /\ \A e \in Waiting(c), r \in received[c] : r < e

\* For a client that is being served, every event of its tenant since it
\* registered, and no event of another tenant, has been received, is waiting, or
\* has been counted as dropped.
Accounted ==
  \A c \in Registered \cap active :
    /\ Due(c) = received[c] \cup Waiting(c) \cup dropped[c]
    /\ received[c] \cap dropped[c] = {} /\ Waiting(c) \cap (received[c] \cup dropped[c]) = {}

\* While the broadcaster runs, a slot is not held by a dead or a stalled peer for
\* ever: a client that stays registered keeps having events sent to it.
StalledClientsLeave ==
  <>[]isRunning => \A c \in Clients : <>[](c \in Registered) => []<>(idle[c] = 0)

\* What clients of the broadcaster see: events in order, and each one delivered,
\* queued or counted as dropped.
ClientsServed == TypeOK /\ InOrder /\ Accounted
=============================================================================
