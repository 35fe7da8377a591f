------------------------- MODULE BroadcasterProofs --------------------------
(***************************************************************************)
(* Proofs about the parts of MCDelivery: the realtime broadcaster, for any *)
(* number of clients, tenants and events, and any bounds on queues and     *)
(* lists, and the notification engine, for any alerts, channels, windows   *)
(* and limits.                                                             *)
(***************************************************************************)
EXTENDS Broadcaster, Notifications, FiniteSetTheorems, SequenceTheorems, TLAPS

USE ClientAssumption, SizeAssumption

(***************************************************************************)
(* What waits for a client is a line of events: the one in the hands of    *)
(* the sender, and the queue.                                              *)
(***************************************************************************)
Ordered(l) == \A i, j \in DOMAIN l : i < j /\ l[i] # Ping /\ l[j] # Ping => l[i] < l[j]
EventsIn(l) == {l[i] : i \in DOMAIN l} \ {Ping}

\* An event put into the queue stands at the end of the line.
LEMMA ConcatAppend ==
  ASSUME NEW S, NEW s \in Seq(S), NEW t \in Seq(S), NEW e \in S
  PROVE s \o t \in Seq(S) /\ s \o Append(t, e) = Append(s \o t, e)
<1>1. Append(t, e) = t \o <<e>>
  BY AppendIsConcat
<1>2. s \o t \in Seq(S) /\ <<e>> \in Seq(S)
  BY ConcatProperties
<1>3. Append(s \o t, e) = (s \o t) \o <<e>>
  BY <1>2, AppendIsConcat
<1>4. (s \o t) \o <<e>> = s \o (t \o <<e>>)
  BY <1>2, ConcatAssociative
<1> QED BY <1>1, <1>2, <1>3, <1>4

\* An event newer than the whole line keeps it in order at its end.
LEMMA AppendedLine ==
  ASSUME NEW l \in Seq(Nat), NEW e \in Nat, Ordered(l), e # Ping => \A x \in EventsIn(l) : x < e
  PROVE /\ Append(l, e) \in Seq(Nat) /\ Ordered(Append(l, e))
        /\ EventsIn(Append(l, e)) = EventsIn(l) \cup ({e} \ {Ping})
<1> DEFINE m == Append(l, e)
<1>1. /\ m \in Seq(Nat) /\ Len(l) \in Nat /\ DOMAIN l = 1..Len(l) /\ DOMAIN m = 1..(Len(l) + 1)
      /\ m[Len(l) + 1] = e /\ \A i \in 1..Len(l) : m[i] = l[i] /\ l[i] \in Nat
  OBVIOUS
<1> HIDE DEF m
<1>2. EventsIn(m) = EventsIn(l) \cup ({e} \ {Ping})
  <2>1. \A i \in DOMAIN m : i \in DOMAIN l \/ i = Len(l) + 1
    BY <1>1
  <2>2. Len(l) + 1 \in DOMAIN m /\ \A i \in DOMAIN l : i \in DOMAIN m
    BY <1>1
  <2> QED BY <1>1, <2>1, <2>2 DEF EventsIn
<1>3. Ordered(m)
  <2> SUFFICES ASSUME NEW i \in DOMAIN m, NEW j \in DOMAIN m, i < j, m[i] # Ping, m[j] # Ping
               PROVE m[i] < m[j]
    BY DEF Ordered
  <2>1. i \in DOMAIN l /\ m[i] = l[i]
    BY <1>1
  <2>2. CASE j \in DOMAIN l
    BY <1>1, <2>1, <2>2 DEF Ordered
  <2>3. CASE j = Len(l) + 1
    BY <1>1, <2>1, <2>3 DEF EventsIn
  <2> QED BY <1>1, <2>2, <2>3
<1> QED BY <1>1, <1>2, <1>3 DEF m

\* A line m that is l without its event at place n + 1 is in order, and that event,
\* which stood in l once, is the only one missing.
LEMMA LineWithout ==
  ASSUME NEW n \in Nat, NEW k \in Nat \ {0}, NEW l, NEW m,
         DOMAIN l = 1..(n + k), DOMAIN m = 1..(n + k - 1),
         \A i \in 1..(n + k) : l[i] \in Nat,
         \A i \in 1..(n + k - 1) : m[i] = IF i <= n THEN l[i] ELSE l[i + 1],
         Ordered(l)
  PROVE /\ Ordered(m) /\ EventsIn(m) = EventsIn(l) \ {l[n + 1]}
        /\ l[n + 1] # Ping => l[n + 1] \in EventsIn(l)
<1>1. n + 1 \in DOMAIN l
  OBVIOUS
<1> DEFINE old(i) == IF i <= n THEN i ELSE i + 1
<1>4. \A i \in DOMAIN m : old(i) \in DOMAIN l \ {n + 1} /\ m[i] = l[old(i)]
  OBVIOUS
<1>2. Ordered(m)
  <2> SUFFICES ASSUME NEW i \in 1..(n + k - 1), NEW j \in 1..(n + k - 1),
                      i < j, m[i] # Ping, m[j] # Ping
               PROVE m[i] < m[j]
    BY DEF Ordered
  <2>1. old(i) < old(j)
    OBVIOUS
  <2>2. /\ old(i) \in DOMAIN l /\ m[i] = l[old(i)]
        /\ old(j) \in DOMAIN l /\ m[j] = l[old(j)]
    BY <1>4
  <2> HIDE DEF old
  <2> QED BY <2>1, <2>2 DEF Ordered
<1>3. \A i \in DOMAIN l : i # n + 1 /\ l[i] # Ping => l[i] # l[n + 1]
  <2> SUFFICES ASSUME NEW i \in DOMAIN l, i # n + 1, l[i] # Ping, l[i] = l[n + 1] PROVE FALSE
    OBVIOUS
  <2>1. i < n + 1 \/ n + 1 < i
    OBVIOUS
  <2>2. l[i] < l[n + 1] \/ l[n + 1] < l[i]
    BY <1>1, <2>1 DEF Ordered
  <2>3. l[i] \in Nat
    OBVIOUS
  <2> QED BY <2>2, <2>3
<1>5. \A x \in DOMAIN l \ {n + 1} : \E i \in DOMAIN m : m[i] = l[x]
  <2> TAKE x \in DOMAIN l \ {n + 1}
  <2>1. CASE x <= n
    <3>1. x \in DOMAIN m /\ m[x] = l[x]
      BY <2>1
    <3> QED BY <3>1
  <2>2. CASE x > n
    <3>1. x - 1 \in 1..(n + k - 1) /\ ~(x - 1 <= n) /\ (x - 1) + 1 = x
      BY <2>2
    <3>2. m[x - 1] = l[(x - 1) + 1]
      BY <3>1
    <3>3. m[x - 1] = l[x]
      BY <3>1, <3>2
    <3> QED BY <3>1, <3>3
  <2> QED BY <2>1, <2>2
<1> HIDE DEF old
<1>6. EventsIn(m) = EventsIn(l) \ {l[n + 1]}
  <2>1. ASSUME NEW e \in EventsIn(m) PROVE e \in EventsIn(l) \ {l[n + 1]}
    <3>1. PICK i \in DOMAIN m : e = m[i] /\ e # Ping
      BY DEF EventsIn
    <3>2. old(i) \in DOMAIN l \ {n + 1} /\ e = l[old(i)]
      BY <1>4, <3>1
    <3> QED BY <1>3, <3>1, <3>2 DEF EventsIn
  <2>2. ASSUME NEW e \in EventsIn(l), e # l[n + 1] PROVE e \in EventsIn(m)
    BY <1>5, <2>2 DEF EventsIn
  <2> QED BY <2>1, <2>2
<1> QED BY <1>1, <1>2, <1>6 DEF EventsIn

\* A queue that gives up its oldest event, after what the sender holds.
LEMMA ShortenedLine ==
  ASSUME NEW s \in Seq(Nat), NEW q \in Seq(Nat), q # <<>>, Ordered(s \o q)
  PROVE /\ s \o Tail(q) \in Seq(Nat) /\ Ordered(s \o Tail(q))
        /\ EventsIn(s \o Tail(q)) = EventsIn(s \o q) \ {Head(q)}
        /\ Head(q) # Ping => Head(q) \in EventsIn(s \o q)
<1>1. PICK n \in Nat, k \in Nat \ {0} : n = Len(s) /\ k = Len(q)
  OBVIOUS
<1>2. PICK t \in Seq(Nat) : t = Tail(q) /\ Len(t) = k - 1 /\ \A j \in 1..(k - 1) : t[j] = q[j + 1]
  <2>1. Tail(q) \in Seq(Nat) /\ Len(Tail(q)) = k - 1 /\ \A j \in 1..(k - 1) : Tail(q)[j] = q[j + 1]
    BY <1>1
  <2> QED BY <2>1
<1>3. PICK l \in Seq(Nat) : l = s \o q
  <2>1. s \o q \in Seq(Nat)
    BY ConcatProperties
  <2> QED BY <2>1
<1>4. PICK m \in Seq(Nat) : m = s \o t
  <2>1. s \o t \in Seq(Nat)
    BY ConcatProperties
  <2> QED BY <2>1
<1>5. /\ Len(l) = n + k /\ DOMAIN l = 1..(n + k)
      /\ \A i \in 1..(n + k) : l[i] = IF i <= n THEN s[i] ELSE q[i - n]
  BY <1>1, <1>3, ConcatProperties
<1>6. /\ Len(m) = n + k - 1 /\ DOMAIN m = 1..(n + k - 1)
      /\ \A i \in 1..(n + k - 1) : m[i] = IF i <= n THEN s[i] ELSE t[i - n]
  <2>1. /\ Len(s \o t) = Len(s) + Len(t)
        /\ \A i \in 1..(Len(s) + Len(t)) : (s \o t)[i] = IF i <= Len(s) THEN s[i] ELSE t[i - Len(s)]
    BY ConcatProperties
  <2>2. Len(s) + Len(t) = n + k - 1
    BY <1>1, <1>2
  <2>3. DOMAIN m = 1..Len(m)
    OBVIOUS
  <2> QED BY <1>1, <1>4, <2>1, <2>2, <2>3
<1>7. ASSUME NEW i \in 1..(n + k - 1) PROVE m[i] = IF i <= n THEN l[i] ELSE l[i + 1]
  <2>1. CASE i <= n
    BY <1>1, <1>5, <1>6, <2>1
  <2>2. CASE i > n
    <3>1. i - n \in 1..(k - 1) /\ i + 1 \in 1..(n + k) /\ (i + 1) - n = (i - n) + 1 /\ ~(i + 1 <= n)
      BY <1>1, <2>2
    <3>2. m[i] = t[i - n] /\ t[i - n] = q[(i - n) + 1]
      BY <1>2, <1>6, <2>2, <3>1
    <3>3. l[i + 1] = q[(i + 1) - n]
      BY <1>5, <3>1
    <3> QED BY <2>2, <3>1, <3>2, <3>3
  <2> QED BY <2>1, <2>2
<1>8. l[n + 1] = Head(q) /\ \A i \in 1..(n + k) : l[i] \in Nat
  <2>1. q[1] = Head(q) /\ n + 1 \in 1..(n + k) /\ (n + 1) - n = 1 /\ ~(n + 1 <= n)
    BY <1>1
  <2>2. l[n + 1] = q[(n + 1) - n]
    BY <1>5, <2>1
  <2>3. \A i \in 1..(n + k) : l[i] \in Nat
    BY <1>5, ElementOfSeq
  <2> QED BY <2>1, <2>2, <2>3
<1>9. Ordered(l)
  BY <1>3
<1>10. /\ Ordered(m) /\ EventsIn(m) = EventsIn(l) \ {l[n + 1]}
       /\ l[n + 1] # Ping => l[n + 1] \in EventsIn(l)
  <2>1. \A i \in 1..(n + k - 1) : m[i] = IF i <= n THEN l[i] ELSE l[i + 1]
    BY <1>7
  <2>2. DOMAIN l = 1..(n + k) /\ DOMAIN m = 1..(n + k - 1) /\ \A i \in 1..(n + k) : l[i] \in Nat
    BY <1>5, <1>6, <1>8
  <2> QED BY <1>9, <2>1, <2>2, LineWithout, Zenon
<1> QED BY <1>2, <1>3, <1>4, <1>8, <1>10

\* enqueue_event on one line: the events that leave it are those it gives up.
LEMMA EnqueuedLine ==
  ASSUME NEW s \in Seq(Nat), NEW q \in Seq(Nat), NEW e \in Nat, Len(s) <= 1, Len(q) <= QueueSize,
         Ordered(s \o q), e # Ping => \A x \in EventsIn(s \o q) : x < e,
         NEW p, NEW gone,
         Len(q) = QueueSize => p = Append(Tail(q), e) /\ gone = {Head(q)} \ {Ping},
         Len(q) # QueueSize => p = Append(q, e) /\ gone = {}
  PROVE /\ p \in Seq(Nat) /\ Len(p) <= QueueSize /\ Ordered(s \o p)
        /\ EventsIn(s \o p) = (EventsIn(s \o q) \ gone) \cup ({e} \ {Ping})
        /\ gone \subseteq EventsIn(s \o q)
<1>1. ASSUME NEW t \in Seq(Nat) PROVE s \o Append(t, e) = Append(s \o t, e) /\ s \o t \in Seq(Nat)
  BY ConcatAppend
<1>2. CASE Len(q) = QueueSize
  <2>1. q # <<>> /\ Tail(q) \in Seq(Nat) /\ Len(Tail(q)) = QueueSize - 1
    BY <1>2
  <2>2. /\ Ordered(s \o Tail(q)) /\ EventsIn(s \o Tail(q)) = EventsIn(s \o q) \ {Head(q)}
        /\ Head(q) # Ping => Head(q) \in EventsIn(s \o q)
    BY <2>1, ShortenedLine
  <2>3. /\ Ordered(Append(s \o Tail(q), e))
        /\ EventsIn(Append(s \o Tail(q), e)) = EventsIn(s \o Tail(q)) \cup ({e} \ {Ping})
    BY <1>1, <2>1, <2>2, AppendedLine
  <2>4. p = Append(Tail(q), e) /\ gone = {Head(q)} \ {Ping}
    BY <1>2
  <2>5. p \in Seq(Nat) /\ Len(p) <= QueueSize
    BY <2>1, <2>4
  <2>6. Ping \notin EventsIn(s \o q)
    BY DEF EventsIn
  <2> QED BY <1>1, <2>1, <2>2, <2>3, <2>4, <2>5, <2>6
<1>3. CASE Len(q) # QueueSize
  <2>1. p = Append(q, e) /\ gone = {}
    BY <1>3
  <2>3. p \in Seq(Nat) /\ Len(p) <= QueueSize
    BY <1>3, <2>1, AppendProperties, LenProperties
  <2>2. Ordered(Append(s \o q, e)) /\ EventsIn(Append(s \o q, e)) = EventsIn(s \o q) \cup ({e} \ {Ping})
    BY <1>1, AppendedLine
  <2> QED BY <1>1, <2>1, <2>2, <2>3
<1> QED BY <1>2, <1>3

\* Sending the event in hand takes the oldest one off the line.
LEMMA SentLine ==
  ASSUME NEW x \in Nat, NEW q \in Seq(Nat), Ordered(<<x>> \o q)
  PROVE /\ Ordered(q) /\ EventsIn(q) = EventsIn(<<x>> \o q) \ {x}
        /\ x # Ping => x \in EventsIn(<<x>> \o q) /\ \A y \in EventsIn(q) : x < y
<1> DEFINE s == <<x>>
<1>1. PICK k \in Nat \ {0} : k = Len(q) + 1
  OBVIOUS
<1>2. PICK l \in Seq(Nat) : l = s \o q
  <2>1. s \in Seq(Nat)
    OBVIOUS
  <2>2. s \o q \in Seq(Nat)
    BY <2>1, ConcatProperties
  <2> QED BY <2>2
<1>3. /\ Len(l) = k /\ DOMAIN l = 1..k
      /\ \A i \in 1..k : l[i] = IF i <= 1 THEN s[i] ELSE q[i - 1]
  <2>1. s \in Seq(Nat) /\ Len(s) = 1
    OBVIOUS
  <2>2. /\ Len(s \o q) = Len(s) + Len(q)
        /\ \A i \in 1..(Len(s) + Len(q)) : (s \o q)[i] = IF i <= Len(s) THEN s[i] ELSE q[i - Len(s)]
    BY <2>1, ConcatProperties
  <2>3. Len(s) + Len(q) = k
    BY <1>1, <2>1
  <2>4. DOMAIN l = 1..Len(l)
    OBVIOUS
  <2> QED BY <1>2, <2>1, <2>2, <2>3, <2>4
<1>4. l[1] = x /\ 1 \in 1..k
  BY <1>1, <1>3
<1>5. \A i \in 1..k : l[i] \in Nat
  BY <1>3, ElementOfSeq
<1>6. DOMAIN q = 1..(k - 1)
  BY <1>1
<1>7. ASSUME NEW i \in 1..(k - 1) PROVE i + 1 \in 1..k /\ 1 < i + 1 /\ q[i] = l[i + 1]
  <2>1. i + 1 \in 1..k /\ (i + 1) - 1 = i /\ ~(i + 1 <= 1) /\ 1 < i + 1
    OBVIOUS
  <2> QED BY <1>3, <2>1
<1>8. Ordered(l)
  BY <1>2
<1>9. Ordered(q) /\ EventsIn(q) = EventsIn(l) \ {l[1]} /\ (l[1] # Ping => l[1] \in EventsIn(l))
  <2> DEFINE n == 0
  <2>1. /\ n \in Nat /\ DOMAIN l = 1..(n + k) /\ DOMAIN q = 1..(n + k - 1)
        /\ \A i \in 1..(n + k) : l[i] \in Nat
        /\ \A i \in 1..(n + k - 1) : q[i] = IF i <= n THEN l[i] ELSE l[i + 1]
    BY <1>3, <1>5, <1>6, <1>7
  <2>2. n + 1 = 1
    OBVIOUS
  <2> HIDE DEF n
  <2>3. /\ Ordered(q) /\ EventsIn(q) = EventsIn(l) \ {l[n + 1]}
        /\ l[n + 1] # Ping => l[n + 1] \in EventsIn(l)
    BY <1>8, <2>1, LineWithout, Zenon
  <2> QED BY <2>2, <2>3
<1>10. ASSUME x # Ping, NEW y \in EventsIn(q) PROVE x < y
  <2>1. PICK i \in 1..(k - 1) : y = q[i] /\ y # Ping
    BY <1>6 DEF EventsIn
  <2>2. l[1] < l[i + 1]
    BY <1>3, <1>4, <1>7, <1>8, <1>10, <2>1 DEF Ordered
  <2> QED BY <1>4, <1>7, <2>1, <2>2
<1> QED BY <1>2, <1>4, <1>9, <1>10
-----------------------------------------------------------------------------
(***************************************************************************)
(* The inductive invariant, client by client.  Beyond the property it says *)
(* that a connection not made yet is on no list and has nothing, that the  *)
(* lists are finite, and that each per-client variable is a function.      *)
(***************************************************************************)
ClientTypeOK(c) ==
  /\ queue[c] \in Seq(0..Len(published)) /\ Len(queue[c]) <= QueueSize
  /\ sending[c] \in Seq(0..Len(published)) /\ Len(sending[c]) <= 1
  /\ idle[c] \in 0..IdleLimit
  /\ since[c] \in 0..Len(published)
  /\ received[c] \cup dropped[c] \subseteq 1..Len(published)

ClientInOrder(c) ==
  Ordered(Line(c)) /\ \A e \in EventsIn(Line(c)), r \in received[c] : r < e

ClientAccounted(c) ==
  c \in Registered \cap active =>
    /\ Due(c) = received[c] \cup EventsIn(Line(c)) \cup dropped[c]
    /\ received[c] \cap dropped[c] = {}
    /\ EventsIn(Line(c)) \cap (received[c] \cup dropped[c]) = {}

NothingYet(c) ==
  conn[c] = "new" =>
    /\ c \notin Registered
    /\ queue[c] = <<>> /\ sending[c] = <<>> /\ received[c] = {} /\ dropped[c] = {}

ClientInv(c) == ClientTypeOK(c) /\ ClientInOrder(c) /\ ClientAccounted(c) /\ NothingYet(c)

FunctionsOK ==
  /\ DOMAIN clients = Tenants /\ DOMAIN queue = Clients /\ DOMAIN sending = Clients
  /\ DOMAIN idle = Clients /\ DOMAIN since = Clients
  /\ DOMAIN received = Clients /\ DOMAIN dropped = Clients

ListsOK ==
  \A t \in Tenants : /\ clients[t] \subseteq {c \in Clients : TenantOf[c] = t}
                     /\ IsFiniteSet(clients[t]) /\ Cardinality(clients[t]) <= MaxClients

GlobalsOK ==
  /\ isRunning \in BOOLEAN /\ conn \in [Clients -> {"new", "open", "closed"}]
  /\ active \subseteq Clients /\ stale \subseteq Clients /\ published \in Seq(Tenants)

ServedInv == GlobalsOK /\ FunctionsOK /\ ListsOK /\ \A c \in Clients : ClientInv(c)

\* The invariant is stronger than the property.
LEMMA ServedInvSuffices == ServedInv => ClientsServed
<1> SUFFICES ASSUME ServedInv PROVE TypeOK /\ InOrder /\ Accounted
  BY DEF ClientsServed
<1>1. TypeOK
  BY DEF ServedInv, GlobalsOK, ListsOK, ClientInv, ClientTypeOK, TypeOK
<1>2. \A c \in Clients : Waiting(c) = EventsIn(Line(c))
  BY DEF Waiting, EventsIn
<1>3. InOrder
  BY <1>2 DEF ServedInv, ClientInv, ClientInOrder, InOrder, Ordered
<1>4. Registered \subseteq Clients
  BY DEF Registered, ServedInv, ListsOK
<1>5. Accounted
  BY <1>2, <1>4 DEF ServedInv, ClientInv, ClientAccounted, Accounted
<1> QED BY <1>1, <1>3, <1>5

\* A client to which nothing happens: no new event, at most leaving its list or
\* becoming inactive.
LEMMA UntouchedClient ==
  ASSUME NEW c \in Clients, ClientInv(c), published' = published,
         queue'[c] = queue[c], sending'[c] = sending[c], idle'[c] \in 0..IdleLimit,
         since'[c] = since[c], received'[c] = received[c], dropped'[c] = dropped[c],
         conn'[c] = "new" => conn[c] = "new",
         c \in Registered' => c \in Registered,
         c \in Registered' \cap active' => c \in active
  PROVE ClientInv(c)'
<1>1. Line(c)' = Line(c) /\ Due(c)' = Due(c)
  BY DEF Line, Due
<1> QED BY <1>1 DEF ClientInv, ClientTypeOK, ClientInOrder, ClientAccounted, NothingYet

\* A client that is given an event or a ping: the event is newer than all it has,
\* and one more is due to it exactly if the event is one.
LEMMA GivenClient ==
  ASSUME NEW c \in Clients, ClientInv(c), c \in Registered, c \in active, conn'[c] = conn[c],
         c \in Registered', Len(published) \in Nat, Len(published)' \in Nat,
         NEW e \in Nat, (e = Ping /\ published' = published) \/ e = Len(published) + 1,
         Len(published) <= Len(published)', e <= Len(published)', Due(c)' = Due(c) \cup ({e} \ {Ping}),
         queue'[c] = IF Len(queue[c]) = QueueSize THEN Append(Tail(queue[c]), e) ELSE Append(queue[c], e),
         dropped'[c] = IF Len(queue[c]) = QueueSize THEN dropped[c] \cup ({Head(queue[c])} \ {Ping})
                       ELSE dropped[c],
         sending'[c] = sending[c], idle'[c] \in 0..IdleLimit,
         since'[c] = since[c], received'[c] = received[c]
  PROVE ClientInv(c)'
<1>1. PICK n \in Nat, n2 \in Nat : n = Len(published) /\ n2 = Len(published)' /\ n <= n2 /\ e <= n2
  OBVIOUS
<1>2. PICK s \in Seq(0..n), q \in Seq(0..n) :
        s = sending[c] /\ q = queue[c] /\ Len(s) <= 1 /\ Len(q) <= QueueSize
  BY <1>1 DEF ClientInv, ClientTypeOK
<1>3. PICK p, gone : /\ p = (IF Len(q) = QueueSize THEN Append(Tail(q), e) ELSE Append(q, e))
                     /\ gone = (IF Len(q) = QueueSize THEN {Head(q)} \ {Ping} ELSE {})
  OBVIOUS
<1>4. p = queue'[c] /\ dropped'[c] = dropped[c] \cup gone
  BY <1>2, <1>3
<1>5. s \in Seq(Nat) /\ q \in Seq(Nat) /\ s \in Seq(0..n2)
  <2>1. 0..n \subseteq Nat /\ 0..n \subseteq 0..n2
    BY <1>1
  <2> QED BY <2>1, SeqMonotonic
<1>6. Line(c) = s \o q /\ Line(c)' = s \o p
  BY <1>2, <1>4 DEF Line
<1>7. Ordered(s \o q) /\ \A x \in EventsIn(s \o q), r \in received[c] : r < x
  BY <1>6 DEF ClientInv, ClientInOrder
<1>8. \A x \in EventsIn(s \o q) : x \in Nat /\ x <= n
  <2>1. s \o q \in Seq(0..n)
    BY ConcatProperties
  <2>2. \A i \in DOMAIN (s \o q) : (s \o q)[i] \in 0..n
    BY <2>1, ElementOfSeq, LenProperties
  <2> QED BY <1>1, <2>2 DEF EventsIn
<1>9. e # Ping => \A x \in EventsIn(s \o q) : x < e
  BY <1>1, <1>8
<1>10. /\ p \in Seq(Nat) /\ Len(p) <= QueueSize /\ Ordered(s \o p)
       /\ EventsIn(s \o p) = (EventsIn(s \o q) \ gone) \cup ({e} \ {Ping})
       /\ gone \subseteq EventsIn(s \o q)
  <2>1. s \in Seq(Nat) /\ q \in Seq(Nat) /\ Len(s) <= 1 /\ Len(q) <= QueueSize /\ Ordered(s \o q)
    BY <1>2, <1>5, <1>7
  <2>2. /\ Len(q) = QueueSize => p = Append(Tail(q), e) /\ gone = {Head(q)} \ {Ping}
        /\ Len(q) # QueueSize => p = Append(q, e) /\ gone = {}
    BY <1>3
  <2> QED BY <1>9, <2>1, <2>2, EnqueuedLine, Zenon
<1>11. ClientTypeOK(c)'
  <2>1. p \in Seq(0..n2)
    <3>1. q \in Seq(0..n2) /\ e \in 0..n2
      <4>1. 0..n \subseteq 0..n2 /\ e \in 0..n2
        BY <1>1
      <4> QED BY <4>1, SeqMonotonic
    <3>2. CASE Len(q) = QueueSize
      <4>1. q # <<>> /\ Tail(q) \in Seq(0..n2)
        BY <3>1, <3>2
      <4>2. p = Append(Tail(q), e)
        BY <1>3, <3>2
      <4> QED BY <3>1, <4>1, <4>2, AppendProperties
    <3>3. CASE Len(q) # QueueSize
      <4>1. p = Append(q, e)
        BY <1>3, <3>3
      <4> QED BY <3>1, <4>1, AppendProperties
    <3> QED BY <3>2, <3>3
  <2>2. gone \subseteq 1..n
    <3>1. \A x \in gone : x \in Nat /\ x <= n /\ x # 0
      BY <1>8, <1>10 DEF EventsIn, Ping
    <3> QED BY <3>1
  <2>3. received[c] \cup dropped[c] \subseteq 1..n /\ since[c] \in 0..n
    BY <1>1 DEF ClientInv, ClientTypeOK
  <2>4. received'[c] \cup dropped'[c] \subseteq 1..n2 /\ since'[c] \in 0..n2
    <3>1. 1..n \subseteq 1..n2 /\ 0..n \subseteq 0..n2
      BY <1>1
    <3> QED BY <1>4, <2>2, <2>3, <3>1
  <2> QED BY <1>1, <1>2, <1>4, <1>5, <1>10, <2>1, <2>4 DEF ClientTypeOK
<1>12. ClientInOrder(c)'
  <2>1. \A r \in received[c] : r <= n /\ r \in Nat
    BY <1>1 DEF ClientInv, ClientTypeOK
  <2>2. \A x \in EventsIn(s \o p), r \in received[c] : r < x
    BY <1>1, <1>7, <1>10, <2>1
  <2> QED BY <1>6, <1>10, <2>2 DEF ClientInOrder
<1>13. ClientAccounted(c)'
  <2>1. /\ Due(c) = received[c] \cup EventsIn(s \o q) \cup dropped[c]
        /\ received[c] \cap dropped[c] = {}
        /\ EventsIn(s \o q) \cap (received[c] \cup dropped[c]) = {}
    BY <1>6 DEF ClientInv, ClientAccounted
  <2>2. e # Ping => e \notin received[c] \cup dropped[c] \cup EventsIn(s \o q)
    <3>1. e # Ping => e > n
      BY <1>1
    <3>2. \A x \in received[c] \cup dropped[c] : x \in Nat /\ x <= n
      BY <1>1 DEF ClientInv, ClientTypeOK
    <3> QED BY <1>8, <3>1, <3>2
  <2>3. PICK R, D, W : R = received[c] /\ D = dropped[c] /\ W = EventsIn(s \o q)
    OBVIOUS
  <2>4. PICK V, N : V = EventsIn(s \o p) /\ N = {e} \ {Ping}
    OBVIOUS
  <2>5. V = (W \ gone) \cup N /\ gone \subseteq W /\ R \cap D = {} /\ W \cap (R \cup D) = {} /\ N \cap (R \cup D \cup W) = {}
    BY <1>10, <2>1, <2>2, <2>3, <2>4
  <2>6. (R \cup W \cup D) \cup N = R \cup V \cup (D \cup gone) /\ R \cap (D \cup gone) = {} /\ V \cap (R \cup (D \cup gone)) = {}
    BY <2>5
  <2>7. Due(c)' = (R \cup W \cup D) \cup N /\ received'[c] = R /\ dropped'[c] = D \cup gone /\ EventsIn(Line(c)') = V
    BY <1>4, <1>6, <2>1, <2>3, <2>4
  <2> QED BY <2>6, <2>7 DEF ClientAccounted, EventsIn
<1>14. NothingYet(c)'
  BY DEF ClientInv, NothingYet
<1> QED BY <1>11, <1>12, <1>13, <1>14 DEF ClientInv

\* Nobody is connected and nothing was published: the invariant holds.
LEMMA ServedInitially == Init => ServedInv
<1> SUFFICES ASSUME Init PROVE ServedInv
  OBVIOUS
<1>1. GlobalsOK /\ FunctionsOK
  BY DEF Init, GlobalsOK, FunctionsOK
<1>2. ListsOK /\ Registered = {}
  BY FS_EmptySet DEF Init, ListsOK, Registered
<1>3. ASSUME NEW c \in Clients PROVE ClientInv(c)
  <2>1. Line(c) = <<>> /\ Len(published) = 0 /\ queue[c] = <<>> /\ sending[c] = <<>>
    BY ConcatEmptySeq DEF Init, Line
  <2>2. ClientTypeOK(c)
    BY <1>3, <2>1 DEF Init, ClientTypeOK
  <2>3. ClientInOrder(c)
    BY <1>3, <2>1 DEF Init, ClientInOrder, Ordered, EventsIn
  <2> QED BY <1>2, <1>3, <2>1, <2>2, <2>3 DEF Init, ClientInv, ClientAccounted, NothingYet
<1> QED BY <1>1, <1>2, <1>3 DEF ServedInv

\* A registered client is on the list of its own tenant.
LEMMA OnOwnList ==
  ASSUME ListsOK
  PROVE /\ Registered \subseteq Clients
        /\ \A c \in Clients : c \in Registered <=> c \in clients[TenantOf[c]]
        /\ \A t \in Tenants : \A c \in clients[t] : TenantOf[c] = t
  BY DEF ListsOK, Registered

\* Registering, within the limit, keeps the invariant: nothing is due yet.
LEMMA RegisterKeeps ==
  ASSUME ServedInv, NEW c \in Clients, Register(c) PROVE ServedInv'
<1> DEFINE t == TenantOf[c]
<1>1. ListsOK'
  <2> SUFFICES ASSUME NEW u \in Tenants
               PROVE /\ clients'[u] \subseteq {d \in Clients : TenantOf[d] = u}
                     /\ IsFiniteSet(clients'[u]) /\ Cardinality(clients'[u]) <= MaxClients
    BY DEF ListsOK
  <2>1. /\ IsFiniteSet(clients[u]) /\ Cardinality(clients[u]) \in Nat
        /\ Cardinality(clients[u]) <= MaxClients /\ clients[u] \subseteq {d \in Clients : TenantOf[d] = u}
    BY FS_CardinalityType DEF ServedInv, ListsOK
  <2>2. CASE u # t
    BY <2>1, <2>2 DEF Register, ServedInv, FunctionsOK
  <2>3. CASE u = t
    <3>1. clients'[u] = clients[u] \cup {c} /\ Cardinality(clients[u]) < MaxClients
      BY <2>3 DEF Register, ServedInv, FunctionsOK
    <3>2. /\ IsFiniteSet(clients[u] \cup {c})
          /\ Cardinality(clients[u] \cup {c}) =
               IF c \in clients[u] THEN Cardinality(clients[u]) ELSE Cardinality(clients[u]) + 1
      BY <2>1, FS_AddElement
    <3>3. Cardinality(clients[u] \cup {c}) <= MaxClients
      BY <2>1, <3>1, <3>2
    <3> QED BY <2>1, <2>3, <3>1, <3>2, <3>3
  <2> QED BY <2>2, <2>3
<1>2. GlobalsOK' /\ FunctionsOK'
  BY DEF Register, ServedInv, GlobalsOK, FunctionsOK
<1>3. \A d \in Clients : d \in Registered' => d = c \/ d \in Registered
  BY DEF Register, ServedInv, FunctionsOK, Registered
<1>4. ASSUME NEW d \in Clients, d # c PROVE ClientInv(d)'
  <2>1. ClientInv(d) /\ DOMAIN since = Clients
    BY DEF ServedInv, FunctionsOK
  <2>2. idle[d] \in 0..IdleLimit
    BY <2>1 DEF ClientInv, ClientTypeOK
  <2>3. since'[d] = since[d] /\ conn'[d] = conn[d]
    BY <1>4, <2>1 DEF Register, ServedInv, GlobalsOK
  <2> QED BY <1>3, <1>4, <2>1, <2>2, <2>3, UntouchedClient DEF Register
<1>5. ClientInv(c)'
  <2>1. /\ ClientInv(c) /\ conn[c] = "new" /\ since'[c] = Len(published) /\ conn'[c] = "open"
        /\ Len(published) \in Nat
    BY DEF Register, ServedInv, FunctionsOK, GlobalsOK
  <2>2. /\ queue[c] = <<>> /\ sending[c] = <<>> /\ received[c] = {} /\ dropped[c] = {}
    BY <2>1 DEF ClientInv, NothingYet
  <2>3. Line(c) = <<>> /\ Line(c)' = <<>>
    BY <2>2, ConcatEmptySeq DEF Line, Register
  <2>4. Due(c)' = {}
    BY <2>1 DEF Due, Register, ServedInv, GlobalsOK
  <2>5. EventsIn(<<>>) = {} /\ Ordered(<<>>)
    BY DEF EventsIn, Ordered
  <2>6. ClientTypeOK(c)'
    BY <2>1 DEF ClientInv, ClientTypeOK, Register
  <2> QED BY <2>1, <2>2, <2>3, <2>4, <2>5, <2>6
          DEF Register, ClientInv, ClientInOrder, ClientAccounted, NothingYet
<1> QED BY <1>1, <1>2, <1>4, <1>5 DEF ServedInv

\* enqueue_event at clients that are being served keeps the invariant, be it
\* the next event of their tenant or a ping.
LEMMA EnqueueKeeps ==
  ASSUME ServedInv, NEW targets, targets \subseteq Registered \cap active, NEW e \in Nat,
         Enqueue(targets, e), published' \in Seq(Tenants),
         UNCHANGED <<isRunning, clients, conn, active, sending, since, received>>,
         stale' \subseteq Clients, DOMAIN idle' = Clients,
         \A c \in Clients : idle'[c] \in 0..IdleLimit,
         \/ e = Ping /\ published' = published
         \/ e = Len(published) + 1 /\ \E t \in Tenants : published' = Append(published, t)
                                                     /\ targets = clients[t] \cap active
  PROVE ServedInv'
<1>1. GlobalsOK' /\ FunctionsOK' /\ ListsOK' /\ Registered' = Registered
  BY DEF ServedInv, GlobalsOK, FunctionsOK, ListsOK, Enqueue, Registered
<1>2. PICK n \in Nat : n = Len(published)
  BY DEF ServedInv, GlobalsOK
<1>3. /\ Len(published)' \in Nat /\ n <= Len(published)' /\ e <= Len(published)'
      /\ e # Ping => Len(published)' = n + 1
  BY <1>2 DEF ServedInv, GlobalsOK, Ping
<1>4. ASSUME NEW c \in targets PROVE ClientInv(c)'
  <2>1. /\ c \in Clients /\ ClientInv(c) /\ c \in clients[TenantOf[c]] /\ TenantOf[c] \in Tenants
        /\ \A t \in Tenants : c \in clients[t] => TenantOf[c] = t
    BY OnOwnList DEF ServedInv
  <2>2. since[c] \in 0..n
    BY <1>2, <2>1 DEF ClientInv, ClientTypeOK
  <2>3. Due(c)' = Due(c) \cup ({e} \ {Ping})
    <3>1. CASE e = Ping /\ published' = published
      BY <3>1 DEF Due
    <3>2. CASE e = n + 1 /\ published' = Append(published, TenantOf[c])
      <4>1. /\ DOMAIN published = 1..n /\ DOMAIN published' = 1..(n + 1)
            /\ \A i \in 1..n : published'[i] = published[i]
            /\ published'[n + 1] = TenantOf[c]
        BY <1>2, <2>1, <3>2 DEF ServedInv, GlobalsOK
      <4>2. \A i \in 1..(n + 1) : i \in 1..n \/ i = n + 1
        BY <1>2
      <4>3. \A i \in 1..n : i \in 1..(n + 1)
        BY <1>2
      <4>4. n + 1 > since[c] /\ n + 1 # Ping /\ n + 1 \in 1..(n + 1) /\ since'[c] = since[c]
        BY <1>2, <2>2 DEF Ping
      <4> QED BY <3>2, <4>1, <4>2, <4>3, <4>4 DEF Due
    <3> QED BY <1>2, <2>1, <3>1, <3>2
  <2>4. /\ queue'[c] = IF Len(queue[c]) = QueueSize THEN Append(Tail(queue[c]), e) ELSE Append(queue[c], e)
        /\ dropped'[c] = IF Len(queue[c]) = QueueSize THEN dropped[c] \cup ({Head(queue[c])} \ {Ping})
                         ELSE dropped[c]
    BY <2>1 DEF Enqueue
  <2>5. /\ c \in Registered /\ c \in active /\ c \in Registered' /\ conn'[c] = conn[c]
        /\ sending'[c] = sending[c] /\ since'[c] = since[c] /\ received'[c] = received[c]
        /\ idle'[c] \in 0..IdleLimit
    BY <1>1, <2>1
  <2>6. (e = Ping /\ published' = published) \/ e = Len(published) + 1
    OBVIOUS
  <2> QED BY <1>2, <1>3, <2>1, <2>3, <2>4, <2>5, <2>6, GivenClient
<1>5. ASSUME NEW c \in Clients \ targets PROVE ClientInv(c)'
  <2>1. ClientInv(c) /\ queue'[c] = queue[c] /\ dropped'[c] = dropped[c]
    BY DEF Enqueue, ServedInv
  <2>2. CASE published' = published
    BY <1>1, <2>1, <2>2, UntouchedClient
  <2>3. CASE published' # published
    <3>1. PICK t \in Tenants : published' = Append(published, t) /\ targets = clients[t] \cap active
      BY <2>3
    <3>2. c \in Registered \cap active => TenantOf[c] # t
      BY <3>1, OnOwnList DEF ServedInv
    <3>3. /\ DOMAIN published = 1..n /\ DOMAIN published' = 1..(n + 1)
          /\ \A i \in 1..n : published'[i] = published[i]
          /\ published'[n + 1] = t /\ Len(published') = n + 1
      BY <1>2, <3>1 DEF ServedInv, GlobalsOK
    <3>4. \A i \in 1..(n + 1) : i \in 1..n \/ i = n + 1
      BY <1>2
    <3>5. \A i \in 1..n : i \in 1..(n + 1)
      BY <1>2
    <3>6. c \in Registered \cap active => Due(c)' = Due(c)
      BY <3>2, <3>3, <3>4, <3>5 DEF Due
    <3>7. Line(c)' = Line(c)
      BY <2>1 DEF Line
    <3>8. ClientTypeOK(c)'
      <4>1. 0..n \subseteq 0..(n + 1) /\ 1..n \subseteq 1..(n + 1)
        BY <1>2
      <4>2. /\ queue[c] \in Seq(0..n) /\ sending[c] \in Seq(0..n) /\ since[c] \in 0..n
            /\ received[c] \cup dropped[c] \subseteq 1..n
            /\ Len(queue[c]) <= QueueSize /\ Len(sending[c]) <= 1
        BY <1>2, <2>1 DEF ClientInv, ClientTypeOK
      <4>3. queue[c] \in Seq(0..(n + 1)) /\ sending[c] \in Seq(0..(n + 1))
        BY <4>1, <4>2, SeqMonotonic
      <4> QED BY <2>1, <3>3, <4>1, <4>2, <4>3 DEF ClientTypeOK
    <3> QED BY <1>1, <2>1, <3>6, <3>7, <3>8
            DEF ClientInv, ClientInOrder, ClientAccounted, NothingYet
  <2> QED BY <2>2, <2>3
<1> QED BY <1>1, <1>4, <1>5 DEF ServedInv

\* A line that loses its first event, or the one in the sender's hands, stays in
\* order; that event was one of it and is older than the rest.
LEMMA HandEmptied ==
  ASSUME NEW n \in Nat, NEW s \in Seq(0..n), NEW q \in Seq(0..n), Len(s) <= 1, Ordered(s \o q)
  PROVE /\ <<>> \o q = q /\ Ordered(q) /\ EventsIn(q) \subseteq EventsIn(s \o q)
        /\ s # <<>> => /\ Head(s) \in 0..n /\ EventsIn(q) = EventsIn(s \o q) \ {Head(s)}
                       /\ Head(s) # Ping => Head(s) \in EventsIn(s \o q)
                                            /\ \A y \in EventsIn(q) : Head(s) < y
<1>1. q \in Seq(Nat) /\ <<>> \o q = q
  <2>1. 0..n \subseteq Nat
    OBVIOUS
  <2> QED BY <2>1, SeqMonotonic, ConcatEmptySeq
<1>2. CASE s = <<>>
  BY <1>1, <1>2
<1>3. CASE s # <<>>
  <2>1. PICK x \in 0..n : s = <<x>> /\ Head(s) = x
    <3>4. PICK k \in Nat : k = Len(s) /\ k # 0
      BY <1>3, EmptySeq, LenProperties
    <3>5. k = 1
      BY <3>4
    <3>6. 1 \in 1..1
      OBVIOUS
    <3>7. s[1] \in 0..n
      BY <3>4, <3>5, <3>6, ElementOfSeq
    <3>2. Len(s) = 1 /\ s[1] \in 0..n /\ Head(s) = s[1]
      BY <3>4, <3>5, <3>7
    <3>3. s = <<s[1]>>
      <4>1. <<s[1]>> \in Seq(0..n) /\ Len(<<s[1]>>) = 1 /\ <<s[1]>>[1] = s[1]
        BY <3>2
      <4>2. \A i \in 1..Len(s) : s[i] = <<s[1]>>[i]
        BY <3>2, <4>1
      <4> QED BY <3>2, <4>1, <4>2, SeqEqual
    <3>1. Len(s) = 1 /\ s[1] \in 0..n /\ s = <<s[1]>> /\ Head(s) = s[1]
      BY <3>2, <3>3
    <3> QED BY <3>1
  <2>2. x \in Nat /\ Ordered(<<x>> \o q)
    BY <2>1
  <2>3. /\ Ordered(q) /\ EventsIn(q) = EventsIn(<<x>> \o q) \ {x}
        /\ x # Ping => x \in EventsIn(<<x>> \o q) /\ \A y \in EventsIn(q) : x < y
    BY <1>1, <2>2, SentLine
  <2> QED BY <1>1, <1>3, <2>1, <2>3
<1> QED BY <1>2, <1>3

\* A client whose sender stops, with or without an event in hand, and who is not
\* served any more.
LEMMA LeavingClient ==
  ASSUME NEW c \in Clients, ClientInv(c), Len(published) \in Nat, published' = published,
         queue'[c] = queue[c], sending'[c] = <<>>, idle'[c] = idle[c], since'[c] = since[c],
         received'[c] = received[c], dropped'[c] = dropped[c], c \notin active',
         conn'[c] = "new" => conn[c] = "new",
         c \in Registered' => c \in Registered
  PROVE ClientInv(c)'
<1>1. PICK n \in Nat : n = Len(published)
  OBVIOUS
<1>2. PICK s \in Seq(0..n), q \in Seq(0..n) : s = sending[c] /\ q = queue[c] /\ Len(s) <= 1
  BY <1>1 DEF ClientInv, ClientTypeOK
<1>3. Ordered(s \o q) /\ \A x \in EventsIn(s \o q), r \in received[c] : r < x
  BY <1>2 DEF ClientInv, ClientInOrder, Line
<1>4. <<>> \o q = q /\ Ordered(q) /\ EventsIn(q) \subseteq EventsIn(s \o q)
  BY <1>2, <1>3, HandEmptied
<1>5. Line(c)' = q
  BY <1>2, <1>4 DEF Line
<1>6. ClientInOrder(c)'
  BY <1>3, <1>4, <1>5 DEF ClientInOrder
<1>7. ClientTypeOK(c)'
  BY DEF ClientInv, ClientTypeOK
<1> QED BY <1>6, <1>7 DEF ClientInv, ClientAccounted, NothingYet

\* Off the list: the others keep their place and the invariant its truth.
LEMMA UnregisterKeeps ==
  ASSUME ServedInv, NEW c \in Clients, Unregister(c) PROVE ServedInv'
<1>1. /\ ListsOK' /\ \A d \in Clients : d \in Registered' => d \in Registered
  <2>1. \A u \in Tenants : clients'[u] = clients[u] \/ clients'[u] = clients[u] \ {c}
    BY DEF Unregister, ServedInv, FunctionsOK
  <2>2. ASSUME NEW u \in Tenants
        PROVE /\ clients'[u] \subseteq {d \in Clients : TenantOf[d] = u}
              /\ IsFiniteSet(clients'[u]) /\ Cardinality(clients'[u]) <= MaxClients
    <3>1. /\ IsFiniteSet(clients[u]) /\ Cardinality(clients[u]) \in Nat
          /\ Cardinality(clients[u]) <= MaxClients
          /\ clients[u] \subseteq {d \in Clients : TenantOf[d] = u}
      BY FS_CardinalityType DEF ServedInv, ListsOK
    <3>2. /\ IsFiniteSet(clients[u] \ {c})
          /\ Cardinality(clients[u] \ {c}) =
               IF c \in clients[u] THEN Cardinality(clients[u]) - 1 ELSE Cardinality(clients[u])
      BY <3>1, FS_RemoveElement
    <3>3. Cardinality(clients[u] \ {c}) <= MaxClients
      BY <3>1, <3>2
    <3> QED BY <2>1, <3>1, <3>2, <3>3
  <2> QED BY <2>1, <2>2 DEF ListsOK, Registered
<1>2. GlobalsOK' /\ FunctionsOK'
  BY DEF Unregister, ServedInv, GlobalsOK, FunctionsOK, history
<1>3. ASSUME NEW d \in Clients, d # c PROVE ClientInv(d)'
  <2>1. ClientInv(d) /\ idle[d] \in 0..IdleLimit
    BY DEF ServedInv, ClientInv, ClientTypeOK
  <2>2. sending'[d] = sending[d] /\ conn'[d] = conn[d]
    BY <1>3 DEF Unregister, ServedInv, FunctionsOK, GlobalsOK
  <2> QED BY <1>1, <2>1, <2>2, UntouchedClient DEF Unregister, history
<1>4. ClientInv(c)'
  <2>1. ClientInv(c) /\ Len(published) \in Nat
    BY DEF ServedInv, GlobalsOK
  <2>2. sending'[c] = <<>> /\ conn'[c] = "closed" /\ c \notin active'
    BY DEF Unregister, ServedInv, FunctionsOK, GlobalsOK
  <2> QED BY <1>1, <2>1, <2>2, LeavingClient DEF Unregister, history
<1> QED BY <1>1, <1>2, <1>3, <1>4 DEF ServedInv

\* The sender's three steps, on one client.
LEMMA SenderKeeps ==
  ASSUME ServedInv, NEW c \in Clients, Take(c) \/ Sent(c) \/ SendFails(c) PROVE ServedInv'
<1>1. GlobalsOK' /\ FunctionsOK' /\ ListsOK' /\ Registered' = Registered
  BY DEF Take, Sent, SendFails, ServedInv, GlobalsOK, FunctionsOK, ListsOK, Registered, history
<1>2. /\ published' = published /\ Len(published) \in Nat /\ conn' = conn /\ since' = since
      /\ dropped' = dropped /\ active' \subseteq active /\ 0 \in 0..IdleLimit
  BY DEF Take, Sent, SendFails, ServedInv, GlobalsOK, history
<1>3. ASSUME NEW d \in Clients, d # c PROVE ClientInv(d)'
  <2>1. ClientInv(d) /\ idle[d] \in 0..IdleLimit
    BY DEF ServedInv, ClientInv, ClientTypeOK
  <2>2. /\ queue'[d] = queue[d] /\ sending'[d] = sending[d] /\ received'[d] = received[d]
        /\ idle'[d] = idle[d]
    BY <1>3 DEF Take, Sent, SendFails, ServedInv, FunctionsOK
  <2> QED BY <1>1, <1>2, <2>1, <2>2, UntouchedClient
<1>4. PICK n \in Nat : n = Len(published)
  BY <1>2
<1>5. ClientInv(c)
  BY DEF ServedInv
<1>6. PICK s \in Seq(0..n), q \in Seq(0..n) :
        s = sending[c] /\ q = queue[c] /\ Len(s) <= 1 /\ Len(q) <= QueueSize
  BY <1>4, <1>5 DEF ClientInv, ClientTypeOK
<1>7. Ordered(s \o q) /\ \A x \in EventsIn(s \o q), r \in received[c] : r < x
  BY <1>5, <1>6 DEF ClientInv, ClientInOrder, Line
<1>8. CASE Take(c)
  <2>1. /\ s = <<>> /\ q # <<>> /\ sending'[c] = <<Head(q)>> /\ queue'[c] = Tail(q)
        /\ conn[c] = "open" /\ idle' = idle /\ received' = received /\ active' = active
    BY <1>6, <1>8 DEF Take, ServedInv, FunctionsOK
  <2>2. /\ Head(q) \in 0..n /\ <<Head(q)>> \in Seq(0..n) /\ Len(<<Head(q)>>) = 1
        /\ Tail(q) \in Seq(0..n) /\ Len(Tail(q)) <= QueueSize
    <3>1. Head(q) \in 0..n /\ Tail(q) \in Seq(0..n) /\ Len(Tail(q)) = Len(q) - 1 /\ Len(q) \in Nat
      BY <2>1, HeadTailProperties, LenProperties
    <3> QED BY <1>6, <3>1
  <2>3. <<Head(q)>> \o Tail(q) = q /\ <<>> \o q = q
    BY <2>1, ConcatEmptySeq, HeadTailProperties
  <2>4. Line(c)' = Line(c)
    BY <1>6, <2>1, <2>3 DEF Line
  <2>5. ClientTypeOK(c)'
    BY <1>2, <1>4, <1>5, <2>1, <2>2 DEF ClientInv, ClientTypeOK
  <2>6. Due(c)' = Due(c)
    BY <1>2 DEF Due
  <2> QED BY <1>1, <1>2, <1>3, <1>5, <2>1, <2>4, <2>5, <2>6
          DEF ServedInv, ClientInv, ClientInOrder, ClientAccounted, NothingYet
<1>9. CASE Sent(c)
  <2>1. /\ s # <<>> /\ sending'[c] = <<>> /\ queue' = queue /\ idle'[c] = 0 /\ active' = active
        /\ received'[c] = received[c] \cup ({Head(s)} \ {Ping})
    BY <1>6, <1>9 DEF Sent, ServedInv, FunctionsOK
  <2>2. /\ <<>> \o q = q /\ Ordered(q) /\ Head(s) \in 0..n
        /\ EventsIn(q) = EventsIn(s \o q) \ {Head(s)}
        /\ Head(s) # Ping => Head(s) \in EventsIn(s \o q) /\ \A y \in EventsIn(q) : Head(s) < y
    BY <1>6, <1>7, <2>1, HandEmptied
  <2>3. Line(c)' = q /\ Line(c) = s \o q
    BY <1>6, <2>1, <2>2 DEF Line
  <2>4. ClientInOrder(c)'
    BY <1>7, <2>1, <2>2, <2>3 DEF ClientInOrder
  <2>5. ClientTypeOK(c)'
    <3>1. Head(s) # Ping => Head(s) \in 1..n
      BY <2>2 DEF Ping
    <3> QED BY <1>2, <1>4, <1>5, <1>6, <2>1, <3>1 DEF ClientInv, ClientTypeOK
  <2>6. ClientAccounted(c)'
    <3>1. Due(c)' = Due(c)
      BY <1>2 DEF Due
    <3>2. Ping \notin EventsIn(s \o q)
      BY DEF EventsIn
    <3> QED BY <1>1, <1>2, <1>5, <2>1, <2>2, <2>3, <3>1, <3>2 DEF ClientInv, ClientAccounted
  <2>7. NothingYet(c)'
    BY <1>2, <1>5, <1>6, <2>1 DEF ClientInv, NothingYet
  <2> QED BY <1>1, <1>3, <2>4, <2>5, <2>6, <2>7 DEF ServedInv, ClientInv
<1>10. CASE SendFails(c)
  <2>1. /\ sending'[c] = <<>> /\ queue' = queue /\ idle' = idle /\ received' = received
        /\ c \notin active'
    BY <1>10 DEF SendFails, ServedInv, FunctionsOK
  <2>2. ClientInv(c)'
    BY <1>1, <1>2, <1>5, <2>1, LeavingClient
  <2> QED BY <1>1, <1>3, <2>2 DEF ServedInv
<1> QED BY <1>8, <1>9, <1>10

(***************************************************************************)
(* A client that is being served gets the events of its tenant, and of no  *)
(* other, in the order of their publication, each one received, waiting or *)
(* counted in dropped_events, and no queue or client list exceeds its      *)
(* bound, whatever senders, heartbeats, disconnects and stop() do.         *)
(***************************************************************************)
THEOREM ServedCorrect == Spec => []ClientsServed
<1>1. ServedInv /\ [Next]_vars => ServedInv'
  <2> SUFFICES ASSUME ServedInv, [Next]_vars PROVE ServedInv'
    OBVIOUS
  <2>0. /\ Registered \subseteq Clients /\ published \in Seq(Tenants) /\ Len(published) \in Nat
        /\ \A t \in Tenants : clients[t] \subseteq Registered
        /\ \A c \in Clients : ClientInv(c) /\ idle[c] \in 0..IdleLimit
        /\ DOMAIN idle = Clients /\ stale \subseteq Clients
    BY OnOwnList DEF ServedInv, GlobalsOK, FunctionsOK, Registered, ClientInv, ClientTypeOK
  <2>1. ASSUME NEW c \in Clients, Register(c) PROVE ServedInv'
    BY <2>1, RegisterKeeps
  <2>2. ASSUME NEW c \in Clients, Reject(c) PROVE ServedInv'
    <3>1. GlobalsOK' /\ FunctionsOK' /\ ListsOK' /\ Registered' = Registered
      BY <2>2 DEF Reject, ServedInv, GlobalsOK, FunctionsOK, ListsOK, Registered, history
    <3>2. ASSUME NEW d \in Clients PROVE ClientInv(d)'
      <4>1. conn'[d] = "new" => conn[d] = "new"
        BY <2>2 DEF Reject, ServedInv, GlobalsOK
      <4> QED BY <2>0, <2>2, <3>1, <4>1, UntouchedClient DEF Reject, history
    <3> QED BY <3>1, <3>2 DEF ServedInv
  <2>3. ASSUME NEW t \in Tenants, Broadcast(t) PROVE ServedInv'
    <3>1. PICK e \in Nat : e = Len(published) + 1
      BY <2>0
    <3>2. PICK targets : targets = clients[t] \cap active
      OBVIOUS
    <3>3. /\ Enqueue(targets, e) /\ published' = Append(published, t) /\ targets \subseteq Registered \cap active
          /\ UNCHANGED <<isRunning, clients, conn, active, sending, since, received>>
          /\ stale' \subseteq Clients /\ idle' = idle
      BY <2>0, <2>3, <3>1, <3>2 DEF Broadcast
    <3>4. /\ published' \in Seq(Tenants) /\ DOMAIN idle' = Clients
          /\ \A c \in Clients : idle'[c] \in 0..IdleLimit
      BY <2>0, <3>3, AppendProperties
    <3>5. e = Len(published) + 1 /\ \E u \in Tenants : published' = Append(published, u)
                                                     /\ targets = clients[u] \cap active
      BY <3>1, <3>2, <3>3
    <3> QED BY <3>3, <3>4, <3>5, EnqueueKeeps, Zenon
  <2>4. CASE Heartbeat
    <3>1. PICK gone : gone = {c \in Registered : c \notin active \/ idle[c] + 1 > IdleLimit}
      OBVIOUS
    <3>2. PICK e \in Nat : e = Ping
      BY DEF Ping
    <3>3. PICK targets : targets = Registered \ gone
      OBVIOUS
    <3>4. /\ Enqueue(targets, e) /\ published' = published
          /\ UNCHANGED <<isRunning, clients, conn, active, sending, since, received>>
          /\ stale' = stale \cup gone
          /\ idle' = [c \in Clients |-> IF c \in targets THEN idle[c] + 1 ELSE idle[c]]
      BY <2>4, <3>1, <3>2, <3>3 DEF Heartbeat, history
    <3>5. /\ targets \subseteq Registered \cap active /\ stale' \subseteq Clients
          /\ published' \in Seq(Tenants) /\ DOMAIN idle' = Clients
      BY <2>0, <3>1, <3>3, <3>4
    <3>6. \A c \in Clients : idle'[c] \in 0..IdleLimit
      <4> TAKE c \in Clients
      <4>1. c \in targets => ~(idle[c] + 1 > IdleLimit)
        BY <3>1, <3>3
      <4> QED BY <2>0, <3>4, <4>1
    <3>7. e = Ping /\ published' = published
      BY <3>2, <3>4
    <3> QED BY <3>4, <3>5, <3>6, <3>7, EnqueueKeeps, Zenon
  <2>5. ASSUME NEW c \in Clients, Prune(c) \/ Disconnect(c) PROVE ServedInv'
    BY <2>5, UnregisterKeeps DEF Prune, Disconnect
  <2>6. ASSUME NEW c \in Clients, Take(c) \/ Sent(c) \/ SendFails(c) PROVE ServedInv'
    BY <2>6, SenderKeeps
  <2>7. CASE Start \/ Stop \/ UNCHANGED vars
    <3>1. /\ conn' = conn /\ active' = active /\ queue' = queue /\ sending' = sending /\ idle' = idle
          /\ published' = published /\ since' = since /\ received' = received /\ dropped' = dropped
      BY <2>7 DEF Start, Stop, vars, history
    <3>2. GlobalsOK' /\ FunctionsOK'
      BY <2>0, <2>7, <3>1 DEF Start, Stop, vars, ServedInv, GlobalsOK, FunctionsOK
    <3>3. ListsOK' /\ \A d \in Clients : d \in Registered' => d \in Registered
      <4>1. CASE clients' = clients
        BY <4>1 DEF ServedInv, ListsOK, Registered
      <4>2. CASE clients' = [t \in Tenants |-> {}]
        BY <4>2, FS_EmptySet DEF ListsOK, Registered
      <4> QED BY <2>7, <4>1, <4>2 DEF Start, Stop, vars
    <3>4. ASSUME NEW d \in Clients PROVE ClientInv(d)'
      BY <2>0, <3>1, <3>3, UntouchedClient
    <3> QED BY <3>2, <3>3, <3>4 DEF ServedInv
  <2> QED BY <2>1, <2>2, <2>3, <2>4, <2>5, <2>6, <2>7 DEF Next
<1> QED BY <1>1, ServedInitially, ServedInvSuffices, PTL DEF Spec

-----------------------------------------------------------------------------
(***************************************************************************)
(* The notification engine.  The sliding window of a tenant holds, for as  *)
(* long as it is young enough, the timestamp of every alert that was let   *)
(* through; the cache holds an expiry for every alert that was taken on    *)
(* less than a window ago, and no other; an attempt adds a copy and its    *)
(* number; and the counters count the alerts of each phase.                *)
(***************************************************************************)
Phases == {"absent", "published", "ignored", "limited", "suppressed", "sending", "done"}
Taken(a) == phase[a] \in {"sending", "done"}
Window(t, s) == {a \in Events : Alerts[a].tenant = t /\ Admitted(a) /\ handledAt[a] \in s..(s + RateWindow - 1)}

TimeInv ==
  /\ clock \in Nat /\ phase \in [Events -> Phases] /\ handledAt \in [Events -> Nat]
  /\ \A a \in Events : handledAt[a] <= clock

RateInv ==
  /\ DOMAIN records = AlertTenants
  /\ \A t \in AlertTenants : DOMAIN records[t] \subseteq Events /\ \A a \in DOMAIN records[t] : records[t][a] \in 0..clock
  /\ \A a \in Events : Admitted(a) /\ handledAt[a] + RateWindow > clock =>
       a \in DOMAIN records[Alerts[a].tenant] /\ records[Alerts[a].tenant][a] = handledAt[a]
  /\ \A t \in AlertTenants, s \in Nat : Cardinality(Window(t, s)) <= RateLimit

DedupInv ==
  /\ \A k \in DOMAIN cache : \E b \in Events : DedupKey(b) = k /\ Taken(b) /\ cache[k] = handledAt[b] + DedupWindow
  /\ \A b \in Events : Taken(b) /\ Deduplicates(b) /\ handledAt[b] + DedupWindow > clock =>
       DedupKey(b) \in DOMAIN cache /\ cache[DedupKey(b)] >= handledAt[b] + DedupWindow
  /\ SuppressesExactlyRepeats

ChannelInv(a, c) ==
  /\ tries[a][c] \in 0..MaxSends /\ outcome[a][c] \in {"PENDING", "DELIVERED", "FAILED", "SKIPPED"}
  /\ \A n \in Nat : <<a, c, n>> \in lost => n \in 1..tries[a][c]
  /\ \A copy \in copies[a][c] : copy.secrets \cap {"credential", "sensitive_key"} = {}
  /\ {copy.nth : copy \in copies[a][c]} = LostOn(a, c) \cup Answered(a, c)

CopyInv ==
  /\ DOMAIN tries = Events /\ DOMAIN outcome = Events /\ DOMAIN copies = Events
  /\ \A a \in Events : DOMAIN tries[a] = Targets(a) /\ DOMAIN outcome[a] = Targets(a) /\ DOMAIN copies[a] = Targets(a)
  /\ \A a \in Events : \A c \in Targets(a) : ChannelInv(a, c)

AnnounceInv ==
  /\ announced \subseteq Events \X {"dispatched", "failed"}
  /\ \A x \in announced : phase[x[1]] \in {"limited", "done"}
  /\ \A a \in InPhase({"limited", "done"}) :
       <<a, "failed">> \in announced <=>
         IF phase[a] = "limited" THEN Targets(a) # {} ELSE Having(a, "FAILED") # {}

CountInv ==
  /\ counts \in [dispatched : Nat, delivered : Nat, failed : Nat, suppressed : Nat, limited : Nat]
  /\ counts.dispatched = Cardinality(InPhase({"limited", "suppressed", "sending", "done"}))
  /\ counts.limited = Cardinality(InPhase({"limited"}))
  /\ counts.suppressed = Cardinality(InPhase({"suppressed"}))
  /\ IsFiniteSet(DoneWith("DELIVERED")) /\ counts.delivered = Cardinality(DoneWith("DELIVERED"))
  /\ IsFiniteSet(DoneWith("FAILED")) /\ counts.failed = Cardinality(DoneWith("FAILED"))

NotifyInv == TimeInv /\ RateInv /\ DedupInv /\ CopyInv /\ AnnounceInv /\ CountInv

LEMMA NotifyInvSuffices == NotifyInv => NotifySafe
<1> SUFFICES ASSUME NotifyInv PROVE NotifySafe
  OBVIOUS
<1>1. NotifyTypeOK
  BY DEF NotifyInv, TimeInv, RateInv, CopyInv, ChannelInv, AnnounceInv, NotifyTypeOK, Phases
<1>2. RateHeldInEveryWindow
  <2> SUFFICES ASSUME NEW t \in AlertTenants, NEW s \in 0..clock PROVE Cardinality(Window(t, s)) <= RateLimit
    BY DEF RateHeldInEveryWindow, Window
  <2>1. s \in Nat
    BY DEF NotifyInv, TimeInv
  <2> QED BY <2>1 DEF NotifyInv, RateInv
<1>3. SuppressesExactlyRepeats /\ RepeatsOnlyLostAnswers
  BY DEF NotifyInv, DedupInv, CopyInv, ChannelInv, RepeatsOnlyLostAnswers
<1>4. MetricsAgree
  BY DEF NotifyInv, AnnounceInv, CountInv, MetricsAgree
<1> QED BY <1>1, <1>2, <1>3, <1>4 DEF NotifySafe

\* What every way of handling an alert has in common.
LEMMA DispatchFacts ==
  ASSUME TimeInv, NEW a \in Events, dispatch(a)
  PROVE  /\ phase[a] = "published" /\ handledAt'[a] = clock
         /\ phase'[a] \in {"ignored", "limited", "suppressed", "sending"}
         /\ \A b \in Events : b # a => phase'[b] = phase[b] /\ handledAt'[b] = handledAt[b]
         /\ UNCHANGED <<clock, tries, outcome, copies, lost>>
         /\ TimeInv'
         /\ phase'[a] = "ignored" => Ignore(a)
         /\ phase'[a] = "limited" => RateLimited(a)
         /\ phase'[a] = "suppressed" => SuppressAlert(a)
         /\ phase'[a] = "sending" => StartSending(a)
<1>1. PICK p \in {"ignored", "limited", "suppressed", "sending"} : phase' = [phase EXCEPT ![a] = p]
  BY DEF dispatch, Ignore, RateLimited, SuppressAlert, StartSending
<1>2. phase[a] = "published" /\ handledAt' = [handledAt EXCEPT ![a] = clock] /\ UNCHANGED <<clock, tries, outcome, copies, lost>>
  BY DEF dispatch
<1>3. phase'[a] = p /\ handledAt'[a] = clock /\ p \in Phases
  BY <1>1, <1>2 DEF TimeInv, Phases
<1>4. \A b \in Events : b # a => phase'[b] = phase[b] /\ handledAt'[b] = handledAt[b]
  BY <1>1, <1>2 DEF TimeInv
<1>5. TimeInv'
  BY <1>1, <1>2, <1>3, <1>4 DEF TimeInv
<1>6. /\ Ignore(a) => phase'[a] = "ignored"
      /\ RateLimited(a) => phase'[a] = "limited"
      /\ SuppressAlert(a) => phase'[a] = "suppressed"
      /\ StartSending(a) => phase'[a] = "sending"
  BY DEF Ignore, RateLimited, SuppressAlert, StartSending, TimeInv
<1>7. Ignore(a) \/ RateLimited(a) \/ SuppressAlert(a) \/ StartSending(a)
  BY DEF dispatch
<1> QED BY <1>1, <1>2, <1>3, <1>4, <1>5, <1>6, <1>7

\* The window of a tenant, once what is too old has been dropped from it.
LEMMA RecentFacts ==
  ASSUME TimeInv, RateInv, NEW t \in AlertTenants
  PROVE  /\ DOMAIN Recent(t) \subseteq DOMAIN records[t] /\ IsFiniteSet(DOMAIN Recent(t))
         /\ \A b \in DOMAIN Recent(t) : Recent(t)[b] = records[t][b]
         /\ \A b \in DOMAIN records[t] : records[t][b] + RateWindow > clock => b \in DOMAIN Recent(t)
<1> USE AlertsAssumption, LimitsAssumption
<1>1. PICK r : r = records[t]
  OBVIOUS
<1>2. /\ DOMAIN Recent(t) = DOMAIN r \ {b \in DOMAIN r : r[b] + RateWindow <= clock}
      /\ \A b \in DOMAIN Recent(t) : Recent(t)[b] = r[b]
  BY <1>1 DEF Recent, Drop
<1>3. DOMAIN r \subseteq Events /\ \A b \in DOMAIN r : r[b] \in Nat
  BY <1>1 DEF RateInv, TimeInv
<1>4. IsFiniteSet(DOMAIN Recent(t))
  <2>1. PICK D : D = DOMAIN Recent(t)
    OBVIOUS
  <2>2. D \in SUBSET Events
    BY <1>2, <1>3, <2>1
  <2> QED BY <2>1, <2>2, FS_Subset DEF Events
<1> QED BY <1>1, <1>2, <1>3, <1>4 DEF TimeInv

\* An alert that is not let through changes no window, and one that is let
\* through fits in every window it falls in.
LEMMA RateDispatch ==
  ASSUME TimeInv, RateInv, NEW a \in Events, dispatch(a)
  PROVE  RateInv'
<1> USE AlertsAssumption, LimitsAssumption
<1>1. /\ phase[a] = "published" /\ handledAt'[a] = clock /\ clock' = clock /\ TimeInv'
      /\ phase'[a] \in {"ignored", "limited", "suppressed", "sending"}
      /\ \A b \in Events : b # a => phase'[b] = phase[b] /\ handledAt'[b] = handledAt[b]
  BY DispatchFacts
<1>2. PICK t \in AlertTenants : t = Alerts[a].tenant
  BY DEF AlertTenants
<1>3. PICK R : R = Recent(t)
  OBVIOUS
<1>4. /\ DOMAIN R \subseteq DOMAIN records[t] /\ IsFiniteSet(DOMAIN R)
      /\ \A b \in DOMAIN R : R[b] = records[t][b]
      /\ \A b \in DOMAIN records[t] : records[t][b] + RateWindow > clock => b \in DOMAIN R
  BY <1>3, RecentFacts
<1>5. /\ DOMAIN records = AlertTenants
      /\ \A u \in AlertTenants : DOMAIN records[u] \subseteq Events /\ \A b \in DOMAIN records[u] : records[u][b] \in 0..clock
  BY DEF RateInv
<1>6. CASE phase'[a] \in {"ignored", "limited"}
  <2>1. records' = records \/ records' = [records EXCEPT ![t] = R]
    BY <1>2, <1>3, <1>6, DispatchFacts DEF Ignore, RateLimited
  <2>2. DOMAIN records' = AlertTenants /\ \A u \in AlertTenants : records'[u] = records[u] \/ (u = t /\ records'[u] = R)
    BY <1>5, <2>1
  <2>3. \A b \in Events : Admitted(b)' => b # a /\ Admitted(b)
    BY <1>1, <1>6 DEF Admitted
  <2>4. \A u \in AlertTenants : /\ DOMAIN records'[u] \subseteq Events
                               /\ \A b \in DOMAIN records'[u] : records'[u][b] \in 0..clock
    BY <1>4, <1>5, <2>2
  <2>5. ASSUME NEW b \in Events, Admitted(b)', handledAt'[b] + RateWindow > clock
        PROVE  b \in DOMAIN records'[Alerts[b].tenant] /\ records'[Alerts[b].tenant][b] = handledAt'[b]
    <3>1. PICK u \in AlertTenants : u = Alerts[b].tenant
      BY DEF AlertTenants
    <3>2. b \in DOMAIN records[u] /\ records[u][b] = handledAt[b] /\ handledAt'[b] = handledAt[b]
      BY <1>1, <2>3, <2>5, <3>1 DEF RateInv
    <3> QED BY <1>4, <2>2, <2>5, <3>1, <3>2
  <2>6. ASSUME NEW u \in AlertTenants, NEW s \in Nat PROVE Window(u, s)' \subseteq Window(u, s)
    BY <1>1, <2>3 DEF Window
  <2>7. ASSUME NEW u \in AlertTenants, NEW s \in Nat PROVE Cardinality(Window(u, s)') <= RateLimit
    <3>1. PICK W : W = Window(u, s)
      OBVIOUS
    <3>2. PICK V : V = Window(u, s)'
      OBVIOUS
    <3>3. W \in SUBSET Events /\ V \in SUBSET W
      BY <2>6, <3>1, <3>2 DEF Window
    <3>4. IsFiniteSet(W) /\ IsFiniteSet(V) /\ Cardinality(V) <= Cardinality(W)
      BY <3>3, FS_Subset DEF Events
    <3>5. Cardinality(V) \in Nat /\ Cardinality(W) \in Nat /\ Cardinality(W) <= RateLimit
      BY <3>1, <3>4, FS_CardinalityType DEF RateInv
    <3> QED BY <3>2, <3>4, <3>5
  <2> QED BY <1>1, <2>2, <2>4, <2>5, <2>7 DEF RateInv
<1>7. CASE phase'[a] \in {"suppressed", "sending"}
  <2>1. records' = [records EXCEPT ![t] = Put(R, a, clock)] /\ RateAllows(t)
    BY <1>2, <1>3, <1>7, DispatchFacts DEF SuppressAlert, StartSending, Recorded
  <2>2. PICK Q : Q = Put(R, a, clock)
    OBVIOUS
  <2>3. DOMAIN Q = DOMAIN R \cup {a} /\ Q[a] = clock /\ \A b \in DOMAIN R : b # a => Q[b] = R[b]
    BY <2>2 DEF Put
  <2>4. /\ DOMAIN records' = AlertTenants /\ records'[t] = Q
        /\ \A u \in AlertTenants : u # t => records'[u] = records[u]
    BY <1>5, <2>1, <2>2
  <2>5. \A b \in Events : Admitted(b)' => b = a \/ Admitted(b)
    BY <1>1 DEF Admitted
  <2>6. DOMAIN Q \subseteq Events /\ \A b \in DOMAIN Q : Q[b] \in 0..clock
    <3>1. clock \in 0..clock
      BY DEF TimeInv
    <3> QED BY <1>4, <1>5, <2>3, <3>1
  <2>7. ASSUME NEW b \in Events, Admitted(b)', handledAt'[b] + RateWindow > clock
        PROVE  b \in DOMAIN records'[Alerts[b].tenant] /\ records'[Alerts[b].tenant][b] = handledAt'[b]
    <3>1. CASE b = a
      BY <1>1, <1>2, <2>3, <2>4, <3>1
    <3>2. CASE b # a
      <4>1. PICK u \in AlertTenants : u = Alerts[b].tenant
        BY DEF AlertTenants
      <4>2. b \in DOMAIN records[u] /\ records[u][b] = handledAt[b] /\ handledAt'[b] = handledAt[b]
        BY <1>1, <2>5, <2>7, <3>2, <4>1 DEF RateInv
      <4>3. CASE u = t
        BY <1>4, <2>3, <2>4, <2>7, <3>2, <4>1, <4>2, <4>3
      <4>4. CASE u # t
        BY <2>4, <4>1, <4>2, <4>4
      <4> QED BY <4>3, <4>4
    <3> QED BY <3>1, <3>2
  <2>8. ASSUME NEW u \in AlertTenants, NEW s \in Nat PROVE Cardinality(Window(u, s)') <= RateLimit
    <3>1. PICK W : W = Window(u, s)
      OBVIOUS
    <3>2. PICK V : V = Window(u, s)'
      OBVIOUS
    <3>3. W \in SUBSET Events /\ V \in SUBSET (W \cup {a})
      BY <1>1, <2>5, <3>1, <3>2 DEF Window
    <3>4. IsFiniteSet(W) /\ Cardinality(W) \in Nat /\ Cardinality(W) <= RateLimit
      BY <3>1, <3>3, FS_Subset, FS_CardinalityType DEF Events, RateInv
    <3>5. CASE a \notin V
      <4>1. V \in SUBSET W
        BY <3>3, <3>5
      <4>2. IsFiniteSet(V) /\ Cardinality(V) <= Cardinality(W)
        BY <3>4, <4>1, FS_Subset
      <4>3. Cardinality(V) \in Nat
        BY <4>2, FS_CardinalityType
      <4> QED BY <3>2, <3>4, <4>2, <4>3
    <3>6. CASE a \in V
      <4>1. u = t /\ s <= clock /\ clock < s + RateWindow
        BY <1>1, <1>2, <3>2, <3>6 DEF Window, TimeInv
      <4>2. ASSUME NEW b \in W \ {a} PROVE b \in DOMAIN R
        <5>1. b \in Events /\ Alerts[b].tenant = t /\ Admitted(b) /\ handledAt[b] \in Nat /\ handledAt[b] >= s
          BY <3>1, <4>1 DEF Window, TimeInv
        <5>2. handledAt[b] + RateWindow > clock
          BY <4>1, <5>1 DEF TimeInv
        <5>3. b \in DOMAIN records[t] /\ records[t][b] = handledAt[b]
          BY <5>1, <5>2 DEF RateInv
        <5> QED BY <1>4, <5>2, <5>3
      <4>3. PICK D : D = DOMAIN R
        OBVIOUS
      <4>4. IsFiniteSet(D) /\ Cardinality(D) \in Nat /\ Cardinality(D) < RateLimit /\ V \in SUBSET (D \cup {a})
        BY <1>3, <1>4, <2>1, <3>3, <4>2, <4>3, FS_CardinalityType DEF RateAllows
      <4>5. /\ IsFiniteSet(D \cup {a})
            /\ Cardinality(D \cup {a}) = Cardinality(D) \/ Cardinality(D \cup {a}) = Cardinality(D) + 1
        BY <4>4, FS_AddElement
      <4>6. IsFiniteSet(V) /\ Cardinality(V) <= Cardinality(D \cup {a})
        BY <4>4, <4>5, FS_Subset
      <4>7. Cardinality(V) \in Nat
        BY <4>6, FS_CardinalityType
      <4> QED BY <3>2, <4>4, <4>5, <4>6, <4>7
    <3> QED BY <3>5, <3>6
  <2>9. \A u \in AlertTenants : /\ DOMAIN records'[u] \subseteq Events
                               /\ \A b \in DOMAIN records'[u] : records'[u][b] \in 0..clock
    BY <1>5, <2>4, <2>6
  <2> QED BY <1>1, <2>4, <2>7, <2>8, <2>9 DEF RateInv
<1> QED BY <1>1, <1>6, <1>7

\* Alerts are suppressed, and taken on again, by the time of the last.
LEMMA DedupDispatch ==
  ASSUME TimeInv, DedupInv, NEW a \in Events, dispatch(a)
  PROVE  DedupInv'
<1> USE AlertsAssumption, LimitsAssumption
<1>1. /\ phase[a] = "published" /\ handledAt'[a] = clock /\ clock' = clock /\ TimeInv'
      /\ phase'[a] \in {"ignored", "limited", "suppressed", "sending"}
      /\ \A b \in Events : b # a => phase'[b] = phase[b] /\ handledAt'[b] = handledAt[b]
  BY DispatchFacts
<1>2. \A b \in Events : Taken(b) => b # a /\ Taken(b)' /\ handledAt'[b] = handledAt[b]
  BY <1>1 DEF Taken
<1>3. \A b \in Events : Taken(b)' => Taken(b) \/ (b = a /\ phase'[a] = "sending")
  BY <1>1 DEF Taken
<1>4. \A b \in Events : handledAt[b] \in Nat /\ handledAt[b] <= clock /\ clock \in Nat
  BY DEF TimeInv
<1>5. \A b \in Events : b # a /\ DedupKey(b) = DedupKey(a) <=> Same(a, b)
  BY DEF DedupKey, Same
<1>6. /\ DOMAIN Unexpired \subseteq DOMAIN cache
      /\ \A k \in DOMAIN Unexpired : Unexpired[k] = cache[k] /\ ~(cache[k] <= clock)
      /\ \A k \in DOMAIN cache : ~(cache[k] <= clock) => k \in DOMAIN Unexpired
  BY DEF Unexpired, Drop
<1>7. \A k \in DOMAIN cache : cache[k] \in Nat
  BY <1>4 DEF DedupInv
<1>8. ASSUME NEW x \in Events, NEW y \in Events, Taken(x)', Taken(y)', Same(x, y), Deduplicates(x)
      PROVE  handledAt'[x] + DedupWindow <= handledAt'[y] \/ handledAt'[y] + DedupWindow <= handledAt'[x]
  <2>1. CASE Taken(x) /\ Taken(y)
    BY <1>2, <1>8, <2>1 DEF DedupInv, SuppressesExactlyRepeats, Taken
  <2>2. ASSUME NEW z \in Events, Taken(z), Same(a, z), Deduplicates(z), phase'[a] = "sending"
        PROVE  handledAt'[z] + DedupWindow <= handledAt'[a]
    <3>1. DedupKey(z) = DedupKey(a) /\ Deduplicates(a)
      BY <1>5, <2>2 DEF Same, Deduplicates
    <3>2. DedupKey(a) \notin DOMAIN Unexpired
      BY <2>2, <3>1, DispatchFacts DEF StartSending, IsDuplicate
    <3>3. PICK k : k = DedupKey(a)
      OBVIOUS
    <3>4. ~(k \in DOMAIN cache /\ cache[k] >= handledAt[z] + DedupWindow /\ handledAt[z] + DedupWindow > clock)
      BY <1>4, <1>6, <1>7, <3>2, <3>3
    <3>5. ~(handledAt[z] + DedupWindow > clock)
      BY <2>2, <3>1, <3>3, <3>4 DEF DedupInv
    <3> QED BY <1>1, <1>2, <1>4, <2>2, <3>5
  <2>3. CASE x = a
    <3>1. Taken(y) /\ Deduplicates(y) /\ phase'[a] = "sending"
      BY <1>1, <1>3, <1>8, <2>3 DEF Same, Deduplicates, Taken
    <3> QED BY <1>8, <2>2, <2>3, <3>1
  <2>4. CASE y = a
    <3>1. Taken(x) /\ phase'[a] = "sending" /\ Same(a, x)
      BY <1>1, <1>3, <1>8, <2>4 DEF Same, Taken
    <3> QED BY <1>8, <2>2, <2>4, <3>1
  <2> QED BY <1>3, <1>8, <2>1, <2>3, <2>4
<1>9. ASSUME NEW x \in Events, phase'[x] = "suppressed"
      PROVE  \E b \in Events : /\ Same(x, b) /\ Taken(b)'
                               /\ handledAt'[b] <= handledAt'[x] /\ handledAt'[x] < handledAt'[b] + DedupWindow
  <2>1. CASE x = a
    <3>1. PICK k : k = DedupKey(a) /\ k \in DOMAIN Unexpired
      BY <1>9, <2>1, DispatchFacts DEF SuppressAlert, IsDuplicate
    <3>2. PICK b \in Events : DedupKey(b) = k /\ Taken(b) /\ cache[k] = handledAt[b] + DedupWindow
      BY <1>6, <3>1 DEF DedupInv
    <3>3. b # a /\ Same(a, b) /\ Taken(b)' /\ handledAt'[b] = handledAt[b]
      BY <1>2, <1>5, <3>1, <3>2
    <3>4. handledAt[b] <= clock /\ clock < handledAt[b] + DedupWindow
      BY <1>4, <1>6, <3>1, <3>2
    <3> QED BY <1>1, <2>1, <3>3, <3>4
  <2>2. CASE x # a
    <3>1. PICK b \in Events : /\ Same(x, b) /\ phase[b] \in {"sending", "done"}
                              /\ handledAt[b] <= handledAt[x] /\ handledAt[x] < handledAt[b] + DedupWindow
      BY <1>1, <1>9, <2>2 DEF DedupInv, SuppressesExactlyRepeats
    <3> QED BY <1>1, <1>2, <2>2, <3>1 DEF Taken
  <2> QED BY <2>1, <2>2
<1>10. SuppressesExactlyRepeats'
  BY <1>8, <1>9 DEF SuppressesExactlyRepeats, Taken, Same, Deduplicates
<1>11. CASE phase'[a] # "sending" \/ ~Deduplicates(a)
  <2>1. cache' = cache \/ cache' = Unexpired
    BY <1>1, <1>11, DispatchFacts DEF Ignore, RateLimited, SuppressAlert, StartSending
  <2>2. /\ \A k \in DOMAIN cache' : k \in DOMAIN cache /\ cache'[k] = cache[k]
        /\ \A k \in DOMAIN cache : ~(cache[k] <= clock) => k \in DOMAIN cache' /\ cache'[k] = cache[k]
    BY <1>6, <2>1
  <2>3. \A k \in DOMAIN cache' : \E b \in Events : DedupKey(b) = k /\ Taken(b)' /\ cache'[k] = handledAt'[b] + DedupWindow
    BY <1>2, <2>2 DEF DedupInv
  <2>4. ASSUME NEW b \in Events, Taken(b)', Deduplicates(b), handledAt'[b] + DedupWindow > clock
        PROVE  DedupKey(b) \in DOMAIN cache' /\ cache'[DedupKey(b)] >= handledAt'[b] + DedupWindow
    <3>1. Taken(b) /\ handledAt'[b] = handledAt[b]
      BY <1>2, <1>3, <1>11, <2>4
    <3>2. PICK k : k = DedupKey(b)
      OBVIOUS
    <3>3. k \in DOMAIN cache /\ cache[k] >= handledAt[b] + DedupWindow
      BY <2>4, <3>1, <3>2 DEF DedupInv
    <3>4. ~(cache[k] <= clock)
      BY <1>4, <1>7, <2>4, <3>1, <3>3
    <3> QED BY <2>2, <3>1, <3>2, <3>3, <3>4
  <2> QED BY <1>1, <1>10, <2>3, <2>4 DEF DedupInv, Deduplicates, DedupKey
<1>12. CASE phase'[a] = "sending" /\ Deduplicates(a)
  <2>1. PICK q : q = DedupKey(a)
    OBVIOUS
  <2>2. cache' = Put(Unexpired, q, clock + DedupWindow) /\ q \notin DOMAIN Unexpired
    BY <1>12, <2>1, DispatchFacts DEF StartSending, IsDuplicate
  <2>3. /\ DOMAIN cache' = DOMAIN Unexpired \cup {q} /\ cache'[q] = clock + DedupWindow
        /\ \A k \in DOMAIN Unexpired : cache'[k] = cache[k]
    BY <1>6, <2>2 DEF Put
  <2>4. Taken(a)'
    BY <1>12 DEF Taken
  <2>5. \A k \in DOMAIN cache' : \E b \in Events : DedupKey(b) = k /\ Taken(b)' /\ cache'[k] = handledAt'[b] + DedupWindow
    <3> SUFFICES ASSUME NEW k \in DOMAIN cache'
                 PROVE  \E b \in Events : DedupKey(b) = k /\ Taken(b)' /\ cache'[k] = handledAt'[b] + DedupWindow
      OBVIOUS
    <3>1. CASE k = q
      BY <1>1, <2>1, <2>3, <2>4, <3>1
    <3>2. CASE k # q
      <4>1. k \in DOMAIN cache /\ cache'[k] = cache[k]
        BY <1>6, <2>3, <3>2
      <4>2. PICK b \in Events : DedupKey(b) = k /\ Taken(b) /\ cache[k] = handledAt[b] + DedupWindow
        BY <4>1 DEF DedupInv
      <4> QED BY <1>2, <4>1, <4>2
    <3> QED BY <3>1, <3>2
  <2>6. ASSUME NEW b \in Events, Taken(b)', Deduplicates(b), handledAt'[b] + DedupWindow > clock
        PROVE  DedupKey(b) \in DOMAIN cache' /\ cache'[DedupKey(b)] >= handledAt'[b] + DedupWindow
    <3>1. CASE b = a
      <4>1. clock + DedupWindow >= clock + DedupWindow
        BY <1>4
      <4> QED BY <1>1, <2>1, <2>3, <3>1, <4>1
    <3>2. CASE b # a
      <4>1. Taken(b) /\ handledAt'[b] = handledAt[b]
        BY <1>2, <1>3, <2>6, <3>2
      <4>2. PICK k : k = DedupKey(b)
        OBVIOUS
      <4>3. k \in DOMAIN cache /\ cache[k] >= handledAt[b] + DedupWindow
        BY <2>6, <4>1, <4>2 DEF DedupInv
      <4>4. k \in DOMAIN Unexpired
        BY <1>4, <1>6, <1>7, <2>6, <4>1, <4>3
      <4> QED BY <1>6, <2>3, <4>1, <4>2, <4>3, <4>4
    <3> QED BY <3>1, <3>2
  <2> QED BY <1>1, <1>10, <2>5, <2>6 DEF DedupInv, Deduplicates, DedupKey
<1> QED BY <1>11, <1>12

\* One alert moves to another phase.
LEMMA PhaseMoves ==
  ASSUME NEW a \in Events, NEW ps, \A b \in Events : b # a => phase'[b] = phase[b]
  PROVE  /\ IsFiniteSet(InPhase(ps)) /\ Cardinality(InPhase(ps)) \in Nat
         /\ phase[a] \notin ps /\ phase'[a] \in ps => Cardinality(InPhase(ps)') = Cardinality(InPhase(ps)) + 1
         /\ (phase[a] \in ps <=> phase'[a] \in ps) => InPhase(ps)' = InPhase(ps)
<1> USE AlertsAssumption
<1>1. PICK S : S = InPhase(ps)
  OBVIOUS
<1>2. S \in SUBSET Events
  BY <1>1 DEF InPhase
<1>3. IsFiniteSet(S) /\ Cardinality(S) \in Nat
  BY <1>2, FS_Subset, FS_CardinalityType DEF Events
<1>4. ASSUME phase[a] \notin ps, phase'[a] \in ps PROVE Cardinality(InPhase(ps)') = Cardinality(S) + 1
  <2>1. a \notin S /\ InPhase(ps)' = S \cup {a}
    BY <1>1, <1>4 DEF InPhase
  <2>2. Cardinality(S \cup {a}) = Cardinality(S) + 1
    BY <1>3, <2>1, FS_AddElement
  <2> QED BY <2>1, <2>2
<1>5. ASSUME phase[a] \in ps <=> phase'[a] \in ps PROVE InPhase(ps)' = S
  BY <1>1, <1>5 DEF InPhase
<1> QED BY <1>1, <1>3, <1>4, <1>5

\* The alerts that are done, and what came of their channels, are left alone.
LEMMA DoneUntouched ==
  ASSUME NEW a \in Events, phase[a] # "done", phase'[a] # "done", NEW s,
         \A b \in Events : b # a => phase'[b] = phase[b] /\ outcome'[b] = outcome[b]
  PROVE  DoneWith(s)' = DoneWith(s)
<1>1. InPhase({"done"})' = InPhase({"done"}) /\ \A b \in InPhase({"done"}) : b \in Events /\ b # a
  BY DEF InPhase
<1>2. \A b \in InPhase({"done"}) : {c \in Targets(b) : outcome'[b][c] = s} = {c \in Targets(b) : outcome[b][c] = s}
  BY <1>1
<1> QED BY <1>1, <1>2 DEF DoneWith, Having, Targets

LEMMA CountDispatch ==
  ASSUME TimeInv, CountInv, AnnounceInv, NEW a \in Events, dispatch(a)
  PROVE  CountInv' /\ AnnounceInv'
<1>1. /\ phase[a] = "published" /\ outcome' = outcome
      /\ phase'[a] \in {"ignored", "limited", "suppressed", "sending"}
      /\ \A b \in Events : b # a => phase'[b] = phase[b]
  BY DispatchFacts
<1>2. \A s : DoneWith(s)' = DoneWith(s)
  BY <1>1, DoneUntouched
<1>3. /\ phase'[a] = "ignored" => counts' = counts
      /\ phase'[a] = "limited" => counts' = [counts EXCEPT !.dispatched = counts.dispatched + 1, !.limited = counts.limited + 1]
      /\ phase'[a] = "suppressed" => counts' = [counts EXCEPT !.dispatched = counts.dispatched + 1, !.suppressed = counts.suppressed + 1]
      /\ phase'[a] = "sending" => counts' = [counts EXCEPT !.dispatched = counts.dispatched + 1]
  BY DispatchFacts DEF Ignore, RateLimited, SuppressAlert, StartSending
<1>4. PICK all : all = {"limited", "suppressed", "sending", "done"}
  OBVIOUS
<1>5. PICK lim : lim = {"limited"}
  OBVIOUS
<1>6. PICK sup : sup = {"suppressed"}
  OBVIOUS
<1>7. /\ counts \in [dispatched : Nat, delivered : Nat, failed : Nat, suppressed : Nat, limited : Nat]
      /\ counts.dispatched = Cardinality(InPhase(all)) /\ counts.limited = Cardinality(InPhase(lim))
      /\ counts.suppressed = Cardinality(InPhase(sup))
  BY <1>4, <1>5, <1>6 DEF CountInv
<1>8. /\ Cardinality(InPhase(all)') = IF phase'[a] = "ignored" THEN counts.dispatched ELSE counts.dispatched + 1
      /\ Cardinality(InPhase(lim)') = IF phase'[a] = "limited" THEN counts.limited + 1 ELSE counts.limited
      /\ Cardinality(InPhase(sup)') = IF phase'[a] = "suppressed" THEN counts.suppressed + 1 ELSE counts.suppressed
  BY <1>1, <1>4, <1>5, <1>6, <1>7, PhaseMoves
<1>9. /\ counts' \in [dispatched : Nat, delivered : Nat, failed : Nat, suppressed : Nat, limited : Nat]
      /\ counts'.dispatched = IF phase'[a] = "ignored" THEN counts.dispatched ELSE counts.dispatched + 1
      /\ counts'.limited = IF phase'[a] = "limited" THEN counts.limited + 1 ELSE counts.limited
      /\ counts'.suppressed = IF phase'[a] = "suppressed" THEN counts.suppressed + 1 ELSE counts.suppressed
      /\ counts'.delivered = counts.delivered /\ counts'.failed = counts.failed
  <2>1. PICK d \in Nat : d = counts.dispatched + 1
    BY <1>7
  <2>2. PICK l \in Nat : l = counts.limited + 1
    BY <1>7
  <2>3. PICK s \in Nat : s = counts.suppressed + 1
    BY <1>7
  <2>4. CASE phase'[a] = "ignored"
    BY <1>3, <1>7, <2>4
  <2>5. CASE phase'[a] = "limited"
    <3>1. counts' = [counts EXCEPT !.dispatched = d, !.limited = l]
      BY <1>3, <2>1, <2>2, <2>5
    <3> QED BY <1>7, <2>1, <2>2, <2>5, <3>1
  <2>6. CASE phase'[a] = "suppressed"
    <3>1. counts' = [counts EXCEPT !.dispatched = d, !.suppressed = s]
      BY <1>3, <2>1, <2>3, <2>6
    <3> QED BY <1>7, <2>1, <2>3, <2>6, <3>1
  <2>7. CASE phase'[a] = "sending"
    <3>1. counts' = [counts EXCEPT !.dispatched = d]
      BY <1>3, <2>1, <2>7
    <3> QED BY <1>7, <2>1, <2>7, <3>1
  <2> QED BY <1>1, <2>4, <2>5, <2>6, <2>7
<1>10. CountInv'
  BY <1>2, <1>4, <1>5, <1>6, <1>8, <1>9 DEF CountInv
<1>11. AnnounceInv'
  <2>1. /\ phase'[a] # "limited" => announced' = announced
        /\ phase'[a] = "limited" => announced' = announced \cup (IF Targets(a) = {} THEN {} ELSE {<<a, "failed">>})
    BY <1>1, DispatchFacts DEF Ignore, RateLimited, SuppressAlert, StartSending
  <2>2. \A x \in announced : x[1] # a /\ x[1] \in Events
    BY <1>1 DEF AnnounceInv
  <2>3. announced' \subseteq Events \X {"dispatched", "failed"} /\ \A x \in announced' : phase'[x[1]] \in {"limited", "done"}
    BY <1>1, <2>1, <2>2 DEF AnnounceInv
  <2>4. ASSUME NEW b \in Events, phase'[b] \in {"limited", "done"}
        PROVE  <<b, "failed">> \in announced' <=>
                 IF phase'[b] = "limited" THEN Targets(b) # {} ELSE {c \in Targets(b) : outcome'[b][c] = "FAILED"} # {}
    <3>1. CASE b = a
      <4>1. phase'[a] = "limited" /\ <<a, "failed">> \notin announced
        BY <1>1, <2>2, <2>4, <3>1
      <4> QED BY <2>1, <3>1, <4>1
    <3>2. CASE b # a
      <4>1. b \in InPhase({"limited", "done"}) /\ phase'[b] = phase[b]
        BY <1>1, <2>4, <3>2 DEF InPhase
      <4>2. <<b, "failed">> \in announced' <=> <<b, "failed">> \in announced
        BY <2>1, <3>2
      <4> QED BY <1>1, <4>1, <4>2 DEF AnnounceInv, Having
    <3> QED BY <3>1, <3>2
  <2> QED BY <2>3, <2>4 DEF AnnounceInv, InPhase, Having, Targets
<1> QED BY <1>10, <1>11

\* The answers of a channel: a delivery that reached somebody went to a URL.
LEMMA AnswerFacts ==
  ASSUME NEW a \in Events, NEW c \in Targets(a), NEW ans \in Answers(a, c)
  PROVE  \/ ans = <<"DELIVERED", TRUE>> /\ Route[Alerts[a].tenant][c] = "url"
         \/ ans = <<"DELIVERED", FALSE>> /\ Route[Alerts[a].tenant][c] # "url"
         \/ ans = <<"FAILED", TRUE>> \/ ans = <<"FAILED", FALSE>> \/ ans = <<"SKIPPED", FALSE>>
<1>1. PICK route : route = Route[Alerts[a].tenant][c]
  OBVIOUS
<1>2. /\ c \in {"slack", "teams", "webhook", "email"}
      /\ route \in {"none", "url"} \/ (c = "webhook" /\ route = "refused") \/ (c = "email" /\ route = "simulated")
  BY <1>1, ChannelsAssumption DEF Events, Targets
<1>3. CASE c = "slack"
  BY <1>1, <1>2, <1>3 DEF Answers, SlackAnswers, Posted, Skipped
<1>4. CASE c = "teams"
  BY <1>1, <1>2, <1>4 DEF Answers, TeamsAnswers, Posted, Skipped
<1>5. CASE c = "webhook"
  BY <1>1, <1>2, <1>5 DEF Answers, WebhookAnswers, Posted, Skipped
<1>6. CASE c = "email"
  BY <1>1, <1>2, <1>6 DEF Answers, EmailAnswers, Posted, Skipped
<1> QED BY <1>2, <1>3, <1>4, <1>5, <1>6

\* An attempt adds its copy, its answer and perhaps its loss, on one channel.
LEMMA AttemptKeeps ==
  ASSUME TimeInv, CopyInv, NEW a \in Events, NEW c \in Targets(a), Attempt(a, c)
  PROVE  CopyInv' /\ phase[a] = "sending" /\ \A b \in Events : b # a => outcome'[b] = outcome[b]
<1> USE LimitsAssumption
<1>1. PICK ans \in Answers(a, c) :
        /\ lost' = lost \cup (IF ans = <<"FAILED", TRUE>> THEN {<<a, c, tries[a][c] + 1>>} ELSE {})
        /\ outcome' = [outcome EXCEPT ![a][c] = ans[1]]
        /\ copies' = IF ans[2]
                     THEN [copies EXCEPT ![a][c] = copies[a][c] \cup
                             {[nth |-> tries[a][c] + 1, secrets |-> sanitize_payload(Alerts[a].secrets)]}]
                     ELSE copies
  BY DEF Attempt
<1>2. phase[a] = "sending" /\ ~Settled(a, c) /\ tries' = [tries EXCEPT ![a][c] = tries[a][c] + 1]
  BY DEF Attempt
<1>3. PICK n \in Nat : n = tries[a][c] + 1
  BY DEF CopyInv, ChannelInv
<1>4. tries[a][c] \in Nat /\ n <= MaxSends /\ outcome[a][c] \notin {"DELIVERED", "SKIPPED"}
  <2>1. tries[a][c] \in 0..MaxSends
    BY DEF CopyInv, ChannelInv
  <2>2. tries[a][c] # MaxSends /\ outcome[a][c] \notin {"DELIVERED", "SKIPPED"}
    BY <1>2 DEF Settled
  <2> QED BY <1>3, <2>1, <2>2
<1>5. PICK new : new = [nth |-> n, secrets |-> sanitize_payload(Alerts[a].secrets)]
  OBVIOUS
<1>6. new.nth = n /\ new.secrets \cap {"credential", "sensitive_key"} = {}
  BY <1>5 DEF sanitize_payload
<1>7. PICK st : st = ans[1]
  OBVIOUS
<1>8. PICK K : K = (IF ans[2] THEN {new} ELSE {})
  OBVIOUS
<1>9. PICK L : L = (IF ans = <<"FAILED", TRUE>> THEN {<<a, c, n>>} ELSE {})
  OBVIOUS
<1>10. /\ DOMAIN tries' = Events /\ DOMAIN outcome' = Events /\ DOMAIN copies' = Events
       /\ \A b \in Events : b # a => tries'[b] = tries[b] /\ outcome'[b] = outcome[b] /\ copies'[b] = copies[b]
       /\ DOMAIN tries'[a] = Targets(a) /\ DOMAIN outcome'[a] = Targets(a) /\ DOMAIN copies'[a] = Targets(a)
  BY <1>1, <1>2 DEF CopyInv
<1>11. \A d \in Targets(a) : d # c => tries'[a][d] = tries[a][d] /\ outcome'[a][d] = outcome[a][d] /\ copies'[a][d] = copies[a][d]
  BY <1>1, <1>2 DEF CopyInv
<1>12. tries'[a][c] = n /\ outcome'[a][c] = st
  BY <1>1, <1>2, <1>3, <1>7 DEF CopyInv
<1>13. copies'[a][c] = copies[a][c] \cup K
  BY <1>1, <1>3, <1>5, <1>8 DEF CopyInv
<1>14. lost' = lost \cup L
  BY <1>1, <1>3, <1>9
<1>15. \/ st = "DELIVERED" /\ Route[Alerts[a].tenant][c] = "url" /\ K = {new} /\ L = {}
       \/ st = "DELIVERED" /\ Route[Alerts[a].tenant][c] # "url" /\ K = {} /\ L = {}
       \/ st = "FAILED" /\ K = {new} /\ L = {<<a, c, n>>}
       \/ st \in {"FAILED", "SKIPPED"} /\ K = {} /\ L = {}
  <2>0. \/ ans = <<"DELIVERED", TRUE>> /\ Route[Alerts[a].tenant][c] = "url"
        \/ ans = <<"DELIVERED", FALSE>> /\ Route[Alerts[a].tenant][c] # "url"
        \/ ans = <<"FAILED", TRUE>> \/ ans = <<"FAILED", FALSE>> \/ ans = <<"SKIPPED", FALSE>>
    BY AnswerFacts
  <2>1. CASE ans = <<"DELIVERED", TRUE>> /\ Route[Alerts[a].tenant][c] = "url"
    <3>1. ans[1] = "DELIVERED" /\ ans[2] = TRUE /\ ans # <<"FAILED", TRUE>>
      BY <2>1
    <3> QED BY <1>7, <1>8, <1>9, <2>1, <3>1
  <2>2. CASE ans = <<"DELIVERED", FALSE>> /\ Route[Alerts[a].tenant][c] # "url"
    <3>1. ans[1] = "DELIVERED" /\ ans[2] = FALSE /\ ans # <<"FAILED", TRUE>>
      BY <2>2
    <3> QED BY <1>7, <1>8, <1>9, <2>2, <3>1
  <2>3. CASE ans = <<"FAILED", TRUE>>
    <3>1. ans[1] = "FAILED" /\ ans[2] = TRUE
      BY <2>3
    <3> QED BY <1>7, <1>8, <1>9, <2>3, <3>1
  <2>4. CASE ans = <<"FAILED", FALSE>>
    <3>1. ans[1] = "FAILED" /\ ans[2] = FALSE /\ ans # <<"FAILED", TRUE>>
      BY <2>4
    <3> QED BY <1>7, <1>8, <1>9, <3>1
  <2>5. CASE ans = <<"SKIPPED", FALSE>>
    <3>1. ans[1] = "SKIPPED" /\ ans[2] = FALSE /\ ans # <<"FAILED", TRUE>>
      BY <2>5
    <3> QED BY <1>7, <1>8, <1>9, <3>1
  <2> QED BY <2>0, <2>1, <2>2, <2>3, <2>4, <2>5
<1>16. ASSUME NEW b \in Events, NEW d \in Targets(b), b # a \/ d # c PROVE ChannelInv(b, d)'
  <2>1. tries'[b][d] = tries[b][d] /\ outcome'[b][d] = outcome[b][d] /\ copies'[b][d] = copies[b][d]
    BY <1>10, <1>11, <1>16
  <2>2. \A k : <<b, d, k>> \in lost' <=> <<b, d, k>> \in lost
    BY <1>14, <1>15, <1>16
  <2>3. ChannelInv(b, d)
    BY DEF CopyInv
  <2> QED BY <2>1, <2>2, <2>3 DEF ChannelInv, LostOn, Answered
<1>17. ChannelInv(a, c)'
  <2>0. ChannelInv(a, c)
    BY DEF CopyInv
  <2>1. \A k \in Nat : <<a, c, k>> \in lost' <=> <<a, c, k>> \in lost \/ (k = n /\ L # {})
    BY <1>14, <1>15
  <2>2. PICK O : O = LostOn(a, c)
    OBVIOUS
  <2>3. n \notin O /\ {copy.nth : copy \in copies[a][c]} = O
    BY <1>3, <1>4, <2>0, <2>2 DEF ChannelInv, LostOn, Answered
  <2>4. LostOn(a, c)' = O \cup (IF L # {} THEN {n} ELSE {})
    <3>1. \A k \in Nat : k \in 1..n <=> k = n \/ k \in 1..tries[a][c]
      BY <1>3, <1>4
    <3>2. \A k \in Nat : <<a, c, k>> \in lost => k \in 1..tries[a][c]
      BY <2>0 DEF ChannelInv
    <3> QED BY <1>3, <1>4, <1>12, <2>1, <2>2, <3>1, <3>2 DEF LostOn
  <2>5. Answered(a, c)' = IF st = "DELIVERED" /\ Route[Alerts[a].tenant][c] = "url" THEN {n} ELSE {}
    BY <1>12 DEF Answered
  <2>6. {copy.nth : copy \in copies'[a][c]} = O \cup {copy.nth : copy \in K}
    BY <1>13, <2>3
  <2>7. {copy.nth : copy \in K} = IF K = {} THEN {} ELSE {n}
    BY <1>6, <1>15
  <2>8. {copy.nth : copy \in copies'[a][c]} = LostOn(a, c)' \cup Answered(a, c)'
    BY <1>15, <2>4, <2>5, <2>6, <2>7
  <2>9. \A copy \in copies'[a][c] : copy.secrets \cap {"credential", "sensitive_key"} = {}
    BY <1>6, <1>13, <1>15, <2>0 DEF ChannelInv
  <2>10. n \in 0..MaxSends /\ st \in {"PENDING", "DELIVERED", "FAILED", "SKIPPED"}
    BY <1>4, <1>15
  <2>11. \A k \in Nat : <<a, c, k>> \in lost' => k \in 1..n
    BY <1>3, <1>4, <2>0, <2>1 DEF ChannelInv
  <2> QED BY <1>12, <2>8, <2>9, <2>10, <2>11 DEF ChannelInv
<1>18. CopyInv'
  BY <1>10, <1>16, <1>17 DEF CopyInv, Targets
<1> QED BY <1>2, <1>10, <1>18

LEMMA RateUntouched ==
  ASSUME TimeInv, RateInv, DedupInv, UNCHANGED <<clock, handledAt, records, cache>>,
         \A a \in Events : phase'[a] = phase[a] \/ (phase[a] = "sending" /\ phase'[a] = "done"),
         phase' \in [Events -> Phases]
  PROVE  TimeInv' /\ RateInv' /\ DedupInv'
<1>1. TimeInv'
  BY DEF TimeInv
<1>2. \A a \in Events : (Admitted(a)' <=> Admitted(a)) /\ (Taken(a)' <=> Taken(a))
                        /\ (phase'[a] = "suppressed" <=> phase[a] = "suppressed")
  BY DEF Admitted, Taken
<1>3. \A t, s : Window(t, s)' = Window(t, s)
  BY <1>2 DEF Window
<1>4. RateInv'
  BY <1>2, <1>3 DEF RateInv
<1>5. SuppressesExactlyRepeats'
  BY <1>2 DEF DedupInv, SuppressesExactlyRepeats, Taken, Same, Deduplicates
<1>6. DedupInv'
  BY <1>2, <1>5 DEF DedupInv, DedupKey, Deduplicates
<1> QED BY <1>1, <1>4, <1>6

LEMMA AttemptStep ==
  ASSUME NotifyInv, NEW a \in Events, NEW c \in Targets(a), Attempt(a, c)
  PROVE  NotifyInv'
<1>1. CopyInv' /\ phase[a] = "sending" /\ \A b \in Events : b # a => outcome'[b] = outcome[b]
  BY AttemptKeeps DEF NotifyInv
<1>2. UNCHANGED <<clock, phase, handledAt, records, cache, counts, announced>>
  BY DEF Attempt
<1>3. TimeInv' /\ RateInv' /\ DedupInv'
  BY <1>2, RateUntouched DEF NotifyInv, TimeInv
<1>4. \A s : DoneWith(s)' = DoneWith(s)
  BY <1>1, <1>2, DoneUntouched
<1>5. CountInv'
  BY <1>2, <1>4 DEF NotifyInv, CountInv, InPhase
<1>6. AnnounceInv'
  <2>1. \A b \in InPhase({"limited", "done"}) : b \in Events /\ outcome'[b] = outcome[b]
    BY <1>1 DEF InPhase
  <2> QED BY <1>2, <2>1 DEF NotifyInv, AnnounceInv, InPhase, Having, Targets
<1> QED BY <1>1, <1>3, <1>5, <1>6 DEF NotifyInv

\* So many pairs come in as there are second members.
PairsOf(a, H) == {<<a, c>> : c \in H}
LEMMA PairsCounted ==
  ASSUME NEW D, IsFiniteSet(D), NEW H, IsFiniteSet(H), NEW a, \A c : <<a, c>> \notin D,
         NEW P, P = PairsOf(a, H)
  PROVE  IsFiniteSet(D \cup P) /\ Cardinality(D \cup P) = Cardinality(D) + Cardinality(H)
<1>1. P = {<<a, c>> : c \in H}
  BY DEF PairsOf
<1>2. PICK f : f = [c \in H |-> <<a, c>>]
  OBVIOUS
<1>3. f \in Bijection(H, P)
  BY <1>1, <1>2 DEF Bijection, Injection, IsInjective, Surjection
<1>4. ExistsBijection(H, P)
  BY <1>3 DEF ExistsBijection
<1>5. IsFiniteSet(P) /\ Cardinality(P) = Cardinality(H)
  BY <1>4, FS_Bijection
<1>6. D \cap P = {}
  BY <1>1
<1>7. /\ IsFiniteSet(D \cup P)
      /\ Cardinality(D \cup P) = Cardinality(D) + Cardinality(P) - Cardinality(D \cap P)
  BY <1>5, FS_Union
<1>8. Cardinality(D) \in Nat /\ Cardinality(P) \in Nat /\ Cardinality(D \cap P) = 0
  BY <1>5, <1>6, FS_CardinalityType, FS_EmptySet
<1> QED BY <1>1, <1>5, <1>7, <1>8

\* The summary of an alert: its channels are counted once.
LEMMA AggregateStep ==
  ASSUME NotifyInv, NEW a \in Events, Aggregate(a)
  PROVE  NotifyInv'
<1>1. /\ phase[a] = "sending" /\ phase' = [phase EXCEPT ![a] = "done"]
      /\ UNCHANGED <<clock, handledAt, records, cache, tries, outcome, copies, lost>>
  BY DEF Aggregate
<1>2. PICK nd : nd = Cardinality(Having(a, "DELIVERED"))
  OBVIOUS
<1>3. PICK nf : nf = Cardinality(Having(a, "FAILED"))
  OBVIOUS
<1>4. counts' = [counts EXCEPT !.delivered = counts.delivered + nd, !.failed = counts.failed + nf]
  BY <1>2, <1>3 DEF Aggregate
<1>5. announced' = announced \cup (IF Having(a, "DELIVERED") = {} THEN {} ELSE {<<a, "dispatched">>})
                     \cup (IF Having(a, "FAILED") = {} THEN {} ELSE {<<a, "failed">>})
  BY DEF Aggregate
<1>6. phase'[a] = "done" /\ (\A b \in Events : b # a => phase'[b] = phase[b]) /\ phase' \in [Events -> Phases]
  BY <1>1 DEF NotifyInv, TimeInv, Phases
<1>7. TimeInv' /\ RateInv' /\ DedupInv'
  BY <1>1, <1>6, RateUntouched DEF NotifyInv
<1>8. CopyInv'
  BY <1>1 DEF NotifyInv, CopyInv, ChannelInv, LostOn, Answered, Targets
<1>9. ASSUME NEW s PROVE /\ IsFiniteSet(Having(a, s)) /\ Cardinality(Having(a, s)) \in Nat
                         /\ IsFiniteSet(DoneWith(s)) => /\ IsFiniteSet(DoneWith(s)')
                                                        /\ Cardinality(DoneWith(s)') = Cardinality(DoneWith(s)) + Cardinality(Having(a, s))
  <2>1. PICK H : H = Having(a, s)
    OBVIOUS
  <2>2. PICK T : T = {"slack", "teams", "webhook", "email"}
    OBVIOUS
  <2>3. IsFiniteSet(T)
    <3>1. IsFiniteSet({"slack"})
      BY FS_Singleton
    <3>2. IsFiniteSet({"slack"} \cup {"teams"})
      BY <3>1, FS_AddElement
    <3>3. IsFiniteSet(({"slack"} \cup {"teams"}) \cup {"webhook"})
      BY <3>2, FS_AddElement
    <3>4. IsFiniteSet((({"slack"} \cup {"teams"}) \cup {"webhook"}) \cup {"email"})
      BY <3>3, FS_AddElement
    <3>5. T = (({"slack"} \cup {"teams"}) \cup {"webhook"}) \cup {"email"}
      BY <2>2
    <3> QED BY <3>4, <3>5
  <2>4. H \in SUBSET T
    BY <2>1, <2>2, ChannelsAssumption DEF Having, Targets, Events
  <2>5. IsFiniteSet(H) /\ Cardinality(H) \in Nat
    BY <2>3, <2>4, FS_Subset, FS_CardinalityType
  <2>6. PICK D : D = DoneWith(s)
    OBVIOUS
  <2>7. \A c : <<a, c>> \notin D
    BY <1>1, <2>6 DEF DoneWith, InPhase
  <2>p. PICK P : P = PairsOf(a, H)
    OBVIOUS
  <2>8. DoneWith(s)' = D \cup P
    <3>1. InPhase({"done"})' = InPhase({"done"}) \cup {a}
      BY <1>6 DEF InPhase
    <3>2. \A b : Having(b, s)' = Having(b, s)
      BY <1>1 DEF Having, Targets
    <3> QED BY <2>1, <2>6, <2>p, <3>1, <3>2 DEF DoneWith, PairsOf
  <2>9. IsFiniteSet(D) => IsFiniteSet(D \cup P) /\ Cardinality(D \cup P) = Cardinality(D) + Cardinality(H)
    <3> SUFFICES ASSUME IsFiniteSet(D)
                 PROVE  IsFiniteSet(D \cup P) /\ Cardinality(D \cup P) = Cardinality(D) + Cardinality(H)
      OBVIOUS
    <3>1. IsFiniteSet(H)
      BY <2>5
    <3> QED BY <2>7, <2>p, <3>1, PairsCounted, Zenon
  <2> QED BY <2>1, <2>5, <2>6, <2>8, <2>9
<1>10. CountInv'
  <2>1. /\ counts \in [dispatched : Nat, delivered : Nat, failed : Nat, suppressed : Nat, limited : Nat]
        /\ IsFiniteSet(DoneWith("DELIVERED")) /\ counts.delivered = Cardinality(DoneWith("DELIVERED"))
        /\ IsFiniteSet(DoneWith("FAILED")) /\ counts.failed = Cardinality(DoneWith("FAILED"))
    BY DEF NotifyInv, CountInv
  <2>2. PICK d \in Nat : d = counts.delivered + nd
    BY <1>2, <1>9, <2>1
  <2>3. PICK f \in Nat : f = counts.failed + nf
    BY <1>3, <1>9, <2>1
  <2>4. counts' = [counts EXCEPT !.delivered = d, !.failed = f]
    BY <1>4, <2>2, <2>3
  <2>5. /\ counts' \in [dispatched : Nat, delivered : Nat, failed : Nat, suppressed : Nat, limited : Nat]
        /\ counts'.delivered = d /\ counts'.failed = f /\ counts'.dispatched = counts.dispatched
        /\ counts'.limited = counts.limited /\ counts'.suppressed = counts.suppressed
    BY <2>1, <2>4
  <2>6. /\ IsFiniteSet(DoneWith("DELIVERED")') /\ Cardinality(DoneWith("DELIVERED")') = d
        /\ IsFiniteSet(DoneWith("FAILED")') /\ Cardinality(DoneWith("FAILED")') = f
    BY <1>2, <1>3, <1>9, <2>1, <2>2, <2>3
  <2>7. /\ InPhase({"limited", "suppressed", "sending", "done"})' = InPhase({"limited", "suppressed", "sending", "done"})
        /\ InPhase({"limited"})' = InPhase({"limited"}) /\ InPhase({"suppressed"})' = InPhase({"suppressed"})
    BY <1>1, <1>6 DEF InPhase
  <2> QED BY <2>5, <2>6, <2>7 DEF NotifyInv, CountInv
<1>11. AnnounceInv'
  <2>1. \A x \in announced : x[1] # a /\ x[1] \in Events
    BY <1>1 DEF NotifyInv, AnnounceInv
  <2>2. announced' \subseteq Events \X {"dispatched", "failed"} /\ \A x \in announced' : phase'[x[1]] \in {"limited", "done"}
    BY <1>5, <1>6, <2>1 DEF NotifyInv, AnnounceInv
  <2>3. ASSUME NEW b \in Events, phase'[b] \in {"limited", "done"}
        PROVE  <<b, "failed">> \in announced' <=>
                 IF phase'[b] = "limited" THEN Targets(b) # {} ELSE Having(b, "FAILED") # {}
    <3>1. CASE b = a
      BY <1>5, <1>6, <2>1, <3>1
    <3>2. CASE b # a
      <4>1. b \in InPhase({"limited", "done"}) /\ phase'[b] = phase[b]
        BY <1>6, <2>3, <3>2 DEF InPhase
      <4>2. <<b, "failed">> \in announced' <=> <<b, "failed">> \in announced
        BY <1>5, <3>2
      <4> QED BY <4>1, <4>2 DEF NotifyInv, AnnounceInv
    <3> QED BY <3>1, <3>2
  <2> QED BY <1>1, <2>2, <2>3 DEF AnnounceInv, InPhase, Having, Targets
<1> QED BY <1>7, <1>8, <1>10, <1>11 DEF NotifyInv

LEMMA TickStep == ASSUME NotifyInv, NotifyTick PROVE NotifyInv'
<1> USE LimitsAssumption, AlertsAssumption
<1>1. clock' = clock + 1 /\ UNCHANGED <<phase, handledAt, records, cache, tries, outcome, copies, lost, counts, announced>>
  BY DEF NotifyTick
<1>2. clock \in Nat /\ \A a \in Events : handledAt[a] \in Nat
  BY DEF NotifyInv, TimeInv
<1>3. TimeInv'
  BY <1>1 DEF NotifyInv, TimeInv
<1>4. \A t, s : Window(t, s)' = Window(t, s)
  BY <1>1 DEF Window, Admitted
<1>5. \A a \in Events : handledAt[a] + RateWindow > clock + 1 => handledAt[a] + RateWindow > clock
  BY <1>2
<1>6. \A a \in Events : handledAt[a] + DedupWindow > clock + 1 => handledAt[a] + DedupWindow > clock
  BY <1>2
<1>7. RateInv'
  <2>1. \A x \in 0..clock : x \in 0..(clock + 1)
    BY <1>2
  <2> QED BY <1>1, <1>4, <1>5, <2>1 DEF NotifyInv, RateInv, Admitted
<1>8. DedupInv'
  BY <1>1, <1>6 DEF NotifyInv, DedupInv, Taken, DedupKey, Deduplicates, SuppressesExactlyRepeats, Same
<1>9. CopyInv'
  BY <1>1 DEF NotifyInv, CopyInv, ChannelInv, LostOn, Answered, Targets
<1>10. AnnounceInv'
  BY <1>1 DEF NotifyInv, AnnounceInv, InPhase, Having, Targets
<1>11. CountInv'
  BY <1>1 DEF NotifyInv, CountInv, InPhase, DoneWith, Having, Targets
<1> QED BY <1>3, <1>7, <1>8, <1>9, <1>10, <1>11 DEF NotifyInv

LEMMA NotifyInitially == NotifyInit => NotifyInv
<1> SUFFICES ASSUME NotifyInit PROVE NotifyInv
  OBVIOUS
<1> USE LimitsAssumption, AlertsAssumption
<1>1. PICK S : phase = [a \in Events |-> IF a \in S THEN "published" ELSE "absent"]
  BY DEF NotifyInit
<1>2. \A a \in Events : phase[a] \in {"published", "absent"}
  BY <1>1
<1>3. TimeInv
  BY <1>1 DEF NotifyInit, TimeInv, Phases
<1>4. DOMAIN EmptyDict = {}
  BY DEF EmptyDict
<1>5. RateInv
  <2>1. \A t, s : Window(t, s) = {}
    BY <1>2 DEF Window, Admitted
  <2>2. \A t \in AlertTenants : DOMAIN records[t] = {}
    BY <1>4 DEF NotifyInit
  <2>3. DOMAIN records = AlertTenants
    BY DEF NotifyInit
  <2>4. Cardinality({}) <= RateLimit
    BY FS_EmptySet
  <2>5. \A t, s : Cardinality(Window(t, s)) <= RateLimit
    BY <2>1, <2>4
  <2> QED BY <1>2, <2>2, <2>3, <2>5 DEF RateInv, Admitted
<1>6. DedupInv
  BY <1>2, <1>4 DEF NotifyInit, DedupInv, Taken, SuppressesExactlyRepeats
<1>7. CopyInv
  <2>1. /\ DOMAIN tries = Events /\ DOMAIN outcome = Events /\ DOMAIN copies = Events
        /\ \A a \in Events : DOMAIN tries[a] = Targets(a) /\ DOMAIN outcome[a] = Targets(a) /\ DOMAIN copies[a] = Targets(a)
    BY DEF NotifyInit, PerChannel
  <2>2. \A a \in Events : \A c \in Targets(a) : tries[a][c] = 0 /\ outcome[a][c] = "PENDING" /\ copies[a][c] = {}
    BY DEF NotifyInit, PerChannel
  <2>3. lost = {}
    BY DEF NotifyInit
  <2>4. \A a \in Events : \A c \in Targets(a) : ChannelInv(a, c)
    BY <2>2, <2>3 DEF ChannelInv, LostOn, Answered
  <2> QED BY <2>1, <2>4 DEF CopyInv
<1>8. AnnounceInv
  BY <1>2 DEF NotifyInit, AnnounceInv, InPhase
<1>9. CountInv
  <2>1. /\ InPhase({"limited", "suppressed", "sending", "done"}) = {} /\ InPhase({"limited"}) = {}
        /\ InPhase({"suppressed"}) = {} /\ InPhase({"done"}) = {}
    BY <1>2 DEF InPhase
  <2>2. \A s : DoneWith(s) = {}
    BY <2>1 DEF DoneWith
  <2> QED BY <2>1, <2>2, FS_EmptySet DEF NotifyInit, CountInv
<1> QED BY <1>3, <1>5, <1>6, <1>7, <1>8, <1>9 DEF NotifyInv

\* The notification engine (notifications/engine.py), for any alerts, tenants,
\* channels, limits and losses of answers: the rate limit holds in every window
\* of a tenant, exactly the repeats within the deduplication window are suppressed,
\* a receiver sees an alert again only for an answer that was lost, and counters
\* and announcements agree with what became of the alerts.
THEOREM NotifyCorrect == NotifySpec => []NotifySafe
<1>1. NotifyInit => NotifyInv
  BY NotifyInitially
<1>2. NotifyInv /\ [NotifyNext]_notifyVars => NotifyInv'
  <2> SUFFICES ASSUME NotifyInv, [NotifyNext]_notifyVars PROVE NotifyInv'
    OBVIOUS
  <2>1. ASSUME NEW a \in Events, dispatch(a) PROVE NotifyInv'
    <3>1. TimeInv' /\ UNCHANGED <<clock, tries, outcome, copies, lost>>
      BY <2>1, DispatchFacts DEF NotifyInv
    <3>2. CopyInv'
      BY <3>1 DEF NotifyInv, CopyInv, ChannelInv, LostOn, Answered, Targets
    <3> QED BY <2>1, <3>1, <3>2, RateDispatch, DedupDispatch, CountDispatch DEF NotifyInv
  <2>2. CASE UNCHANGED notifyVars
    <3>1. UNCHANGED <<clock, phase, handledAt, records, cache, tries, outcome, copies, lost, counts, announced>>
      BY <2>2 DEF notifyVars
    <3>2. TimeInv' /\ RateInv' /\ DedupInv'
      BY <3>1, RateUntouched DEF NotifyInv, TimeInv
    <3>3. CopyInv'
      BY <3>1 DEF NotifyInv, CopyInv, ChannelInv, LostOn, Answered, Targets
    <3>4. AnnounceInv'
      BY <3>1 DEF NotifyInv, AnnounceInv, InPhase, Having, Targets
    <3>5. CountInv'
      BY <3>1 DEF NotifyInv, CountInv, InPhase, DoneWith, Having, Targets
    <3> QED BY <3>2, <3>3, <3>4, <3>5 DEF NotifyInv
  <2> QED BY <2>1, <2>2, AttemptStep, AggregateStep, TickStep DEF NotifyNext
<1>3. NotifyInv => NotifySafe
  BY NotifyInvSuffices
<1> QED BY <1>1, <1>2, <1>3, PTL DEF NotifySpec
=============================================================================
