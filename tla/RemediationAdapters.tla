------------------------- MODULE RemediationAdapters ------------------------
(***************************************************************************)
(* The adapters that act on outside systems (remediation/adapters):        *)
(* MicrosoftGraphRemediationAdapter moves or deletes a message, and        *)
(* PaloAltoPANOSAdapter makes an address object.  Each call makes up to    *)
(* three attempts behind a circuit breaker; Graph also needs an access     *)
(* token, which is cached.  Remediation, which calls an adapter in one     *)
(* step, takes what a successful call means from here.                     *)
(*                                                                         *)
(* Calls are synchronous.  The service may act on a request whose answer   *)
(* is an error or is lost.  An attempt and the pause after it take at most *)
(* a tick.                                                                 *)
(***************************************************************************)
EXTENDS CircuitBreaker, Sequences, FiniteSets, Dict

CONSTANTS
  Orders,       \* the calls of execute_action: [adapter, action, message, target, dry]
  Adapters,     \* the adapters that have their credentials
  Addresses,    \* the targets with an "@"
  NetTargets,   \* the targets that are an IP address or a domain
  MailboxOf,    \* message -> the mailbox it lies in
  ObjectName,   \* target -> the name of its object, with "_" for other characters
  TokenLife, TokenMargin,   \* expires_in, and the buffer before it
  MaxOrders, MaxAdapterTime

MaxAttempts == 3
ASSUME TokenAssumption ==
  {TokenLife, TokenMargin} \subseteq Nat /\ MaxAttempts <= TokenMargin /\ TokenMargin < TokenLife

BothAdapters == {"graph", "panos"}

\* The dispatcher picks an adapter that supports the action.
supports_action(a) ==
  IF a = "graph" THEN {"QUARANTINED", "RETRACTED", "BLOCKED"} ELSE {"BLOCKED"}
ASSUME OrderAssumption ==
  \A o \in Orders : /\ o.adapter \in BothAdapters /\ o.action \in supports_action(o.adapter)
                     /\ o.message \in DOMAIN MailboxOf

VARIABLES
  aclock,
  guard_,    \* adapter -> its circuit breaker
  token,     \* when the cached access token expires; 0 without one
  order_,    \* the call in progress
  folder,    \* message -> where it is
  firewall,  \* object name -> the target it blocks
  results,   \* the calls that were successful: [order, ref]
  logged,    \* adapter -> the calls that went past the breaker, [at, ok]
  lastSent,  \* when the last request to Graph was sent, and its token's expiry
  orders_    \* calls so far

adapterVars == <<aclock, guard_, token, order_, folder, firewall, results, logged, lastSent, orders_>>
world == <<folder, firewall>>

NoOrder == [pc |-> "none"]

AdaptersInit ==
  /\ aclock = 0 /\ token = 0 /\ order_ = NoOrder /\ results = {} /\ orders_ = 0
  /\ guard_ = [a \in BothAdapters |-> NewBreaker] /\ logged = [a \in BothAdapters |-> <<>>]
  /\ folder = [m \in DOMAIN MailboxOf |-> "inbox"] /\ firewall = EmptyDict
  /\ lastSent = [at |-> 0, until |-> 1]

Reported(o, ok, ref) == IF ok THEN results \cup {[order |-> o, ref |-> ref]} ELSE results

-----------------------------------------------------------------------------
\* validate_target, which only the firewall has.
ValidTarget(o) == o.adapter = "graph" \/ o.target \in NetTargets

\* The call ends before anything is sent: simulated, or refused for its target,
\* for want of credentials, or by the breaker.
EndsAtOnce(o) ==
  /\ order_ = NoOrder /\ orders_ < MaxOrders
  /\ \/ /\ ValidTarget(o) /\ o.dry
        /\ results' = Reported(o, TRUE, "dry_run")
     \/ /\ \/ ~ValidTarget(o)
           \/ ~o.dry /\ o.adapter \notin Adapters
           \/ ~o.dry /\ ~Allows(guard_[o.adapter], aclock)
        /\ results' = Reported(o, FALSE, "none")
  /\ orders_' = orders_ + 1
  /\ UNCHANGED <<aclock, guard_, token, order_, world, logged, lastSent>>

\* The breaker lets it through.
BeginOrder(o) ==
  /\ order_ = NoOrder /\ orders_ < MaxOrders
  /\ ValidTarget(o) /\ ~o.dry /\ o.adapter \in Adapters
  /\ Allows(guard_[o.adapter], aclock)
  /\ guard_' = [guard_ EXCEPT ![o.adapter] = AfterAllow(@, aclock)]
  /\ order_' = [pc |-> IF o.adapter = "graph" THEN "token" ELSE "send", order |-> o, tries |-> 0,
                rested |-> FALSE, until |-> 0]
  /\ orders_' = orders_ + 1
  /\ UNCHANGED <<aclock, token, world, results, logged, lastSent>>

\* Mutant: a token is used until it expires.
UsableToTheEnd == aclock < token

\* _acquire_token: the cached token, unless it expires within the buffer.
Usable == aclock < token - TokenMargin

WithToken(until) == order_' = [order_ EXCEPT !.pc = "send", !.until = until]

TokenCached ==
  /\ order_.pc = "token" /\ Usable
  /\ WithToken(token)
  /\ UNCHANGED <<aclock, guard_, token, world, results, logged, lastSent, orders_>>

TokenFetched ==
  /\ order_.pc = "token" /\ ~Usable
  /\ token' = aclock + TokenLife
  /\ WithToken(token')
  /\ UNCHANGED <<aclock, guard_, world, results, logged, lastSent, orders_>>

\* The call is over: its breaker hears of it once, however many attempts it made.
Concludes(ok, ref) ==
  LET o == order_.order IN
  /\ guard_' = [guard_ EXCEPT ![o.adapter] =
                  IF ok THEN AfterSuccess(@, aclock) ELSE AfterFailure(@, aclock)]
  /\ logged' = [logged EXCEPT ![o.adapter] = Append(@, [at |-> aclock, ok |-> ok])]
  /\ results' = Reported(o, ok, ref)
  /\ order_' = NoOrder

\* No token: the call fails.
TokenDenied ==
  /\ order_.pc = "token" /\ ~Usable
  /\ Concludes(FALSE, "none")
  /\ UNCHANGED <<aclock, token, world, lastSent, orders_>>

-----------------------------------------------------------------------------
\* The mailbox a target stands for.
Addressed(o) == IF o.target \in Addresses THEN o.target ELSE "default_user"

\* Graph finds a message in its mailbox until it is moved, which gives it a new id.
Finds(o) == MailboxOf[o.message] = Addressed(o) /\ folder[o.message] = "inbox"

\* What the service does, the answer it then gives, and the reference.
GraphActs(o) ==
  /\ folder' = IF Finds(o)
               THEN [folder EXCEPT ![o.message] = IF o.action = "BLOCKED" THEN "deleted" ELSE "junk"]
               ELSE folder
  /\ UNCHANGED firewall

PanosActs(o) ==
  /\ firewall' = IF ObjectName[o.target] \in DOMAIN firewall THEN firewall
                 ELSE Put(firewall, ObjectName[o.target], o.target)
  /\ UNCHANGED folder

Acts(o) == IF o.adapter = "graph" THEN GraphActs(o) ELSE PanosActs(o)

Sent ==
  lastSent' = IF order_.order.adapter = "graph" THEN [at |-> aclock, until |-> order_.until] ELSE lastSent

Sending == order_.pc = "send" /\ order_.tries < MaxAttempts

\* 2xx; or 404 from Graph, 409 from the firewall, which count as done before.
AttemptSucceeds ==
  /\ Sending /\ Sent
  /\ Acts(order_.order)
  /\ Concludes(TRUE, order_.order.adapter)
  /\ UNCHANGED <<aclock, token, orders_>>

\* 429, a 5xx, or no answer: whatever the service did, the adapter pauses and
\* tries again, if it may.
AttemptFails ==
  /\ Sending /\ Sent
  /\ Acts(order_.order) \/ UNCHANGED world
  /\ order_' = [order_ EXCEPT !.tries = @ + 1, !.rested = FALSE]
  /\ UNCHANGED <<aclock, guard_, token, results, logged, orders_>>

\* 401, 403 or another status: no more attempts.
AttemptRefused ==
  /\ Sending /\ Sent
  /\ Concludes(FALSE, "none")
  /\ UNCHANGED <<aclock, token, world, orders_>>

Exhausted ==
  /\ order_.pc = "send" /\ order_.tries = MaxAttempts
  /\ Concludes(FALSE, "none")
  /\ UNCHANGED <<aclock, token, world, lastSent, orders_>>

\* An error that is neither a timeout nor a network error, such as a Retry-After
\* that is a date, leaves execute_action, and the breaker does not hear of it.
AttemptRaises ==
  /\ Sending /\ Sent
  /\ Acts(order_.order) \/ UNCHANGED world
  /\ order_' = NoOrder
  /\ UNCHANGED <<aclock, guard_, token, results, logged, orders_>>

\* The process dies and another takes its place.
AdapterDies ==
  /\ order_ # NoOrder
  /\ order_' = NoOrder /\ token' = 0
  /\ guard_' = [a \in BothAdapters |-> NewBreaker] /\ logged' = [a \in BothAdapters |-> <<>>]
  /\ UNCHANGED <<aclock, world, results, lastSent, orders_>>

\* At most a tick between two attempts.
AdapterTick ==
  /\ aclock < MaxAdapterTime
  /\ order_.pc = "send" => ~order_.rested
  /\ aclock' = aclock + 1
  /\ order_' = IF order_.pc = "send" THEN [order_ EXCEPT !.rested = TRUE] ELSE order_
  /\ UNCHANGED <<guard_, token, world, results, logged, lastSent, orders_>>

AdaptersNext ==
  \/ \E o \in Orders : EndsAtOnce(o) \/ BeginOrder(o)
  \/ TokenCached \/ TokenFetched \/ TokenDenied
  \/ AttemptSucceeds \/ AttemptFails \/ AttemptRefused \/ AttemptRaises \/ Exhausted
  \/ AdapterDies \/ AdapterTick

AdaptersSpec == AdaptersInit /\ [][AdaptersNext]_adapterVars

-----------------------------------------------------------------------------
\* verify_action looks at the reference only.
verify_action(o, ref) == o.dry \/ ref = o.adapter

\* What a verified live call stands for, although answers are lost, attempts
\* repeated and processes replaced: the message is out of the inbox if the call
\* named the mailbox it lies in, and the firewall has an object of that name, for
\* this very target unless the name stands for another one as well.
VerifiedIsEnforced ==
  \A r \in results : verify_action(r.order, r.ref) /\ ~r.order.dry =>
    LET t == r.order.target IN
    IF r.order.adapter = "graph"
    THEN MailboxOf[r.order.message] = Addressed(r.order) => folder[r.order.message] # "inbox"
    ELSE /\ ObjectName[t] \in DOMAIN firewall
         /\ (\A u \in NetTargets \ {t} : ObjectName[u] # ObjectName[t]) => firewall[ObjectName[t]] = t

\* The buffer covers the attempts of a call: none is sent with an expired token.
TokenOutlastsCall == lastSent.at < lastSent.until

\* The breaker goes by calls, not by attempts: it refuses exactly when the last
\* Threshold calls failed and the recovery time has not passed since.
CallsRest ==
  order_ = NoOrder => \A a \in BothAdapters :
    LET c == logged[a] n == Len(logged[a]) IN
    ~Allows(guard_[a], aclock) <=>
      /\ n >= Threshold /\ aclock - c[n].at < Recovery
      /\ \A i \in (n - Threshold + 1)..n : ~c[i].ok

\* A call reported as verified was enforced, its requests carried a valid token,
\* and a failing service is left alone for as long as it should be.
EnforcementSound == VerifiedIsEnforced /\ TokenOutlastsCall /\ CallsRest
=============================================================================
