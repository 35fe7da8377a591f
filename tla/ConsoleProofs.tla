---------------------------- MODULE ConsoleProofs ---------------------------
(***************************************************************************)
(* Proofs about the parts of MCConsole: remediation dispatch for every set *)
(* of workers, keys and requests, the database behind the HTTP API for any *)
(* threads, users, keys and bounds, the adapters of remediation for any    *)
(* orders, tokens and breakers, sessions for any users and lifetimes,      *)
(* feedback for any analysts, incidents and windows, the retrieval index   *)
(* for any texts, spaces and ranks, and memory for any requests, lessons   *)
(* and crashes.  The last theorem is about remediation again, as far as    *)
(* one process goes.                                                       *)
(***************************************************************************)
EXTENDS Remediation, RemediationAdapters, ApiDatabase, Sessions, Feedback, RagIndex, Memory, FiniteSetTheorems,
        SequenceTheorems, TLAPS

\* A decision is a status that is saved, or to go ahead; going ahead is for live
\* requests only, and the policy has validated what goes ahead or is simulated.
LEMMA Decisions ==
  ASSUME NEW w, NEW req
  PROVE  /\ Decide(w, req) \in Statuses \cup {"DISPATCHING"}
         /\ Decide(w, req) = "DISPATCHING" => ~req.dry
         /\ Decide(w, req) = "VERIFIED" => req.dry
         /\ Decide(w, req) = "DISPATCHING" => Policy(w, req) = "POLICY_VALIDATED"
  BY DEF Decide, Policy, Statuses

\* Whether an approval is consumed: it is one of the tokens, and not used before.
LEMMA Approval ==
  ASSUME TypeOK, NEW w \in Workers, NEW req \in Requests,
         Policy(w, req) = "POLICY_VALIDATED", NeedsApproval(req)
  PROVE  req.token \in Tokens /\ req.token \notin used[w]
  BY RequestAssumption DEF Policy, NeedsApproval, HIGH_IMPACT_ACTIONS, Informational, TypeOK

\* Type correctness: every step of every worker preserves the types.
THEOREM TypeCorrect == Spec => []TypeOK
<1>1. Init => TypeOK
  BY BoundAssumption DEF Init, TypeOK, NoCall
<1>2. TypeOK /\ [Next]_vars => TypeOK'
  <2> SUFFICES ASSUME TypeOK, [Next]_vars PROVE TypeOK'
    OBVIOUS
  <2> USE BoundAssumption, RequestAssumption
  <2>1. CASE Tick
    BY <2>1 DEF Tick, TypeOK
  <2>2. ASSUME NEW w \in Workers, Execute(w) PROVE TypeOK'
    BY <2>2 DEF Execute, TypeOK, Saving, Statuses, NoCall
  <2>3. ASSUME NEW w \in Workers, Save(w) PROVE TypeOK'
    BY <2>3 DEF Save, TypeOK, NoCall
  <2>4. ASSUME NEW w \in Workers, Raise(w) PROVE TypeOK'
    BY <2>4 DEF Raise, TypeOK, NoCall
  <2>5. ASSUME NEW w \in Workers, Crash(w) PROVE TypeOK'
    BY <2>5 DEF Crash, TypeOK, NoCall
  <2>6. ASSUME NEW w \in Workers, NEW req \in Requests, ReturnCached(w, req) PROVE TypeOK'
    BY <2>6 DEF ReturnCached, TypeOK
  <2>7. ASSUME NEW w \in Workers, NEW req \in Requests, Evaluate(w, req) PROVE TypeOK'
    <3>1. used' \in [Workers -> SUBSET Tokens]
      BY <2>7, Approval DEF Evaluate, TypeOK
    <3>2. grants' \in [Workers -> [Tokens -> Nat]]
      <4>1. CASE grants' = grants
        BY <4>1 DEF TypeOK
      <4>2. CASE grants' = [grants EXCEPT ![w][req.token] = @ + 1]
        <5>1. \A v \in Workers, t \in Tokens : grants[v][t] + 1 \in Nat
          BY DEF TypeOK
        <5> QED
          BY <4>2, <5>1 DEF TypeOK
      <4> QED
        BY <2>7, <4>1, <4>2 DEF Evaluate
    <3>3. call' \in [Workers -> {NoCall} \cup [pc : {"executing"}, req : Requests]
                          \cup [pc : {"saving"}, req : Requests, status : Statuses]]
      BY <2>7, Decisions DEF Evaluate, TypeOK, Executing, Saving
    <3> QED
      BY <2>7, <3>1, <3>2, <3>3 DEF Evaluate, TypeOK
  <2>8. CASE UNCHANGED vars
    BY <2>8 DEF vars, TypeOK
  <2> QED
    BY <2>1, <2>2, <2>3, <2>4, <2>5, <2>6, <2>7, <2>8 DEF Next
<1> QED
  BY <1>1, <1>2, PTL DEF Spec

\* Approvals are used once, however many workers and dispatches there are: a
\* grant is given only for a token not yet in the set it is then added to.
THEOREM ApprovalsCorrect == Spec => []ApprovalUsedOnce
<1>1. Init => ApprovalUsedOnce
  BY DEF Init, ApprovalUsedOnce
<1>2. TypeOK /\ ApprovalUsedOnce /\ [Next]_vars => ApprovalUsedOnce'
  <2> SUFFICES ASSUME TypeOK, ApprovalUsedOnce, [Next]_vars PROVE ApprovalUsedOnce'
    OBVIOUS
  <2>1. ASSUME NEW w \in Workers, NEW req \in Requests, Evaluate(w, req)
        PROVE ApprovalUsedOnce'
    <3>1. CASE Policy(w, req) = "POLICY_VALIDATED" /\ NeedsApproval(req)
      <4>1. req.token \in Tokens /\ req.token \notin used[w]
        BY <3>1, Approval
      <4>2. grants[w][req.token] = 0
        <5>1. grants[w][req.token] \in Nat
          BY <4>1 DEF TypeOK
        <5>2. grants[w][req.token] <= 1 /\ grants[w][req.token] # 1
          BY <4>1 DEF ApprovalUsedOnce
        <5> QED
          BY <5>1, <5>2
      <4>3. used' = [used EXCEPT ![w] = @ \cup {req.token}]
        BY <2>1, <3>1 DEF Evaluate
      <4>4. grants' \in {grants, [grants EXCEPT ![w][req.token] = @ + 1]}
        BY <2>1 DEF Evaluate
      <4> QED
        BY <4>1, <4>2, <4>3, <4>4 DEF ApprovalUsedOnce, TypeOK
    <3>2. CASE ~(Policy(w, req) = "POLICY_VALIDATED" /\ NeedsApproval(req))
      BY <2>1, <3>2 DEF Evaluate, ApprovalUsedOnce
    <3> QED
      BY <3>1, <3>2
  <2>2. ASSUME NEW w \in Workers, Crash(w) PROVE ApprovalUsedOnce'
    BY <2>2 DEF Crash, ApprovalUsedOnce, TypeOK
  <2>3. ASSUME UNCHANGED <<used, grants>> PROVE ApprovalUsedOnce'
    BY <2>3 DEF ApprovalUsedOnce
  <2> QED
    BY <2>1, <2>2, <2>3 DEF Next, vars, Tick, Execute, Save, Raise, ReturnCached
<1> QED
  BY <1>1, <1>2, TypeCorrect, PTL DEF Spec

-----------------------------------------------------------------------------
\* What a worker is about to record of a live action as VERIFIED has been
\* carried out: the strengthening that makes AuditTruthful inductive.
Truthful ==
  /\ AuditTruthful
  /\ \A w \in Workers : call[w].pc = "saving" /\ call[w].status = "VERIFIED" /\ ~call[w].req.dry
                          => executed[call[w].req.key] > 0

\* A VERIFIED row not marked as a dry run is the trace of an action carried out.
THEOREM AuditCorrect == Spec => []AuditTruthful
<1>1. Init => Truthful
  BY DEF Init, Truthful, AuditTruthful, NoCall
<1>2. TypeOK /\ Truthful /\ [Next]_vars => Truthful'
  <2> SUFFICES ASSUME TypeOK, Truthful, [Next]_vars PROVE Truthful'
    OBVIOUS
  <2> USE RequestAssumption DEF Truthful, AuditTruthful
  <2>1. ASSUME NEW w \in Workers, Execute(w) PROVE Truthful'
    <3>1. \A k \in Keys : executed'[k] >= executed[k]
      BY <2>1 DEF Execute, TypeOK
    <3>2. \A k \in Keys : executed'[k] \in Nat /\ executed[k] \in Nat
      BY <2>1 DEF Execute, TypeOK
    <3>3. call[w].req \in Requests /\ call[w].req.key \in Keys
      BY <2>1 DEF Execute, TypeOK, NoCall
    <3>4. call'[w].status = "VERIFIED" => executed'[call[w].req.key] > 0
      BY <2>1, <3>2, <3>3 DEF Execute, TypeOK, Saving
    <3>5. call'[w].req = call[w].req /\ \A v \in Workers \ {w} : call'[v] = call[v]
      BY <2>1 DEF Execute, TypeOK, Saving
    <3>6. AuditTruthful'
      BY <2>1, <3>1, <3>2 DEF Execute, TypeOK
    <3> QED
      BY <3>1, <3>2, <3>4, <3>5, <3>6 DEF TypeOK, NoCall
  <2>2. ASSUME NEW w \in Workers, Save(w) PROVE Truthful'
    BY <2>2 DEF Save, TypeOK, NoCall
  <2>3. ASSUME NEW w \in Workers, Raise(w) PROVE Truthful'
    <3>1. \A k \in Keys : executed[k] > 0 => executed'[k] > 0
      BY <2>3 DEF Raise, TypeOK
    <3>2. AuditTruthful'
      BY <2>3, <3>1 DEF Raise, TypeOK
    <3>3. call'[w] = NoCall /\ \A v \in Workers \ {w} : call'[v] = call[v]
      BY <2>3 DEF Raise, TypeOK
    <3>4. \A v \in Workers : call[v].pc = "saving" => call[v].req.key \in Keys
      BY DEF TypeOK, NoCall
    <3> QED
      BY <3>1, <3>2, <3>3, <3>4 DEF NoCall
  <2>4. ASSUME NEW w \in Workers, Crash(w) PROVE Truthful'
    BY <2>4 DEF Crash, TypeOK, NoCall
  <2>5. ASSUME NEW w \in Workers, NEW req \in Requests, Evaluate(w, req) PROVE Truthful'
    BY <2>5, Decisions DEF Evaluate, TypeOK, Executing, Saving
  <2>6. ASSUME UNCHANGED <<audit, call, executed>> PROVE Truthful'
    BY <2>6
  <2> QED
    BY <2>1, <2>2, <2>3, <2>4, <2>5, <2>6 DEF Next, vars, Tick, ReturnCached
<1>3. Truthful => AuditTruthful
  BY DEF Truthful
<1> QED
  BY <1>1, <1>2, <1>3, TypeCorrect, PTL DEF Spec

-----------------------------------------------------------------------------
(***************************************************************************)
(* The database.  UserInv, KeyInv, LogInv, CaseInv: rows refer to rows.    *)
(* RequestInv: what an endpoint holds between its transactions is still    *)
(* true of the tables.  LockInv: without a race, the counter a login holds *)
(* is the user's.  MigInv: as long as no row was added, what the migrator  *)
(* has read of a parent table covers what the table still has.             *)
(***************************************************************************)
People == Names \cup {DemoUser}
UserRow == [org : {DemoOrg}, fails : Nat, lock : Nat]
KeyRow == [org : {DemoOrg}, role : {"analyst", "api_client"}, active : BOOLEAN]
Acting == People \cup KeyIds \cup {None}
Acts_ == {None, "user_created", "investigation_completed"}
AuditRow == [org : {DemoOrg, None}, user : Acting, action : Acts_, of : Nat]
Stages == {"idle", "demo_org", "demo_user", "demo_create", "verify", "save", "metrics", "audit",
           "answered", "refused", "failed"}
Request_ == [pc : Stages, who : Acting, org : {DemoOrg, None}, by : {None, "token", "key"},
             fails : Nat, inv : Nat, act : Acts_]

UserInv ==
  /\ orgs \subseteq {DemoOrg}
  /\ DOMAIN users \subseteq People /\ (DOMAIN users # {} => DemoOrg \in orgs)
  /\ \A u \in DOMAIN users : users[u] \in UserRow /\ users[u].fails <= spent.logins
                             /\ users[u].lock <= MaxApiTime + LockTime
  /\ spent \in [logins : Nat, deletions : Nat, calls : Nat] /\ spent.logins <= MaxLogins
  /\ apiClock \in 1..MaxApiTime

KeyInv ==
  /\ DOMAIN apiKeys \subseteq KeyIds /\ (DOMAIN apiKeys # {} => DemoOrg \in orgs)
  /\ \A k \in DOMAIN apiKeys : apiKeys[k] \in KeyRow
  /\ issuedTokens \subseteq [user : People, org : {DemoOrg}] /\ (issuedTokens # {} => DemoOrg \in orgs)

LogInv ==
  /\ auditLog \in Seq(AuditRow)
  /\ \A i \in DOMAIN auditLog :
       /\ auditLog[i].user \in DOMAIN users \cup {None} /\ auditLog[i].org \in orgs
       /\ auditLog[i].of # 0 => \E m \in metrics : m.investigation = auditLog[i].of

CaseInv ==
  /\ \E n \in Nat : DOMAIN invs = 1..n
  /\ \A i \in DOMAIN invs : invs[i] = [org |-> DemoOrg] /\ DemoOrg \in orgs
  /\ \A m \in metrics : m.org = DemoOrg /\ m.investigation \in DOMAIN invs

RequestOK_(x) ==
  /\ x \in Request_
  /\ x.pc \in {"demo_user", "demo_create", "save", "metrics", "audit"} => DemoOrg \in orgs
  /\ x.pc \in {"save", "metrics", "audit"} => x.org = DemoOrg
  /\ x.inv # 0 => x.pc \in {"metrics", "audit", "answered", "failed"}
  /\ x.pc = "metrics" => x.inv \in DOMAIN invs
  /\ x.pc = "audit" /\ x.inv # 0 => \E m \in metrics : m.investigation = x.inv
  /\ x.pc = "answered" /\ x.inv # 0 => \E i \in DOMAIN auditLog : auditLog[i].of = x.inv
  /\ x.pc = "verify" => x.who \in People /\ x.fails < spent.logins

RequestInv == DOMAIN http = Http /\ \A h \in Http : RequestOK_(http[h])

LockInv ==
  /\ raced \in BOOLEAN
  /\ ~raced =>
       /\ \A h \in Http : LoggingIn(h) =>
            http[h].who \in DOMAIN users /\ http[h].fails = users[http[h].who].fails
       /\ \A g, h \in Http : LoggingIn(g) /\ LoggingIn(h) /\ http[g].who = http[h].who => g = h
       /\ DOMAIN wrong \subseteq DOMAIN users
       /\ \A u \in DOMAIN users : users[u].fails = WrongCount(u)
       /\ \A u \in DOMAIN users \cap DOMAIN wrong :
            users[u].lock = IF wrong[u].n >= MaxFails THEN wrong[u].at + LockTime ELSE 0

MigShape(m) ==
  /\ m = [at |-> m.at, orgs |-> m.orgs, users |-> m.users, invs |-> m.invs,
          counts |-> m.counts, result |-> m.result]
  /\ m.at \in 0..7 /\ m.result \in {None, "done", "failed"}
  /\ m.result = "done" => m.at = 7
  /\ m.at \in 0..6 => m.result = None

MigInv ==
  /\ MigShape(mig)
  /\ touched \in BOOLEAN /\ grew \in BOOLEAN /\ (mig.at # 0 /\ grew => touched)
  /\ mig.result = "failed" => grew
  /\ ~grew =>
       /\ mig.at > 1 => orgs \subseteq mig.orgs
       /\ mig.at > 2 => DOMAIN users \subseteq mig.users
       /\ mig.at > 5 => DOMAIN invs \subseteq mig.invs
  /\ ~touched /\ mig.at > 0 /\ mig.result # "failed" =>
       /\ \E S : mig.counts \in Seq(S)
       /\ Len(mig.counts) = mig.at - 1
       /\ \A i \in 1..(mig.at - 1) : mig.counts[i] = Rows(Order[i])

ApiInv == UserInv /\ KeyInv /\ LogInv /\ CaseInv /\ RequestInv /\ LockInv /\ MigInv

LEMMA OrderFacts == DOMAIN Order = 1..6 /\ Len(Order) = 6
BY DEF Order

LEMMA ApiInvSuffices == ApiInv => TablesSound /\ LockoutIsExact
<1> SUFFICES ASSUME ApiInv PROVE ApiTypeOK /\ ReferencesHold /\ AnsweredIsAudited /\ MigrationIsFair /\ LockoutIsExact
  BY DEF TablesSound
<1>1. ApiTypeOK
  BY OrderFacts, LockAssumption
     DEF ApiInv, UserInv, UserRow, RequestInv, RequestOK_, Request_, Stages, MigInv, MigShape, ApiTypeOK
<1>2. ReferencesHold
  BY DEF ApiInv, UserInv, UserRow, LogInv, CaseInv, ReferencesHold
<1>3. AnsweredIsAudited
  BY DEF ApiInv, LogInv, RequestInv, RequestOK_, AnsweredIsAudited, At
<1>4. MigrationIsFair
  <2>1. mig.result = "failed" => grew
    BY DEF ApiInv, MigInv
  <2>2. ASSUME mig.result = "done", ~touched PROVE mig.counts = [i \in DOMAIN Order |-> Rows(Order[i])]
    <3>1. mig.at = 7
      BY <2>2 DEF ApiInv, MigInv, MigShape
    <3>2. PICK S, c : c = mig.counts /\ c \in Seq(S) /\ Len(c) = 6 /\ \A i \in 1..6 : c[i] = Rows(Order[i])
      BY <2>2, <3>1 DEF ApiInv, MigInv
    <3>3. c \in [1..6 -> S]
      BY <3>2, LenProperties
    <3> QED BY <3>2, <3>3, OrderFacts
  <2> QED BY <2>1, <2>2 DEF MigrationIsFair
<1>5. LockoutIsExact
  <2> SUFFICES ASSUME ~raced, NEW u \in DOMAIN users \cap DOMAIN wrong
               PROVE users[u] = [org |-> users[u].org, fails |-> wrong[u].n,
                                 lock |-> IF wrong[u].n >= MaxFails THEN wrong[u].at + LockTime ELSE 0]
    BY DEF LockoutIsExact
  <2>1. PICK r \in UserRow : r = users[u]
    BY DEF ApiInv, UserInv
  <2>2. r.fails = wrong[u].n /\ r.lock = IF wrong[u].n >= MaxFails THEN wrong[u].at + LockTime ELSE 0
    BY <2>1 DEF ApiInv, LockInv, WrongCount, Get
  <2> QED BY <2>1, <2>2 DEF UserRow
<1> QED BY <1>1, <1>2, <1>3, <1>4, <1>5

ApiStep == ApiNext("login") \/ ApiNext("data")

\* What a step other than the migrator's may do to the tables it reads.
LEMMA TableEffects ==
  ASSUME ApiInv, ApiStep
  PROVE  \/ UNCHANGED <<tables, touched, grew, mig>>
         \/ touched' = TRUE /\ grew' = TRUE /\ UNCHANGED mig
         \/ touched' = TRUE /\ UNCHANGED <<grew, mig, orgs, invs>> /\ DOMAIN users' \subseteq DOMAIN users
         \/ MigrateStart \/ MigrateTable
<1>1. ASSUME NEW u, DeleteUser(u)
      PROVE  touched' = TRUE /\ UNCHANGED <<grew, mig, orgs, invs>> /\ DOMAIN users' \subseteq DOMAIN users
  BY <1>1 DEF DeleteUser, Changes, Drop
<1>2. ASSUME NEW h, LoginWrong(h) \/ LoginRight(h)
      PROVE  touched' = TRUE /\ UNCHANGED <<grew, mig, orgs, invs>> /\ DOMAIN users' \subseteq DOMAIN users
  BY <1>2 DEF LoginWrong, LoginRight, Changes, UpdateUser, Put
<1>3. ASSUME NEW h, DemoToken(h) \/ Return(h) \/ (\E u : LoginRead(h, u))
      PROVE  UNCHANGED <<tables, touched, grew, mig>> \/ (touched' = TRUE /\ grew' = TRUE /\ UNCHANGED mig)
  BY <1>3 DEF DemoToken, DemoStart, DemoCreateOrg, DemoReadUser, DemoCreateUser, Return, LoginRead,
              Adds, Reads, Still, tables
<1>4. ASSUME NEW h, NEW c, Investigate(h, c) \/ (\E u : CreateUser(h, c, u)) \/ SaveInvestigation(h)
                           \/ SaveMetrics(h) \/ Audit(h)
      PROVE  UNCHANGED <<tables, touched, grew, mig>> \/ (touched' = TRUE /\ grew' = TRUE /\ UNCHANGED mig)
  BY <1>4 DEF Investigate, CreateUser, SaveInvestigation, SaveMetrics, Audit, Adds, Reads, Still, tables
<1>5. ASSUME NEW k, NEW r, CreateKey(k, r)
      PROVE  touched' = TRUE /\ grew' = TRUE /\ UNCHANGED mig
  BY <1>5 DEF CreateKey, Adds, Still
<1>6. ASSUME NEW k, DeactivateKey(k)
      PROVE  touched' = TRUE /\ UNCHANGED <<grew, mig, orgs, invs>> /\ DOMAIN users' \subseteq DOMAIN users
  BY <1>6 DEF DeactivateKey, Changes, Still
<1>7. ApiTick => UNCHANGED <<tables, touched, grew, mig>>
  BY DEF ApiTick
<1> QED BY <1>1, <1>2, <1>3, <1>4, <1>5, <1>6, <1>7, Zenon DEF ApiStep, ApiNext, ServeLogin, ServeData

LEMMA ValidUntilGrown ==
  ASSUME ApiInv, mig.at \in 1..6, ~grew
  PROVE  Valid(Order[mig.at])
<1>1. \/ mig.at = 1 /\ Order[mig.at] = "organizations"
      \/ mig.at = 2 /\ Order[mig.at] = "users"
      \/ mig.at = 3 /\ Order[mig.at] = "api_keys"
      \/ mig.at = 4 /\ Order[mig.at] = "audit_logs"
      \/ mig.at = 5 /\ Order[mig.at] = "investigations"
      \/ mig.at = 6 /\ Order[mig.at] = "planner_metrics"
  BY DEF Order
<1>2. mig.at > 1 => orgs \subseteq mig.orgs
  BY DEF ApiInv, MigInv
<1>3. mig.at > 2 => DOMAIN users \subseteq mig.users
  BY DEF ApiInv, MigInv
<1>4. mig.at > 5 => DOMAIN invs \subseteq mig.invs
  BY DEF ApiInv, MigInv
<1>5. CASE Order[mig.at] = "organizations"
  BY <1>5 DEF Valid
<1>6. CASE Order[mig.at] = "users"
  BY <1>1, <1>2, <1>6 DEF Valid, ApiInv, UserInv, UserRow
<1>7. CASE Order[mig.at] = "api_keys"
  BY <1>1, <1>2, <1>7 DEF Valid, OrgOK, ApiInv, KeyInv, KeyRow
<1>8. CASE Order[mig.at] = "audit_logs"
  BY <1>1, <1>2, <1>3, <1>8 DEF Valid, OrgOK, UserOK, ApiInv, LogInv
<1>9. CASE Order[mig.at] = "investigations"
  BY <1>1, <1>2, <1>9 DEF Valid, ApiInv, CaseInv
<1>10. CASE Order[mig.at] = "planner_metrics"
  BY <1>1, <1>2, <1>4, <1>10 DEF Valid, OrgOK, ApiInv, CaseInv
<1> QED BY <1>1, <1>5, <1>6, <1>7, <1>8, <1>9, <1>10

LEMMA MigrationKeeps == ASSUME ApiInv, ApiStep PROVE MigInv'
<1>1. CASE UNCHANGED <<tables, touched, grew, mig>>
  <2>1. \A t : Rows(t)' = Rows(t)
    BY <1>1 DEF tables, Rows
  <2> QED BY <1>1, <2>1 DEF tables, ApiInv, MigInv
<1>2. CASE touched' = TRUE /\ grew' = TRUE /\ UNCHANGED mig
  BY <1>2 DEF ApiInv, MigInv
<1>3. CASE touched' = TRUE /\ UNCHANGED <<grew, mig, orgs, invs>> /\ DOMAIN users' \subseteq DOMAIN users
  BY <1>3 DEF ApiInv, MigInv
<1>4. CASE MigrateStart
  <2>1. mig' = [Ready EXCEPT !.at = 1] /\ touched' = FALSE /\ grew' = FALSE
    BY <1>4 DEF MigrateStart
  <2>2. mig'.at = 1 /\ mig'.result = None /\ mig'.counts = <<>> /\ MigShape(mig')
    <3>1. mig' = [at |-> 1, orgs |-> {}, users |-> {}, invs |-> {}, counts |-> <<>>, result |-> None]
      BY <2>1 DEF Ready
    <3> QED BY <3>1 DEF MigShape, None
  <2>3. mig'.counts \in Seq({}) /\ Len(mig'.counts) = mig'.at - 1
        /\ \A i \in 1..(mig'.at - 1) : mig'.counts[i] = Rows(Order[i])'
    BY <2>2, EmptySeq
  <2>4. \E S : mig'.counts \in Seq(S)
    BY <2>3
  <2>5. ~(mig'.at > 1) /\ ~(mig'.at > 2) /\ ~(mig'.at > 5) /\ mig'.result # "failed"
    BY <2>2 DEF None
  <2> QED BY <2>1, <2>2, <2>3, <2>4, <2>5 DEF MigInv
<1>5. CASE MigrateTable
  <2>1. PICK k \in 1..6 : k = mig.at /\ mig.result = None
    BY <1>5, OrderFacts DEF MigrateTable, ApiInv, MigInv, MigShape
  <2> DEFINE t == Order[k]
  <2>2. UNCHANGED <<orgs, users, apiKeys, auditLog, invs, metrics, touched, grew>>
    BY <1>5 DEF MigrateTable, tables
  <2>3. \A x : Rows(x)' = Rows(x)
    BY <2>2 DEF Rows
  <2>4. CASE ~Valid(t)
    <3>1. grew
      BY <2>1, <2>4, ValidUntilGrown
    <3>2. mig' = [mig EXCEPT !.at = 7, !.result = "failed"]
      BY <1>5, <2>1, <2>4, OrderFacts DEF MigrateTable
    <3>3. mig'.at = 7 /\ mig'.result = "failed" /\ MigShape(mig')
      <4>1. mig' = [at |-> 7, orgs |-> mig.orgs, users |-> mig.users, invs |-> mig.invs,
                    counts |-> mig.counts, result |-> "failed"]
        BY <3>2 DEF ApiInv, MigInv, MigShape
      <4> QED BY <4>1 DEF MigShape, None
    <3> QED BY <2>1, <2>2, <3>1, <3>3 DEF ApiInv, MigInv
  <2>5. CASE Valid(t)
    <3>1. mig' = [mig EXCEPT
                      !.at = k + 1,
                      !.counts = Append(@, Rows(t)),
                      !.orgs = IF t = "organizations" THEN orgs ELSE @,
                      !.users = IF t = "users" THEN DOMAIN users ELSE @,
                      !.invs = IF t = "investigations" THEN DOMAIN invs ELSE @,
                      !.result = IF k = 6 THEN "done" ELSE @]
      BY <1>5, <2>1, <2>5, OrderFacts DEF MigrateTable
    <3>2. /\ mig'.at = k + 1 /\ mig'.result = (IF k = 6 THEN "done" ELSE None)
          /\ mig'.counts = Append(mig.counts, Rows(t)) /\ MigShape(mig')
          /\ mig'.orgs = (IF t = "organizations" THEN orgs ELSE mig.orgs)
          /\ mig'.users = (IF t = "users" THEN DOMAIN users ELSE mig.users)
          /\ mig'.invs = (IF t = "investigations" THEN DOMAIN invs ELSE mig.invs)
      <4>1. PICK c, o, us, vs, res :
              /\ c = Append(mig.counts, Rows(t)) /\ o = (IF t = "organizations" THEN orgs ELSE mig.orgs)
              /\ us = (IF t = "users" THEN DOMAIN users ELSE mig.users)
              /\ vs = (IF t = "investigations" THEN DOMAIN invs ELSE mig.invs)
              /\ res = (IF k = 6 THEN "done" ELSE None)
        OBVIOUS
      <4>2. mig = [at |-> mig.at, orgs |-> mig.orgs, users |-> mig.users, invs |-> mig.invs,
                   counts |-> mig.counts, result |-> mig.result] /\ mig.result = None
        BY <2>1 DEF ApiInv, MigInv, MigShape
      <4>3. mig' = [at |-> k + 1, orgs |-> o, users |-> us, invs |-> vs, counts |-> c, result |-> res]
        BY <3>1, <4>1, <4>2
      <4>4. MigShape(mig')
        BY <4>1, <4>3 DEF MigShape, None
      <4> QED BY <4>1, <4>3, <4>4
    <3>3. (t = "organizations" <=> k = 1) /\ (t = "users" <=> k = 2) /\ (t = "investigations" <=> k = 5)
      BY <2>1 DEF Order
    <3>4. ASSUME ~grew
          PROVE  /\ mig'.at > 1 => orgs \subseteq mig'.orgs
                 /\ mig'.at > 2 => DOMAIN users \subseteq mig'.users
                 /\ mig'.at > 5 => DOMAIN invs \subseteq mig'.invs
      BY <2>1, <3>2, <3>3, <3>4 DEF ApiInv, MigInv
    <3>5. ASSUME ~touched
          PROVE  /\ \E S : mig'.counts \in Seq(S)
                 /\ Len(mig'.counts) = k /\ \A i \in 1..k : mig'.counts[i] = Rows(Order[i])
      <4>1. PICK S, c : c = mig.counts /\ c \in Seq(S) /\ Len(c) = k - 1
                        /\ \A i \in 1..(k - 1) : c[i] = Rows(Order[i])
        BY <2>1, <3>5 DEF ApiInv, MigInv, None
      <4>2. PICK v, T : v = Rows(t) /\ T = S \cup {v}
        OBVIOUS
      <4>3. c \in Seq(T) /\ v \in T
        BY <4>1, <4>2, SeqMonotonic
      <4>4. Append(c, v) \in Seq(T) /\ Len(Append(c, v)) = k /\ Append(c, v)[k] = v
            /\ \A i \in 1..(k - 1) : Append(c, v)[i] = c[i]
        BY <4>1, <4>3, AppendProperties
      <4>5. \A i \in 1..k : Append(c, v)[i] = Rows(Order[i])
        <5>1. 1..k = (1..(k - 1)) \cup {k}
          OBVIOUS
        <5> QED BY <2>1, <4>1, <4>2, <4>4, <5>1
      <4>6. mig'.counts = Append(c, v)
        BY <3>2, <4>1, <4>2
      <4> QED BY <4>4, <4>5, <4>6
    <3>6. mig'.at - 1 = k /\ mig'.result # "failed"
      BY <3>2 DEF None
    <3> QED BY <2>1, <2>2, <2>3, <3>2, <3>4, <3>5, <3>6 DEF ApiInv, MigInv
  <2> QED BY <2>4, <2>5
<1> QED BY <1>1, <1>2, <1>3, <1>4, <1>5, TableEffects

\* The users and counters keep their types; a user's organisation exists.
LEMMA UsersKeep == ASSUME ApiInv, ApiStep PROVE UserInv'
<1> USE LockAssumption
<1>1. PICK sp \in [logins : Nat, deletions : Nat, calls : Nat] : sp = spent /\ sp.logins <= MaxLogins
  BY DEF ApiInv, UserInv
<1>2. ASSUME UNCHANGED <<orgs, users, apiClock>>,
             spent' \in [logins : Nat, deletions : Nat, calls : Nat],
             spent'.logins <= MaxLogins, sp.logins <= spent'.logins
      PROVE  UserInv'
  BY <1>1, <1>2 DEF ApiInv, UserInv, UserRow
<1>3. Called => /\ spent' \in [logins : Nat, deletions : Nat, calls : Nat]
                /\ spent'.logins = sp.logins
  BY <1>1 DEF Called
<1>4. ASSUME NEW u \in People, NEW row \in UserRow, users' = Put(users, u, row), row.fails <= spent'.logins,
             row.lock <= MaxApiTime + LockTime, DemoOrg \in orgs, UNCHANGED <<orgs, apiClock>>,
             spent' \in [logins : Nat, deletions : Nat, calls : Nat], spent'.logins = sp.logins
      PROVE  UserInv'
  BY <1>1, <1>4 DEF ApiInv, UserInv, UserRow, Put
<1>5. ASSUME NEW h \in Http, DemoStart(h) \/ Return(h) PROVE UserInv'
  BY <1>1, <1>2, <1>3, <1>5 DEF DemoStart, Return, Reads, Still, tables
<1>6. ASSUME NEW h \in Http, DemoCreateOrg(h) PROVE UserInv'
  <2>1. CASE UNCHANGED <<orgs, users>>
    BY <1>1, <1>2, <1>6, <2>1 DEF DemoCreateOrg, Still
  <2>2. CASE orgs' = orgs \cup {DemoOrg} /\ UNCHANGED users
    BY <1>1, <1>6, <2>2 DEF DemoCreateOrg, Still, ApiInv, UserInv, UserRow
  <2> QED BY <1>6, <2>1, <2>2 DEF DemoCreateOrg, Reads, tables
<1>7. ASSUME NEW h \in Http, DemoReadUser(h) PROVE UserInv'
  BY <1>1, <1>2, <1>7 DEF DemoReadUser, Reads, Still, tables
<1>8. NewUser(DemoOrg) \in UserRow /\ NewUser(DemoOrg).fails = 0 /\ NewUser(DemoOrg).lock = 0
  BY DEF NewUser, UserRow
<1>9. ASSUME NEW h \in Http, DemoCreateUser(h) PROVE UserInv'
  <2>1. DemoOrg \in orgs
    BY <1>9 DEF DemoCreateUser, At, ApiInv, RequestInv, RequestOK_
  <2>2. UNCHANGED <<orgs, apiClock, spent>> /\ (UNCHANGED users \/ users' = Put(users, DemoUser, NewUser(DemoOrg)))
    BY <1>9 DEF DemoCreateUser, Reads, Still, tables
  <2>3. DemoUser \in People
    BY DEF People
  <2>4. CASE UNCHANGED users
    BY <1>1, <1>2, <2>2, <2>4
  <2>5. CASE users' = Put(users, DemoUser, NewUser(DemoOrg))
    BY <1>1, <1>4, <1>8, <2>1, <2>2, <2>3, <2>5
  <2> QED BY <2>2, <2>4, <2>5
<1>10. ASSUME NEW h \in Http, NEW u, LoginRead(h, u) PROVE UserInv'
  BY <1>1, <1>2, <1>10 DEF LoginRead, Reads, tables
<1>11. ASSUME NEW h \in Http, LoginWrong(h) \/ LoginRight(h) PROVE UserInv'
  <2>1. PICK x \in Request_ : x = http[h] /\ x.who \in People /\ x.fails < sp.logins /\ x.fails \in Nat
    BY <1>1, <1>11 DEF LoginWrong, LoginRight, LoggingIn, At, ApiInv, RequestInv, RequestOK_, Request_
  <2>2. PICK f, l \in Nat : UpdateUser(x.who, f, l) /\ f <= sp.logins /\ l <= MaxApiTime + LockTime
    <3>1. CASE LoginRight(h)
      BY <1>1, <2>1, <3>1 DEF LoginRight
    <3>2. CASE LoginWrong(h)
      <4>1. apiClock \in 1..MaxApiTime
        BY DEF ApiInv, UserInv
      <4>2. PICK l : l = (IF x.fails + 1 >= MaxFails THEN apiClock + LockTime ELSE 0)
        OBVIOUS
      <4>3. UpdateUser(x.who, x.fails + 1, l)
        BY <2>1, <3>2, <4>2 DEF LoginWrong
      <4>4. l \in Nat /\ l <= MaxApiTime + LockTime /\ x.fails + 1 \in Nat /\ x.fails + 1 <= sp.logins
        BY <1>1, <2>1, <4>1, <4>2
      <4> QED BY <4>3, <4>4
    <3> QED BY <1>11, <3>1, <3>2
  <2>3. UNCHANGED <<orgs, apiClock, spent>>
    BY <1>11 DEF LoginWrong, LoginRight
  <2>4. CASE x.who \notin DOMAIN users
    BY <1>1, <1>2, <2>2, <2>3, <2>4 DEF UpdateUser
  <2>5. CASE x.who \in DOMAIN users
    <3>1. PICK row : row = [users[x.who] EXCEPT !.fails = f, !.lock = l]
      OBVIOUS
    <3>2. users[x.who] \in UserRow /\ DemoOrg \in orgs
      BY <2>5 DEF ApiInv, UserInv
    <3>3. row \in UserRow /\ row.fails = f /\ row.lock = l
      BY <3>1, <3>2 DEF UserRow
    <3>4. users' = Put(users, x.who, row)
      BY <2>2, <2>5, <3>1 DEF UpdateUser
    <3> QED BY <1>1, <1>4, <2>1, <2>2, <2>3, <3>2, <3>3, <3>4
  <2> QED BY <2>4, <2>5
<1>12. ASSUME NEW h \in Http, NEW c \in Callers, NEW u \in Names, CreateUser(h, c, u) PROVE UserInv'
  <2>1. c.org = DemoOrg /\ DemoOrg \in orgs
    <3>1. c.by = "token"
      BY <1>12 DEF CreateUser
    <3>2. CASE \E t \in issuedTokens : c = ByToken(t)
      BY <3>2 DEF ByToken, Idle, ApiInv, KeyInv
    <3>3. CASE \E k \in DOMAIN apiKeys : c = ByKey(k)
      BY <3>1, <3>3 DEF ByKey, Idle
    <3> QED BY <3>2, <3>3 DEF Callers
  <2>2. UNCHANGED <<orgs, apiClock>> /\ Called /\ (UNCHANGED users \/ users' = Put(users, u, NewUser(c.org)))
    BY <1>12 DEF CreateUser, Reads, tables
  <2>3. CASE UNCHANGED users
    BY <1>1, <1>2, <1>3, <2>2, <2>3
  <2>4. CASE users' = Put(users, u, NewUser(c.org))
    <3>1. u \in People /\ users' = Put(users, u, NewUser(DemoOrg))
      BY <2>1, <2>4 DEF People
    <3> QED BY <1>1, <1>3, <1>4, <1>8, <2>1, <2>2, <3>1
  <2> QED BY <2>2, <2>3, <2>4
<1>13. ASSUME NEW h \in Http, NEW c, Investigate(h, c) PROVE UserInv'
  BY <1>1, <1>2, <1>3, <1>13 DEF Investigate, Reads, Still, tables
<1>14. ASSUME NEW h \in Http, SaveInvestigation(h) \/ SaveMetrics(h) \/ Audit(h) PROVE UserInv'
  BY <1>1, <1>2, <1>14 DEF SaveInvestigation, SaveMetrics, Audit, Reads, Still, tables
<1>15. ASSUME NEW k, DeactivateKey(k) \/ (\E r : CreateKey(k, r)) PROVE UserInv'
  <2>1. UNCHANGED <<orgs, users, apiClock, spent>>
    BY <1>15, Zenon DEF DeactivateKey, CreateKey, Still
  <2> QED BY <1>1, <1>2, <2>1
<1>16. ASSUME NEW u, DeleteUser(u) PROVE UserInv'
  <2>1. spent' \in [logins : Nat, deletions : Nat, calls : Nat] /\ spent'.logins = sp.logins
    BY <1>1, <1>16 DEF DeleteUser
  <2>2. UNCHANGED <<orgs, apiClock>> /\ DOMAIN users' \subseteq DOMAIN users
        /\ \A v \in DOMAIN users' : users'[v] = users[v]
    BY <1>16 DEF DeleteUser, Drop
  <2> QED BY <1>1, <2>1, <2>2 DEF ApiInv, UserInv
<1>17. CASE ApiTick
  BY <1>17 DEF ApiTick, tables, ApiInv, UserInv
<1>18. CASE MigrateStart \/ MigrateTable
  BY <1>1, <1>2, <1>18 DEF MigrateStart, MigrateTable, tables
<1> QED
  BY <1>5, <1>6, <1>7, <1>9, <1>10, <1>11, <1>12, <1>13, <1>14, <1>15, <1>16, <1>17, <1>18, Zenon
  DEF ApiStep, ApiNext, ServeLogin, ServeData, DemoToken

LEMMA KeysKeep == ASSUME ApiInv, ApiStep PROVE KeyInv' /\ orgs \subseteq orgs'
<1>1. ASSUME UNCHANGED <<apiKeys, issuedTokens>>, orgs \subseteq orgs' PROVE KeyInv' /\ orgs \subseteq orgs'
  BY <1>1 DEF ApiInv, KeyInv
<1>2. ASSUME NEW u \in DOMAIN users', Issue(u), UNCHANGED <<apiKeys, orgs>> PROVE KeyInv' /\ orgs \subseteq orgs'
  <2>1. u \in People /\ users'[u].org = DemoOrg /\ DemoOrg \in orgs
    BY <1>2, UsersKeep DEF UserInv, UserRow
  <2>2. issuedTokens' = issuedTokens \cup {[user |-> u, org |-> DemoOrg]}
    BY <1>2, <2>1 DEF Issue
  <2> QED BY <1>2, <2>1, <2>2 DEF ApiInv, KeyInv
<1>3. ASSUME NEW h \in Http, DemoStart(h) \/ DemoCreateOrg(h) \/ Return(h) PROVE KeyInv' /\ orgs \subseteq orgs'
  BY <1>1, <1>3 DEF DemoStart, DemoCreateOrg, Return, Reads, tables
<1>4. ASSUME NEW h \in Http, DemoReadUser(h) \/ DemoCreateUser(h) PROVE KeyInv' /\ orgs \subseteq orgs'
  <2>1. UNCHANGED <<apiKeys, orgs>> /\ (UNCHANGED issuedTokens \/ (DemoUser \in DOMAIN users' /\ Issue(DemoUser)))
    BY <1>4 DEF DemoReadUser, DemoCreateUser, Reads, tables, Put
  <2> QED BY <1>1, <1>2, <2>1
<1>5. ASSUME NEW h \in Http, NEW u, LoginRead(h, u) PROVE KeyInv' /\ orgs \subseteq orgs'
  BY <1>1, <1>5 DEF LoginRead, Reads, tables
<1>6. ASSUME NEW h \in Http, LoginWrong(h) \/ LoginRight(h) PROVE KeyInv' /\ orgs \subseteq orgs'
  BY <1>1, <1>6 DEF LoginWrong, LoginRight
<1>7. ASSUME NEW h \in Http, NEW c, Investigate(h, c) \/ (\E u : CreateUser(h, c, u)) PROVE KeyInv' /\ orgs \subseteq orgs'
  BY <1>1, <1>7 DEF Investigate, CreateUser, Reads, tables
<1>8. ASSUME NEW h \in Http, SaveInvestigation(h) \/ SaveMetrics(h) \/ Audit(h) PROVE KeyInv' /\ orgs \subseteq orgs'
  BY <1>1, <1>8 DEF SaveInvestigation, SaveMetrics, Audit, Reads, tables
<1>9. ASSUME NEW k \in KeyIds, NEW r \in {"analyst", "api_client"}, CreateKey(k, r) PROVE KeyInv' /\ orgs \subseteq orgs'
  <2>1. PICK row \in KeyRow : row = [org |-> DemoOrg, role |-> r, active |-> TRUE]
    BY DEF KeyRow
  <2>2. DemoOrg \in orgs /\ UNCHANGED <<orgs, issuedTokens>> /\ apiKeys' = Put(apiKeys, k, row)
    BY <1>9, <2>1 DEF CreateKey
  <2> QED BY <2>2 DEF Put, ApiInv, KeyInv
<1>10. ASSUME NEW k \in KeyIds, DeactivateKey(k) PROVE KeyInv' /\ orgs \subseteq orgs'
  <2>1. k \in DOMAIN apiKeys /\ UNCHANGED <<orgs, issuedTokens>> /\ apiKeys[k] \in KeyRow
    BY <1>10 DEF DeactivateKey, ApiInv, KeyInv
  <2>2. PICK row : row = [apiKeys[k] EXCEPT !.active = FALSE]
    OBVIOUS
  <2>3. row \in KeyRow /\ apiKeys' = [apiKeys EXCEPT ![k] = row]
    BY <1>10, <2>1, <2>2 DEF KeyRow, DeactivateKey
  <2> QED BY <2>1, <2>3 DEF ApiInv, KeyInv
<1>11. ASSUME NEW u, DeleteUser(u) PROVE KeyInv' /\ orgs \subseteq orgs'
  BY <1>1, <1>11 DEF DeleteUser
<1>12. CASE ApiTick \/ MigrateStart \/ MigrateTable
  BY <1>1, <1>12 DEF ApiTick, MigrateStart, MigrateTable, tables
<1> QED
  BY <1>3, <1>4, <1>5, <1>6, <1>7, <1>8, <1>9, <1>10, <1>11, <1>12, Zenon
  DEF ApiStep, ApiNext, ServeLogin, ServeData, DemoToken

\* An endpoint that needs an identity is called by somebody of an organisation.
LEMMA CallerFacts ==
  ASSUME ApiInv, NEW c \in Callers
  PROVE  c \in Request_ /\ c.org = DemoOrg /\ DemoOrg \in orgs /\ c.inv = 0
<1>1. ASSUME NEW t \in issuedTokens, c = ByToken(t) PROVE c \in Request_ /\ c.org = DemoOrg /\ DemoOrg \in orgs /\ c.inv = 0
  <2>1. t.user \in People /\ t.org = DemoOrg /\ DemoOrg \in orgs
    BY <1>1 DEF ApiInv, KeyInv
  <2>2. c = [pc |-> "idle", who |-> t.user, org |-> DemoOrg, by |-> "token", fails |-> 0, inv |-> 0, act |-> None]
    BY <1>1, <2>1 DEF ByToken, Idle
  <2> QED BY <2>1, <2>2 DEF Request_, Acting, Stages, Acts_
<1>2. ASSUME NEW k \in DOMAIN apiKeys, c = ByKey(k) PROVE c \in Request_ /\ c.org = DemoOrg /\ DemoOrg \in orgs /\ c.inv = 0
  <2>1. k \in KeyIds /\ apiKeys[k].org = DemoOrg /\ DemoOrg \in orgs
    BY <1>2 DEF ApiInv, KeyInv, KeyRow
  <2>2. c = [pc |-> "idle", who |-> k, org |-> DemoOrg, by |-> "key", fails |-> 0, inv |-> 0, act |-> None]
    BY <1>2, <2>1 DEF ByKey, Idle
  <2> QED BY <2>1, <2>2 DEF Request_, Acting, Stages, Acts_
<1> QED BY <1>1, <1>2 DEF Callers

\* Investigations are numbered one after the other, and a metric is of one that
\* is there.
LEMMA CasesKeep == ASSUME ApiInv, ApiStep PROVE CaseInv' /\ DOMAIN invs \subseteq DOMAIN invs' /\ metrics \subseteq metrics'
<1> DEFINE Goal == CaseInv' /\ DOMAIN invs \subseteq DOMAIN invs' /\ metrics \subseteq metrics'
<1>1. ASSUME UNCHANGED <<invs, metrics>> PROVE Goal
  BY <1>1, KeysKeep DEF ApiInv, CaseInv
<1>2. ASSUME NEW h \in Http, SaveInvestigation(h) PROVE Goal
  <2>1. PICK n \in Nat : DOMAIN invs = 1..n
    BY DEF ApiInv, CaseInv
  <2>2. Cardinality(DOMAIN invs) = n
    BY <2>1, FS_Interval
  <2>3. http[h].org = DemoOrg /\ DemoOrg \in orgs
    BY <1>2 DEF SaveInvestigation, At, ApiInv, RequestInv, RequestOK_
  <2>4. invs' = Put(invs, n + 1, [org |-> DemoOrg]) /\ UNCHANGED <<orgs, metrics>>
    BY <1>2, <2>2, <2>3 DEF SaveInvestigation
  <2>5. DOMAIN invs' = 1..(n + 1) /\ DOMAIN invs \subseteq DOMAIN invs'
    BY <2>1, <2>4 DEF Put
  <2>6. \A i \in DOMAIN invs' : invs'[i] = [org |-> DemoOrg]
    BY <2>4 DEF Put, ApiInv, CaseInv
  <2> QED BY <2>3, <2>4, <2>5, <2>6 DEF ApiInv, CaseInv
<1>3. ASSUME NEW h \in Http, SaveMetrics(h) PROVE Goal
  <2>1. http[h].org = DemoOrg /\ http[h].inv \in DOMAIN invs
    BY <1>3 DEF SaveMetrics, At, ApiInv, RequestInv, RequestOK_
  <2> QED BY <1>3, <2>1 DEF SaveMetrics, ApiInv, CaseInv
<1>4. ASSUME NEW h \in Http, DemoToken(h) \/ Return(h) \/ (\E u : LoginRead(h, u)) \/ LoginWrong(h) \/ LoginRight(h) PROVE Goal
  <2>1. UNCHANGED <<invs, metrics>>
    BY <1>4 DEF DemoToken, DemoStart, DemoCreateOrg, DemoReadUser, DemoCreateUser, Return, LoginRead, LoginWrong,
                LoginRight, Reads, tables
  <2> QED BY <1>1, <2>1
<1>5. ASSUME NEW h \in Http, NEW c, Investigate(h, c) \/ (\E u : CreateUser(h, c, u)) \/ Audit(h) PROVE Goal
  <2>1. UNCHANGED <<invs, metrics>>
    BY <1>5 DEF Investigate, CreateUser, Audit, Reads, tables
  <2> QED BY <1>1, <2>1
<1>6. ASSUME NEW k, DeactivateKey(k) \/ (\E r : CreateKey(k, r)) PROVE Goal
  <2>1. UNCHANGED <<invs, metrics>>
    BY <1>6, Zenon DEF DeactivateKey, CreateKey
  <2> QED BY <1>1, <2>1
<1>7. ASSUME NEW u, DeleteUser(u) PROVE Goal
  BY <1>1, <1>7 DEF DeleteUser
<1>8. CASE ApiTick \/ MigrateStart \/ MigrateTable
  BY <1>1, <1>8 DEF ApiTick, MigrateStart, MigrateTable, tables
<1> QED
  BY <1>2, <1>3, <1>4, <1>5, <1>6, <1>7, <1>8, Zenon
  DEF ApiStep, ApiNext, ServeLogin, ServeData

\* A function over an initial part of the naturals is a sequence.
LEMMA FunctionIsSeq == ASSUME NEW n \in Nat, NEW S, NEW f \in [1..n -> S] PROVE f \in Seq(S)
<1>1. [i \in 1..n |-> f[i]] \in Seq(S)
  OBVIOUS
<1>2. f = [i \in 1..n |-> f[i]]
  OBVIOUS
<1> QED BY <1>1, <1>2

\* An audit entry stays when its user goes, and then names nobody.
LogKept == \A i \in DOMAIN auditLog : i \in DOMAIN auditLog' /\ auditLog'[i].of = auditLog[i].of

LEMMA LogKeeps == ASSUME ApiInv, ApiStep PROVE LogInv' /\ LogKept
<1>1. orgs \subseteq orgs' /\ metrics \subseteq metrics' /\ UserInv'
  BY UsersKeep, KeysKeep, CasesKeep
<1>2. PICK n \in Nat : n = Len(auditLog) /\ DOMAIN auditLog = 1..n /\ auditLog \in Seq(AuditRow)
                       /\ \A i \in 1..n : auditLog[i] \in AuditRow
  BY LenProperties, ElementOfSeq DEF ApiInv, LogInv
<1>3. ASSUME UNCHANGED auditLog, DOMAIN users \subseteq DOMAIN users' PROVE LogInv' /\ LogKept
  BY <1>1, <1>3 DEF ApiInv, LogInv, LogKept
<1>4. ASSUME NEW h \in Http, Audit(h) PROVE LogInv' /\ LogKept
  <2>1. CASE UNCHANGED auditLog
    BY <1>3, <1>4, <2>1 DEF Audit, Reads, tables
  <2>2. CASE auditLog' = Append(auditLog, Entry(h)) /\ UNCHANGED users /\ http[h].who \in DOMAIN users
    <3>1. PICK x \in Request_ : x = http[h] /\ x.org = DemoOrg /\ DemoOrg \in orgs /\ RequestOK_(x) /\ x.pc = "audit"
      BY <1>4 DEF Audit, At, ApiInv, RequestInv, RequestOK_
    <3>2. PICK e : e = [org |-> x.org, user |-> x.who, action |-> x.act, of |-> x.inv]
      OBVIOUS
    <3>3. e \in AuditRow /\ e.org = DemoOrg /\ e.user \in DOMAIN users /\ e.of = x.inv
      BY <2>2, <3>1, <3>2 DEF AuditRow, Request_
    <3>4. x.inv # 0 => \E m \in metrics : m.investigation = x.inv
      BY <3>1 DEF RequestOK_
    <3>5. auditLog' = Append(auditLog, e)
      BY <2>2, <3>1, <3>2 DEF Entry
    <3>6. auditLog' \in Seq(AuditRow) /\ Len(auditLog') = n + 1 /\ auditLog'[n + 1] = e
          /\ \A i \in 1..n : auditLog'[i] = auditLog[i]
      BY <1>2, <3>3, <3>5, AppendProperties
    <3>7. DOMAIN auditLog' = 1..(n + 1) /\ 1..(n + 1) = (1..n) \cup {n + 1}
      BY <3>6, LenProperties
    <3>8. LogKept
      BY <1>2, <3>6, <3>7 DEF LogKept
    <3>9. ASSUME NEW i \in 1..n
          PROVE  /\ auditLog'[i].user \in DOMAIN users' \cup {None} /\ auditLog'[i].org \in orgs'
                 /\ auditLog'[i].of # 0 => \E m \in metrics' : m.investigation = auditLog'[i].of
      BY <1>1, <1>2, <2>2, <3>6 DEF ApiInv, LogInv
    <3>10. /\ auditLog'[n + 1].user \in DOMAIN users' \cup {None} /\ auditLog'[n + 1].org \in orgs'
           /\ auditLog'[n + 1].of # 0 => \E m \in metrics' : m.investigation = auditLog'[n + 1].of
      BY <1>1, <2>2, <3>1, <3>3, <3>4, <3>6
    <3> QED BY <3>6, <3>7, <3>8, <3>9, <3>10 DEF LogInv
  <2> QED BY <1>4, <2>1, <2>2 DEF Audit, Reads, tables
<1>5. ASSUME NEW u, DeleteUser(u) PROVE LogInv' /\ LogKept
  <2>1. DOMAIN users' = DOMAIN users \ {u} /\ UNCHANGED <<orgs, metrics>>
        /\ auditLog' = [i \in 1..n |-> IF auditLog[i].user = u THEN [auditLog[i] EXCEPT !.user = None] ELSE auditLog[i]]
    BY <1>2, <1>5 DEF DeleteUser, Drop
  <2>2. ASSUME NEW i \in 1..n
        PROVE  /\ auditLog'[i] \in AuditRow /\ auditLog'[i].of = auditLog[i].of /\ auditLog'[i].org = auditLog[i].org
               /\ auditLog'[i].user = (IF auditLog[i].user = u THEN None ELSE auditLog[i].user)
    <3>1. PICK r \in AuditRow : r = auditLog[i]
      BY <1>2
    <3>2. CASE r.user = u
      <4>1. auditLog'[i] = [r EXCEPT !.user = None]
        BY <2>1, <3>1, <3>2
      <4> QED BY <3>1, <3>2, <4>1 DEF AuditRow, Acting
    <3>3. CASE r.user # u
      <4>1. auditLog'[i] = r
        BY <2>1, <3>1, <3>3
      <4> QED BY <3>1, <3>3, <4>1
    <3> QED BY <3>2, <3>3
  <2>3. DOMAIN auditLog' = 1..n
    BY <2>1
  <2>4. auditLog' \in Seq(AuditRow)
    <3>1. auditLog' \in [1..n -> AuditRow]
      BY <2>1, <2>2
    <3> QED BY <3>1, FunctionIsSeq
  <2>5. \A i \in 1..n : /\ auditLog'[i].user \in DOMAIN users' \cup {None} /\ auditLog'[i].org \in orgs'
                        /\ auditLog'[i].of # 0 => \E m \in metrics' : m.investigation = auditLog'[i].of
    BY <1>2, <2>1, <2>2 DEF ApiInv, LogInv
  <2> QED BY <1>2, <2>2, <2>3, <2>4, <2>5 DEF LogInv, LogKept
<1>6. ASSUME NEW h \in Http, DemoToken(h) \/ Return(h) \/ (\E u : LoginRead(h, u)) \/ LoginWrong(h) \/ LoginRight(h)
      PROVE LogInv' /\ LogKept
  <2>1. UNCHANGED auditLog /\ DOMAIN users \subseteq DOMAIN users'
    BY <1>6 DEF DemoToken, DemoStart, DemoCreateOrg, DemoReadUser, DemoCreateUser, Return, LoginRead, LoginWrong,
                LoginRight, Reads, tables, Put, UpdateUser
  <2> QED BY <1>3, <2>1
<1>7. ASSUME NEW h \in Http, NEW c, Investigate(h, c) \/ (\E u : CreateUser(h, c, u)) PROVE LogInv' /\ LogKept
  <2>1. UNCHANGED auditLog /\ DOMAIN users \subseteq DOMAIN users'
    BY <1>7 DEF Investigate, CreateUser, Reads, tables, Put
  <2> QED BY <1>3, <2>1
<1>8. ASSUME NEW h \in Http, SaveInvestigation(h) \/ SaveMetrics(h) PROVE LogInv' /\ LogKept
  BY <1>3, <1>8 DEF SaveInvestigation, SaveMetrics
<1>9. ASSUME NEW k, DeactivateKey(k) \/ (\E r : CreateKey(k, r)) PROVE LogInv' /\ LogKept
  <2>1. UNCHANGED <<auditLog, users>>
    BY <1>9, Zenon DEF DeactivateKey, CreateKey
  <2> QED BY <1>3, <2>1
<1>10. CASE ApiTick \/ MigrateStart \/ MigrateTable
  BY <1>3, <1>10 DEF ApiTick, MigrateStart, MigrateTable, tables
<1> QED
  BY <1>4, <1>5, <1>6, <1>7, <1>8, <1>9, <1>10, Zenon
  DEF ApiStep, ApiNext, ServeLogin, ServeData

\* What one endpoint holds survives every step of the others.
LEMMA RequestSurvives ==
  ASSUME ApiInv, ApiStep, NEW x, RequestOK_(x), spent.logins <= spent'.logins
  PROVE  RequestOK_(x)'
<1>1. orgs \subseteq orgs' /\ metrics \subseteq metrics' /\ DOMAIN invs \subseteq DOMAIN invs' /\ LogKept
  BY KeysKeep, CasesKeep, LogKeeps
<1>2. spent.logins \in Nat /\ spent'.logins \in Nat
  BY UsersKeep DEF ApiInv, UserInv
<1>3. x.pc = "verify" => x.fails < spent'.logins
  BY <1>2 DEF RequestOK_, Request_
<1> QED BY <1>1, <1>3 DEF RequestOK_, LogKept

LEMMA RequestsKeep == ASSUME ApiInv, ApiStep PROVE RequestInv'
<1>1. PICK sp \in [logins : Nat, deletions : Nat, calls : Nat] : sp = spent
  BY DEF ApiInv, UserInv
<1>2. ASSUME spent.logins <= spent'.logins, UNCHANGED http PROVE RequestInv'
  BY <1>2, RequestSurvives DEF ApiInv, RequestInv
<1>3. ASSUME spent.logins <= spent'.logins, NEW h \in Http, NEW q, To(h, q), RequestOK_(q)' PROVE RequestInv'
  <2>1. http' = [http EXCEPT ![h] = q] /\ DOMAIN http = Http /\ \A g \in Http : RequestOK_(http[g])
    BY <1>3 DEF To, ApiInv, RequestInv
  <2>2. \A g \in Http \ {h} : http'[g] = http[g] /\ RequestOK_(http[g])'
    BY <1>3, <2>1, RequestSurvives
  <2> QED BY <1>3, <2>1, <2>2 DEF RequestInv
<1>4. /\ Called => spent.logins = spent'.logins /\ sp.logins \in Nat
      /\ UNCHANGED spent => spent.logins <= spent'.logins
      /\ \A h \in Http : RequestOK_(http[h])
  BY <1>1 DEF Called, ApiInv, RequestInv
<1>5. orgs \subseteq orgs' /\ metrics \subseteq metrics' /\ DOMAIN invs \subseteq DOMAIN invs'
  BY KeysKeep, CasesKeep
<1>6. Idle \in Request_ /\ RequestOK_(Idle)'
  BY DEF Idle, Request_, Stages, Acting, Acts_, RequestOK_
<1>7. ASSUME NEW x \in Request_, NEW q, q = [x EXCEPT !.pc = "failed"] \/ q = [x EXCEPT !.pc = "refused"], x.pc = "verify" => x.inv = 0,
             q.pc = "refused" => x.inv = 0
      PROVE RequestOK_(q)'
  <2>1. q \in Request_ /\ q.pc \in {"failed", "refused"} /\ q.inv = x.inv
    BY <1>7 DEF Request_, Stages
  <2> QED BY <1>7, <2>1 DEF RequestOK_
<1>8. ASSUME NEW h \in Http, DemoToken(h) PROVE RequestInv'
  <2>1. PICK x \in Request_ : x = http[h] /\ RequestOK_(x)
    BY <1>4 DEF RequestOK_
  <2>2. CASE DemoStart(h)
    <3>1. PICK q : To(h, q) /\ q \in {[Idle EXCEPT !.pc = "demo_user"], [Idle EXCEPT !.pc = "demo_org"]}
                   /\ (q.pc = "demo_user" => DemoOrg \in orgs)
      BY <2>2 DEF DemoStart, Idle
    <3>2. q \in Request_ /\ q.pc \in {"demo_user", "demo_org"} /\ q.inv = 0
      BY <3>1 DEF Idle, Request_, Stages, Acting, Acts_
    <3>3. RequestOK_(q)'
      BY <1>5, <3>1, <3>2 DEF RequestOK_
    <3> QED BY <1>3, <1>4, <1>1, <2>2, <3>1, <3>3 DEF DemoStart
  <2>3. CASE DemoCreateOrg(h) \/ DemoReadUser(h) \/ DemoCreateUser(h)
    <3>1. PICK p \in {"failed", "demo_user", "answered", "demo_create"} :
            Ends(h, p) /\ UNCHANGED spent /\ (p \in {"demo_user", "demo_create"} => DemoOrg \in orgs')
      BY <1>5, <2>1, <2>3 DEF DemoCreateOrg, DemoReadUser, DemoCreateUser, At, RequestOK_, Reads, tables
    <3>2. x.inv = 0
      BY <2>1, <2>3 DEF DemoCreateOrg, DemoReadUser, DemoCreateUser, At, RequestOK_
    <3>3. PICK q : q = [x EXCEPT !.pc = p]
      OBVIOUS
    <3>4. q \in Request_ /\ q.pc = p /\ q.inv = 0
      BY <3>1, <3>2, <3>3 DEF Request_, Stages
    <3>5. RequestOK_(q)'
      BY <3>1, <3>4 DEF RequestOK_
    <3>6. To(h, q)
      BY <2>1, <3>1, <3>3 DEF Ends
    <3> QED BY <1>3, <1>4, <3>1, <3>5, <3>6
  <2> QED BY <1>8, <2>2, <2>3 DEF DemoToken
<1>9. ASSUME NEW h \in Http, Return(h) PROVE RequestInv'
  BY <1>3, <1>4, <1>6, <1>9 DEF Return
<1>10. ASSUME NEW h \in Http, NEW u \in People, LoginRead(h, u) PROVE RequestInv'
  <2>1. spent'.logins = sp.logins + 1 /\ sp.logins \in Nat
    BY <1>1, <1>10 DEF LoginRead
  <2>2. CASE To(h, [Idle EXCEPT !.pc = "refused"])
    <3>1. RequestOK_([Idle EXCEPT !.pc = "refused"])'
      BY <1>6, <1>7 DEF Idle
    <3> QED BY <1>1, <1>3, <2>1, <2>2, <3>1
  <2>3. CASE u \in DOMAIN users /\ To(h, [Idle EXCEPT !.pc = "verify", !.who = u, !.fails = users[u].fails])
    <3>1. PICK q : q = [Idle EXCEPT !.pc = "verify", !.who = u, !.fails = users[u].fails]
      OBVIOUS
    <3>2. users[u].fails \in Nat /\ users[u].fails <= sp.logins
      BY <1>1, <2>3 DEF ApiInv, UserInv, UserRow
    <3>3. q \in Request_ /\ q.pc = "verify" /\ q.who = u /\ q.fails = users[u].fails /\ q.inv = 0
      BY <3>1, <3>2 DEF Idle, Request_, Stages, Acting, Acts_
    <3>4. RequestOK_(q)'
      <4>1. q.fails < spent'.logins
        BY <2>1, <3>2, <3>3
      <4> QED BY <3>3, <4>1 DEF RequestOK_
    <3> QED BY <1>1, <1>3, <2>1, <2>3, <3>1, <3>4
  <2> QED BY <1>10, <2>2, <2>3 DEF LoginRead
<1>11. ASSUME NEW h \in Http, LoginWrong(h) \/ LoginRight(h) PROVE RequestInv'
  <2>1. PICK x \in Request_ : x = http[h] /\ x.inv = 0
    BY <1>4, <1>11 DEF LoginWrong, LoginRight, LoggingIn, At, RequestOK_
  <2>2. PICK q : q \in {[x EXCEPT !.pc = "failed"], [x EXCEPT !.pc = "refused"]} /\ To(h, q) /\ UNCHANGED spent
    BY <1>11, <2>1 DEF LoginWrong, LoginRight, Ends
  <2> QED BY <1>3, <1>4, <1>7, <2>1, <2>2
<1>12. ASSUME NEW h \in Http, NEW c \in Callers, Investigate(h, c) \/ (\E u \in Names : CreateUser(h, c, u))
       PROVE RequestInv'
  <2>1. c \in Request_ /\ c.org = DemoOrg /\ DemoOrg \in orgs' /\ c.inv = 0
    BY <1>5, CallerFacts
  <2>2. PICK p \in {"save", "failed", "audit"}, a \in Acts_ : To(h, [c EXCEPT !.pc = p, !.act = a]) /\ Called
    <3>1. CASE Investigate(h, c)
      BY <3>1 DEF Investigate, Acts_
    <3>2. ASSUME NEW u \in Names, CreateUser(h, c, u)
          PROVE  \E p \in {"save", "failed", "audit"}, a \in Acts_ : To(h, [c EXCEPT !.pc = p, !.act = a]) /\ Called
      <4>1. Called /\ (To(h, [c EXCEPT !.pc = "failed"]) \/ To(h, [c EXCEPT !.pc = "audit", !.act = "user_created"]))
        BY <3>2 DEF CreateUser
      <4>2. [c EXCEPT !.pc = "failed"] = [c EXCEPT !.pc = "failed", !.act = c.act] /\ c.act \in Acts_
        BY <2>1 DEF Request_
      <4> QED BY <4>1, <4>2 DEF Acts_
    <3> QED BY <1>12, <3>1, <3>2
  <2>3. PICK q : q = [c EXCEPT !.pc = p, !.act = a]
    OBVIOUS
  <2>4. q \in Request_ /\ q.pc = p /\ q.org = DemoOrg /\ q.inv = 0
    BY <2>1, <2>2, <2>3 DEF Request_, Stages
  <2>5. RequestOK_(q)'
    BY <2>1, <2>4 DEF RequestOK_
  <2> QED BY <1>1, <1>3, <1>4, <2>2, <2>3, <2>5
<1>13. ASSUME NEW h \in Http, SaveInvestigation(h) PROVE RequestInv'
  <2>1. PICK x \in Request_ : x = http[h] /\ x.org = DemoOrg /\ DemoOrg \in orgs'
    BY <1>4, <1>5, <1>13 DEF SaveInvestigation, At, RequestOK_
  <2>2. PICK i : i = Cardinality(DOMAIN invs) + 1
    OBVIOUS
  <2>3. i \in Nat /\ i \in DOMAIN invs'
    <3>1. PICK n \in Nat : DOMAIN invs = 1..n
      BY DEF ApiInv, CaseInv
    <3>2. Cardinality(DOMAIN invs) = n
      BY <3>1, FS_Interval
    <3>3. i = n + 1
      BY <2>2, <3>2
    <3> QED BY <1>13, <2>2, <3>3 DEF SaveInvestigation, Put
  <2>4. PICK q : q = [x EXCEPT !.pc = "metrics", !.inv = i]
    OBVIOUS
  <2>5. q \in Request_ /\ q.pc = "metrics" /\ q.org = DemoOrg /\ q.inv = i
    BY <2>1, <2>3, <2>4 DEF Request_, Stages
  <2>6. RequestOK_(q)'
    BY <2>1, <2>3, <2>5 DEF RequestOK_
  <2>7. To(h, q) /\ UNCHANGED spent
    BY <1>13, <2>1, <2>2, <2>4 DEF SaveInvestigation
  <2> QED BY <1>3, <1>4, <2>6, <2>7
<1>14. ASSUME NEW h \in Http, SaveMetrics(h) PROVE RequestInv'
  <2>1. PICK x \in Request_ : x = http[h] /\ x.org = DemoOrg /\ DemoOrg \in orgs'
    BY <1>4, <1>5, <1>14 DEF SaveMetrics, At, RequestOK_
  <2>2. PICK q : q = [x EXCEPT !.pc = "audit"]
    OBVIOUS
  <2>3. q \in Request_ /\ q.pc = "audit" /\ q.org = DemoOrg /\ q.inv = x.inv
    BY <2>1, <2>2 DEF Request_, Stages
  <2>4. \E m \in metrics' : m.investigation = x.inv
    <3>1. PICK r : r = [org |-> x.org, investigation |-> x.inv]
      OBVIOUS
    <3>2. r \in metrics' /\ r.investigation = x.inv
      BY <1>14, <2>1, <3>1 DEF SaveMetrics
    <3> QED BY <3>2
  <2>5. RequestOK_(q)'
    BY <2>1, <2>3, <2>4 DEF RequestOK_
  <2>6. To(h, q) /\ UNCHANGED spent
    BY <1>14, <2>1, <2>2 DEF SaveMetrics, Ends
  <2> QED BY <1>3, <1>4, <2>5, <2>6
<1>15. ASSUME NEW h \in Http, Audit(h) PROVE RequestInv'
  <2>1. PICK x \in Request_ : x = http[h]
    BY <1>4 DEF RequestOK_
  <2>2. UNCHANGED spent /\ (Ends(h, "failed") \/ (Ends(h, "answered") /\ auditLog' = Append(auditLog, Entry(h))))
    BY <1>15 DEF Audit
  <2>3. CASE Ends(h, "failed")
    <3>1. PICK q : q = [x EXCEPT !.pc = "failed"]
      OBVIOUS
    <3>2. q \in Request_ /\ q.pc = "failed"
      BY <3>1 DEF Request_, Stages
    <3>3. RequestOK_(q)' /\ To(h, q)
      BY <2>1, <2>3, <3>1, <3>2 DEF RequestOK_, Ends
    <3> QED BY <1>3, <1>4, <2>2, <3>3
  <2>4. CASE Ends(h, "answered") /\ auditLog' = Append(auditLog, Entry(h))
    <3>1. PICK q : q = [x EXCEPT !.pc = "answered"]
      OBVIOUS
    <3>2. q \in Request_ /\ q.pc = "answered" /\ q.inv = x.inv
      BY <3>1 DEF Request_, Stages
    <3>3. PICK e : e = Entry(h) /\ e.of = x.inv
      <4>1. PICK e : e = Entry(h)
        OBVIOUS
      <4>2. e.of = x.inv
        BY <2>1, <4>1 DEF Entry
      <4> QED BY <4>1, <4>2
    <3>4. PICK n \in Nat : n = Len(auditLog) /\ auditLog \in Seq(AuditRow)
      BY LenProperties DEF ApiInv, LogInv
    <3>5. PICK T : T = AuditRow \cup {e}
      OBVIOUS
    <3>6. auditLog \in Seq(T) /\ e \in T
      BY <3>4, <3>5, SeqMonotonic
    <3>7. Append(auditLog, e) \in Seq(T) /\ Len(Append(auditLog, e)) = n + 1 /\ Append(auditLog, e)[n + 1] = e
      BY <3>4, <3>6, AppendProperties
    <3>8. n + 1 \in DOMAIN auditLog' /\ auditLog'[n + 1].of = x.inv
      BY <2>4, <3>3, <3>4, <3>7, LenProperties
    <3>9. RequestOK_(q)' /\ To(h, q)
      BY <2>1, <2>4, <3>1, <3>2, <3>8 DEF RequestOK_, Ends
    <3> QED BY <1>3, <1>4, <2>2, <3>9
  <2> QED BY <2>2, <2>3, <2>4
<1>16. ASSUME NEW k, DeactivateKey(k) \/ (\E r : CreateKey(k, r)) PROVE RequestInv'
  <2>1. UNCHANGED <<http, spent>>
    BY <1>16, Zenon DEF DeactivateKey, CreateKey
  <2> QED BY <1>2, <1>4, <2>1
<1>17. ASSUME NEW u, DeleteUser(u) PROVE RequestInv'
  <2>1. UNCHANGED http /\ spent'.logins = sp.logins /\ sp.logins \in Nat
    BY <1>1, <1>17 DEF DeleteUser
  <2> QED BY <1>1, <1>2, <2>1
<1>18. CASE ApiTick \/ MigrateStart \/ MigrateTable
  BY <1>2, <1>4, <1>18 DEF ApiTick, MigrateStart, MigrateTable
<1> QED
  BY <1>8, <1>9, <1>10, <1>11, <1>12, <1>13, <1>14, <1>15, <1>16, <1>17, <1>18, Zenon
  DEF ApiStep, ApiNext, ServeLogin, ServeData, People

\* A login that overlaps no other holds its user's counter until it writes it.
LEMMA LockKeeps == ASSUME ApiInv, ApiStep PROVE LockInv'
<1>1. DOMAIN http = Http /\ raced \in BOOLEAN
  BY DEF ApiInv, RequestInv, LockInv
<1>2. ASSUME UNCHANGED <<users, wrong, raced, http>> PROVE LockInv'
  BY <1>2 DEF ApiInv, LockInv, LoggingIn, At, WrongCount
<1>3. ASSUME NEW h \in Http, NEW q, To(h, q)
      PROVE  http'[h] = q /\ (\A g \in Http \ {h} : http'[g] = http[g])
  BY <1>1, <1>3 DEF To
<1>4. ASSUME NEW h \in Http, NEW q, To(h, q), q.pc # "verify", UNCHANGED <<users, wrong, raced>> PROVE LockInv'
  BY <1>1, <1>3, <1>4 DEF ApiInv, LockInv, LoggingIn, At, WrongCount
<1>5. ASSUME NEW h \in Http, NEW p, Ends(h, p) PROVE \E q : To(h, q) /\ q.pc = p
  <2>1. http[h] \in Request_
    BY DEF ApiInv, RequestInv, RequestOK_
  <2>2. [http[h] EXCEPT !.pc = p].pc = p
    BY <2>1 DEF Request_
  <2> QED BY <1>5, <2>2 DEF Ends
<1>6. ASSUME NEW h \in Http, NEW p, Ends(h, p), p # "verify", UNCHANGED <<users, wrong, raced>> PROVE LockInv'
  BY <1>4, <1>5, <1>6
<1>7. ASSUME NEW h \in Http, NEW u, u \notin DOMAIN users, NEW q, To(h, q), q.pc # "verify", NEW o,
             users' = Put(users, u, NewUser(o)), UNCHANGED raced, wrong' = wrong \/ wrong' = Drop(wrong, {u})
      PROVE  LockInv'
  <2> SUFFICES ASSUME ~raced PROVE LockInv'
    BY <1>1, <1>7 DEF LockInv
  <2>1. u \notin DOMAIN wrong /\ DOMAIN wrong \subseteq DOMAIN users
    BY <1>7 DEF ApiInv, LockInv
  <2>2. DOMAIN wrong' = DOMAIN wrong /\ \A x \in DOMAIN wrong : wrong'[x] = wrong[x]
    BY <1>7, <2>1 DEF Drop
  <2>3. DOMAIN users' = DOMAIN users \cup {u} /\ users'[u].fails = 0
        /\ \A x \in DOMAIN users : x # u /\ users'[x] = users[x]
    BY <1>7 DEF Put, NewUser
  <2>4. \A x \in DOMAIN users' : users'[x].fails = WrongCount(x)'
    BY <2>1, <2>2, <2>3 DEF ApiInv, LockInv, WrongCount, Get
  <2>5. \A x \in DOMAIN users' \cap DOMAIN wrong' :
            users'[x].lock = IF wrong'[x].n >= MaxFails THEN wrong'[x].at + LockTime ELSE 0
    BY <2>1, <2>2, <2>3 DEF ApiInv, LockInv
  <2>6. \A g \in Http : LoggingIn(g)' =>
            g # h /\ http'[g] = http[g] /\ LoggingIn(g) /\ http'[g].who \in DOMAIN users'
            /\ http'[g].fails = users'[http'[g].who].fails
    BY <1>3, <1>7, <2>3 DEF ApiInv, LockInv, LoggingIn, At
  <2>7. \A f, g \in Http : LoggingIn(f)' /\ LoggingIn(g)' /\ http'[f].who = http'[g].who => f = g
    BY <2>6 DEF ApiInv, LockInv
  <2> QED BY <1>1, <1>7, <2>1, <2>2, <2>3, <2>4, <2>5, <2>6, <2>7 DEF LockInv
<1>8. ASSUME NEW h \in Http, DemoToken(h) PROVE LockInv'
  <2>1. CASE DemoStart(h)
    <3>1. PICK q : To(h, q) /\ q.pc # "verify"
      BY <2>1 DEF DemoStart, Idle
    <3> QED BY <1>4, <2>1, <3>1 DEF DemoStart, Reads, Still, tables
  <2>2. CASE DemoCreateOrg(h) \/ DemoReadUser(h)
    BY <1>6, <2>2 DEF DemoCreateOrg, DemoReadUser, Reads, Still, tables
  <2>3. CASE DemoCreateUser(h)
    <3>1. CASE Ends(h, "failed") /\ UNCHANGED <<users, wrong, raced>>
      BY <1>6, <3>1
    <3>2. CASE DemoUser \notin DOMAIN users /\ users' = Put(users, DemoUser, NewUser(DemoOrg)) /\ Ends(h, "answered")
               /\ UNCHANGED <<wrong, raced>>
      BY <1>5, <1>7, <3>2
    <3> QED BY <2>3, <3>1, <3>2 DEF DemoCreateUser, Reads, Still, tables
  <2> QED BY <1>8, <2>1, <2>2, <2>3 DEF DemoToken
<1>9. ASSUME NEW h \in Http, Return(h) PROVE LockInv'
  <2>1. To(h, Idle) /\ Idle.pc # "verify"
    BY <1>9 DEF Return, Idle
  <2> QED BY <1>4, <1>9, <2>1 DEF Return, Reads, Still, tables
<1>10. ASSUME NEW h \in Http, NEW u \in People, LoginRead(h, u) PROVE LockInv'
  <2> SUFFICES ASSUME ~raced' PROVE LockInv'
    BY <1>1, <1>10 DEF LockInv, LoginRead
  <2>1. ~raced /\ UNCHANGED <<users, wrong>> /\ \A g \in Http \ {h} : ~(LoggingIn(g) /\ http[g].who = u)
    BY <1>10 DEF LoginRead, Reads, tables
  <2>2. CASE To(h, [Idle EXCEPT !.pc = "refused"])
    <3>1. [Idle EXCEPT !.pc = "refused"].pc # "verify" /\ UNCHANGED <<users, wrong, raced>>
      BY <1>1, <1>10, <2>1 DEF Idle, LoginRead
    <3> QED BY <1>4, <2>2, <3>1
  <2>3. CASE u \in DOMAIN users /\ To(h, [Idle EXCEPT !.pc = "verify", !.who = u, !.fails = users[u].fails])
    <3>0. PICK q : q = [Idle EXCEPT !.pc = "verify", !.who = u, !.fails = users[u].fails]
      OBVIOUS
    <3>1. To(h, q) /\ q.pc = "verify" /\ q.who = u /\ q.fails = users[u].fails
      BY <2>3, <3>0 DEF Idle
    <3>2. http'[h] = q /\ \A g \in Http \ {h} : http'[g] = http[g]
      BY <1>3, <3>1
    <3>3. \A g \in Http : LoggingIn(g)' => http'[g].who \in DOMAIN users /\ http'[g].fails = users[http'[g].who].fails
      BY <2>1, <2>3, <3>1, <3>2 DEF ApiInv, LockInv, LoggingIn, At
    <3>4. \A f, g \in Http : LoggingIn(f)' /\ LoggingIn(g)' /\ http'[f].who = http'[g].who => f = g
      BY <2>1, <3>1, <3>2 DEF ApiInv, LockInv, LoggingIn, At
    <3>5. raced' \in BOOLEAN /\ \A x : WrongCount(x)' = WrongCount(x)
      BY <1>1, <1>10, <2>1 DEF LoginRead, WrongCount
    <3> QED BY <2>1, <3>3, <3>4, <3>5 DEF ApiInv, LockInv
  <2> QED BY <1>10, <2>2, <2>3 DEF LoginRead
<1>11. ASSUME NEW h \in Http, LoggingIn(h), NEW p, Ends(h, p), p # "verify", NEW f \in Nat, NEW l,
              UpdateUser(http[h].who, f, l), wrong' = Put(wrong, http[h].who, [n |-> f, at |-> apiClock]),
              l = IF f >= MaxFails THEN apiClock + LockTime ELSE 0, UNCHANGED raced, ~raced
       PROVE  LockInv'
  <2>1. PICK w : w = http[h].who /\ w \in DOMAIN users /\ users[w] \in UserRow
    BY <1>11 DEF ApiInv, LockInv, UserInv
  <2>2. DOMAIN users' = DOMAIN users /\ users'[w].fails = f /\ users'[w].lock = l
        /\ \A x \in DOMAIN users \ {w} : users'[x] = users[x]
    <3>1. PICK r : r = [users[w] EXCEPT !.fails = f, !.lock = l]
      OBVIOUS
    <3>2. r.fails = f /\ r.lock = l
      BY <2>1, <3>1 DEF UserRow
    <3>3. users' = Put(users, w, r)
      BY <1>11, <2>1, <3>1 DEF UpdateUser
    <3> QED BY <2>1, <3>2, <3>3 DEF Put
  <2>3. DOMAIN wrong' = DOMAIN wrong \cup {w} /\ wrong'[w].n = f /\ wrong'[w].at = apiClock
        /\ \A x \in DOMAIN wrong \ {w} : wrong'[x] = wrong[x]
    BY <1>11, <2>1 DEF Put
  <2>4. DOMAIN wrong' \subseteq DOMAIN users'
    BY <1>11, <2>1, <2>2, <2>3 DEF ApiInv, LockInv
  <2>5. \A x \in DOMAIN users' : users'[x].fails = WrongCount(x)'
    BY <1>11, <2>2, <2>3 DEF ApiInv, LockInv, WrongCount, Get
  <2>6. \A x \in DOMAIN users' \cap DOMAIN wrong' :
            users'[x].lock = IF wrong'[x].n >= MaxFails THEN wrong'[x].at + LockTime ELSE 0
    BY <1>11, <2>2, <2>3 DEF ApiInv, LockInv
  <2>7. PICK q : To(h, q) /\ q.pc # "verify"
    BY <1>5, <1>11
  <2>8. \A g \in Http : LoggingIn(g)' => g # h /\ http'[g] = http[g] /\ LoggingIn(g) /\ http[g].who # w
    BY <1>3, <1>11, <2>1, <2>7 DEF ApiInv, LockInv, LoggingIn, At
  <2>9. \A g \in Http : LoggingIn(g)' => http'[g].who \in DOMAIN users' /\ http'[g].fails = users'[http'[g].who].fails
    BY <1>11, <2>2, <2>8 DEF ApiInv, LockInv
  <2>10. \A e, g \in Http : LoggingIn(e)' /\ LoggingIn(g)' /\ http'[e].who = http'[g].who => e = g
    BY <1>11, <2>8 DEF ApiInv, LockInv
  <2> QED BY <1>1, <1>11, <2>4, <2>5, <2>6, <2>9, <2>10 DEF LockInv
<1>12. ASSUME NEW h \in Http, LoginWrong(h) PROVE LockInv'
  <2> SUFFICES ASSUME ~raced PROVE LockInv'
    BY <1>1, <1>12 DEF LockInv, LoginWrong
  <2>1. LoggingIn(h) /\ http[h].fails \in Nat /\ http[h].fails = WrongCount(http[h].who)
    BY <1>12 DEF LoginWrong, ApiInv, LockInv, RequestInv, RequestOK_, Request_
  <2>2. PICK f \in Nat : f = http[h].fails + 1
    BY <2>1
  <2>3. PICK l : l = IF f >= MaxFails THEN apiClock + LockTime ELSE 0
    OBVIOUS
  <2>4. UpdateUser(http[h].who, f, l) /\ wrong' = Put(wrong, http[h].who, [n |-> f, at |-> apiClock])
        /\ Ends(h, "refused") /\ UNCHANGED raced
    BY <1>12, <2>1, <2>2, <2>3 DEF LoginWrong
  <2> QED BY <1>11, <2>1, <2>3, <2>4
<1>13. ASSUME NEW h \in Http, LoginRight(h) PROVE LockInv'
  <2> SUFFICES ASSUME ~raced PROVE LockInv'
    BY <1>1, <1>13 DEF LockInv, LoginRight
  <2>1. 0 = IF 0 >= MaxFails THEN apiClock + LockTime ELSE 0
    BY LockAssumption
  <2> QED BY <1>11, <1>13, <2>1 DEF LoginRight
<1>14. ASSUME NEW h \in Http, NEW c \in Callers, NEW u \in Names, CreateUser(h, c, u) PROVE LockInv'
  <2>1. c \in Request_
    BY CallerFacts
  <2>2. CASE u \in DOMAIN users
    <3>1. To(h, [c EXCEPT !.pc = "failed"]) /\ UNCHANGED <<users, wrong, raced>>
      BY <1>14, <2>2 DEF CreateUser, Reads, tables
    <3>2. [c EXCEPT !.pc = "failed"].pc # "verify"
      BY <2>1 DEF Request_
    <3> QED BY <1>4, <3>1, <3>2
  <2>3. CASE u \notin DOMAIN users
    <3>1. /\ To(h, [c EXCEPT !.pc = "audit", !.act = "user_created"]) /\ UNCHANGED raced
          /\ users' = Put(users, u, NewUser(c.org)) /\ wrong' = Drop(wrong, {u})
      BY <1>14, <2>3 DEF CreateUser
    <3>2. [c EXCEPT !.pc = "audit", !.act = "user_created"].pc # "verify"
      BY <2>1 DEF Request_
    <3> QED BY <1>7, <2>3, <3>1, <3>2
  <2> QED BY <2>2, <2>3
<1>15. ASSUME NEW h \in Http, NEW c \in Callers, Investigate(h, c) PROVE LockInv'
  <2>1. PICK p \in {"save", "failed"} : To(h, [c EXCEPT !.pc = p, !.act = "investigation_completed"])
    BY <1>15 DEF Investigate
  <2>2. [c EXCEPT !.pc = p, !.act = "investigation_completed"].pc # "verify"
    BY <2>1, CallerFacts DEF Request_
  <2> QED BY <1>4, <1>15, <2>1, <2>2 DEF Investigate, Reads, Still, tables
<1>16. ASSUME NEW h \in Http, SaveInvestigation(h) PROVE LockInv'
  <2>1. PICK i : To(h, [http[h] EXCEPT !.pc = "metrics", !.inv = i])
    BY <1>16 DEF SaveInvestigation
  <2>2. [http[h] EXCEPT !.pc = "metrics", !.inv = i].pc # "verify"
    BY DEF ApiInv, RequestInv, RequestOK_, Request_
  <2> QED BY <1>4, <1>16, <2>1, <2>2 DEF SaveInvestigation, Still
<1>17. ASSUME NEW h \in Http, SaveMetrics(h) \/ Audit(h) PROVE LockInv'
  BY <1>6, <1>17 DEF SaveMetrics, Audit, Still, Reads, tables
<1>18. ASSUME NEW k, DeactivateKey(k) \/ (\E r : CreateKey(k, r)) PROVE LockInv'
  <2>1. UNCHANGED <<users, wrong, raced, http>>
    BY <1>18, Zenon DEF DeactivateKey, CreateKey, Still
  <2> QED BY <1>2, <2>1
<1>19. ASSUME NEW u, DeleteUser(u) PROVE LockInv'
  <2> SUFFICES ASSUME ~raced' PROVE LockInv'
    BY <1>1, <1>19 DEF LockInv, DeleteUser
  <2>1. ~raced /\ (\A h \in Http : ~(LoggingIn(h) /\ http[h].who = u)) /\ UNCHANGED http
        /\ users' = Drop(users, {u}) /\ wrong' = Drop(wrong, {u})
    BY <1>19 DEF DeleteUser
  <2>2. /\ DOMAIN users' = DOMAIN users \ {u} /\ \A x \in DOMAIN users' : users'[x] = users[x]
        /\ DOMAIN wrong' = DOMAIN wrong \ {u} /\ \A x \in DOMAIN wrong' : wrong'[x] = wrong[x]
    BY <2>1 DEF Drop
  <2>3. \A h \in Http : LoggingIn(h)' <=> LoggingIn(h)
    BY <2>1 DEF LoggingIn, At
  <2>4. \A x \in DOMAIN users' : users'[x].fails = WrongCount(x)'
    BY <2>1, <2>2 DEF ApiInv, LockInv, WrongCount, Get
  <2>5. raced' \in BOOLEAN
    BY <1>1, <1>19 DEF DeleteUser
  <2>6. \A h \in Http : LoggingIn(h) => http[h].who \in DOMAIN users'
    BY <2>1, <2>2 DEF ApiInv, LockInv
  <2> QED BY <2>1, <2>2, <2>3, <2>4, <2>5, <2>6 DEF ApiInv, LockInv
<1>20. CASE ApiTick \/ MigrateStart \/ MigrateTable
  BY <1>2, <1>20 DEF ApiTick, MigrateStart, MigrateTable, tables
<1> QED
  BY <1>8, <1>9, <1>10, <1>12, <1>13, <1>14, <1>15, <1>16, <1>17, <1>18, <1>19, <1>20, Zenon
  DEF ApiStep, ApiNext, ServeLogin, ServeData, People

LEMMA ApiInvHolds == ApiSpec => []ApiInv
<1>1. ApiInit => ApiInv
  <2> SUFFICES ASSUME ApiInit PROVE ApiInv
    OBVIOUS
  <2>1. DOMAIN users = {} /\ DOMAIN apiKeys = {} /\ DOMAIN wrong = {} /\ DOMAIN invs = {}
    BY DEF ApiInit, EmptyDict
  <2>2. UserInv /\ KeyInv
    BY <2>1, LockAssumption DEF ApiInit, UserInv, KeyInv
  <2>3. LogInv
    BY EmptySeq DEF ApiInit, LogInv
  <2>4. CaseInv
    <3>1. 0 \in Nat /\ 1..0 = {}
      OBVIOUS
    <3> QED BY <2>1, <3>1 DEF ApiInit, CaseInv
  <2>5. RequestInv
    BY DEF ApiInit, RequestInv, RequestOK_, Request_, Idle, Stages, Acting, Acts_
  <2>6. LockInv
    BY <2>1 DEF ApiInit, LockInv, LoggingIn, At, Idle
  <2>7. MigInv
    <3>1. mig = [at |-> 0, orgs |-> {}, users |-> {}, invs |-> {}, counts |-> <<>>, result |-> None]
          /\ touched = FALSE /\ grew = FALSE
      BY DEF ApiInit, Ready
    <3>2. MigShape(mig) /\ mig.at = 0 /\ mig.result # "failed"
      BY <3>1 DEF MigShape, None
    <3>3. ~(mig.at > 0) /\ ~(mig.at > 1) /\ ~(mig.at > 2) /\ ~(mig.at > 5)
      BY <3>2
    <3> QED BY <3>1, <3>2, <3>3 DEF MigInv
  <2> QED BY <2>2, <2>3, <2>4, <2>5, <2>6, <2>7 DEF ApiInv
<1>2. ApiInv /\ [ApiStep]_apiVars => ApiInv'
  <2> SUFFICES ASSUME ApiInv, [ApiStep]_apiVars PROVE ApiInv'
    OBVIOUS
  <2>1. CASE ApiStep
    BY <2>1, UsersKeep, KeysKeep, LogKeeps, CasesKeep, RequestsKeep, LockKeeps, MigrationKeeps DEF ApiInv
  <2>2. CASE UNCHANGED apiVars
    <3>1. UNCHANGED <<orgs, users, apiKeys, auditLog, invs, metrics, issuedTokens, http, mig, apiClock, spent,
                      wrong, raced, touched, grew>>
      BY <2>2 DEF apiVars, tables
    <3>2. UserInv' /\ KeyInv' /\ LogInv' /\ CaseInv'
      BY <3>1 DEF ApiInv, UserInv, KeyInv, LogInv, CaseInv
    <3>3. RequestInv' /\ LockInv'
      BY <3>1 DEF ApiInv, RequestInv, RequestOK_, LockInv, LoggingIn, At, WrongCount
    <3>4. MigInv'
      BY <3>1 DEF ApiInv, MigInv, Rows
    <3> QED BY <3>2, <3>3, <3>4 DEF ApiInv
  <2> QED BY <2>1, <2>2
<1> QED BY <1>1, <1>2, PTL DEF ApiSpec, ApiStep

\* Whatever endpoints, deletions and keys interleave, no row refers to a missing
\* one, what was answered was audited, and a migration is fair to the tables.
THEOREM TablesCorrect == ApiSpec => []TablesSound
BY ApiInvHolds, ApiInvSuffices, PTL

\* With any number of threads and any lock-out policy, an account that no two
\* logins raced for is locked exactly as its row of wrong passwords demands.
THEOREM LockoutCorrect == ApiSpec => []LockoutIsExact
BY ApiInvHolds, ApiInvSuffices, PTL
-----------------------------------------------------------------------------
(***************************************************************************)
(* The adapters, whose breakers are those of CircuitBreaker.  A call in    *)
(* progress has passed the checks, its breaker is not open, and a call to  *)
(* Graph has used at most an attempt and a pause of its token's buffer for *)
(* each attempt it has made.                                               *)
(***************************************************************************)
LiveOrder == [pc : {"token", "send"}, order : Orders, tries : 0..MaxAttempts, rested : BOOLEAN, until : Nat]

OrderOK(x) ==
  /\ x \in LiveOrder
  /\ ValidTarget(x.order) /\ ~x.order.dry /\ guard_[x.order.adapter].state # "OPEN"
  /\ x.pc = "token" => x.tries = 0 /\ ~x.rested
  /\ x.pc = "send" /\ x.order.adapter = "graph" =>
       aclock < x.until - TokenMargin + x.tries + (IF x.rested THEN 1 ELSE 0)

BreakersOK ==
  /\ DOMAIN guard_ = BothAdapters /\ DOMAIN logged = BothAdapters
  /\ \A a \in BothAdapters : Heard(guard_[a], logged[a], aclock)

WorldOK ==
  /\ DOMAIN folder = DOMAIN MailboxOf
  /\ \A n \in DOMAIN firewall : firewall[n] \in NetTargets /\ ObjectName[firewall[n]] = n
  /\ \A r \in results : r.order \in Orders /\ ValidTarget(r.order)

AdapterInv ==
  /\ aclock \in Nat /\ token \in Nat
  /\ order_ = NoOrder \/ OrderOK(order_)
  /\ BreakersOK /\ WorldOK /\ TokenOutlastsCall /\ VerifiedIsEnforced

LEMMA AdapterInvSuffices == AdapterInv => EnforcementSound
<1> SUFFICES ASSUME AdapterInv, NEW a \in BothAdapters
             PROVE  ~Allows(guard_[a], aclock) <=>
                      /\ Len(logged[a]) >= Threshold /\ aclock - logged[a][Len(logged[a])].at < Recovery
                      /\ \A i \in (Len(logged[a]) - Threshold + 1)..Len(logged[a]) : ~logged[a][i].ok
  BY DEF EnforcementSound, CallsRest, AdapterInv
<1> QED BY HeardRests DEF AdapterInv, BreakersOK

\* What a step may do to the outside systems.
WorldStep ==
  /\ DOMAIN folder' = DOMAIN folder /\ (\A m \in DOMAIN folder : folder[m] # "inbox" => folder'[m] # "inbox")
  /\ DOMAIN firewall \subseteq DOMAIN firewall' /\ (\A n \in DOMAIN firewall : firewall'[n] = firewall[n])
  /\ \A n \in DOMAIN firewall' : firewall'[n] \in NetTargets /\ ObjectName[firewall'[n]] = n

LEMMA ActsKeep ==
  ASSUME AdapterInv, NEW o \in Orders, ValidTarget(o), ~o.dry, Acts(o)
  PROVE  /\ WorldStep
         /\ o.adapter = "graph" /\ MailboxOf[o.message] = Addressed(o) => folder'[o.message] # "inbox"
         /\ o.adapter # "graph" => ObjectName[o.target] \in DOMAIN firewall'
<1>1. CASE o.adapter = "graph"
  <2>1. o.message \in DOMAIN folder /\ UNCHANGED firewall
    BY <1>1, OrderAssumption DEF AdapterInv, WorldOK, Acts, GraphActs
  <2>2. PICK v \in {"deleted", "junk"} : folder' = IF Finds(o) THEN [folder EXCEPT ![o.message] = v] ELSE folder
    BY <1>1 DEF Acts, GraphActs
  <2>3. CASE Finds(o)
    BY <1>1, <2>1, <2>2, <2>3 DEF WorldStep, AdapterInv, WorldOK
  <2>4. CASE ~Finds(o)
    BY <1>1, <2>1, <2>2, <2>4 DEF WorldStep, AdapterInv, WorldOK, Finds
  <2> QED BY <2>3, <2>4
<1>2. CASE o.adapter # "graph"
  <2>1. o.target \in NetTargets /\ UNCHANGED folder
        /\ firewall' = IF ObjectName[o.target] \in DOMAIN firewall THEN firewall
                       ELSE Put(firewall, ObjectName[o.target], o.target)
    BY <1>2 DEF ValidTarget, Acts, PanosActs
  <2> QED BY <1>2, <2>1 DEF WorldStep, AdapterInv, WorldOK, Put
<1> QED BY <1>1, <1>2

\* What was enforced stays enforced.
LEMMA StaysEnforced ==
  ASSUME AdapterInv, WorldStep, results' = results
  PROVE  WorldOK' /\ VerifiedIsEnforced'
<1>1. WorldOK'
  BY DEF WorldStep, AdapterInv, WorldOK, ValidTarget
<1>2. ASSUME NEW r \in results, verify_action(r.order, r.ref), ~r.order.dry, r.order.adapter = "graph",
             MailboxOf[r.order.message] = Addressed(r.order)
      PROVE  folder'[r.order.message] # "inbox"
  <2>1. r.order.message \in DOMAIN folder
    BY OrderAssumption DEF AdapterInv, WorldOK
  <2> QED BY <1>2, <2>1 DEF AdapterInv, VerifiedIsEnforced, WorldStep
<1>3. ASSUME NEW r \in results, verify_action(r.order, r.ref), ~r.order.dry, r.order.adapter # "graph"
      PROVE  /\ ObjectName[r.order.target] \in DOMAIN firewall'
             /\ (\A u \in NetTargets \ {r.order.target} : ObjectName[u] # ObjectName[r.order.target])
                  => firewall'[ObjectName[r.order.target]] = r.order.target
  BY <1>3 DEF AdapterInv, VerifiedIsEnforced, WorldStep
<1> QED BY <1>1, <1>2, <1>3 DEF VerifiedIsEnforced, Addressed, verify_action

LEMMA NewlyEnforced ==
  ASSUME AdapterInv, NEW o \in Orders, ValidTarget(o), ~o.dry, Acts(o), NEW ref,
         results' = results \cup {[order |-> o, ref |-> ref]}
  PROVE  WorldOK' /\ VerifiedIsEnforced'
<1> DEFINE E(r) == verify_action(r.order, r.ref) /\ ~r.order.dry =>
                     IF r.order.adapter = "graph"
                     THEN MailboxOf[r.order.message] = Addressed(r.order) => folder'[r.order.message] # "inbox"
                     ELSE /\ ObjectName[r.order.target] \in DOMAIN firewall'
                          /\ (\A u \in NetTargets \ {r.order.target} : ObjectName[u] # ObjectName[r.order.target])
                               => firewall'[ObjectName[r.order.target]] = r.order.target
<1>0. PICK q : q = [order |-> o, ref |-> ref]
  OBVIOUS
<1>1. q.order = o /\ results' = results \cup {q}
  BY <1>0
<1>2. WorldStep
  BY ActsKeep
<1>3. WorldOK'
  <2>1. \A r \in results' : r.order \in Orders /\ ValidTarget(r.order)
    BY <1>1 DEF AdapterInv, WorldOK
  <2> QED BY <1>2, <2>1 DEF WorldStep, AdapterInv, WorldOK, ValidTarget
<1>4. E(q)
  <2>1. CASE o.adapter = "graph"
    BY <1>1, <2>1, ActsKeep
  <2>2. CASE o.adapter # "graph"
    <3>1. ObjectName[o.target] \in DOMAIN firewall'
      BY <2>2, ActsKeep
    <3>2. PICK v \in NetTargets : v = firewall'[ObjectName[o.target]] /\ ObjectName[v] = ObjectName[o.target]
      BY <1>2, <3>1 DEF WorldStep
    <3> QED BY <1>1, <2>2, <3>1, <3>2
  <2> QED BY <2>1, <2>2
<1>5. ASSUME NEW r \in results PROVE E(r)
  <2>1. r.order.message \in DOMAIN folder
    BY OrderAssumption DEF AdapterInv, WorldOK
  <2>2. CASE r.order.adapter = "graph"
    BY <1>2, <2>1, <2>2 DEF AdapterInv, VerifiedIsEnforced, WorldStep
  <2>3. CASE r.order.adapter # "graph"
    BY <1>2, <2>3 DEF AdapterInv, VerifiedIsEnforced, WorldStep
  <2> QED BY <2>2, <2>3
<1>6. \A r \in results' : E(r)
  BY <1>1, <1>4, <1>5
<1> QED BY <1>3, <1>6 DEF VerifiedIsEnforced, Addressed, verify_action

\* The end of a call is heard by its breaker, and by no other.
LEMMA ConcludesKeeps ==
  ASSUME AdapterInv, order_ # NoOrder, NEW ok \in BOOLEAN, NEW ref, Concludes(ok, ref), UNCHANGED aclock
  PROVE  BreakersOK' /\ order_' = NoOrder
<1>1. PICK a \in BothAdapters : a = order_.order.adapter /\ guard_[a].state # "OPEN" /\ Heard(guard_[a], logged[a], aclock)
  BY OrderAssumption DEF AdapterInv, OrderOK, LiveOrder, BreakersOK
<1>2. aclock \in Nat /\ DOMAIN guard_ = BothAdapters /\ DOMAIN logged = BothAdapters
  BY DEF AdapterInv, BreakersOK
<1>3. /\ guard_' = [guard_ EXCEPT ![a] = IF ok THEN AfterSuccess(guard_[a], aclock) ELSE AfterFailure(guard_[a], aclock)]
      /\ logged' = [logged EXCEPT ![a] = Append(logged[a], [at |-> aclock, ok |-> ok])]
  BY <1>1 DEF Concludes
<1>4. Heard(guard_'[a], logged'[a], aclock)
  <2>1. CASE ok = TRUE
    BY <1>1, <1>2, <1>3, <2>1, HeardSuccess
  <2>2. CASE ok = FALSE
    BY <1>1, <1>2, <1>3, <2>2, HeardFailure
  <2> QED BY <2>1, <2>2
<1>5. \A x \in BothAdapters \ {a} : guard_'[x] = guard_[x] /\ logged'[x] = logged[x]
  BY <1>2, <1>3
<1>6. DOMAIN guard_' = BothAdapters /\ DOMAIN logged' = BothAdapters
  BY <1>2, <1>3
<1> QED BY <1>4, <1>5, <1>6 DEF AdapterInv, BreakersOK, Concludes

LEMMA AdapterStep == ASSUME AdapterInv, AdaptersNext PROVE AdapterInv'
<1>1. aclock \in Nat /\ token \in Nat /\ TokenLife \in Nat /\ TokenMargin \in Nat
      /\ 3 <= TokenMargin /\ TokenMargin < TokenLife
  BY TokenAssumption DEF AdapterInv, MaxAttempts
<1>2. ASSUME UNCHANGED <<folder, firewall, results>> PROVE WorldOK' /\ VerifiedIsEnforced'
  <2>1. WorldStep
    BY <1>2 DEF WorldStep, AdapterInv, WorldOK
  <2> QED BY <1>2, <2>1, StaysEnforced
<1>3. UNCHANGED <<guard_, logged, aclock>> => BreakersOK'
  BY DEF AdapterInv, BreakersOK
<1>4. UNCHANGED lastSent => TokenOutlastsCall'
  BY DEF AdapterInv, TokenOutlastsCall
<1>5. ASSUME Sending, Sent PROVE TokenOutlastsCall'
  <2>1. CASE order_.order.adapter # "graph"
    BY <1>4, <1>5, <2>1 DEF Sent
  <2>2. CASE order_.order.adapter = "graph"
    <3>1. PICK x : x = order_ /\ x \in LiveOrder /\ x.tries < 3
                   /\ aclock < x.until - TokenMargin + x.tries + (IF x.rested THEN 1 ELSE 0)
      BY <1>5, <2>2 DEF Sending, AdapterInv, OrderOK, NoOrder, MaxAttempts
    <3>2. x.until \in Nat /\ x.tries \in 0..2 /\ x.rested \in BOOLEAN
      BY <3>1 DEF LiveOrder, MaxAttempts
    <3>3. aclock < x.until
      BY <1>1, <3>1, <3>2
    <3>4. lastSent' = [at |-> aclock, until |-> x.until]
      BY <1>5, <2>2, <3>1 DEF Sent
    <3> QED BY <3>3, <3>4 DEF TokenOutlastsCall
  <2> QED BY <2>1, <2>2
<1>6. order_.pc \in {"token", "send"} => order_ # NoOrder /\ OrderOK(order_)
  BY DEF AdapterInv, NoOrder
<1>7. ASSUME NEW o \in Orders, EndsAtOnce(o) PROVE AdapterInv'
  <2>1. WorldOK' /\ VerifiedIsEnforced'
    <3>1. CASE results' = results
      BY <1>2, <1>7, <3>1 DEF EndsAtOnce, world
    <3>2. CASE ValidTarget(o) /\ o.dry /\ results' = results \cup {[order |-> o, ref |-> "dry_run"]}
      <4>1. PICK q : q = [order |-> o, ref |-> "dry_run"]
        OBVIOUS
      <4>2. q.order = o /\ results' = results \cup {q} /\ UNCHANGED <<folder, firewall>>
        BY <1>7, <3>2, <4>1 DEF EndsAtOnce, world
      <4>3. WorldOK'
        BY <3>2, <4>2 DEF AdapterInv, WorldOK, ValidTarget
      <4>4. VerifiedIsEnforced'
        BY <3>2, <4>2 DEF AdapterInv, VerifiedIsEnforced, Addressed, verify_action
      <4> QED BY <4>3, <4>4
    <3> QED BY <1>7, <3>1, <3>2 DEF EndsAtOnce, Reported
  <2>2. order_ = NoOrder /\ UNCHANGED <<aclock, guard_, token, order_, logged, lastSent>>
    BY <1>7 DEF EndsAtOnce
  <2> QED BY <1>1, <1>3, <1>4, <2>1, <2>2 DEF AdapterInv
<1>8. ASSUME NEW o \in Orders, BeginOrder(o) PROVE AdapterInv'
  <2>1. o.adapter \in BothAdapters /\ Allows(guard_[o.adapter], aclock) /\ ValidTarget(o) /\ ~o.dry
        /\ UNCHANGED <<aclock, token, folder, firewall, results, logged, lastSent>>
    BY <1>8, OrderAssumption DEF BeginOrder, world
  <2>2. PICK d : d = AfterAllow(guard_[o.adapter], aclock) /\ Heard(d, logged[o.adapter], aclock) /\ d.state # "OPEN"
    BY <1>1, <2>1, HeardAllow DEF AdapterInv, BreakersOK
  <2>3. guard_' = [guard_ EXCEPT ![o.adapter] = d] /\ DOMAIN guard_ = BothAdapters
    BY <1>8, <2>2 DEF BeginOrder, AdapterInv, BreakersOK
  <2>4. BreakersOK' /\ guard_'[o.adapter].state # "OPEN"
    BY <2>1, <2>2, <2>3 DEF AdapterInv, BreakersOK
  <2>5. PICK p \in {"token", "send"} :
          /\ order_' = [pc |-> p, order |-> o, tries |-> 0, rested |-> FALSE, until |-> 0]
          /\ (o.adapter = "graph" <=> p = "token")
    BY <1>8 DEF BeginOrder
  <2>6. order_' \in LiveOrder /\ order_'.pc = p /\ order_'.order = o /\ order_'.tries = 0 /\ ~order_'.rested
    BY <2>5 DEF LiveOrder, MaxAttempts
  <2>7. OrderOK(order_)'
    BY <2>1, <2>4, <2>5, <2>6 DEF OrderOK, ValidTarget
  <2> QED BY <1>1, <1>2, <1>4, <2>1, <2>4, <2>7 DEF AdapterInv
<1>9. ASSUME order_.pc = "token", NEW until \in Nat, WithToken(until), aclock < until - TokenMargin,
             UNCHANGED <<aclock, guard_, folder, firewall, results, logged, lastSent>>, token' \in Nat
      PROVE  AdapterInv'
  <2>1. PICK x \in LiveOrder : x = order_ /\ OrderOK(x) /\ x.tries = 0 /\ ~x.rested
    BY <1>6, <1>9 DEF OrderOK
  <2>2. PICK y : y = [x EXCEPT !.pc = "send", !.until = until] /\ order_' = y
    BY <1>9, <2>1 DEF WithToken
  <2>3. y \in LiveOrder /\ y.pc = "send" /\ y.until = until /\ y.tries = 0 /\ ~y.rested /\ y.order = x.order
    BY <2>1, <2>2 DEF LiveOrder
  <2>4. aclock < y.until - TokenMargin + y.tries + (IF y.rested THEN 1 ELSE 0)
    BY <1>1, <1>9, <2>3
  <2>5. OrderOK(order_)'
    BY <1>9, <2>1, <2>2, <2>3, <2>4 DEF OrderOK, ValidTarget
  <2> QED BY <1>1, <1>2, <1>3, <1>4, <1>9, <2>5 DEF AdapterInv
<1>10. ASSUME TokenCached \/ TokenFetched PROVE AdapterInv'
  <2>1. CASE TokenCached
    BY <1>1, <1>9, <2>1 DEF TokenCached, Usable, world
  <2>2. CASE TokenFetched
    <3>1. PICK u \in Nat : u = aclock + TokenLife /\ aclock < u - TokenMargin
      BY <1>1
    <3> QED BY <1>1, <1>9, <2>2, <3>1 DEF TokenFetched, world
  <2> QED BY <1>10, <2>1, <2>2
<1>11. ASSUME TokenDenied \/ AttemptRefused \/ Exhausted PROVE AdapterInv'
  <2>1. order_.pc \in {"token", "send"} /\ Concludes(FALSE, "none") /\ UNCHANGED <<aclock, token, folder, firewall>>
    BY <1>11 DEF TokenDenied, AttemptRefused, Exhausted, Sending, world
  <2>2. UNCHANGED results
    BY <2>1 DEF Concludes, Reported
  <2>3. TokenOutlastsCall'
    BY <1>4, <1>5, <1>11 DEF TokenDenied, AttemptRefused, Exhausted
  <2> QED BY <1>1, <1>2, <1>6, <2>1, <2>2, <2>3, ConcludesKeeps DEF AdapterInv
<1>12. CASE AttemptSucceeds
  <2>1. Sending /\ Sent /\ order_.pc = "send" /\ UNCHANGED <<aclock, token>> /\ Concludes(TRUE, order_.order.adapter)
        /\ Acts(order_.order)
    BY <1>12 DEF AttemptSucceeds, Sending
  <2>2. PICK o \in Orders : o = order_.order /\ ValidTarget(o) /\ ~o.dry
    BY <1>6, <2>1 DEF OrderOK, LiveOrder
  <2>3. results' = results \cup {[order |-> o, ref |-> o.adapter]}
    BY <2>1, <2>2 DEF Concludes, Reported
  <2>4. WorldOK' /\ VerifiedIsEnforced'
    BY <2>1, <2>2, <2>3, NewlyEnforced
  <2> QED BY <1>1, <1>5, <1>6, <2>1, <2>4, ConcludesKeeps DEF AdapterInv
<1>13. ASSUME Sending, Acts(order_.order) \/ UNCHANGED world, UNCHANGED results PROVE WorldOK' /\ VerifiedIsEnforced'
  <2>1. CASE UNCHANGED world
    BY <1>2, <1>13, <2>1 DEF world
  <2>2. CASE Acts(order_.order)
    <3>1. PICK o \in Orders : o = order_.order /\ ValidTarget(o) /\ ~o.dry
      BY <1>6, <1>13 DEF Sending, OrderOK, LiveOrder
    <3>2. WorldStep
      BY <2>2, <3>1, ActsKeep
    <3> QED BY <1>13, <3>2, StaysEnforced
  <2> QED BY <1>13, <2>1, <2>2
<1>14. CASE AttemptFails
  <2>1. Sending /\ Sent /\ UNCHANGED <<aclock, guard_, token, results, logged>>
        /\ order_' = [order_ EXCEPT !.tries = @ + 1, !.rested = FALSE]
    BY <1>14 DEF AttemptFails
  <2>2. PICK x \in LiveOrder : x = order_ /\ OrderOK(x) /\ x.tries < 3 /\ x.pc = "send"
    BY <1>6, <2>1 DEF Sending, OrderOK, MaxAttempts
  <2>3. PICK k \in 0..2 : k = x.tries
    BY <2>2 DEF LiveOrder, MaxAttempts
  <2>4. PICK y : y = [x EXCEPT !.tries = k + 1, !.rested = FALSE] /\ order_' = y
    BY <2>1, <2>2, <2>3
  <2>5. y \in LiveOrder /\ y.pc = "send" /\ y.until = x.until /\ y.tries = k + 1 /\ ~y.rested /\ y.order = x.order
    <3>1. PICK m \in 0..MaxAttempts : m = k + 1
      BY DEF MaxAttempts
    <3> QED BY <2>2, <2>4, <3>1 DEF LiveOrder
  <2>6. ASSUME x.order.adapter = "graph" PROVE aclock < y.until - TokenMargin + y.tries + (IF y.rested THEN 1 ELSE 0)
    <3>1. aclock < x.until - TokenMargin + k + (IF x.rested THEN 1 ELSE 0) /\ x.until \in Nat
      BY <2>2, <2>3, <2>6 DEF OrderOK, LiveOrder
    <3>2. aclock < x.until - TokenMargin + (k + 1)
      BY <1>1, <3>1
    <3> QED BY <1>1, <2>5, <3>1, <3>2
  <2>7. OrderOK(order_)'
    BY <2>1, <2>2, <2>4, <2>5, <2>6 DEF OrderOK, ValidTarget
  <2>8. WorldOK' /\ VerifiedIsEnforced'
    BY <1>13, <1>14, <2>1 DEF AttemptFails
  <2> QED BY <1>1, <1>3, <1>5, <2>1, <2>7, <2>8 DEF AdapterInv
<1>15. CASE AttemptRaises
  <2>1. Sending /\ Sent /\ UNCHANGED <<aclock, guard_, token, results, logged>> /\ order_' = NoOrder
    BY <1>15 DEF AttemptRaises
  <2>2. WorldOK' /\ VerifiedIsEnforced'
    BY <1>13, <1>15, <2>1 DEF AttemptRaises
  <2> QED BY <1>1, <1>3, <1>5, <2>1, <2>2 DEF AdapterInv
<1>16. CASE AdapterDies
  <2>1. /\ order_' = NoOrder /\ token' = 0 /\ UNCHANGED <<aclock, folder, firewall, results, lastSent>>
        /\ guard_' = [a \in BothAdapters |-> NewBreaker] /\ logged' = [a \in BothAdapters |-> <<>>]
    BY <1>16 DEF AdapterDies, world
  <2>2. Heard(NewBreaker, <<>>, aclock)
    BY BreakerAssumption, EmptySeq DEF Heard, NewBreaker, BreakerRow
  <2>3. BreakersOK'
    BY <2>1, <2>2 DEF BreakersOK
  <2> QED BY <1>1, <1>2, <1>4, <2>1, <2>3 DEF AdapterInv
<1>17. CASE AdapterTick
  <2>1. aclock' = aclock + 1 /\ UNCHANGED <<guard_, token, folder, firewall, results, logged, lastSent>>
    BY <1>17 DEF AdapterTick, world
  <2>2. aclock' \in Nat /\ aclock <= aclock'
    BY <1>1, <2>1
  <2>3. BreakersOK'
    BY <1>1, <2>1, <2>2, HeardLater DEF AdapterInv, BreakersOK
  <2>4. CASE order_.pc = "send"
    <3>1. PICK x \in LiveOrder : x = order_ /\ OrderOK(x) /\ x.pc = "send" /\ ~x.rested
      BY <1>6, <1>17, <2>4 DEF OrderOK, AdapterTick
    <3>2. PICK y : y = [x EXCEPT !.rested = TRUE] /\ order_' = y
      BY <1>17, <2>4, <3>1 DEF AdapterTick
    <3>3. y \in LiveOrder /\ y.pc = "send" /\ y.until = x.until /\ y.tries = x.tries /\ y.rested /\ y.order = x.order
      BY <3>1, <3>2 DEF LiveOrder
    <3>4. ASSUME x.order.adapter = "graph" PROVE aclock' < y.until - TokenMargin + y.tries + (IF y.rested THEN 1 ELSE 0)
      <4>1. aclock < x.until - TokenMargin + x.tries + 0 /\ x.until \in Nat /\ x.tries \in Nat
        BY <3>1, <3>4 DEF OrderOK, LiveOrder
      <4>2. aclock + 1 < x.until - TokenMargin + x.tries + 1
        BY <1>1, <4>1
      <4> QED BY <2>1, <3>3, <4>2
    <3>5. OrderOK(order_)'
      BY <2>1, <3>1, <3>2, <3>3, <3>4 DEF OrderOK, ValidTarget
    <3> QED BY <1>1, <1>2, <1>4, <2>1, <2>2, <2>3, <3>5 DEF AdapterInv
  <2>5. CASE order_.pc # "send"
    <3>1. UNCHANGED order_
      BY <1>17, <2>5 DEF AdapterTick
    <3>2. order_' = NoOrder \/ OrderOK(order_)'
      BY <2>1, <2>5, <3>1 DEF AdapterInv, OrderOK, ValidTarget
    <3> QED BY <1>1, <1>2, <1>4, <2>1, <2>2, <2>3, <3>2 DEF AdapterInv
  <2> QED BY <2>4, <2>5
<1> QED
  BY <1>7, <1>8, <1>10, <1>11, <1>12, <1>14, <1>15, <1>16, <1>17 DEF AdaptersNext

\* Whatever the services answer, lose or refuse and whenever a process dies, a
\* verified call is enforced, no request carries an expired token, and a breaker
\* rests exactly after Threshold failed calls, for any orders, tokens and breakers.
THEOREM EnforcementCorrect == AdaptersSpec => []EnforcementSound
<1>1. AdaptersInit => AdapterInv
  <2> SUFFICES ASSUME AdaptersInit PROVE AdapterInv
    OBVIOUS
  <2>1. aclock = 0 /\ token = 0 /\ order_ = NoOrder /\ results = {}
        /\ guard_ = [a \in BothAdapters |-> NewBreaker] /\ logged = [a \in BothAdapters |-> <<>>]
    BY DEF AdaptersInit
  <2>2. Heard(NewBreaker, <<>>, 0)
    BY BreakerAssumption, EmptySeq DEF Heard, NewBreaker, BreakerRow
  <2>3. BreakersOK
    BY <2>1, <2>2 DEF BreakersOK
  <2>4. WorldOK /\ VerifiedIsEnforced
    BY <2>1 DEF AdaptersInit, WorldOK, VerifiedIsEnforced, EmptyDict
  <2>5. TokenOutlastsCall
    BY DEF AdaptersInit, TokenOutlastsCall
  <2> QED BY <2>1, <2>3, <2>4, <2>5 DEF AdapterInv
<1>2. AdapterInv /\ [AdaptersNext]_adapterVars => AdapterInv'
  <2> SUFFICES ASSUME AdapterInv, UNCHANGED adapterVars PROVE AdapterInv'
    BY AdapterStep
  <2>1. UNCHANGED <<aclock, guard_, token, order_, folder, firewall, results, logged, lastSent>>
    BY DEF adapterVars
  <2>2. OrderOK(order_) => OrderOK(order_)'
    BY <2>1 DEF OrderOK, ValidTarget
  <2>3. BreakersOK' /\ WorldOK' /\ TokenOutlastsCall' /\ VerifiedIsEnforced'
    BY <2>1 DEF AdapterInv, BreakersOK, WorldOK, TokenOutlastsCall, VerifiedIsEnforced, Addressed, verify_action, ValidTarget
  <2> QED BY <2>1, <2>2, <2>3 DEF AdapterInv
<1> QED BY <1>1, <1>2, AdapterInvSuffices, PTL DEF AdaptersSpec

-----------------------------------------------------------------------------
(***************************************************************************)
(* Sessions.  A token that has ended is good for nothing: the key it was   *)
(* signed with is in use only as long as the revocations are remembered.   *)
(* Of the refresh tokens of a login all but the last have ended, and a     *)
(* token that was exchanged has ended too.                                 *)
(***************************************************************************)
Issued == [type : {"access", "refresh"}, user : DOMAIN Users, role : Roles, iat : Nat, exp : Nat,
           key : Nat, login : Nat, from : Nat]
States == {"ACTIVE", "LOCKED"}

SessionTypes ==
  /\ tokens \in Seq(Issued) /\ sclock \in Nat /\ keyEpoch \in Nat
  /\ account \in [DOMAIN Users -> [role : Roles, status : States]]
  /\ revoked \subseteq ended /\ ended \subseteq DOMAIN tokens

TokenOK(n) ==
  /\ tokens[n].key <= keyEpoch /\ tokens[n].from < n
  /\ tokens[n].login \in DOMAIN tokens
  /\ IF tokens[n].type = "refresh" THEN tokens[n].login < n ELSE tokens[n].login <= n
  /\ tokens[tokens[n].login].user = tokens[n].user
  /\ tokens[tokens[n].login].role = tokens[n].role
  /\ tokens[n].from # 0 => tokens[n].from \in ended
  /\ n \in ended /\ tokens[n].key = keyEpoch => n \in revoked

LastOfLogin ==
  \A m, n \in DOMAIN tokens :
    /\ tokens[m].type = "refresh" /\ tokens[n].type = "refresh" /\ tokens[m].login = tokens[n].login
    /\ m < n
    => m \in ended

ExchangedOnce ==
  \A m, n \in DOMAIN tokens :
    tokens[m].from # 0 /\ tokens[m].from = tokens[n].from /\ tokens[m].type = tokens[n].type => m = n

PassedOK ==
  \A q \in passed :
    /\ q.token \in DOMAIN tokens /\ q.token \notin ended
    /\ q.permission \in Permissions[tokens[q.token].role]
    /\ tokens[q.token].role # "SUPER_ADMIN" => q.tenant = Users[tokens[q.token].user]

SessionInv ==
  /\ SessionTypes /\ LastOfLogin /\ ExchangedOnce /\ PassedOK
  /\ \A n \in DOMAIN tokens : TokenOK(n)

LEMMA TokenTypes ==
  ASSUME SessionTypes
  PROVE  \E k \in Nat : /\ k = Len(tokens) /\ DOMAIN tokens = 1..k
                        /\ \A n \in 1..k : tokens[n] \in Issued
<1>1. tokens \in Seq(Issued)
  BY DEF SessionTypes
<1> QED BY <1>1, LenProperties, ElementOfSeq

LEMMA SessionInvSuffices ==
  SessionInv => SessionTypeOK /\ EndedTokensStayEnded /\ OneRefreshTokenPerLogin /\ GrantsGoBackToLogin
<1> SUFFICES ASSUME SessionInv
             PROVE  SessionTypeOK /\ EndedTokensStayEnded /\ OneRefreshTokenPerLogin /\ GrantsGoBackToLogin
  OBVIOUS
<1>1. PICK k \in Nat : k = Len(tokens) /\ DOMAIN tokens = 1..k /\ \A n \in 1..k : tokens[n] \in Issued
  BY TokenTypes DEF SessionInv
<1>2. SessionTypeOK
  <2>1. \A n \in DOMAIN tokens : tokens[n].type \in {"access", "refresh"} /\ tokens[n].role \in Roles
    BY <1>1 DEF Issued
  <2> QED BY <2>1 DEF SessionTypeOK, SessionInv, SessionTypes, TokenOK, PassedOK
<1>3. EndedTokensStayEnded
  BY DEF EndedTokensStayEnded, SessionInv, PassedOK
<1>4. OneRefreshTokenPerLogin
  <2>1. ASSUME NEW m \in DOMAIN tokens, NEW n \in DOMAIN tokens, Decodes(m, "refresh"),
               Decodes(n, "refresh"), tokens[m].login = tokens[n].login
        PROVE  m = n
    <3>1. m \notin ended /\ n \notin ended
      BY <2>1 DEF Decodes, SessionInv, TokenOK
    <3>2. ~(m < n) /\ ~(n < m)
      BY <2>1, <3>1 DEF Decodes, SessionInv, LastOfLogin
    <3> QED BY <1>1, <3>2
  <2> QED BY <2>1 DEF OneRefreshTokenPerLogin, SessionInv, ExchangedOnce
<1>5. GrantsGoBackToLogin
  BY DEF GrantsGoBackToLogin, SessionInv, PassedOK, TokenOK
<1> QED BY <1>2, <1>3, <1>4, <1>5

\* The pair of tokens that is appended to those issued.
Appended(k, u, role, first, from) ==
  /\ tokens' \in Seq(Issued) /\ DOMAIN tokens' = 1..(k + 2)
  /\ \A n \in 1..k : tokens'[n] = tokens[n]
  /\ tokens'[k + 1].type = "access" /\ tokens'[k + 2].type = "refresh"
  /\ \A n \in {k + 1, k + 2} :
       /\ tokens'[n].user = u /\ tokens'[n].role = role /\ tokens'[n].key = keyEpoch
       /\ tokens'[n].login = first /\ tokens'[n].from = from

LEMMA PairAppended ==
  ASSUME SessionTypes, NEW u \in DOMAIN Users, NEW role \in Roles, NEW first \in Nat, NEW from \in Nat,
         tokens' = tokens \o Pair(u, role, first, from),
         NEW k \in Nat, DOMAIN tokens = 1..k
  PROVE  Appended(k, u, role, first, from)
<1>1. PICK a : a = [type |-> "access", user |-> u, role |-> role, iat |-> sclock,
                    exp |-> sclock + AccessTtl, key |-> keyEpoch, login |-> first, from |-> from]
  OBVIOUS
<1>2. PICK r : r = [type |-> "refresh", user |-> u, role |-> role, iat |-> sclock,
                    exp |-> sclock + RefreshTtl, key |-> keyEpoch, login |-> first, from |-> from]
  OBVIOUS
<1>3. tokens' = tokens \o <<a, r>>
  BY <1>1, <1>2 DEF Pair
<1>4. a \in Issued /\ r \in Issued
  BY <1>1, <1>2, SessionAssumption DEF Issued, SessionTypes
<1>5. tokens \in Seq(Issued) /\ <<a, r>> \in Seq(Issued) /\ Len(<<a, r>>) = 2 /\ <<a, r>>[1] = a /\ <<a, r>>[2] = r
  BY <1>4 DEF SessionTypes
<1>6. Len(tokens) = k
  BY <1>5, LenProperties
<1>7. /\ tokens' \in Seq(Issued) /\ Len(tokens') = k + 2
      /\ \A n \in 1..(k + 2) : tokens'[n] = IF n <= k THEN tokens[n] ELSE <<a, r>>[n - k]
  BY <1>3, <1>5, <1>6, ConcatProperties
<1>8. DOMAIN tokens' = 1..(k + 2)
  BY <1>7, LenProperties
<1>9. tokens'[k + 1] = a /\ tokens'[k + 2] = r
  <2>1. k + 1 \in 1..(k + 2) /\ k + 2 \in 1..(k + 2) /\ ~(k + 1 <= k) /\ ~(k + 2 <= k) /\ (k + 1) - k = 1 /\ (k + 2) - k = 2
    OBVIOUS
  <2> QED BY <1>5, <1>7, <2>1
<1>10. \A n \in 1..k : tokens'[n] = tokens[n]
  BY <1>7
<1>11. /\ a.type = "access" /\ r.type = "refresh"
       /\ \A x \in {a, r} : x.user = u /\ x.role = role /\ x.key = keyEpoch /\ x.login = first /\ x.from = from
  BY <1>1, <1>2
<1>12. \A n \in {k + 1, k + 2} : tokens'[n] \in {a, r}
  BY <1>9
<1> QED BY <1>7, <1>8, <1>9, <1>10, <1>11, <1>12 DEF Appended

\* The pair belongs to a login whose other refresh tokens have ended, and comes
\* from a token that was not exchanged before, or from none.
NewPair(k, u, role, first, from, E) ==
  /\ k \in Nat /\ DOMAIN tokens = 1..k
  /\ u \in DOMAIN Users /\ role \in Roles /\ first \in Nat /\ from \in Nat
  /\ tokens' = tokens \o Pair(u, role, first, from)
  /\ ended' = ended \cup E /\ revoked' = revoked \cup E /\ E \subseteq DOMAIN tokens
  /\ sclock' = sclock /\ keyEpoch' = keyEpoch /\ account' = account /\ passed' = {}
  /\ \/ first = k + 1
     \/ first \in 1..k /\ tokens[first].user = u /\ tokens[first].role = role
  /\ \A m \in 1..k : tokens[m].type = "refresh" /\ tokens[m].login = first => m \in ended'
  /\ from < k + 1 /\ (from # 0 => from \in ended')
  /\ \A m \in 1..k : from # 0 => tokens[m].from # from

LEMMA PairKeeps ==
  ASSUME SessionInv, NEW k, NEW u, NEW role, NEW first, NEW from, NEW E,
         NewPair(k, u, role, first, from, E)
  PROVE  SessionInv' /\ Appended(k, u, role, first, from)
<1> USE DEF NewPair
<1>0. Appended(k, u, role, first, from)
  <2>1. SessionTypes /\ k \in Nat /\ DOMAIN tokens = 1..k /\ u \in DOMAIN Users /\ role \in Roles
    BY DEF SessionInv
  <2>2. first \in Nat /\ from \in Nat /\ tokens' = tokens \o Pair(u, role, first, from)
    OBVIOUS
  <2> HIDE DEF NewPair
  <2> QED BY <2>1, <2>2, PairAppended
<1>1. /\ tokens' \in Seq(Issued) /\ DOMAIN tokens' = 1..(k + 2)
      /\ \A n \in 1..k : tokens'[n] = tokens[n]
      /\ tokens'[k + 1].type = "access" /\ tokens'[k + 2].type = "refresh"
      /\ \A n \in {k + 1, k + 2} :
           /\ tokens'[n].user = u /\ tokens'[n].role = role /\ tokens'[n].key = keyEpoch
           /\ tokens'[n].login = first /\ tokens'[n].from = from
  BY <1>0 DEF Appended
<1>2. 1..(k + 2) = 1..k \cup {k + 1, k + 2}
  OBVIOUS
<1>3. SessionTypes'
  BY <1>1, <1>2 DEF SessionInv, SessionTypes
<1>4. PassedOK'
  BY DEF PassedOK
<1>5. ASSUME NEW n \in 1..k PROVE TokenOK(n)'
  <2>1. TokenOK(n)
    BY <1>5 DEF SessionInv
  <2>2. tokens'[n] = tokens[n] /\ tokens[n].login \in 1..k
    BY <1>1, <2>1 DEF TokenOK
  <2>3. tokens'[tokens[n].login] = tokens[tokens[n].login]
    BY <1>1, <2>2
  <2> QED BY <1>1, <1>2, <2>1, <2>2, <2>3 DEF TokenOK
<1>6. first \in 1..(k + 1) /\ tokens'[first].user = u /\ tokens'[first].role = role
  BY <1>1
<1>7. ASSUME NEW n \in {k + 1, k + 2} PROVE TokenOK(n)'
  <2>1. n \notin ended'
    BY <1>7 DEF SessionInv, SessionTypes
  <2>2. /\ tokens'[n].key = keyEpoch /\ tokens'[n].from = from /\ tokens'[n].login = first
        /\ tokens'[n].user = u /\ tokens'[n].role = role
    BY <1>1, <1>7
  <2>3. from < n /\ first <= n /\ (tokens'[n].type = "refresh" => first < n) /\ first \in DOMAIN tokens'
    BY <1>1, <1>6, <1>7
  <2>4. keyEpoch' = keyEpoch /\ keyEpoch \in Nat
    BY DEF SessionInv, SessionTypes
  <2> QED BY <1>6, <2>1, <2>2, <2>3, <2>4 DEF TokenOK
<1>8. LastOfLogin'
  <2> SUFFICES ASSUME NEW m \in 1..(k + 2), NEW n \in 1..(k + 2), m < n,
                      tokens'[m].type = "refresh", tokens'[n].type = "refresh",
                      tokens'[m].login = tokens'[n].login
               PROVE  m \in ended'
    BY <1>1 DEF LastOfLogin
  <2>1. CASE n \in 1..k
    <3>1. m \in 1..k
      BY <2>1
    <3> QED BY <1>1, <2>1, <3>1 DEF SessionInv, LastOfLogin
  <2>2. CASE n = k + 2
    <3>1. m \in 1..k
      BY <1>1, <2>2
    <3> QED BY <1>1, <2>2, <3>1
  <2> QED BY <1>1, <1>2, <2>1, <2>2
<1>9. ExchangedOnce'
  <2> SUFFICES ASSUME NEW m \in 1..(k + 2), NEW n \in 1..(k + 2), tokens'[m].from # 0,
                      tokens'[m].from = tokens'[n].from, tokens'[m].type = tokens'[n].type
               PROVE  m = n
    <3>1. DOMAIN tokens' = 1..(k + 2)
      BY <1>1
    <3> QED BY <3>1, Zenon DEF ExchangedOnce
  <2>1. CASE m \in 1..k /\ n \in 1..k
    <3>1. tokens'[m] = tokens[m] /\ tokens'[n] = tokens[n] /\ m \in DOMAIN tokens /\ n \in DOMAIN tokens
      BY <1>1, <2>1
    <3>2. ExchangedOnce
      BY DEF SessionInv
    <3> QED BY <3>1, <3>2 DEF ExchangedOnce
  <2>2. CASE m \in {k + 1, k + 2} /\ n \in {k + 1, k + 2}
    <3>1. tokens'[k + 1].type # tokens'[k + 2].type
      BY <1>1
    <3> HIDE DEF NewPair
    <3> QED BY <2>2, <3>1
  <2>3. CASE m \in 1..k /\ n \in {k + 1, k + 2}
    BY <1>1, <2>3
  <2>4. CASE m \in {k + 1, k + 2} /\ n \in 1..k
    BY <1>1, <2>4
  <2> QED BY <1>2, <2>1, <2>2, <2>3, <2>4
<1> QED BY <1>0, <1>1, <1>2, <1>3, <1>4, <1>5, <1>7, <1>8, <1>9 DEF SessionInv

LEMMA SessionStep ==
  ASSUME SessionInv, [SessionNext]_sessionVars
  PROVE  /\ SessionInv'
         /\ \A n \in DOMAIN tokens' \ DOMAIN tokens :
              account[tokens'[n].user].status = "LOCKED" =>
                tokens'[n].from # 0 /\ tokens'[n].login < Len(tokens)
<1> DEFINE Locked == \A n \in DOMAIN tokens' \ DOMAIN tokens :
                       account[tokens'[n].user].status = "LOCKED" =>
                         tokens'[n].from # 0 /\ tokens'[n].login < Len(tokens)
<1>0. PICK k \in Nat : k = Len(tokens) /\ DOMAIN tokens = 1..k /\ \A n \in 1..k : tokens[n] \in Issued
  BY TokenTypes DEF SessionInv
<1>1. ASSUME NEW u \in DOMAIN Users, login(u) PROVE SessionInv' /\ Locked
  <2>1. /\ account[u].role \in Roles /\ account[u].status = "ACTIVE"
        /\ tokens' = tokens \o Pair(u, account[u].role, k + 1, 0)
        /\ UNCHANGED <<sclock, keyEpoch, account, revoked, ended>> /\ passed' = {}
    BY <1>0, <1>1 DEF login, SessionInv, SessionTypes
  <2>2. \A m \in 1..k : tokens[m].login \in 1..k
    BY <1>0 DEF SessionInv, TokenOK
  <2>3. NewPair(k, u, account[u].role, k + 1, 0, {})
    BY <1>0, <2>1, <2>2 DEF NewPair
  <2>4. SessionInv' /\ Appended(k, u, account[u].role, k + 1, 0)
    BY <2>3, PairKeeps
  <2>7. \A n \in DOMAIN tokens' \ DOMAIN tokens : tokens'[n].user = u
    BY <1>0, <2>4 DEF Appended
  <2> QED BY <2>1, <2>4, <2>7
<1>2. ASSUME NEW n \in DOMAIN tokens, refresh_session(n) PROVE SessionInv' /\ Locked
  <2>1. PICK t : t = tokens[n] /\ t.type = "refresh" /\ t.key = keyEpoch /\ n \notin revoked
    BY <1>2 DEF refresh_session, Decodes
  <2>2. t \in Issued /\ t.user \in DOMAIN Users /\ t.role \in Roles /\ t.login \in Nat
    BY <1>0, <2>1 DEF Issued
  <2>3. /\ tokens' = tokens \o Pair(t.user, t.role, t.login, n)
        /\ ended' = ended \cup {n} /\ revoked' = revoked \cup {n}
        /\ UNCHANGED <<sclock, keyEpoch, account>> /\ passed' = {}
    BY <1>2, <2>1 DEF refresh_session, Revoke
  <2>4. /\ n \notin ended /\ t.login \in 1..k /\ t.login < n
        /\ tokens[t.login].user = t.user /\ tokens[t.login].role = t.role
    BY <1>0, <2>1 DEF SessionInv, TokenOK
  <2>5. ASSUME NEW m \in 1..k, tokens[m].type = "refresh", tokens[m].login = t.login
        PROVE  m \in ended'
    <3>1. ~(n < m)
      BY <1>0, <2>1, <2>4, <2>5 DEF SessionInv, LastOfLogin
    <3>2. m < n => m \in ended
      BY <1>0, <2>1, <2>5 DEF SessionInv, LastOfLogin
    <3> QED BY <1>0, <2>3, <3>1, <3>2
  <2>6. \A m \in 1..k : n # 0 => tokens[m].from # n
    BY <1>0, <2>4 DEF SessionInv, TokenOK
  <2>7. n \in Nat /\ n # 0 /\ n < k + 1 /\ n <= k /\ {n} \subseteq DOMAIN tokens
    BY <1>0
  <2>8. NewPair(k, t.user, t.role, t.login, n, {n})
    BY <1>0, <2>2, <2>3, <2>4, <2>5, <2>6, <2>7 DEF NewPair
  <2>9. SessionInv' /\ Appended(k, t.user, t.role, t.login, n)
    BY <2>8, PairKeeps
  <2>10. \A i \in DOMAIN tokens' \ DOMAIN tokens : tokens'[i].from # 0 /\ tokens'[i].login < Len(tokens)
    BY <1>0, <2>4, <2>7, <2>9 DEF Appended
  <2> QED BY <2>9, <2>10
<1>3. ASSUME NEW n \in DOMAIN tokens, logout(n) PROVE SessionInv' /\ Locked
  <2>1. /\ ended' = ended \cup {n} /\ revoked' = revoked \cup {n} /\ passed' = {}
        /\ UNCHANGED <<sclock, account, tokens, keyEpoch>>
    BY <1>3 DEF logout, Revoke
  <2>2. SessionTypes' /\ LastOfLogin' /\ ExchangedOnce' /\ PassedOK'
    BY <2>1 DEF SessionInv, SessionTypes, LastOfLogin, ExchangedOnce, PassedOK
  <2>3. \A m \in DOMAIN tokens : TokenOK(m)'
    BY <2>1 DEF SessionInv, TokenOK
  <2> QED BY <2>1, <2>2, <2>3 DEF SessionInv
<1>4. ASSUME NEW n \in DOMAIN tokens, NEW p, NEW t, AuthorizeRequest(n, p, t) PROVE SessionInv' /\ Locked
  <2>1. /\ passed' = {[token |-> n, permission |-> p, tenant |-> t]}
        /\ UNCHANGED <<sclock, account, tokens, revoked, keyEpoch, ended>>
        /\ n \notin revoked /\ tokens[n].key = keyEpoch
        /\ p \in Permissions[tokens[n].role]
        /\ tokens[n].role # "SUPER_ADMIN" => t = Users[tokens[n].user]
    BY <1>4 DEF AuthorizeRequest, Decodes, InTenant
  <2>2. n \notin ended
    BY <2>1 DEF SessionInv, TokenOK
  <2>3. PassedOK'
    <3>1. \A q \in passed' : q.token = n /\ q.permission = p /\ q.tenant = t
      BY <2>1
    <3> QED BY <2>1, <2>2, <3>1 DEF PassedOK
  <2>4. SessionTypes' /\ LastOfLogin' /\ ExchangedOnce' /\ \A m \in DOMAIN tokens : TokenOK(m)'
    BY <2>1 DEF SessionInv, SessionTypes, LastOfLogin, ExchangedOnce, TokenOK
  <2> QED BY <2>1, <2>3, <2>4 DEF SessionInv
<1>5. ASSUME NEW u \in DOMAIN Users, NEW r \in Roles, NEW s \in States, ChangeUser(u, r, s)
      PROVE  SessionInv' /\ Locked
  <2>1. /\ account' = [account EXCEPT ![u] = [role |-> r, status |-> s]] /\ passed' = {}
        /\ UNCHANGED <<sclock, tokens, revoked, keyEpoch, ended>>
    BY <1>5 DEF ChangeUser
  <2>2. account' \in [DOMAIN Users -> [role : Roles, status : States]]
    BY <2>1 DEF SessionInv, SessionTypes
  <2>3. SessionTypes' /\ LastOfLogin' /\ ExchangedOnce' /\ PassedOK' /\ \A m \in DOMAIN tokens : TokenOK(m)'
    BY <2>1, <2>2 DEF SessionInv, SessionTypes, LastOfLogin, ExchangedOnce, PassedOK, TokenOK
  <2> QED BY <2>1, <2>3 DEF SessionInv
<1>6. ASSUME IamRestart PROVE SessionInv' /\ Locked
  <2>1. /\ keyEpoch' = keyEpoch + 1 /\ revoked' = {} /\ passed' = {}
        /\ UNCHANGED <<sclock, account, tokens, ended>>
    BY <1>6 DEF IamRestart
  <2>2. SessionTypes' /\ LastOfLogin' /\ ExchangedOnce' /\ PassedOK'
    BY <2>1 DEF SessionInv, SessionTypes, LastOfLogin, ExchangedOnce, PassedOK
  <2>3. ASSUME NEW m \in DOMAIN tokens PROVE TokenOK(m)'
    <3>1. tokens[m].key \in Nat /\ keyEpoch \in Nat /\ TokenOK(m)
      BY <1>0, <2>3 DEF Issued, SessionInv, SessionTypes
    <3>2. tokens[m].key <= keyEpoch' /\ tokens[m].key # keyEpoch'
      BY <2>1, <3>1 DEF TokenOK
    <3> QED BY <2>1, <3>1, <3>2 DEF TokenOK
  <2> QED BY <2>1, <2>2, <2>3 DEF SessionInv
<1>7. ASSUME SessionTick PROVE SessionInv' /\ Locked
  <2>1. sclock' = sclock + 1 /\ passed' = {} /\ UNCHANGED <<account, tokens, revoked, keyEpoch, ended>>
    BY <1>7 DEF SessionTick
  <2>2. SessionTypes' /\ LastOfLogin' /\ ExchangedOnce' /\ PassedOK' /\ \A m \in DOMAIN tokens : TokenOK(m)'
    BY <2>1 DEF SessionInv, SessionTypes, LastOfLogin, ExchangedOnce, PassedOK, TokenOK
  <2> QED BY <2>1, <2>2 DEF SessionInv
<1>8. ASSUME UNCHANGED sessionVars PROVE SessionInv' /\ Locked
  <2>1. UNCHANGED <<sclock, account, tokens, revoked, keyEpoch, ended, passed>>
    BY <1>8 DEF sessionVars
  <2>2. SessionTypes' /\ LastOfLogin' /\ ExchangedOnce' /\ PassedOK' /\ \A m \in DOMAIN tokens : TokenOK(m)'
    BY <2>1 DEF SessionInv, SessionTypes, LastOfLogin, ExchangedOnce, PassedOK, TokenOK
  <2> QED BY <2>1, <2>2 DEF SessionInv
<1> HIDE DEF Locked
<1>9. SessionInv' /\ Locked
  BY <1>1, <1>2, <1>3, <1>4, <1>5, <1>6, <1>7, <1>8 DEF SessionNext, States
<1> QED BY <1>9 DEF Locked

\* However sessions are refreshed, ended and authorised and users changed, over
\* any restarts: a token that was revoked never authorises a request again, a
\* login has one refresh token that is good and each was exchanged once, every
\* grant goes back to the role at the login, and a locked user gets tokens only
\* by refreshing (auth_service and token_service).
THEOREM SessionsCorrect == SessionSpec => SessionsSafe
<1> DEFINE NewTokens ==
      \A n \in DOMAIN tokens' \ DOMAIN tokens :
        account[tokens'[n].user].status = "LOCKED" =>
          tokens'[n].from # 0 /\ tokens'[n].login < Len(tokens)
<1>1. SessionInit => SessionInv
  <2> SUFFICES ASSUME SessionInit PROVE SessionInv
    OBVIOUS
  <2>1. tokens \in Seq(Issued) /\ DOMAIN tokens = {}
    BY EmptySeq DEF SessionInit
  <2>2. account \in [DOMAIN Users -> [role : Roles, status : States]]
    BY DEF SessionInit, Roles, States
  <2> QED BY <2>1, <2>2 DEF SessionInit, SessionInv, SessionTypes, LastOfLogin, ExchangedOnce, PassedOK
<1>2. SessionInv /\ [SessionNext]_sessionVars => SessionInv' /\ NewTokens
  BY SessionStep
<1>3. SessionInv /\ [SessionNext]_sessionVars => [NewTokens]_sessionVars
  BY <1>2
<1>4. SessionInv /\ [SessionNext]_sessionVars => SessionInv'
  BY <1>2
<1>5. LockStopsLogins <=> [][NewTokens]_sessionVars
  BY PTL DEF LockStopsLogins
<1> HIDE DEF NewTokens
<1> QED BY <1>1, <1>3, <1>4, <1>5, SessionInvSuffices, PTL DEF SessionSpec, SessionsSafe

-----------------------------------------------------------------------------
(***************************************************************************)
(* Feedback.  As long as the latest updates of an entity are rolled back   *)
(* first, the updates that stand form a chain: each began with what the    *)
(* one before it left, and the first with the initial trust.               *)
(***************************************************************************)
VerdictRecord == [analyst : DOMAIN Analysts, tenant : {Analysts[a].tenant : a \in DOMAIN Analysts},
             incident : DOMAIN Incidents, verdict : Corrections,
             trust : {"JUNIOR", "SENIOR", "LEAD"}, at : Nat]
UpdateRecord == [feedback : Nat, entity : Entities, prior : 0..1000, posterior : 0..1000, rolled : BOOLEAN]
AdviceRecord == [tenant : FbTenants, from : 1..3, to : 1..3, status : {"PENDING_REVIEW", "APPLIED"}]

FeedbackTypes ==
  /\ fclock \in Nat /\ fbRecords \in Seq(VerdictRecord) /\ audits \in Seq(UpdateRecord) /\ recs \in Seq(AdviceRecord)
  /\ trust \in [Entities -> 0..1000] /\ sensitivity \in [FbTenants -> 1..3] /\ orderly \subseteq Entities

VerdictsOK ==
  /\ \A r \in DOMAIN fbRecords :
       /\ fbRecords[r].at <= fclock
       /\ Incidents[fbRecords[r].incident].tenant = Analysts[fbRecords[r].analyst].tenant
  /\ OneVerdictPerWindow

UpdatesOK ==
  /\ ConvergesOnce
  /\ \A n \in DOMAIN audits : audits[n].posterior - audits[n].prior \in -MaxDelta..MaxDelta

Chained(e) ==
  /\ \A n \in Standing(e) : (\A m \in Standing(e) : n <= m) => audits[n].prior = InitialTrust
  /\ \A m, n \in Standing(e) :
       m < n /\ (\A k \in Standing(e) : k <= m \/ n <= k) => audits[n].prior = audits[m].posterior
  /\ Standing(e) = {} => trust[e] = InitialTrust
  /\ \A n \in Standing(e) : (\A m \in Standing(e) : m <= n) => trust[e] = audits[n].posterior

AdviceOK ==
  \A n \in DOMAIN recs :
    /\ recs[n].to - recs[n].from \in -1..1
    /\ recs[n].from # sensitivity[recs[n].tenant] => \E m \in DOMAIN recs : recs[m].status = "APPLIED"

FeedbackInv == FeedbackTypes /\ VerdictsOK /\ UpdatesOK /\ AdviceOK /\ \A e \in orderly : Chained(e)

\* A set of positions of a sequence has a last one.
LEMMA LastPosition ==
  ASSUME NEW k \in Nat, NEW S, S \subseteq 1..k, S # {}
  PROVE  \E x \in S : \A y \in S : y <= x
<1>1. PICK T : T = {k - y : y \in S}
  OBVIOUS
<1>2. T \subseteq Nat /\ T # {}
  <2>1. \A y \in S : y \in 1..k
    OBVIOUS
  <2>2. \A y \in 1..k : k - y \in Nat
    OBVIOUS
  <2> QED BY <1>1, <2>1, <2>2
<1>3. PICK z \in T : \A t \in T : ~(<<t, z>> \in OpToRel(<, Nat))
  BY <1>2, NatLessThanWellFounded, WFMin, Zenon
<1>4. \A t \in T : ~(t < z)
  BY <1>2, <1>3 DEF OpToRel
<1>5. PICK x \in S : z = k - x
  BY <1>1
<1>6. ASSUME NEW y \in S PROVE y <= x
  <2>1. k - y \in T
    BY <1>1
  <2>2. ~(k - y < k - x)
    BY <1>4, <1>5, <2>1
  <2> QED BY <2>2
<1> QED BY <1>6

LEMMA PositionsOf ==
  ASSUME NEW S, NEW q \in Seq(S)
  PROVE  \E k \in Nat : k = Len(q) /\ DOMAIN q = 1..k /\ \A n \in 1..k : q[n] \in S
BY LenProperties, ElementOfSeq

LEMMA FeedbackInvSuffices ==
  FeedbackInv => FeedbackTypeOK /\ OneVerdictPerWindow /\ ConvergesOnce /\ RollbackRestores
<1> SUFFICES ASSUME FeedbackInv
             PROVE  FeedbackTypeOK /\ OneVerdictPerWindow /\ ConvergesOnce /\ RollbackRestores
  OBVIOUS
<1>1. FeedbackTypeOK
  <2>1. PICK k \in Nat : k = Len(recs) /\ DOMAIN recs = 1..k /\ \A n \in 1..k : recs[n] \in AdviceRecord
    BY PositionsOf DEF FeedbackInv, FeedbackTypes
  <2>2. \A n \in DOMAIN recs : recs[n].from \in 1..3 /\ recs[n].to \in 1..3
    BY <2>1 DEF AdviceRecord
  <2> QED BY <2>2 DEF FeedbackTypeOK, FeedbackInv, FeedbackTypes, UpdatesOK
<1>2. RollbackRestores
  <2> SUFFICES ASSUME NEW e \in orderly, Standing(e) # {}
               PROVE  trust[e] = audits[CHOOSE n \in Standing(e) : \A m \in Standing(e) : m <= n].posterior
    BY DEF RollbackRestores, FeedbackInv, Chained
  <2>1. PICK k \in Nat : k = Len(audits) /\ DOMAIN audits = 1..k /\ \A n \in 1..k : audits[n] \in UpdateRecord
    BY PositionsOf DEF FeedbackInv, FeedbackTypes
  <2>2. \E x \in Standing(e) : \A y \in Standing(e) : y <= x
    BY <2>1, LastPosition DEF Standing
  <2>3. PICK n : n = CHOOSE x \in Standing(e) : \A m \in Standing(e) : m <= x
    OBVIOUS
  <2>4. n \in Standing(e) /\ \A m \in Standing(e) : m <= n
    BY <2>2, <2>3
  <2> QED BY <2>3, <2>4 DEF FeedbackInv, Chained
<1> QED BY <1>1, <1>2 DEF FeedbackInv, VerdictsOK, UpdatesOK

\* A correction moves the trust by at most MaxDelta, within its range.
LEMMA PosteriorRange ==
  ASSUME NEW r \in VerdictRecord, NEW prior \in 0..1000
  PROVE  Posterior(prior, r) \in 0..1000 /\ Posterior(prior, r) - prior \in -MaxDelta..MaxDelta
<1>1. Weight[r.trust] \in Int
  BY DEF Weight, VerdictRecord
<1>2. SignalOf[r.verdict] \in Int
  <2>1. r.verdict \in {"FALSE_POSITIVE", "CONFIRMED_CLEAN", "BENIGN_ANOMALY", "NEEDS_ESCALATION",
                       "CONFIRMED_SUSPICIOUS", "FALSE_NEGATIVE", "CONFIRMED_MALICIOUS"}
    BY CorrectionAssumption DEF VerdictRecord
  <2>2. /\ SignalOf["FALSE_POSITIVE"] = 100 /\ SignalOf["CONFIRMED_CLEAN"] = 80
        /\ SignalOf["BENIGN_ANOMALY"] = 40 /\ SignalOf["NEEDS_ESCALATION"] = 0
        /\ SignalOf["CONFIRMED_SUSPICIOUS"] = -50 /\ SignalOf["FALSE_NEGATIVE"] = -100
        /\ SignalOf["CONFIRMED_MALICIOUS"] = -100
    BY DEF SignalOf
  <2> QED BY <2>1, <2>2
<1>3. PICK x : x = (LearningRate * Weight[r.trust] * SignalOf[r.verdict]) \div 10000
  OBVIOUS
<1>4. x \in Int
  <2>1. LearningRate * Weight[r.trust] * SignalOf[r.verdict] \in Int
    BY <1>1, <1>2 DEF LearningRate
  <2> QED BY <1>3, <2>1
<1>5. Delta(r) \in -200..200
  BY <1>3, <1>4 DEF Delta, Clamp, MaxDelta
<1>6. PICK d \in -200..200 : d = Delta(r)
  BY <1>5
<1>7. Posterior(prior, r) = IF prior + d < 0 THEN 0 ELSE IF prior + d > 1000 THEN 1000 ELSE prior + d
  BY <1>6 DEF Posterior, Clamp
<1> QED BY <1>7 DEF MaxDelta

LEMMA DirectionRange == ASSUME NEW t PROVE Direction(t) \in -1..1
BY DEF Direction

\* What a step leaves alone keeps its part of the invariant.
LEMMA FeedbackFrames ==
  ASSUME FeedbackInv
  PROVE  /\ UNCHANGED <<fclock, fbRecords>> => VerdictsOK'
         /\ UNCHANGED audits => UpdatesOK'
         /\ UNCHANGED <<recs, sensitivity>> => AdviceOK'
         /\ UNCHANGED <<audits, trust, orderly>> => \A e \in orderly' : Chained(e)'
<1>1. UNCHANGED <<fclock, fbRecords>> => VerdictsOK'
  BY DEF FeedbackInv, VerdictsOK, OneVerdictPerWindow
<1>2. UNCHANGED audits => UpdatesOK'
  BY DEF FeedbackInv, UpdatesOK, ConvergesOnce
<1>3. UNCHANGED <<recs, sensitivity>> => AdviceOK'
  BY DEF FeedbackInv, AdviceOK
<1>4. ASSUME UNCHANGED <<audits, trust, orderly>>, NEW e \in orderly' PROVE Chained(e)'
  <2>1. Standing(e)' = Standing(e) /\ Chained(e)
    BY <1>4 DEF Standing, FeedbackInv
  <2> QED BY <1>4, <2>1 DEF Chained
<1> QED BY <1>1, <1>2, <1>3, <1>4

\* A correction that is recorded.
LEMMA SubmitKeeps ==
  ASSUME FeedbackInv, NEW a \in DOMAIN Analysts, NEW i \in DOMAIN Incidents, NEW v \in Corrections,
         submit_feedback(a, i, v)
  PROVE  FeedbackInv'
<1>1. PICK k \in Nat : k = Len(fbRecords) /\ DOMAIN fbRecords = 1..k /\ \A n \in 1..k : fbRecords[n] \in VerdictRecord
  BY PositionsOf DEF FeedbackInv, FeedbackTypes
<1>2. TrustLevel(a) \in {"JUNIOR", "SENIOR", "LEAD"}
  BY AnalystAssumption DEF TrustLevel
<1>3. PICK r : r = [analyst |-> a, tenant |-> Analysts[a].tenant, incident |-> i,
                    verdict |-> v, trust |-> TrustLevel(a), at |-> fclock]
  OBVIOUS
<1>4. r \in VerdictRecord
  BY <1>2, <1>3 DEF VerdictRecord, FeedbackInv, FeedbackTypes
<1>5. r.analyst = a /\ r.incident = i /\ r.at = fclock
  BY <1>3
<1>6. /\ fbRecords' = Append(fbRecords, r) /\ fbRecords \in Seq(VerdictRecord)
      /\ Incidents[i].tenant = Analysts[a].tenant /\ ~RecentlyCorrected(a, i)
      /\ UNCHANGED <<fclock, trust, audits, recs, sensitivity, orderly>>
  BY <1>3 DEF submit_feedback, FeedbackInv, FeedbackTypes
<1>7. /\ fbRecords' \in Seq(VerdictRecord) /\ Len(fbRecords') = k + 1
      /\ \A n \in 1..k : fbRecords'[n] = fbRecords[n]
      /\ fbRecords'[k + 1] = r
  BY <1>1, <1>4, <1>6, AppendProperties
<1>8. DOMAIN fbRecords' = 1..(k + 1)
  BY <1>7, LenProperties
<1>9. FeedbackTypes' /\ UpdatesOK' /\ AdviceOK' /\ \A e \in orderly' : Chained(e)'
  <2>1. FeedbackTypes'
    BY <1>6, <1>7 DEF FeedbackInv, FeedbackTypes
  <2> QED BY <1>6, <2>1, FeedbackFrames
<1>10. \A n \in 1..(k + 1) : n \in 1..k \/ n = k + 1
  OBVIOUS
<1>11. ASSUME NEW n \in 1..(k + 1)
       PROVE  /\ fbRecords'[n].at <= fclock'
              /\ Incidents[fbRecords'[n].incident].tenant = Analysts[fbRecords'[n].analyst].tenant
  <2>1. CASE n \in 1..k
    BY <1>1, <1>6, <1>7, <2>1 DEF FeedbackInv, VerdictsOK
  <2>2. CASE n = k + 1
    <3>1. fclock \in Nat
      BY DEF FeedbackInv, FeedbackTypes
    <3> QED BY <1>5, <1>6, <1>7, <2>2, <3>1
  <2> QED BY <1>10, <2>1, <2>2
<1>12. ASSUME NEW m \in 1..(k + 1), NEW n \in 1..(k + 1), m < n,
              fbRecords'[m].analyst = fbRecords'[n].analyst, fbRecords'[m].incident = fbRecords'[n].incident
       PROVE  fbRecords'[n].at - fbRecords'[m].at > IdempotencyWindow
  <2>1. m \in 1..k
    BY <1>12
  <2>2. CASE n \in 1..k
    BY <1>1, <1>7, <1>12, <2>1, <2>2 DEF FeedbackInv, VerdictsOK, OneVerdictPerWindow
  <2>3. CASE n = k + 1
    <3>1. fbRecords[m].analyst = a /\ fbRecords[m].incident = i /\ fbRecords'[m] = fbRecords[m]
      BY <1>5, <1>7, <1>12, <2>1, <2>3
    <3>2. ~(fbRecords[m].at >= fclock - IdempotencyWindow)
      BY <1>1, <1>6, <2>1, <3>1 DEF RecentlyCorrected
    <3>3. fbRecords[m].at \in Nat /\ fclock \in Nat
      BY <1>1, <2>1 DEF VerdictRecord, FeedbackInv, FeedbackTypes
    <3>4. fbRecords'[n].at = fclock
      BY <1>5, <1>7, <2>3
    <3> QED BY <3>1, <3>2, <3>3, <3>4, WindowAssumption
  <2> QED BY <1>10, <2>2, <2>3
<1>13. VerdictsOK'
  BY <1>8, <1>11, <1>12 DEF VerdictsOK, OneVerdictPerWindow
<1> QED BY <1>9, <1>13 DEF FeedbackInv

\* An update: the last of the chain of its entity.
LEMMA ConvergenceKeeps ==
  ASSUME FeedbackInv, NEW f \in DOMAIN fbRecords, apply_convergence(f)
  PROVE  FeedbackInv'
<1>1. PICK k \in Nat : k = Len(audits) /\ DOMAIN audits = 1..k /\ \A n \in 1..k : audits[n] \in UpdateRecord
  BY PositionsOf DEF FeedbackInv, FeedbackTypes
<1>2. PICK j \in Nat : j = Len(fbRecords) /\ DOMAIN fbRecords = 1..j /\ \A n \in 1..j : fbRecords[n] \in VerdictRecord
  BY PositionsOf DEF FeedbackInv, FeedbackTypes
<1>3. PICK c : c = Incidents[fbRecords[f].incident].entity
  OBVIOUS
<1>4. c \in Entities /\ fbRecords[f] \in VerdictRecord /\ f \in Nat
  BY <1>2, <1>3 DEF VerdictRecord, Entities
<1>5. PICK p \in 0..1000 : p = trust[c]
  BY <1>4 DEF FeedbackInv, FeedbackTypes
<1>6. PICK q \in 0..1000 : q = Posterior(p, fbRecords[f]) /\ q - p \in -MaxDelta..MaxDelta
  BY <1>4, PosteriorRange
<1>7. /\ trust' = [trust EXCEPT ![c] = q] /\ trust \in [Entities -> 0..1000]
      /\ audits' = Append(audits, [feedback |-> f, entity |-> c, prior |-> p, posterior |-> trust'[c], rolled |-> FALSE])
      /\ ~Processed(f)
      /\ UNCHANGED <<fclock, fbRecords, recs, sensitivity, orderly>>
  BY <1>3, <1>5, <1>6 DEF apply_convergence, FeedbackInv, FeedbackTypes
<1>8. trust' \in [Entities -> 0..1000] /\ trust'[c] = q /\ \A e \in Entities \ {c} : trust'[e] = trust[e]
  <2>1. trust' = [trust EXCEPT ![c] = q] /\ trust \in [Entities -> 0..1000] /\ q \in 0..1000
    BY <1>7
  <2>2. trust' \in [Entities -> 0..1000]
    BY <1>4, <2>1
  <2>3. trust'[c] = q
    BY <1>4, <2>1
  <2>4. \A e \in Entities \ {c} : trust'[e] = trust[e]
    BY <2>1
  <2> QED BY <2>2, <2>3, <2>4
<1>9. PICK u : u = [feedback |-> f, entity |-> c, prior |-> p, posterior |-> q, rolled |-> FALSE]
  OBVIOUS
<1>10. u \in UpdateRecord /\ u.feedback = f /\ u.entity = c /\ u.prior = p /\ u.posterior = q /\ u.rolled = FALSE
  BY <1>4, <1>9 DEF UpdateRecord
<1>11. audits' = Append(audits, u) /\ audits \in Seq(UpdateRecord)
  BY <1>7, <1>8, <1>9 DEF FeedbackInv, FeedbackTypes
<1>12. /\ audits' \in Seq(UpdateRecord) /\ Len(audits') = k + 1
       /\ \A n \in 1..k : audits'[n] = audits[n]
       /\ audits'[k + 1] = u
  BY <1>1, <1>10, <1>11, AppendProperties
<1>13. DOMAIN audits' = 1..(k + 1) /\ 1..(k + 1) = 1..k \cup {k + 1}
  BY <1>12, LenProperties
<1>14. FeedbackTypes' /\ VerdictsOK' /\ AdviceOK'
  <2>1. FeedbackTypes'
    BY <1>7, <1>8, <1>12 DEF FeedbackInv, FeedbackTypes
  <2> QED BY <1>7, <2>1, FeedbackFrames
<1>15. UpdatesOK'
  <2>1. \A n \in 1..(k + 1) : audits'[n].posterior - audits'[n].prior \in -MaxDelta..MaxDelta
    BY <1>1, <1>6, <1>10, <1>12, <1>13 DEF FeedbackInv, UpdatesOK
  <2>2. \A n \in 1..k : audits[n].feedback # f
    BY <1>1, <1>7 DEF Processed
  <2>3. ASSUME NEW m \in 1..(k + 1), NEW n \in 1..(k + 1), audits'[m].feedback = audits'[n].feedback
        PROVE  m = n
    BY <1>1, <1>10, <1>12, <1>13, <2>2, <2>3 DEF FeedbackInv, UpdatesOK, ConvergesOnce
  <2> QED BY <1>13, <2>1, <2>3 DEF UpdatesOK, ConvergesOnce
<1>16. ASSUME NEW e \in orderly' PROVE Chained(e)'
  <2>0. Chained(e) /\ e \in Entities
    BY <1>7 DEF FeedbackInv, FeedbackTypes
  <2>1. Standing(e) \subseteq 1..k /\ \A n \in Standing(e) : audits'[n] = audits[n]
    BY <1>1, <1>12 DEF Standing
  <2>2. CASE e # c
    <3>1. Standing(e)' = Standing(e)
      <4>1. Standing(e)' = {n \in 1..(k + 1) : audits'[n].entity = e /\ ~audits'[n].rolled}
        BY <1>13 DEF Standing
      <4> QED BY <1>1, <1>10, <1>12, <1>13, <2>2, <4>1 DEF Standing
    <3>2. trust'[e] = trust[e]
      BY <1>8, <2>0, <2>2
    <3> QED BY <2>0, <2>1, <3>1, <3>2 DEF Chained
  <2>3. CASE e = c
    <3>1. Standing(e)' = Standing(e) \cup {k + 1}
      <4>1. Standing(e)' = {n \in 1..(k + 1) : audits'[n].entity = e /\ ~audits'[n].rolled}
        BY <1>13 DEF Standing
      <4> QED BY <1>1, <1>10, <1>12, <1>13, <2>3, <4>1 DEF Standing
    <3>2. trust[e] = p /\ trust'[e] = q /\ audits'[k + 1].prior = p /\ audits'[k + 1].posterior = q
      BY <1>5, <1>8, <1>10, <1>12, <2>3
    <3>3. PICK S : S = Standing(e)
      OBVIOUS
    <3>4. S \subseteq 1..k /\ Standing(e)' = S \cup {k + 1} /\ \A n \in S : audits'[n] = audits[n]
      BY <2>1, <3>1, <3>3
    <3>5. ASSUME NEW n \in S \cup {k + 1}, \A m \in S \cup {k + 1} : n <= m
          PROVE  audits'[n].prior = InitialTrust
      <4>1. CASE n = k + 1
        <5>1. S = {}
          BY <3>4, <3>5, <4>1
        <5> QED BY <2>0, <3>2, <3>3, <4>1, <5>1 DEF Chained
      <4>2. CASE n \in S
        BY <2>0, <3>3, <3>4, <3>5, <4>2 DEF Chained
      <4> QED BY <4>1, <4>2
    <3>6. ASSUME NEW m \in S \cup {k + 1}, NEW n \in S \cup {k + 1}, m < n,
                 \A x \in S \cup {k + 1} : x <= m \/ n <= x
          PROVE  audits'[n].prior = audits'[m].posterior
      <4>1. m \in S
        BY <3>4, <3>6
      <4>2. CASE n = k + 1
        <5>1. \A x \in S : x <= m
          BY <3>4, <3>6, <4>2
        <5>2. trust[e] = audits[m].posterior
          BY <2>0, <3>3, <4>1, <5>1 DEF Chained
        <5> QED BY <3>2, <3>4, <4>1, <4>2, <5>2
      <4>3. CASE n \in S
        <5>1. audits[n].prior = audits[m].posterior
          BY <2>0, <3>3, <3>6, <4>1, <4>3 DEF Chained
        <5> QED BY <3>4, <4>1, <4>3, <5>1
      <4> QED BY <4>2, <4>3
    <3>7. ASSUME NEW n \in S \cup {k + 1}, \A m \in S \cup {k + 1} : m <= n
          PROVE  trust'[e] = audits'[n].posterior
      <4>1. n = k + 1
        BY <3>4, <3>7
      <4> QED BY <3>2, <4>1
    <3> QED BY <3>4, <3>5, <3>6, <3>7 DEF Chained
  <2> QED BY <2>2, <2>3
<1> QED BY <1>14, <1>15, <1>16 DEF FeedbackInv

\* A rollback: the last of a chain leaves it, or the entity is not orderly any more.
LEMMA RollbackKeeps ==
  ASSUME FeedbackInv, NEW n \in DOMAIN audits, rollback_convergence(n)
  PROVE  FeedbackInv'
<1>1. PICK k \in Nat : k = Len(audits) /\ DOMAIN audits = 1..k /\ \A m \in 1..k : audits[m] \in UpdateRecord
  BY PositionsOf DEF FeedbackInv, FeedbackTypes
<1>2. PICK u : u = audits[n]
  OBVIOUS
<1>3. u \in UpdateRecord /\ u.entity \in Entities /\ u.prior \in 0..1000
  <2>1. u \in UpdateRecord
    BY <1>1, <1>2
  <2> QED BY <2>1 DEF UpdateRecord
<1>4. PICK w : w = [u EXCEPT !.rolled = TRUE]
  OBVIOUS
<1>5. /\ w \in UpdateRecord /\ w.entity = u.entity /\ w.prior = u.prior /\ w.posterior = u.posterior
      /\ w.feedback = u.feedback /\ w.rolled = TRUE
  <2>1. w.entity = u.entity /\ w.prior = u.prior /\ w.posterior = u.posterior /\ w.feedback = u.feedback
    BY <1>3, <1>4 DEF UpdateRecord
  <2>2. w.rolled = TRUE
    BY <1>3, <1>4 DEF UpdateRecord
  <2>3. w \in UpdateRecord
    <3>1. w = [feedback |-> u.feedback, entity |-> u.entity, prior |-> u.prior, posterior |-> u.posterior,
               rolled |-> TRUE]
      BY <1>3, <1>4 DEF UpdateRecord
    <3>2. u.feedback \in Nat /\ u.entity \in Entities /\ u.prior \in 0..1000 /\ u.posterior \in 0..1000
      BY <1>3 DEF UpdateRecord
    <3> QED BY <3>1, <3>2 DEF UpdateRecord
  <2> QED BY <2>1, <2>2, <2>3
<1>6. /\ ~u.rolled /\ trust' = [trust EXCEPT ![u.entity] = u.prior] /\ audits' = [audits EXCEPT ![n] = w]
      /\ orderly' = IF \A m \in Standing(u.entity) : m <= n THEN orderly ELSE orderly \ {u.entity}
      /\ UNCHANGED <<fclock, fbRecords, recs, sensitivity>>
  BY <1>2, <1>4 DEF rollback_convergence
<1>7. audits \in Seq(UpdateRecord) /\ trust \in [Entities -> 0..1000] /\ orderly \subseteq Entities
  BY DEF FeedbackInv, FeedbackTypes
<1>8. /\ audits' \in Seq(UpdateRecord) /\ Len(audits') = k
      /\ \A m \in 1..k : audits'[m] = IF m = n THEN w ELSE audits[m]
  BY <1>1, <1>5, <1>6, <1>7, ExceptSeq
<1>9. DOMAIN audits' = 1..k
  BY <1>8, LenProperties
<1>10. /\ trust' \in [Entities -> 0..1000] /\ trust'[u.entity] = u.prior
       /\ \A e \in Entities \ {u.entity} : trust'[e] = trust[e]
  BY <1>3, <1>6, <1>7
<1>11. FeedbackTypes' /\ VerdictsOK' /\ AdviceOK'
  <2>1. orderly' \subseteq Entities
    BY <1>6, <1>7
  <2>2. FeedbackTypes'
    BY <1>6, <1>8, <1>10, <2>1 DEF FeedbackInv, FeedbackTypes
  <2> QED BY <1>6, <2>2, FeedbackFrames
<1>12. \A m \in 1..k : /\ audits'[m].prior = audits[m].prior /\ audits'[m].posterior = audits[m].posterior
                       /\ audits'[m].feedback = audits[m].feedback /\ audits'[m].entity = audits[m].entity
                       /\ audits'[m].rolled = (audits[m].rolled \/ m = n)
  <2>1. ASSUME NEW m \in 1..k
        PROVE  /\ audits'[m].prior = audits[m].prior /\ audits'[m].posterior = audits[m].posterior
               /\ audits'[m].feedback = audits[m].feedback /\ audits'[m].entity = audits[m].entity
               /\ audits'[m].rolled = (audits[m].rolled \/ m = n)
    <3>1. CASE m = n
      BY <1>2, <1>5, <1>8, <2>1, <3>1
    <3>2. CASE m # n
      <4>1. audits'[m] = audits[m] /\ audits[m].rolled \in BOOLEAN
        BY <1>1, <1>8, <2>1, <3>2 DEF UpdateRecord
      <4> QED BY <3>2, <4>1
    <3> QED BY <3>1, <3>2
  <2> QED BY <2>1
<1>13. UpdatesOK'
  BY <1>1, <1>9, <1>12 DEF FeedbackInv, UpdatesOK, ConvergesOnce
<1>14. ASSUME NEW e \in orderly' PROVE Chained(e)'
  <2>0. e \in orderly /\ Chained(e) /\ e \in Entities
    BY <1>6, <1>7 DEF FeedbackInv
  <2>1. PICK S : S = Standing(e) /\ S \subseteq 1..k
    BY <1>1 DEF Standing
  <2>2. Standing(e)' = S \ {n}
    <3>1. Standing(e)' = {m \in 1..k : audits'[m].entity = e /\ ~audits'[m].rolled}
      BY <1>9 DEF Standing
    <3> QED BY <1>1, <1>12, <2>1, <3>1 DEF Standing
  <2>3. \A m \in S : audits'[m].prior = audits[m].prior /\ audits'[m].posterior = audits[m].posterior
    BY <1>12, <2>1
  <2>4. CASE e # u.entity
    <3>1. n \notin S
      BY <1>2, <2>1, <2>4 DEF Standing
    <3>2. Standing(e)' = S /\ trust'[e] = trust[e]
      BY <1>10, <2>0, <2>2, <2>4, <3>1
    <3> QED BY <2>0, <2>1, <2>3, <3>2 DEF Chained
  <2>5. CASE e = u.entity
    <3>1. n \in S /\ \A m \in S : m <= n
      BY <1>2, <1>6, <2>1, <2>5 DEF Standing
    <3>2. trust'[e] = audits[n].prior /\ n \in 1..k
      BY <1>1, <1>2, <1>10, <2>5
    <3>3. ASSUME NEW i \in S \ {n}, \A m \in S \ {n} : i <= m PROVE audits'[i].prior = InitialTrust
      <4>1. \A m \in S : i <= m
        BY <2>1, <3>1, <3>3
      <4> QED BY <2>0, <2>1, <2>3, <4>1 DEF Chained
    <3>4. ASSUME NEW i \in S \ {n}, NEW j \in S \ {n}, i < j, \A x \in S \ {n} : x <= i \/ j <= x
          PROVE  audits'[j].prior = audits'[i].posterior
      <4>1. \A x \in S : x <= i \/ j <= x
        BY <3>1, <3>4
      <4>2. audits[j].prior = audits[i].posterior
        BY <2>0, <2>1, <3>4, <4>1 DEF Chained
      <4> QED BY <2>3, <4>2
    <3>5. ASSUME S \ {n} = {} PROVE trust'[e] = InitialTrust
      <4>1. \A m \in S : n <= m
        BY <3>1, <3>2, <3>5
      <4> QED BY <2>0, <2>1, <3>1, <3>2, <4>1 DEF Chained
    <3>6. ASSUME NEW i \in S \ {n}, \A m \in S \ {n} : m <= i PROVE trust'[e] = audits'[i].posterior
      <4>1. i < n /\ \A x \in S : x <= i \/ n <= x
        BY <2>1, <3>1, <3>2, <3>6
      <4>2. audits[n].prior = audits[i].posterior
        BY <2>0, <2>1, <3>1, <3>6, <4>1 DEF Chained
      <4> QED BY <2>3, <3>2, <3>6, <4>2
    <3> QED BY <2>2, <3>3, <3>4, <3>5, <3>6 DEF Chained
  <2> QED BY <2>4, <2>5
<1> QED BY <1>11, <1>13, <1>14 DEF FeedbackInv

\* What the tuner may do to the sensitivity in a step.
Tuned ==
  \A t \in FbTenants : sensitivity'[t] # sensitivity[t] =>
    \E n \in DOMAIN recs :
      /\ recs[n].tenant = t /\ recs[n].to = sensitivity'[t]
      /\ recs[n].status = "PENDING_REVIEW" /\ recs'[n].status = "APPLIED"
      /\ \/ sensitivity'[t] - sensitivity[t] \in -1..1
         \/ \E m \in DOMAIN recs : recs[m].status = "APPLIED" /\ recs[n].from # sensitivity[t]

LEMMA RecommendKeeps ==
  ASSUME FeedbackInv, NEW t \in FbTenants, generate_recommendation(t)
  PROVE  FeedbackInv' /\ UNCHANGED sensitivity
<1>1. PICK k \in Nat : k = Len(recs) /\ DOMAIN recs = 1..k /\ \A n \in 1..k : recs[n] \in AdviceRecord
  BY PositionsOf DEF FeedbackInv, FeedbackTypes
<1>2. PICK s \in 1..3 : s = sensitivity[t]
  BY DEF FeedbackInv, FeedbackTypes
<1>3. PICK d \in -1..1 : d = Direction(t)
  BY DirectionRange
<1>4. PICK g : g = Clamp(s + d, 1, 3)
  OBVIOUS
<1>5. g \in 1..3 /\ g - s \in -1..1
  BY <1>4 DEF Clamp
<1>6. PICK r : r = [tenant |-> t, from |-> s, to |-> g, status |-> "PENDING_REVIEW"]
  OBVIOUS
<1>7. r \in AdviceRecord /\ r.tenant = t /\ r.from = s /\ r.to = g
  BY <1>5, <1>6 DEF AdviceRecord
<1>8. /\ recs' = Append(recs, r) /\ recs \in Seq(AdviceRecord)
      /\ UNCHANGED <<fclock, fbRecords, trust, audits, sensitivity, orderly>>
  BY <1>2, <1>3, <1>4, <1>6 DEF generate_recommendation, FeedbackInv, FeedbackTypes
<1>9. /\ recs' \in Seq(AdviceRecord) /\ Len(recs') = k + 1
      /\ \A n \in 1..k : recs'[n] = recs[n]
      /\ recs'[k + 1] = r
  BY <1>1, <1>7, <1>8, AppendProperties
<1>10. DOMAIN recs' = 1..(k + 1) /\ 1..(k + 1) = 1..k \cup {k + 1}
  BY <1>9, LenProperties
<1>11. FeedbackTypes'
  BY <1>8, <1>9 DEF FeedbackInv, FeedbackTypes
<1>12. ASSUME NEW n \in 1..(k + 1)
       PROVE  /\ recs'[n].to - recs'[n].from \in -1..1
              /\ recs'[n].from # sensitivity'[recs'[n].tenant] =>
                   \E m \in 1..(k + 1) : recs'[m].status = "APPLIED"
  <2>1. CASE n \in 1..k
    BY <1>1, <1>8, <1>9, <1>10, <2>1 DEF FeedbackInv, AdviceOK
  <2>2. CASE n = k + 1
    BY <1>2, <1>5, <1>7, <1>8, <1>9, <2>2
  <2> QED BY <1>10, <2>1, <2>2
<1>13. AdviceOK'
  BY <1>10, <1>12 DEF AdviceOK
<1> QED BY <1>8, <1>11, <1>13, FeedbackFrames DEF FeedbackInv

LEMMA ApplyKeeps ==
  ASSUME FeedbackInv, NEW n \in DOMAIN recs, apply_recommendation(n)
  PROVE  FeedbackInv' /\ Tuned
<1>1. PICK k \in Nat : k = Len(recs) /\ DOMAIN recs = 1..k /\ \A m \in 1..k : recs[m] \in AdviceRecord
  BY PositionsOf DEF FeedbackInv, FeedbackTypes
<1>2. PICK r : r = recs[n]
  OBVIOUS
<1>3. r \in AdviceRecord /\ r.tenant \in FbTenants /\ r.to \in 1..3 /\ r.from \in 1..3
  BY <1>1, <1>2 DEF AdviceRecord
<1>4. PICK w : w = [r EXCEPT !.status = "APPLIED"]
  OBVIOUS
<1>5. w \in AdviceRecord /\ w.tenant = r.tenant /\ w.from = r.from /\ w.to = r.to /\ w.status = "APPLIED"
  BY <1>3, <1>4 DEF AdviceRecord
<1>6. /\ r.status = "PENDING_REVIEW" /\ recs' = [recs EXCEPT ![n] = w]
      /\ sensitivity' = [sensitivity EXCEPT ![r.tenant] = r.to]
      /\ UNCHANGED <<fclock, fbRecords, trust, audits, orderly>>
  BY <1>2, <1>4 DEF apply_recommendation
<1>7. recs \in Seq(AdviceRecord) /\ sensitivity \in [FbTenants -> 1..3]
  BY DEF FeedbackInv, FeedbackTypes
<1>8. /\ recs' \in Seq(AdviceRecord) /\ Len(recs') = k
      /\ \A m \in 1..k : recs'[m] = IF m = n THEN w ELSE recs[m]
  BY <1>1, <1>5, <1>6, <1>7, ExceptSeq
<1>9. DOMAIN recs' = 1..k
  BY <1>8, LenProperties
<1>10. /\ sensitivity' \in [FbTenants -> 1..3] /\ sensitivity'[r.tenant] = r.to
       /\ \A t \in FbTenants \ {r.tenant} : sensitivity'[t] = sensitivity[t]
  BY <1>3, <1>6, <1>7
<1>11. FeedbackTypes'
  BY <1>6, <1>8, <1>10 DEF FeedbackInv, FeedbackTypes
<1>12. n \in 1..k /\ recs'[n].status = "APPLIED"
  BY <1>1, <1>5, <1>8
<1>13. \A m \in 1..k : recs'[m].to = recs[m].to /\ recs'[m].from = recs[m].from
  BY <1>2, <1>5, <1>8
<1>14. AdviceOK'
  BY <1>1, <1>9, <1>12, <1>13 DEF FeedbackInv, AdviceOK
<1>15. r.to - r.from \in -1..1 /\ (r.from # sensitivity[r.tenant] => \E m \in DOMAIN recs : recs[m].status = "APPLIED")
  BY <1>2 DEF FeedbackInv, AdviceOK
<1>16. ASSUME NEW t \in FbTenants, sensitivity'[t] # sensitivity[t]
       PROVE  /\ recs[n].tenant = t /\ recs[n].to = sensitivity'[t]
              /\ recs[n].status = "PENDING_REVIEW" /\ recs'[n].status = "APPLIED"
              /\ \/ sensitivity'[t] - sensitivity[t] \in -1..1
                 \/ \E m \in DOMAIN recs : recs[m].status = "APPLIED" /\ recs[n].from # sensitivity[t]
  <2>1. t = r.tenant
    BY <1>10, <1>16
  <2>2. CASE r.from = sensitivity[t]
    BY <1>2, <1>6, <1>10, <1>12, <1>15, <2>1, <2>2
  <2>3. CASE r.from # sensitivity[t]
    BY <1>2, <1>6, <1>10, <1>12, <1>15, <2>1, <2>3
  <2> QED BY <2>2, <2>3
<1>17. Tuned
  BY <1>16 DEF Tuned
<1> QED BY <1>6, <1>11, <1>14, <1>17, FeedbackFrames DEF FeedbackInv

LEMMA FeedbackStep ==
  ASSUME FeedbackInv, [\E use \in {"convergence", "tuning"} : FeedbackNext(use)]_fbVars
  PROVE  FeedbackInv' /\ Tuned
<1>1. UNCHANGED sensitivity => Tuned
  BY DEF Tuned
<1>2. ASSUME FeedbackTick PROVE FeedbackInv' /\ Tuned
  <2>1. fclock' = fclock + 1 /\ UNCHANGED <<fbRecords, trust, audits, recs, sensitivity, orderly>>
    BY <1>2 DEF FeedbackTick
  <2>2. FeedbackTypes'
    <3>1. fclock' \in Nat
      BY <2>1 DEF FeedbackInv, FeedbackTypes
    <3> QED BY <2>1, <3>1 DEF FeedbackInv, FeedbackTypes
  <2>3. VerdictsOK'
    <3>1. ASSUME NEW r \in DOMAIN fbRecords PROVE fbRecords[r].at <= fclock'
      <4>1. fbRecords[r] \in VerdictRecord
        BY PositionsOf DEF FeedbackInv, FeedbackTypes
      <4>2. fbRecords[r].at \in Nat /\ fclock \in Nat /\ fbRecords[r].at <= fclock
        BY <4>1 DEF VerdictRecord, FeedbackInv, FeedbackTypes, VerdictsOK
      <4> QED BY <2>1, <4>2
    <3>2. OneVerdictPerWindow'
      BY <2>1 DEF FeedbackInv, VerdictsOK, OneVerdictPerWindow
    <3> QED BY <2>1, <3>1, <3>2 DEF FeedbackInv, VerdictsOK
  <2> QED BY <1>1, <2>1, <2>2, <2>3, FeedbackFrames DEF FeedbackInv
<1>3. ASSUME NEW a \in DOMAIN Analysts, NEW i \in DOMAIN Incidents, NEW v \in Corrections, submit_feedback(a, i, v)
      PROVE  FeedbackInv' /\ Tuned
  <2>1. UNCHANGED sensitivity
    BY <1>3 DEF submit_feedback
  <2> QED BY <1>1, <1>3, <2>1, SubmitKeeps
<1>4. ASSUME NEW f \in DOMAIN fbRecords, apply_convergence(f) PROVE FeedbackInv' /\ Tuned
  <2>1. UNCHANGED sensitivity
    BY <1>4 DEF apply_convergence
  <2> QED BY <1>1, <1>4, <2>1, ConvergenceKeeps
<1>5. ASSUME UNCHANGED <<fclock, fbRecords, trust, audits, recs, sensitivity, orderly>> PROVE FeedbackInv' /\ Tuned
  <2>1. FeedbackTypes'
    BY <1>5 DEF FeedbackInv, FeedbackTypes
  <2> QED BY <1>1, <1>5, <2>1, FeedbackFrames DEF FeedbackInv
<1>6. ASSUME NEW f \in DOMAIN fbRecords, Redelivered(f) PROVE FeedbackInv' /\ Tuned
  BY <1>5, <1>6 DEF Redelivered
<1>7. ASSUME NEW n \in DOMAIN audits, rollback_convergence(n) PROVE FeedbackInv' /\ Tuned
  <2>1. UNCHANGED sensitivity
    BY <1>7 DEF rollback_convergence
  <2> QED BY <1>1, <1>7, <2>1, RollbackKeeps
<1>8. ASSUME NEW t \in FbTenants, generate_recommendation(t) PROVE FeedbackInv' /\ Tuned
  BY <1>1, <1>8, RecommendKeeps
<1>9. ASSUME NEW n \in DOMAIN recs, apply_recommendation(n) PROVE FeedbackInv' /\ Tuned
  BY <1>9, ApplyKeeps
<1>10. ASSUME UNCHANGED fbVars PROVE FeedbackInv' /\ Tuned
  BY <1>5, <1>10 DEF fbVars
<1> QED BY <1>2, <1>3, <1>4, <1>6, <1>7, <1>8, <1>9, <1>10 DEF FeedbackNext

\* Whoever corrects, redelivers, rolls back and tunes: an analyst is heard once
\* per window, a correction moves the trust once and within its range, latest
\* first rollbacks restore it, and the sensitivity jumps only by a recommendation
\* that another one has overtaken (feedback_service, convergence and tuner).
THEOREM FeedbackCorrect == FeedbackSpec => FeedbackSafe
<1> DEFINE Step == \E use \in {"convergence", "tuning"} : FeedbackNext(use)
<1>1. FeedbackInit => FeedbackInv
  <2> SUFFICES ASSUME FeedbackInit PROVE FeedbackInv
    OBVIOUS
  <2>1. /\ fbRecords \in Seq(VerdictRecord) /\ audits \in Seq(UpdateRecord) /\ recs \in Seq(AdviceRecord)
        /\ DOMAIN fbRecords = {} /\ DOMAIN audits = {} /\ DOMAIN recs = {}
    BY EmptySeq DEF FeedbackInit
  <2>2. FeedbackTypes
    <3>1. 500 \in 0..1000 /\ 2 \in 1..3 /\ 0 \in Nat
      OBVIOUS
    <3> QED BY <2>1, <3>1 DEF FeedbackInit, FeedbackTypes, InitialTrust
  <2>3. \A e \in orderly : Chained(e)
    BY <2>1 DEF FeedbackInit, Chained, Standing
  <2> QED BY <2>1, <2>2, <2>3 DEF FeedbackInv, VerdictsOK, OneVerdictPerWindow, UpdatesOK, ConvergesOnce, AdviceOK
<1>2. FeedbackInv /\ [Step]_fbVars => FeedbackInv'
  BY FeedbackStep
<1>3. FeedbackInv /\ [Step]_fbVars => [Tuned]_fbVars
  BY FeedbackStep
<1>4. JumpsOnlyWhenStale <=> [][Tuned]_fbVars
  BY PTL DEF JumpsOnlyWhenStale, Tuned
<1> HIDE DEF Step
<1>5. FeedbackSpec <=> FeedbackInit /\ [][Step]_fbVars
  BY PTL DEF FeedbackSpec, Step
<1> QED BY <1>1, <1>2, <1>3, <1>4, <1>5, FeedbackInvSuffices, PTL DEF FeedbackSafe

-----------------------------------------------------------------------------
(***************************************************************************)
(* Retrieval.  The list of the nearest is cut twice, by the database at    *)
(* twice top_k and by the retriever at top_k, and thinned by the threshold *)
(* in between.  The first cut is harmless because everything it leaves out *)
(* is farther than all it keeps: if a relevant record is left out then all *)
(* that is kept is relevant, and that is more than the second cut takes.   *)
(***************************************************************************)
Ranked(S, rank) == S \in SUBSET Nat /\ IsFiniteSet(S) /\ \A i \in S : rank[i] \in Nat

LEMMA NearerFacts ==
  ASSUME NEW S, NEW rank, Ranked(S, rank), NEW x \in S
  PROVE  /\ IsFiniteSet(Nearer(S, rank, x)) /\ Cardinality(Nearer(S, rank, x)) \in Nat
         /\ \A y \in Nearer(S, rank, x) :
              Cardinality(Nearer(S, rank, y)) < Cardinality(Nearer(S, rank, x))
<1>1. PICK B : B = Nearer(S, rank, x)
  OBVIOUS
<1>2. B \in SUBSET S
  BY <1>1 DEF Nearer
<1>3. IsFiniteSet(B) /\ Cardinality(B) \in Nat
  BY <1>2, FS_Subset, FS_CardinalityType DEF Ranked
<1>4. ASSUME NEW y \in B PROVE Cardinality(Nearer(S, rank, y)) < Cardinality(B)
  <2>1. PICK C : C = Nearer(S, rank, y)
    OBVIOUS
  <2>a. y \in S /\ y \in Nat /\ x \in Nat /\ rank[y] \in Nat /\ rank[x] \in Nat
    BY <1>2 DEF Ranked
  <2>b. rank[y] > rank[x] \/ (rank[y] = rank[x] /\ y < x)
    BY <1>1 DEF Nearer
  <2>c. y \notin C
    BY <2>1, <2>a DEF Nearer
  <2>d. ASSUME NEW z \in C PROVE z \in B
    <3>1. z \in S /\ z \in Nat /\ rank[z] \in Nat /\ (rank[z] > rank[y] \/ (rank[z] = rank[y] /\ z < y))
      BY <2>1 DEF Nearer, Ranked
    <3>2. rank[z] > rank[x] \/ (rank[z] = rank[x] /\ z < x)
      BY <2>a, <2>b, <3>1
    <3> QED BY <1>1, <3>1, <3>2 DEF Nearer
  <2>2. C \in SUBSET B /\ y \notin C
    BY <2>c, <2>d
  <2>3. IsFiniteSet(C) /\ Cardinality(C) <= Cardinality(B) /\ (Cardinality(B) = Cardinality(C) => B = C)
    BY <1>3, <2>2, FS_Subset
  <2>4. Cardinality(C) \in Nat
    BY <2>3, FS_CardinalityType
  <2> QED BY <1>3, <1>4, <2>1, <2>2, <2>3, <2>4
<1> QED BY <1>1, <1>3, <1>4

\* What a cut leaves out is not nearer than what it keeps.
LEMMA CutKeepsNearest ==
  ASSUME NEW S, NEW rank, Ranked(S, rank), NEW k \in Nat,
         NEW x \in Nearest(S, rank, k), NEW y \in S, y \notin Nearest(S, rank, k)
  PROVE  rank[x] >= rank[y]
<1>1. x \in S /\ Cardinality(Nearer(S, rank, x)) < k /\ ~(Cardinality(Nearer(S, rank, y)) < k)
  BY DEF Nearest
<1>2. Cardinality(Nearer(S, rank, x)) \in Nat /\ Cardinality(Nearer(S, rank, y)) \in Nat
  BY <1>1, NearerFacts
<1>3. y \notin Nearer(S, rank, x)
  <2> SUFFICES ASSUME y \in Nearer(S, rank, x) PROVE FALSE
    OBVIOUS
  <2>1. Cardinality(Nearer(S, rank, y)) < Cardinality(Nearer(S, rank, x))
    BY <1>1, NearerFacts
  <2> QED BY <1>1, <1>2, <2>1
<1> QED BY <1>1, <1>3 DEF Nearer, Ranked

\* A cut that returns fewer than it may left nothing out.
LEMMA CutIsFull ==
  ASSUME NEW S, NEW rank, Ranked(S, rank), NEW k \in Nat, Cardinality(Nearest(S, rank, k)) < k
  PROVE  Nearest(S, rank, k) = S
<1>1. PICK N : N = Nearest(S, rank, k)
  OBVIOUS
<1>2. N \in SUBSET S /\ \A i \in S : i \in N <=> Cardinality(Nearer(S, rank, i)) < k
  BY <1>1 DEF Nearest
<1>3. IsFiniteSet(N) /\ Cardinality(N) \in Nat /\ Cardinality(N) < k
  BY <1>1, <1>2, FS_Subset, FS_CardinalityType DEF Ranked
<1> SUFFICES ASSUME N # S PROVE FALSE
  BY <1>1
<1>4. PICK C : C = {Cardinality(Nearer(S, rank, i)) : i \in S \ N}
  OBVIOUS
<1>5. C \in SUBSET Nat /\ C # {}
  BY <1>2, <1>4, NearerFacts
<1>6. PICK l \in C : \A m \in C : ~(<<m, l>> \in OpToRel(<, Nat))
  BY <1>5, WFMin, NatLessThanWellFounded, Zenon
<1>7. PICK y \in S \ N : Cardinality(Nearer(S, rank, y)) = l
  BY <1>4, <1>6
<1>8. \A m \in C : ~(m < l)
  BY <1>5, <1>6 DEF OpToRel
<1>9. PICK B : B = Nearer(S, rank, y)
  OBVIOUS
<1>10. B \in SUBSET S
  BY <1>9 DEF Nearer
<1>11. \A z \in B : Cardinality(Nearer(S, rank, z)) < l
  BY <1>7, <1>9, NearerFacts
<1>12. B \in SUBSET N
  BY <1>4, <1>8, <1>10, <1>11
<1>13. Cardinality(B) <= Cardinality(N)
  BY <1>3, <1>12, FS_Subset
<1>14. Cardinality(B) = l /\ l \in Nat
  BY <1>5, <1>6, <1>7, <1>9
<1>15. l < k
  BY <1>3, <1>13, <1>14
<1> QED BY <1>2, <1>7, <1>15

\* The second cut of the thinned first cut is the cut of what is relevant.
LEMMA DoubleCut ==
  ASSUME NEW S, NEW rank, Ranked(S, rank),
         NEW ids, ids = Nearest(Relevant(Nearest(S, rank, 2 * TopK), rank), rank, TopK)
  PROVE  /\ ids \subseteq Relevant(S, rank)
         /\ Cardinality(ids) < TopK => ids = Relevant(S, rank)
         /\ \A x \in ids, y \in Relevant(S, rank) \ ids : rank[x] >= rank[y]
<1> USE TopKAssumption
<1>1. PICK k \in Nat : k = 2 * TopK
  OBVIOUS
<1>2. PICK N : N = Nearest(S, rank, k)
  OBVIOUS
<1>3. PICK R : R = Relevant(N, rank)
  OBVIOUS
<1>4. ids = Nearest(R, rank, TopK)
  BY <1>1, <1>2, <1>3
<1>5. N \in SUBSET S /\ R \in SUBSET N /\ ids \in SUBSET R /\ R \subseteq Relevant(S, rank)
  BY <1>2, <1>3, <1>4 DEF Nearest, Relevant
<1>6. IsFiniteSet(N) /\ Cardinality(N) \in Nat
  BY <1>5, FS_Subset, FS_CardinalityType DEF Ranked
<1>7. Ranked(R, rank)
  <2>1. IsFiniteSet(R)
    BY <1>5, <1>6, FS_Subset
  <2> QED BY <1>5, <2>1 DEF Ranked
<1>8. \A x \in N, y \in S \ N : rank[x] >= rank[y]
  BY <1>2, CutKeepsNearest
<1>9. \A x \in ids, y \in R \ ids : rank[x] >= rank[y]
  BY <1>4, <1>7, CutKeepsNearest
<1>10. ASSUME Cardinality(ids) < TopK PROVE ids = Relevant(S, rank)
  <2>1. ids = R
    BY <1>4, <1>7, <1>10, CutIsFull
  <2> SUFFICES ASSUME NEW y \in Relevant(S, rank), y \notin R PROVE FALSE
    BY <1>5, <2>1
  <2>2. y \in S /\ y \notin N /\ rank[y] >= 1
    BY <1>3 DEF Relevant
  <2>3. R = N
    <3>1. ASSUME NEW x \in N PROVE rank[x] >= 1
      <4>1. rank[x] >= rank[y] /\ rank[x] \in Nat /\ rank[y] \in Nat
        BY <1>5, <1>8, <2>2 DEF Ranked
      <4> QED BY <2>2, <4>1
    <3> QED BY <1>3, <3>1 DEF Relevant
  <2>4. ~(Cardinality(N) < k)
    BY <1>2, <2>2, CutIsFull
  <2> QED BY <1>1, <1>6, <1>10, <2>1, <2>3, <2>4
<1>11. ASSUME NEW x \in ids, NEW y \in Relevant(S, rank) \ ids PROVE rank[x] >= rank[y]
  <2>1. CASE y \in R
    BY <1>9, <2>1
  <2>2. CASE y \notin R
    BY <1>3, <1>5, <1>8, <2>2 DEF Relevant
  <2> QED BY <2>1, <2>2
<1> QED BY <1>5, <1>10, <1>11

(***************************************************************************)
(* The store, the cache and the batches.                                   *)
(***************************************************************************)
Ids(d) == DOMAIN d \in SUBSET Nat /\ IsFiniteSet(DOMAIN d)

StoreInv ==
  /\ Ids(rows) /\ Ids(local) /\ issuedIds \in Nat /\ SavedIsSomewhere
  /\ \A i \in DOMAIN rows : rows[i] \in RowSet
  /\ \A i \in DOMAIN local : local[i] \in RowSet

ServiceInv == pgDown \in BOOLEAN /\ embDown \in BOOLEAN /\ CachedIsNeural

BatchInv ==
  /\ batchIn \in Seq(Texts) /\ batchOut \in Seq(Spaces) /\ Len(batchOut) <= Len(batchIn)
  /\ BatchAgrees

RagInv == StoreInv /\ ServiceInv /\ BatchInv /\ StatusIsTruthful

LEMMA RagInvSuffices == RagInv => IndexSound
<1> SUFFICES ASSUME RagInv PROVE IndexSound
  OBVIOUS
<1>t. RagTypeOK
  <2>1. batchOut \in Seq(Spaces)
    BY DEF RagInv, BatchInv
  <2>2. \A i \in DOMAIN batchOut : batchOut[i] \in Spaces
    BY <2>1
  <2> QED BY <2>2 DEF RagInv, StoreInv, ServiceInv, RagTypeOK
<1> SUFFICES RetrievalIsExact
  BY <1>t DEF RagInv, StoreInv, ServiceInv, BatchInv, IndexSound
<1> SUFFICES ASSUME NEW d \in {rows, local}, NEW t \in RagTenants, NEW rank \in [DOMAIN d -> 0..2]
             PROVE  LET ids == RawMatches(d, t, rank)
                        good == Relevant(OfTenant(d, t), rank)
                    IN /\ ids \subseteq good
                       /\ Cardinality(ids) < TopK => ids = good
                       /\ \A x \in ids, y \in good \ ids : rank[x] >= rank[y]
  BY DEF RetrievalIsExact
<1>1. PICK S : S = OfTenant(d, t)
  OBVIOUS
<1>2. S \in SUBSET DOMAIN d /\ Ids(d)
  BY <1>1 DEF OfTenant, RagInv, StoreInv
<1>3. IsFiniteSet(S)
  BY <1>2, FS_Subset DEF Ids
<1>4. Ranked(S, rank)
  BY <1>2, <1>3 DEF Ranked, Ids
<1>5. PICK ids : ids = RawMatches(d, t, rank)
  OBVIOUS
<1>6. ids = Nearest(Relevant(Nearest(S, rank, 2 * TopK), rank), rank, TopK)
  BY <1>1, <1>5 DEF RawMatches
<1>7. /\ ids \subseteq Relevant(S, rank)
      /\ Cardinality(ids) < TopK => ids = Relevant(S, rank)
      /\ \A x \in ids, y \in Relevant(S, rank) \ ids : rank[x] >= rank[y]
  BY <1>4, <1>6, DoubleCut
<1> QED BY <1>1, <1>5, <1>7

\* What an embedding may leave behind: a flag, and a cache without substitutes.
LEMMA EmbeddingFacts ==
  ASSUME ServiceInv, NEW text, NEW r \in Embeddings(text)
  PROVE  /\ r.space \in Spaces /\ r.down \in BOOLEAN
         /\ Embedded(r) /\ pgDown' \in BOOLEAN => ServiceInv'
<1>0. \E s \in Spaces, b \in BOOLEAN : r = Result(s, b, cached) \/ r = Result(s, b, Put(cached, text, "neural"))
  <2>1. text \in DOMAIN cached => cached[text] = "neural"
    BY DEF ServiceInv, CachedIsNeural
  <2> QED BY <2>1 DEF Embeddings, Fallback, Spaces, ServiceInv
<1>1. r.space \in Spaces /\ r.down \in BOOLEAN /\ (r.cache = cached \/ r.cache = Put(cached, text, "neural"))
  BY <1>0 DEF Result
<1>2. \A x \in DOMAIN r.cache : r.cache[x] = "neural"
  BY <1>1 DEF Put, ServiceInv, CachedIsNeural
<1> QED BY <1>1, <1>2 DEF Embedded, ServiceInv, CachedIsNeural

LEMMA IdsKept ==
  ASSUME NEW d, Ids(d), NEW i \in Nat, NEW v
  PROVE  Ids(Put(d, i, v)) /\ Ids(Drop(d, {i})) /\ Ids(EmptyDict)
<1>1. IsFiniteSet(DOMAIN d \cup {i}) /\ IsFiniteSet(DOMAIN d \ {i}) /\ IsFiniteSet({})
  BY FS_AddElement, FS_RemoveElement, FS_EmptySet DEF Ids
<1>2. DOMAIN Put(d, i, v) = DOMAIN d \cup {i} /\ DOMAIN Drop(d, {i}) = DOMAIN d \ {i} /\ DOMAIN EmptyDict = {}
  BY DEF Put, Drop, EmptyDict
<1> QED BY <1>1, <1>2 DEF Ids

\* A saved record is in the table, in the fallback store, or in both.
LEMMA InsertKeeps ==
  ASSUME RagInv, NEW t \in RagTenants, NEW x \in Texts, Insert(t, x)
  PROVE  RagInv'
<1>1. PICK o \in Outcomes, r \in Embeddings(x) :
        /\ Embedded(r) /\ Degrades(o)
        /\ rows' = IF Reaches(o) THEN Put(rows, issuedIds + 1, [tenant |-> t, space |-> r.space]) ELSE rows
        /\ local' = IF Falls(o) THEN Put(local, issuedIds + 1, [tenant |-> t, space |-> r.space]) ELSE local
  BY DEF Insert
<1>2. issuedIds' = issuedIds + 1 /\ saved' = saved \cup {issuedIds + 1} /\ UNCHANGED <<batchIn, batchOut, found>>
  BY DEF Insert
<1>3. r.space \in Spaces /\ ServiceInv'
  BY <1>1, EmbeddingFacts DEF RagInv, Degrades, ServiceInv
<1>4. Reaches(o) \/ Falls(o)
  BY <1>1 DEF Outcomes, Reaches, Falls
<1>5. PICK n \in Nat : n = issuedIds + 1
  BY DEF RagInv, StoreInv
<1>6. PICK rec : rec = [tenant |-> t, space |-> r.space]
  OBVIOUS
<1>7. rec \in RowSet
  BY <1>3, <1>6 DEF RowSet
<1>8. (rows' = Put(rows, n, rec) \/ rows' = rows) /\ (local' = Put(local, n, rec) \/ local' = local)
      /\ (rows' = Put(rows, n, rec) \/ local' = Put(local, n, rec))
  BY <1>1, <1>4, <1>5, <1>6
<1>9. Ids(rows') /\ Ids(local')
  BY <1>8, IdsKept DEF RagInv, StoreInv
<1>10. \A i \in DOMAIN rows' : rows'[i] \in RowSet
  BY <1>7, <1>8 DEF RagInv, StoreInv, Put
<1>11. \A i \in DOMAIN local' : local'[i] \in RowSet
  BY <1>7, <1>8 DEF RagInv, StoreInv, Put
<1>12. saved' \subseteq DOMAIN rows' \cup DOMAIN local'
  BY <1>2, <1>5, <1>8 DEF RagInv, StoreInv, SavedIsSomewhere, Put
<1>13. StoreInv'
  BY <1>2, <1>5, <1>9, <1>10, <1>11, <1>12 DEF StoreInv, SavedIsSomewhere, Ids
<1> QED BY <1>2, <1>3, <1>13 DEF RagInv, BatchInv, BatchAgrees, StatusIsTruthful

LEMMA UpdateKeeps ==
  ASSUME RagInv, NEW n \in Nat, NEW x \in Texts, Update(n, x)
  PROVE  RagInv'
<1>1. PICK o \in Outcomes, r \in Embeddings(x) :
        /\ Embedded(r) /\ Degrades(o)
        /\ rows' = rows \/ (n \in DOMAIN rows /\ rows' = Put(rows, n, [rows[n] EXCEPT !.space = r.space]))
        /\ local' = local \/ (n \in DOMAIN local /\ local' = Put(local, n, [local[n] EXCEPT !.space = r.space]))
  BY DEF Update
<1>2. UNCHANGED <<issuedIds, saved, batchIn, batchOut, found>>
  BY DEF Update
<1>3. r.space \in Spaces /\ ServiceInv'
  BY <1>1, EmbeddingFacts DEF RagInv, Degrades, ServiceInv
<1>4. \A e \in RowSet : [e EXCEPT !.space = r.space] \in RowSet
  BY <1>3 DEF RowSet
<1>5. Ids(rows') /\ \A i \in DOMAIN rows' : rows'[i] \in RowSet
  <2>1. CASE rows' = rows
    BY <2>1 DEF RagInv, StoreInv
  <2>2. ASSUME n \in DOMAIN rows, rows' = Put(rows, n, [rows[n] EXCEPT !.space = r.space])
        PROVE  Ids(rows') /\ \A i \in DOMAIN rows' : rows'[i] \in RowSet
    <3>1. PICK e \in RowSet : e = [rows[n] EXCEPT !.space = r.space]
      BY <1>4, <2>2 DEF RagInv, StoreInv
    <3>2. rows' = Put(rows, n, e) /\ Ids(rows) /\ \A i \in DOMAIN rows : rows[i] \in RowSet
      BY <2>2, <3>1 DEF RagInv, StoreInv
    <3>3. Ids(rows')
      BY <3>2, IdsKept
    <3>4. \A i \in DOMAIN rows' : rows'[i] \in RowSet
      BY <3>2 DEF Put
    <3> QED BY <3>3, <3>4
  <2> QED BY <1>1, <2>1, <2>2
<1>6. Ids(local') /\ \A i \in DOMAIN local' : local'[i] \in RowSet
  <2>1. CASE local' = local
    BY <2>1 DEF RagInv, StoreInv
  <2>2. ASSUME n \in DOMAIN local, local' = Put(local, n, [local[n] EXCEPT !.space = r.space])
        PROVE  Ids(local') /\ \A i \in DOMAIN local' : local'[i] \in RowSet
    <3>1. PICK e \in RowSet : e = [local[n] EXCEPT !.space = r.space]
      BY <1>4, <2>2 DEF RagInv, StoreInv
    <3>2. local' = Put(local, n, e) /\ Ids(local) /\ \A i \in DOMAIN local : local[i] \in RowSet
      BY <2>2, <3>1 DEF RagInv, StoreInv
    <3>3. Ids(local')
      BY <3>2, IdsKept
    <3>4. \A i \in DOMAIN local' : local'[i] \in RowSet
      BY <3>2 DEF Put
    <3> QED BY <3>3, <3>4
  <2> QED BY <1>1, <2>1, <2>2
<1>7. DOMAIN rows \subseteq DOMAIN rows' /\ DOMAIN local \subseteq DOMAIN local'
  BY <1>1 DEF Put
<1>8. StoreInv'
  BY <1>2, <1>5, <1>6, <1>7 DEF RagInv, StoreInv, SavedIsSomewhere, Ids
<1> QED BY <1>2, <1>3, <1>8 DEF RagInv, BatchInv, BatchAgrees, StatusIsTruthful

LEMMA DeleteKeeps ==
  ASSUME RagInv, NEW n \in Nat, Delete(n)
  PROVE  RagInv'
<1>1. PICK o \in Outcomes :
        /\ Degrades(o)
        /\ rows' = Drop(rows, {n}) \/ rows' = rows
        /\ local' = Drop(local, {n}) \/ local' = local
  BY DEF Delete
<1>2. saved' = saved \ {n} /\ UNCHANGED <<embDown, cached, issuedIds, batchIn, batchOut, found>>
  BY DEF Delete
<1>3. ServiceInv'
  BY <1>1, <1>2 DEF RagInv, Degrades, ServiceInv, CachedIsNeural
<1>4. Ids(rows') /\ Ids(local')
  BY <1>1, IdsKept DEF RagInv, StoreInv
<1>5. /\ \A i \in DOMAIN rows' : rows'[i] \in RowSet
      /\ \A i \in DOMAIN local' : local'[i] \in RowSet
      /\ saved' \subseteq DOMAIN rows' \cup DOMAIN local'
  BY <1>1, <1>2 DEF RagInv, StoreInv, SavedIsSomewhere, Drop
<1>6. StoreInv'
  BY <1>2, <1>4, <1>5 DEF RagInv, StoreInv, SavedIsSomewhere, Ids
<1> QED BY <1>2, <1>3, <1>6 DEF RagInv, BatchInv, BatchAgrees, StatusIsTruthful

LEMMA ClearKeeps == ASSUME RagInv, Clear PROVE RagInv'
<1>1. (rows' = rows \/ rows' = EmptyDict) /\ (local' = local \/ local' = EmptyDict)
  BY DEF Clear
<1>2. saved' = {} /\ UNCHANGED <<pgDown, embDown, cached, issuedIds, batchIn, batchOut, found>>
  BY DEF Clear
<1>3. DOMAIN EmptyDict = {} /\ Ids(EmptyDict)
  BY FS_EmptySet DEF EmptyDict, Ids
<1>4. Ids(rows') /\ Ids(local')
  BY <1>1, <1>3 DEF RagInv, StoreInv
<1>5. (\A i \in DOMAIN rows' : rows'[i] \in RowSet) /\ (\A i \in DOMAIN local' : local'[i] \in RowSet)
  BY <1>1, <1>3 DEF RagInv, StoreInv
<1>6. StoreInv'
  BY <1>2, <1>4, <1>5 DEF RagInv, StoreInv, SavedIsSomewhere, Ids
<1> QED BY <1>2, <1>6 DEF RagInv, ServiceInv, CachedIsNeural, BatchInv, BatchAgrees, StatusIsTruthful

\* The state of the services is read after they were asked.
LEMMA RetrieveKeeps ==
  ASSUME RagInv, NEW t \in RagTenants, NEW x \in Texts, Retrieve(t, x)
  PROVE  RagInv'
<1>1. PICK r \in Embeddings(x), o \in Outcomes \ {"unsure"} :
        /\ Embedded(r) /\ Degrades(o)
        /\ \E ids : found' = [asked |-> TRUE, tenant |-> t, status |-> Status(embDown', pgDown', ids),
                              source |-> IF Falls(o) THEN "local" ELSE "database", ids |-> ids]
  BY DEF Retrieve
<1>2. UNCHANGED <<rows, local, batchIn, batchOut, saved, issuedIds>>
  BY DEF Retrieve
<1>3. ServiceInv'
  BY <1>1, EmbeddingFacts DEF RagInv, Degrades, ServiceInv
<1>4. PICK ids : found' = [asked |-> TRUE, tenant |-> t, status |-> Status(embDown', pgDown', ids),
                           source |-> IF Falls(o) THEN "local" ELSE "database", ids |-> ids]
  BY <1>1
<1>5. ~pgDown' => ~Falls(o)
  BY <1>1 DEF Degrades, Outcomes, Falls
<1>6. /\ Status(embDown', pgDown', ids) \in {"CONNECTED", "EMPTY"} => ~pgDown'
      /\ Status(embDown', pgDown', ids) = "CONNECTED" => ids # {}
  BY DEF Status
<1>7. /\ found'.status = Status(embDown', pgDown', ids) /\ found'.ids = ids
      /\ ~Falls(o) => found'.source = "database"
  BY <1>4
<1>8. StatusIsTruthful'
  BY <1>5, <1>6, <1>7 DEF StatusIsTruthful
<1> QED BY <1>2, <1>3, <1>8 DEF RagInv, StoreInv, SavedIsSomewhere, Ids, BatchInv, BatchAgrees

\* A text that comes again takes the vector found for it first.
LEMMA BatchKeeps == ASSUME RagInv, BatchStep PROVE RagInv'
<1>0. BatchInv /\ Len(batchOut) < Len(batchIn)
  BY DEF RagInv, BatchStep
<1>1. PICK n \in Nat : n = Len(batchOut)
  BY <1>0 DEF BatchInv
<1>2. PICK text : text = batchIn[n + 1]
  OBVIOUS
<1>3. UNCHANGED <<rows, local, pgDown, batchIn, found, saved, issuedIds>>
  BY DEF BatchStep
<1>4. DOMAIN batchOut = 1..n /\ \A i \in 1..n : batchOut[i] \in Spaces
  BY <1>0, <1>1 DEF BatchInv
<1>5. PICK v \in Spaces : /\ batchOut' = Append(batchOut, v) /\ ServiceInv'
                          /\ \A i \in 1..n : batchIn[i] = text => batchOut[i] = v
  <2>1. CASE Before(text) # {}
    <3>1. batchOut' = Append(batchOut, batchOut[CHOOSE i \in Before(text) : TRUE]) /\ UNCHANGED <<embDown, cached>>
      BY <1>1, <1>2, <2>1 DEF BatchStep
    <3>2. PICK i \in Before(text) : i = CHOOSE k \in Before(text) : TRUE
      BY <2>1
    <3>3. i \in 1..n /\ batchIn[i] = text
      BY <1>4, <3>2 DEF Before
    <3>4. \A k \in 1..n : batchIn[k] = text => batchOut[k] = batchOut[i]
      BY <1>0, <1>4, <3>3 DEF BatchInv, BatchAgrees
    <3> QED BY <1>3, <1>4, <3>1, <3>2, <3>3, <3>4 DEF RagInv, ServiceInv, CachedIsNeural
  <2>2. CASE Before(text) = {}
    <3>1. PICK r \in Embeddings(text) : Embedded(r) /\ batchOut' = Append(batchOut, r.space)
      BY <1>1, <1>2, <2>2 DEF BatchStep
    <3>2. r.space \in Spaces /\ ServiceInv'
      BY <1>3, <3>1, EmbeddingFacts DEF RagInv, ServiceInv
    <3>3. \A i \in 1..n : batchIn[i] # text
      BY <1>4, <2>2 DEF Before
    <3> QED BY <3>1, <3>2, <3>3
  <2> QED BY <2>1, <2>2
<1>6. /\ batchOut' \in Seq(Spaces) /\ Len(batchOut') = n + 1 /\ DOMAIN batchOut' = 1..(n + 1)
      /\ batchOut'[n + 1] = v /\ \A i \in 1..n : batchOut'[i] = batchOut[i]
  BY <1>0, <1>1, <1>5 DEF BatchInv
<1>7. BatchAgrees'
  <2> SUFFICES ASSUME NEW i \in 1..(n + 1), NEW j \in 1..(n + 1), batchIn[i] = batchIn[j]
               PROVE  batchOut'[i] = batchOut'[j]
    BY <1>3, <1>6 DEF BatchAgrees
  <2>1. \A k \in 1..n : batchIn[k] = text => batchOut'[k] = v
    BY <1>5, <1>6
  <2>2. CASE i = n + 1 \/ j = n + 1
    BY <1>2, <1>6, <2>1, <2>2
  <2>3. CASE i # n + 1 /\ j # n + 1
    <3>1. i \in 1..n /\ j \in 1..n
      BY <2>3
    <3> QED BY <1>0, <1>4, <1>6, <3>1 DEF BatchInv, BatchAgrees
  <2> QED BY <2>2, <2>3
<1>8. BatchInv'
  BY <1>0, <1>1, <1>3, <1>6, <1>7 DEF BatchInv
<1> QED BY <1>3, <1>5, <1>8 DEF RagInv, StoreInv, SavedIsSomewhere, Ids, StatusIsTruthful

LEMMA StartBatchKeeps ==
  ASSUME RagInv, NEW n \in 2..MaxBatch, NEW b \in [1..n -> Texts], StartBatch(b)
  PROVE  RagInv'
<1>1. batchIn' = b /\ batchOut' = <<>> /\ UNCHANGED <<rows, local, pgDown, embDown, cached, found, saved, issuedIds>>
  BY DEF StartBatch
<1>2. b \in Seq(Texts) /\ Len(b) \in Nat
  BY IsASeq
<1>3. \A s : s = <<>> => s \in Seq(Spaces) /\ Len(s) = 0 /\ DOMAIN s = {}
  OBVIOUS
<1>4. BatchInv'
  BY <1>1, <1>2, <1>3 DEF BatchInv, BatchAgrees
<1> QED BY <1>1, <1>4 DEF RagInv, StoreInv, SavedIsSomewhere, Ids, ServiceInv, CachedIsNeural, StatusIsTruthful

LEMMA RestartKeeps == ASSUME RagInv, RagRestart PROVE RagInv'
<1>1. /\ pgDown' = FALSE /\ embDown' = FALSE /\ local' = EmptyDict /\ saved' = {} /\ found' = NoAnswer
      /\ batchIn' = <<>> /\ batchOut' = <<>> /\ UNCHANGED <<rows, cached, issuedIds>>
  BY DEF RagRestart
<1>2. DOMAIN EmptyDict = {} /\ Ids(EmptyDict)
  BY FS_EmptySet DEF EmptyDict, Ids
<1>3. StoreInv'
  BY <1>1, <1>2 DEF RagInv, StoreInv, SavedIsSomewhere, Ids
<1>4. ServiceInv'
  BY <1>1 DEF RagInv, ServiceInv, CachedIsNeural
<1>5. \A s : s = <<>> => s \in Seq(Spaces) /\ s \in Seq(Texts) /\ Len(s) = 0 /\ DOMAIN s = {}
  OBVIOUS
<1>6. BatchInv'
  BY <1>1, <1>5 DEF BatchInv, BatchAgrees
<1>7. StatusIsTruthful'
  BY <1>1 DEF StatusIsTruthful, NoAnswer
<1> QED BY <1>3, <1>4, <1>6, <1>7 DEF RagInv

LEMMA RagStep ==
  ASSUME RagInv, NEW part \in {"index", "batch"}, RagNext(part)
  PROVE  RagInv'
<1>1. CASE CacheExpires
  <2>1. PICK x \in DOMAIN cached : cached' = Drop(cached, {x})
    BY <1>1 DEF CacheExpires
  <2>2. UNCHANGED <<rows, local, pgDown, embDown, batchIn, batchOut, found, saved, issuedIds>>
    BY <1>1 DEF CacheExpires
  <2>3. ServiceInv'
    BY <2>1, <2>2 DEF RagInv, ServiceInv, CachedIsNeural, Drop
  <2> QED BY <2>2, <2>3 DEF RagInv, StoreInv, SavedIsSomewhere, Ids, BatchInv, BatchAgrees, StatusIsTruthful
<1>2. CASE RetrieveNothing
  <2>1. found' = NoAnswer /\ UNCHANGED <<rows, local, pgDown, embDown, cached, batchIn, batchOut, saved, issuedIds>>
    BY <1>2 DEF RetrieveNothing
  <2>2. StatusIsTruthful'
    BY <2>1 DEF StatusIsTruthful, NoAnswer
  <2> QED BY <2>1, <2>2 DEF RagInv, StoreInv, SavedIsSomewhere, Ids, ServiceInv, CachedIsNeural, BatchInv, BatchAgrees
<1>3. \A i \in 1..issuedIds : i \in Nat
  BY DEF RagInv, StoreInv
<1> QED BY <1>1, <1>2, <1>3, InsertKeeps, UpdateKeeps, DeleteKeeps, ClearKeeps, RetrieveKeeps, BatchKeeps,
           StartBatchKeeps, RestartKeeps DEF RagNext

\* The index behind retrieval-augmented generation (memory/rag, memory/storage,
\* memory/embeddings), for any tenants, texts, top_k and outages of database and
\* embedding service: nothing saved is lost, the cache keeps no substitute vector,
\* equal texts of a batch agree, no status hides a degradation, and retrieval is
\* exact although the list is cut before the threshold is applied.
THEOREM IndexCorrect == RagSpec => []IndexSound
<1>1. RagInit => RagInv
  <2> SUFFICES ASSUME RagInit PROVE RagInv
    OBVIOUS
  <2>1. DOMAIN EmptyDict = {} /\ Ids(EmptyDict)
    BY FS_EmptySet DEF EmptyDict, Ids
  <2>2. StoreInv
    BY <2>1 DEF RagInit, StoreInv, SavedIsSomewhere
  <2>3. ServiceInv
    BY <2>1 DEF RagInit, ServiceInv, CachedIsNeural
  <2>4. \A s : s = <<>> => s \in Seq(Spaces) /\ s \in Seq(Texts) /\ Len(s) = 0 /\ DOMAIN s = {}
    OBVIOUS
  <2>5. BatchInv
    BY <2>4 DEF RagInit, BatchInv, BatchAgrees
  <2>6. StatusIsTruthful
    BY DEF RagInit, StatusIsTruthful, NoAnswer
  <2> QED BY <2>2, <2>3, <2>5, <2>6 DEF RagInv
<1>2. RagInv /\ [\E part \in {"index", "batch"} : RagNext(part)]_ragVars => RagInv'
  <2>1. ASSUME RagInv, UNCHANGED ragVars PROVE RagInv'
    BY <2>1 DEF ragVars, RagInv, StoreInv, SavedIsSomewhere, Ids, ServiceInv, CachedIsNeural, BatchInv, BatchAgrees,
                StatusIsTruthful
  <2> QED BY <2>1, RagStep
<1>3. RagInv => IndexSound
  BY RagInvSuffices
<1> QED BY <1>1, <1>2, <1>3, PTL DEF RagSpec

-----------------------------------------------------------------------------
(***************************************************************************)
(* Memory.  Stores keep two things through every overlap of requests: no   *)
(* identifier twice, and before every threat an evidence with the same     *)
(* vector (Led).  A request that is about to save a threat has its         *)
(* evidence in the store or saves it first (Backed), and one that is about *)
(* to delete a record leaves an earlier one with its vector (Removable),   *)
(* whatever other requests do meanwhile.  As long as no two requests       *)
(* overlapped there is one store and at most one request, whose snapshot   *)
(* is under way or says what the store holds (Alone).                      *)
(***************************************************************************)
IdSet == [visit : Nat, seed : Nat, case : DOMAIN Cases, kind : Kinds, nth : Nat]
RecSet == [id : IdSet, conf : 0..1000]
ChangeSet == [op : {"insert", "update", "delete"}, at : Nat \X Nat, rec : RecSet]
ThreadSet ==
  [pc : {"idle", "built", "ready", "change", "dump", "open", "write"}, visit : Nat, store : Nat,
   todo : SUBSET ChangeSet, doing : ChangeSet \cup {NoChange}, dump : Seq(RecSet)]
SnapshotSet == [len : Nat, readable : BOOLEAN, says : Seq(RecSet)]

Unique(s) == \A i, j \in DOMAIN s : s[i].id = s[j].id => i = j
Led(s) ==
  \A i \in DOMAIN s : s[i].id.kind = "threat" =>
    \E j \in DOMAIN s : j < i /\ s[j].id.kind = "evidence" /\ Vector(s[j]) = Vector(s[i])
GoodStore(s) == s \in Seq(RecSet) /\ Unique(s) /\ Led(s)

HasEvidence(s, v) == \E j \in DOMAIN s : s[j].id.kind = "evidence" /\ Vector(s[j]) = v
Removable(s, r) ==
  \E q \in DOMAIN s : /\ Vector(s[q]) = Vector(r) /\ s[q].id # r.id
                      /\ \A p \in DOMAIN s : s[p].id = r.id => q < p
Backed(s, todo, c) ==
  c.op = "insert" /\ c.rec.id.kind = "threat" =>
    \/ HasEvidence(s, Vector(c.rec))
    \/ \E d \in todo : /\ d.op = "insert" /\ d.rec.id.kind = "evidence"
                       /\ Vector(d.rec) = Vector(c.rec) /\ Earlier(d, c)
Prepared(s, todo) ==
  \A c \in todo : (c.op = "delete" => Removable(s, c.rec)) /\ Backed(s, todo, c)

MemTypes ==
  /\ objects \in Seq(Seq(RecSet)) /\ services \in Nat /\ services <= Len(objects)
  /\ thread \in [Threads -> ThreadSet] /\ memFile \in SnapshotSet
  /\ visits \in 0..MaxVisits /\ process \in 0..MaxCrashes /\ overlapped \in BOOLEAN
  /\ DOMAIN verdicts \subseteq IdSet
StoresOK == GoodStore(memFile.says) /\ \A i \in DOMAIN objects : GoodStore(objects[i])
RequestOK(t) ==
  /\ Busy(t) => thread[t].store \in DOMAIN objects /\ Prepared(Used(t), thread[t].todo)
  /\ GoodStore(thread[t].dump)

Snapshotting(t) == thread[t].pc \in {"dump", "open", "write"}
Kept(r) == r.id \in DOMAIN verdicts => r.conf = verdicts[r.id]
MadeBy(s, n) == \A i \in DOMAIN s : s[i].id.visit <= n

\* One request at a time, and what it has done to the only store.
OneStore ==
  /\ \A t, u \in Threads : Busy(t) /\ Busy(u) => t = u
  /\ Len(objects) <= 1
  /\ (\A t \in Threads : thread[t].pc # "built") => services = Len(objects)
  /\ (\A t \in Threads : ~Snapshotting(t)) /\ Len(objects) = 1 => objects[1] = memFile.says
  /\ \A t \in Threads : Snapshotting(t) => thread[t].dump = objects[1]
  /\ \A t \in Threads : thread[t].pc = "write" => memFile.len = 0
VerdictsKept ==
  /\ \A i \in DOMAIN memFile.says : Kept(memFile.says[i])
  /\ \A t \in Threads : Snapshotting(t) => \A i \in DOMAIN objects[1] :
       IF thread[t].doing.op = "update" /\ objects[1][i].id = thread[t].doing.rec.id
       THEN objects[1][i].conf = thread[t].doing.rec.conf ELSE Kept(objects[1][i])
VisitsOK ==
  /\ \A id \in DOMAIN verdicts : id.visit <= visits
  /\ MadeBy(memFile.says, visits) /\ \A i \in DOMAIN objects : MadeBy(objects[i], visits)
  /\ \A t \in Threads : Busy(t) =>
       /\ thread[t].visit = visits /\ \A id \in DOMAIN verdicts : id.visit < visits
       /\ thread[t].pc \in {"built", "ready"} => \A i \in DOMAIN objects : MadeBy(objects[i], visits - 1)
       /\ \A c \in thread[t].todo \cup {thread[t].doing} :
            /\ c.op = "insert" => c.rec.id.visit = visits
            /\ c.op = "update" => c.rec.id.visit < visits
Alone == ~overlapped => OneStore /\ VerdictsKept /\ VisitsOK

MemInv == MemTypes /\ StoresOK /\ (\A t \in Threads : RequestOK(t)) /\ Alone

\* Whatever a store holds, another one holds as much of: the evidences, and an
\* earlier twin of every record that is to be deleted.
Outlives(s, u) ==
  /\ \A v : HasEvidence(s, v) => HasEvidence(u, v)
  /\ \A r : Removable(s, r) => Removable(u, r)

LEMMA VectorFacts ==
  /\ \A a, b : a.id = b.id => Vector(a) = Vector(b)
  /\ \A a, b \in RecSet : Vector(a) = Vector(b) /\ a.id.kind \in {"evidence", "threat"}
       => b.id.kind \in {"evidence", "threat"}
<1>1. \A a, b : a.id = b.id => Vector(a) = Vector(b)
  BY Zenon DEF Vector
<1>2. ASSUME NEW a \in RecSet, NEW b \in RecSet, Vector(a) = Vector(b), a.id.kind \in {"evidence", "threat"}
      PROVE b.id.kind \in {"evidence", "threat"}
  <2>1. Text(a.id) = Text(b.id)
    BY <1>2 DEF Vector
  <2>2. b.id.kind \in Kinds
    BY DEF RecSet, IdSet
  <2>3. Text(a.id)[1] = "finding"
    BY <1>2 DEF Text
  <2>4. b.id.kind \notin {"evidence", "threat"} => Text(b.id)[1] = b.id.kind
    BY DEF Text
  <2> QED BY <2>1, <2>2, <2>3, <2>4 DEF Kinds
<1> QED BY <1>1, <1>2

LEMMA SameIds ==
  ASSUME NEW s, GoodStore(s), NEW u \in Seq(RecSet), DOMAIN u = DOMAIN s,
         \A i \in DOMAIN s : u[i].id = s[i].id
  PROVE  GoodStore(u) /\ Outlives(s, u)
<1>1. \A i \in DOMAIN s : Vector(u[i]) = Vector(s[i])
  BY VectorFacts, Zenon
<1>2. Unique(u)
  BY DEF GoodStore, Unique
<1>3. Led(u)
  BY <1>1 DEF GoodStore, Led
<1>4. \A v : HasEvidence(s, v) => HasEvidence(u, v)
  BY <1>1 DEF HasEvidence
<1>5. \A r : Removable(s, r) => Removable(u, r)
  BY <1>1 DEF Removable
<1> QED BY <1>2, <1>3, <1>4, <1>5 DEF GoodStore, Outlives

LEMMA RecordAppended ==
  ASSUME NEW s, GoodStore(s), NEW r \in RecSet, ~Has(s, r.id),
         r.id.kind = "threat" => HasEvidence(s, Vector(r))
  PROVE  /\ GoodStore(Append(s, r)) /\ Outlives(s, Append(s, r))
         /\ r.id.kind = "evidence" => HasEvidence(Append(s, r), Vector(r))
<1>1. PICK n \in Nat : n = Len(s) /\ DOMAIN s = 1..n
  BY LenProperties DEF GoodStore
<1>2. PICK u : u = Append(s, r)
  OBVIOUS
<1>3. u \in Seq(RecSet) /\ DOMAIN u = 1..(n + 1) /\ u[n + 1] = r /\ \A i \in 1..n : u[i] = s[i]
  BY <1>1, <1>2, AppendProperties DEF GoodStore
<1>4. \A i \in 1..n : i \in DOMAIN u /\ i < n + 1 /\ i # n + 1
  BY <1>1, <1>3
<1>5. \A i \in DOMAIN u : i \in 1..n \/ i = n + 1
  BY <1>1, <1>3
<1>6. n + 1 \in DOMAIN u
  BY <1>1, <1>3
<1>7. Unique(u)
  BY <1>1, <1>3, <1>4, <1>5 DEF Unique, GoodStore, Has
<1>8. Led(u)
  <2> SUFFICES ASSUME NEW i \in DOMAIN u, u[i].id.kind = "threat"
               PROVE \E j \in DOMAIN u : j < i /\ u[j].id.kind = "evidence" /\ Vector(u[j]) = Vector(u[i])
    BY DEF Led
  <2>1. CASE i \in 1..n
    <3>1. PICK j \in DOMAIN s : j < i /\ s[j].id.kind = "evidence" /\ Vector(s[j]) = Vector(s[i])
      BY <1>1, <1>3, <2>1 DEF GoodStore, Led
    <3> QED BY <1>1, <1>3, <1>4, <2>1, <3>1
  <2>2. CASE i = n + 1
    <3>1. PICK j \in DOMAIN s : s[j].id.kind = "evidence" /\ Vector(s[j]) = Vector(r)
      BY <1>3, <2>2 DEF HasEvidence
    <3> QED BY <1>1, <1>3, <1>4, <2>2, <3>1
  <2> QED BY <1>5, <2>1, <2>2
<1>9. ASSUME NEW v, HasEvidence(s, v) PROVE HasEvidence(u, v)
  BY <1>1, <1>3, <1>4, <1>9 DEF HasEvidence
<1>10. ASSUME NEW x, Removable(s, x) PROVE Removable(u, x)
  <2>1. PICK q \in DOMAIN s : /\ Vector(s[q]) = Vector(x) /\ s[q].id # x.id
                              /\ \A p \in DOMAIN s : s[p].id = x.id => q < p
    BY <1>10 DEF Removable
  <2>2. q \in DOMAIN u /\ u[q] = s[q]
    BY <1>1, <1>3, <1>4, <2>1
  <2>3. ASSUME NEW p \in DOMAIN u, u[p].id = x.id PROVE q < p
    BY <1>1, <1>3, <1>4, <1>5, <2>1, <2>3
  <2> QED BY <2>1, <2>2, <2>3 DEF Removable
<1>11. r.id.kind = "evidence" => HasEvidence(u, Vector(r))
  BY <1>3, <1>6 DEF HasEvidence
<1> QED BY <1>2, <1>3, <1>7, <1>8, <1>9, <1>10, <1>11 DEF GoodStore, Outlives

\* del of an OrderedDict's entry.
LEMMA EntryDeleted ==
  ASSUME NEW S, NEW s \in Seq(S), NEW i \in DOMAIN s
  PROVE  LET d == DelAt(s, i) IN
         /\ d \in Seq(S) /\ Len(d) = Len(s) - 1 /\ DOMAIN d = 1..(Len(s) - 1) /\ Len(d) \in Nat
         /\ \A k \in 1..(Len(s) - 1) : d[k] = IF k < i THEN s[k] ELSE s[k + 1]
<1>1. PICK n \in Nat : n = Len(s) /\ DOMAIN s = 1..n
  BY LenProperties
<1>2. PICK d : d = [k \in 1..(n - 1) |-> IF k < i THEN s[k] ELSE s[k + 1]]
  OBVIOUS
<1>3. DelAt(s, i) = d
  BY <1>1, <1>2 DEF DelAt
<1>4. n - 1 \in Nat /\ \A k \in 1..n : s[k] \in S
  BY <1>1, ElementOfSeq
<1>5. d \in [1..(n - 1) -> S]
  BY <1>2, <1>4, <1>1
<1>6. d \in Seq(S) /\ Len(d) = n - 1 /\ DOMAIN d = 1..(n - 1)
  BY <1>4, <1>5, IsASeq, LenProperties
<1>7. \A k \in 1..(n - 1) : d[k] = IF k < i THEN s[k] ELSE s[k + 1]
  BY <1>2
<1> QED BY <1>1, <1>3, <1>4, <1>6, <1>7

LEMMA Deleted ==
  ASSUME NEW s, GoodStore(s), NEW k \in DOMAIN s, Removable(s, s[k])
  PROVE  GoodStore(DelAt(s, k)) /\ Outlives(s, DelAt(s, k))
<1>1. PICK n \in Nat : n = Len(s) /\ DOMAIN s = 1..n
  BY LenProperties DEF GoodStore
<1>2. PICK u : u = DelAt(s, k)
  OBVIOUS
<1>3. /\ u \in Seq(RecSet) /\ DOMAIN u = 1..(n - 1)
      /\ \A i \in 1..(n - 1) : u[i] = IF i < k THEN s[i] ELSE s[i + 1]
  BY <1>1, <1>2, EntryDeleted DEF GoodStore
<1>k. k \in 1..n
  BY <1>1
\* Where the entries are now, and where they were.
<1>4. PICK from \in [1..(n - 1) -> Nat] : \A i \in 1..(n - 1) : from[i] = IF i < k THEN i ELSE i + 1
  <2> WITNESS [i \in 1..(n - 1) |-> IF i < k THEN i ELSE i + 1] \in [1..(n - 1) -> Nat]
  <2> QED OBVIOUS
<1>5. /\ \A i \in 1..(n - 1) : from[i] \in 1..n /\ from[i] # k /\ u[i] = s[from[i]]
      /\ \A i, j \in 1..(n - 1) : (from[i] = from[j] => i = j) /\ (from[i] < from[j] => i < j)
      /\ \A j \in 1..n : j # k => \E i \in 1..(n - 1) : from[i] = j
  <2>1. ASSUME NEW i \in 1..(n - 1) PROVE from[i] \in 1..n /\ from[i] # k /\ u[i] = s[from[i]]
    BY <1>k, <1>3, <1>4
  <2>2. ASSUME NEW i \in 1..(n - 1), NEW j \in 1..(n - 1)
        PROVE (from[i] = from[j] => i = j) /\ (from[i] < from[j] => i < j)
    BY <1>k, <1>4
  <2>3. ASSUME NEW j \in 1..n, j # k PROVE \E i \in 1..(n - 1) : from[i] = j
    <3>1. CASE j < k
      <4>1. j \in 1..(n - 1) /\ from[j] = j
        BY <1>k, <1>4, <3>1
      <4> QED BY <4>1
    <3>2. CASE j > k
      <4>1. j - 1 \in 1..(n - 1) /\ from[j - 1] = j
        BY <1>k, <1>4, <3>2
      <4> QED BY <4>1
    <3> QED BY <1>k, <2>3, <3>1, <3>2
  <2> QED BY <2>1, <2>2, <2>3
<1> HIDE <1>4
<1>6. PICK q \in DOMAIN s : Vector(s[q]) = Vector(s[k]) /\ s[q].id # s[k].id /\ q < k
  BY DEF Removable
<1>7. Unique(u)
  BY <1>1, <1>3, <1>5 DEF Unique, GoodStore
\* An evidence with a vector that is there is there, not later, after the deletion.
<1>8. ASSUME NEW j \in DOMAIN s, s[j].id.kind = "evidence"
      PROVE \E i \in DOMAIN u : u[i].id.kind = "evidence" /\ Vector(u[i]) = Vector(s[j]) /\ from[i] <= j
  <2>a. ASSUME NEW e \in DOMAIN s, e # k PROVE \E i \in DOMAIN u : from[i] = e /\ u[i] = s[e]
    BY <1>1, <1>3, <1>5, <2>a
  <2>b. j <= j
    BY <1>1
  <2>1. CASE j # k
    <3>1. PICK i \in DOMAIN u : from[i] = j /\ u[i] = s[j]
      BY <2>a, <2>1
    <3> QED BY <1>8, <2>b, <3>1
  <2>2. CASE j = k
    <3>1. s[q] \in RecSet /\ s[j] \in RecSet
      BY ElementOfSeq, <1>1 DEF GoodStore
    <3>2. s[q].id.kind \in {"evidence", "threat"}
      BY <1>6, <1>8, <2>2, <3>1, VectorFacts
    <3>3. PICK e \in DOMAIN s : e <= q /\ s[e].id.kind = "evidence" /\ Vector(s[e]) = Vector(s[q])
      BY <1>1, <3>2 DEF GoodStore, Led
    <3>4. e # k /\ e <= j
      BY <1>1, <1>6, <2>2, <3>3
    <3>5. PICK i \in DOMAIN u : from[i] = e /\ u[i] = s[e]
      BY <2>a, <3>4
    <3> QED BY <1>6, <2>2, <3>3, <3>4, <3>5
  <2> QED BY <2>1, <2>2
<1>9. Led(u)
  <2> SUFFICES ASSUME NEW i \in DOMAIN u, u[i].id.kind = "threat"
               PROVE \E j \in DOMAIN u : j < i /\ u[j].id.kind = "evidence" /\ Vector(u[j]) = Vector(u[i])
    BY DEF Led
  <2>1. from[i] \in DOMAIN s /\ u[i] = s[from[i]]
    BY <1>1, <1>3, <1>5
  <2>2. PICK j \in DOMAIN s : j < from[i] /\ s[j].id.kind = "evidence" /\ Vector(s[j]) = Vector(u[i])
    BY <2>1 DEF GoodStore, Led
  <2>3. PICK e \in DOMAIN u : u[e].id.kind = "evidence" /\ Vector(u[e]) = Vector(s[j]) /\ from[e] <= j
    BY <1>8, <2>2
  <2>4. from[e] \in 1..n /\ from[e] < from[i]
    BY <1>1, <1>3, <1>5, <2>1, <2>2, <2>3
  <2>5. e < i
    BY <1>3, <1>5, <2>4
  <2> QED BY <2>2, <2>3, <2>5
<1>10. ASSUME NEW v, HasEvidence(s, v) PROVE HasEvidence(u, v)
  <2>1. PICK j \in DOMAIN s : s[j].id.kind = "evidence" /\ Vector(s[j]) = v
    BY <1>10 DEF HasEvidence
  <2> QED BY <1>8, <2>1 DEF HasEvidence
<1>11. ASSUME NEW x, Removable(s, x) PROVE Removable(u, x)
  <2>1. PICK o \in DOMAIN s : /\ Vector(s[o]) = Vector(x) /\ s[o].id # x.id
                              /\ \A p \in DOMAIN s : s[p].id = x.id => o < p
    BY <1>11 DEF Removable
  <2>2. PICK e \in DOMAIN s : /\ e # k /\ Vector(s[e]) = Vector(x) /\ s[e].id # x.id
                              /\ \A p \in DOMAIN s : s[p].id = x.id => e < p
    <3>1. CASE o # k
      BY <2>1, <3>1
    <3>2. CASE o = k
      <4>1. s[q].id # x.id
        BY <1>1, <1>6, <2>1, <3>2
      <4>2. \A p \in DOMAIN s : s[p].id = x.id => q < p
        BY <1>1, <1>6, <2>1, <3>2
      <4> QED BY <1>1, <1>6, <2>1, <3>2, <4>1, <4>2
    <3> QED BY <3>1, <3>2
  <2>3. PICK i \in 1..(n - 1) : from[i] = e
    BY <1>1, <1>5, <2>2
  <2>4. i \in DOMAIN u /\ u[i] = s[e]
    BY <1>3, <1>5, <2>3
  <2>5. ASSUME NEW p \in DOMAIN u, u[p].id = x.id PROVE i < p
    BY <1>1, <1>3, <1>5, <2>2, <2>3, <2>5
  <2> QED BY <2>2, <2>4, <2>5 DEF Removable
<1> QED BY <1>2, <1>3, <1>7, <1>9, <1>10, <1>11 DEF GoodStore, Outlives

\* insert, update and delete: what they keep of a store, and what they add.
LEMMA AppliedFacts ==
  ASSUME NEW s, GoodStore(s), NEW c \in ChangeSet, c.op = "insert" \/ Has(s, c.rec.id),
         c.op = "delete" => Removable(s, c.rec),
         c.op = "insert" /\ c.rec.id.kind = "threat" => HasEvidence(s, Vector(c.rec)),
         NEW u, u = Applied(s, c)
  PROVE  /\ GoodStore(u) /\ Outlives(s, u)
         /\ c.op = "insert" /\ c.rec.id.kind = "evidence" => HasEvidence(u, Vector(c.rec))
         /\ \A i \in DOMAIN u :
              \/ u[i] = c.rec /\ c.op # "delete"
              \/ \E j \in DOMAIN s : u[i] = s[j] /\ (c.op # "delete" => s[j].id # c.rec.id)
<1>1. PICK n \in Nat : n = Len(s) /\ DOMAIN s = 1..n
  BY LenProperties DEF GoodStore
<1>2. c.rec \in RecSet /\ c.op \in {"insert", "update", "delete"}
  BY DEF ChangeSet
<1>3. CASE c.op = "delete"
  <2>1. PICK k : k = CHOOSE i \in DOMAIN s : s[i].id = c.rec.id
    OBVIOUS
  <2>2. k \in DOMAIN s /\ s[k].id = c.rec.id
    BY <1>3, <2>1 DEF Has
  <2>3. u = DelAt(s, k)
    BY <1>3, <2>1 DEF Applied, Forgetting
  <2>4. Removable(s, s[k])
    <3>1. Vector(s[k]) = Vector(c.rec)
      BY <2>2, VectorFacts, Zenon
    <3> QED BY <1>3, <2>2, <3>1 DEF Removable
  <2>5. GoodStore(u) /\ Outlives(s, u)
    BY <2>2, <2>3, <2>4, Deleted
  <2>6. ASSUME NEW i \in DOMAIN u PROVE \E j \in DOMAIN s : u[i] = s[j]
    <3>1. i \in 1..(n - 1) /\ u[i] = IF i < k THEN s[i] ELSE s[i + 1]
      BY <1>1, <2>2, <2>3, EntryDeleted DEF GoodStore
    <3>2. i \in DOMAIN s /\ i + 1 \in DOMAIN s
      BY <1>1, <3>1
    <3> QED BY <3>1, <3>2
  <2> QED BY <1>3, <2>5, <2>6
<1>4. CASE c.op # "delete" /\ Has(s, c.rec.id)
  <2>1. u = [i \in DOMAIN s |-> IF s[i].id = c.rec.id THEN c.rec ELSE s[i]]
    BY <1>4 DEF Applied, Assign
  <2>2. \A i \in DOMAIN s : s[i] \in RecSet
    BY ElementOfSeq, <1>1 DEF GoodStore
  <2>3. u \in [1..n -> RecSet] /\ DOMAIN u = DOMAIN s
    BY <1>1, <1>2, <2>1, <2>2
  <2>4. u \in Seq(RecSet) /\ \A i \in DOMAIN s : u[i].id = s[i].id
    BY <1>1, <2>1, <2>3, IsASeq
  <2>5. GoodStore(u) /\ Outlives(s, u)
    BY <2>3, <2>4, SameIds
  <2>6. ASSUME c.rec.id.kind = "evidence" PROVE HasEvidence(u, Vector(c.rec))
    <3>1. PICK i \in DOMAIN s : s[i].id = c.rec.id
      BY <1>4 DEF Has
    <3>2. u[i] = c.rec /\ i \in DOMAIN u
      BY <2>1, <3>1
    <3> QED BY <2>6, <3>2 DEF HasEvidence
  <2>7. \A i \in DOMAIN u : u[i] = c.rec \/ \E j \in DOMAIN s : u[i] = s[j] /\ s[j].id # c.rec.id
    BY <2>1
  <2> QED BY <1>4, <2>5, <2>6, <2>7
<1>5. CASE c.op # "delete" /\ ~Has(s, c.rec.id)
  <2>1. u = Append(s, c.rec) /\ c.op = "insert"
    BY <1>5 DEF Applied, Assign
  <2>2. /\ GoodStore(u) /\ Outlives(s, u)
        /\ c.rec.id.kind = "evidence" => HasEvidence(u, Vector(c.rec))
    BY <1>2, <1>5, <2>1, RecordAppended
  <2>3. DOMAIN u = 1..(n + 1) /\ u[n + 1] = c.rec /\ \A i \in 1..n : u[i] = s[i]
    BY <1>1, <1>2, <2>1, AppendProperties DEF GoodStore
  <2>4. \A i \in DOMAIN u : i \in 1..n \/ i = n + 1
    BY <2>3
  <2>5. \A i \in DOMAIN u : u[i] = c.rec \/ \E j \in DOMAIN s : u[i] = s[j] /\ s[j].id # c.rec.id
    BY <1>1, <1>5, <2>3, <2>4 DEF Has
  <2> QED BY <1>5, <2>2, <2>5
<1> QED BY <1>3, <1>4, <1>5

\* The changes of a request have one order.
First(todo, c) == c \in todo /\ \A d \in todo \ {c} : Earlier(c, d)

LEMMA FirstIsFirst ==
  ASSUME NEW todo \in SUBSET ChangeSet, NEW c, First(todo, c), NEW d \in todo
  PROVE  ~Earlier(d, c)
<1>1. c \in ChangeSet /\ d \in ChangeSet
  BY DEF First
<1>2. c.at[1] \in Nat /\ c.at[2] \in Nat /\ d.at[1] \in Nat /\ d.at[2] \in Nat
  BY <1>1 DEF ChangeSet
<1>3. CASE d = c
  BY <1>2, <1>3 DEF Earlier
<1>4. CASE d # c
  <2>1. Earlier(c, d)
    BY <1>4 DEF First
  <2> QED BY <1>2, <2>1 DEF Earlier
<1> QED BY <1>3, <1>4

LEMMA PreparedLasts ==
  ASSUME NEW s, NEW u, NEW todo, Prepared(s, todo), Outlives(s, u)
  PROVE  Prepared(u, todo)
<1> SUFFICES ASSUME NEW c \in todo PROVE (c.op = "delete" => Removable(u, c.rec)) /\ Backed(u, todo, c)
  BY DEF Prepared
<1>1. (c.op = "delete" => Removable(s, c.rec)) /\ Backed(s, todo, c)
  BY DEF Prepared
<1>2. c.op = "delete" => Removable(u, c.rec)
  BY <1>1 DEF Outlives
<1>3. Backed(u, todo, c)
  BY <1>1 DEF Outlives, Backed
<1> QED BY <1>2, <1>3

\* What the first change needs, and what the others have once it is made.
LEMMA PreparedFirst ==
  ASSUME NEW s, NEW todo \in SUBSET ChangeSet, Prepared(s, todo), NEW c, First(todo, c)
  PROVE  /\ c \in ChangeSet /\ (c.op = "delete" => Removable(s, c.rec))
         /\ c.op = "insert" /\ c.rec.id.kind = "threat" => HasEvidence(s, Vector(c.rec))
         /\ \A u : (/\ Outlives(s, u)
                    /\ c.op = "insert" /\ c.rec.id.kind = "evidence" => HasEvidence(u, Vector(c.rec)))
                   => Prepared(u, todo \ {c})
<1>1. c \in todo
  BY DEF First
<1>2. (c.op = "delete" => Removable(s, c.rec)) /\ Backed(s, todo, c)
  BY <1>1 DEF Prepared
<1>3. c.op = "insert" /\ c.rec.id.kind = "threat" => HasEvidence(s, Vector(c.rec))
  BY <1>2, FirstIsFirst DEF Backed
<1>4. ASSUME NEW u, Outlives(s, u),
             c.op = "insert" /\ c.rec.id.kind = "evidence" => HasEvidence(u, Vector(c.rec))
      PROVE  Prepared(u, todo \ {c})
  <2> SUFFICES ASSUME NEW x \in todo \ {c}
               PROVE (x.op = "delete" => Removable(u, x.rec)) /\ Backed(u, todo \ {c}, x)
    BY DEF Prepared
  <2>1. (x.op = "delete" => Removable(u, x.rec)) /\ Backed(u, todo, x)
    BY <1>4, PreparedLasts DEF Prepared
  <2>2. Backed(u, todo \ {c}, x)
    BY <1>4, <2>1 DEF Backed
  <2> QED BY <2>1, <2>2
<1> QED BY <1>1, <1>2, <1>3, <1>4

LEMMA LessonsFacts ==
  ASSUME NEW n \in Nat, NEW c \in DOMAIN Cases, process \in Nat
  PROVE  /\ Lessons(n, c) \in SUBSET ChangeSet
         /\ \A x \in Lessons(n, c) : x.op = "insert" /\ x.rec.id.visit = n
         /\ \A s : Prepared(s, Lessons(n, c))
<1>1. PICK e : e = DOMAIN Cases[c].evidence
  OBVIOUS
<1>2. e \in SUBSET Nat /\ Cases[c].confidence \in 0..1000
  BY <1>1, CasesAssumption, LenProperties
<1>3. ASSUME NEW kind \in Kinds, NEW j \in Nat, NEW at \in Nat \X Nat
      PROVE  /\ Insertion(n, c, kind, j, at) \in ChangeSet
             /\ Insertion(n, c, kind, j, at).op = "insert"
             /\ Insertion(n, c, kind, j, at).rec.id.visit = n
  <2>1. Record(n, c, kind, j) \in RecSet /\ Record(n, c, kind, j).id.visit = n
    BY <1>2 DEF Record, RecSet, IdSet
  <2> QED BY <2>1 DEF Insertion, ChangeSet
<1>4. ASSUME NEW x \in Lessons(n, c)
      PROVE  \E kind \in Kinds, j \in Nat, at \in Nat \X Nat :
               /\ x = Insertion(n, c, kind, j, at)
               /\ kind = "threat" => j \in e /\ at = <<2, 2 * j + 1>>
  <2> DEFINE Is(kind, j, at) == x = Insertion(n, c, kind, j, at)
  <2>1. \/ Is("investigation", 0, <<1, 0>>)
        \/ \E j \in e : Is("evidence", j, <<2, 2 * j>>)
        \/ \E j \in e : Is("threat", j, <<2, 2 * j + 1>>)
        \/ \E kind \in {"sender", "url", "attachment", "pattern"}, m \in Nat, stage \in Nat :
             x \in SavesOf(n, c, kind, m, stage)
    <3>1. \/ Is("investigation", 0, <<1, 0>>)
          \/ \E j \in e : Is("evidence", j, <<2, 2 * j>>)
          \/ \E j \in e : Is("threat", j, <<2, 2 * j + 1>>)
          \/ x \in SavesOf(n, c, "sender", Cases[c].senders, 3)
          \/ x \in SavesOf(n, c, "url", Cases[c].urls, 4)
          \/ x \in SavesOf(n, c, "attachment", Cases[c].attachments, 5)
          \/ x \in SavesOf(n, c, "pattern", Cases[c].correlations, 6)
      BY <1>1 DEF Lessons, ThreatPlace
    <3>2. /\ Cases[c].senders \in Nat /\ Cases[c].urls \in Nat
          /\ Cases[c].attachments \in Nat /\ Cases[c].correlations \in Nat
      BY CasesAssumption
    <3> HIDE DEF Is
    <3> QED BY <3>1, <3>2
  <2>2. ASSUME NEW kind \in Kinds, NEW m \in Nat, NEW stage \in Nat, x \in SavesOf(n, c, kind, m, stage)
        PROVE  \E j \in Nat : Is(kind, j, <<stage, j>>)
    <3>1. 1..m \subseteq Nat
      OBVIOUS
    <3> QED BY <2>2, <3>1 DEF SavesOf
  <2>3. CASE Is("investigation", 0, <<1, 0>>)
    BY <2>3 DEF Kinds
  <2>4. CASE \E j \in e : Is("evidence", j, <<2, 2 * j>>)
    <3>1. PICK j \in e : Is("evidence", j, <<2, 2 * j>>)
      BY <2>4
    <3>2. j \in Nat /\ 2 * j \in Nat /\ "evidence" \in Kinds /\ "evidence" # "threat"
      BY <1>2 DEF Kinds
    <3>3. <<2, 2 * j>> \in Nat \X Nat
      BY <3>2
    <3> HIDE DEF Kinds
    <3> QED BY <3>1, <3>2, <3>3
  <2>5. CASE \E j \in e : Is("threat", j, <<2, 2 * j + 1>>)
    <3>1. PICK j \in e : Is("threat", j, <<2, 2 * j + 1>>)
      BY <2>5
    <3>2. j \in Nat /\ 2 * j + 1 \in Nat /\ "threat" \in Kinds
      BY <1>2 DEF Kinds
    <3>3. <<2, 2 * j + 1>> \in Nat \X Nat
      BY <3>2
    <3> QED BY <3>1, <3>2, <3>3
  <2>6. CASE \E kind \in {"sender", "url", "attachment", "pattern"}, m \in Nat, stage \in Nat :
               x \in SavesOf(n, c, kind, m, stage)
    <3>1. PICK kind \in {"sender", "url", "attachment", "pattern"}, m \in Nat, stage \in Nat :
               x \in SavesOf(n, c, kind, m, stage)
      BY <2>6
    <3>2. kind \in Kinds /\ kind # "threat"
      BY DEF Kinds
    <3>3. PICK j \in Nat : Is(kind, j, <<stage, j>>)
      BY <2>2, <3>1, <3>2
    <3>4. <<stage, j>> \in Nat \X Nat
      OBVIOUS
    <3> QED BY <3>2, <3>3, <3>4
  <2> QED BY <2>1, <2>3, <2>4, <2>5, <2>6
<1>5. ASSUME NEW s, NEW x \in Lessons(n, c)
      PROVE (x.op = "delete" => Removable(s, x.rec)) /\ Backed(s, Lessons(n, c), x)
  <2>1. PICK kind \in Kinds, j \in Nat, at \in Nat \X Nat :
          /\ x = Insertion(n, c, kind, j, at) /\ (kind = "threat" => j \in e /\ at = <<2, 2 * j + 1>>)
    BY <1>4
  <2>2. x.op = "insert" /\ x.rec.id.kind = kind /\ x.at = at /\ x.rec = Record(n, c, kind, j)
    BY <2>1 DEF Insertion, Record
  <2>3. ASSUME kind = "threat"
        PROVE  \E d \in Lessons(n, c) : /\ d.op = "insert" /\ d.rec.id.kind = "evidence"
                                        /\ Vector(d.rec) = Vector(x.rec) /\ Earlier(d, x)
    <3>1. PICK d : d = Insertion(n, c, "evidence", j, <<2, 2 * j>>)
      OBVIOUS
    <3>2. d \in Lessons(n, c)
      BY <1>1, <2>1, <2>3, <3>1 DEF Lessons
    <3>3. d.op = "insert" /\ d.rec.id.kind = "evidence" /\ d.at = <<2, 2 * j>> /\ d.rec = Record(n, c, "evidence", j)
      BY <3>1 DEF Insertion, Record
    <3>4. Vector(d.rec) = Vector(x.rec)
      BY <2>2, <2>3, <3>3 DEF Vector, Text, Record
    <3>5. Earlier(d, x)
      <4>1. d.at[1] = 2 /\ d.at[2] = 2 * j /\ x.at[1] = 2 /\ x.at[2] = 2 * j + 1
        BY <2>1, <2>2, <2>3, <3>3
      <4> QED BY <4>1 DEF Earlier
    <3> QED BY <3>2, <3>3, <3>4, <3>5
  <2> QED BY <2>2, <2>3 DEF Backed
<1>6. \A s : Prepared(s, Lessons(n, c))
  BY <1>5 DEF Prepared
<1>7. ASSUME NEW x \in Lessons(n, c) PROVE x \in ChangeSet /\ x.op = "insert" /\ x.rec.id.visit = n
  BY <1>3, <1>4
<1> QED BY <1>6, <1>7

ServingOK == \A t \in Threads : RequestOK(t)

LEMMA Moved ==
  ASSUME MemTypes, NEW t \in Threads, NEW new \in ThreadSet, Goes(t, new)
  PROVE  /\ thread' \in [Threads -> ThreadSet] /\ thread'[t] = new
         /\ \A u \in Threads : u # t => thread'[u] = thread[u]
BY DEF MemTypes, Goes

LEMMA EmptyIsGood == GoodStore(<<>>) /\ \A s : Prepared(s, {})
BY DEF GoodStore, Unique, Led, Prepared

LEMMA RestingIs ==
  /\ Resting \in ThreadSet /\ Resting.pc = "idle" /\ GoodStore(Resting.dump)
  /\ Resting.todo = {} /\ Resting.doing = NoChange /\ NoChange.op = "none"
<1>1. <<>> \in Seq(RecSet)
  BY EmptySeq
<1> QED BY <1>1, EmptyIsGood DEF Resting, ThreadSet, NoChange

\* One thread moves and every store keeps what the others rely on.
LEMMA RequestsMove ==
  ASSUME MemTypes, ServingOK, NEW t \in Threads, NEW new \in ThreadSet, Goes(t, new),
         DOMAIN objects \subseteq DOMAIN objects',
         \A i \in DOMAIN objects : objects'[i] = objects[i] \/ Outlives(objects[i], objects'[i]),
         new.pc # "idle" => new.store \in DOMAIN objects' /\ Prepared(objects'[new.store], new.todo),
         GoodStore(new.dump)
  PROVE  ServingOK'
<1>1. /\ thread'[t] = new /\ \A u \in Threads : u # t => thread'[u] = thread[u]
  BY Moved
<1> SUFFICES ASSUME NEW u \in Threads
             PROVE /\ thread'[u].pc # "idle" => /\ thread'[u].store \in DOMAIN objects'
                                                /\ Prepared(objects'[thread'[u].store], thread'[u].todo)
                   /\ GoodStore(thread'[u].dump)
  BY DEF ServingOK, RequestOK, Busy, Used
<1>2. CASE u = t
  BY <1>1, <1>2
<1>3. CASE u # t
  <2>1. thread'[u] = thread[u]
    BY <1>1, <1>3
  <2>2. GoodStore(thread[u].dump)
    BY DEF ServingOK, RequestOK
  <2>3. ASSUME thread[u].pc # "idle"
        PROVE thread[u].store \in DOMAIN objects' /\ Prepared(objects'[thread[u].store], thread[u].todo)
    <3>1. PICK k : k = thread[u].store
      OBVIOUS
    <3>2. k \in DOMAIN objects /\ Prepared(objects[k], thread[u].todo)
      BY <2>3, <3>1 DEF ServingOK, RequestOK, Busy, Used
    <3>3. Prepared(objects'[k], thread[u].todo)
      BY <3>2, PreparedLasts
    <3> QED BY <3>1, <3>2, <3>3
  <2> QED BY <2>1, <2>2, <2>3
<1> QED BY <1>2, <1>3

\* What a thread that is busy has.
LEMMA BusyHas ==
  ASSUME MemTypes, StoresOK, ServingOK, NEW t \in Threads, Busy(t)
  PROVE  /\ thread[t] \in ThreadSet /\ thread[t].store \in DOMAIN objects /\ GoodStore(Used(t))
         /\ Prepared(Used(t), thread[t].todo) /\ thread[t].todo \in SUBSET ChangeSet
         /\ GoodStore(thread[t].dump)
<1>1. thread[t] \in ThreadSet
  BY DEF MemTypes
<1>2. thread[t].todo \in SUBSET ChangeSet
  BY <1>1 DEF ThreadSet
<1> QED BY <1>1, <1>2 DEF ServingOK, RequestOK, StoresOK, Used

Core == MemTypes /\ StoresOK /\ ServingOK

\* A step of a thread that changes no store.
LEMMA QuietStep ==
  ASSUME Core, NEW t \in Threads, NEW new \in ThreadSet, Goes(t, new), UNCHANGED <<objects, visits, process, overlapped>>,
         services' \in Nat, services' <= Len(objects), memFile' \in SnapshotSet, GoodStore(memFile'.says),
         DOMAIN verdicts' \subseteq IdSet,
         new.pc # "idle" => new.store \in DOMAIN objects /\ Prepared(objects[new.store], new.todo),
         GoodStore(new.dump)
  PROVE  Core'
<1>1. ServingOK'
  BY RequestsMove DEF Core
<1>2. thread' \in [Threads -> ThreadSet]
  BY Moved DEF Core
<1>3. MemTypes'
  BY <1>2 DEF Core, MemTypes
<1>4. StoresOK'
  BY DEF Core, StoresOK
<1> QED BY <1>1, <1>3, <1>4 DEF Core

LEMMA GetServicesCore ==
  ASSUME Core, NEW t \in Threads, GetServices(t) PROVE Core'
<1> USE DEF Core
<1>1. visits' \in 0..MaxVisits /\ visits + 1 \in Nat /\ overlapped' \in BOOLEAN /\ Len(objects) \in Nat
  BY VisitsAssumption, LenProperties DEF GetServices, MemTypes
<1>2. CASE services # 0 /\ UNCHANGED objects /\ Goes(t, [Resting EXCEPT !.pc = "ready", !.visit = visits + 1, !.store = services])
  <2>1. PICK new : new = [Resting EXCEPT !.pc = "ready", !.visit = visits + 1, !.store = services]
    OBVIOUS
  <2>2. new \in ThreadSet /\ new.store = services /\ new.todo = {} /\ new.dump = <<>>
    BY <1>1, <2>1, RestingIs DEF ThreadSet, Resting, MemTypes
  <2>3. services \in DOMAIN objects
    BY <1>2, LenProperties DEF MemTypes
  <2>4. ServingOK'
    BY <1>2, <2>1, <2>2, <2>3, RequestsMove, EmptyIsGood
  <2>5. thread' \in [Threads -> ThreadSet]
    BY <1>2, <2>1, <2>2, Moved
  <2>6. MemTypes'
    BY <1>1, <1>2, <2>5 DEF MemTypes, GetServices
  <2>7. StoresOK'
    BY <1>2 DEF StoresOK, GetServices
  <2> QED BY <2>4, <2>6, <2>7
<1>3. CASE /\ services = 0 /\ objects' = Append(objects, Restored)
           /\ Goes(t, [Resting EXCEPT !.pc = "built", !.visit = visits + 1, !.store = Len(objects) + 1])
  <2>1. PICK new : new = [Resting EXCEPT !.pc = "built", !.visit = visits + 1, !.store = Len(objects) + 1]
    OBVIOUS
  <2>2. new \in ThreadSet /\ new.store = Len(objects) + 1 /\ new.todo = {} /\ new.dump = <<>>
    <3>1. PICK m \in Nat : m = Len(objects) + 1
      BY <1>1
    <3>2. new = [Resting EXCEPT !.pc = "built", !.visit = visits + 1, !.store = m]
      BY <2>1, <3>1
    <3>3. new \in ThreadSet /\ new.store = m /\ new.todo = {} /\ new.dump = <<>>
      BY <1>1, <3>2, RestingIs DEF ThreadSet, Resting
    <3> QED BY <3>1, <3>3
  <2>3. memFile.says \in Seq(RecSet) /\ objects \in Seq(Seq(RecSet))
    BY DEF MemTypes, SnapshotSet
  <2>4. /\ objects' \in Seq(Seq(RecSet)) /\ Len(objects') = Len(objects) + 1
        /\ DOMAIN objects' = 1..(Len(objects) + 1) /\ DOMAIN objects = 1..Len(objects)
        /\ objects'[Len(objects) + 1] = memFile.says /\ \A i \in 1..Len(objects) : objects'[i] = objects[i]
    BY <1>3, <2>3, AppendProperties, LenProperties DEF Restored
  <2>5. new.store \in DOMAIN objects' /\ DOMAIN objects \subseteq DOMAIN objects'
    BY <1>1, <2>2, <2>4
  <2>6. ServingOK'
    BY <1>3, <2>1, <2>2, <2>4, <2>5, RequestsMove, EmptyIsGood
  <2>7. thread' \in [Threads -> ThreadSet]
    BY <1>3, <2>1, <2>2, Moved
  <2>8. MemTypes'
    BY <1>1, <1>3, <2>4, <2>7 DEF MemTypes, GetServices
  <2>9. ASSUME NEW i \in DOMAIN objects' PROVE GoodStore(objects'[i])
    <3>1. i \in DOMAIN objects \/ i = Len(objects) + 1
      BY <1>1, <2>4
    <3> QED BY <2>4, <3>1 DEF StoresOK
  <2>10. StoresOK'
    BY <2>9 DEF StoresOK, GetServices
  <2> QED BY <2>6, <2>8, <2>10
<1> QED BY <1>2, <1>3 DEF GetServices

\* The steps that only move a thread on, with the same store.
LEMMA QuietSteps ==
  ASSUME Core, NEW t \in Threads,
         \/ Publish(t) \/ (\E c \in DOMAIN Cases : Learn(t, c)) \/ (\E v \in Opinions : correct_record(t, v))
         \/ deduplicate(t) \/ RequestEnds(t) \/ Dump(t) \/ Open(t) \/ Write(t)
  PROVE  Core'
<1> USE DEF Core
<1>1. Busy(t)
  BY DEF Busy, Publish, Learn, correct_record, deduplicate, RequestEnds, Dump, Open, Write
<1>2. /\ thread[t] \in ThreadSet /\ thread[t].store \in DOMAIN objects /\ GoodStore(objects[thread[t].store])
      /\ Prepared(objects[thread[t].store], thread[t].todo) /\ thread[t].todo \in SUBSET ChangeSet
      /\ GoodStore(thread[t].dump) /\ Used(t) = objects[thread[t].store]
  BY <1>1, BusyHas DEF Used
<1>3. /\ services \in Nat /\ services <= Len(objects) /\ memFile \in SnapshotSet /\ GoodStore(memFile.says)
      /\ DOMAIN verdicts \subseteq IdSet
  BY DEF MemTypes, StoresOK
<1>4. ASSUME NEW changes \in SUBSET ChangeSet, Prepared(Used(t), changes), Works(t, changes),
             UNCHANGED <<objects, services, memFile, visits, process, verdicts, overlapped>>
      PROVE Core'
  <2>1. PICK new : new = [thread[t] EXCEPT !.pc = "change", !.todo = changes]
    OBVIOUS
  <2>2. new \in ThreadSet /\ new.todo = changes /\ new.store = thread[t].store /\ new.dump = thread[t].dump
    BY <1>2, <2>1 DEF ThreadSet
  <2>3. Goes(t, new)
    BY <1>4, <2>1 DEF Works
  <2> QED BY <1>2, <1>3, <1>4, <2>2, <2>3, QuietStep
<1>5. CASE Publish(t)
  <2>1. PICK new : new = [thread[t] EXCEPT !.pc = "ready"]
    OBVIOUS
  <2>2. new \in ThreadSet /\ new.todo = thread[t].todo /\ new.store = thread[t].store /\ new.dump = thread[t].dump
    BY <1>2, <2>1 DEF ThreadSet
  <2>3. services' \in Nat /\ services' <= Len(objects)
    BY <1>2, <1>5, LenProperties DEF Publish, MemTypes
  <2> QED BY <1>2, <1>3, <1>5, <2>1, <2>2, <2>3, QuietStep DEF Publish
<1>6. CASE \E c \in DOMAIN Cases : Learn(t, c)
  <2>1. PICK c \in DOMAIN Cases : Learn(t, c)
    BY <1>6
  <2>2. thread[t].visit \in Nat /\ process \in Nat
    BY <1>2, VisitsAssumption DEF ThreadSet, MemTypes
  <2>3. PICK changes : changes = Lessons(thread[t].visit, c)
    OBVIOUS
  <2>4. changes \in SUBSET ChangeSet /\ Prepared(Used(t), changes)
    BY <2>2, <2>3, LessonsFacts
  <2> QED BY <1>4, <2>1, <2>3, <2>4 DEF Learn
<1>7. CASE \E v \in Opinions : correct_record(t, v)
  <2>1. PICK v \in Opinions : correct_record(t, v)
    BY <1>7
  <2>2. PICK i \in DOMAIN Used(t) :
          Works(t, {[op |-> "update", at |-> <<1, i>>, rec |-> [Used(t)[i] EXCEPT !.conf = Confidence[v]]]})
    BY <2>1 DEF correct_record
  <2>3. PICK x : x = [op |-> "update", at |-> <<1, i>>, rec |-> [Used(t)[i] EXCEPT !.conf = Confidence[v]]]
    OBVIOUS
  <2>4. i \in Nat /\ Used(t)[i] \in RecSet
    BY <1>2, LenProperties, ElementOfSeq DEF GoodStore
  <2>5. Confidence[v] \in 0..1000
    BY OpinionsAssumption DEF Confidence
  <2>6. x \in ChangeSet /\ x.op = "update"
    BY <2>3, <2>4, <2>5 DEF ChangeSet, RecSet
  <2>7. Prepared(Used(t), {x})
    BY <2>6 DEF Prepared, Backed
  <2> QED BY <1>4, <2>1, <2>2, <2>3, <2>6, <2>7 DEF correct_record
<1>8. CASE deduplicate(t)
  <2>1. PICK s : s = Used(t)
    OBVIOUS
  <2>2. PICK changes : changes = {[op |-> "delete", at |-> <<1, i>>, rec |-> s[i]] : i \in Duplicates(s)}
    OBVIOUS
  <2>3. \A i \in DOMAIN s : i \in Nat /\ s[i] \in RecSet
    BY <1>2, <2>1, LenProperties, ElementOfSeq DEF GoodStore
  <2>4. ASSUME NEW x \in changes
        PROVE  x \in ChangeSet /\ (x.op = "delete" => Removable(s, x.rec)) /\ Backed(s, changes, x)
    <3>1. PICK i \in Duplicates(s) : x = [op |-> "delete", at |-> <<1, i>>, rec |-> s[i]]
      BY <2>2
    <3>2. i \in DOMAIN s /\ \E j \in DOMAIN s : j < i /\ Vector(s[j]) = Vector(s[i])
      BY DEF Duplicates
    <3>3. x.op = "delete" /\ x.rec = s[i] /\ x \in ChangeSet
      BY <2>3, <3>1, <3>2 DEF ChangeSet
    <3>4. Removable(s, s[i])
      <4>1. PICK j \in DOMAIN s : j < i /\ Vector(s[j]) = Vector(s[i])
        BY <3>2
      <4>2. j # i /\ j \in Nat /\ i \in Nat
        BY <2>3, <3>2, <4>1
      <4>3. \A p \in DOMAIN s : s[p].id = s[i].id => p = i
        BY <1>2, <2>1, <3>2 DEF GoodStore, Unique
      <4>4. s[j].id # s[i].id
        BY <4>1, <4>2, <4>3
      <4> QED BY <4>1, <4>3, <4>4 DEF Removable
    <3> QED BY <3>3, <3>4 DEF Backed
  <2>5. Prepared(s, changes) /\ changes \in SUBSET ChangeSet
    BY <2>4 DEF Prepared
  <2>6. Works(t, changes)
    BY <1>8, <2>1, <2>2 DEF deduplicate
  <2> QED BY <1>4, <1>8, <2>1, <2>5, <2>6 DEF deduplicate
<1>9. CASE RequestEnds(t)
  BY <1>3, <1>9, RestingIs, QuietStep DEF RequestEnds
<1>10. CASE Dump(t)
  <2>1. CASE Goes(t, Resting)
    BY <1>3, <1>10, <2>1, RestingIs, QuietStep DEF Dump
  <2>2. CASE Goes(t, [thread[t] EXCEPT !.pc = "open", !.dump = Used(t)])
    <3>1. PICK new : new = [thread[t] EXCEPT !.pc = "open", !.dump = Used(t)]
      OBVIOUS
    <3>2. new \in ThreadSet /\ new.todo = thread[t].todo /\ new.store = thread[t].store /\ new.dump = Used(t)
      BY <1>2, <3>1 DEF ThreadSet, GoodStore
    <3> QED BY <1>2, <1>3, <1>10, <2>2, <3>1, <3>2, QuietStep DEF Dump
  <2> QED BY <1>10, <2>1, <2>2 DEF Dump
<1>11. CASE Open(t)
  <2>1. PICK new : new = [thread[t] EXCEPT !.pc = "write"]
    OBVIOUS
  <2>2. new \in ThreadSet /\ new.todo = thread[t].todo /\ new.store = thread[t].store /\ new.dump = thread[t].dump
    BY <1>2, <2>1 DEF ThreadSet
  <2>3. memFile' \in SnapshotSet /\ GoodStore(memFile'.says)
    BY <1>11, EmptyIsGood DEF Open, Unreadable, SnapshotSet, GoodStore
  <2> QED BY <1>2, <1>3, <1>11, <2>1, <2>2, <2>3, QuietStep DEF Open
<1>12. CASE Write(t)
  <2>1. PICK new : new = [thread[t] EXCEPT !.pc = "change", !.dump = <<>>, !.doing = NoChange]
    OBVIOUS
  <2>2. new \in ThreadSet /\ new.todo = thread[t].todo /\ new.store = thread[t].store /\ new.dump = <<>>
    BY <1>2, <2>1, EmptyIsGood DEF ThreadSet, GoodStore
  <2>3. Goes(t, new)
    BY <1>12, <2>1 DEF Write
  <2>4. memFile' \in SnapshotSet /\ GoodStore(memFile'.says)
    <3>1. memFile' = Overwritten(memFile, thread[t].dump)
      BY <1>12 DEF Write
    <3>2. memFile.len \in Nat /\ Len(thread[t].dump) \in Nat /\ thread[t].dump \in Seq(RecSet)
      BY <1>2, <1>3, LenProperties DEF SnapshotSet, GoodStore
    <3>3. memFile' = Holding(thread[t].dump) \/ memFile' = Unreadable(memFile.len)
      BY <3>1 DEF Overwritten
    <3>4. CASE memFile' = Holding(thread[t].dump)
      BY <1>2, <3>2, <3>4 DEF Holding, SnapshotSet
    <3>5. CASE memFile' = Unreadable(memFile.len)
      BY <3>2, <3>5, EmptyIsGood DEF Unreadable, SnapshotSet, GoodStore
    <3> QED BY <3>3, <3>4, <3>5
  <2>5. DOMAIN verdicts' \subseteq IdSet
    <3>1. CASE thread[t].doing.op = "update"
      <4>1. thread[t].doing \in ChangeSet
        BY <1>2, <3>1, RestingIs DEF ThreadSet
      <4>2. thread[t].doing.rec.id \in IdSet
        BY <4>1 DEF ChangeSet, RecSet
      <4>3. DOMAIN verdicts' = DOMAIN verdicts \cup {thread[t].doing.rec.id}
        BY <1>12, <3>1 DEF Write, Put
      <4> QED BY <1>3, <4>2, <4>3
    <3>2. CASE thread[t].doing.op # "update"
      BY <1>3, <1>12, <3>2 DEF Write
    <3> QED BY <3>1, <3>2
  <2>6. UNCHANGED <<objects, services, visits, process, overlapped>>
    BY <1>12 DEF Write
  <2> QED BY <1>2, <1>3, <2>2, <2>3, <2>4, <2>5, <2>6, EmptyIsGood, QuietStep
<1> QED BY <1>5, <1>6, <1>7, <1>8, <1>9, <1>10, <1>11, <1>12

LEMMA ChangeCore ==
  ASSUME Core, NEW t \in Threads, Change(t) PROVE Core'
<1> USE DEF Core
<1>1. thread[t].pc = "change" /\ Busy(t)
  BY DEF Change, Busy
<1>2. PICK k : k = thread[t].store
  OBVIOUS
<1>3. PICK s : s = Used(t) /\ s = objects[k]
  BY <1>2 DEF Used
<1>4. /\ thread[t] \in ThreadSet /\ k \in DOMAIN objects /\ GoodStore(s)
      /\ Prepared(s, thread[t].todo) /\ thread[t].todo \in SUBSET ChangeSet /\ GoodStore(thread[t].dump)
  BY <1>1, <1>2, <1>3, BusyHas
<1>5. PICK c \in Following(t) :
       \/ /\ c.op = "insert" \/ Has(Used(t), c.rec.id)
          /\ objects' = [objects EXCEPT ![thread[t].store] = Applied(@, c)]
          /\ Goes(t, [After(t, c) EXCEPT !.pc = "dump", !.doing = c, !.dump = Applied(Used(t), c)])
       \/ /\ c.op # "insert" /\ ~Has(Used(t), c.rec.id)
          /\ Goes(t, IF c.op = "update" THEN Resting ELSE After(t, c))
          /\ UNCHANGED objects
  BY DEF Change
<1>6. First(thread[t].todo, c)
  BY DEF Following, First
<1>7. UNCHANGED <<services, memFile, visits, process, verdicts, overlapped>>
  BY DEF Change
<1>8. /\ services \in Nat /\ services <= Len(objects) /\ memFile \in SnapshotSet /\ GoodStore(memFile.says)
      /\ DOMAIN verdicts \subseteq IdSet /\ objects \in Seq(Seq(RecSet))
  BY DEF MemTypes, StoresOK
<1>9. CASE /\ c.op = "insert" \/ Has(Used(t), c.rec.id)
           /\ objects' = [objects EXCEPT ![thread[t].store] = Applied(@, c)]
           /\ Goes(t, [After(t, c) EXCEPT !.pc = "dump", !.doing = c, !.dump = Applied(Used(t), c)])
  <2>1. PICK u : u = Applied(s, c)
    OBVIOUS
  <2>2. /\ c \in ChangeSet /\ (c.op = "delete" => Removable(s, c.rec))
        /\ c.op = "insert" /\ c.rec.id.kind = "threat" => HasEvidence(s, Vector(c.rec))
    BY <1>4, <1>6, PreparedFirst
  <2>3. GoodStore(u) /\ Outlives(s, u) /\ (c.op = "insert" /\ c.rec.id.kind = "evidence" => HasEvidence(u, Vector(c.rec)))
    BY <1>3, <1>4, <1>9, <2>1, <2>2, AppliedFacts
  <2>4. Prepared(u, thread[t].todo \ {c})
    BY <1>4, <1>6, <2>3, PreparedFirst
  <2>5. objects' = [objects EXCEPT ![k] = u]
    BY <1>2, <1>3, <1>9, <2>1
  <2>6. /\ objects' \in Seq(Seq(RecSet)) /\ DOMAIN objects' = DOMAIN objects /\ Len(objects') = Len(objects)
        /\ objects'[k] = u /\ \A i \in DOMAIN objects : i # k => objects'[i] = objects[i]
    BY <1>4, <1>8, <2>3, <2>5, ExceptSeq DEF GoodStore
  <2>7. PICK new : new = [After(t, c) EXCEPT !.pc = "dump", !.doing = c, !.dump = u]
    OBVIOUS
  <2>8. new \in ThreadSet /\ new.todo = thread[t].todo \ {c} /\ new.store = k /\ new.dump = u
    <3>1. PICK b : b = After(t, c)
      OBVIOUS
    <3>2. b \in ThreadSet /\ b.todo = thread[t].todo \ {c} /\ b.store = k
      BY <1>2, <1>4, <3>1 DEF After, ThreadSet
    <3>3. new = [b EXCEPT !.pc = "dump", !.doing = c, !.dump = u]
      BY <2>7, <3>1
    <3> QED BY <2>2, <2>3, <3>2, <3>3 DEF ThreadSet, GoodStore
  <2>9. Goes(t, new)
    BY <1>3, <1>9, <2>1, <2>7
  <2>10. ServingOK'
    BY <1>3, <1>4, <2>3, <2>4, <2>6, <2>8, <2>9, RequestsMove
  <2>11. thread' \in [Threads -> ThreadSet]
    BY <2>8, <2>9, Moved
  <2>12. MemTypes'
    BY <1>7, <1>8, <2>6, <2>11 DEF MemTypes
  <2>13. StoresOK'
    BY <1>7, <2>3, <2>6 DEF StoresOK
  <2> QED BY <2>10, <2>12, <2>13
<1>10. CASE c.op # "insert" /\ Goes(t, IF c.op = "update" THEN Resting ELSE After(t, c)) /\ UNCHANGED objects
  <2>1. CASE c.op = "update"
    BY <1>7, <1>8, <1>10, <2>1, RestingIs, QuietStep
  <2>2. CASE c.op # "update"
    <3>1. PICK new : new = After(t, c)
      OBVIOUS
    <3>2. new \in ThreadSet /\ new.todo = thread[t].todo \ {c} /\ new.store = k /\ new.dump = thread[t].dump
      BY <1>2, <1>4, <3>1 DEF After, ThreadSet
    <3>3. Outlives(s, s)
      BY DEF Outlives
    <3>4. Prepared(s, thread[t].todo \ {c})
      BY <1>4, <1>6, <1>10, <3>3, PreparedFirst
    <3> QED BY <1>3, <1>4, <1>7, <1>8, <1>10, <2>2, <3>1, <3>2, <3>4, QuietStep
  <2> QED BY <2>1, <2>2
<1> QED BY <1>5, <1>9, <1>10

\* One thread moves while the others are idle: what Alone says of the result is
\* about this thread only.
LEMMA AloneMove ==
  ASSUME MemTypes, NEW t \in Threads, NEW new \in ThreadSet, Goes(t, new),
         \A u \in Threads : u # t => thread[u].pc = "idle",
         Len(objects') <= 1, new.pc # "built" => services' = Len(objects'),
         new.pc \notin {"dump", "open", "write"} /\ Len(objects') = 1 => objects'[1] = memFile'.says,
         new.pc \in {"dump", "open", "write"} => new.dump = objects'[1],
         new.pc = "write" => memFile'.len = 0
  PROVE  OneStore'
<1>1. /\ thread'[t] = new /\ \A u \in Threads : u # t => thread'[u] = thread[u]
  BY Moved
<1>2. \A u \in Threads : u # t => thread'[u].pc = "idle"
  BY <1>1
<1> QED BY <1>1, <1>2 DEF OneStore, Busy, Snapshotting

LEMMA AloneVerdicts ==
  ASSUME MemTypes, NEW t \in Threads, NEW new \in ThreadSet, Goes(t, new),
         \A u \in Threads : u # t => thread[u].pc = "idle",
         \A i \in DOMAIN memFile'.says : Kept(memFile.says[i])',
         new.pc \in {"dump", "open", "write"} => \A i \in DOMAIN objects'[1] :
           IF new.doing.op = "update" /\ objects'[1][i].id = new.doing.rec.id
           THEN objects'[1][i].conf = new.doing.rec.conf ELSE Kept(objects[1][i])'
  PROVE  VerdictsKept'
<1>1. /\ thread'[t] = new /\ \A u \in Threads : u # t => thread'[u] = thread[u]
  BY Moved
<1>2. \A u \in Threads : u # t => ~(thread'[u].pc \in {"dump", "open", "write"})
  BY <1>1
<1> QED BY <1>1, <1>2 DEF VerdictsKept, Snapshotting

LEMMA AloneVisits ==
  ASSUME MemTypes, NEW t \in Threads, NEW new \in ThreadSet, Goes(t, new),
         \A u \in Threads : u # t => thread[u].pc = "idle",
         \A id \in DOMAIN verdicts' : id.visit <= visits',
         MadeBy(memFile'.says, visits'), \A i \in DOMAIN objects' : MadeBy(objects'[i], visits'),
         new.pc # "idle" =>
           /\ new.visit = visits' /\ \A id \in DOMAIN verdicts' : id.visit < visits'
           /\ new.pc \in {"built", "ready"} => \A i \in DOMAIN objects' : MadeBy(objects'[i], visits' - 1)
           /\ \A c \in new.todo \cup {new.doing} :
                /\ c.op = "insert" => c.rec.id.visit = visits'
                /\ c.op = "update" => c.rec.id.visit < visits'
  PROVE  VisitsOK'
<1>1. /\ thread'[t] = new /\ \A u \in Threads : u # t => thread'[u] = thread[u]
  BY Moved
<1>2. \A u \in Threads : u # t => thread'[u].pc = "idle"
  BY <1>1
<1>3. ASSUME NEW u \in Threads, thread'[u].pc # "idle"
      PROVE  u = t
  BY <1>2, <1>3
<1> QED BY <1>1, <1>3 DEF VisitsOK, Busy

\* What is known when one request is served and none other ever overlapped.
LEMMA AloneHas ==
  ASSUME Core, Alone, ~overlapped, NEW t \in Threads, Busy(t)
  PROVE  /\ OneStore /\ VerdictsKept /\ VisitsOK
         /\ \A u \in Threads : u # t => thread[u].pc = "idle"
         /\ thread[t].store = 1 /\ Len(objects) = 1 /\ DOMAIN objects = {1} /\ Used(t) = objects[1]
         /\ ~Snapshotting(t) => objects[1] = memFile.says
         /\ thread[t].pc # "built" => services = 1
         /\ thread[t].visit = visits /\ \A id \in DOMAIN verdicts : id.visit < visits
<1>1. OneStore /\ VerdictsKept /\ VisitsOK
  BY DEF Alone
<1>2. \A u \in Threads : u # t => thread[u].pc = "idle"
  BY <1>1 DEF OneStore, Busy
<1>3. thread[t].store \in DOMAIN objects
  BY BusyHas DEF Core
<1>4. Len(objects) \in Nat /\ Len(objects) <= 1 /\ DOMAIN objects = 1..Len(objects)
  BY <1>1, LenProperties DEF OneStore, Core, MemTypes
<1>5. Len(objects) = 1 /\ thread[t].store = 1 /\ DOMAIN objects = {1}
  BY <1>3, <1>4
<1>6. ASSUME ~Snapshotting(t) PROVE objects[1] = memFile.says
  <2>1. \A u \in Threads : ~Snapshotting(u)
    BY <1>2, <1>6 DEF Snapshotting
  <2> QED BY <1>1, <1>5, <2>1 DEF OneStore
<1>7. ASSUME thread[t].pc # "built" PROVE services = 1
  <2>1. \A u \in Threads : thread[u].pc # "built"
    BY <1>2, <1>7
  <2> QED BY <1>1, <1>5, <2>1 DEF OneStore
<1> QED BY <1>1, <1>2, <1>5, <1>6, <1>7 DEF Used, VisitsOK

LEMMA GetServicesAlone ==
  ASSUME Core, Alone, NEW t \in Threads, GetServices(t) PROVE Alone'
<1> SUFFICES ASSUME ~overlapped' PROVE OneStore' /\ VerdictsKept' /\ VisitsOK'
  BY DEF Alone
<1> USE DEF Core
<1>1. ~overlapped /\ \A u \in Threads : thread[u].pc = "idle"
  BY DEF GetServices, Busy
<1>2. OneStore /\ VerdictsKept /\ VisitsOK
  BY <1>1 DEF Alone
<1>3. /\ Len(objects) \in Nat /\ Len(objects) <= 1 /\ services = Len(objects) /\ visits \in Nat
      /\ Len(objects) = 1 => objects[1] = memFile.says
      /\ DOMAIN objects = 1..Len(objects) /\ objects \in Seq(Seq(RecSet))
  BY <1>1, <1>2, VisitsAssumption, LenProperties DEF OneStore, Snapshotting, MemTypes
<1>4. visits' = visits + 1 /\ UNCHANGED <<services, memFile, process, verdicts>>
  BY DEF GetServices
<1>5. PICK n \in Nat : n = visits + 1
  BY <1>3
<1>6. /\ MadeBy(memFile.says, visits) /\ MadeBy(memFile.says, n) /\ n - 1 = visits
      /\ \A id \in DOMAIN verdicts : id.visit <= n /\ id.visit < n
  <2>1. DOMAIN verdicts \subseteq IdSet /\ memFile.says \in Seq(RecSet)
    BY DEF MemTypes, SnapshotSet
  <2>2. \A id \in DOMAIN verdicts : id.visit \in Nat /\ id.visit <= visits
    BY <1>2, <2>1 DEF VisitsOK, IdSet
  <2>3. \A i \in DOMAIN memFile.says : memFile.says[i].id.visit \in Nat
    <3>1. \A i \in DOMAIN memFile.says : memFile.says[i] \in RecSet
      BY <2>1, ElementOfSeq, LenProperties
    <3> QED BY <3>1 DEF RecSet, IdSet
  <2>4. MadeBy(memFile.says, visits)
    BY <1>2 DEF VisitsOK
  <2>5. MadeBy(memFile.says, n)
    BY <1>3, <1>5, <2>3, <2>4 DEF MadeBy
  <2> QED BY <1>3, <1>5, <2>2, <2>4, <2>5
<1>7. PICK new : /\ new \in ThreadSet /\ Goes(t, new) /\ new.pc \in {"built", "ready"} /\ new.visit = n
                 /\ new.todo = {} /\ new.doing = NoChange
                 /\ Len(objects') = 1 /\ objects'[1] = memFile.says /\ DOMAIN objects' = {1}
                 /\ new.pc # "built" => services' = 1
  <2>1. CASE services # 0 /\ UNCHANGED objects /\ Goes(t, [Resting EXCEPT !.pc = "ready", !.visit = visits + 1, !.store = services])
    <3>1. PICK new : new = [Resting EXCEPT !.pc = "ready", !.visit = n, !.store = services]
      OBVIOUS
    <3>2. new \in ThreadSet /\ new.todo = {} /\ new.pc = "ready" /\ new.visit = n /\ new.doing = NoChange
      BY <3>1, RestingIs DEF ThreadSet, Resting, MemTypes
    <3>3. Len(objects) = 1 /\ DOMAIN objects = {1}
      BY <1>3, <2>1
    <3> QED BY <1>3, <1>4, <1>5, <2>1, <3>1, <3>2, <3>3
  <2>2. CASE /\ services = 0 /\ objects' = Append(objects, Restored)
             /\ Goes(t, [Resting EXCEPT !.pc = "built", !.visit = visits + 1, !.store = Len(objects) + 1])
    <3>0. PICK m \in Nat : m = Len(objects) + 1
      BY <1>3
    <3>1. PICK new : new = [Resting EXCEPT !.pc = "built", !.visit = n, !.store = m]
      OBVIOUS
    <3>2. new \in ThreadSet /\ new.todo = {} /\ new.pc = "built" /\ new.visit = n /\ new.doing = NoChange
      BY <3>1, RestingIs DEF ThreadSet, Resting
    <3>3. memFile.says \in Seq(RecSet)
      BY DEF MemTypes, SnapshotSet
    <3>4. /\ Len(objects') = Len(objects) + 1 /\ DOMAIN objects' = 1..(Len(objects) + 1)
          /\ objects'[Len(objects) + 1] = memFile.says
      BY <1>3, <2>2, <3>3, AppendProperties DEF Restored
    <3>5. Len(objects) = 0
      BY <1>3, <2>2
    <3>6. Len(objects') = 1 /\ DOMAIN objects' = {1} /\ objects'[1] = memFile.says
      BY <3>4, <3>5
    <3> QED BY <1>5, <2>2, <3>0, <3>1, <3>2, <3>6
  <2> QED BY <2>1, <2>2 DEF GetServices
<1>8. OneStore'
  BY <1>1, <1>4, <1>7, AloneMove
<1>9. VerdictsKept'
  BY <1>1, <1>2, <1>4, <1>7, AloneVerdicts DEF VerdictsKept, Kept
<1>10. VisitsOK'
  <2>1. \A i \in DOMAIN objects' : MadeBy(objects'[i], n) /\ MadeBy(objects'[i], n - 1)
    BY <1>6, <1>7
  <2>2. \A c \in new.todo \cup {new.doing} : c.op # "insert" /\ c.op # "update"
    BY <1>7, RestingIs
  <2>3. visits' = n /\ UNCHANGED <<memFile, verdicts>>
    BY <1>4, <1>5
  <2> QED BY <1>1, <1>6, <1>7, <2>1, <2>2, <2>3, AloneVisits
<1> QED BY <1>8, <1>9, <1>10

\* A step that moves the only request and touches neither store nor snapshot.
LEMMA QuietAlone ==
  ASSUME Core, Alone, NEW t \in Threads, Busy(t), NEW new \in ThreadSet, Goes(t, new), ~overlapped,
         UNCHANGED <<objects, memFile, visits, process, verdicts, overlapped>>,
         services' = services \/ services' = 1, thread[t].pc = "built" => services' = 1,
         Snapshotting(t) <=> new.pc \in {"dump", "open", "write"},
         Snapshotting(t) => new.dump = objects[1] /\ new.doing = thread[t].doing /\ new.pc # "write",
         new.pc # "idle" =>
           /\ new.visit = thread[t].visit /\ new.pc \notin {"built"}
           /\ new.pc = "ready" => thread[t].pc = "built"
           /\ \A c \in new.todo \cup {new.doing} :
                /\ c.op = "insert" => c.rec.id.visit = visits
                /\ c.op = "update" => c.rec.id.visit < visits
  PROVE  OneStore' /\ VerdictsKept' /\ VisitsOK'
<1> USE DEF Core
<1>1. /\ OneStore /\ VerdictsKept /\ VisitsOK
      /\ \A u \in Threads : u # t => thread[u].pc = "idle"
      /\ thread[t].store = 1 /\ Len(objects) = 1 /\ DOMAIN objects = {1} /\ Used(t) = objects[1]
      /\ ~Snapshotting(t) => objects[1] = memFile.says
      /\ thread[t].pc # "built" => services = 1
      /\ thread[t].visit = visits /\ \A id \in DOMAIN verdicts : id.visit < visits
  BY AloneHas
<1>2. services' = 1
  BY <1>1
<1>3. OneStore'
  BY <1>1, <1>2, AloneMove
<1>4. VerdictsKept'
  <2>1. \A i \in DOMAIN memFile.says : Kept(memFile.says[i])
    BY <1>1 DEF VerdictsKept
  <2>2. Snapshotting(t) => \A i \in DOMAIN objects[1] :
          IF new.doing.op = "update" /\ objects[1][i].id = new.doing.rec.id
          THEN objects[1][i].conf = new.doing.rec.conf ELSE Kept(objects[1][i])
    BY <1>1 DEF VerdictsKept
  <2> QED BY <1>1, <2>1, <2>2, AloneVerdicts DEF Kept
<1>5. VisitsOK'
  <2>1. /\ \A id \in DOMAIN verdicts : id.visit <= visits
        /\ MadeBy(memFile.says, visits) /\ \A i \in DOMAIN objects : MadeBy(objects[i], visits)
        /\ thread[t].pc \in {"built", "ready"} => \A i \in DOMAIN objects : MadeBy(objects[i], visits - 1)
    BY <1>1 DEF VisitsOK
  <2> QED BY <1>1, <2>1, AloneVisits
<1> QED BY <1>3, <1>4, <1>5

LEMMA QuietStepsAlone ==
  ASSUME Core, Alone, NEW t \in Threads,
         \/ Publish(t) \/ (\E c \in DOMAIN Cases : Learn(t, c)) \/ (\E v \in Opinions : correct_record(t, v))
         \/ deduplicate(t) \/ RequestEnds(t) \/ Dump(t)
  PROVE  Alone'
<1> SUFFICES ASSUME ~overlapped' PROVE OneStore' /\ VerdictsKept' /\ VisitsOK'
  BY DEF Alone
<1> USE DEF Core
<1>1. Busy(t) /\ ~overlapped
  BY DEF Busy, Publish, Learn, correct_record, deduplicate, RequestEnds, Dump
<1>2. /\ OneStore /\ VerdictsKept /\ VisitsOK
      /\ thread[t].store = 1 /\ Len(objects) = 1 /\ DOMAIN objects = {1} /\ Used(t) = objects[1]
      /\ ~Snapshotting(t) => objects[1] = memFile.says
      /\ thread[t].pc # "built" => services = 1
      /\ thread[t].visit = visits /\ \A id \in DOMAIN verdicts : id.visit < visits
  BY <1>1, AloneHas
<1>3. thread[t] \in ThreadSet /\ visits \in Nat
  BY VisitsAssumption DEF MemTypes
<1>4. /\ \A c \in thread[t].todo \cup {thread[t].doing} :
           (c.op = "insert" => c.rec.id.visit = visits) /\ (c.op = "update" => c.rec.id.visit < visits)
      /\ thread[t].pc \in {"built", "ready"} => \A i \in DOMAIN objects : MadeBy(objects[i], visits - 1)
  BY <1>1, <1>2 DEF VisitsOK
<1>5. ASSUME NEW changes \in SUBSET ChangeSet, Works(t, changes), thread[t].pc = "ready",
             UNCHANGED <<objects, services, memFile, visits, process, verdicts, overlapped>>,
             \A c \in changes :
               (c.op = "insert" => c.rec.id.visit = visits) /\ (c.op = "update" => c.rec.id.visit < visits)
      PROVE OneStore' /\ VerdictsKept' /\ VisitsOK'
  <2>1. PICK new : new = [thread[t] EXCEPT !.pc = "change", !.todo = changes]
    OBVIOUS
  <2>2. new \in ThreadSet /\ new.todo = changes /\ new.doing = thread[t].doing /\ new.pc = "change"
        /\ new.visit = thread[t].visit
    BY <1>3, <2>1 DEF ThreadSet
  <2>3. Goes(t, new)
    BY <1>5, <2>1 DEF Works
  <2>4. ~Snapshotting(t)
    BY <1>5 DEF Snapshotting
  <2>5. \A c \in new.todo \cup {new.doing} :
          (c.op = "insert" => c.rec.id.visit = visits) /\ (c.op = "update" => c.rec.id.visit < visits)
    BY <1>4, <1>5, <2>2
  <2> QED BY <1>1, <1>5, <2>2, <2>3, <2>4, <2>5, QuietAlone
<1>6. CASE Publish(t)
  <2>1. PICK new : new = [thread[t] EXCEPT !.pc = "ready"]
    OBVIOUS
  <2>2. new \in ThreadSet /\ new.todo = thread[t].todo /\ new.doing = thread[t].doing /\ new.pc = "ready"
        /\ new.visit = thread[t].visit
    BY <1>3, <2>1 DEF ThreadSet
  <2>3. ~Snapshotting(t)
    BY <1>6 DEF Snapshotting, Publish
  <2> QED BY <1>1, <1>2, <1>4, <1>6, <2>1, <2>2, <2>3, QuietAlone DEF Publish
<1>7. CASE \E c \in DOMAIN Cases : Learn(t, c)
  <2>1. PICK c \in DOMAIN Cases : Learn(t, c)
    BY <1>7
  <2>2. process \in Nat
    BY VisitsAssumption DEF MemTypes
  <2>3. PICK changes : changes = Lessons(thread[t].visit, c)
    OBVIOUS
  <2>4. changes \in SUBSET ChangeSet /\ \A x \in changes : x.op = "insert" /\ x.rec.id.visit = visits
    BY <1>2, <1>3, <2>2, <2>3, LessonsFacts
  <2> QED BY <1>5, <2>1, <2>3, <2>4 DEF Learn
<1>8. CASE \E v \in Opinions : correct_record(t, v)
  <2>1. PICK v \in Opinions : correct_record(t, v)
    BY <1>8
  <2>2. PICK i \in DOMAIN Used(t) :
          Works(t, {[op |-> "update", at |-> <<1, i>>, rec |-> [Used(t)[i] EXCEPT !.conf = Confidence[v]]]})
    BY <2>1 DEF correct_record
  <2>3. PICK x : x = [op |-> "update", at |-> <<1, i>>, rec |-> [Used(t)[i] EXCEPT !.conf = Confidence[v]]]
    OBVIOUS
  <2>4. i \in Nat /\ Used(t)[i] \in RecSet
    BY <1>1, BusyHas, LenProperties, ElementOfSeq DEF GoodStore
  <2>5. Confidence[v] \in 0..1000
    BY OpinionsAssumption DEF Confidence
  <2>6. x \in ChangeSet /\ x.op = "update" /\ x.rec.id = Used(t)[i].id
    BY <2>3, <2>4, <2>5 DEF ChangeSet, RecSet
  <2>7. Used(t)[i].id.visit \in Nat
    BY <2>4 DEF RecSet, IdSet
  <2>8. Used(t)[i].id.visit <= visits - 1
    BY <1>2, <1>4, <2>1 DEF correct_record, MadeBy
  <2>9. x.rec.id.visit < visits
    BY <1>3, <2>6, <2>7, <2>8
  <2> QED BY <1>5, <2>1, <2>2, <2>3, <2>6, <2>9 DEF correct_record
<1>9. CASE deduplicate(t)
  <2>1. PICK s : s = Used(t)
    OBVIOUS
  <2>2. PICK changes : changes = {[op |-> "delete", at |-> <<1, i>>, rec |-> s[i]] : i \in Duplicates(s)}
    OBVIOUS
  <2>3. \A i \in DOMAIN s : i \in Nat /\ s[i] \in RecSet
    BY <1>1, <2>1, BusyHas, LenProperties, ElementOfSeq DEF GoodStore
  <2>4. ASSUME NEW x \in changes PROVE x \in ChangeSet /\ x.op = "delete"
    BY <2>2, <2>3 DEF ChangeSet, Duplicates
  <2>5. Works(t, changes)
    BY <1>9, <2>1, <2>2 DEF deduplicate
  <2> QED BY <1>5, <1>9, <2>4, <2>5 DEF deduplicate
<1>10. CASE RequestEnds(t)
  <2>1. ~Snapshotting(t) /\ thread[t].pc # "built"
    BY <1>10 DEF Snapshotting, RequestEnds
  <2> QED BY <1>1, <1>10, <2>1, RestingIs, QuietAlone DEF RequestEnds
<1>11. CASE Dump(t)
  <2>1. Snapshotting(t) /\ thread[t].dump = Used(t)
    BY <1>2, <1>11 DEF Dump, Snapshotting, OneStore
  <2>2. Goes(t, [thread[t] EXCEPT !.pc = "open", !.dump = Used(t)])
    BY <1>11, <2>1 DEF Dump
  <2>3. PICK new : new = [thread[t] EXCEPT !.pc = "open", !.dump = Used(t)]
    OBVIOUS
  <2>4. Used(t) \in Seq(RecSet)
    BY <1>1, BusyHas DEF GoodStore
  <2>5. new \in ThreadSet /\ new.todo = thread[t].todo /\ new.doing = thread[t].doing /\ new.pc = "open"
        /\ new.visit = thread[t].visit /\ new.dump = objects[1]
    BY <1>2, <1>3, <2>3, <2>4 DEF ThreadSet
  <2> QED BY <1>1, <1>4, <1>11, <2>1, <2>2, <2>3, <2>5, QuietAlone DEF Dump
<1> QED BY <1>6, <1>7, <1>8, <1>9, <1>10, <1>11

LEMMA ChangeAlone ==
  ASSUME Core, Alone, NEW t \in Threads, Change(t) PROVE Alone'
<1> SUFFICES ASSUME ~overlapped' PROVE OneStore' /\ VerdictsKept' /\ VisitsOK'
  BY DEF Alone
<1> USE DEF Core
<1>1. thread[t].pc = "change" /\ Busy(t) /\ ~overlapped /\ ~Snapshotting(t)
      /\ UNCHANGED <<services, memFile, visits, process, verdicts, overlapped>>
  BY DEF Change, Busy, Snapshotting
<1>2. /\ OneStore /\ VerdictsKept /\ VisitsOK
      /\ \A u \in Threads : u # t => thread[u].pc = "idle"
      /\ thread[t].store = 1 /\ Len(objects) = 1 /\ DOMAIN objects = {1} /\ Used(t) = objects[1]
      /\ objects[1] = memFile.says /\ services = 1
      /\ thread[t].visit = visits /\ \A id \in DOMAIN verdicts : id.visit < visits
  BY <1>1, AloneHas
<1>3. PICK s : s = Used(t) /\ s = objects[1]
  BY <1>2
<1>4. /\ thread[t] \in ThreadSet /\ GoodStore(s)
      /\ Prepared(s, thread[t].todo) /\ thread[t].todo \in SUBSET ChangeSet
  BY <1>1, <1>3, BusyHas
<1>5. PICK c \in Following(t) :
       \/ /\ c.op = "insert" \/ Has(Used(t), c.rec.id)
          /\ objects' = [objects EXCEPT ![thread[t].store] = Applied(@, c)]
          /\ Goes(t, [After(t, c) EXCEPT !.pc = "dump", !.doing = c, !.dump = Applied(Used(t), c)])
       \/ /\ c.op # "insert" /\ ~Has(Used(t), c.rec.id)
          /\ Goes(t, IF c.op = "update" THEN Resting ELSE After(t, c))
          /\ UNCHANGED objects
  BY DEF Change
<1>6. First(thread[t].todo, c) /\ c \in thread[t].todo
  BY DEF Following, First
<1>7. /\ \A d \in thread[t].todo \cup {thread[t].doing} :
           (d.op = "insert" => d.rec.id.visit = visits) /\ (d.op = "update" => d.rec.id.visit < visits)
      /\ \A id \in DOMAIN verdicts : id.visit <= visits
      /\ MadeBy(memFile.says, visits) /\ MadeBy(s, visits)
  BY <1>1, <1>2, <1>3 DEF VisitsOK
<1>8. CASE /\ c.op = "insert" \/ Has(Used(t), c.rec.id)
           /\ objects' = [objects EXCEPT ![thread[t].store] = Applied(@, c)]
           /\ Goes(t, [After(t, c) EXCEPT !.pc = "dump", !.doing = c, !.dump = Applied(Used(t), c)])
  <2>1. PICK u : u = Applied(s, c)
    OBVIOUS
  <2>2. /\ c \in ChangeSet /\ (c.op = "delete" => Removable(s, c.rec))
        /\ c.op = "insert" /\ c.rec.id.kind = "threat" => HasEvidence(s, Vector(c.rec))
    BY <1>4, <1>6, PreparedFirst
  <2>3. /\ GoodStore(u)
        /\ \A i \in DOMAIN u : \/ u[i] = c.rec /\ c.op # "delete"
                               \/ \E j \in DOMAIN s : u[i] = s[j] /\ (c.op # "delete" => s[j].id # c.rec.id)
    BY <1>3, <1>4, <1>8, <2>1, <2>2, AppliedFacts
  <2>4. objects' = [objects EXCEPT ![1] = u]
    BY <1>2, <1>3, <1>8, <2>1
  <2>5. DOMAIN objects' = {1} /\ Len(objects') = 1 /\ objects'[1] = u
    <3>1. objects \in Seq(Seq(RecSet)) /\ u \in Seq(RecSet)
      BY <2>3 DEF MemTypes, GoodStore
    <3> QED BY <1>2, <2>4, <3>1, ExceptSeq
  <2>6. PICK new : new = [After(t, c) EXCEPT !.pc = "dump", !.doing = c, !.dump = u]
    OBVIOUS
  <2>7. /\ new \in ThreadSet /\ new.todo = thread[t].todo \ {c} /\ new.dump = u /\ new.doing = c
        /\ new.pc = "dump" /\ new.visit = visits
    <3>1. PICK b : b = After(t, c)
      OBVIOUS
    <3>2. b \in ThreadSet /\ b.todo = thread[t].todo \ {c} /\ b.visit = visits
      BY <1>2, <1>4, <3>1 DEF After, ThreadSet
    <3>3. new = [b EXCEPT !.pc = "dump", !.doing = c, !.dump = u]
      BY <2>6, <3>1
    <3> QED BY <2>2, <2>3, <3>2, <3>3 DEF ThreadSet, GoodStore
  <2>8. Goes(t, new)
    BY <1>3, <1>8, <2>1, <2>6
  <2>9. OneStore'
    BY <1>1, <1>2, <2>5, <2>7, <2>8, AloneMove
  <2>10. VerdictsKept'
    <3>1. \A i \in DOMAIN s : Kept(s[i])
      BY <1>2, <1>3 DEF VerdictsKept
    <3>2. c.op \in {"insert", "update", "delete"} /\ visits \in Nat
      BY <2>2, VisitsAssumption DEF ChangeSet, MemTypes
    <3>3. ASSUME NEW i \in DOMAIN u
          PROVE IF c.op = "update" /\ u[i].id = c.rec.id THEN u[i].conf = c.rec.conf ELSE Kept(u[i])
      <4>1. CASE u[i] = c.rec /\ c.op = "update"
        BY <4>1
      <4>2. CASE u[i] = c.rec /\ c.op = "insert"
        <5>1. c.rec.id.visit = visits /\ \A id \in DOMAIN verdicts : id.visit < visits
          BY <1>2, <1>6, <1>7, <4>2
        <5>2. c.rec.id \notin DOMAIN verdicts
          BY <3>2, <5>1
        <5> QED BY <4>2, <5>2 DEF Kept
      <4>3. CASE \E j \in DOMAIN s : u[i] = s[j] /\ (c.op # "delete" => s[j].id # c.rec.id)
        BY <3>1, <4>3
      <4> QED BY <2>3, <3>2, <4>1, <4>2, <4>3
    <3>4. \A i \in DOMAIN memFile'.says : Kept(memFile.says[i])'
      BY <1>1, <1>2 DEF VerdictsKept, Kept
    <3>5. \A i \in DOMAIN objects'[1] :
           IF new.doing.op = "update" /\ objects'[1][i].id = new.doing.rec.id
           THEN objects'[1][i].conf = new.doing.rec.conf ELSE Kept(objects[1][i])'
      BY <1>1, <2>5, <2>7, <3>3 DEF Kept
    <3> QED BY <1>2, <2>7, <2>8, <3>4, <3>5, AloneVerdicts
  <2>11. VisitsOK'
    <3>1. MadeBy(u, visits)
      <4>1. c.rec.id.visit \in Nat /\ visits \in Nat /\ c.op \in {"insert", "update", "delete"}
        BY <2>2, VisitsAssumption DEF ChangeSet, RecSet, IdSet, MemTypes
      <4>2. c.op # "delete" => c.rec.id.visit <= visits
        BY <1>6, <1>7, <4>1
      <4> QED BY <1>7, <2>3, <4>2 DEF MadeBy
    <3>2. \A d \in new.todo \cup {new.doing} :
           (d.op = "insert" => d.rec.id.visit = visits) /\ (d.op = "update" => d.rec.id.visit < visits)
      BY <1>6, <1>7, <2>7
    <3>3. \A i \in DOMAIN objects' : MadeBy(objects'[i], visits)
      BY <2>5, <3>1
    <3> QED BY <1>1, <1>2, <1>7, <2>7, <2>8, <3>2, <3>3, AloneVisits
  <2> QED BY <2>9, <2>10, <2>11
<1>9. CASE c.op # "insert" /\ Goes(t, IF c.op = "update" THEN Resting ELSE After(t, c)) /\ UNCHANGED objects
  <2>1. CASE c.op = "update"
    BY <1>1, <1>9, <2>1, RestingIs, QuietAlone
  <2>2. CASE c.op # "update"
    <3>1. PICK new : new = After(t, c)
      OBVIOUS
    <3>2. new \in ThreadSet /\ new.todo = thread[t].todo \ {c} /\ new.doing = thread[t].doing
          /\ new.pc = "change" /\ new.visit = thread[t].visit
      BY <1>1, <1>4, <3>1 DEF After, ThreadSet
    <3>3. \A d \in new.todo \cup {new.doing} :
           (d.op = "insert" => d.rec.id.visit = visits) /\ (d.op = "update" => d.rec.id.visit < visits)
      BY <1>7, <3>2
    <3>4. Goes(t, new)
      BY <1>9, <2>2, <3>1
    <3> QED BY <1>1, <1>9, <3>2, <3>3, <3>4, QuietAlone
  <2> QED BY <2>1, <2>2
<1> QED BY <1>5, <1>8, <1>9

LEMMA WritingAlone ==
  ASSUME Core, Alone, NEW t \in Threads, Open(t) \/ Write(t) PROVE Alone'
<1> SUFFICES ASSUME ~overlapped' PROVE OneStore' /\ VerdictsKept' /\ VisitsOK'
  BY DEF Alone
<1> USE DEF Core
<1>1. Busy(t) /\ ~overlapped /\ Snapshotting(t) /\ UNCHANGED <<objects, services, visits, process, overlapped>>
  BY DEF Open, Write, Busy, Snapshotting
<1>2. /\ OneStore /\ VerdictsKept /\ VisitsOK
      /\ \A u \in Threads : u # t => thread[u].pc = "idle"
      /\ Len(objects) = 1 /\ DOMAIN objects = {1} /\ services = 1
      /\ thread[t].visit = visits /\ \A id \in DOMAIN verdicts : id.visit < visits
  BY <1>1, AloneHas DEF Snapshotting
<1>3. thread[t] \in ThreadSet /\ visits \in Nat /\ thread[t].dump = objects[1] /\ objects[1] \in Seq(RecSet)
  BY <1>1, <1>2, VisitsAssumption, ElementOfSeq DEF MemTypes, OneStore
<1>4. /\ \A c \in thread[t].todo \cup {thread[t].doing} :
           (c.op = "insert" => c.rec.id.visit = visits) /\ (c.op = "update" => c.rec.id.visit < visits)
      /\ MadeBy(objects[1], visits) /\ \A id \in DOMAIN verdicts : id.visit <= visits
  BY <1>1, <1>2 DEF VisitsOK
<1>5. \A i \in DOMAIN objects[1] :
       IF thread[t].doing.op = "update" /\ objects[1][i].id = thread[t].doing.rec.id
       THEN objects[1][i].conf = thread[t].doing.rec.conf ELSE Kept(objects[1][i])
  BY <1>1, <1>2 DEF VerdictsKept
<1>6. CASE Open(t)
  <2>1. PICK new : new = [thread[t] EXCEPT !.pc = "write"]
    OBVIOUS
  <2>2. /\ new \in ThreadSet /\ new.todo = thread[t].todo /\ new.dump = thread[t].dump
        /\ new.doing = thread[t].doing /\ new.pc = "write" /\ new.visit = thread[t].visit
    BY <1>3, <2>1 DEF ThreadSet
  <2>3. Goes(t, new) /\ UNCHANGED verdicts /\ memFile'.len = 0 /\ memFile'.says = <<>>
    BY <1>6, <2>1 DEF Open, Unreadable
  <2>4. OneStore'
    BY <1>1, <1>2, <1>3, <2>2, <2>3, AloneMove
  <2>5. VerdictsKept'
    BY <1>1, <1>2, <1>5, <2>2, <2>3, AloneVerdicts DEF Kept
  <2>6. VisitsOK'
    <3>1. MadeBy(memFile'.says, visits)
      BY <2>3 DEF MadeBy
    <3> QED BY <1>1, <1>2, <1>4, <2>2, <2>3, <3>1, AloneVisits
  <2> QED BY <2>4, <2>5, <2>6
<1>7. CASE Write(t)
  <2>1. PICK new : new = [thread[t] EXCEPT !.pc = "change", !.dump = <<>>, !.doing = NoChange]
    OBVIOUS
  <2>2. /\ new \in ThreadSet /\ new.todo = thread[t].todo /\ new.doing = NoChange /\ new.pc = "change"
        /\ new.visit = thread[t].visit
    BY <1>3, <2>1, EmptyIsGood DEF ThreadSet, GoodStore
  <2>3. Goes(t, new) /\ memFile' = Overwritten(memFile, thread[t].dump)
    BY <1>7, <2>1 DEF Write
  <2>4. memFile'.says = objects[1]
    <3>1. memFile.len = 0
      BY <1>2, <1>7 DEF OneStore, Write
    <3>2. Len(thread[t].dump) >= 0
      BY <1>3, LenProperties
    <3> QED BY <1>3, <2>3, <3>1, <3>2 DEF Overwritten, Holding
  <2>5. /\ \A i \in DOMAIN objects[1] : objects[1][i].id \in DOMAIN verdicts' => objects[1][i].conf = verdicts'[objects[1][i].id]
        /\ \A id \in DOMAIN verdicts' : id.visit < visits /\ id.visit <= visits
    <3>1. CASE thread[t].doing.op = "update"
      <4>1. PICK d : d = thread[t].doing.rec
        OBVIOUS
      <4>2. verdicts' = Put(verdicts, d.id, d.conf)
        BY <1>7, <3>1, <4>1 DEF Write
      <4>3. DOMAIN verdicts' = DOMAIN verdicts \cup {d.id} /\ verdicts'[d.id] = d.conf
            /\ \A id \in DOMAIN verdicts : id # d.id => verdicts'[id] = verdicts[id]
        BY <4>2 DEF Put
      <4>4. d.id.visit < visits /\ d.id.visit \in Nat
        <5>1. thread[t].doing \in ChangeSet
          BY <1>3, <3>1, RestingIs DEF ThreadSet
        <5>2. d.id.visit \in Nat
          BY <4>1, <5>1 DEF ChangeSet, RecSet, IdSet
        <5> QED BY <1>4, <3>1, <4>1, <5>2
      <4>5. ASSUME NEW i \in DOMAIN objects[1], objects[1][i].id \in DOMAIN verdicts'
            PROVE objects[1][i].conf = verdicts'[objects[1][i].id]
        <5>1. CASE objects[1][i].id = d.id
          BY <1>5, <3>1, <4>1, <4>3, <5>1
        <5>2. CASE objects[1][i].id # d.id
          <6>1. Kept(objects[1][i])
            BY <1>5, <4>1, <5>2
          <6> QED BY <4>3, <4>5, <5>2, <6>1 DEF Kept
        <5> QED BY <5>1, <5>2
      <4>6. \A id \in DOMAIN verdicts' : id.visit < visits /\ id.visit <= visits
        BY <1>2, <1>3, <1>4, <4>3, <4>4
      <4> QED BY <4>5, <4>6
    <3>2. CASE thread[t].doing.op # "update"
      <4>1. verdicts' = verdicts
        BY <1>7, <3>2 DEF Write
      <4> QED BY <1>2, <1>4, <1>5, <3>2, <4>1 DEF Kept
    <3> QED BY <3>1, <3>2
  <2>6. OneStore'
    BY <1>1, <1>2, <2>2, <2>3, <2>4, AloneMove
  <2>7. VerdictsKept'
    BY <1>1, <1>2, <2>2, <2>3, <2>4, <2>5, AloneVerdicts DEF Kept
  <2>8. VisitsOK'
    <3>1. \A c \in new.todo \cup {new.doing} :
           (c.op = "insert" => c.rec.id.visit = visits) /\ (c.op = "update" => c.rec.id.visit < visits)
      BY <1>4, <2>2, RestingIs
    <3> QED BY <1>1, <1>2, <1>4, <2>2, <2>3, <2>4, <2>5, <3>1, AloneVisits
  <2> QED BY <2>6, <2>7, <2>8
<1> QED BY <1>6, <1>7

LEMMA MemCrashKeeps ==
  ASSUME Core, Alone, MemCrash PROVE Core' /\ Alone'
<1> USE DEF Core
<1>1. /\ objects' = <<>> /\ services' = 0 /\ process' \in 0..MaxCrashes
      /\ UNCHANGED <<memFile, visits, verdicts, overlapped>>
      /\ \A t \in Threads : thread'[t] = Resting
  BY VisitsAssumption DEF MemCrash, MemTypes
<1>2. thread' \in [Threads -> ThreadSet]
  BY RestingIs DEF MemCrash
<1>3. objects' \in Seq(Seq(RecSet)) /\ Len(objects') = 0 /\ DOMAIN objects' = {}
  BY <1>1, EmptySeq
<1>4. MemTypes'
  BY <1>1, <1>2, <1>3 DEF MemTypes
<1>5. StoresOK'
  BY <1>1, <1>3 DEF StoresOK
<1>6. ServingOK'
  BY <1>1, RestingIs DEF ServingOK, RequestOK, Busy
<1>7. ASSUME ~overlapped' PROVE OneStore' /\ VerdictsKept' /\ VisitsOK'
  <2>1. VerdictsKept /\ VisitsOK
    BY <1>1, <1>7 DEF Alone
  <2>2. \A t \in Threads : thread'[t].pc = "idle"
    BY <1>1, RestingIs
  <2>3. OneStore'
    BY <1>1, <1>3, <2>2 DEF OneStore, Busy, Snapshotting
  <2>4. VerdictsKept'
    BY <1>1, <2>1, <2>2 DEF VerdictsKept, Snapshotting, Kept
  <2>5. VisitsOK'
    BY <1>1, <1>3, <2>1, <2>2 DEF VisitsOK, Busy
  <2> QED BY <2>3, <2>4, <2>5
<1> QED BY <1>4, <1>5, <1>6, <1>7 DEF Alone

LEMMA MemInitInv == MemInit => MemInv
<1> SUFFICES ASSUME MemInit PROVE MemInv
  OBVIOUS
<1>1. /\ objects = <<>> /\ services = 0 /\ visits = 0 /\ process = 0 /\ overlapped = FALSE
      /\ memFile = Unreadable(0) /\ DOMAIN verdicts = {}
      /\ \A t \in Threads : thread[t] = Resting
  BY DEF MemInit, EmptyDict
<1>2. thread \in [Threads -> ThreadSet]
  BY RestingIs DEF MemInit
<1>3. objects \in Seq(Seq(RecSet)) /\ Len(objects) = 0 /\ DOMAIN objects = {}
  BY <1>1, EmptySeq
<1>4. memFile \in SnapshotSet /\ memFile.says = <<>>
  BY <1>1, EmptyIsGood DEF Unreadable, SnapshotSet, GoodStore
<1>5. MemTypes
  <2>0. MaxVisits \in Nat /\ MaxCrashes \in Nat
    BY VisitsAssumption
  <2>1. visits \in 0..MaxVisits /\ process \in 0..MaxCrashes
    BY <1>1, <2>0
  <2>2. services \in Nat /\ services <= Len(objects)
    BY <1>1, <1>3
  <2>3. overlapped \in BOOLEAN /\ DOMAIN verdicts \subseteq IdSet
    BY <1>1, Zenon
  <2> QED BY <1>2, <1>3, <1>4, <2>1, <2>2, <2>3 DEF MemTypes
<1>6. StoresOK
  BY <1>3, <1>4, EmptyIsGood DEF StoresOK
<1>7. \A t \in Threads : RequestOK(t)
  BY <1>1, RestingIs DEF RequestOK, Busy
<1>8. \A t \in Threads : thread[t].pc = "idle"
  BY <1>1, RestingIs
<1>9. OneStore /\ VerdictsKept /\ VisitsOK
  BY <1>1, <1>3, <1>4, <1>8 DEF OneStore, VerdictsKept, VisitsOK, Busy, Snapshotting, MadeBy
<1> QED BY <1>5, <1>6, <1>7, <1>9 DEF MemInv, Alone

LEMMA MemStepInv == MemInv /\ [MemNext]_memVars => MemInv'
<1> SUFFICES ASSUME MemInv, [MemNext]_memVars PROVE Core' /\ Alone'
  BY DEF MemInv, Core, ServingOK
<1>1. Core /\ Alone
  BY DEF MemInv, Core, ServingOK
<1>2. ASSUME NEW t \in Threads, MemStep(t) PROVE Core' /\ Alone'
  <2>1. CASE GetServices(t)
    BY <1>1, <2>1, GetServicesCore, GetServicesAlone
  <2>2. CASE Change(t)
    BY <1>1, <2>2, ChangeCore, ChangeAlone
  <2>3. CASE Open(t) \/ Write(t)
    BY <1>1, <2>3, QuietSteps, WritingAlone
  <2>4. CASE \/ Publish(t) \/ (\E c \in DOMAIN Cases : Learn(t, c)) \/ (\E v \in Opinions : correct_record(t, v))
             \/ deduplicate(t) \/ RequestEnds(t) \/ Dump(t)
    BY <1>1, <2>4, QuietSteps, QuietStepsAlone
  <2> QED BY <1>2, <2>1, <2>2, <2>3, <2>4 DEF MemStep
<1>3. CASE UNCHANGED memVars
  <2>1. Core'
    BY <1>1, <1>3 DEF memVars, Core, MemTypes, StoresOK, ServingOK, RequestOK, Busy, Used
  <2>2. Alone'
    BY <1>1, <1>3 DEF memVars, Alone, OneStore, VerdictsKept, VisitsOK, Busy, Snapshotting, Kept
  <2> QED BY <2>1, <2>2
<1> QED BY <1>1, <1>2, <1>3, MemCrashKeeps DEF MemNext

\* One record of each vector is left: the first.
OneLeft(s, j) ==
  \E only \in DOMAIN s \ Duplicates(s) :
    {x \in DOMAIN s \ Duplicates(s) : Vector(s[x]) = Vector(s[j])} = {only}

LEMMA FirstIsLeft ==
  ASSUME NEW s \in Seq(RecSet), NEW j \in DOMAIN s
  PROVE  OneLeft(s, j)
<1>1. DOMAIN s \in SUBSET Nat
  BY LenProperties
<1>2. PICK T : T = {x \in DOMAIN s : Vector(s[x]) = Vector(s[j])}
  OBVIOUS
<1>3. T \in SUBSET Nat /\ T # {}
  BY <1>1, <1>2
<1>4. PICK m \in T : \A x \in T : ~(<<x, m>> \in OpToRel(<, Nat))
  BY <1>3, WFMin, NatLessThanWellFounded, Zenon
<1>5. \A x \in T : ~(x < m)
  BY <1>3, <1>4 DEF OpToRel
<1>6. PICK rest : rest = DOMAIN s \ Duplicates(s)
  OBVIOUS
<1>7. m \in rest
  BY <1>2, <1>4, <1>5, <1>6 DEF Duplicates
<1>8. ASSUME NEW x \in rest, Vector(s[x]) = Vector(s[j]) PROVE x = m
  <2>1. x \in T /\ x \in Nat /\ m \in Nat /\ ~(x < m)
    BY <1>1, <1>2, <1>3, <1>4, <1>5, <1>6, <1>8
  <2>2. ~(m < x)
    BY <1>2, <1>4, <1>6, <1>8 DEF Duplicates
  <2> QED BY <2>1, <2>2
<1>9. Vector(s[m]) = Vector(s[j])
  BY <1>2, <1>4
<1>10. {x \in rest : Vector(s[x]) = Vector(s[j])} = {m}
  BY <1>7, <1>8, <1>9
<1> QED BY <1>6, <1>7, <1>10 DEF OneLeft

\* What a search finds is the cut of what passes the filters.
Exact(s, rank, k, kind, least) ==
  LET answer == similarity_search(s, rank, k, kind, least)
      right == Matches(s, kind, least)
  IN /\ answer \subseteq right
     /\ Cardinality(answer) < k => answer = right
     /\ \A x \in answer, y \in right \ answer : rank[x] >= rank[y]

LEMMA SearchCuts ==
  ASSUME NEW s \in Seq(RecSet), NEW rank \in [DOMAIN s -> 0..1], NEW k \in Nat, NEW kind, NEW least
  PROVE  Exact(s, rank, k, kind, least)
<1>1. PICK n \in Nat : n = Len(s) /\ DOMAIN s = 1..n
  BY LenProperties
<1>2. PICK right : right = Matches(s, kind, least)
  OBVIOUS
<1>3. PICK answer : answer = Nearest(right, rank, k)
  OBVIOUS
<1>4. right \in SUBSET (1..n)
  BY <1>1, <1>2 DEF Matches
<1>5. Ranked(right, rank)
  <2>1. IsFiniteSet(1..n) /\ 0 \in Nat
    BY FS_Interval
  <2>2. IsFiniteSet(right)
    BY <1>4, <2>1, FS_Subset
  <2> QED BY <1>1, <1>4, <2>2 DEF Ranked
<1>6. answer \subseteq right
  BY <1>3 DEF Nearest
<1>7. Cardinality(answer) < k => answer = right
  BY <1>3, <1>5, CutIsFull
<1>8. \A x \in answer, y \in right \ answer : rank[x] >= rank[y]
  BY <1>3, <1>5, CutKeepsNearest
<1> QED BY <1>2, <1>3, <1>6, <1>7, <1>8 DEF Exact, similarity_search

LEMMA MemInvSuffices == MemInv => MemorySound
<1> SUFFICES ASSUME MemInv PROVE MemorySound
  OBVIOUS
<1> USE DEF MemInv
<1>1. \A s : GoodStore(s) => \A i \in DOMAIN s : s[i] \in RecSet
  BY ElementOfSeq, LenProperties DEF GoodStore
<1>2. ASSUME NEW s, GoodStore(s) PROVE StoreOK(s) /\ Grounded(s)
  <2>1. \A i \in DOMAIN s : s[i].id.kind \in Kinds /\ s[i].conf \in 0..1000
    BY <1>1, <1>2 DEF RecSet, IdSet
  <2>2. \A i, j \in DOMAIN s : Vector(s[i]) = Vector(s[j]) => Text(s[i].id) = Text(s[j].id)
    BY DEF Vector
  <2> QED BY <1>2, <2>1, <2>2 DEF GoodStore, Unique, Led, StoreOK, Grounded
<1>3. /\ objects \in Seq(Seq(RecSet)) /\ Len(objects) \in Nat /\ DOMAIN objects = 1..Len(objects)
      /\ services \in Nat /\ services <= Len(objects)
  BY LenProperties DEF MemTypes
<1>4. MemTypeOK
  <2>1. services \in 0..Len(objects)
    BY <1>3
  <2>2. \A t \in Threads : thread[t].pc \in {"idle", "built", "ready", "change", "dump", "open", "write"}
    BY DEF MemTypes, ThreadSet
  <2> QED BY <1>2, <2>1, <2>2 DEF MemTypeOK, MemTypes, StoresOK
<1>5. ThreatHasEvidence
  BY <1>2 DEF ThreatHasEvidence, StoresOK
<1>6. SnapshotFollowsStore
  <2> SUFFICES ASSUME ~overlapped, services # 0, \A t \in Threads : thread[t].pc \in {"idle", "ready", "change"}
               PROVE memFile.says = objects[services]
    BY DEF SnapshotFollowsStore
  <2>1. Len(objects) <= 1 /\ services = Len(objects) /\ (Len(objects) = 1 => objects[1] = memFile.says)
    BY DEF Alone, OneStore, Snapshotting
  <2> QED BY <1>3, <2>1
<1>7. VerdictSticks
  <2> SUFFICES ASSUME ~overlapped, \A t \in Threads : thread[t].pc \notin {"dump", "open", "write"},
                      NEW i \in DOMAIN objects, NEW j \in DOMAIN objects[i]
               PROVE Kept(objects[i][j])
    BY DEF VerdictSticks, Kept
  <2>1. Len(objects) <= 1 /\ (Len(objects) = 1 => objects[1] = memFile.says)
        /\ \A k \in DOMAIN memFile.says : Kept(memFile.says[k])
    BY DEF Alone, OneStore, VerdictsKept, Snapshotting
  <2>2. i = 1 /\ Len(objects) = 1
    BY <1>3, <2>1
  <2> QED BY <2>1, <2>2
<1>8. DeduplicateKeepsOne
  <2>1. ASSUME NEW i \in DOMAIN objects, NEW j \in DOMAIN objects[i] PROVE OneLeft(objects[i], j)
    <3>1. objects[i] \in Seq(RecSet)
      BY <1>3, ElementOfSeq
    <3> QED BY <3>1, FirstIsLeft
  <2> QED BY <2>1, Zenon DEF DeduplicateKeepsOne, OneLeft
<1>9. SearchIsExact
  <2>1. ASSUME NEW t \in Threads, thread[t].pc = "ready",
               NEW rank \in [DOMAIN Used(t) -> 0..1], NEW k \in 1..2,
               NEW kind \in {"any", "threat"}, NEW least \in {0, 300}
        PROVE  Exact(Used(t), rank, k, kind, least)
    <3>1. thread[t].store \in DOMAIN objects
      BY <2>1 DEF RequestOK, Busy
    <3>2. Used(t) \in Seq(RecSet) /\ k \in Nat
      BY <1>3, <3>1, ElementOfSeq DEF Used
    <3> QED BY <3>2, SearchCuts
  <2>2. SearchIsExact <=>
          \A t \in {x \in Threads : thread[x].pc = "ready"} :
            \A rank \in [DOMAIN Used(t) -> 0..1], k \in 1..2, kind \in {"any", "threat"}, least \in {0, 300} :
              Exact(Used(t), rank, k, kind, least)
    BY DEF SearchIsExact, Exact
  <2> QED BY <2>1, <2>2
<1> QED BY <1>4, <1>5, <1>6, <1>7, <1>8, <1>9 DEF MemorySound, MemoryDurable, MemoryExact

\* For any threads, cases and number of requests and of crashes: no store and no
\* snapshot has an identifier twice or a threat without its evidence, however
\* requests overlap; while none overlap the snapshot follows the store and an
\* analyst's verdict sticks, over crashes too; and a search and a deduplication
\* of any store answer exactly.
THEOREM MemoryCorrect == MemSpec => []MemorySound
<1>1. MemSpec => []MemInv
  BY MemInitInv, MemStepInv, PTL DEF MemSpec
<1> QED BY <1>1, MemInvSuffices, PTL

-----------------------------------------------------------------------------
(***************************************************************************)
(* One process that reads its audit log and is not asked again within the  *)
(* second: a VERIFIED row is then the only latest one of its key, and a    *)
(* dispatch is under way only for a key that has none.                     *)
(***************************************************************************)
Alike == (\A v, w \in Workers : v = w) /\ RetryGap # 0 /\ ReadsMayFail = FALSE

VerifiedIsLast ==
  \A r, o \in audit : r.status = "VERIFIED" /\ o.key = r.key => o = r \/ o.at < r.at
UnderWayIsOpen ==
  \A w \in Workers : call[w] # NoCall =>
    \A r \in audit : r.key = call[w].req.key => r.at < now /\ r.status # "VERIFIED"
OnceInv == TypeOK /\ VerifiedIsLast /\ UnderWayIsOpen

NotAgain ==
  \A k \in Keys : (\E r \in audit : r.key = k /\ r.status = "VERIFIED" /\ ~r.dry) => executed'[k] = executed[k]

LEMMA OnceStep ==
  ASSUME Alike, OnceInv, [Next]_vars
  PROVE  (VerifiedIsLast /\ UnderWayIsOpen)' /\ NotAgain
<1> USE DEF OnceInv
<1>1. now \in Nat /\ \A r \in audit : r.at \in Nat
  BY BoundAssumption DEF TypeOK
<1>2. ASSUME NEW w \in Workers, UNCHANGED <<now, audit>>,
             call' = [call EXCEPT ![w] = NoCall] \/ (call[w] # NoCall /\ call'[w].req = call[w].req
                                                     /\ \A v \in Workers : v # w => call'[v] = call[v]),
             executed' = executed \/ (call[w] # NoCall /\ \A k \in Keys : k # call[w].req.key => executed'[k] = executed[k])
      PROVE  (VerifiedIsLast /\ UnderWayIsOpen)' /\ NotAgain
  <2>1. VerifiedIsLast'
    BY <1>2 DEF VerifiedIsLast
  <2>2. UnderWayIsOpen'
    BY <1>2 DEF UnderWayIsOpen, TypeOK
  <2>3. NotAgain
    BY <1>2 DEF NotAgain, UnderWayIsOpen
  <2> QED BY <2>1, <2>2, <2>3
<1>3. CASE Tick
  BY <1>1, <1>3 DEF Tick, VerifiedIsLast, UnderWayIsOpen, NotAgain
<1>4. ASSUME NEW w \in Workers, Execute(w) PROVE (VerifiedIsLast /\ UnderWayIsOpen)' /\ NotAgain
  <2>1. call[w] # NoCall /\ call'[w].req = call[w].req /\ \A v \in Workers : v # w => call'[v] = call[v]
    BY <1>4 DEF Execute, TypeOK, Saving, NoCall
  <2>2. \A k \in Keys : k # call[w].req.key => executed'[k] = executed[k]
    BY <1>4 DEF Execute, TypeOK
  <2> QED BY <1>2, <1>4, <2>1, <2>2 DEF Execute
<1>5. ASSUME NEW w \in Workers, Raise(w) PROVE (VerifiedIsLast /\ UnderWayIsOpen)' /\ NotAgain
  <2>1. \A k \in Keys : k # call[w].req.key => executed'[k] = executed[k]
    BY <1>5 DEF Raise, TypeOK
  <2> QED BY <1>2, <1>5, <2>1 DEF Raise
<1>6. ASSUME NEW w \in Workers, Crash(w) PROVE (VerifiedIsLast /\ UnderWayIsOpen)' /\ NotAgain
  BY <1>2, <1>6 DEF Crash
<1>7. ASSUME NEW w \in Workers, Save(w) PROVE (VerifiedIsLast /\ UnderWayIsOpen)' /\ NotAgain
  <2>1. PICK n : n = [key |-> call[w].req.key, status |-> call[w].status, dry |-> call[w].req.dry, at |-> now]
    OBVIOUS
  <2>2. audit' = audit \cup {n} /\ n.key = call[w].req.key /\ n.at = now /\ UNCHANGED <<now, executed>>
    BY <1>7, <2>1 DEF Save
  <2>3. \A r \in audit : r.key = n.key => r.at < n.at /\ r.status # "VERIFIED"
    BY <1>7, <2>2 DEF Save, UnderWayIsOpen, NoCall
  <2>4. VerifiedIsLast'
    BY <1>1, <2>2, <2>3 DEF VerifiedIsLast
  <2>5. \A v \in Workers : call'[v] = NoCall
    BY <1>7 DEF Save, Alike, TypeOK
  <2> QED BY <2>2, <2>4, <2>5 DEF UnderWayIsOpen, NotAgain
<1>8. ASSUME NEW w \in Workers, NEW req \in Requests, ReturnCached(w, req)
      PROVE  (VerifiedIsLast /\ UnderWayIsOpen)' /\ NotAgain
  BY <1>8 DEF ReturnCached, VerifiedIsLast, UnderWayIsOpen, NotAgain
<1>9. ASSUME NEW w \in Workers, NEW req \in Requests, Evaluate(w, req)
      PROVE  (VerifiedIsLast /\ UnderWayIsOpen)' /\ NotAgain
  <2>1. UNCHANGED <<now, audit, executed>> /\ Spaced(req.key)
        /\ (LatestRows(req.key) = {} \/ \E r \in LatestRows(req.key) : ~Cached(r))
    BY <1>9 DEF Evaluate, Alike
  <2>2. ASSUME NEW r \in audit, r.key = req.key PROVE r.at < now
    BY <1>1, <2>1, <2>2, BoundAssumption DEF Spaced, Alike
  <2>3. ASSUME NEW r \in audit, r.key = req.key, r.status = "VERIFIED" PROVE FALSE
    <3>1. \A o \in audit : o.key = req.key => o = r \/ o.at < r.at
      BY <2>3 DEF VerifiedIsLast
    <3>2. r \in LatestRows(req.key)
      BY <1>1, <2>3, <3>1 DEF LatestRows
    <3>3. PICK o \in LatestRows(req.key) : ~Cached(o)
      BY <2>1, <3>2
    <3>4. o \in audit /\ o.key = req.key /\ r.at <= o.at
      BY <2>3, <3>3 DEF LatestRows
    <3>5. o = r
      BY <1>1, <3>1, <3>4
    <3> QED BY <2>3, <3>3, <3>5 DEF Cached
  <2>4. \A v \in Workers : v = w /\ call'[v].req = req
    BY <1>9 DEF Evaluate, Alike, TypeOK, Executing, Saving
  <2>5. VerifiedIsLast'
    BY <2>1 DEF VerifiedIsLast
  <2>6. UnderWayIsOpen'
    BY <2>1, <2>2, <2>3, <2>4 DEF UnderWayIsOpen
  <2> QED BY <2>1, <2>5, <2>6 DEF NotAgain
<1>10. CASE UNCHANGED vars
  BY <1>10 DEF vars, VerifiedIsLast, UnderWayIsOpen, NotAgain
<1> QED BY <1>3, <1>4, <1>5, <1>6, <1>7, <1>8, <1>9, <1>10 DEF Next

\* One process, which can read its log and is given a key again only in a later
\* second, never carries an action out again that the log shows as carried out
\* and verified, for any keys, requests and failures.  None of the three
\* hypotheses can be dropped: the look-up and the save are two steps, a read that
\* raises counts as no row, and two rows of one second come in any order.
THEOREM ReexecutionCorrect ==
  ASSUME \A v, w \in Workers : v = w, RetryGap # 0, ReadsMayFail = FALSE
  PROVE  Spec => ReexecutionPrevented
<1>1. Alike
  BY DEF Alike
<1>2. Init => VerifiedIsLast /\ UnderWayIsOpen
  BY DEF Init, VerifiedIsLast, UnderWayIsOpen
<1>3. TypeOK /\ VerifiedIsLast /\ UnderWayIsOpen /\ [Next]_vars => (VerifiedIsLast /\ UnderWayIsOpen)' /\ [NotAgain]_vars
  BY <1>1, OnceStep DEF OnceInv
<1>4. ReexecutionPrevented <=> [][NotAgain]_vars
  BY PTL DEF ReexecutionPrevented, NotAgain
<1> QED BY <1>2, <1>3, <1>4, TypeCorrect, PTL DEF Spec
=============================================================================
