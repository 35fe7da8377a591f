----------------------------- MODULE ApiDatabase -----------------------------
(***************************************************************************)
(* The endpoints of api/main.py over the relational database: demo tokens, *)
(* logins with their lock-out, users, investigations with their metrics    *)
(* and audit entries; the operator's API keys and deletions; and the       *)
(* migrator, which reads the tables one after the other and checks every   *)
(* reference.  Every endpoint is served by a thread of its own and every   *)
(* repository method is a transaction of its own, so endpoints interleave  *)
(* between any two of them.  SQLite enforces the foreign keys.             *)
(***************************************************************************)
EXTENDS Naturals, FiniteSets, Sequences, Dict

CONSTANTS
  Http,             \* threads that serve endpoints
  Names,            \* users that may be created
  KeyIds,           \* API keys that may be created
  MaxFails,         \* wrong passwords that lock an account (5)
  LockTime,         \* how long it stays locked (15 minutes)
  MaxInvestigations, MaxLogins, MaxDeletions, MaxApiTime, MaxCalls   \* bounds

ASSUME LockAssumption ==
  MaxFails \in Nat \ {0} /\ LockTime \in Nat /\ MaxLogins \in Nat /\ MaxApiTime \in Nat \ {0}

VARIABLES
  orgs,             \* the table organizations
  users,            \* users: id -> [org, fails, lock]; lock 0 is NULL
  apiKeys,          \* api_keys: id -> [org, role, active]
  auditLog,         \* audit_logs, in order: [org, user, action, of]
  invs,             \* investigations: id -> [org, verdict]
  metrics,          \* planner_metrics: [org, investigation]
  issuedTokens,     \* the tokens that were issued: [user, org]
  http,             \* thread -> where it is and what it holds
  mig,              \* the migrator
  apiClock,
  spent,            \* how often the bounded operations were called
  wrong,            \* user -> [n, at]: wrong passwords in a row, the last when (history)
  raced,            \* a login met another, or a deletion, of its user (history)
  touched, grew     \* rows were written, were added, since the migration began (history)

tables == <<orgs, users, apiKeys, auditLog, invs, metrics>>
apiVars == <<tables, issuedTokens, http, mig, apiClock, spent, wrong, raced, touched, grew>>

DemoOrg == "demo"
DemoUser == "analyst_demo"
None == "none"
Idle == [pc |-> "idle", who |-> None, org |-> None, by |-> None, fails |-> 0, inv |-> 0, act |-> None]
Ready == [at |-> 0, orgs |-> {}, users |-> {}, invs |-> {}, counts |-> <<>>, result |-> None]

ApiInit ==
  /\ orgs = {} /\ users = EmptyDict /\ apiKeys = EmptyDict
  /\ auditLog = <<>> /\ invs = EmptyDict /\ metrics = {}
  /\ issuedTokens = {} /\ http = [h \in Http |-> Idle] /\ mig = Ready
  /\ apiClock = 1 /\ spent = [logins |-> 0, deletions |-> 0, calls |-> 0]
  /\ wrong = EmptyDict /\ raced = FALSE /\ touched = FALSE /\ grew = FALSE

At(h, pc) == http[h].pc = pc
To(h, new) == http' = [http EXCEPT ![h] = new]
Ends(h, how) == To(h, [http[h] EXCEPT !.pc = how])

\* A transaction that adds rows, one that only changes or removes them, none.
Adds == touched' = TRUE /\ grew' = TRUE
Changes == touched' = TRUE /\ UNCHANGED grew
Reads == UNCHANGED <<tables, touched, grew>>
Still == UNCHANGED <<mig, apiClock, wrong, raced>>

Called == spent.calls < MaxCalls /\ spent' = [spent EXCEPT !.calls = @ + 1]

(* POST /auth/demo-token **************************************************)
DemoStart(h) ==
  /\ At(h, "idle") /\ Called
  /\ To(h, [Idle EXCEPT !.pc = IF DemoOrg \in orgs THEN "demo_user" ELSE "demo_org"])
  /\ Reads /\ Still /\ UNCHANGED issuedTokens

DemoCreateOrg(h) ==
  /\ At(h, "demo_org")
  /\ \/ DemoOrg \in orgs /\ Ends(h, "failed") /\ Reads     \* UNIQUE constraint
     \/ /\ DemoOrg \notin orgs /\ orgs' = orgs \cup {DemoOrg}
        /\ Ends(h, "demo_user") /\ Adds /\ UNCHANGED <<users, apiKeys, auditLog, invs, metrics>>
  /\ Still /\ UNCHANGED <<issuedTokens, spent>>

Issue(user) == issuedTokens' = issuedTokens \cup {[user |-> user, org |-> users'[user].org]}
NewUser(org) == [org |-> org, fails |-> 0, lock |-> 0]

DemoReadUser(h) ==
  /\ At(h, "demo_user")
  /\ \/ DemoUser \in DOMAIN users /\ Reads /\ Issue(DemoUser) /\ Ends(h, "answered")
     \/ DemoUser \notin DOMAIN users /\ Reads /\ UNCHANGED issuedTokens /\ Ends(h, "demo_create")
  /\ Still /\ UNCHANGED spent

DemoCreateUser(h) ==
  /\ At(h, "demo_create")
  /\ \/ DemoUser \in DOMAIN users /\ Ends(h, "failed") /\ Reads /\ UNCHANGED issuedTokens
     \/ /\ DemoUser \notin DOMAIN users
        /\ users' = Put(users, DemoUser, NewUser(DemoOrg))
        /\ Issue(DemoUser) /\ Ends(h, "answered")
        /\ Adds /\ UNCHANGED <<orgs, apiKeys, auditLog, invs, metrics>>
  /\ Still /\ UNCHANGED spent

(* POST /auth/login *******************************************************)
LoggingIn(h) == At(h, "verify")

LoginRead(h, u) ==
  /\ At(h, "idle") /\ spent.logins < MaxLogins
  /\ spent' = [spent EXCEPT !.logins = @ + 1]
  /\ IF u \in DOMAIN users /\ apiClock >= users[u].lock
     THEN To(h, [Idle EXCEPT !.pc = "verify", !.who = u, !.fails = users[u].fails])
     ELSE To(h, [Idle EXCEPT !.pc = "refused"])
  /\ raced' = (raced \/ \E g \in Http \ {h} : LoggingIn(g) /\ http[g].who = u)
  /\ Reads /\ UNCHANGED <<issuedTokens, mig, apiClock, wrong>>

\* UPDATE users of a user that was deleted meanwhile changes nothing.
UpdateUser(u, fails, lock) ==
  users' = IF u \in DOMAIN users THEN Put(users, u, [users[u] EXCEPT !.fails = fails, !.lock = lock]) ELSE users

WrongCount(u) == Get(wrong, u, [n |-> 0, at |-> 0]).n

\* Mutant: the sixth wrong password locks the account.
LoginWrongLate(h) ==
  /\ LoggingIn(h)
  /\ LET x == http[h] IN
       /\ UpdateUser(x.who, x.fails + 1, IF x.fails + 1 > MaxFails THEN apiClock + LockTime ELSE 0)
       /\ wrong' = Put(wrong, x.who, [n |-> WrongCount(x.who) + 1, at |-> apiClock])
  /\ Ends(h, "refused") /\ Changes
  /\ UNCHANGED <<orgs, apiKeys, auditLog, invs, metrics, issuedTokens, mig, apiClock, spent, raced>>

LoginWrong(h) ==
  /\ LoggingIn(h)
  /\ LET x == http[h] IN
       /\ UpdateUser(x.who, x.fails + 1, IF x.fails + 1 >= MaxFails THEN apiClock + LockTime ELSE 0)
       /\ wrong' = Put(wrong, x.who, [n |-> WrongCount(x.who) + 1, at |-> apiClock])
  /\ Ends(h, "refused") /\ Changes
  /\ UNCHANGED <<orgs, apiKeys, auditLog, invs, metrics, issuedTokens, mig, apiClock, spent, raced>>

\* The counters are reset; then the refresh token is made with a lifetime that
\* is no timedelta, which raises: no token, no audit entry, status 500.
LoginRight(h) ==
  /\ LoggingIn(h)
  /\ UpdateUser(http[h].who, 0, 0)
  /\ wrong' = Put(wrong, http[h].who, [n |-> 0, at |-> apiClock])
  /\ Ends(h, "failed") /\ Changes
  /\ UNCHANGED <<orgs, apiKeys, auditLog, invs, metrics, issuedTokens, mig, apiClock, spent, raced>>

(* Endpoints that need an identity ****************************************)
\* get_auth_context and require_permission: a token, whose user is not looked
\* up again, or an active key whose role has the permission.
ByToken(t) == [Idle EXCEPT !.who = t.user, !.org = t.org, !.by = "token"]
ByKey(k) == [Idle EXCEPT !.who = k, !.org = apiKeys[k].org, !.by = "key"]
Callers ==
  {ByToken(t) : t \in issuedTokens}
    \cup {ByKey(k) : k \in {x \in DOMAIN apiKeys : apiKeys[x].active /\ apiKeys[x].role = "analyst"}}

CreateUser(h, caller, u) ==
  /\ At(h, "idle") /\ caller.by = "token" /\ Called
  /\ \/ u \in DOMAIN users /\ To(h, [caller EXCEPT !.pc = "failed"]) /\ Reads
     \/ /\ u \notin DOMAIN users /\ users' = Put(users, u, NewUser(caller.org))
        /\ To(h, [caller EXCEPT !.pc = "audit", !.act = "user_created"])
        /\ Adds /\ UNCHANGED <<orgs, apiKeys, auditLog, invs, metrics>>
  /\ wrong' = IF u \in DOMAIN users THEN wrong ELSE Drop(wrong, {u})
  /\ UNCHANGED <<issuedTokens, mig, apiClock, raced>>

\* POST /investigate, up to the end of the learning: the investigation may fail.
Investigate(h, caller) ==
  /\ At(h, "idle") /\ Called
  /\ \E pc \in {"save", "failed"} : To(h, [caller EXCEPT !.pc = pc, !.act = "investigation_completed"])
  /\ Reads /\ Still /\ UNCHANGED issuedTokens

SaveInvestigation(h) ==
  /\ At(h, "save") /\ Cardinality(DOMAIN invs) < MaxInvestigations
  /\ LET i == Cardinality(DOMAIN invs) + 1 IN
       /\ invs' = Put(invs, i, [org |-> http[h].org])
       /\ To(h, [http[h] EXCEPT !.pc = "metrics", !.inv = i])
  /\ Adds /\ Still /\ UNCHANGED <<orgs, users, apiKeys, auditLog, metrics, issuedTokens, spent>>

SaveMetrics(h) ==
  /\ At(h, "metrics")
  /\ metrics' = metrics \cup {[org |-> http[h].org, investigation |-> http[h].inv]}
  /\ Ends(h, "audit")
  /\ Adds /\ Still /\ UNCHANGED <<orgs, users, apiKeys, auditLog, invs, issuedTokens, spent>>

Entry(h) == [org |-> http[h].org, user |-> http[h].who, action |-> http[h].act, of |-> http[h].inv]

\* AuditLogRepository.log: the entry's user_id must be a user's.
Audit(h) ==
  /\ At(h, "audit")
  /\ \/ /\ http[h].who \in DOMAIN users
        /\ auditLog' = Append(auditLog, Entry(h)) /\ Ends(h, "answered")
        /\ Adds /\ UNCHANGED <<orgs, users, apiKeys, invs, metrics>>
     \/ http[h].who \notin DOMAIN users /\ Ends(h, "failed") /\ Reads
  /\ Still /\ UNCHANGED <<issuedTokens, spent>>

Return(h) ==
  /\ http[h].pc \in {"answered", "refused", "failed"} /\ To(h, Idle)
  /\ Reads /\ Still /\ UNCHANGED <<issuedTokens, spent>>

(* Operators **************************************************************)
CreateKey(k, role) ==
  /\ k \notin DOMAIN apiKeys /\ DemoOrg \in orgs
  /\ apiKeys' = Put(apiKeys, k, [org |-> DemoOrg, role |-> role, active |-> TRUE])
  /\ Adds /\ Still /\ UNCHANGED <<orgs, users, auditLog, invs, metrics, issuedTokens, http, spent>>

DeactivateKey(k) ==
  /\ k \in DOMAIN apiKeys /\ apiKeys[k].active
  /\ apiKeys' = [apiKeys EXCEPT ![k].active = FALSE]
  /\ Changes /\ Still /\ UNCHANGED <<orgs, users, auditLog, invs, metrics, issuedTokens, http, spent>>

\* Mutant: a connection on which foreign keys are not enforced.
DeleteUserOnly(u) ==
  /\ u \in DOMAIN users /\ spent.deletions < MaxDeletions
  /\ spent' = [spent EXCEPT !.deletions = @ + 1]
  /\ users' = Drop(users, {u})
  /\ wrong' = Drop(wrong, {u})
  /\ Changes /\ UNCHANGED <<orgs, apiKeys, auditLog, invs, metrics, issuedTokens, http, mig, apiClock, raced>>

\* ON DELETE SET NULL keeps the audit entries of a user who is deleted.
DeleteUser(u) ==
  /\ u \in DOMAIN users /\ spent.deletions < MaxDeletions
  /\ spent' = [spent EXCEPT !.deletions = @ + 1]
  /\ users' = Drop(users, {u})
  /\ auditLog' = [i \in DOMAIN auditLog |-> IF auditLog[i].user = u THEN [auditLog[i] EXCEPT !.user = None] ELSE auditLog[i]]
  /\ wrong' = Drop(wrong, {u})
  /\ raced' = (raced \/ \E h \in Http : LoggingIn(h) /\ http[h].who = u)
  /\ Changes /\ UNCHANGED <<orgs, apiKeys, invs, metrics, issuedTokens, http, mig, apiClock>>

(* DatabaseMigrator.migrate_all_tables ************************************)
\* Mutant: the audit log is read before the users.
OrderAuditFirst == <<"organizations", "audit_logs", "users", "api_keys", "investigations", "planner_metrics">>

Order == <<"organizations", "users", "api_keys", "audit_logs", "investigations", "planner_metrics">>

OrgOK(o) == o = None \/ o \in mig.orgs
UserOK(u) == u = None \/ u \in mig.users

\* The rows of a table, and whether each one refers to rows that were read.
Rows(table) ==
  CASE table = "organizations" -> Cardinality(orgs)
    [] table = "users" -> Cardinality(DOMAIN users)
    [] table = "api_keys" -> Cardinality(DOMAIN apiKeys)
    [] table = "audit_logs" -> Len(auditLog)
    [] table = "investigations" -> Cardinality(DOMAIN invs)
    [] table = "planner_metrics" -> Cardinality(metrics)

Valid(table) ==
  CASE table = "organizations" -> TRUE
    [] table = "users" -> \A u \in DOMAIN users : users[u].org \in mig.orgs
    [] table = "api_keys" -> \A k \in DOMAIN apiKeys : OrgOK(apiKeys[k].org)
    [] table = "audit_logs" -> \A i \in DOMAIN auditLog : OrgOK(auditLog[i].org) /\ UserOK(auditLog[i].user)
    [] table = "investigations" -> \A i \in DOMAIN invs : invs[i].org \in mig.orgs
    [] table = "planner_metrics" -> \A m \in metrics : OrgOK(m.org) /\ m.investigation \in mig.invs

MigrateStart ==
  /\ mig.at = 0 /\ mig' = [Ready EXCEPT !.at = 1]
  /\ touched' = FALSE /\ grew' = FALSE
  /\ UNCHANGED <<tables, issuedTokens, http, apiClock, spent, wrong, raced>>

MigrateTable ==
  /\ mig.at \in DOMAIN Order
  /\ LET table == Order[mig.at] IN
       mig' = IF ~Valid(table) THEN [mig EXCEPT !.at = Len(Order) + 1, !.result = "failed"]
              ELSE [mig EXCEPT
                      !.at = @ + 1,
                      !.counts = Append(@, Rows(table)),
                      !.orgs = IF table = "organizations" THEN orgs ELSE @,
                      !.users = IF table = "users" THEN DOMAIN users ELSE @,
                      !.invs = IF table = "investigations" THEN DOMAIN invs ELSE @,
                      !.result = IF mig.at = Len(Order) THEN "done" ELSE @]
  /\ UNCHANGED <<tables, issuedTokens, http, apiClock, spent, wrong, raced, touched, grew>>

ApiTick ==
  /\ apiClock < MaxApiTime /\ apiClock' = apiClock + 1
  /\ UNCHANGED <<tables, issuedTokens, http, mig, spent, wrong, raced, touched, grew>>

DemoToken(h) == DemoStart(h) \/ DemoCreateOrg(h) \/ DemoReadUser(h) \/ DemoCreateUser(h)

\* Two parts, each with the endpoints that interact: logins, and stored data.
ServeLogin(h) ==
  \/ DemoToken(h) \/ Return(h)
  \/ \E u \in Names \cup {DemoUser} : LoginRead(h, u)
  \/ LoginWrong(h) \/ LoginRight(h)

ServeData(h) ==
  \/ DemoToken(h) \/ Return(h)
  \/ \E c \in Callers : Investigate(h, c) \/ \E u \in Names : CreateUser(h, c, u)
  \/ SaveInvestigation(h) \/ SaveMetrics(h) \/ Audit(h)

ApiNext(part) ==
  \/ \E u \in Names \cup {DemoUser} : DeleteUser(u)
  \/ /\ part = "login"
     /\ ApiTick \/ \E h \in Http : ServeLogin(h)
  \/ /\ part = "data"
     /\ \/ \E h \in Http : ServeData(h)
        \/ \E k \in KeyIds : DeactivateKey(k) \/ \E r \in {"analyst", "api_client"} : CreateKey(k, r)
        \/ MigrateStart \/ MigrateTable

ApiSpec == ApiInit /\ [][ApiNext("login") \/ ApiNext("data")]_apiVars

-----------------------------------------------------------------------------
(* Properties *************************************************************)
\* Type correctness.
ApiTypeOK ==
  /\ \A u \in DOMAIN users : users[u].fails \in 0..MaxLogins /\ users[u].lock \in 0..(MaxApiTime + LockTime)
  /\ \A h \in Http : http[h].pc \in
       {"idle", "demo_org", "demo_user", "demo_create", "verify", "save", "metrics", "audit",
        "answered", "refused", "failed"}
  /\ mig.at \in 0..(Len(Order) + 1) /\ mig.result \in {None, "done", "failed"}

\* No row refers to one that is gone, whoever is deleted between the
\* transactions of an endpoint: an audit entry outlives its user without him.
ReferencesHold ==
  /\ \A u \in DOMAIN users : users[u].org \in orgs
  /\ \A i \in DOMAIN auditLog : auditLog[i].user \in DOMAIN users \cup {None} /\ auditLog[i].org \in orgs
  /\ \A m \in metrics : m.investigation \in DOMAIN invs /\ invs[m.investigation].org = m.org

\* An investigation the caller was answered has its metrics and its audit entry,
\* and no audit entry reports one that has none: audit_repo.log comes last.
AnsweredIsAudited ==
  /\ \A h \in Http : At(h, "answered") /\ http[h].inv # 0 => \E i \in DOMAIN auditLog : auditLog[i].of = http[h].inv
  /\ \A i \in DOMAIN auditLog : auditLog[i].of # 0 => \E m \in metrics : m.investigation = auditLog[i].of

\* As long as no login overlapped another login or the deletion of its user, the counter is the number of
\* wrong passwords since the last right one, and from the MaxFails-th on each
\* locks the account for LockTime.  (The counter is read, and written back
\* after the password was hashed: overlapping attempts count as one.)
LockoutIsExact ==
  ~raced => \A u \in DOMAIN users \cap DOMAIN wrong :
    users[u] = [org |-> users[u].org, fails |-> wrong[u].n,
                lock |-> IF wrong[u].n >= MaxFails THEN wrong[u].at + LockTime ELSE 0]

\* A migration fails only if rows were added while it ran (it reads the tables
\* one by one, parents first, outside a transaction); deletions do not disturb
\* it.  When nothing was written it has counted every row.
MigrationIsFair ==
  /\ mig.result = "failed" => grew
  /\ (mig.result = "done" /\ ~touched) => mig.counts = [i \in DOMAIN Order |-> Rows(Order[i])]

\* The tables after any interleaving of endpoints, deletions and keys: every
\* reference leads to a row, what was answered was audited, and a migration of
\* them is fair.
TablesSound == ApiTypeOK /\ ReferencesHold /\ AnsweredIsAudited /\ MigrationIsFair
=============================================================================
