------------------------------ MODULE Sessions ------------------------------
(***************************************************************************)
(* Sessions and permissions (security/): login, rotation of the refresh    *)
(* token, logout, and the check of an access token at a request.  Tokens   *)
(* carry what was true when they were made; what changes afterwards (the   *)
(* user's role and status, the revocations, the signing key at a restart)  *)
(* is state of the server.  Signatures are taken as unforgeable: a token   *)
(* is one of those issued.                                                 *)
(***************************************************************************)
EXTENDS Naturals, Sequences, FiniteSets

CONSTANTS
  Users,        \* user -> tenant
  Resources,    \* the tenants whose resources are asked for
  AccessTtl,    \* access_token_expire_minutes
  RefreshTtl,   \* refresh_token_expire_days
  MaxTokens,    \* bound on the tokens issued
  MaxChangesOfUsers, \* bound on the changes an administrator makes
  MaxRestarts,
  MaxSessionTime

ASSUME SessionAssumption == AccessTtl \in Nat /\ RefreshTtl \in Nat

VARIABLES
  sclock,
  account,     \* user -> [role, status]
  tokens,      \* those issued: [type, user, role, iat, exp, key, login, from]
  revoked,     \* _revoked_jtis; a jti is the token's number
  keyEpoch,    \* which RSA key pair signs
  edits,
  ended,       \* tokens that were revoked at some time (history)
  passed       \* {} or the request the last step let through (history)

sessionVars == <<sclock, account, tokens, revoked, keyEpoch, edits, ended, passed>>

Roles == {"SUPER_ADMIN", "ADMIN", "ANALYST", "AUDITOR"}
\* ROLE_PERMISSIONS_MAP
Permissions ==
  LET read == {"READ_INCIDENT", "VIEW_AUDIT"}
      all == read \cup {"REMEDIATE_INCIDENT", "MANAGE_POLICY", "MANAGE_USERS"} IN
  [SUPER_ADMIN |-> all, ADMIN |-> all, ANALYST |-> read \cup {"REMEDIATE_INCIDENT"}, AUDITOR |-> read]

SessionInit ==
  /\ sclock = 0 /\ tokens = <<>> /\ revoked = {} /\ keyEpoch = 0 /\ edits = 0
  /\ account \in [DOMAIN Users -> [role : {"SUPER_ADMIN", "ANALYST"}, status : {"ACTIVE"}]]
  /\ ended = {} /\ passed = {}

\* create_token_pair: the access token and then the refresh token.
Pair(u, role, login, from) ==
  LET tok(type, ttl) == [type |-> type, user |-> u, role |-> role, iat |-> sclock,
                         exp |-> sclock + ttl, key |-> keyEpoch, login |-> login, from |-> from] IN
  <<tok("access", AccessTtl), tok("refresh", RefreshTtl)>>

\* Mutant: the revocations are looked at for refresh tokens only.
DecodesRevoked(n, type) ==
  /\ tokens[n].key = keyEpoch /\ sclock < tokens[n].exp /\ tokens[n].type = type
  /\ type = "refresh" => n \notin revoked

\* decode_token: signature, expiry, type and revocation.
Decodes(n, type) ==
  /\ tokens[n].key = keyEpoch /\ sclock < tokens[n].exp /\ tokens[n].type = type
  /\ n \notin revoked

\* Mutant: the status is not looked at.
LoginAnyStatus(u) ==
  /\ Len(tokens) + 2 <= MaxTokens
  /\ tokens' = tokens \o Pair(u, account[u].role, Len(tokens) + 1, 0)
  /\ UNCHANGED <<sclock, account, revoked, keyEpoch, edits, ended>>
  /\ passed' = {}

\* authenticate_credentials with the right password, of a user who is neither
\* suspended nor locked.
login(u) ==
  /\ Len(tokens) + 2 <= MaxTokens
  /\ account[u].status = "ACTIVE"
  /\ tokens' = tokens \o Pair(u, account[u].role, Len(tokens) + 1, 0)
  /\ UNCHANGED <<sclock, account, revoked, keyEpoch, edits, ended>>
  /\ passed' = {}

\* Mutant: what is revoked is the token issued last.
RevokeOther(n) == revoked' = revoked \cup {Len(tokens) + 1} /\ ended' = ended \cup {Len(tokens) + 1}

Revoke(n) == revoked' = revoked \cup {n} /\ ended' = ended \cup {n}

\* refresh_session: the token is revoked and a pair made from its claims, without
\* a look at the user.
refresh_session(n) ==
  /\ Len(tokens) + 2 <= MaxTokens
  /\ Decodes(n, "refresh")
  /\ Revoke(n)
  /\ tokens' = tokens \o Pair(tokens[n].user, tokens[n].role, tokens[n].login, n)
  /\ UNCHANGED <<sclock, account, keyEpoch, edits>>
  /\ passed' = {}

\* logout ends the access token it is called with, and nothing else.
logout(n) ==
  /\ Decodes(n, "access")
  /\ Revoke(n)
  /\ UNCHANGED <<sclock, account, tokens, keyEpoch, edits>>
  /\ passed' = {}

\* Mutant: nobody is held to a tenant.
InTenantAny(n, tenant) == TRUE

\* verify_tenant_isolation
InTenant(n, tenant) == tokens[n].role = "SUPER_ADMIN" \/ Users[tokens[n].user] = tenant

\* get_current_user, require_permission and verify_tenant_access at a request
AuthorizeRequest(n, permission, tenant) ==
  /\ Decodes(n, "access")
  /\ permission \in Permissions[tokens[n].role]
  /\ InTenant(n, tenant)
  /\ passed' = {[token |-> n, permission |-> permission, tenant |-> tenant]}
  /\ UNCHANGED <<sclock, account, tokens, revoked, keyEpoch, edits, ended>>

\* An administrator changes a role, or locks a user.
ChangeUser(u, r, s) ==
  /\ edits < MaxChangesOfUsers /\ edits' = edits + 1
  /\ [role |-> r, status |-> s] # account[u]
  /\ account' = [account EXCEPT ![u] = [role |-> r, status |-> s]]
  /\ UNCHANGED <<sclock, tokens, revoked, keyEpoch, ended>>
  /\ passed' = {}

\* Mutant: the key pair survives the restart, the revocations do not.
RestartWithKeys ==
  /\ keyEpoch < MaxRestarts
  /\ revoked' = {}
  /\ UNCHANGED <<sclock, account, tokens, keyEpoch, edits, ended>>
  /\ passed' = {}

\* IAMModule.initialize: an ephemeral key pair and an empty store of revocations.
IamRestart ==
  /\ keyEpoch < MaxRestarts /\ keyEpoch' = keyEpoch + 1
  /\ revoked' = {}
  /\ UNCHANGED <<sclock, account, tokens, edits, ended>>
  /\ passed' = {}

SessionTick ==
  /\ sclock < MaxSessionTime /\ sclock' = sclock + 1
  /\ UNCHANGED <<account, tokens, revoked, keyEpoch, edits, ended>>
  /\ passed' = {}

SessionNext ==
  \/ IamRestart \/ SessionTick
  \/ \E u \in DOMAIN Users : login(u) \/ \E r \in Roles, s \in {"ACTIVE", "LOCKED"} : ChangeUser(u, r, s)
  \/ \E n \in DOMAIN tokens :
       \/ refresh_session(n) \/ logout(n)
       \/ \E p \in {"READ_INCIDENT", "MANAGE_POLICY"}, t \in Resources : AuthorizeRequest(n, p, t)

SessionSpec == SessionInit /\ [][SessionNext]_sessionVars

-----------------------------------------------------------------------------
SessionTypeOK ==
  /\ revoked \subseteq ended /\ ended \subseteq DOMAIN tokens
  /\ \A n \in DOMAIN tokens :
       /\ tokens[n].type \in {"access", "refresh"} /\ tokens[n].role \in Roles
       /\ tokens[n].key <= keyEpoch /\ tokens[n].from < n
  /\ \A q \in passed : q.token \in DOMAIN tokens

(***************************************************************************)
(* A token that has ended stays ended: no request is let through on one    *)
(* that was logged out before, not even after a restart has forgotten the  *)
(* revocations.                                                            *)
(***************************************************************************)
EndedTokensStayEnded == \A q \in passed : q.token \notin ended

(***************************************************************************)
(* A login has at most one refresh token that is good at any time, and no  *)
(* refresh token was ever exchanged twice.                                 *)
(***************************************************************************)
OneRefreshTokenPerLogin ==
  /\ \A m, n \in DOMAIN tokens :
       Decodes(m, "refresh") /\ Decodes(n, "refresh") /\ tokens[m].login = tokens[n].login => m = n
  /\ \A m, n \in DOMAIN tokens :
       tokens[m].from # 0 /\ tokens[m].from = tokens[n].from /\ tokens[m].type = tokens[n].type => m = n

(***************************************************************************)
(* Who acts outside the own tenant or with a permission of an              *)
(* administrator had the role for it at the login the token goes back to.  *)
(* A demotion since then does not matter to it, however often the session  *)
(* is refreshed.                                                           *)
(***************************************************************************)
GrantsGoBackToLogin ==
  \A q \in passed :
    LET first == tokens[tokens[q.token].login] IN
    /\ first.user = tokens[q.token].user
    /\ q.permission \in Permissions[first.role]
    /\ first.role # "SUPER_ADMIN" => q.tenant = Users[first.user]

(***************************************************************************)
(* A locked user gets in only with a session from before the lock, and     *)
(* with it for as long as it is refreshed: no login of a locked user.      *)
(***************************************************************************)
LockStopsLogins ==
  [][ \A n \in DOMAIN tokens' \ DOMAIN tokens :
        account[tokens'[n].user].status = "LOCKED" =>
          tokens'[n].from # 0 /\ tokens'[n].login < Len(tokens) ]_sessionVars

\* Sessions over rotations, revocations, restarts and changes of users: an ended
\* token stays ended, a login has one live refresh token, every grant goes back
\* to a login, and a locked user does not log in.
SessionsSafe ==
  [](SessionTypeOK /\ EndedTokensStayEnded /\ OneRefreshTokenPerLogin /\ GrantsGoBackToLogin) /\ LockStopsLogins
=============================================================================
