---------------------------- MODULE GmailAccount ----------------------------
(***************************************************************************)
(* GmailService: the OAuth tokens of the dashboard's Gmail account in one  *)
(* file, used by the plain (threaded) endpoints for the consent callback,  *)
(* the status, the last mails and the disconnection.  open(.., "w") empties *)
(* the file before the new tokens are written; nothing locks it.  Google   *)
(* issues an access token for a consent or for a refresh token, and a      *)
(* refresh token for a consent only.                                       *)
(***************************************************************************)
EXTENDS Naturals

CONSTANTS
  Visits,            \* requests under way
  MaxAccess,         \* bound on access tokens issued
  MaxGrants,         \* bound on consents
  MaxRemovals        \* bound on disconnections and crashes

ASSUME TokenAssumption == MaxAccess \in Nat /\ MaxGrants \in Nat

VARIABLES
  file,              \* the token file
  visits,            \* request -> its progress and the tokens it works with
  access,            \* access tokens issued so far
  grants,            \* refresh tokens issued so far
  live,              \* access tokens that Google still accepts
  removals,          \* disconnections and crashes so far
  wish,              \* ghost: the last consent, or 0 after a disconnection
  mixed              \* ghost: two changes of the file overlapped or one was cut off

accountVars == <<file, visits, access, grants, live, removals, wish, mixed>>

File(is, at, rt) == [is |-> is, at |-> at, rt |-> rt]
Absent == File("absent", 0, 0)

\* good: the access token that Google accepted or issued in this request.
Idle == [pc |-> "idle", at |-> 0, rt |-> 0, good |-> 0]

AccountInit ==
  /\ file = Absent /\ visits = [v \in Visits |-> Idle]
  /\ access = 0 /\ grants = 0 /\ live = {} /\ removals = 0 /\ wish = 0 /\ mixed = FALSE

\* A file that is missing or does not parse gives None.
load_tokens == IF file.is = "tokens" THEN file ELSE Absent

To(v, state) == visits' = [visits EXCEPT ![v] = state]
MayStart(v) == visits[v].pc \in {"idle", "answered"}

Writers == {v \in Visits : visits[v].pc \in {"refresh", "open", "write", "lost"}}
Readers == {v \in Visits : visits[v].pc = "check"}

\* exchange_code_for_tokens: Google answers with both tokens.
exchange_code_for_tokens(v) ==
  /\ MayStart(v) /\ access < MaxAccess /\ grants < MaxGrants
  /\ access' = access + 1 /\ grants' = grants + 1 /\ live' = live \cup {access + 1}
  /\ wish' = grants + 1 /\ mixed' = (mixed \/ Writers \cup Readers # {})
  /\ To(v, [pc |-> "open", at |-> access + 1, rt |-> grants + 1, good |-> access + 1])
  /\ UNCHANGED <<file, removals>>

\* get_valid_access_token, for the status or for the last mails.
get_valid_access_token(v) ==
  /\ MayStart(v) /\ load_tokens.at # 0
  /\ To(v, [Idle EXCEPT !.pc = "check", !.at = load_tokens.at, !.rt = load_tokens.rt])
  /\ UNCHANGED <<file, access, grants, live, removals, wish, mixed>>

\* userinfo accepts the token, refuses it, or does not answer, which ends the request.
Userinfo(v) ==
  /\ visits[v].pc = "check"
  /\ \/ /\ visits[v].at \in live
        /\ To(v, [visits[v] EXCEPT !.pc = "answered", !.good = visits[v].at])
        /\ UNCHANGED mixed
     \/ /\ visits[v].at \notin live /\ visits[v].rt # 0
        /\ To(v, [visits[v] EXCEPT !.pc = "refresh"])
        /\ mixed' = (mixed \/ Writers # {})
     \/ To(v, Idle) /\ UNCHANGED mixed
  /\ UNCHANGED <<file, access, grants, live, removals, wish>>

\* Mutant: the tokens of the file replace the new ones.
MergedOld(old, new) == IF old.at = 0 THEN new ELSE old

\* Mutant: only the new tokens are saved.
MergedNew(old, new) == new

\* existing.update(new_tokens): the answer has no refresh token.
Merged(old, new) == [new EXCEPT !.rt = old.rt]

\* refresh_access_token: Google answers, then the file is read again; or it refuses.
refresh_access_token(v) ==
  /\ visits[v].pc = "refresh"
  /\ \/ /\ access < MaxAccess
        /\ access' = access + 1 /\ live' = live \cup {access + 1}
        /\ LET data == Merged(load_tokens, File("tokens", access + 1, 0))
           IN To(v, [pc |-> "open", at |-> data.at, rt |-> data.rt, good |-> access + 1])
     \/ To(v, Idle) /\ UNCHANGED <<access, live>>
  /\ UNCHANGED <<file, grants, removals, wish, mixed>>

\* save_tokens, first part: the file is made or emptied.
OpenFile(v) ==
  /\ visits[v].pc = "open"
  /\ file' = File("empty", 0, 0)
  /\ To(v, [visits[v] EXCEPT !.pc = "write"])
  /\ UNCHANGED <<access, grants, live, removals, wish, mixed>>

\* save_tokens, second part: written over what another one wrote since, the file may
\* be left with a rest of it; a file that was removed takes the tokens with it.
save_tokens(v) ==
  /\ visits[v].pc \in {"write", "lost"}
  /\ LET data == File("tokens", visits[v].at, visits[v].rt)
     IN file' \in CASE visits[v].pc = "lost" -> {file}
                    [] file.is = "empty" -> {data}
                    [] OTHER -> {data, File("garbled", 0, 0)}
  /\ To(v, [visits[v] EXCEPT !.pc = "answered"])
  /\ UNCHANGED <<access, grants, live, removals, wish, mixed>>

\* disconnect_gmail.
disconnect_gmail ==
  /\ file # Absent /\ removals < MaxRemovals /\ removals' = removals + 1
  /\ file' = Absent /\ wish' = 0
  /\ mixed' = (mixed \/ Writers \cup Readers # {})
  /\ visits' = [v \in Visits |-> IF visits[v].pc = "write" THEN [visits[v] EXCEPT !.pc = "lost"] ELSE visits[v]]
  /\ UNCHANGED <<access, grants, live>>

\* An access token runs out.
Expire ==
  /\ \E a \in live : live' = live \ {a}
  /\ UNCHANGED <<file, visits, access, grants, removals, wish, mixed>>

\* The process ends; a file that was emptied stays so.
EndProcess ==
  /\ removals < MaxRemovals /\ removals' = removals + 1
  /\ visits' = [v \in Visits |-> Idle] /\ mixed' = (mixed \/ Writers # {})
  /\ UNCHANGED <<file, access, grants, live, wish>>

AccountNext ==
  \/ \E v \in Visits :
       exchange_code_for_tokens(v) \/ get_valid_access_token(v) \/ Userinfo(v)
         \/ refresh_access_token(v) \/ OpenFile(v) \/ save_tokens(v)
  \/ disconnect_gmail \/ Expire \/ EndProcess

AccountSpec == AccountInit /\ [][AccountNext]_accountVars

-----------------------------------------------------------------------------
(* Properties *************************************************************)

\* Types of the file and of what requests carry.
AccountTypeOK ==
  /\ file \in [is : {"absent", "empty", "garbled", "tokens"}, at : 0..MaxAccess, rt : 0..MaxGrants]
  /\ \A v \in Visits : visits[v].at \in 0..access /\ visits[v].rt \in 0..grants

\* A token that a request hands out was accepted or issued in that request, whatever
\* others wrote to the file meanwhile.
HandedOutIsGood == \A v \in Visits : visits[v].pc = "answered" => visits[v].at = visits[v].good

\* As long as no two changes overlapped, the file holds the refresh token of the last
\* consent, however often it was refreshed, and nothing after a disconnection.
ConnectionLasts ==
  (~mixed /\ Writers = {}) =>
    IF wish = 0 THEN file = Absent ELSE file.is = "tokens" /\ file.rt = wish

\* The account stays connected until it is disconnected, and only then.
AccountSound == AccountTypeOK /\ HandedOutIsGood /\ ConnectionLasts
=============================================================================
