----------------------------- MODULE GmailPush -----------------------------
(***************************************************************************)
(* The Gmail path of the ingestion gateway: the Pub/Sub endpoint           *)
(* (webhook_handler.py), the daemons it visits in the order they were      *)
(* registered (providers/gmail_daemon.py) and the manager's delivery       *)
(* handler (manager.py).  Requests are coroutines of one event loop, cut   *)
(* at their awaits.  Pub/Sub delivers a notification again until it has a  *)
(* 2xx, and may do so while an earlier delivery is still being handled.    *)
(* The deduplication window does not end within a behaviour; DedupEngine   *)
(* is about its end.                                                       *)
(***************************************************************************)
EXTENDS Naturals, Sequences, FiniteSets

CONSTANTS
  Pushes,        \* concurrent invocations of gmail_pubsub_webhook_endpoint
  GmailDaemons,  \* the registered daemons: a sequence of [name, addr, token]
  NoToken,       \* no verification_token is configured
  Notes,         \* name -> [addr, token, msgs]: what Pub/Sub may push
  TooBig         \* message ids whose MIME exceeds max_mime_size_bytes

Members(s) == {s[i] : i \in DOMAIN s}
ASSUME NotesAssumption == \A n \in DOMAIN Notes : Notes[n].msgs \in Seq(Members(Notes[n].msgs))

\* The registry has one Gmail daemon for a tenant and account, which is the name it
\* marks messages under.
ASSUME DaemonAssumption ==
  /\ GmailDaemons \in Seq(Members(GmailDaemons))
  /\ \A i, j \in DOMAIN GmailDaemons : GmailDaemons[i].name = GmailDaemons[j].name => i = j

VARIABLES
  push,      \* request -> what it carries and how far it is
  marked,    \* <<daemon, message>> check_and_mark has recorded
  accepted,  \* <<daemon, message>> the pipeline has analysed
  again,     \* those it has analysed more than once (history)
  letters,   \* quarantined: an envelope, or a message the pipeline failed on
  settled,   \* notifications Pub/Sub has had a 2xx for
  refused    \* notifications that were answered 401 (history)

gmailVars == <<push, marked, accepted, again, letters, settled, refused>>

\* di: the daemon being visited; todo: the message ids it still has to take;
\* msg: the one it is waiting for.
Free == [pc |-> "free", note |-> "none", di |-> 0, todo |-> <<>>, msg |-> "none"]

GmailInit ==
  /\ push = [r \in Pushes |-> Free]
  /\ marked = {} /\ accepted = {} /\ again = {} /\ letters = {} /\ settled = {} /\ refused = {}

Note(r) == Notes[push[r].note]
Visited(r) == GmailDaemons[push[r].di]
Set(r, pc, di, todo, msg) ==
  push' = [push EXCEPT ![r] = [pc |-> pc, note |-> @.note, di |-> di, todo |-> todo, msg |-> msg]]

\* A push arrives and its envelope is validated.
Push(r, n) ==
  /\ push[r].pc = "free"
  /\ push' = [push EXCEPT ![r] = [Free EXCEPT !.pc = "route", !.note = n]]
  /\ UNCHANGED <<marked, accepted, again, letters, settled, refused>>

\* verification_token: a daemon without one takes every push.
Verified(d, n) == d.token = NoToken \/ d.token = n.token

\* Mutant: the address is not compared, as if one daemon were registered.
NextDaemonAny(r) ==
  /\ push[r].pc = "route" /\ push[r].todo = <<>>
  /\ push[r].di < Len(GmailDaemons)
  /\ Verified(GmailDaemons[push[r].di + 1], Note(r))
  /\ Set(r, "list", push[r].di + 1, <<>>, "none")
  /\ UNCHANGED <<marked, accepted, again, letters, settled, refused>>

\* The next daemon: its token is verified and its address compared.
NextDaemon(r) ==
  LET d == GmailDaemons[push[r].di + 1] IN
  /\ push[r].pc = "route" /\ push[r].todo = <<>>
  /\ push[r].di < Len(GmailDaemons)
  /\ Verified(d, Note(r))
  /\ Set(r, IF d.addr = Note(r).addr THEN "list" ELSE "route", push[r].di + 1, <<>>, "none")
  /\ UNCHANGED <<marked, accepted, again, letters, settled, refused>>

\* The ids of the notification's messages are resolved.
Listed(r) ==
  /\ push[r].pc = "list"
  /\ Set(r, "route", push[r].di, Note(r).msgs, "none")
  /\ UNCHANGED <<marked, accepted, again, letters, settled, refused>>

\* One daemon's token does not match: the whole push is answered 401.
Refuse(r) ==
  /\ push[r].pc = "route" /\ push[r].todo = <<>>
  /\ push[r].di < Len(GmailDaemons)
  /\ ~Verified(GmailDaemons[push[r].di + 1], Note(r))
  /\ refused' = refused \cup {push[r].note}
  /\ push' = [push EXCEPT ![r] = Free]
  /\ UNCHANGED <<marked, accepted, again, letters, settled>>

Suppress(r) ==
  /\ push[r].pc = "route" /\ push[r].todo # <<>>
  /\ <<Visited(r).name, Head(push[r].todo)>> \in marked
  /\ Set(r, "route", push[r].di, Tail(push[r].todo), "none")
  /\ UNCHANGED <<marked, accepted, again, letters, settled, refused>>

\* Mutant: the message is only looked up here and marked once it is accepted.
TakeUnmarkedMail(r) ==
  LET m == Head(push[r].todo) IN
  /\ push[r].pc = "route" /\ push[r].todo # <<>>
  /\ <<Visited(r).name, m>> \notin marked
  /\ Set(r, "fetch", push[r].di, Tail(push[r].todo), m)
  /\ UNCHANGED <<marked, accepted, again, letters, settled, refused>>

\* A new message is marked, and fetched.
TakeMail(r) ==
  LET m == Head(push[r].todo) IN
  /\ push[r].pc = "route" /\ push[r].todo # <<>>
  /\ <<Visited(r).name, m>> \notin marked
  /\ marked' = marked \cup {<<Visited(r).name, m>>}
  /\ Set(r, "fetch", push[r].di, Tail(push[r].todo), m)
  /\ UNCHANGED <<accepted, again, letters, settled, refused>>

\* The MIME is there and not too large: it is delivered to the manager.
Fetched(r) ==
  /\ push[r].pc = "fetch" /\ push[r].msg \notin TooBig
  /\ Set(r, "handle", push[r].di, push[r].todo, push[r].msg)
  /\ UNCHANGED <<marked, accepted, again, letters, settled, refused>>

\* Mutant: the failure is answered 500 and nothing is kept of it.
FailPushSilently(r, more) ==
  /\ letters' = letters
  /\ push' = [push EXCEPT ![r] = Free]
  /\ UNCHANGED <<marked, accepted, again, settled, refused>>

\* The endpoint's except clause: the envelope is quarantined, the answer 500.
FailPush(r, more) ==
  /\ letters' = letters \cup more \cup {[daemon |-> Visited(r).name, about |-> push[r].note]}
  /\ push' = [push EXCEPT ![r] = Free]
  /\ UNCHANGED <<marked, accepted, again, settled, refused>>

\* fetch_raw_mime raises, or the MIME is too large.
FetchFailsMail(r) == push[r].pc = "fetch" /\ FailPush(r, {})

\* The history of the mailbox cannot be listed.
ListFails(r) == push[r].pc = "list" /\ FailPush(r, {})

HandledMail(r) ==
  /\ push[r].pc = "handle"
  /\ accepted' = accepted \cup {<<Visited(r).name, push[r].msg>>}
  /\ again' = again \cup (accepted \cap {<<Visited(r).name, push[r].msg>>})
  /\ Set(r, "route", push[r].di, push[r].todo, "none")
  /\ UNCHANGED <<marked, letters, settled, refused>>

\* The pipeline raises: the manager quarantines the message and raises again.
PipelineFailsMail(r) ==
  /\ push[r].pc = "handle"
  /\ FailPush(r, {[daemon |-> Visited(r).name, about |-> push[r].msg]})

\* Every daemon has been visited: 200.
AcceptPush(r) ==
  /\ push[r].pc = "route" /\ push[r].todo = <<>> /\ push[r].di = Len(GmailDaemons)
  /\ settled' = settled \cup {push[r].note}
  /\ push' = [push EXCEPT ![r] = Free]
  /\ UNCHANGED <<marked, accepted, again, letters, refused>>

Handling(r) ==
  \/ NextDaemon(r) \/ Listed(r) \/ Refuse(r) \/ Suppress(r) \/ TakeMail(r) \/ Fetched(r)
  \/ FetchFailsMail(r) \/ ListFails(r) \/ HandledMail(r) \/ PipelineFailsMail(r)
  \/ AcceptPush(r)

Redeliver(n) == n \notin settled /\ \E r \in Pushes : Push(r, n)

GmailNext ==
  \/ \E n \in DOMAIN Notes : Redeliver(n)
  \/ \E r \in Pushes : Handling(r)

GmailSpec == GmailInit /\ [][GmailNext]_gmailVars

-----------------------------------------------------------------------------
\* A request lists and waits for the mail of a daemon only if the notification
\* names the daemon's address and carries its token.
GmailTypeOK ==
  /\ \A r \in Pushes :
       /\ push[r].pc \in {"free", "route", "list", "fetch", "handle"}
       /\ push[r].pc \in {"list", "fetch", "handle"} =>
            Visited(r).addr = Note(r).addr /\ Verified(Visited(r), Note(r))
  /\ settled \cup refused \subseteq DOMAIN Notes

(***************************************************************************)
(* Overlapping deliveries of a notification, or of two that list the same  *)
(* message, never have it analysed twice.                                  *)
(***************************************************************************)
MailAnalysedOnce == again = {}

(***************************************************************************)
(* What Pub/Sub was told is done is accounted for, although a message is   *)
(* marked before it is fetched and its repetition skipped: for every       *)
(* daemon of the address, each message was analysed, is being worked on,   *)
(* or a letter holds it or an envelope that lists it.                      *)
(***************************************************************************)
Lists(n, m) == \E i \in 1..Len(Notes[n].msgs) : Notes[n].msgs[i] = m
Kept(d, m) ==
  \/ <<d.name, m>> \in accepted
  \/ \E r \in Pushes : push[r].pc \in {"fetch", "handle"} /\ Visited(r) = d /\ push[r].msg = m
  \/ \E l \in letters : l.daemon = d.name
       /\ (l.about = m \/ (l.about \in DOMAIN Notes /\ Lists(l.about, m)))
MailAccountedFor ==
  \A n \in settled : \A i \in 1..Len(GmailDaemons) :
    GmailDaemons[i].addr = Notes[n].addr =>
      \A k \in 1..Len(Notes[n].msgs) : Kept(GmailDaemons[i], Notes[n].msgs[k])

(***************************************************************************)
(* "verifies optional token, and routes to the matching                    *)
(* GmailIngestionDaemon instance": a push with the token and address of a  *)
(* registered daemon is not refused.                                       *)
(***************************************************************************)
RoutesToMatchingDaemon ==
  \A n \in refused : \A i \in 1..Len(GmailDaemons) :
    ~(GmailDaemons[i].addr = Notes[n].addr /\ Verified(GmailDaemons[i], Notes[n]))

\* What the push endpoint delivers: a message two notifications list is analysed
\* once, and each message of an answered notification is accounted for.
GmailDelivers == GmailTypeOK /\ MailAnalysedOnce /\ MailAccountedFor
=============================================================================
