----------------------------- MODULE ImapDaemon -----------------------------
(***************************************************************************)
(* One IMAP daemon (providers/imap_daemon.py) with its supervisory loop,   *)
(* the deduplication engine it marks in, the manager it delivers to, and   *)
(* the mailbox on the server (external), which other clients change too.   *)
(* The server numbers messages by their place in the mailbox, and a fetch  *)
(* of a whole message makes it seen.  An action is a step of the loop      *)
(* between two awaits; the calls made in a worker thread are one step.     *)
(***************************************************************************)
EXTENDS Naturals, SequencesExt, FiniteSetsExt, DedupStore

CONSTANTS
  Mails,        \* messages that may arrive
  Oversize,     \* those larger than max_mime_size_bytes
  SeenTtl,      \* default_ttl_sec of the deduplication engine
  MaxNow,       \* bound on the imapClock
  MaxFailures,  \* failures beyond which the backoff grows no more
  MaxStops      \* bound on calls of stop

ASSUME SeenTtlAssumption == SeenTtl \in Nat \ {0}
ASSUME FailuresAssumption == MaxFailures \in Nat

VARIABLES
  inbox,        \* the mailbox: a message's number is its place
  arrived,      \* messages that have ever been in it
  unseen,       \* messages without the \Seen flag
  loop,         \* where the supervisory loop is; "stopped" when there is none
  client,       \* _client: "none", "live", or "dead" once the connection broke
  batch,        \* what _fetch_unseen_sync returned and is still to process, by number
  failures,     \* _consecutive_failures
  seen,         \* the deduplication engine's store: number -> expiry
  imapClock,
  handed,       \* <<message, time it was marked>> the pipeline analysed
  kept,         \* messages the manager quarantined
  faults,       \* what has gone wrong so far (history)
  stops

imapVars == <<inbox, arrived, unseen, loop, client, batch, failures, seen, imapClock, handed, kept, faults, stops>>
server == <<inbox, arrived, unseen>>

ImapInit ==
  /\ inbox = <<>> /\ arrived = {} /\ unseen = {} /\ loop = "stopped" /\ client = "none"
  /\ batch = {} /\ failures = 0 /\ seen = EmptyDict /\ imapClock = 0
  /\ handed = {} /\ kept = {} /\ faults = {} /\ stops = 0

-----------------------------------------------------------------------------
(* The server and its other clients. *)
Arrive(m) ==
  /\ m \notin arrived /\ arrived' = arrived \cup {m}
  /\ inbox' = Append(inbox, m) /\ unseen' = unseen \cup {m}
  /\ UNCHANGED <<loop, client, batch, failures, seen, imapClock, handed, kept, faults, stops>>

\* A message that is no longer unseen is deleted: those after it are renumbered.
Expunge(m) ==
  /\ m \in Range(inbox) \ unseen
  /\ inbox' = SelectSeq(inbox, LAMBDA x : x # m)
  /\ faults' = faults \cup {"renumbered"}
  /\ UNCHANGED <<arrived, unseen, loop, client, batch, failures, seen, imapClock, handed, kept, stops>>

\* A reader marks a message as unread.
Unread(m) ==
  /\ m \in Range(inbox) \ unseen
  /\ unseen' = unseen \cup {m}
  /\ UNCHANGED <<inbox, arrived, loop, client, batch, failures, seen, imapClock, handed, kept, faults, stops>>

Pass ==
  /\ imapClock < MaxNow /\ imapClock' = imapClock + 1
  /\ UNCHANGED <<server, loop, client, batch, failures, seen, handed, kept, faults, stops>>

-----------------------------------------------------------------------------
(* The daemon. *)
start ==
  /\ loop = "stopped"
  /\ loop' = "top"
  /\ UNCHANGED <<server, client, batch, failures, seen, imapClock, handed, kept, faults, stops>>

\* _create_and_connect_sync: the client is kept and the failures forgotten.
Connect ==
  /\ loop = "top" /\ client = "none"
  /\ client' = "live" /\ failures' = 0 /\ loop' = "fetch"
  /\ UNCHANGED <<server, batch, seen, imapClock, handed, kept, faults, stops>>

\* The loop finds a client it already has.
Reuse ==
  /\ loop = "top" /\ client # "none"
  /\ loop' = "fetch"
  /\ UNCHANGED <<server, client, batch, failures, seen, imapClock, handed, kept, faults, stops>>

\* Mutant: the client is kept, although its connection may be the one that broke.
FailKeepingClient(why) ==
  /\ failures' = Min({failures + 1, MaxFailures}) /\ client' = client
  /\ batch' = {} /\ loop' = "backoff" /\ faults' = faults \cup why

\* The except clause of the loop: count, disconnect, wait.  What was fetched
\* and not yet processed is forgotten with the batch.
Fail(why) ==
  /\ failures' = Min({failures + 1, MaxFailures}) /\ client' = "none"
  /\ batch' = {} /\ loop' = "backoff" /\ faults' = faults \cup why

ConnectFails ==
  /\ loop = "top" /\ client = "none"
  /\ Fail({})
  /\ UNCHANGED <<server, seen, imapClock, handed, kept, stops>>

\* The messages of this set with their numbers, which SEARCH answers in order.
Numbered(ms) == {[num |-> i, mail |-> inbox[i]] : i \in {j \in DOMAIN inbox : inbox[j] \in ms}}

\* _fetch_unseen_sync: SEARCH, then FETCH each; one that is not OK is left out.
Fetch ==
  /\ loop = "fetch" /\ client = "live"
  /\ \E got \in SUBSET unseen :
       /\ unseen # {} => got # {}
       /\ batch' = Numbered(got)
       /\ unseen' = unseen \ got
  /\ loop' = "process"
  /\ UNCHANGED <<inbox, arrived, client, failures, seen, imapClock, handed, kept, faults, stops>>

\* The connection breaks, perhaps after some messages were made seen.
FetchBreaks ==
  /\ loop = "fetch"
  /\ \E got \in IF client = "live" THEN SUBSET unseen ELSE {{}} :
       /\ unseen' = unseen \ got
       /\ Fail(IF got = {} THEN {} ELSE {"cut short"})
  /\ UNCHANGED <<inbox, arrived, seen, imapClock, handed, kept, stops>>

\* The connection is lost while nobody uses it.
Drops ==
  /\ client = "live" /\ loop \in {"process", "handle", "sleep"}
  /\ client' = "dead"
  /\ UNCHANGED <<server, loop, batch, failures, seen, imapClock, handed, kept, faults, stops>>

\* The message of the batch whose turn it is, and what becomes of the others when
\* it raises.
Current == CHOOSE e \in batch : \A f \in batch : e.num <= f.num
Rest == IF batch = {Current} THEN {} ELSE {"cut short"}

\* Mutant: the record of a number is not looked at, only written.
ProcessUnchecked ==
  LET e == Current IN
  /\ loop = "process" /\ batch # {}
  /\ seen' = Put(seen, e.num, imapClock + SeenTtl)
  /\ IF e.mail \in Oversize THEN Fail({"too large"} \cup Rest)
     ELSE loop' = "handle" /\ UNCHANGED <<client, batch, failures, faults>>
  /\ UNCHANGED <<server, imapClock, handed, kept, stops>>

\* _process_single_message up to the delivery: check_and_mark under the
\* message's number, then the size, which is refused by raising.
Process ==
  LET e == Current IN
  /\ loop = "process" /\ batch # {} /\ ~Live(seen, e.num, imapClock)
  /\ seen' = Put(seen, e.num, imapClock + SeenTtl)
  /\ IF e.mail \in Oversize THEN Fail({"too large"} \cup Rest)
     ELSE loop' = "handle" /\ UNCHANGED <<client, batch, failures, faults>>
  /\ UNCHANGED <<server, imapClock, handed, kept, stops>>

\* A number that was marked within the TTL: "Suppressed duplicate".
SuppressMail ==
  /\ loop = "process" /\ batch # {} /\ Live(seen, Current.num, imapClock)
  /\ batch' = batch \ {Current}
  /\ UNCHANGED <<server, loop, client, failures, seen, imapClock, handed, kept, faults, stops>>

Handle ==
  /\ loop = "handle"
  /\ handed' = handed \cup {<<Current.mail, seen[Current.num] - SeenTtl>>}
  /\ batch' = batch \ {Current} /\ loop' = "process"
  /\ UNCHANGED <<server, client, failures, seen, imapClock, kept, faults, stops>>

\* Mutant: the pipeline's failure is logged, and only raised.
HandleFailsUnkept ==
  /\ loop = "handle"
  /\ Fail(Rest)
  /\ UNCHANGED <<server, seen, imapClock, handed, kept, stops>>

\* The pipeline raises: the manager quarantines the message and raises again.
HandleFails ==
  /\ loop = "handle"
  /\ kept' = kept \cup {Current.mail}
  /\ Fail(Rest)
  /\ UNCHANGED <<server, seen, imapClock, handed, stops>>

\* The batch is done: wait poll_interval_sec.
Sleep ==
  /\ loop = "process" /\ batch = {}
  /\ loop' = "sleep"
  /\ UNCHANGED <<server, client, batch, failures, seen, imapClock, handed, kept, faults, stops>>

Wake ==
  /\ loop \in {"sleep", "backoff"}
  /\ loop' = "top"
  /\ UNCHANGED <<server, client, batch, failures, seen, imapClock, handed, kept, faults, stops>>

\* Mutant: the task is cancelled and the connection left to the server.
stopConnected ==
  /\ loop # "stopped" /\ stops < MaxStops
  /\ stops' = stops + 1
  /\ loop' = "stopped" /\ batch' = {}
  /\ faults' = faults \cup (IF batch = {} THEN {} ELSE {"cut short"})
  /\ UNCHANGED <<server, client, failures, seen, imapClock, handed, kept>>

\* stop: the task is cancelled at its await, then the client disconnected.
stop ==
  /\ loop # "stopped" /\ stops < MaxStops
  /\ stops' = stops + 1
  /\ loop' = "stopped" /\ client' = "none" /\ batch' = {}
  /\ faults' = faults \cup (IF batch = {} THEN {} ELSE {"cut short"})
  /\ UNCHANGED <<server, failures, seen, imapClock, handed, kept>>

Loop ==
  \/ Connect \/ ConnectFails \/ Reuse \/ Fetch \/ FetchBreaks \/ Process
  \/ SuppressMail \/ Handle \/ HandleFails \/ Sleep \/ Wake

ImapNext ==
  \/ \E m \in Mails : Arrive(m) \/ Expunge(m) \/ Unread(m)
  \/ Loop \/ Drops \/ start \/ stop \/ Pass

(***************************************************************************)
(* The loop's awaits return or raise; a server that is asked again and     *)
(* again is reached in the end, and hands out each message.                *)
(***************************************************************************)
ImapFairness ==
  /\ WF_imapVars(Loop) /\ SF_imapVars(Connect)
  /\ \A m \in Mails : SF_imapVars(Fetch /\ m \in unseen \ unseen')

ImapSpec == ImapInit /\ [][ImapNext]_imapVars /\ ImapFairness

-----------------------------------------------------------------------------
\* A batch exists only while it is processed, and a stopped daemon has no client.
ImapTypeOK ==
  /\ loop \in {"stopped", "top", "fetch", "process", "handle", "sleep", "backoff"}
  /\ failures \in 0..MaxFailures
  /\ batch # {} => loop \in {"process", "handle"}
  /\ loop = "handle" => batch # {}
  /\ loop = "stopped" => client = "none"

(***************************************************************************)
(* Messages are marked as seen on the server before they are processed, so *)
(* that one which is fetched and dropped does not come again.  As long as  *)
(* no batch was cut short, nothing was too large and the mailbox was not   *)
(* renumbered, every message that is no longer unseen was analysed or      *)
(* quarantined, or is in the batch.                                        *)
(***************************************************************************)
NothingLostWithoutFault ==
  faults = {} =>
    \A m \in Range(inbox) \ unseen :
      \/ \E h \in handed : h[1] = m
      \/ m \in kept
      \/ \E e \in batch : e.mail = m

(***************************************************************************)
(* Reconnections, failures and readers that mark messages as unread do not *)
(* have a message analysed twice within the deduplication window, as long  *)
(* as messages keep their numbers.                                         *)
(***************************************************************************)
HandedOncePerTtl ==
  "renumbered" \notin faults =>
    \A g, h \in handed : g[1] = h[1] /\ g # h => g[2] - h[2] >= SeenTtl \/ h[2] - g[2] >= SeenTtl

(***************************************************************************)
(* A running daemon fetches what arrives, whatever breaks on the way: a    *)
(* failure disconnects, so that the loop connects afresh.                  *)
(***************************************************************************)
UnseenIsFetched ==
  \A m \in Mails : m \in unseen ~> (m \notin unseen \/ loop = "stopped")

\* What the daemon's polls deliver: nothing fetched is lost unless a fault hit
\* it, and no message is handed over twice within the life of its mark.
ImapDelivers == ImapTypeOK /\ NothingLostWithoutFault /\ HandedOncePerTtl
=============================================================================
