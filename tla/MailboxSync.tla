---------------------------- MODULE MailboxSync ----------------------------
(***************************************************************************)
(* IngestionPipeline.run_initial_sync over a database session.  Syncs of   *)
(* one account run at the same time, each in a transaction of its own,     *)
(* which get_session_context commits at the end and rolls back when an     *)
(* exception passes.  The database shows a transaction what is committed   *)
(* and its own writes, and makes it wait for a row that another one has    *)
(* changed.  Neither a message's row nor the account's state row has a     *)
(* unique key.                                                             *)
(***************************************************************************)
EXTENDS Naturals, Sequences, FiniteSets

CONSTANTS
  BoxMails,      \* messages of the mailbox
  Listings,     \* what fetch_initial_sync may list: sequences of messages
  Syncs         \* the syncs that are asked for

ASSUME ListingAssumption == Listings \subseteq Seq(BoxMails)

VARIABLES
  rawRows,      \* committed RawEmail rows: [msg, by]
  metaRows,     \* committed EmailMetadataRecord rows: [msg, by]
  stateRows,    \* committed MailboxSyncState rows: the syncs that made them
  history,      \* committed last_history_id: the last message of a sync
  syncs,        \* sync -> its progress and its transaction
  announced     \* {msg, by}: EmailDownloadedEvents published

boxVars == <<rawRows, metaRows, stateRows, history, syncs, announced>>

Asked == [pc |-> "asked", list |-> <<>>, i |-> 0, raw |-> {}, meta |-> {}, made |-> FALSE, latest |-> "none"]

BoxInit ==
  /\ rawRows = {} /\ metaRows = {} /\ stateRows = {} /\ history = "none"
  /\ syncs = [s \in Syncs |-> Asked] /\ announced = {}

Running == {s \in Syncs : syncs[s].pc \notin {"asked", "done", "failed"}}

\* Syncs whose transaction has changed the committed state row.
Holders == {s \in Running : ~syncs[s].made}

\* An exception: "FAILED" is written to the session, which is then rolled back.
Abort(s) ==
  /\ syncs' = [syncs EXCEPT ![s] = [Asked EXCEPT !.pc = "failed"]]
  /\ UNCHANGED <<rawRows, metaRows, stateRows, history, announced>>

\* Mutant: the state is not written at the start.
BeginQuietly(s) ==
  /\ syncs[s].pc = "asked" /\ Cardinality(stateRows) <= 1
  /\ syncs' = [syncs EXCEPT ![s].pc = "list", ![s].made = stateRows = {}]
  /\ UNCHANGED <<rawRows, metaRows, stateRows, history, announced>>

\* update_sync_progress(SYNCING): makes the row, or changes it, or finds several.
Begin(s) ==
  /\ syncs[s].pc = "asked"
  /\ \/ /\ Cardinality(stateRows) > 1 /\ Abort(s)
     \/ /\ stateRows = {}
        /\ syncs' = [syncs EXCEPT ![s].pc = "list", ![s].made = TRUE]
        /\ UNCHANGED <<rawRows, metaRows, stateRows, history, announced>>
     \/ /\ Cardinality(stateRows) = 1 /\ Holders = {}
        /\ syncs' = [syncs EXCEPT ![s].pc = "list"]
        /\ UNCHANGED <<rawRows, metaRows, stateRows, history, announced>>

\* fetch_initial_sync.
FetchList(s) ==
  /\ syncs[s].pc = "list"
  /\ \E l \in Listings :
       syncs' = [syncs EXCEPT ![s].pc = "mail", ![s].list = l, ![s].i = 1]
  /\ UNCHANGED <<rawRows, metaRows, stateRows, history, announced>>

Visible(s, m) == {r \in rawRows \cup syncs[s].raw : r.msg = m}

\* get_raw_eml and get_message_metadata have answered; the look-up, both rows and
\* the event follow.  Several rows of the message make the look-up raise.
Store(s) ==
  /\ syncs[s].pc = "mail" /\ syncs[s].i <= Len(syncs[s].list)
  /\ LET m == syncs[s].list[syncs[s].i]
         row == [msg |-> m, by |-> s]
         on == [syncs EXCEPT ![s].i = @ + 1, ![s].latest = m]
     IN \/ Cardinality(Visible(s, m)) > 1 /\ Abort(s)
        \/ /\ Cardinality(Visible(s, m)) = 1
           /\ syncs' = on /\ UNCHANGED <<rawRows, metaRows, stateRows, history, announced>>
        \/ /\ Visible(s, m) = {}
           /\ syncs' = [on EXCEPT ![s].raw = @ \cup {row}, ![s].meta = @ \cup {row}]
           /\ announced' = announced \cup {row}
           /\ UNCHANGED <<rawRows, metaRows, stateRows, history>>

\* update_sync_progress(IDLE): the look-up sees the committed rows and its own, and
\* raises if they are several.
Conclude(s) ==
  /\ syncs[s].pc = "mail" /\ syncs[s].i > Len(syncs[s].list)
  /\ IF Cardinality(stateRows \cup (IF syncs[s].made THEN {s} ELSE {})) > 1
     THEN Abort(s)
     ELSE /\ syncs' = [syncs EXCEPT ![s].pc = "commit"]
          /\ UNCHANGED <<rawRows, metaRows, stateRows, history, announced>>

\* The commit of get_session_context; an empty list keeps last_history_id.
Commit(s) ==
  /\ syncs[s].pc = "commit"
  /\ rawRows' = rawRows \cup syncs[s].raw
  /\ metaRows' = metaRows \cup syncs[s].meta
  /\ stateRows' = IF syncs[s].made THEN stateRows \cup {s} ELSE stateRows
  /\ history' = IF syncs[s].latest = "none" THEN history ELSE syncs[s].latest
  /\ syncs' = [syncs EXCEPT ![s] = [@ EXCEPT !.pc = "done", !.i = 0]]
  /\ UNCHANGED announced

\* The provider or the database fails, or the process ends.
Break(s) == s \in Running /\ Abort(s)

BoxNext ==
  \E s \in Syncs : Begin(s) \/ FetchList(s) \/ Store(s) \/ Conclude(s) \/ Commit(s) \/ Break(s)

BoxSpec == BoxInit /\ [][BoxNext]_boxVars

-----------------------------------------------------------------------------
(* Properties *************************************************************)
Done == {s \in Syncs : syncs[s].pc = "done"}
AllListed(s) == {syncs[s].list[i] : i \in DOMAIN syncs[s].list}

\* Types of the rows.
BoxTypeOK ==
  /\ rawRows \cup metaRows \cup announced \subseteq [msg : BoxMails, by : Syncs]
  /\ stateRows \subseteq Syncs /\ history \in BoxMails \cup {"none"}

\* The database has the mails that finished syncs listed and no others, each with its
\* metadata, and each was announced: a sync that fails at any point leaves nothing.
AllOrNothing ==
  /\ {r.msg : r \in rawRows} = UNION {AllListed(s) : s \in Done}
  /\ metaRows = rawRows /\ rawRows \subseteq announced

\* A mail is stored twice only after the first syncs of the account ended together,
\* which shows in a second state row: with one row, every sync waits for the one
\* before it, and a late first sync finds two rows and leaves nothing.
TwiceOnlyWhenFirst ==
  \A r, q \in rawRows : r.msg = q.msg => (r = q \/ Cardinality(stateRows) > 1)

\* Concurrent and failing syncs of a mailbox leave whole syncs behind, and one row
\* per mail once the account has its state row.
MailboxSyncSound == BoxTypeOK /\ AllOrNothing /\ TwiceOnlyWhenFirst
=============================================================================
