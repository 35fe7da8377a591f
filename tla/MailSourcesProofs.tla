------------------------- MODULE MailSourcesProofs --------------------------
(***************************************************************************)
(* Proofs about the dashboard's Gmail account, for any number of requests, *)
(* consents and crashes, about the initial synchronisation of a mailbox,   *)
(* for any number of concurrent syncs and any mailbox, about the Gmail     *)
(* push endpoint, for any daemons, notifications and overlapping requests, *)
(* about the IMAP daemon, for any mailbox, failures and restarts, and      *)
(* about the dead-letter queue, for any letters, tenants and capacity.     *)
(***************************************************************************)
EXTENDS GmailPush, MailboxSync, GmailAccount, ImapDaemon, DeadLetterQueue, FiniteSetTheorems, SequenceTheorems, TLAPS

(***************************************************************************)
(* The token file.  While no two changes of it overlap there is at most    *)
(* one writer, which carries the refresh token of the last consent or      *)
(* still finds it in the file, and no request works with tokens after a    *)
(* disconnection.                                                          *)
(***************************************************************************)
VisitStates == {"idle", "answered", "check", "refresh", "open", "write", "lost"}
TokenFile == [is : {"absent", "empty", "garbled", "tokens"}, at : Nat, rt : Nat]
VisitRecord == [pc : VisitStates, at : Nat, rt : Nat, good : Nat]

TokensOK ==
  /\ file \in TokenFile /\ file.at <= access /\ file.rt <= grants
  /\ file.is = "absent" => file = Absent
  /\ visits \in [Visits -> VisitRecord]
  /\ \A v \in Visits : visits[v].at <= access /\ visits[v].rt <= grants
  /\ access \in Nat /\ access <= MaxAccess /\ grants \in Nat /\ grants <= MaxGrants
  /\ mixed \in BOOLEAN /\ wish \in Nat

GoodInHand ==
  \A v \in Visits :
    visits[v].pc \in {"answered", "open", "write", "lost"} => visits[v].at = visits[v].good

\* What the file holds while nobody changes it.
FileAsWished == IF wish = 0 THEN file = Absent ELSE file.is = "tokens" /\ file.rt = wish

WriterCarries(v) ==
  \/ visits[v].pc = "refresh" /\ file.is = "tokens" /\ file.rt = wish
  \/ visits[v].pc = "open" /\ visits[v].rt = wish
  \/ visits[v].pc = "write" /\ visits[v].rt = wish /\ file.is = "empty"

Unmixed ==
  ~mixed => /\ Writers \cup Readers # {} => wish # 0
            /\ \A v, w \in Writers : v = w
            /\ Writers = {} => FileAsWished
            /\ \A v \in Writers : WriterCarries(v)

AccountInv == TokensOK /\ GoodInHand /\ Unmixed

\* The dashboard's account: a request hands out only a token that Google accepted or
\* issued in it, and as long as no two changes of the token file overlapped, the file
\* has the refresh token of the last consent, and is gone after a disconnection.
THEOREM AccountCorrect == AccountSpec => []AccountSound
<1> USE TokenAssumption
<1>1. AccountInit => AccountInv
  <2> SUFFICES ASSUME AccountInit PROVE AccountInv
    OBVIOUS
  <2> USE DEF AccountInit
  <2>0. Idle \in VisitRecord /\ Idle.at = 0 /\ Idle.rt = 0 /\ Absent \in TokenFile /\ Absent.at = 0 /\ Absent.rt = 0
    BY DEF Absent, File, Idle, TokenFile, VisitRecord, VisitStates
  <2>1. TokensOK
    <3>1. mixed \in BOOLEAN
      OBVIOUS
    <3>2. visits \in [Visits -> VisitRecord] /\ \A v \in Visits : visits[v].at = 0 /\ visits[v].rt = 0
      BY <2>0
    <3> QED BY <2>0, <3>1, <3>2 DEF TokensOK
  <2>2. \A v \in Visits : visits[v].pc = "idle"
    BY DEF Idle
  <2>3. Writers = {} /\ Readers = {} /\ GoodInHand
    BY <2>2 DEF Writers, Readers, GoodInHand
  <2> QED BY <2>1, <2>3 DEF AccountInv, Unmixed, FileAsWished
<1>2. AccountInv => AccountSound
  BY DEF AccountInv, TokensOK, GoodInHand, Unmixed, FileAsWished, TokenFile, VisitRecord,
         AccountSound, AccountTypeOK, HandedOutIsGood, ConnectionLasts
<1>3. AccountInv /\ [AccountNext]_accountVars => AccountInv'
  <2> SUFFICES ASSUME AccountInv, [AccountNext]_accountVars PROVE AccountInv'
    OBVIOUS
  <2> USE DEF TokensOK, AccountInv
  <2>1. ASSUME NEW v \in Visits, exchange_code_for_tokens(v) PROVE AccountInv'
    <3> USE <2>1 DEF exchange_code_for_tokens, To, MayStart
    <3>1. TokensOK'
      BY DEF VisitRecord, VisitStates, TokenFile
    <3>2. GoodInHand'
      BY DEF GoodInHand
    <3>3. ASSUME ~mixed' PROVE Writers' = {v} /\ visits'[v].pc = "open" /\ visits'[v].rt = wish' /\ wish' # 0
      <4>1. Writers = {} /\ \A w \in Visits \ {v} : visits'[w] = visits[w]
        BY <3>3
      <4>2. visits'[v].pc = "open" /\ visits'[v].rt = wish' /\ wish' # 0
        OBVIOUS
      <4> QED BY <4>1, <4>2 DEF Writers
    <3>4. Unmixed'
      BY <3>3 DEF Unmixed, WriterCarries
    <3> QED BY <3>1, <3>2, <3>4
  <2>2. ASSUME NEW v \in Visits, get_valid_access_token(v) PROVE AccountInv'
    <3> USE <2>2 DEF get_valid_access_token, To, MayStart, Idle
    <3>0. file.is = "tokens" /\ load_tokens = file
      BY DEF load_tokens, Absent, File
    <3>1. TokensOK'
      BY <3>0 DEF VisitRecord, VisitStates, TokenFile
    <3>2. GoodInHand'
      BY DEF GoodInHand
    <3>3. Writers' = Writers
      BY DEF Writers
    <3>4. ~mixed => wish # 0
      BY <3>0 DEF Unmixed, FileAsWished, Absent, File
    <3>5. Unmixed'
      BY <3>3, <3>4 DEF Unmixed, Writers, WriterCarries, FileAsWished
    <3> QED BY <3>1, <3>2, <3>5
  <2>3. ASSUME NEW v \in Visits, Userinfo(v) PROVE AccountInv'
    <3>1. PICK r \in VisitRecord : To(v, r) /\ r.at <= access /\ r.rt <= grants
                                   /\ (r.pc = "answered" => r.at = r.good)
                                   /\ \/ r.pc \in {"answered", "idle"} /\ mixed' = mixed
                                      \/ r.pc = "refresh" /\ mixed' = (mixed \/ Writers # {})
      <4>1. CASE To(v, [visits[v] EXCEPT !.pc = "answered", !.good = visits[v].at]) /\ UNCHANGED mixed
        <5> DEFINE q == [visits[v] EXCEPT !.pc = "answered", !.good = visits[v].at]
        <5>1. q \in VisitRecord /\ q.pc = "answered" /\ q.at = visits[v].at /\ q.rt = visits[v].rt /\ q.good = q.at
          BY DEF VisitRecord, VisitStates
        <5>2. To(v, q) /\ mixed' = mixed
          BY <4>1
        <5> HIDE DEF q
        <5> QED BY <5>1, <5>2
      <4>2. CASE To(v, [visits[v] EXCEPT !.pc = "refresh"]) /\ mixed' = (mixed \/ Writers # {})
        BY <4>2 DEF VisitRecord, VisitStates
      <4>3. CASE To(v, Idle) /\ UNCHANGED mixed
        <5>1. Idle \in VisitRecord /\ Idle.pc = "idle" /\ Idle.at = 0 /\ Idle.rt = 0
          BY DEF VisitRecord, VisitStates, Idle
        <5> QED BY <4>3, <5>1
      <4> QED BY <2>3, <4>1, <4>2, <4>3 DEF Userinfo
    <3> USE <2>3, <3>1 DEF To
    <3>2. /\ visits[v].pc = "check" /\ visits'[v] = r /\ \A w \in Visits \ {v} : visits'[w] = visits[w]
          /\ file' = file /\ wish' = wish /\ access' = access /\ grants' = grants /\ v \in Readers
          /\ visits' \in [Visits -> VisitRecord]
      BY DEF Userinfo, Readers
    <3>3. TokensOK'
      BY <3>2
    <3>4. GoodInHand'
      BY <3>2 DEF GoodInHand
    <3>5. CASE r.pc \in {"answered", "idle"} /\ mixed' = mixed
      <4>1. Writers' = Writers /\ Readers' \subseteq Readers
        BY <3>2, <3>5 DEF Writers, Readers
      <4>2. \A w \in Writers : visits'[w] = visits[w]
        BY <3>2 DEF Writers
      <4>3. Unmixed'
        BY <3>2, <3>5, <4>1, <4>2 DEF Unmixed, WriterCarries, FileAsWished
      <4> QED BY <3>3, <3>4, <4>3
    <3>6. CASE r.pc = "refresh" /\ mixed' = (mixed \/ Writers # {})
      <4>1. Writers' = Writers \cup {v}
        BY <3>2, <3>6 DEF Writers
      <4>2. Unmixed'
        BY <3>2, <3>6, <4>1 DEF Unmixed, WriterCarries, FileAsWished
      <4> QED BY <3>3, <3>4, <4>2
    <3> QED BY <3>5, <3>6
  <2>4. ASSUME NEW v \in Visits, refresh_access_token(v) PROVE AccountInv'
    <3> USE <2>4 DEF refresh_access_token, To, Idle, Merged, load_tokens, File, Absent
    <3>1. TokensOK'
      BY DEF VisitRecord, VisitStates, TokenFile
    <3>2. GoodInHand'
      BY DEF GoodInHand
    <3>3. Unmixed'
      BY DEF Unmixed, Writers, Readers, WriterCarries, FileAsWished
    <3> QED BY <3>1, <3>2, <3>3
  <2>5. ASSUME NEW v \in Visits, OpenFile(v) PROVE AccountInv'
    <3> USE <2>5 DEF OpenFile, To, File
    <3>1. TokensOK'
      BY DEF VisitRecord, VisitStates, TokenFile
    <3>2. GoodInHand'
      BY DEF GoodInHand
    <3>3. Unmixed'
      BY DEF Unmixed, Writers, Readers, WriterCarries, FileAsWished
    <3> QED BY <3>1, <3>2, <3>3
  <2>6. ASSUME NEW v \in Visits, save_tokens(v) PROVE AccountInv'
    <3> USE <2>6 DEF save_tokens, To, File
    <3>1. TokensOK'
      BY DEF VisitRecord, VisitStates, TokenFile
    <3>2. GoodInHand'
      BY DEF GoodInHand
    <3>3. Unmixed'
      BY DEF Unmixed, Writers, Readers, WriterCarries, FileAsWished
    <3> QED BY <3>1, <3>2, <3>3
  <2>7. CASE disconnect_gmail
    <3> USE <2>7 DEF disconnect_gmail, Absent, File
    <3>1. TokensOK'
      BY DEF VisitRecord, VisitStates, TokenFile
    <3>2. GoodInHand'
      BY DEF GoodInHand
    <3>3. Unmixed'
      BY DEF Unmixed, Writers, Readers, WriterCarries, FileAsWished
    <3> QED BY <3>1, <3>2, <3>3
  <2>8. CASE EndProcess
    <3> USE <2>8 DEF EndProcess, Idle
    <3>1. TokensOK'
      BY DEF VisitRecord, VisitStates, TokenFile
    <3>2. GoodInHand'
      BY DEF GoodInHand
    <3>3. Unmixed'
      BY DEF Unmixed, Writers, Readers, WriterCarries, FileAsWished
    <3> QED BY <3>1, <3>2, <3>3
  <2>9. CASE Expire \/ UNCHANGED accountVars
    BY <2>9 DEF Expire, accountVars, GoodInHand, Unmixed, Writers, Readers, WriterCarries, FileAsWished
  <2> QED BY <2>1, <2>2, <2>3, <2>4, <2>5, <2>6, <2>7, <2>8, <2>9 DEF AccountNext
<1> QED BY <1>1, <1>2, <1>3, PTL DEF AccountSpec

-----------------------------------------------------------------------------
(***************************************************************************)
(* The initial synchronisation.  A transaction holds rows of its own sync  *)
(* only, all announced and each with its metadata, for mails it has come   *)
(* by in its list; and each mail it has come by has a row, committed or    *)
(* its own.  A sync that changed the state row is alone in that, and while *)
(* there is one row the mails it adds are new.                             *)
(***************************************************************************)
SyncStates == {"asked", "list", "mail", "commit", "done", "failed"}
Row == [msg : BoxMails, by : Syncs]
SyncRecord == [pc : SyncStates, list : Seq(BoxMails), i : Nat, raw : SUBSET Row, meta : SUBSET Row,
               made : BOOLEAN, latest : BoxMails \cup {"none"}]

RowsOK ==
  /\ rawRows \subseteq Row /\ metaRows = rawRows /\ rawRows \subseteq announced /\ announced \subseteq Row
  /\ stateRows \subseteq Syncs /\ IsFiniteSet(stateRows) /\ history \in BoxMails \cup {"none"}
  /\ syncs \in [Syncs -> SyncRecord]

Has(rows, m) == \E r \in rows : r.msg = m

\* The place in its list that a sync has reached.
Reached(s) == IF syncs[s].pc = "mail" THEN syncs[s].i ELSE Len(syncs[s].list) + 1

SyncInv(s) ==
  /\ syncs[s].meta = syncs[s].raw /\ syncs[s].raw \subseteq announced
  /\ \A r \in syncs[s].raw : r.by = s
  /\ syncs[s].pc = "mail" => syncs[s].i # 0
  /\ syncs[s].pc \in {"asked", "list", "failed"} => syncs[s].raw = {} /\ syncs[s].list = <<>>
  /\ syncs[s].pc \in {"mail", "commit"} =>
       /\ \A r \in syncs[s].raw : \E j \in DOMAIN syncs[s].list : syncs[s].list[j] = r.msg
       /\ \A j \in DOMAIN syncs[s].list :
            j < Reached(s) => Has(rawRows \cup syncs[s].raw, syncs[s].list[j])

\* The committed rows are those of the finished syncs.
WholeSyncs ==
  /\ \A r \in rawRows : \E s \in Done : r.msg \in AllListed(s)
  /\ \A s \in Done : \A m \in AllListed(s) : Has(rawRows, m)

OneRow == Cardinality(stateRows) <= 1

StateRowInv ==
  /\ \A s \in stateRows : syncs[s].pc = "done"
  /\ stateRows = {} => rawRows = {} /\ Holders = {}
  /\ \A s, u \in Holders : s = u
  /\ OneRow => \A s \in Holders : \A r \in syncs[s].raw : ~Has(rawRows, r.msg)
  /\ OneRow => \A r, q \in rawRows : r.msg = q.msg => r = q

BoxInv == RowsOK /\ (\A s \in Syncs : SyncInv(s)) /\ WholeSyncs /\ StateRowInv

\* The invariant is stronger than the property.
LEMMA BoxInvSuffices == BoxInv => MailboxSyncSound
<1> SUFFICES ASSUME BoxInv PROVE BoxTypeOK /\ AllOrNothing /\ TwiceOnlyWhenFirst
  BY DEF MailboxSyncSound
<1>1. BoxTypeOK
  BY DEF BoxInv, RowsOK, Row, BoxTypeOK
<1>2. {r.msg : r \in rawRows} = UNION {AllListed(s) : s \in Done}
  BY DEF BoxInv, WholeSyncs, Has
<1>3. AllOrNothing
  BY <1>2 DEF BoxInv, RowsOK, AllOrNothing
<1>4. Cardinality(stateRows) \in Nat
  BY FS_CardinalityType DEF BoxInv, RowsOK
<1>5. TwiceOnlyWhenFirst
  BY <1>4 DEF BoxInv, StateRowInv, OneRow, TwiceOnlyWhenFirst
<1> QED BY <1>1, <1>3, <1>5

\* A step in which one sync moves on within its transaction, and no row is
\* committed, keeps the invariant if it keeps that sync's part of it.
LEMMA TransactionStep ==
  ASSUME BoxInv, NEW s \in Syncs, syncs[s].pc # "done", NEW q \in SyncRecord, q.pc # "done",
         syncs' = [syncs EXCEPT ![s] = q],
         UNCHANGED <<rawRows, metaRows, stateRows, history>>,
         announced \subseteq announced', announced' \subseteq Row,
         SyncInv(s)',
         s \in Holders' => \/ s \in Holders
                           \/ Holders = {} /\ stateRows # {},
         OneRow /\ s \in Holders' => \A r \in q.raw : ~Has(rawRows, r.msg)
  PROVE BoxInv'
<1> USE DEF BoxInv
<1>1. /\ syncs'[s] = q /\ \A u \in Syncs \ {s} : syncs'[u] = syncs[u]
      /\ syncs' \in [Syncs -> SyncRecord]
  BY DEF RowsOK
<1>2. RowsOK'
  BY <1>1 DEF RowsOK
<1>3. \A u \in Syncs : SyncInv(u)'
  BY <1>1 DEF SyncInv, Reached, Has
<1>4. Done' = Done /\ \A u \in Done : AllListed(u)' = AllListed(u)
  BY <1>1 DEF Done, AllListed
<1>5. WholeSyncs'
  BY <1>4 DEF WholeSyncs, Has
<1>6. \A u \in Holders' : u # s => u \in Holders
  BY <1>1 DEF Holders, Running
<1>7. Holders \subseteq Syncs /\ Holders' \subseteq Syncs
  BY DEF Holders, Running
<1>8. StateRowInv'
  <2>1. \A u \in stateRows' : syncs'[u].pc = "done"
    BY <1>1 DEF StateRowInv, RowsOK
  <2>2. stateRows' = {} => rawRows' = {} /\ Holders' = {}
    BY <1>6 DEF StateRowInv
  <2>3. \A u, v \in Holders' : u = v
    BY <1>6 DEF StateRowInv
  <2>4. OneRow' => \A u \in Holders' : \A r \in syncs'[u].raw : ~Has(rawRows, r.msg)'
    BY <1>1, <1>6, <1>7 DEF StateRowInv, OneRow, Has
  <2> QED BY <2>1, <2>2, <2>3, <2>4 DEF StateRowInv, OneRow
<1> QED BY <1>2, <1>3, <1>5, <1>8

\* An exception undoes a transaction.
LEMMA AbortKeeps ==
  ASSUME BoxInv, NEW s \in Syncs, syncs[s].pc # "done", Abort(s) PROVE BoxInv'
<1>1. PICK q : q = [Asked EXCEPT !.pc = "failed"]
  OBVIOUS
<1>2. q \in SyncRecord /\ q.pc = "failed" /\ q.raw = {} /\ q.meta = {} /\ q.list = <<>>
  <2>1. Asked \in SyncRecord
    BY EmptySeq DEF Asked, SyncRecord, SyncStates
  <2>2. Asked.raw = {} /\ Asked.meta = {} /\ Asked.list = <<>>
    BY DEF Asked
  <2>3. q \in SyncRecord /\ q.pc = "failed"
    BY <1>1, <2>1 DEF SyncRecord, SyncStates
  <2> QED BY <1>1, <2>1, <2>2, <2>3 DEF SyncRecord
<1>3. /\ syncs' = [syncs EXCEPT ![s] = q] /\ syncs'[s] = q
      /\ UNCHANGED <<rawRows, metaRows, stateRows, history, announced>>
  BY <1>1 DEF Abort, BoxInv, RowsOK
<1>4. s \notin Holders' /\ SyncInv(s)'
  BY <1>2, <1>3 DEF Holders, Running, SyncInv
<1>5. announced \subseteq announced' /\ announced' \subseteq Row /\ q.pc # "done"
  BY <1>2, <1>3 DEF BoxInv, RowsOK
<1> QED BY <1>2, <1>3, <1>4, <1>5, TransactionStep

\* The steps of a sync up to its commit.
LEMMA ProgressKeeps ==
  ASSUME BoxInv, NEW s \in Syncs,
         Begin(s) \/ FetchList(s) \/ Store(s) \/ Conclude(s) \/ Break(s)
  PROVE BoxInv'
<1>0. /\ syncs \in [Syncs -> SyncRecord] /\ syncs[s] \in SyncRecord /\ SyncInv(s)
      /\ announced \subseteq Row /\ Cardinality({}) = 0
  BY FS_EmptySet DEF BoxInv, RowsOK
<1>1. ASSUME Abort(s), syncs[s].pc # "done" PROVE BoxInv'
  BY <1>1, AbortKeeps
<1>2. CASE Begin(s)
  <2>1. syncs[s].pc = "asked" /\ syncs[s].raw = {} /\ syncs[s].list = <<>> /\ syncs[s].meta = {}
    BY <1>0, <1>2 DEF Begin, SyncInv
  <2>2. ASSUME NEW b \in BOOLEAN, syncs' = [syncs EXCEPT ![s].pc = "list", ![s].made = b],
               UNCHANGED <<rawRows, metaRows, stateRows, history, announced>>,
               ~b => Holders = {} /\ stateRows # {}
        PROVE BoxInv'
    <3>1. PICK q : q = [syncs[s] EXCEPT !.pc = "list", !.made = b]
      OBVIOUS
    <3>2. /\ q \in SyncRecord /\ q.pc = "list" /\ q.made = b /\ q.raw = {} /\ q.list = <<>> /\ q.meta = {}
          /\ syncs' = [syncs EXCEPT ![s] = q] /\ syncs'[s] = q
      BY <1>0, <2>1, <2>2, <3>1 DEF SyncRecord, SyncStates
    <3>3. SyncInv(s)'
      BY <3>2 DEF SyncInv
    <3>4. s \in Holders' => Holders = {} /\ stateRows # {}
      BY <2>2, <3>2 DEF Holders
    <3>5. /\ announced \subseteq announced' /\ announced' \subseteq Row /\ q.pc # "done" /\ syncs[s].pc # "done"
          /\ UNCHANGED <<rawRows, metaRows, stateRows, history>>
      BY <1>0, <2>1, <2>2, <3>2
    <3> QED BY <3>2, <3>3, <3>4, <3>5, TransactionStep
  <2>3. CASE Abort(s)
    BY <1>1, <2>1, <2>3
  <2>4. CASE stateRows = {} /\ syncs' = [syncs EXCEPT ![s].pc = "list", ![s].made = TRUE]
    BY <1>2, <2>2, <2>4 DEF Begin, Abort
  <2>5. CASE Cardinality(stateRows) = 1 /\ Holders = {} /\ syncs' = [syncs EXCEPT ![s].pc = "list"]
    <3>1. stateRows # {}
      BY <1>0, <2>5
    <3>2. PICK b \in BOOLEAN : b = syncs[s].made
      BY <1>0 DEF SyncRecord
    <3>3. syncs' = [syncs EXCEPT ![s].pc = "list", ![s].made = b]
      BY <1>0, <2>5, <3>2 DEF SyncRecord
    <3>4. UNCHANGED <<rawRows, metaRows, stateRows, history, announced>>
      BY <1>2 DEF Begin, Abort
    <3> QED BY <2>2, <2>5, <3>1, <3>3, <3>4
  <2> QED BY <1>2, <2>3, <2>4, <2>5 DEF Begin
<1>3. ASSUME syncs[s].pc \in {"list", "mail"}, NEW q \in SyncRecord, q.pc \in {"mail", "commit"},
             syncs' = [syncs EXCEPT ![s] = q], q.made = syncs[s].made,
             UNCHANGED <<rawRows, metaRows, stateRows, history>>,
             announced \subseteq announced', announced' \subseteq Row,
             SyncInv(s)', \A r \in q.raw \ syncs[s].raw : ~Has(rawRows, r.msg)
      PROVE BoxInv'
  <2>1. syncs'[s] = q /\ s \in Running /\ (s \in Holders' => s \in Holders)
    BY <1>0, <1>3 DEF Holders, Running
  <2>2. OneRow /\ s \in Holders' => \A r \in q.raw : ~Has(rawRows, r.msg)
    BY <1>3, <2>1 DEF BoxInv, StateRowInv
  <2> QED BY <1>3, <2>1, <2>2, TransactionStep
<1>4. CASE FetchList(s)
  <2>1. PICK l \in Listings : syncs' = [syncs EXCEPT ![s].pc = "mail", ![s].list = l, ![s].i = 1]
    BY <1>4 DEF FetchList
  <2>2. PICK q : q = [syncs[s] EXCEPT !.pc = "mail", !.list = l, !.i = 1]
    OBVIOUS
  <2>3. syncs[s].pc = "list" /\ syncs[s].raw = {} /\ syncs[s].meta = {} /\ l \in Seq(BoxMails)
    BY <1>0, <1>4, ListingAssumption DEF FetchList, SyncInv
  <2>4. /\ q \in SyncRecord /\ q.pc = "mail" /\ q.raw = {} /\ q.meta = {} /\ q.list = l /\ q.i = 1
        /\ q.made = syncs[s].made /\ syncs' = [syncs EXCEPT ![s] = q] /\ syncs'[s] = q
    BY <1>0, <2>1, <2>2, <2>3 DEF SyncRecord, SyncStates
  <2>5. SyncInv(s)'
    <3>1. \A j \in DOMAIN l : ~(j < 1)
      BY <2>3
    <3>2. Reached(s)' = 1 /\ syncs'[s].list = l /\ syncs'[s].raw = {} /\ syncs'[s].meta = {}
      BY <2>4 DEF Reached
    <3>3. syncs'[s].pc = "mail" /\ syncs'[s].i # 0
      BY <2>4
    <3> QED BY <3>1, <3>2, <3>3 DEF SyncInv
  <2>6. UNCHANGED <<rawRows, metaRows, stateRows, history, announced>>
    BY <1>4 DEF FetchList
  <2> QED BY <1>0, <1>3, <2>3, <2>4, <2>5, <2>6
<1>5. CASE Store(s)
  <2>1. /\ syncs[s].pc = "mail" /\ syncs[s].list \in Seq(BoxMails) /\ syncs[s].i \in Nat
        /\ syncs[s].i # 0 /\ syncs[s].i <= Len(syncs[s].list)
    BY <1>0, <1>5 DEF Store, SyncRecord, SyncInv
  <2>2. PICK n \in Nat, l \in Seq(BoxMails) : l = syncs[s].list /\ n = syncs[s].i /\ n # 0 /\ n <= Len(l)
    BY <2>1
  <2>3. n \in DOMAIN l /\ \A j \in DOMAIN l : j < n + 1 => j < n \/ j = n
    BY <2>2
  <2>4. PICK m \in BoxMails : m = l[n]
    BY <2>3, ElementOfSeq
  <2>5. PICK row \in Row : row = [msg |-> m, by |-> s]
    BY DEF Row
  <2>6. ASSUME NEW new \in {{}, {row}}, announced' = announced \cup new,
               NEW q \in SyncRecord, syncs' = [syncs EXCEPT ![s] = q], q.pc = "mail", q.list = l,
               q.i = n + 1, q.made = syncs[s].made,
               q.raw = syncs[s].raw \cup new, q.meta = syncs[s].meta \cup new,
               UNCHANGED <<rawRows, metaRows, stateRows, history>>,
               new # {} => ~Has(rawRows, m), Has(rawRows \cup syncs[s].raw \cup new, m)
        PROVE BoxInv'
    <3>2. syncs'[s] = q
      BY <1>0, <2>6
    <3>3. \A r \in new : r.msg = m /\ r.by = s /\ r \in Row
      BY <2>5
    <3>4. SyncInv(s)'
      <4>1. syncs'[s].meta = syncs'[s].raw /\ syncs'[s].raw \subseteq announced' /\ \A r \in q.raw : r.by = s
        BY <1>0, <2>6, <3>2, <3>3 DEF SyncInv
      <4>2. \A r \in q.raw : \E j \in DOMAIN l : l[j] = r.msg
        BY <1>0, <2>1, <2>2, <2>3, <2>4, <2>6, <3>2, <3>3 DEF SyncInv
      <4>3. \A j \in DOMAIN l : j < n => Has(rawRows \cup syncs[s].raw, l[j])
        BY <1>0, <2>1, <2>2 DEF SyncInv, Reached
      <4>4. \A j \in DOMAIN l : j < n + 1 => Has(rawRows \cup q.raw, l[j])
        BY <2>3, <2>4, <2>6, <3>2, <4>3 DEF Has
      <4>5. n + 1 # 0 /\ syncs'[s].pc = "mail" /\ syncs'[s].i = n + 1 /\ rawRows' = rawRows
        BY <2>6, <3>2
      <4>6. Reached(s)' = n + 1
        BY <4>5 DEF Reached
      <4> QED BY <2>6, <3>2, <4>1, <4>2, <4>4, <4>5, <4>6 DEF SyncInv, Has
    <3>5. \A r \in q.raw \ syncs[s].raw : ~Has(rawRows, r.msg)
      BY <2>6, <3>2, <3>3
    <3>6. announced \subseteq announced' /\ announced' \subseteq Row
      BY <1>0, <2>6
    <3> QED BY <1>3, <2>1, <2>6, <3>2, <3>4, <3>5, <3>6
  <2>7. CASE Abort(s)
    BY <1>1, <2>1, <2>7
  <2>8. CASE /\ Cardinality(Visible(s, m)) = 1
             /\ syncs' = [syncs EXCEPT ![s].i = @ + 1, ![s].latest = m]
             /\ UNCHANGED <<rawRows, metaRows, stateRows, history, announced>>
    <3>1. PICK new : new = {}
      OBVIOUS
    <3>2. PICK q : q = [syncs[s] EXCEPT !.i = n + 1, !.latest = m]
      OBVIOUS
    <3>3. q \in SyncRecord /\ syncs' = [syncs EXCEPT ![s] = q]
      <4>1. n + 1 \in Nat /\ m \in BoxMails \cup {"none"}
        OBVIOUS
      <4>2. q \in SyncRecord
        BY <1>0, <3>2, <4>1 DEF SyncRecord
      <4>3. syncs' = [syncs EXCEPT ![s] = q]
        BY <1>0, <2>2, <2>8, <3>2
      <4> QED BY <4>2, <4>3
    <3>4. /\ q.pc = "mail" /\ q.list = l /\ q.i = n + 1 /\ q.made = syncs[s].made
          /\ q.raw = syncs[s].raw \cup new /\ q.meta = syncs[s].meta \cup new
      BY <1>0, <2>1, <2>2, <3>1, <3>2 DEF SyncRecord
    <3>5. Visible(s, m) = {} => Cardinality(Visible(s, m)) = 0
      BY <1>0
    <3>6. Has(rawRows \cup syncs[s].raw \cup new, m)
      BY <2>8, <3>5 DEF Visible, Has
    <3>7. new \in {{}, {row}} /\ announced' = announced \cup new /\ ~(new # {})
          /\ UNCHANGED <<rawRows, metaRows, stateRows, history>>
      BY <2>8, <3>1
    <3> QED BY <2>6, <3>3, <3>4, <3>6, <3>7
  <2>9. CASE /\ Visible(s, m) = {}
             /\ syncs' = [[syncs EXCEPT ![s].i = @ + 1, ![s].latest = m]
                            EXCEPT ![s].raw = @ \cup {row}, ![s].meta = @ \cup {row}]
             /\ announced' = announced \cup {row}
             /\ UNCHANGED <<rawRows, metaRows, stateRows, history>>
    <3>1. PICK new : new = {row}
      OBVIOUS
    <3>2. PICK o \in SyncRecord : o = [syncs[s] EXCEPT !.i = n + 1, !.latest = m]
      <4>1. n + 1 \in Nat /\ m \in BoxMails \cup {"none"}
        OBVIOUS
      <4>2. [syncs[s] EXCEPT !.i = n + 1, !.latest = m] \in SyncRecord
        BY <1>0, <4>1 DEF SyncRecord
      <4> QED BY <4>2
    <3>3. /\ o.pc = "mail" /\ o.list = l /\ o.i = n + 1 /\ o.made = syncs[s].made
          /\ o.raw = syncs[s].raw /\ o.meta = syncs[s].meta
          /\ [syncs EXCEPT ![s].i = @ + 1, ![s].latest = m] = [syncs EXCEPT ![s] = o]
      BY <1>0, <2>1, <2>2, <3>2 DEF SyncRecord
    <3>4. PICK q \in SyncRecord : q = [o EXCEPT !.raw = @ \cup {row}, !.meta = @ \cup {row}]
      BY <3>2 DEF SyncRecord
    <3>5. /\ q.pc = "mail" /\ q.list = l /\ q.i = n + 1 /\ q.made = syncs[s].made
          /\ q.raw = syncs[s].raw \cup new /\ q.meta = syncs[s].meta \cup new
      BY <3>1, <3>2, <3>3, <3>4 DEF SyncRecord
    <3>6. syncs' = [syncs EXCEPT ![s] = q]
      <4>1. PICK mid : mid = [syncs EXCEPT ![s] = o]
        OBVIOUS
      <4>2. mid[s] = o /\ DOMAIN mid = Syncs /\ \A u \in Syncs \ {s} : mid[u] = syncs[u]
        BY <1>0, <4>1
      <4>3. syncs' = [mid EXCEPT ![s].raw = @ \cup {row}, ![s].meta = @ \cup {row}]
        BY <2>9, <3>3, <4>1
      <4>4. syncs' = [mid EXCEPT ![s] = q]
        BY <3>4, <4>2, <4>3
      <4> QED BY <1>0, <4>1, <4>4
    <3>7. ~Has(rawRows, m) /\ Has(rawRows \cup syncs[s].raw \cup new, m)
      BY <2>5, <2>9, <3>1 DEF Visible, Has
    <3>8. new \in {{}, {row}} /\ announced' = announced \cup new
          /\ UNCHANGED <<rawRows, metaRows, stateRows, history>>
      BY <2>9, <3>1
    <3> QED BY <2>6, <3>5, <3>6, <3>7, <3>8
  <2> QED BY <1>5, <2>2, <2>4, <2>5, <2>7, <2>8, <2>9 DEF Store
<1>6. CASE Conclude(s)
  <2>1. CASE Abort(s)
    BY <1>1, <1>6, <2>1 DEF Conclude
  <2>2. CASE /\ syncs' = [syncs EXCEPT ![s].pc = "commit"]
             /\ UNCHANGED <<rawRows, metaRows, stateRows, history, announced>>
    <3>1. PICK q : q = [syncs[s] EXCEPT !.pc = "commit"]
      OBVIOUS
    <3>2. /\ syncs[s].pc = "mail" /\ syncs[s].list \in Seq(BoxMails) /\ syncs[s].i \in Nat
          /\ syncs[s].i > Len(syncs[s].list)
      BY <1>0, <1>6 DEF Conclude, SyncRecord
    <3>3. /\ q \in SyncRecord /\ q.pc = "commit" /\ q.raw = syncs[s].raw /\ q.list = syncs[s].list
          /\ q.meta = syncs[s].meta /\ q.made = syncs[s].made
          /\ syncs' = [syncs EXCEPT ![s] = q] /\ syncs'[s] = q
      BY <1>0, <2>2, <3>1 DEF SyncRecord, SyncStates
    <3>4. \A j \in DOMAIN syncs[s].list : j < syncs[s].i
      BY <3>2
    <3>5. SyncInv(s)'
      BY <1>0, <2>2, <3>2, <3>3, <3>4 DEF SyncInv, Reached, Has
    <3> QED BY <1>0, <1>3, <2>2, <3>2, <3>3, <3>5
  <2> QED BY <1>6, <2>1, <2>2 DEF Conclude
<1>7. CASE Break(s)
  BY <1>1, <1>7 DEF Break, Running
<1> QED BY <1>2, <1>4, <1>5, <1>6, <1>7

\* A commit leaves a whole sync behind; it brings a second row for a mail only
\* together with a second state row.
LEMMA CommitKeeps ==
  ASSUME BoxInv, NEW s \in Syncs, Commit(s) PROVE BoxInv'
<1>1. /\ syncs \in [Syncs -> SyncRecord] /\ syncs[s] \in SyncRecord /\ syncs[s].pc = "commit"
      /\ SyncInv(s) /\ \A u \in Syncs : SyncInv(u)
      /\ stateRows \subseteq Syncs /\ rawRows \subseteq Row /\ announced' = announced
  BY DEF BoxInv, RowsOK, Commit
<1>2. PICK raw \in SUBSET Row : raw = syncs[s].raw /\ rawRows' = rawRows \cup raw
  BY <1>1 DEF Commit, SyncRecord
<1>3. PICK q : q = [syncs[s] EXCEPT !.pc = "done", !.i = 0]
  OBVIOUS
<1>4. /\ q \in SyncRecord /\ q.pc = "done" /\ q.raw = raw /\ q.meta = syncs[s].meta
      /\ q.list = syncs[s].list
  BY <1>1, <1>2, <1>3 DEF SyncRecord, SyncStates
<1>5. /\ syncs' = [syncs EXCEPT ![s] = q] /\ syncs'[s] = q
      /\ \A u \in Syncs \ {s} : syncs'[u] = syncs[u]
  BY <1>1, <1>3 DEF Commit
<1>6. /\ \A r \in raw : r.by = s /\ r \in announced
      /\ \A r \in raw : r.msg \in AllListed(s)
      /\ \A m \in AllListed(s) : Has(rawRows \cup raw, m)
  <2>1. \A j \in DOMAIN syncs[s].list : j < Reached(s)
    <3>1. syncs[s].list \in Seq(BoxMails)
      BY <1>1 DEF SyncRecord
    <3>2. \A j \in DOMAIN syncs[s].list : j < Len(syncs[s].list) + 1
      BY <3>1
    <3> QED BY <1>1, <3>2 DEF Reached
  <2> QED BY <1>1, <1>2, <2>1 DEF SyncInv, AllListed
<1>7. /\ syncs[s].made => stateRows' = stateRows \cup {s}
      /\ ~syncs[s].made => stateRows' = stateRows /\ s \in Holders
  BY <1>1 DEF Commit, Holders, Running
<1>8. RowsOK'
  <2>1. IsFiniteSet(stateRows) /\ IsFiniteSet(stateRows \cup {s})
    BY FS_AddElement DEF BoxInv, RowsOK
  <2>2. IsFiniteSet(stateRows') /\ stateRows' \subseteq Syncs
    BY <1>1, <1>7, <2>1
  <2>3. metaRows' = rawRows'
    BY <1>1, <1>2 DEF Commit, BoxInv, RowsOK, SyncInv
  <2>4. history' \in BoxMails \cup {"none"}
    BY <1>1 DEF Commit, BoxInv, RowsOK, SyncRecord
  <2>5. syncs' \in [Syncs -> SyncRecord]
    BY <1>1, <1>4, <1>5
  <2> QED BY <1>1, <1>2, <1>6, <2>2, <2>3, <2>4, <2>5 DEF BoxInv, RowsOK
<1>9. ASSUME NEW u \in Syncs PROVE SyncInv(u)'
  <2>1. CASE u = s
    BY <1>1, <1>2, <1>4, <1>5, <2>1 DEF SyncInv
  <2>2. CASE u # s
    BY <1>1, <1>2, <1>5, <2>2 DEF SyncInv, Reached, Has
  <2> QED BY <2>1, <2>2
<1>10. WholeSyncs'
  <2>1. Done' = Done \cup {s} /\ s \notin Done
    BY <1>1, <1>4, <1>5 DEF Done
  <2>2. \A u \in Done' : AllListed(u)' = AllListed(u)
    BY <1>4, <1>5 DEF Done, AllListed
  <2> QED BY <1>2, <1>6, <2>1, <2>2 DEF BoxInv, WholeSyncs, Has
<1>11. StateRowInv'
  <2>1. \A u \in stateRows' : syncs'[u].pc = "done"
    BY <1>1, <1>4, <1>5, <1>7 DEF BoxInv, StateRowInv
  <2>2. Holders' \subseteq Holders \ {s} /\ Holders \subseteq Syncs
    BY <1>4, <1>5 DEF Holders, Running
  <2>3. \A u, v \in Holders' : u = v
    BY <2>2 DEF BoxInv, StateRowInv
  <2>4. stateRows' # {}
    BY <1>7 DEF BoxInv, StateRowInv
  <2>5. CASE ~syncs[s].made
    <3>1. Holders' = {} /\ stateRows' = stateRows /\ s \in Holders
      BY <1>7, <2>2, <2>5 DEF BoxInv, StateRowInv
    <3>2. ASSUME OneRow PROVE \A r, x \in rawRows' : r.msg = x.msg => r = x
      <4>1. \A r, x \in raw : r.msg = x.msg => r = x
        BY <1>6 DEF Row
      <4>2. \A r \in raw, x \in rawRows : r.msg # x.msg
        BY <1>2, <3>1, <3>2 DEF BoxInv, StateRowInv, Has
      <4>3. \A r, x \in rawRows : r.msg = x.msg => r = x
        BY <3>2 DEF BoxInv, StateRowInv
      <4> QED BY <1>2, <4>1, <4>2, <4>3
    <3> QED BY <2>1, <2>3, <2>4, <3>1, <3>2 DEF StateRowInv, OneRow
  <2>6. CASE syncs[s].made /\ stateRows = {}
    <3>1. Holders' = {} /\ rawRows' = raw
      BY <1>2, <2>2, <2>6 DEF BoxInv, StateRowInv
    <3>2. \A r, x \in rawRows' : r.msg = x.msg => r = x
      BY <1>6, <3>1 DEF Row
    <3> QED BY <2>1, <2>3, <2>4, <3>1, <3>2 DEF StateRowInv
  <2>7. CASE syncs[s].made /\ stateRows # {}
    <3>1. s \notin stateRows
      BY <1>1 DEF BoxInv, StateRowInv
    <3>2. PICK n \in Nat : n = Cardinality(stateRows) /\ n # 0
      BY <2>7, FS_EmptySet, FS_CardinalityType DEF BoxInv, RowsOK
    <3>3. Cardinality(stateRows \cup {s}) = Cardinality(stateRows) + 1
      BY <3>1, FS_AddElement DEF BoxInv, RowsOK
    <3>4. Cardinality(stateRows') = n + 1
      BY <1>7, <2>7, <3>2, <3>3
    <3>5. ~OneRow'
      BY <3>2, <3>4 DEF OneRow
    <3> QED BY <2>1, <2>3, <2>4, <3>5 DEF StateRowInv
  <2> QED BY <1>1, <2>5, <2>6, <2>7 DEF SyncRecord
<1> QED BY <1>8, <1>9, <1>10, <1>11 DEF BoxInv

\* Concurrent, failing and interrupted syncs leave whole syncs behind, each mail
\* with its metadata and announced, and a second row for a mail only when the first
\* syncs of the account ended together.
THEOREM MailboxSyncCorrect == BoxSpec => []MailboxSyncSound
<1>1. BoxInit => BoxInv
  <2> SUFFICES ASSUME BoxInit PROVE BoxInv
    OBVIOUS
  <2>1. /\ Asked \in SyncRecord /\ Asked.pc = "asked" /\ Asked.raw = {} /\ Asked.meta = {}
        /\ Asked.list = <<>>
    BY EmptySeq DEF Asked, SyncRecord, SyncStates
  <2>2. syncs \in [Syncs -> SyncRecord] /\ \A s \in Syncs : syncs[s] = Asked
    BY <2>1 DEF BoxInit
  <2>3. RowsOK
    BY <2>2, FS_EmptySet DEF BoxInit, RowsOK
  <2>4. \A s \in Syncs : SyncInv(s)
    BY <2>1, <2>2 DEF SyncInv
  <2>5. Done = {} /\ Holders = {}
    BY <2>1, <2>2 DEF Done, Holders, Running
  <2> QED BY <2>3, <2>4, <2>5 DEF BoxInit, BoxInv, WholeSyncs, StateRowInv
<1>2. BoxInv /\ [BoxNext]_boxVars => BoxInv'
  <2> SUFFICES ASSUME BoxInv, [BoxNext]_boxVars PROVE BoxInv'
    OBVIOUS
  <2>1. CASE UNCHANGED boxVars
    <3>1. Holders' = Holders /\ Done' = Done /\ \A s \in Done : AllListed(s)' = AllListed(s)
      BY <2>1 DEF boxVars, Holders, Running, Done, AllListed
    <3>2. \A s \in Syncs : SyncInv(s)'
      BY <2>1 DEF boxVars, BoxInv, SyncInv, Reached, Has
    <3> QED BY <2>1, <3>1, <3>2 DEF boxVars, BoxInv, RowsOK, WholeSyncs, StateRowInv, OneRow, Has
  <2> QED BY <2>1, ProgressKeeps, CommitKeeps DEF BoxNext
<1> QED BY <1>1, <1>2, BoxInvSuffices, PTL DEF BoxSpec

-----------------------------------------------------------------------------
(***************************************************************************)
(* The push endpoint.  A request that waits for a message holds it: the    *)
(* message is marked under the daemon's name, nobody else waits for it and *)
(* it has not been analysed.  Behind a request lie daemons whose messages  *)
(* of the notification are all marked, and at the daemon it visits they    *)
(* are marked or still to be taken.  What is marked is kept.               *)
(***************************************************************************)
Holds(p) == p.pc \in {"fetch", "handle"}
PairOf(p) == <<GmailDaemons[p.di].name, p.msg>>
Matches(i, n) == GmailDaemons[i].addr = Notes[n].addr
Mail(n) == Members(Notes[n].msgs)

RequestOK(p) ==
  /\ p.pc \in {"free", "route", "list", "fetch", "handle"}
  /\ p.pc # "free" =>
       /\ p.note \in DOMAIN Notes /\ p.di \in 0..Len(GmailDaemons) /\ p.todo \in Seq(Mail(p.note))
       /\ p.pc \in {"list", "fetch", "handle"} \/ p.todo # <<>> =>
            p.di \in 1..Len(GmailDaemons) /\ Matches(p.di, p.note)
            /\ Verified(GmailDaemons[p.di], Notes[p.note])
       /\ p.pc = "list" => p.todo = <<>>
       /\ Holds(p) => p.msg \in Mail(p.note)

Behind(p, marks) ==
  p.pc # "free" => \A i \in 1..p.di : Matches(i, p.note) =>
    \/ i = p.di /\ p.pc = "list"
    \/ \A m \in Mail(p.note) : \/ <<GmailDaemons[i].name, m>> \in marks
                               \/ i = p.di /\ m \in Members(p.todo)

AllMarked(n, marks) ==
  \A i \in 1..Len(GmailDaemons) : Matches(i, n) => \A m \in Mail(n) : <<GmailDaemons[i].name, m>> \in marks

\* A letter holds the message, or an envelope that lists it.
InLetters(name, m, ls) ==
  \E l \in ls : l.daemon = name /\ (l.about = m \/ (l.about \in DOMAIN Notes /\ Lists(l.about, m)))

PushesOK ==
  /\ DOMAIN push = Pushes /\ \A r \in Pushes : RequestOK(push[r]) /\ Behind(push[r], marked)
  /\ \A r \in Pushes : Holds(push[r]) => PairOf(push[r]) \in marked \ accepted
  /\ \A r, s \in Pushes : Holds(push[r]) /\ Holds(push[s]) /\ PairOf(push[r]) = PairOf(push[s]) => r = s

MarksOK ==
  \A k \in marked : \E i \in 1..Len(GmailDaemons) :
    k[1] = GmailDaemons[i].name /\ k = <<k[1], k[2]>> /\ Kept(GmailDaemons[i], k[2])

PushInv ==
  /\ PushesOK /\ MarksOK /\ accepted \subseteq marked /\ again = {}
  /\ settled \cup refused \subseteq DOMAIN Notes /\ \A n \in settled : AllMarked(n, marked)

LEMMA PushInvSuffices == PushInv => GmailDelivers
<1> SUFFICES ASSUME PushInv PROVE GmailTypeOK /\ MailAnalysedOnce /\ MailAccountedFor
  BY DEF GmailDelivers
<1>1. GmailTypeOK
  BY DEF PushInv, PushesOK, RequestOK, Matches, GmailTypeOK, Visited, Note
<1>2. MailAnalysedOnce
  BY DEF PushInv, MailAnalysedOnce
<1>3. ASSUME NEW n \in settled, NEW i \in 1..Len(GmailDaemons), GmailDaemons[i].addr = Notes[n].addr,
             NEW j \in 1..Len(Notes[n].msgs)
      PROVE Kept(GmailDaemons[i], Notes[n].msgs[j])
  <2>1. PICK m : m = Notes[n].msgs[j]
    OBVIOUS
  <2>2. m \in Mail(n) /\ n \in DOMAIN Notes
    BY <2>1, NotesAssumption DEF PushInv, Mail, Members
  <2>3. <<GmailDaemons[i].name, m>> \in marked
    BY <1>3, <2>2 DEF PushInv, AllMarked, Matches
  <2>4. PICK k : k = <<GmailDaemons[i].name, m>>
    OBVIOUS
  <2>5. k \in marked /\ k[1] = GmailDaemons[i].name /\ k[2] = m
    BY <2>3, <2>4
  <2>6. PICK h \in 1..Len(GmailDaemons) : k[1] = GmailDaemons[h].name /\ Kept(GmailDaemons[h], k[2])
    BY <2>5 DEF PushInv, MarksOK
  <2>7. h = i
    <3>1. DOMAIN GmailDaemons = 1..Len(GmailDaemons)
      BY DaemonAssumption, LenProperties
    <3> QED BY <2>5, <2>6, <3>1, DaemonAssumption
  <2> QED BY <2>1, <2>5, <2>6, <2>7
<1>4. MailAccountedFor
  BY <1>3 DEF MailAccountedFor
<1> QED BY <1>1, <1>2, <1>4

\* A step of one request keeps the invariant if the message it held is accounted for
\* afterwards, what it marks is what it then holds, and it settles a notification
\* only when all is marked.
LEMMA RequestStep ==
  ASSUME PushInv, NEW r \in Pushes, NEW p, p = push[r], NEW q, push' = [push EXCEPT ![r] = q],
         NEW new, marked' = marked \cup new, new \subseteq (IF Holds(q) THEN {PairOf(q)} ELSE {}),
         RequestOK(q), Behind(q, marked'),
         accepted \subseteq accepted', accepted' \subseteq accepted \cup (IF Holds(p) THEN {PairOf(p)} ELSE {}),
         letters \subseteq letters', again' = {},
         Holds(q) => /\ PairOf(q) \in marked' \ accepted'
                     /\ PairOf(q) \notin marked \/ (Holds(p) /\ PairOf(p) = PairOf(q)),
         Holds(p) => \/ PairOf(p) \in accepted'
                     \/ Holds(q) /\ q.di = p.di /\ q.msg = p.msg
                     \/ InLetters(GmailDaemons[p.di].name, p.msg, letters'),
         settled' \cup refused' \subseteq DOMAIN Notes,
         \A n \in settled' \ settled : AllMarked(n, marked')
  PROVE PushInv'
<1>1. /\ DOMAIN push' = Pushes /\ push'[r] = q /\ \A s \in Pushes \ {r} : push'[s] = push[s]
      /\ \A s \in Pushes : RequestOK(push[s]) /\ Behind(push[s], marked)
      /\ \A s \in Pushes : Holds(push[s]) => PairOf(push[s]) \in marked \ accepted
  BY DEF PushInv, PushesOK
<1>2. PushesOK'
  <2>1. \A s \in Pushes : RequestOK(push'[s]) /\ Behind(push'[s], marked')
    BY <1>1 DEF Behind
  <2>2. \A s \in Pushes \ {r} : Holds(push[s]) => PairOf(push[s]) \in marked' \ accepted'
    BY <1>1 DEF PushInv, PushesOK
  <2>3. \A s \in Pushes \ {r} : Holds(push[s]) /\ Holds(q) => PairOf(push[s]) # PairOf(q)
    BY <1>1 DEF PushInv, PushesOK
  <2> QED BY <1>1, <2>1, <2>2, <2>3 DEF PushInv, PushesOK
<1>3. ASSUME NEW i \in 1..Len(GmailDaemons), NEW m, Kept(GmailDaemons[i], m)
      PROVE Kept(GmailDaemons[i], m)'
  <2>1. CASE <<GmailDaemons[i].name, m>> \in accepted
    BY <2>1 DEF Kept
  <2>2. CASE InLetters(GmailDaemons[i].name, m, letters)
    BY <2>2 DEF Kept, InLetters
  <2>3. ASSUME NEW s \in Pushes, Holds(push[s]), GmailDaemons[push[s].di] = GmailDaemons[i], push[s].msg = m
        PROVE Kept(GmailDaemons[i], m)'
    <3>1. CASE s # r
      BY <1>1, <2>3, <3>1 DEF Kept, Visited, Holds
    <3>2. CASE s = r
      <4>1. CASE PairOf(p) \in accepted'
        BY <2>3, <3>2, <4>1 DEF Kept, PairOf
      <4>2. CASE Holds(q) /\ q.di = p.di /\ q.msg = p.msg
        BY <1>1, <2>3, <3>2, <4>2 DEF Kept, Visited, Holds
      <4>3. CASE InLetters(GmailDaemons[p.di].name, p.msg, letters')
        BY <2>3, <3>2, <4>3 DEF Kept, InLetters
      <4> QED BY <2>3, <3>2, <4>1, <4>2, <4>3
    <3> QED BY <3>1, <3>2
  <2> QED BY <1>3, <2>1, <2>2, <2>3 DEF Kept, InLetters, Visited, Holds
<1>4. MarksOK'
  <2>1. \A k \in marked : \E i \in 1..Len(GmailDaemons) :
          k[1] = GmailDaemons[i].name /\ k = <<k[1], k[2]>> /\ Kept(GmailDaemons[i], k[2])'
    BY <1>3 DEF PushInv, MarksOK
  <2>2. ASSUME Holds(q)
        PROVE \E i \in 1..Len(GmailDaemons) : PairOf(q)[1] = GmailDaemons[i].name
                /\ PairOf(q) = <<PairOf(q)[1], PairOf(q)[2]>> /\ Kept(GmailDaemons[i], PairOf(q)[2])'
    <3>1. q.di \in 1..Len(GmailDaemons)
      BY <2>2 DEF RequestOK, Holds
    <3>2. Kept(GmailDaemons[q.di], q.msg)'
      BY <1>1, <2>2 DEF Kept, Visited, Holds
    <3> QED BY <3>1, <3>2 DEF PairOf
  <2> QED BY <2>1, <2>2 DEF MarksOK
<1>5. accepted' \subseteq marked' /\ \A n \in settled' : AllMarked(n, marked')
  BY <1>1 DEF PushInv, AllMarked
<1> QED BY <1>2, <1>4, <1>5 DEF PushInv

\* What each step of a request does, in the terms of RequestStep: only TakeMail marks,
\* only HandledMail accepts, only AcceptPush settles.
LEMMA HandlingKeeps == ASSUME PushInv, NEW r \in Pushes, Handling(r) PROVE PushInv'
<1>1. PICK p : p = push[r]
  OBVIOUS
<1>2. /\ RequestOK(p) /\ Behind(p, marked) /\ again = {} /\ accepted \subseteq marked
      /\ Holds(p) => PairOf(p) \in marked \ accepted
      /\ settled \cup refused \subseteq DOMAIN Notes
  BY <1>1 DEF PushInv, PushesOK
<1>3. PICK n \in Nat : n = Len(GmailDaemons)
  BY DaemonAssumption, LenProperties
<1>4. \A ms : RequestOK(Free) /\ Behind(Free, ms) /\ ~Holds(Free)
  BY DEF RequestOK, Behind, Holds, Free
<1>5. CASE NextDaemon(r)
  <2>1. PICK q : q = [pc |-> IF Matches(p.di + 1, p.note) THEN "list" ELSE "route", note |-> p.note,
                      di |-> p.di + 1, todo |-> <<>>, msg |-> "none"]
    OBVIOUS
  <2>2. push' = [push EXCEPT ![r] = q]
    BY <1>1, <1>5, <2>1 DEF NextDaemon, Set, Note, Matches
  <2>3. p.pc = "route" /\ p.todo = <<>> /\ p.di \in 0..n /\ p.di < n /\ p.note \in DOMAIN Notes
        /\ Verified(GmailDaemons[p.di + 1], Notes[p.note])
    BY <1>1, <1>2, <1>3, <1>5 DEF NextDaemon, RequestOK, Note
  <2>4. q.di \in 1..n /\ q.di = p.di + 1 /\ q.note = p.note /\ q.todo = <<>> /\ q.pc \in {"list", "route"}
        /\ (q.pc = "list" <=> Matches(q.di, q.note)) /\ Verified(GmailDaemons[q.di], Notes[q.note])
    BY <2>1, <2>3
  <2>5. RequestOK(q) /\ ~Holds(q)
    BY <1>3, <2>3, <2>4, EmptySeq DEF RequestOK, Holds
  <2>6. Behind(q, marked)
    <3>1. Members(<<>>) = {}
      BY DEF Members
    <3>2. ASSUME NEW i \in 1..q.di, Matches(i, q.note), i # q.di
          PROVE \A m \in Mail(q.note) : <<GmailDaemons[i].name, m>> \in marked
      <4>1. i \in 1..p.di
        BY <2>3, <2>4, <3>2
      <4> QED BY <1>2, <2>3, <2>4, <3>1, <3>2, <4>1 DEF Behind
    <3> QED BY <2>4, <3>2 DEF Behind
  <2>7. UNCHANGED <<marked, accepted, again, letters, settled, refused>> /\ ~Holds(p)
    BY <1>5, <2>3 DEF NextDaemon, Holds
  <2>8. marked' = marked \cup {}
    BY <2>7
  <2> QED BY <1>1, <1>2, <2>2, <2>5, <2>6, <2>7, <2>8, RequestStep
<1>6. CASE Listed(r)
  <2>1. PICK q : q = [pc |-> "route", note |-> p.note, di |-> p.di, todo |-> Notes[p.note].msgs, msg |-> "none"]
    OBVIOUS
  <2>2. push' = [push EXCEPT ![r] = q] /\ p.pc = "list"
    BY <1>1, <1>6, <2>1 DEF Listed, Set, Note
  <2>3. RequestOK(q) /\ ~Holds(q)
    BY <1>2, <2>1, <2>2, NotesAssumption DEF RequestOK, Holds, Mail
  <2>4. Behind(q, marked)
    BY <1>2, <2>1, <2>2 DEF Behind, Mail
  <2>5. UNCHANGED <<marked, accepted, again, letters, settled, refused>> /\ ~Holds(p)
    BY <1>6, <2>2 DEF Listed, Holds
  <2>6. marked' = marked \cup {}
    BY <2>5
  <2> QED BY <1>1, <1>2, <2>2, <2>3, <2>4, <2>5, <2>6, RequestStep
<1>7. CASE Refuse(r)
  <2>1. push' = [push EXCEPT ![r] = Free] /\ p.pc = "route"
    BY <1>1, <1>7 DEF Refuse
  <2>2. UNCHANGED <<marked, accepted, again, letters, settled>> /\ ~Holds(p)
        /\ refused' \subseteq DOMAIN Notes
    BY <1>1, <1>2, <1>7, <2>1 DEF Refuse, Holds, RequestOK
  <2>3. marked' = marked \cup {}
    BY <2>2
  <2> QED BY <1>1, <1>2, <1>4, <2>1, <2>2, <2>3, RequestStep
<1>8. CASE Suppress(r) \/ TakeMail(r)
  <2>1. PICK m, rest : m = Head(p.todo) /\ rest = Tail(p.todo)
    OBVIOUS
  <2>2. p.pc = "route" /\ p.todo # <<>> /\ p.todo \in Seq(Mail(p.note)) /\ p.note \in DOMAIN Notes
        /\ p.di \in 1..n /\ Matches(p.di, p.note) /\ Verified(GmailDaemons[p.di], Notes[p.note])
    BY <1>1, <1>2, <1>3, <1>8 DEF Suppress, TakeMail, RequestOK
  <2>3. m \in Mail(p.note) /\ rest \in Seq(Mail(p.note))
    BY <2>1, <2>2, HeadTailProperties
  <2>4. Members(p.todo) \subseteq Members(rest) \cup {m}
    <3>1. PICK S : S = Mail(p.note)
      OBVIOUS
    <3>2. PICK t : t = p.todo
      OBVIOUS
    <3>3. t \in Seq(S) /\ t # <<>> /\ m = Head(t) /\ rest = Tail(t)
      BY <2>1, <2>2, <3>1, <3>2
    <3>4. PICK k \in Nat : k = Len(t) /\ k # 0
      BY <3>3, LenProperties, EmptySeq
    <3>5. DOMAIN t = 1..k /\ rest \in Seq(S) /\ Len(rest) = k - 1 /\ m = t[1]
          /\ \A j \in 1..k-1 : rest[j] = t[j+1]
      BY <3>3, <3>4, LenProperties, HeadTailProperties
    <3>6. DOMAIN rest = 1..k-1
      BY <3>5, LenProperties
    <3>7. ASSUME NEW j \in 1..k, j # 1 PROVE t[j] \in Members(rest)
      <4>1. j - 1 \in 1..k-1 /\ rest[j - 1] = t[j]
        BY <3>4, <3>5, <3>7
      <4> QED BY <3>6, <4>1 DEF Members
    <3> QED BY <3>2, <3>5, <3>7 DEF Members
  <2>5. CASE Suppress(r)
    <3>1. PICK q : q = [pc |-> "route", note |-> p.note, di |-> p.di, todo |-> rest, msg |-> "none"]
      OBVIOUS
    <3>2. push' = [push EXCEPT ![r] = q] /\ <<GmailDaemons[p.di].name, m>> \in marked
      BY <1>1, <2>1, <2>5, <3>1 DEF Suppress, Set, Visited
    <3>3. RequestOK(q) /\ ~Holds(q)
      BY <1>3, <2>2, <2>3, <3>1 DEF RequestOK, Holds
    <3>4. Behind(q, marked)
      BY <1>2, <2>2, <2>4, <3>1, <3>2 DEF Behind
    <3>5. UNCHANGED <<marked, accepted, again, letters, settled, refused>> /\ ~Holds(p)
      BY <2>2, <2>5 DEF Suppress, Holds
    <3>6. marked' = marked \cup {}
      BY <3>5
    <3> QED BY <1>1, <1>2, <3>2, <3>3, <3>4, <3>5, <3>6, RequestStep
  <2>6. CASE TakeMail(r)
    <3>1. PICK q : q = [pc |-> "fetch", note |-> p.note, di |-> p.di, todo |-> rest, msg |-> m]
      OBVIOUS
    <3>2. push' = [push EXCEPT ![r] = q]
      BY <1>1, <2>1, <2>6, <3>1 DEF TakeMail, Set
    <3>3. RequestOK(q) /\ Holds(q) /\ PairOf(q) = <<GmailDaemons[p.di].name, m>>
      BY <1>3, <2>2, <2>3, <3>1 DEF RequestOK, Holds, PairOf
    <3>4. marked' = marked \cup {PairOf(q)} /\ PairOf(q) \notin marked
      BY <1>1, <2>1, <2>6, <3>3 DEF TakeMail, Visited
    <3>5. Behind(q, marked')
      BY <1>2, <2>2, <2>4, <3>1, <3>3, <3>4 DEF Behind
    <3>6. UNCHANGED <<accepted, again, letters, settled, refused>> /\ ~Holds(p)
      BY <2>2, <2>6 DEF TakeMail, Holds
    <3>7. PairOf(q) \in marked' \ accepted'
      BY <1>2, <3>4, <3>6
    <3> QED BY <1>1, <1>2, <3>2, <3>3, <3>4, <3>5, <3>6, <3>7, RequestStep
  <2> QED BY <1>8, <2>5, <2>6
<1>9. CASE Fetched(r)
  <2>1. PICK q : q = [pc |-> "handle", note |-> p.note, di |-> p.di, todo |-> p.todo, msg |-> p.msg]
    OBVIOUS
  <2>2. push' = [push EXCEPT ![r] = q] /\ p.pc = "fetch"
    BY <1>1, <1>9, <2>1 DEF Fetched, Set
  <2>3. RequestOK(q) /\ Holds(q) /\ Holds(p) /\ PairOf(q) = PairOf(p)
    BY <1>2, <2>1, <2>2 DEF RequestOK, Holds, PairOf
  <2>4. Behind(q, marked)
    BY <1>2, <2>1, <2>2 DEF Behind
  <2>5. UNCHANGED <<marked, accepted, again, letters, settled, refused>>
    BY <1>9 DEF Fetched
  <2>6. marked' = marked \cup {} /\ q.di = p.di /\ q.msg = p.msg
    BY <2>1, <2>5
  <2> QED BY <1>1, <1>2, <2>2, <2>3, <2>4, <2>5, <2>6, RequestStep
<1>10. CASE FetchFailsMail(r) \/ ListFails(r) \/ PipelineFailsMail(r)
  <2>1. /\ push' = [push EXCEPT ![r] = Free] /\ UNCHANGED <<marked, accepted, again, settled, refused>>
        /\ letters \subseteq letters'
        /\ [daemon |-> GmailDaemons[p.di].name, about |-> p.note] \in letters'
    BY <1>1, <1>10 DEF FetchFailsMail, ListFails, PipelineFailsMail, FailPush, Visited
  <2>2. ASSUME Holds(p) PROVE InLetters(GmailDaemons[p.di].name, p.msg, letters')
    <3>1. p.note \in DOMAIN Notes /\ p.msg \in Mail(p.note)
      BY <1>2, <2>2 DEF RequestOK, Holds
    <3>2. DOMAIN Notes[p.note].msgs = 1..Len(Notes[p.note].msgs)
      BY <3>1, NotesAssumption, LenProperties
    <3>3. Lists(p.note, p.msg)
      BY <3>1, <3>2 DEF Lists, Mail, Members
    <3> QED BY <2>1, <3>1, <3>3 DEF InLetters
  <2>3. marked' = marked \cup {}
    BY <2>1
  <2> QED BY <1>1, <1>2, <1>4, <2>1, <2>2, <2>3, RequestStep
<1>11. CASE HandledMail(r)
  <2>1. PICK q : q = [pc |-> "route", note |-> p.note, di |-> p.di, todo |-> p.todo, msg |-> "none"]
    OBVIOUS
  <2>2. push' = [push EXCEPT ![r] = q] /\ p.pc = "handle" /\ Holds(p)
    BY <1>1, <1>11, <2>1 DEF HandledMail, Set, Holds
  <2>3. RequestOK(q) /\ ~Holds(q)
    BY <1>2, <2>1, <2>2 DEF RequestOK, Holds
  <2>4. Behind(q, marked)
    BY <1>2, <2>1, <2>2 DEF Behind
  <2>5. accepted' = accepted \cup {PairOf(p)} /\ again' = again \cup (accepted \cap {PairOf(p)})
        /\ UNCHANGED <<marked, letters, settled, refused>>
    BY <1>1, <1>11 DEF HandledMail, Visited, PairOf
  <2>6. again' = {} /\ marked' = marked \cup {}
    BY <1>2, <2>2, <2>5
  <2> QED BY <1>1, <1>2, <2>2, <2>3, <2>4, <2>5, <2>6, RequestStep
<1>12. CASE AcceptPush(r)
  <2>1. push' = [push EXCEPT ![r] = Free] /\ p.pc = "route" /\ p.todo = <<>> /\ p.di = Len(GmailDaemons)
        /\ p.note \in DOMAIN Notes
    BY <1>1, <1>2, <1>12 DEF AcceptPush, RequestOK
  <2>2. AllMarked(p.note, marked)
    BY <1>2, <2>1 DEF Behind, AllMarked, Members
  <2>3. UNCHANGED <<marked, accepted, again, letters, refused>> /\ settled' = settled \cup {p.note} /\ ~Holds(p)
    BY <1>1, <1>12, <2>1 DEF AcceptPush, Holds
  <2>4. marked' = marked \cup {} /\ settled' \cup refused' \subseteq DOMAIN Notes
        /\ \A k \in settled' \ settled : AllMarked(k, marked')
    BY <1>2, <2>1, <2>2, <2>3
  <2> QED BY <1>1, <1>2, <1>4, <2>1, <2>3, <2>4, RequestStep
<1> QED BY <1>5, <1>6, <1>7, <1>8, <1>9, <1>10, <1>11, <1>12 DEF Handling

\* Overlapping deliveries of a notification, failing at any step, have each message
\* analysed at most once, and a notification that is answered 200 has every message
\* of every daemon it names analysed, in work or quarantined.
THEOREM PushCorrect == GmailSpec => []GmailDelivers
<1>1. GmailInit => PushInv
  BY DEF GmailInit, PushInv, PushesOK, MarksOK, RequestOK, Behind, Holds, Free
<1>2. PushInv /\ [GmailNext]_gmailVars => PushInv'
  <2> SUFFICES ASSUME PushInv, [GmailNext]_gmailVars PROVE PushInv'
    OBVIOUS
  <2>1. ASSUME NEW n \in DOMAIN Notes, NEW r \in Pushes, Push(r, n) PROVE PushInv'
    <3>1. PICK p, q : p = push[r] /\ q = [Free EXCEPT !.pc = "route", !.note = n]
      OBVIOUS
    <3>2. q.pc = "route" /\ q.note = n /\ q.di = 0 /\ q.todo = <<>>
      BY <3>1 DEF Free
    <3>3. PICK k \in Nat : k = Len(GmailDaemons)
      BY DaemonAssumption, LenProperties
    <3>4. RequestOK(q) /\ Behind(q, marked) /\ ~Holds(q)
      BY <3>2, <3>3, EmptySeq DEF RequestOK, Behind, Holds
    <3>5. push' = [push EXCEPT ![r] = q] /\ ~Holds(p) /\ again' = {}
          /\ UNCHANGED <<marked, accepted, letters, settled, refused>> /\ marked' = marked \cup {}
      BY <2>1, <3>1 DEF Push, Holds, PushInv
    <3>6. settled' \cup refused' \subseteq DOMAIN Notes
      BY <3>5 DEF PushInv
    <3> QED BY <3>1, <3>4, <3>5, <3>6, RequestStep
  <2>2. CASE UNCHANGED gmailVars
    BY <2>2 DEF gmailVars, PushInv, PushesOK, MarksOK, Kept, Visited
  <2> QED BY <2>1, <2>2, HandlingKeeps DEF GmailNext, Redeliver
<1> QED BY <1>1, <1>2, PushInvSuffices, PTL DEF GmailSpec

-----------------------------------------------------------------------------
(***************************************************************************)
(* The IMAP daemon.  While the mailbox was not renumbered a number is the  *)
(* name of a message: what is marked under it was handed over, kept, or is *)
(* being handed over, and the mark lasts a TTL beyond every time that the  *)
(* message was handed over.                                                *)
(***************************************************************************)
Delivered(m) == (\E h \in handed : h[1] = m) \/ m \in kept

DaemonOK ==
  /\ ImapTypeOK /\ imapClock \in Nat

BoxOK ==
  /\ inbox \in Seq(Mails) /\ \A i \in DOMAIN inbox : inbox[i] \in arrived
  /\ \A i, j \in DOMAIN inbox : inbox[i] = inbox[j] => i = j
  /\ batch \subseteq [num : Nat, mail : Mails]
  /\ \A e \in batch : e.num \in DOMAIN inbox /\ inbox[e.num] = e.mail
  /\ DOMAIN seen \subseteq DOMAIN inbox /\ \A n \in DOMAIN seen : seen[n] \in Nat
  /\ loop = "handle" => Current.num \in DOMAIN seen /\ seen[Current.num] >= SeenTtl

HandedOK ==
  /\ \A h \in handed : h = <<h[1], h[2]>> /\ h[2] \in Nat
  /\ \A h \in handed : \E n \in DOMAIN seen : inbox[n] = h[1] /\ h[2] + SeenTtl <= seen[n]
  /\ loop = "handle" => \A h \in handed : h[1] = Current.mail => h[2] + SeenTtl + SeenTtl <= seen[Current.num]
  /\ \A g, h \in handed : g[1] = h[1] /\ g # h => g[2] - h[2] >= SeenTtl \/ h[2] - g[2] >= SeenTtl

MarkedOK ==
  /\ \A n \in DOMAIN seen : Delivered(inbox[n]) \/ (loop = "handle" /\ n = Current.num)
  /\ \A i \in DOMAIN inbox : inbox[i] \in unseen \/ Delivered(inbox[i]) \/ \E e \in batch : e.mail = inbox[i]

ImapInv ==
  /\ DaemonOK
  /\ "renumbered" \notin faults => BoxOK /\ HandedOK
  /\ faults = {} => MarkedOK

\* The messages of a batch are taken in the order of their numbers.
LEMMA CurrentIsOfBatch ==
  ASSUME batch \subseteq [num : Nat, mail : Mails], batch # {} PROVE Current \in batch
<1>1. PICK S : S = {e.num : e \in batch}
  OBVIOUS
<1>2. S \in SUBSET Nat /\ S # {}
  BY <1>1
<1>3. PICK l \in S : \A k \in S : ~(<<k, l>> \in OpToRel(<, Nat))
  BY <1>2, WFMin, NatLessThanWellFounded, Zenon
<1>4. PICK e \in batch : e.num = l
  BY <1>1
<1>5. ASSUME NEW f \in batch PROVE e.num <= f.num
  <2>1. f.num \in S /\ f.num \in Nat /\ l \in Nat
    BY <1>1, <1>2
  <2>2. ~(f.num < l)
    BY <1>3, <2>1 DEF OpToRel
  <2> QED BY <1>4, <2>1, <2>2
<1> QED BY <1>4, <1>5 DEF Current

\* The invariant gives the three properties.
LEMMA ImapInvSuffices == ImapInv => ImapDelivers
<1> SUFFICES ASSUME ImapInv PROVE ImapDelivers
  OBVIOUS
<1>1. NothingLostWithoutFault
  <2> SUFFICES ASSUME faults = {}, NEW m \in Range(inbox) \ unseen
               PROVE  (\E h \in handed : h[1] = m) \/ m \in kept \/ \E e \in batch : e.mail = m
    BY DEF NothingLostWithoutFault
  <2>1. PICK i \in DOMAIN inbox : inbox[i] = m
    BY DEF Range
  <2> QED BY <2>1 DEF ImapInv, MarkedOK, Delivered
<1>2. HandedOncePerTtl
  BY DEF ImapInv, HandedOK, HandedOncePerTtl
<1> QED BY <1>1, <1>2 DEF ImapInv, DaemonOK, ImapDelivers

\* A step that leaves mailbox, batch and marks alone, and does not begin or end
\* a delivery.
LEMMA BoxFrame ==
  ASSUME BoxOK, UNCHANGED <<inbox, arrived, batch, seen>>, loop' = "handle" <=> loop = "handle"
  PROVE  BoxOK'
BY DEF BoxOK, Current

LEMMA HandedFrame ==
  ASSUME HandedOK, UNCHANGED <<inbox, batch, seen, handed>>, loop' = "handle" <=> loop = "handle"
  PROVE  HandedOK'
BY DEF HandedOK, Current

LEMMA MarkedFrame ==
  ASSUME MarkedOK, UNCHANGED <<inbox, batch, seen, handed, kept>>, unseen \subseteq unseen',
         loop' = "handle" <=> loop = "handle"
  PROVE  MarkedOK'
BY DEF MarkedOK, Current, Delivered

\* The except clause forgets the batch.
LEMMA FailKeepsType ==
  ASSUME DaemonOK, NEW why, Fail(why), UNCHANGED imapClock PROVE DaemonOK'
<1>1. failures \in Nat /\ MaxFailures \in Nat /\ failures <= MaxFailures
  BY FailuresAssumption DEF DaemonOK, ImapTypeOK
<1>2. PICK a : a = failures + 1
  OBVIOUS
<1>3. PICK x \in {a, MaxFailures} : \A y \in {a, MaxFailures} : x =< y
  BY <1>1, <1>2
<1>4. Min({a, MaxFailures}) \in {a, MaxFailures} /\ \A y \in {a, MaxFailures} : Min({a, MaxFailures}) =< y
  BY <1>3, Zenon DEF Min
<1>5. failures' \in 0..MaxFailures
  BY <1>1, <1>2, <1>4 DEF Fail
<1> QED BY <1>5 DEF DaemonOK, ImapTypeOK, Fail

\* Nothing is in a batch that is empty.
LEMMA BoxEmptied ==
  ASSUME BoxOK, UNCHANGED <<inbox, arrived, seen>>, batch' = {}, loop' # "handle"
  PROVE  BoxOK'
BY DEF BoxOK

LEMMA HandedEmptied ==
  ASSUME HandedOK, UNCHANGED <<inbox, seen, handed>>, loop' # "handle"
  PROVE  HandedOK'
BY DEF HandedOK

\* A message arrives: it has the next number, and is unseen.
LEMMA ArriveKeeps == ASSUME ImapInv, NEW m \in Mails, Arrive(m) PROVE ImapInv'
<1>0. /\ m \notin arrived /\ arrived' = arrived \cup {m} /\ inbox' = Append(inbox, m) /\ unseen' = unseen \cup {m}
      /\ UNCHANGED <<loop, client, batch, failures, seen, imapClock, handed, kept, faults>>
  BY DEF Arrive
<1>1. DaemonOK'
  BY <1>0 DEF ImapInv, DaemonOK, ImapTypeOK
<1>2. ASSUME "renumbered" \notin faults PROVE BoxOK' /\ HandedOK' /\ (MarkedOK => MarkedOK')
  <2>0. BoxOK /\ HandedOK
    BY <1>2 DEF ImapInv
  <2>1. PICK n \in Nat : n = Len(inbox) /\ inbox \in Seq(Mails) /\ DOMAIN inbox = 1..n
    BY <2>0, LenProperties DEF BoxOK
  <2>2. /\ inbox' \in Seq(Mails) /\ DOMAIN inbox' = 1..(n + 1) /\ inbox'[n + 1] = m
        /\ \A i \in 1..n : inbox'[i] = inbox[i]
    <3>1. Append(inbox, m) \in Seq(Mails) /\ Len(Append(inbox, m)) = n + 1 /\ Append(inbox, m)[n + 1] = m
          /\ \A i \in 1..n : Append(inbox, m)[i] = inbox[i]
      BY <2>1, AppendProperties
    <3>2. DOMAIN Append(inbox, m) = 1..(n + 1)
      BY <3>1, LenProperties
    <3> QED BY <1>0, <3>1, <3>2
  <2>3. \A i \in DOMAIN inbox : i \in DOMAIN inbox' /\ inbox'[i] = inbox[i]
    BY <2>1, <2>2
  <2>4. \A i \in DOMAIN inbox' : i \in DOMAIN inbox \/ (i = n + 1 /\ inbox'[i] = m)
    BY <2>1, <2>2
  <2>5. \A i \in DOMAIN inbox : inbox[i] # m
    BY <1>0, <2>0 DEF BoxOK
  <2>6. \A i, j \in DOMAIN inbox' : inbox'[i] = inbox'[j] => i = j
    BY <2>0, <2>3, <2>4, <2>5 DEF BoxOK
  <2>7. \A i \in DOMAIN inbox' : inbox'[i] \in arrived'
    BY <1>0, <2>0, <2>3, <2>4 DEF BoxOK
  <2>8. Current' = Current
    BY <1>0 DEF Current
  <2>9. BoxOK'
    BY <1>0, <2>0, <2>2, <2>3, <2>6, <2>7, <2>8 DEF BoxOK
  <2>10. \A k \in DOMAIN seen : k \in DOMAIN inbox
    BY <2>0 DEF BoxOK
  <2>11. HandedOK'
    BY <1>0, <2>0, <2>3, <2>8, <2>10 DEF HandedOK
  <2>12. MarkedOK => MarkedOK'
    BY <1>0, <2>3, <2>4, <2>8, <2>10 DEF MarkedOK, Delivered
  <2> QED BY <2>9, <2>11, <2>12
<1> QED BY <1>0, <1>1, <1>2 DEF ImapInv

\* Another client deletes a message or marks one unread, or time passes.
LEMMA OthersKeep ==
  ASSUME ImapInv, Pass \/ \E m \in Mails : Expunge(m) \/ Unread(m) PROVE ImapInv'
<1>1. CASE \E m \in Mails : Expunge(m)
  <2>1. "renumbered" \in faults' /\ UNCHANGED <<loop, client, batch, failures, imapClock>>
    BY <1>1 DEF Expunge
  <2> QED BY <2>1 DEF ImapInv, DaemonOK, ImapTypeOK
<1>2. CASE \E m \in Mails : Unread(m)
  <2>1. unseen \subseteq unseen'
        /\ UNCHANGED <<inbox, arrived, loop, client, batch, failures, seen, imapClock, handed, kept, faults>>
    BY <1>2 DEF Unread
  <2> QED BY <2>1, BoxFrame, HandedFrame, MarkedFrame DEF ImapInv, DaemonOK, ImapTypeOK
<1>3. CASE Pass
  <2>1. imapClock' = imapClock + 1
        /\ UNCHANGED <<inbox, arrived, unseen, loop, client, batch, failures, seen, handed, kept, faults>>
    BY <1>3 DEF Pass, server
  <2>2. DaemonOK'
    BY <2>1 DEF ImapInv, DaemonOK, ImapTypeOK
  <2> QED BY <2>1, <2>2, BoxFrame, HandedFrame, MarkedFrame DEF ImapInv
<1> QED BY <1>1, <1>2, <1>3

\* The loop turns without touching a message.
LEMMA TurnsKeep ==
  ASSUME ImapInv, start \/ Connect \/ Reuse \/ Drops \/ Sleep \/ Wake PROVE ImapInv'
<1>1. /\ UNCHANGED <<inbox, arrived, unseen, batch, seen, imapClock, handed, kept, faults>>
      /\ loop' = "handle" <=> loop = "handle"
  BY DEF start, Connect, Reuse, Drops, Sleep, Wake, server
<1>2. DaemonOK'
  BY FailuresAssumption DEF ImapInv, DaemonOK, ImapTypeOK, start, Connect, Reuse, Drops, Sleep, Wake
<1> QED BY <1>1, <1>2, BoxFrame, HandedFrame, MarkedFrame DEF ImapInv

\* The connection cannot be made, or breaks during a fetch.
LEMMA BreaksKeep == ASSUME ImapInv, ConnectFails \/ FetchBreaks PROVE ImapInv'
<1>1. PICK why : /\ Fail(why) /\ UNCHANGED <<inbox, arrived, seen, imapClock, handed, kept>>
                 /\ why = {} => unseen' = unseen
                 /\ loop \in {"top", "fetch"}
  <2>1. CASE ConnectFails
    BY <2>1 DEF ConnectFails, server
  <2>2. CASE FetchBreaks
    <3>1. PICK got : unseen' = unseen \ got /\ Fail(IF got = {} THEN {} ELSE {"cut short"})
      BY <2>2 DEF FetchBreaks
    <3>2. UNCHANGED <<inbox, arrived, seen, imapClock, handed, kept>> /\ loop = "fetch"
      BY <2>2 DEF FetchBreaks
    <3> QED BY <3>1, <3>2
  <2> QED BY <2>1, <2>2
<1>2. batch = {} /\ batch' = {} /\ loop' = "backoff" /\ faults' = faults \cup why
  BY <1>1 DEF Fail, ImapInv, DaemonOK, ImapTypeOK
<1>3. DaemonOK'
  BY <1>1, FailKeepsType DEF ImapInv
<1>4. ASSUME "renumbered" \notin faults' PROVE BoxOK' /\ HandedOK'
  BY <1>1, <1>2, <1>4, BoxEmptied, HandedEmptied DEF ImapInv
<1>5. ASSUME faults' = {} PROVE MarkedOK'
  BY <1>1, <1>2, <1>5, MarkedFrame DEF ImapInv
<1> QED BY <1>3, <1>4, <1>5 DEF ImapInv

\* The unseen messages are fetched.
LEMMA FetchKeeps == ASSUME ImapInv, Fetch PROVE ImapInv'
<1>1. PICK got \in SUBSET unseen : batch' = Numbered(got) /\ unseen' = unseen \ got
  BY DEF Fetch
<1>2. /\ loop = "fetch" /\ loop' = "process"
      /\ UNCHANGED <<inbox, arrived, client, failures, seen, imapClock, handed, kept, faults>>
  BY DEF Fetch
<1>3. DaemonOK'
  BY <1>2 DEF ImapInv, DaemonOK, ImapTypeOK
<1>4. batch = {}
  BY <1>2 DEF ImapInv, DaemonOK, ImapTypeOK
<1>5. ASSUME "renumbered" \notin faults PROVE BoxOK' /\ HandedOK'
  <2>0. BoxOK /\ HandedOK
    BY <1>5 DEF ImapInv
  <2>1. \A i \in DOMAIN inbox : i \in Nat /\ inbox[i] \in Mails
    BY <2>0, LenProperties, ElementOfSeq DEF BoxOK
  <2>2. \A e \in batch' : /\ e \in [num : Nat, mail : Mails]
                         /\ e.num \in DOMAIN inbox /\ inbox[e.num] = e.mail
    BY <1>1, <2>1 DEF Numbered
  <2>3. BoxOK'
    BY <1>2, <2>0, <2>2 DEF BoxOK
  <2> QED BY <1>2, <2>0, <2>3, HandedEmptied
<1>6. ASSUME faults = {} PROVE MarkedOK'
  <2>1. ASSUME NEW i \in DOMAIN inbox, inbox[i] \notin unseen', ~Delivered(inbox[i])
        PROVE  \E e \in batch' : e.mail = inbox[i]
    <3>1. inbox[i] \in got
      BY <1>1, <1>4, <1>6, <2>1 DEF ImapInv, MarkedOK
    <3>2. [num |-> i, mail |-> inbox[i]] \in batch'
      BY <1>1, <3>1 DEF Numbered
    <3> QED BY <3>2
  <2>2. \A n \in DOMAIN seen : Delivered(inbox[n])
    BY <1>2, <1>6 DEF ImapInv, MarkedOK
  <2>3. \A x : Delivered(x)' <=> Delivered(x)
    BY <1>2 DEF Delivered
  <2> QED BY <1>2, <2>1, <2>2, <2>3 DEF MarkedOK, Delivered
<1> QED BY <1>2, <1>3, <1>5, <1>6 DEF ImapInv

\* A number is marked: what was marked under it before has run out.
LEMMA ProcessKeeps == ASSUME ImapInv, Process PROVE ImapInv'
<1> USE SeenTtlAssumption
<1>0. PICK c : c = Current
  OBVIOUS
<1>1. /\ loop = "process" /\ batch # {} /\ ~Live(seen, c.num, imapClock)
      /\ seen' = Put(seen, c.num, imapClock + SeenTtl)
      /\ UNCHANGED <<inbox, arrived, unseen, imapClock, handed, kept>>
  BY <1>0 DEF Process, server
<1>2. \/ Fail({"too large"} \cup Rest)
      \/ loop' = "handle" /\ UNCHANGED <<client, batch, failures, faults>>
  BY DEF Process
<1>c. imapClock \in Nat
  BY DEF ImapInv, DaemonOK
<1>3. DaemonOK'
  <2>1. CASE Fail({"too large"} \cup Rest)
    BY <1>1, <2>1, FailKeepsType DEF ImapInv
  <2>2. CASE loop' = "handle" /\ UNCHANGED <<client, batch, failures, faults>>
    BY <1>1, <2>2 DEF ImapInv, DaemonOK, ImapTypeOK
  <2> QED BY <1>2, <2>1, <2>2
<1>4. faults \subseteq faults' /\ (Fail({"too large"} \cup Rest) => faults' # {})
  BY <1>2 DEF Fail
<1>5. ASSUME "renumbered" \notin faults' PROVE BoxOK' /\ HandedOK'
  <2>0. BoxOK /\ HandedOK
    BY <1>4, <1>5 DEF ImapInv
  <2>1. c \in batch /\ c.num \in DOMAIN inbox /\ inbox[c.num] = c.mail
    BY <1>0, <1>1, <2>0, CurrentIsOfBatch DEF BoxOK
  <2>2. /\ DOMAIN seen' = DOMAIN seen \cup {c.num} /\ seen'[c.num] = imapClock + SeenTtl
        /\ \A n \in DOMAIN seen : n # c.num => seen'[n] = seen[n]
    BY <1>1 DEF Put
  <2>3. c.num \in DOMAIN seen => seen[c.num] <= imapClock
    BY <1>1, <1>c, <2>0 DEF Live, BoxOK
  <2>4. DOMAIN seen' \subseteq DOMAIN inbox /\ \A n \in DOMAIN seen' : seen'[n] \in Nat
    BY <1>c, <2>0, <2>1, <2>2 DEF BoxOK
  <2>5. ASSUME NEW h \in handed
        PROVE /\ \E n \in DOMAIN seen' : inbox[n] = h[1] /\ h[2] + SeenTtl <= seen'[n]
              /\ h[1] = c.mail => h[2] + SeenTtl + SeenTtl <= seen'[c.num]
    <3>1. PICK n \in DOMAIN seen : inbox[n] = h[1] /\ h[2] + SeenTtl <= seen[n]
      BY <2>0 DEF HandedOK
    <3>2. h[2] \in Nat /\ seen[n] \in Nat /\ n \in DOMAIN inbox
      BY <2>0 DEF HandedOK, BoxOK
    <3>3. CASE n = c.num
      BY <1>c, <2>2, <2>3, <3>1, <3>2, <3>3
    <3>4. CASE n # c.num
      <4>1. h[1] # c.mail
        BY <2>0, <2>1, <3>1, <3>2, <3>4 DEF BoxOK
      <4> QED BY <2>2, <3>1, <3>4, <4>1
    <3> QED BY <3>3, <3>4
  <2>6. CASE Fail({"too large"} \cup Rest)
    <3>1. batch' = {} /\ loop' = "backoff"
      BY <2>6 DEF Fail
    <3>2. BoxOK'
      BY <1>1, <2>0, <2>4, <3>1 DEF BoxOK
    <3>3. HandedOK'
      BY <1>1, <2>0, <2>5, <3>1 DEF HandedOK
    <3> QED BY <3>2, <3>3
  <2>7. CASE loop' = "handle" /\ UNCHANGED <<client, batch, failures, faults>>
    <3>1. Current' = c
      BY <1>0, <2>7 DEF Current
    <3>2. BoxOK'
      BY <1>1, <1>c, <2>0, <2>2, <2>4, <2>7, <3>1 DEF BoxOK
    <3>3. HandedOK'
      BY <1>1, <2>0, <2>5, <2>7, <3>1 DEF HandedOK
    <3> QED BY <3>2, <3>3
  <2> QED BY <1>2, <2>6, <2>7
<1>6. ASSUME faults' = {} PROVE MarkedOK'
  <2>1. loop' = "handle" /\ UNCHANGED <<batch, faults>> /\ MarkedOK
    BY <1>2, <1>4, <1>6 DEF ImapInv
  <2>2. Current' = c
    BY <1>0, <2>1 DEF Current
  <2>3. DOMAIN seen' = DOMAIN seen \cup {c.num}
    BY <1>1 DEF Put
  <2> QED BY <1>1, <2>1, <2>2, <2>3 DEF MarkedOK, Delivered
<1> QED BY <1>3, <1>5, <1>6 DEF ImapInv

\* A message whose number is marked was delivered.
LEMMA SuppressKeeps == ASSUME ImapInv, SuppressMail PROVE ImapInv'
<1>0. PICK c : c = Current
  OBVIOUS
<1>1. /\ loop = "process" /\ batch # {} /\ Live(seen, c.num, imapClock) /\ batch' = batch \ {c}
      /\ UNCHANGED <<inbox, arrived, unseen, loop, client, failures, seen, imapClock, handed, kept, faults>>
  BY <1>0 DEF SuppressMail, server
<1>2. DaemonOK'
  BY <1>1 DEF ImapInv, DaemonOK, ImapTypeOK
<1>3. ASSUME "renumbered" \notin faults PROVE BoxOK' /\ HandedOK'
  BY <1>1, <1>3 DEF ImapInv, BoxOK, HandedOK
<1>4. ASSUME faults = {} PROVE MarkedOK'
  <2>0. BoxOK /\ MarkedOK
    BY <1>4 DEF ImapInv
  <2>1. c \in batch /\ inbox[c.num] = c.mail
    BY <1>0, <1>1, <2>0, CurrentIsOfBatch DEF BoxOK
  <2>2. c.num \in DOMAIN seen
    BY <1>1 DEF Live
  <2>3. Delivered(c.mail)
    BY <1>1, <2>0, <2>1, <2>2 DEF MarkedOK
  <2> QED BY <1>1, <2>0, <2>3 DEF MarkedOK, Delivered
<1> QED BY <1>1, <1>2, <1>3, <1>4 DEF ImapInv

\* The pipeline has analysed the message.
LEMMA HandleKeeps == ASSUME ImapInv, Handle PROVE ImapInv'
<1> USE SeenTtlAssumption
<1>0. PICK c : c = Current
  OBVIOUS
<1>p. PICK g : g = <<c.mail, seen[c.num] - SeenTtl>>
  OBVIOUS
<1>g. g = <<c.mail, seen[c.num] - SeenTtl>> /\ g[1] = c.mail /\ g[2] = seen[c.num] - SeenTtl
  BY <1>p
<1>1. /\ loop = "handle" /\ handed' = handed \cup {g} /\ batch' = batch \ {c} /\ loop' = "process"
      /\ UNCHANGED <<inbox, arrived, unseen, client, failures, seen, imapClock, kept, faults>>
  BY <1>0, <1>g DEF Handle, server
<1>2. DaemonOK'
  BY <1>1 DEF ImapInv, DaemonOK, ImapTypeOK
<1>b. batch # {}
  BY <1>1 DEF ImapInv, DaemonOK, ImapTypeOK
<1>3. ASSUME "renumbered" \notin faults PROVE BoxOK' /\ HandedOK'
  <2>0. BoxOK /\ HandedOK
    BY <1>3 DEF ImapInv
  <2>1. c \in batch /\ c.num \in DOMAIN inbox /\ inbox[c.num] = c.mail
    BY <1>0, <1>b, <2>0, CurrentIsOfBatch DEF BoxOK
  <2>2. c.num \in DOMAIN seen /\ seen[c.num] \in Nat /\ seen[c.num] >= SeenTtl
    BY <1>0, <1>1, <2>0 DEF BoxOK
  <2>3. g = <<g[1], g[2]>> /\ g[2] \in Nat /\ g[2] + SeenTtl = seen[c.num]
    BY <1>g, <2>2
  <2>4. \A h \in handed : h[2] \in Nat /\ (h[1] = g[1] => h[2] + SeenTtl <= g[2])
    BY <1>0, <1>1, <1>g, <2>0, <2>2, <2>3 DEF HandedOK
  <2>5. \A x, y \in handed' : x[1] = y[1] /\ x # y => x[2] - y[2] >= SeenTtl \/ y[2] - x[2] >= SeenTtl
    BY <1>1, <2>0, <2>3, <2>4 DEF HandedOK
  <2>6. HandedOK'
    <3>1. \A h \in handed' : \E n \in DOMAIN seen : inbox[n] = h[1] /\ h[2] + SeenTtl <= seen[n]
      BY <1>1, <1>g, <2>0, <2>1, <2>2, <2>3 DEF HandedOK
    <3>2. \A h \in handed' : h = <<h[1], h[2]>> /\ h[2] \in Nat
      BY <1>1, <2>0, <2>3 DEF HandedOK
    <3> QED BY <1>1, <2>5, <3>1, <3>2 DEF HandedOK
  <2>7. BoxOK'
    BY <1>1, <2>0 DEF BoxOK
  <2> QED BY <2>6, <2>7
<1>4. ASSUME faults = {} PROVE MarkedOK'
  <2>0. BoxOK /\ MarkedOK
    BY <1>4 DEF ImapInv
  <2>1. c \in batch /\ inbox[c.num] = c.mail
    BY <1>0, <1>b, <2>0, CurrentIsOfBatch DEF BoxOK
  <2>4. \A n \in DOMAIN seen : Delivered(inbox[n]) \/ inbox[n] = c.mail
    BY <1>0, <2>0, <2>1 DEF MarkedOK
  <2>5. \A i \in DOMAIN inbox : \/ inbox[i] \in unseen \/ Delivered(inbox[i]) \/ inbox[i] = c.mail
                                \/ \E e \in batch' : e.mail = inbox[i]
    BY <1>1, <2>0 DEF MarkedOK
  <2> QED BY <1>1, <1>g, <2>4, <2>5 DEF MarkedOK, Delivered
<1> QED BY <1>1, <1>2, <1>3, <1>4 DEF ImapInv

\* The pipeline raises: the message is kept, and nothing else was in the batch
\* or the batch was cut short.
LEMMA HandleFailsKeeps == ASSUME ImapInv, HandleFails PROVE ImapInv'
<1>0. PICK c : c = Current
  OBVIOUS
<1>1. /\ loop = "handle" /\ kept' = kept \cup {c.mail} /\ Fail(Rest)
      /\ UNCHANGED <<inbox, arrived, unseen, seen, imapClock, handed>>
  BY <1>0 DEF HandleFails, server
<1>2. DaemonOK'
  BY <1>1, FailKeepsType DEF ImapInv
<1>3. batch' = {} /\ loop' = "backoff" /\ faults' = faults \cup Rest
  BY <1>1 DEF Fail
<1>4. ASSUME "renumbered" \notin faults' PROVE BoxOK' /\ HandedOK'
  BY <1>1, <1>3, <1>4, BoxEmptied, HandedEmptied DEF ImapInv
<1>5. ASSUME faults' = {} PROVE MarkedOK'
  <2>0. faults = {} /\ batch = {c}
    BY <1>0, <1>3, <1>5 DEF Rest
  <2>1. BoxOK /\ MarkedOK
    BY <2>0 DEF ImapInv
  <2>2. inbox[c.num] = c.mail
    BY <2>0, <2>1 DEF BoxOK
  <2>5. \A n \in DOMAIN seen : Delivered(inbox[n]) \/ inbox[n] = c.mail
    BY <1>0, <2>1, <2>2 DEF MarkedOK
  <2>6. \A i \in DOMAIN inbox : inbox[i] \in unseen \/ Delivered(inbox[i]) \/ inbox[i] = c.mail
    BY <2>0, <2>1 DEF MarkedOK
  <2> QED BY <1>1, <1>3, <2>5, <2>6 DEF MarkedOK, Delivered
<1> QED BY <1>2, <1>4, <1>5 DEF ImapInv

\* The daemon is stopped.
LEMMA StopKeeps == ASSUME ImapInv, stop PROVE ImapInv'
<1>1. /\ loop' = "stopped" /\ client' = "none" /\ batch' = {}
      /\ faults' = faults \cup (IF batch = {} THEN {} ELSE {"cut short"})
      /\ UNCHANGED <<inbox, arrived, unseen, failures, seen, imapClock, handed, kept>>
  BY DEF stop, server
<1>2. DaemonOK'
  BY <1>1 DEF ImapInv, DaemonOK, ImapTypeOK
<1>3. ASSUME "renumbered" \notin faults' PROVE BoxOK' /\ HandedOK'
  BY <1>1, <1>3, BoxEmptied, HandedEmptied DEF ImapInv
<1>4. ASSUME faults' = {} PROVE MarkedOK'
  <2>1. faults = {} /\ batch = {}
    BY <1>1, <1>4
  <2>2. loop # "handle"
    BY <2>1 DEF ImapInv, DaemonOK, ImapTypeOK
  <2> QED BY <1>1, <2>1, <2>2, MarkedFrame DEF ImapInv
<1> QED BY <1>2, <1>3, <1>4 DEF ImapInv

\* What the daemon's polls deliver (ImapDelivers), for any messages, sizes, TTL
\* and number of failures and stops, whatever other clients do to the mailbox.
THEOREM ImapCorrect == ImapSpec => []ImapDelivers
<1>1. ImapInit => ImapInv
  <2> SUFFICES ASSUME ImapInit PROVE ImapInv
    OBVIOUS
  <2>1. DaemonOK
    BY FailuresAssumption DEF ImapInit, DaemonOK, ImapTypeOK
  <2>2. BoxOK /\ HandedOK /\ MarkedOK
    BY DEF ImapInit, BoxOK, HandedOK, MarkedOK, EmptyDict
  <2> QED BY <2>1, <2>2 DEF ImapInv
<1>2. ImapInv /\ [ImapNext]_imapVars => ImapInv'
  <2> SUFFICES ASSUME ImapInv, [ImapNext]_imapVars PROVE ImapInv'
    OBVIOUS
  <2>1. CASE UNCHANGED imapVars
    <3>1. UNCHANGED <<inbox, arrived, unseen, loop, client, batch, failures, seen, imapClock, handed, kept, faults>>
      BY <2>1 DEF imapVars
    <3> QED BY <3>1, BoxFrame, HandedFrame, MarkedFrame DEF ImapInv, DaemonOK, ImapTypeOK
  <2>2. CASE ImapNext
    BY <2>2, ArriveKeeps, OthersKeep, TurnsKeep, BreaksKeep, FetchKeeps, ProcessKeeps, SuppressKeeps, HandleKeeps,
       HandleFailsKeeps, StopKeeps DEF ImapNext, Loop
  <2> QED BY <2>1, <2>2
<1> QED BY <1>1, <1>2, ImapInvSuffices, PTL DEF ImapSpec

-----------------------------------------------------------------------------
(***************************************************************************)
(* The dead-letter queue.  The bound on the memory storage is a bound on   *)
(* its ring, which holds each letter once because letters stand in it in   *)
(* the order of their numbers; the files have no ring, and what exceeds    *)
(* their bound is counted removal by refused removal.                      *)
(***************************************************************************)
InTurn(s) == \A i, j \in DOMAIN s : i < j => s[i] < s[j]

LettersOK ==
  /\ issued \in 0..MaxLetters /\ DOMAIN held \subseteq 1..issued
  /\ \A l \in DOMAIN held : held[l].retries \in 0..MaxRetries /\ held[l].at \in 0..mtime
  /\ mtime \in Nat
CountsOK ==
  /\ stats \in [enqueued : Nat, purged : Nat, requeued : Nat]
  /\ crashes \in Nat /\ stuck \in Nat /\ evicted \in Nat /\ carried \in Nat
RingOK ==
  /\ backend \in {"memory", "file"}
  /\ ring \in Seq(Nat) /\ InTurn(ring)
  /\ backend = "memory" => Range(ring) = DOMAIN held /\ Len(ring) <= Capacity
  /\ backend = "file" => ring = <<>>
BoundOK == crashes = 0 => Size <= Capacity + stuck
QueueInv == LettersOK /\ CountsOK /\ RingOK /\ BoundOK /\ TelemetryAddsUp

\* Letters in turn are all different: as many are named as there are places.
LEMMA InTurnCounts ==
  ASSUME NEW s \in Seq(Nat), InTurn(s)
  PROVE  IsFiniteSet(Range(s)) /\ Cardinality(Range(s)) = Len(s)
<1>1. PICK n \in Nat : n = Len(s)
  BY LenProperties
<1>2. DOMAIN s = 1..n /\ s \in [1..n -> Nat]
  BY <1>1, LenProperties
<1>3. s \in [1..n -> Range(s)]
  BY <1>2 DEF Range
<1>4. s \in Injection(1..n, Range(s))
  <2>1. ASSUME NEW i \in 1..n, NEW j \in 1..n, s[i] = s[j] PROVE i = j
    <3>1. s[i] \in Nat /\ s[j] \in Nat
      BY <1>2
    <3>2. ~(i < j) /\ ~(j < i)
      BY <1>2, <2>1, <3>1 DEF InTurn
    <3> QED BY <3>2
  <2> QED BY <1>3, <2>1 DEF Injection, IsInjective
<1>5. s \in Bijection(1..n, Range(s))
  BY <1>2, <1>3, <1>4 DEF Bijection, Surjection, Range
<1>6. ExistsBijection(1..n, Range(s))
  BY <1>5 DEF ExistsBijection
<1>7. IsFiniteSet(1..n) /\ Cardinality(1..n) = n
  BY FS_Interval
<1> QED BY <1>1, <1>6, <1>7, FS_Bijection

\* What remains of a ring is in turn again, and names the letters that stayed.
LEMMA RemainingFacts ==
  ASSUME ring \in Seq(Nat), InTurn(ring), NEW gone, NEW r \in Remaining(gone)
  PROVE  /\ r \in Seq(Nat) /\ InTurn(r) /\ Len(r) <= Len(ring)
         /\ Range(r) = Range(ring) \ gone
<1> DEFINE stay == {i \in DOMAIN ring : ring[i] \notin gone}
<1>1. PICK m \in Nat : m = Len(ring) /\ DOMAIN ring = 1..m /\ ring \in [1..m -> Nat]
  BY LenProperties
<1>2. IsFiniteSet(1..m) /\ Cardinality(1..m) = m
  BY FS_Interval
<1>3. IsFiniteSet(stay) /\ Cardinality(stay) \in Nat /\ Cardinality(stay) <= m
  BY <1>1, <1>2, FS_Subset, FS_CardinalityType
<1>4. PICK n \in Nat : n = Cardinality(stay) /\ n <= m
  BY <1>3
<1>5. PICK f \in [1..n -> stay] :
        /\ \A i \in stay : \E j \in DOMAIN f : f[j] = i
        /\ \A i, j \in DOMAIN f : i < j => f[i] < f[j]
        /\ r = [j \in 1..n |-> ring[f[j]]]
  BY <1>4 DEF Remaining
<1>6. stay \subseteq 1..m /\ DOMAIN f = 1..n
  BY <1>1, <1>5
<1>7. r \in [1..n -> Nat]
  BY <1>1, <1>5, <1>6
<1>8. r \in Seq(Nat) /\ Len(r) = n /\ DOMAIN r = 1..n
  BY <1>7, IsASeq, LenProperties
<1>9. InTurn(r)
  <2>1. ASSUME NEW i \in 1..n, NEW j \in 1..n, i < j PROVE r[i] < r[j]
    <3>1. f[i] \in DOMAIN ring /\ f[j] \in DOMAIN ring /\ f[i] < f[j]
      BY <1>5, <1>6, <2>1
    <3> QED BY <1>5, <3>1 DEF InTurn
  <2> QED BY <1>8, <2>1 DEF InTurn
<1>10. Range(r) = Range(ring) \ gone
  <2>1. ASSUME NEW x \in Range(r) PROVE x \in Range(ring) \ gone
    <3>1. PICK j \in 1..n : x = r[j]
      BY <1>8, <2>1 DEF Range
    <3>2. f[j] \in stay /\ x = ring[f[j]]
      BY <1>5, <3>1
    <3> QED BY <3>2 DEF Range
  <2>2. ASSUME NEW x \in Range(ring) \ gone PROVE x \in Range(r)
    <3>1. PICK i \in DOMAIN ring : x = ring[i]
      BY <2>2 DEF Range
    <3>2. i \in stay
      BY <2>2, <3>1
    <3>3. PICK j \in 1..n : f[j] = i
      BY <1>5, <1>6, <3>2
    <3> QED BY <1>5, <1>8, <3>1, <3>3 DEF Range
  <2> QED BY <2>1, <2>2
<1> QED BY <1>1, <1>4, <1>8, <1>9, <1>10

\* How many letters are held after some are dropped, and after a new one is put.
LEMMA SizeFacts ==
  ASSUME LettersOK
  PROVE  /\ IsFiniteSet(DOMAIN held) /\ Size \in Nat
         /\ \A g : /\ IsFiniteSet(DOMAIN held \ g) /\ Cardinality(g \cap DOMAIN held) \in Nat
                   /\ Cardinality(DOMAIN held \ g) \in Nat
                   /\ Cardinality(DOMAIN held \ g) = Size - Cardinality(g \cap DOMAIN held)
<1>1. issued \in Nat
  BY CapacityAssumption DEF LettersOK
<1>2. IsFiniteSet(1..issued)
  BY <1>1, FS_Interval
<1>3. IsFiniteSet(DOMAIN held) /\ Size \in Nat
  BY <1>2, FS_Subset, FS_CardinalityType DEF LettersOK, Size
<1>4. ASSUME NEW g
      PROVE  /\ IsFiniteSet(DOMAIN held \ g) /\ Cardinality(g \cap DOMAIN held) \in Nat
             /\ Cardinality(DOMAIN held \ g) \in Nat
             /\ Cardinality(DOMAIN held \ g) = Size - Cardinality(g \cap DOMAIN held)
  <2>1. PICK d : d = DOMAIN held
    OBVIOUS
  <2>2. IsFiniteSet(d \ g) /\ Cardinality(d \ g) = Cardinality(d) - Cardinality(d \cap g)
    BY <1>3, <2>1, FS_Difference
  <2>3. IsFiniteSet(d \cap g)
    BY <1>3, <2>1, FS_Intersection
  <2>4. d \cap g = g \cap d
    OBVIOUS
  <2>5. Cardinality(d \cap g) \in Nat /\ Cardinality(d \ g) \in Nat
    BY <2>2, <2>3, FS_CardinalityType
  <2> QED BY <2>1, <2>2, <2>4, <2>5 DEF Size
<1> QED BY <1>3, <1>4

\* In memory as many letters are held as the ring has places.
LEMMA RingSize ==
  ASSUME QueueInv, backend = "memory"
  PROVE  Size = Len(ring)
BY InTurnCounts DEF QueueInv, RingOK, Size

\* What a letter pushes out is nothing, or, when the storage is full, one letter
\* that is held and that no other held one was saved before.
LEMMA VictimFacts ==
  ASSUME QueueInv, NEW v \in Victims
  PROVE  \/ v = {} /\ Size < Capacity
         \/ \E x \in DOMAIN held : /\ v = {x} /\ Size >= Capacity
                                   /\ \A k \in DOMAIN held : ~SavedBefore(k, x)
<1>1. Size \in Nat /\ Capacity \in Nat \ {0}
  BY SizeFacts, CapacityAssumption DEF QueueInv
<1>2. CASE backend = "file"
  <2>1. CASE Size >= Capacity
    <3>1. PICK x \in Oldest : v = {x}
      BY <1>2, <2>1 DEF Victims
    <3>2. x \in DOMAIN held /\ \A k \in DOMAIN held : held[x].at <= held[k].at
      BY <3>1 DEF Oldest
    <3>3. \A k \in DOMAIN held : held[k].at \in Nat
      BY DEF QueueInv, LettersOK
    <3>4. \A k \in DOMAIN held : ~SavedBefore(k, x)
      BY <1>2, <3>2, <3>3 DEF SavedBefore
    <3> QED BY <2>1, <3>1, <3>2, <3>4
  <2>2. CASE ~(Size >= Capacity)
    BY <1>1, <1>2, <2>2 DEF Victims
  <2> QED BY <2>1, <2>2
<1>3. CASE backend = "memory"
  <2>1. Size = Len(ring) /\ Len(ring) <= Capacity /\ ring \in Seq(Nat) /\ InTurn(ring) /\ Range(ring) = DOMAIN held
    BY <1>3, RingSize DEF QueueInv, RingOK
  <2>2. CASE Len(ring) = Capacity
    <3>1. v = {Head(ring)}
      BY <1>3, <2>2 DEF Victims
    <3>2. Len(ring) > 0 /\ DOMAIN ring = 1..Len(ring) /\ \A i \in DOMAIN ring : ring[i] \in Nat
      BY <1>1, <2>1, <2>2, LenProperties, ElementOfSeq
    <3>3. ring # <<>>
      BY <3>2
    <3>4. Head(ring) = ring[1] /\ 1 \in DOMAIN ring
      BY <2>1, <3>2, <3>3, HeadTailProperties, <1>1, <2>2
    <3>5. Head(ring) \in DOMAIN held
      BY <2>1, <3>4 DEF Range
    <3>6. ASSUME NEW k \in DOMAIN held PROVE ~(k < Head(ring))
      <4>1. PICK i \in DOMAIN ring : k = ring[i]
        BY <2>1, <3>6 DEF Range
      <4>2. i = 1 \/ 1 < i
        BY <3>2, <1>1, <2>2
      <4>3. k = ring[1] \/ ring[1] < k
        BY <2>1, <3>4, <4>1, <4>2 DEF InTurn
      <4> QED BY <3>2, <3>4, <4>1, <4>3
    <3>7. Size >= Capacity
      BY <1>1, <2>1, <2>2
    <3> QED BY <1>3, <3>1, <3>5, <3>6, <3>7 DEF SavedBefore
  <2>3. CASE Len(ring) # Capacity
    <3>1. v = {}
      BY <1>3, <2>3 DEF Victims
    <3>2. Size < Capacity
      BY <1>1, <2>1, <2>3
    <3> QED BY <3>1, <3>2
  <2> QED BY <2>2, <2>3
<1> QED BY <1>2, <1>3 DEF QueueInv, RingOK

\* A letter at the end of a ring that it fits into.
LEMMA AppendedFacts ==
  ASSUME QueueInv, backend = "memory", NEW l, l = issued + 1
  PROVE  /\ Appended(l) \in Seq(Nat) /\ InTurn(Appended(l)) /\ Len(Appended(l)) <= Capacity
         /\ Range(Appended(l)) =
              (IF Len(ring) = Capacity THEN Range(ring) \ {Head(ring)} ELSE Range(ring)) \cup {l}
<1> DEFINE t == IF Len(ring) = Capacity THEN Tail(ring) ELSE ring
<1>1. Capacity \in Nat \ {0} /\ issued \in Nat /\ l \in Nat
  BY CapacityAssumption DEF QueueInv, LettersOK
<1>2. /\ ring \in Seq(Nat) /\ InTurn(ring) /\ Len(ring) <= Capacity /\ Len(ring) \in Nat
      /\ DOMAIN ring = 1..Len(ring) /\ \A i \in DOMAIN ring : ring[i] \in Nat /\ ring[i] <= issued
  <2>1. ring \in Seq(Nat) /\ InTurn(ring) /\ Len(ring) <= Capacity /\ Range(ring) = DOMAIN held
    BY DEF QueueInv, RingOK
  <2>2. DOMAIN ring = 1..Len(ring) /\ Len(ring) \in Nat
    BY <2>1, LenProperties
  <2>3. ASSUME NEW i \in DOMAIN ring PROVE ring[i] \in 1..issued
    <3>1. ring[i] \in DOMAIN held
      BY <2>1, <2>3 DEF Range
    <3> QED BY <3>1 DEF QueueInv, LettersOK
  <2>4. \A i \in DOMAIN ring : ring[i] \in Nat /\ ring[i] <= issued
    BY <2>3, <1>1
  <2> QED BY <2>1, <2>2, <2>4
<1>3. /\ t \in Seq(Nat) /\ InTurn(t) /\ Len(t) \in Nat /\ Len(t) < Capacity /\ DOMAIN t = 1..Len(t)
      /\ \A i \in DOMAIN t : t[i] \in Nat /\ t[i] <= issued
      /\ Range(t) = IF Len(ring) = Capacity THEN Range(ring) \ {Head(ring)} ELSE Range(ring)
  <2>1. CASE Len(ring) # Capacity
    <3>1. t = ring
      BY <2>1
    <3>2. \A a, b \in Nat : a <= b /\ a # b => a < b
      OBVIOUS
    <3>3. Len(ring) < Capacity
      BY <1>1, <1>2, <2>1, <3>2
    <3> HIDE DEF t
    <3> QED BY <1>2, <2>1, <3>1, <3>3
  <2>2. CASE Len(ring) = Capacity
    <3>1. ring # <<>>
      BY <1>1, <1>2, <2>2
    <3>2. PICK u : u = Tail(ring) /\ t = u
      BY <2>2
    <3>3. /\ u \in Seq(Nat) /\ Len(u) = Len(ring) - 1 /\ Head(ring) = ring[1]
          /\ \A i \in 1..Len(u) : u[i] = ring[i + 1]
      <4> HIDE DEF t
      <4>1. /\ Len(Tail(ring)) = Len(ring) - 1 /\ Head(ring) = ring[1] /\ Tail(ring) \in Seq(Nat)
            /\ \A i \in 1..Len(Tail(ring)) : Tail(ring)[i] = ring[i + 1]
        BY <1>2, <3>1, HeadTailProperties
      <4> QED BY <3>2, <4>1
    <3>4. DOMAIN u = 1..Len(u) /\ Len(u) \in Nat
      BY <3>3, LenProperties
    <3>5. PICK n \in Nat : n = Len(ring) /\ n > 0 /\ Len(u) = n - 1 /\ DOMAIN ring = 1..n /\ DOMAIN u = 1..(n - 1)
      BY <1>1, <1>2, <2>2, <3>3, <3>4
    <3>6. \A i \in 1..(n - 1) : i + 1 \in 1..n /\ u[i] = ring[i + 1]
      BY <3>3, <3>5
    <3>7. InTurn(u)
      <4>1. ASSUME NEW i \in 1..(n - 1), NEW j \in 1..(n - 1), i < j PROVE u[i] < u[j]
        <5>1. i + 1 < j + 1 /\ i + 1 \in DOMAIN ring /\ j + 1 \in DOMAIN ring
          BY <3>5, <4>1
        <5>2. ring[i + 1] < ring[j + 1]
          BY <1>2, <5>1 DEF InTurn
        <5> QED BY <3>6, <5>2
      <4> QED BY <3>5, <4>1 DEF InTurn
    <3>8. Range(u) = Range(ring) \ {Head(ring)}
      <4>1. ASSUME NEW x \in Range(u) PROVE x \in Range(ring) /\ x # Head(ring)
        <5>1. PICK i \in 1..(n - 1) : x = u[i]
          BY <3>5, <4>1 DEF Range
        <5>2. i + 1 \in DOMAIN ring /\ x = ring[i + 1] /\ 1 \in DOMAIN ring /\ 1 < i + 1
          BY <3>5, <3>6, <5>1
        <5>3. ring[1] < ring[i + 1] /\ ring[1] \in Nat /\ ring[i + 1] \in Nat
          BY <1>2, <5>2 DEF InTurn
        <5>4. x # Head(ring)
          BY <3>3, <5>2, <5>3
        <5> QED BY <5>2, <5>4 DEF Range
      <4>2. ASSUME NEW x \in Range(ring), x # Head(ring) PROVE x \in Range(u)
        <5>1. PICK i \in 1..n : x = ring[i]
          BY <3>5, <4>2 DEF Range
        <5>2. i # 1
          BY <3>3, <4>2, <5>1
        <5>3. PICK k \in 1..(n - 1) : i = k + 1
          BY <3>5, <5>2
        <5>4. x = u[k] /\ k \in DOMAIN u
          BY <3>5, <3>6, <5>1, <5>3
        <5> QED BY <5>4 DEF Range
      <4> QED BY <4>1, <4>2
    <3>9. Len(u) < Capacity
      BY <1>1, <1>2, <2>2, <3>3
    <3>10. \A i \in DOMAIN u : u[i] \in Nat /\ u[i] <= issued
      BY <1>2, <3>5, <3>6
    <3> HIDE DEF t
    <3> QED BY <2>2, <3>2, <3>3, <3>4, <3>7, <3>8, <3>9, <3>10
  <2> QED BY <2>1, <2>2
<1>4. Appended(l) = Append(t, l)
  BY DEF Appended
<1> HIDE DEF t
<1>5a. PICK a : a = Append(t, l)
  OBVIOUS
<1>5. PICK n \in Nat : a = Append(t, l) /\ n = Len(t) /\ n < Capacity
  BY <1>3, <1>5a
<1>6. a \in Seq(Nat) /\ Len(a) = n + 1 /\ a[n + 1] = l /\ \A i \in 1..n : a[i] = t[i]
  BY <1>1, <1>3, <1>5, AppendProperties
<1>7. DOMAIN a = 1..(n + 1) /\ DOMAIN t = 1..n
  BY <1>3, <1>5, <1>6, LenProperties
<1>8. InTurn(a)
  <2>1. ASSUME NEW i \in 1..(n + 1), NEW j \in 1..(n + 1), i < j PROVE a[i] < a[j]
    <3>1. i \in 1..n /\ a[i] = t[i] /\ t[i] \in Nat /\ t[i] <= issued
      BY <1>3, <1>6, <1>7, <2>1
    <3>2. CASE j = n + 1
      BY <1>1, <1>6, <3>1, <3>2
    <3>3. CASE j \in 1..n
      BY <1>3, <1>6, <1>7, <2>1, <3>1, <3>3 DEF InTurn
    <3> QED BY <3>2, <3>3
  <2> QED BY <1>7, <2>1 DEF InTurn
<1>9. Range(a) = Range(t) \cup {l}
  <2>1. ASSUME NEW x \in Range(a) PROVE x \in Range(t) \cup {l}
    <3>1. PICK i \in 1..(n + 1) : x = a[i]
      BY <1>7, <2>1 DEF Range
    <3>2. i = n + 1 \/ i \in 1..n
      OBVIOUS
    <3> QED BY <1>6, <1>7, <3>1, <3>2 DEF Range
  <2>2. ASSUME NEW x \in Range(t) PROVE x \in Range(a)
    <3>1. PICK i \in 1..n : x = t[i]
      BY <1>7, <2>2 DEF Range
    <3>2. i \in 1..(n + 1) /\ x = a[i]
      BY <1>6, <3>1
    <3> QED BY <1>7, <3>2 DEF Range
  <2>3. l \in Range(a)
    BY <1>6, <1>7 DEF Range
  <2> QED BY <2>1, <2>2, <2>3
<1>10. Len(a) <= Capacity
  BY <1>1, <1>5, <1>6
<1> QED BY <1>3, <1>4, <1>5, <1>6, <1>8, <1>9, <1>10

LEMMA EnqueueKeeps ==
  ASSUME QueueInv, NEW l \in Letters, enqueue(l)
  PROVE  QueueInv' /\ Excused
<1>1. /\ Capacity \in Nat \ {0} /\ issued \in Nat /\ l \in 1..MaxLetters /\ MaxLetters \in Nat /\ MaxRetries \in Nat
      /\ l = issued + 1 /\ issued' = l
  BY CapacityAssumption DEF QueueInv, LettersOK, enqueue, Letters
<1>2. PICK v \in Victims, gone \in SUBSET (UNION Victims) :
        /\ gone \in {v, {}}
        /\ backend # "file" => gone = v
        /\ held' = Put(Drop(held, gone), l, Item(0))
        /\ evicted' = evicted + Cardinality(gone \cap DOMAIN held)
        /\ stuck' = stuck + Cardinality(v \ gone)
  BY DEF enqueue
<1>3. /\ ring' = IF backend = "memory" THEN Appended(l) ELSE ring
      /\ stats' = [stats EXCEPT !.enqueued = @ + 1]
      /\ backend' = backend /\ mtime' = mtime /\ carried' = carried /\ crashes' = crashes
  BY DEF enqueue
<1>4. PICK h : h = DOMAIN held \ gone
  OBVIOUS
<1>5. DOMAIN held' = h \cup {l} /\ l \notin h /\ l \notin DOMAIN held
  BY <1>1, <1>2, <1>4 DEF Put, Drop, QueueInv, LettersOK
<1>6. \A k \in h : held'[k] = held[k] /\ k \in DOMAIN held /\ k # l
  BY <1>2, <1>4, <1>5 DEF Put, Drop
<1>7. held'[l] = Item(0)
  BY <1>2 DEF Put
<1>8. PICK c \in Nat : c = Cardinality(h) /\ IsFiniteSet(h) /\ Size \in Nat
          /\ Cardinality(gone \cap DOMAIN held) \in Nat /\ c = Size - Cardinality(gone \cap DOMAIN held)
  BY <1>4, SizeFacts DEF QueueInv
<1>9. Size' = c + 1
  BY <1>5, <1>8, FS_AddElement DEF Size
<1>10. \/ v = {} /\ Size < Capacity
       \/ \E x \in DOMAIN held : v = {x} /\ Size >= Capacity /\ \A k \in DOMAIN held : ~SavedBefore(k, x)
  BY VictimFacts
<1>11. LettersOK'
  <2>1. issued' \in 0..MaxLetters /\ DOMAIN held' \subseteq 1..issued'
    BY <1>1, <1>4, <1>5 DEF QueueInv, LettersOK
  <2>2. ASSUME NEW k \in DOMAIN held'
        PROVE  held'[k].retries \in 0..MaxRetries /\ held'[k].at \in 0..mtime'
    <3>1. CASE k \in h
      BY <1>3, <1>6, <3>1 DEF QueueInv, LettersOK
    <3>2. CASE k = l
      BY <1>1, <1>3, <1>7, <3>2 DEF QueueInv, LettersOK, Item
    <3> QED BY <1>5, <2>2, <3>1, <3>2
  <2> QED BY <1>3, <2>1, <2>2 DEF QueueInv, LettersOK
<1>12. Cardinality(v \ gone) \in Nat /\ \A x : v = {x} /\ gone = {} => Cardinality(v \ gone) = 1
  <2>1. CASE v \ gone = {}
    <3>1. Cardinality(v \ gone) = 0
      BY <2>1, FS_EmptySet
    <3> QED BY <2>1, <3>1
  <2>2. CASE v \ gone # {}
    <3>1. PICK x : v = {x} /\ v \ gone = {x}
      BY <1>2, <1>10, <2>2
    <3>2. Cardinality(v \ gone) = 1
      BY <3>1, FS_Singleton
    <3> QED BY <3>2
  <2> QED BY <2>1, <2>2
<1>13. PICK sn, gn \in Nat : sn = Cardinality(v \ gone) /\ gn = Cardinality(gone \cap DOMAIN held)
  BY <1>8, <1>12
<1>14. stats'.enqueued = stats.enqueued + 1 /\ stats'.purged = stats.purged /\ stats' \in [enqueued : Nat, purged : Nat, requeued : Nat]
  BY <1>3 DEF QueueInv, CountsOK
<1>15. CountsOK'
  BY <1>2, <1>3, <1>13, <1>14 DEF QueueInv, CountsOK
<1>16. RingOK'
  <2>1. CASE backend = "file"
    BY <1>3, <2>1 DEF QueueInv, RingOK
  <2>2. CASE backend = "memory"
    <3>1. ring' = Appended(l) /\ gone = v /\ Range(ring) = DOMAIN held
      BY <1>2, <1>3, <2>2 DEF QueueInv, RingOK
    <3>2. h = IF Len(ring) = Capacity THEN Range(ring) \ {Head(ring)} ELSE Range(ring)
      BY <1>4, <2>2, <3>1 DEF Victims
    <3>3. Range(ring') = DOMAIN held' /\ ring' \in Seq(Nat) /\ InTurn(ring') /\ Len(ring') <= Capacity
      BY <1>1, <1>5, <2>2, <3>1, <3>2, AppendedFacts
    <3> QED BY <1>3, <2>2, <3>3 DEF RingOK
  <2> QED BY <2>1, <2>2 DEF QueueInv, RingOK
<1>17. BoundOK'
  <2> SUFFICES ASSUME crashes = 0 PROVE c + 1 <= Capacity + (stuck + sn)
    BY <1>2, <1>3, <1>9, <1>13 DEF BoundOK
  <2>1. Size <= Capacity + stuck /\ stuck \in Nat
    BY DEF QueueInv, BoundOK, CountsOK
  <2>2. CASE v = {}
    BY <1>1, <1>8, <1>10, <1>13, <2>1, <2>2
  <2>3. CASE v # {}
    <3>1. PICK x \in DOMAIN held : v = {x}
      BY <1>10, <2>3
    <3>2. CASE gone = {}
      <4>1. sn = 1
        BY <1>12, <1>13, <3>1, <3>2
      <4> QED BY <1>1, <1>8, <1>13, <2>1, <4>1
    <3>3. CASE gone = v
      <4>1. gone \cap DOMAIN held = {x}
        BY <3>1, <3>3
      <4>2. gn = 1
        BY <1>13, <4>1, FS_Singleton
      <4> QED BY <1>1, <1>8, <1>13, <2>1, <4>2
    <3> QED BY <1>2, <3>2, <3>3
  <2> QED BY <2>2, <2>3
<1>18. TelemetryAddsUp'
  <2>1. carried' = carried /\ stats'.enqueued = stats.enqueued + 1 /\ stats'.purged = stats.purged /\ evicted' = evicted + gn
    BY <1>2, <1>3, <1>13, <1>14
  <2>2. carried + stats.enqueued = Size + stats.purged + evicted
    BY DEF QueueInv, TelemetryAddsUp
  <2>3. carried \in Nat /\ stats.enqueued \in Nat /\ stats.purged \in Nat /\ evicted \in Nat
    BY DEF QueueInv, CountsOK
  <2>4. carried + (stats.enqueued + 1) = (c + 1) + stats.purged + (evicted + gn)
    BY <1>8, <1>13, <2>2, <2>3
  <2> QED BY <1>9, <2>1, <2>4 DEF TelemetryAddsUp
<1>19. Excused
  <2> SUFFICES ASSUME NEW x \in DOMAIN held, x \notin DOMAIN held'
               PROVE  Size >= Capacity /\ \A k \in DOMAIN held : ~SavedBefore(k, x)
    BY DEF Excused
  <2>1. x \in gone
    BY <1>4, <1>5
  <2>2. v = {x}
    BY <1>2, <1>10, <2>1
  <2> QED BY <1>10, <2>2
<1> QED BY <1>11, <1>15, <1>16, <1>17, <1>18, <1>19 DEF QueueInv

LEMMA DeleteKeeps ==
  ASSUME QueueInv, NEW gone \in SUBSET DOMAIN held, Delete(gone)
  PROVE  QueueInv' /\ Excused
<1>1. /\ held' = Drop(held, gone) /\ ring' \in Remaining(gone)
      /\ stats' = [stats EXCEPT !.purged = @ + Cardinality(gone)]
      /\ backend' = backend /\ mtime' = mtime /\ issued' = issued /\ carried' = carried
      /\ evicted' = evicted /\ stuck' = stuck /\ crashes' = crashes
  BY DEF Delete
<1>2. DOMAIN held' = DOMAIN held \ gone /\ \A k \in DOMAIN held' : held'[k] = held[k]
  BY <1>1 DEF Drop
<1>3. gone \cap DOMAIN held = gone /\ IsFiniteSet(gone)
  BY SizeFacts, FS_Subset DEF QueueInv
<1>4. PICK n \in Nat : n = Cardinality(gone) /\ Size \in Nat /\ Size' \in Nat /\ Size' = Size - n
  BY <1>2, <1>3, SizeFacts DEF QueueInv, Size
<1>5. LettersOK'
  BY <1>1, <1>2 DEF QueueInv, LettersOK
<1>6. stats'.enqueued = stats.enqueued /\ stats'.purged = stats.purged + n /\ stats' \in [enqueued : Nat, purged : Nat, requeued : Nat]
  BY <1>1, <1>4 DEF QueueInv, CountsOK
<1>7. CountsOK'
  BY <1>1, <1>6 DEF QueueInv, CountsOK
<1>8. RingOK'
  <2>1. ring \in Seq(Nat) /\ InTurn(ring) /\ Len(ring) \in Nat
    BY LenProperties DEF QueueInv, RingOK
  <2>2. ring' \in Seq(Nat) /\ InTurn(ring') /\ Len(ring') <= Len(ring) /\ Range(ring') = Range(ring) \ gone
    BY <1>1, <2>1, RemainingFacts
  <2>3. Len(ring') \in Nat
    BY <2>2, LenProperties
  <2>4. CASE backend = "memory"
    <3>1. Len(ring') <= Capacity
      BY <2>1, <2>2, <2>3, <2>4, CapacityAssumption DEF QueueInv, RingOK
    <3> QED BY <1>1, <1>2, <2>2, <2>4, <3>1 DEF QueueInv, RingOK
  <2>5. CASE backend = "file"
    <3>1. Len(ring) = 0
      BY <2>5 DEF QueueInv, RingOK
    <3>2. ring' = <<>>
      BY <2>2, <2>3, <3>1, EmptySeq
    <3> QED BY <1>1, <2>2, <2>5, <3>2 DEF RingOK
  <2> QED BY <2>4, <2>5 DEF QueueInv, RingOK
<1>9. BoundOK'
  BY <1>1, <1>4, CapacityAssumption DEF QueueInv, BoundOK, CountsOK
<1>10. TelemetryAddsUp'
  <2>1. carried + stats.enqueued = Size + stats.purged + evicted
    BY DEF QueueInv, TelemetryAddsUp
  <2>2. carried \in Nat /\ stats.enqueued \in Nat /\ stats.purged \in Nat /\ evicted \in Nat
    BY DEF QueueInv, CountsOK
  <2>3. carried + stats.enqueued = (Size - n) + (stats.purged + n) + evicted
    BY <1>4, <2>1, <2>2
  <2> QED BY <1>1, <1>4, <1>6, <2>3 DEF TelemetryAddsUp
<1>11. Excused
  <2> SUFFICES ASSUME NEW x \in DOMAIN held, x \notin DOMAIN held' PROVE stats'.purged > stats.purged
    BY DEF Excused
  <2>1. gone # {}
    BY <1>2
  <2>2. n # 0
    BY <1>3, <1>4, <2>1, FS_EmptySet
  <2> QED BY <1>4, <1>6, <2>2 DEF QueueInv, CountsOK
<1> QED BY <1>5, <1>7, <1>8, <1>9, <1>10, <1>11 DEF QueueInv

LEMMA RequeueKeeps ==
  ASSUME QueueInv, NEW l \in Letters, requeue(l)
  PROVE  QueueInv' /\ Excused
<1>1. /\ l \in DOMAIN held /\ held[l].retries < MaxRetries
      /\ held' = Put(held, l, Item(held[l].retries + 1))
      /\ stats' = [stats EXCEPT !.requeued = @ + 1]
      /\ UNCHANGED <<backend, ring, mtime, issued, carried, evicted, stuck, crashes>>
  BY DEF requeue
<1>2. DOMAIN held' = DOMAIN held /\ Size' = Size
  BY <1>1 DEF Put, Size
<1>3. LettersOK'
  <2>1. ASSUME NEW k \in DOMAIN held' PROVE held'[k].retries \in 0..MaxRetries /\ held'[k].at \in 0..mtime'
    <3>1. CASE k = l
      BY <1>1, <3>1, CapacityAssumption DEF QueueInv, LettersOK, Put, Item
    <3>2. CASE k # l
      BY <1>1, <1>2, <2>1, <3>2 DEF QueueInv, LettersOK, Put
    <3> QED BY <3>1, <3>2
  <2> QED BY <1>1, <1>2, <2>1 DEF QueueInv, LettersOK
<1>4. stats'.enqueued = stats.enqueued /\ stats'.purged = stats.purged /\ stats' \in [enqueued : Nat, purged : Nat, requeued : Nat]
  BY <1>1 DEF QueueInv, CountsOK
<1>5. CountsOK' /\ RingOK' /\ BoundOK' /\ TelemetryAddsUp'
  BY <1>1, <1>2, <1>4 DEF QueueInv, CountsOK, RingOK, BoundOK, TelemetryAddsUp
<1> QED BY <1>2, <1>3, <1>5 DEF QueueInv, Excused

\* A restart with the files that are left.
LEMMA RestartKeeps ==
  ASSUME QueueInv, NEW left, Restart(left), issued' \in issued..MaxLetters,
         DOMAIN left \subseteq DOMAIN held, \A k \in DOMAIN left : left[k] = held[k]
  PROVE  QueueInv'
<1>1. /\ held' = IF backend = "file" THEN left ELSE EmptyDict
      /\ carried' = Cardinality(DOMAIN held')
      /\ ring' = <<>> /\ stats' = NoStats /\ evicted' = 0 /\ stuck' = 0
      /\ crashes' = crashes + 1 /\ backend' = backend /\ mtime' = mtime
  BY DEF Restart
<1>2. DOMAIN held' \subseteq DOMAIN held /\ \A k \in DOMAIN held' : held'[k] = held[k]
  BY <1>1 DEF EmptyDict
<1>3. LettersOK'
  BY <1>1, <1>2, CapacityAssumption DEF QueueInv, LettersOK
<1>4. Size' \in Nat /\ carried' = Size'
  BY <1>1, <1>3, SizeFacts, FS_Subset, FS_CardinalityType, <1>2 DEF QueueInv, Size
<1>5. CountsOK'
  BY <1>1, <1>4 DEF QueueInv, CountsOK, NoStats
<1>6. RingOK'
  <2>1. ring' \in Seq(Nat) /\ DOMAIN ring' = {} /\ Len(ring') = 0
    BY <1>1, EmptySeq
  <2>2. InTurn(ring') /\ Range(ring') = {}
    BY <2>1 DEF InTurn, Range
  <2>3. backend = "memory" => DOMAIN held' = {}
    BY <1>1 DEF EmptyDict
  <2>4. backend' \in {"memory", "file"} /\ ring' = <<>> /\ Len(ring') <= Capacity
    BY <1>1, <2>1, CapacityAssumption DEF QueueInv, RingOK
  <2>5. backend' = "memory" => Range(ring') = DOMAIN held'
    BY <1>1, <2>2, <2>3
  <2> QED BY <2>1, <2>2, <2>4, <2>5 DEF RingOK
<1>7. BoundOK'
  BY <1>1 DEF QueueInv, BoundOK, CountsOK
<1>8. TelemetryAddsUp'
  BY <1>1, <1>4 DEF TelemetryAddsUp, NoStats
<1> QED BY <1>3, <1>5, <1>6, <1>7, <1>8 DEF QueueInv

\* Every step of the queue keeps the invariant and accounts for what leaves.
LEMMA QueueSteps ==
  ASSUME QueueInv, [DlqNext]_dlqVars
  PROVE  QueueInv' /\ (UNCHANGED dlqVars \/ Excused)
<1>1. CASE UNCHANGED dlqVars
  BY <1>1 DEF dlqVars, QueueInv, LettersOK, CountsOK, RingOK, BoundOK, TelemetryAddsUp, Size, InTurn
<1>2. ASSUME NEW l \in Letters, enqueue(l) PROVE QueueInv' /\ Excused
  BY <1>2, EnqueueKeeps
<1>3. ASSUME NEW l \in Letters, purge(l) PROVE QueueInv' /\ Excused
  BY <1>3, DeleteKeeps DEF purge
<1>4. ASSUME NEW l \in Letters, requeue(l) PROVE QueueInv' /\ Excused
  BY <1>4, RequeueKeeps
<1>5. ASSUME NEW l \in Letters, CrashInSave(l) PROVE QueueInv' /\ Excused
  <2>1. PICK v \in Victims : Restart(Drop(held, v))
    BY <1>5 DEF CrashInSave
  <2>2. backend = "file" /\ l = issued + 1 /\ issued' = l /\ issued \in Nat /\ l \in 1..MaxLetters
    BY <1>5, CapacityAssumption DEF CrashInSave, QueueInv, LettersOK, Letters
  <2>3. PICK left : left = Drop(held, v)
    OBVIOUS
  <2>4. DOMAIN left = DOMAIN held \ v /\ \A k \in DOMAIN left : left[k] = held[k]
    BY <2>3 DEF Drop
  <2>5. issued' \in issued..MaxLetters
    BY <2>2, CapacityAssumption
  <2>6. QueueInv'
    BY <2>1, <2>3, <2>4, <2>5, RestartKeeps
  <2>7. held' = left
    BY <2>1, <2>2, <2>3 DEF Restart
  <2>8. Excused
    <3> SUFFICES ASSUME NEW x \in DOMAIN held, x \notin DOMAIN held'
                 PROVE  Size >= Capacity /\ \A k \in DOMAIN held : ~SavedBefore(k, x)
      BY DEF Excused
    <3>1. x \in v
      BY <2>4, <2>7
    <3> QED BY <3>1, VictimFacts
  <2> QED BY <2>6, <2>8
<1>6. ASSUME NEW t, clear_tenant(t) PROVE QueueInv' /\ Excused
  <2>1. PICK mine : mine = {l \in DOMAIN held : Owner[l] = t}
    OBVIOUS
  <2>2. PICK gone \in SUBSET mine : Delete(gone)
    BY <1>6, <2>1 DEF clear_tenant
  <2>3. gone \in SUBSET DOMAIN held
    BY <2>1, <2>2
  <2> QED BY <2>2, <2>3, DeleteKeeps
<1>7. CASE Crash
  <2>1. Restart(held) /\ issued' = issued /\ issued \in Nat
    BY <1>7, CapacityAssumption DEF Crash, QueueInv, LettersOK
  <2>2. issued' \in issued..MaxLetters
    BY <2>1, CapacityAssumption DEF QueueInv, LettersOK
  <2>3. QueueInv'
    BY <2>1, <2>2, RestartKeeps
  <2>4. backend = "memory" => crashes' > crashes
    BY <2>1 DEF Restart, QueueInv, CountsOK
  <2>5. backend = "file" => held' = held
    BY <2>1 DEF Restart
  <2>6. backend \in {"memory", "file"}
    BY DEF QueueInv, RingOK
  <2> QED BY <2>3, <2>4, <2>5, <2>6 DEF Excused
<1>8. CASE Tick
  <2>1. /\ mtime' = mtime + 1
        /\ UNCHANGED <<backend, held, ring, stats, issued, carried, evicted, stuck, crashes>>
    BY <1>8 DEF Tick
  <2>2. LettersOK'
    BY <2>1 DEF QueueInv, LettersOK
  <2> QED BY <2>1, <2>2 DEF QueueInv, CountsOK, RingOK, BoundOK, TelemetryAddsUp, Size, InTurn, Excused
<1> QED BY <1>1, <1>2, <1>3, <1>4, <1>5, <1>6, <1>7, <1>8 DEF DlqNext

\* The queue over both storages, for any number of letters, tenants, restarts and
\* refused removals: the ring and the items name the same letters in the order
\* they came, the telemetry adds up, the bound is exceeded only by what could not
\* be removed, and a letter that leaves was purged, lost with its process, or
\* made room in a full storage, no letter saved before it staying behind.
THEOREM QueueCorrect == DlqSpec => QueueSafe
<1>1. DlqInit => QueueInv
  <2> SUFFICES ASSUME DlqInit PROVE QueueInv
    OBVIOUS
  <2>1. DOMAIN held = {} /\ Size = 0
    BY FS_EmptySet DEF DlqInit, EmptyDict, Size
  <2>2. ring \in Seq(Nat) /\ DOMAIN ring = {} /\ Len(ring) = 0
    BY EmptySeq DEF DlqInit
  <2>3. RingOK
    BY <2>1, <2>2, CapacityAssumption DEF DlqInit, RingOK, InTurn, Range
  <2> QED BY <2>1, <2>3, CapacityAssumption
          DEF DlqInit, QueueInv, LettersOK, CountsOK, BoundOK, TelemetryAddsUp, NoStats
<1>2. QueueInv /\ [DlqNext]_dlqVars => QueueInv'
  BY QueueSteps
<1>3. QueueInv => DlqTypeOK /\ RingMatchesItems /\ TelemetryAddsUp
  <2> SUFFICES ASSUME QueueInv PROVE DlqTypeOK /\ RingMatchesItems /\ TelemetryAddsUp
    OBVIOUS
  <2>1. Size <= Cardinality(Letters) /\ Cardinality(Letters) \in Nat
    <3>1. issued \in Nat /\ issued <= MaxLetters /\ MaxLetters \in Nat
      BY CapacityAssumption DEF QueueInv, LettersOK
    <3>2. DOMAIN held \subseteq Letters
      BY <3>1 DEF QueueInv, LettersOK, Letters
    <3>3. IsFiniteSet(Letters)
      BY <3>1, FS_Interval DEF Letters
    <3> QED BY <3>2, <3>3, FS_Subset, FS_CardinalityType DEF Size
  <2>2. Size <= Capacity + (IF crashes = 0 THEN stuck ELSE Cardinality(Letters))
    BY <2>1, CapacityAssumption, SizeFacts DEF QueueInv, BoundOK, CountsOK
  <2>3. DlqTypeOK
    BY <2>2 DEF QueueInv, LettersOK, CountsOK, DlqTypeOK
  <2> QED BY <2>3 DEF QueueInv, RingOK, RingMatchesItems, InTurn
<1>4. QueueInv /\ [DlqNext]_dlqVars => [Excused]_dlqVars
  BY QueueSteps
<1> QED BY <1>1, <1>2, <1>3, <1>4, PTL DEF DlqSpec, QueueSafe, LeavesOnlyWhenFull
=============================================================================
