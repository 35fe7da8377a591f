------------------------- MODULE AccountSyncProofs --------------------------
(***************************************************************************)
(* Proofs about the account coordinator, for any number of accounts and    *)
(* configurations, failures and edits of the database.                     *)
(***************************************************************************)
EXTENDS AccountSync, TLAPS

USE BackoffAssumption, BoundAssumption

\* The delay of a retry is at most the cap.
LEMMA BackoffBound == \A f \in 1..MaxCounted : Backoff(f) \in 0..BackoffCap
<1> TAKE f \in 1..MaxCounted
<1>1. PICK d \in Nat : d = BackoffBase * 2 ^ (f - 1)
  BY DelayAssumption
<1>2. Backoff(f) = IF d < BackoffCap THEN d ELSE BackoffCap
  BY <1>1 DEF Backoff
<1> QED BY <1>2

-----------------------------------------------------------------------------
(***************************************************************************)
(* The inductive invariant.  A daemon stands in the registry under its own *)
(* account and provider, and under its own address.  The sweep works on    *)
(* what it read at its start: the daemons still to be terminated are in    *)
(* the registry, the one it has stopped does not run, and every daemon of  *)
(* an account that is gone is among them, which is why the fingerprints    *)
(* are complete once none is left.                                         *)
(***************************************************************************)
IsDaemon(d) == d.acc \in Accounts /\ d.cfg \in ConfigsOf[d.acc] /\ d.id \in Instances
            /\ d.cfg.prov \in Providers

Listed(d) == IdKey(d) \in DOMAIN byId /\ byId[IdKey(d)] = d

RegistryOK ==
  /\ \A k \in DOMAIN byId : IsDaemon(byId[k]) /\ IdKey(byId[k]) = k
  /\ \A d \in running : Listed(d)

MailboxesOK == OwnMailboxes =>
  /\ \A k \in DOMAIN byId : /\ MailboxKey(byId[k]) \in DOMAIN byMailbox
                            /\ byMailbox[MailboxKey(byId[k])] = byId[k]
  /\ \A k \in DOMAIN byMailbox : Listed(byMailbox[k]) /\ MailboxKey(byMailbox[k]) = k

BooksOK ==
  /\ DOMAIN hashes \subseteq Accounts
  /\ DOMAIN syncFails = DOMAIN retry /\ DOMAIN syncFails \subseteq Accounts
  /\ \A a \in DOMAIN syncFails : syncFails[a] \in 1..MaxCounted /\ retry[a] \in -MaxSweep..BackoffCap

DbOK == DOMAIN db = Accounts /\ \A a \in Accounts : db[a] \in ConfigsOf[a] \cup {Inactive}

SweepOK ==
  /\ sweep = [pc |-> sweep.pc, accs |-> sweep.accs, todo |-> sweep.todo, cur |-> sweep.cur, age |-> sweep.age]
  /\ sweep.pc \in {"idle", "terminate", "stopping", "accounts", "restarting"}
  /\ sweep.age \in 0..MaxSweep
  /\ DOMAIN sweep.accs \subseteq Accounts
  /\ \A a \in DOMAIN sweep.accs : sweep.accs[a] \in ConfigsOf[a]

Terminating ==
  sweep.pc \in {"terminate", "stopping"} =>
    /\ \A d \in sweep.todo : Listed(d) /\ d.acc \notin DOMAIN sweep.accs
    /\ \A k \in DOMAIN byId : byId[k].acc \in DOMAIN hashes \/ byId[k] \in sweep.todo
    /\ \A k \in DOMAIN byId : byId[k].acc \in DOMAIN sweep.accs \/ byId[k] \in sweep.todo
    /\ sweep.pc = "stopping" => \A d \in sweep.cur : d \notin running

Visits ==
  /\ sweep.pc \in {"accounts", "restarting"} => sweep.todo \subseteq DOMAIN sweep.accs
  /\ sweep.pc \in {"idle", "accounts", "restarting"} =>
       \A k \in DOMAIN byId : byId[k].acc \in DOMAIN hashes
  /\ sweep.pc = "restarting" => \A a \in sweep.cur :
       /\ a \in sweep.todo /\ sweep.accs[a].prov \in Providers
       /\ AccountKey(a) \in DOMAIN byId => byId[AccountKey(a)] \notin running

SyncInv == RegistryOK /\ MailboxesOK /\ BooksOK /\ DbOK /\ SweepOK /\ Terminating /\ Visits

\* The invariant is stronger than the property.
LEMMA SyncInvSuffices == SyncInv => AccountsConsistent
<1> SUFFICES ASSUME SyncInv PROVE AccountsConsistent
  OBVIOUS
<1>1. \A d \in Registered \cup running : Listed(d) /\ IsDaemon(d)
  BY DEF SyncInv, RegistryOK, Registered, Listed
<1>2. DOMAIN byId \subseteq Accounts \X Providers
  BY DEF SyncInv, RegistryOK, IsDaemon, IdKey
<1>3. SyncTypeOK
  BY <1>1, <1>2 DEF SyncInv, BooksOK, DbOK, SweepOK, SyncTypeOK, IsDaemon
<1>4. NoOrphanDaemon
  BY DEF SyncInv, RegistryOK, Listed, NoOrphanDaemon
<1>5. IndexesAgree
  BY <1>1 DEF SyncInv, MailboxesOK, Listed, IndexesAgree, Registered
<1>6. ChangesAreNoticed
  BY DEF SyncInv, Visits, ChangesAreNoticed, Registered
<1> QED BY <1>3, <1>4, <1>5, <1>6 DEF AccountsConsistent

\* unregister under k, whether or not a daemon is there: if none runs there, the
\* registry stays in order.
LEMMA UnregisterKeeps ==
  ASSUME RegistryOK, MailboxesOK, NEW k, NEW kept, kept = Unregistered(k),
         byId' = kept.byId, byMailbox' = kept.byMailbox, running' = running,
         k \in DOMAIN byId => byId[k] \notin running
  PROVE /\ RegistryOK' /\ MailboxesOK'
        /\ DOMAIN byId' = DOMAIN byId \ {k} /\ \A x \in DOMAIN byId' : byId'[x] = byId[x]
<1>1. CASE k \notin DOMAIN byId
  <2>1. byId' = byId /\ byMailbox' = byMailbox
    BY <1>1 DEF Unregistered
  <2> QED BY <1>1, <2>1 DEF RegistryOK, MailboxesOK, Listed
<1>2. CASE k \in DOMAIN byId
  <2>1. PICK o : o = byId[k]
    OBVIOUS
  <2>2. byId' = Drop(byId, {k}) /\ byMailbox' = Drop(byMailbox, {MailboxKey(o)})
    BY <1>2, <2>1 DEF Unregistered
  <2>3. /\ DOMAIN byId' = DOMAIN byId \ {k} /\ \A x \in DOMAIN byId' : byId'[x] = byId[x]
        /\ DOMAIN byMailbox' = DOMAIN byMailbox \ {MailboxKey(o)}
        /\ \A x \in DOMAIN byMailbox' : byMailbox'[x] = byMailbox[x]
    BY <2>2 DEF Drop
  <2>4. RegistryOK'
    BY <1>2, <2>3 DEF RegistryOK, Listed
  <2>5. MailboxesOK'
    <3> SUFFICES ASSUME OwnMailboxes
                 PROVE /\ \A x \in DOMAIN byId' : /\ MailboxKey(byId'[x]) \in DOMAIN byMailbox'
                                                  /\ byMailbox'[MailboxKey(byId'[x])] = byId'[x]
                       /\ \A x \in DOMAIN byMailbox' :
                            Listed(byMailbox[x])' /\ MailboxKey(byMailbox'[x]) = x
      BY <2>3 DEF MailboxesOK
    <3>1. \A x \in DOMAIN byId : x # k => MailboxKey(byId[x]) # MailboxKey(o)
      BY <1>2, <2>1 DEF MailboxesOK, RegistryOK
    <3> QED BY <2>1, <2>3, <3>1 DEF MailboxesOK, Listed
  <2> QED BY <2>3, <2>4, <2>5
<1> QED BY <1>1, <1>2

\* A new daemon takes the place of the one, if any, that does not run any more.
LEMMA CreateKeeps ==
  ASSUME RegistryOK, MailboxesOK, NEW a \in Accounts, NEW cfg \in ConfigsOf[a], cfg.prov \in Providers,
         NEW i \in Instances, NEW d, d = DaemonOf(a, cfg, i), Create(d, a, cfg),
         <<a, cfg.prov>> \in DOMAIN byId => byId[<<a, cfg.prov>>] \notin running
  PROVE /\ RegistryOK' /\ MailboxesOK'
        /\ \A x \in DOMAIN byId' : byId'[x] = d \/ (x \in DOMAIN byId /\ byId'[x] = byId[x])
<1>1. PICK k : k = <<a, cfg.prov>>
  OBVIOUS
<1>2. /\ d.acc = a /\ d.cfg = cfg /\ d.id = i /\ IdKey(d) = k /\ IsDaemon(d)
  BY <1>1 DEF DaemonOf, IdKey, IsDaemon
<1>3. PICK mk : mk = MailboxKey(d) /\ mk = <<cfg.prov, cfg.addr>>
  BY <1>2 DEF MailboxKey
<1>4. PICK kept : kept = Unregistered(k)
  OBVIOUS
<1>5. byId' = Put(kept.byId, k, d) /\ byMailbox' = Put(kept.byMailbox, mk, d) /\ running' = running \cup {d}
  BY <1>1, <1>2, <1>3, <1>4 DEF Create
<1>6. /\ DOMAIN kept.byId = DOMAIN byId \ {k} /\ \A x \in DOMAIN byId \ {k} : kept.byId[x] = byId[x]
  BY <1>4 DEF Unregistered, Drop
<1>7. /\ DOMAIN byId' = DOMAIN byId \cup {k} /\ byId'[k] = d
      /\ \A x \in DOMAIN byId : x # k => byId'[x] = byId[x]
  BY <1>5, <1>6 DEF Put
<1>8. RegistryOK'
  <2>1. \A x \in DOMAIN byId' : IsDaemon(byId'[x]) /\ IdKey(byId'[x]) = x
    BY <1>2, <1>7 DEF RegistryOK
  <2>2. \A e \in running : IdKey(e) # k
    BY <1>1 DEF RegistryOK, Listed
  <2>3. \A e \in running' : IdKey(e) \in DOMAIN byId' /\ byId'[IdKey(e)] = e
    BY <1>2, <1>5, <1>7, <2>2 DEF RegistryOK, Listed
  <2> QED BY <2>1, <2>3 DEF RegistryOK, Listed
<1>9. ASSUME OwnMailboxes
      PROVE /\ \A x \in DOMAIN byId' : /\ MailboxKey(byId'[x]) \in DOMAIN byMailbox'
                                       /\ byMailbox'[MailboxKey(byId'[x])] = byId'[x]
            /\ \A x \in DOMAIN byMailbox' :
                 /\ IdKey(byMailbox'[x]) \in DOMAIN byId' /\ byId'[IdKey(byMailbox'[x])] = byMailbox'[x]
                 /\ MailboxKey(byMailbox'[x]) = x
  <2>1. \A x \in DOMAIN byId : MailboxKey(byId[x]) = mk => x = k
    <3> SUFFICES ASSUME NEW x \in DOMAIN byId, MailboxKey(byId[x]) = mk PROVE x = k
      OBVIOUS
    <3>1. PICK e : e = byId[x] /\ IsDaemon(e) /\ IdKey(e) = x
      BY DEF RegistryOK
    <3>2. e.cfg.prov = cfg.prov /\ e.cfg.addr = cfg.addr /\ e.acc \in Accounts /\ e.cfg \in ConfigsOf[e.acc]
      BY <1>3, <3>1 DEF MailboxKey, IsDaemon
    <3>3. e.acc = a
      BY <1>9, <3>2 DEF OwnMailboxes
    <3> QED BY <1>1, <3>1, <3>2, <3>3 DEF IdKey
  <2>2. /\ DOMAIN kept.byMailbox \subseteq DOMAIN byMailbox
        /\ \A x \in DOMAIN kept.byMailbox : kept.byMailbox[x] = byMailbox[x]
        /\ \A x \in DOMAIN byMailbox : IdKey(byMailbox[x]) # k => x \in DOMAIN kept.byMailbox
        /\ \A x \in DOMAIN kept.byMailbox : IdKey(byMailbox[x]) # k
    <3>1. CASE k \notin DOMAIN byId
      <4>1. kept.byMailbox = byMailbox
        BY <1>4, <3>1 DEF Unregistered
      <4> QED BY <1>9, <3>1, <4>1 DEF MailboxesOK, Listed
    <3>2. CASE k \in DOMAIN byId
      <4>1. kept.byMailbox = Drop(byMailbox, {MailboxKey(byId[k])})
        BY <1>4, <3>2 DEF Unregistered
      <4>2. \A x \in DOMAIN byMailbox : x = MailboxKey(byId[k]) <=> IdKey(byMailbox[x]) = k
        BY <1>9, <3>2 DEF MailboxesOK, Listed, RegistryOK
      <4> QED BY <4>1, <4>2 DEF Drop
    <3> QED BY <3>1, <3>2
  <2>3. /\ DOMAIN byMailbox' = DOMAIN kept.byMailbox \cup {mk} /\ byMailbox'[mk] = d
        /\ \A x \in DOMAIN kept.byMailbox : x # mk => byMailbox'[x] = byMailbox[x]
    BY <1>5, <2>2 DEF Put
  <2>4. ASSUME NEW x \in DOMAIN byId'
        PROVE MailboxKey(byId'[x]) \in DOMAIN byMailbox' /\ byMailbox'[MailboxKey(byId'[x])] = byId'[x]
    <3>1. CASE x = k
      BY <1>3, <1>7, <2>3, <3>1
    <3>2. CASE x # k
      <4>1. PICK e : e = byId[x] /\ x \in DOMAIN byId /\ byId'[x] = e
        BY <1>7, <3>2
      <4>2. IdKey(e) = x /\ MailboxKey(e) \in DOMAIN byMailbox /\ byMailbox[MailboxKey(e)] = e
        BY <1>9, <4>1 DEF RegistryOK, MailboxesOK
      <4>3. MailboxKey(e) # mk /\ MailboxKey(e) \in DOMAIN kept.byMailbox
        BY <2>1, <2>2, <3>2, <4>1, <4>2
      <4> QED BY <2>3, <4>1, <4>2, <4>3
    <3> QED BY <3>1, <3>2
  <2>5. ASSUME NEW x \in DOMAIN byMailbox'
        PROVE /\ IdKey(byMailbox'[x]) \in DOMAIN byId' /\ byId'[IdKey(byMailbox'[x])] = byMailbox'[x]
              /\ MailboxKey(byMailbox'[x]) = x
    <3>1. CASE x = mk
      BY <1>2, <1>3, <1>7, <2>3, <3>1
    <3>2. CASE x # mk
      <4>1. PICK e : e = byMailbox[x] /\ x \in DOMAIN kept.byMailbox /\ byMailbox'[x] = e
        BY <2>3, <3>2
      <4>2. IdKey(e) # k /\ IdKey(e) \in DOMAIN byId /\ byId[IdKey(e)] = e /\ MailboxKey(e) = x
        BY <1>9, <2>2, <4>1 DEF MailboxesOK, Listed
      <4> QED BY <1>7, <4>1, <4>2
    <3> QED BY <3>1, <3>2
  <2> QED BY <2>4, <2>5
<1>10. MailboxesOK'
  BY <1>9 DEF MailboxesOK, Listed
<1> QED BY <1>7, <1>8, <1>10

\* A failure is counted and its retry lies within the cap; a success forgets both.
LEMMA FailureBooks ==
  ASSUME BooksOK, SweepOK, NEW a \in Accounts, NEW cfg, FailAccount(a, cfg) PROVE BooksOK'
<1>1. PICK f \in 1..MaxCounted : /\ syncFails' = Put(syncFails, a, f)
                                 /\ retry' = Put(retry, a, Backoff(f) - sweep.age)
  <2>1. (IF Get(syncFails, a, 0) < MaxCounted THEN Get(syncFails, a, 0) + 1 ELSE MaxCounted) \in 1..MaxCounted
    BY DEF Get, BooksOK
  <2> QED BY <2>1 DEF FailAccount
<1>2. Backoff(f) - sweep.age \in -MaxSweep..BackoffCap
  <2>1. PICK b \in 0..BackoffCap : b = Backoff(f)
    BY BackoffBound
  <2>2. sweep.age \in 0..MaxSweep
    BY DEF SweepOK
  <2> QED BY <2>1, <2>2
<1>3. /\ DOMAIN syncFails' = DOMAIN syncFails \cup {a} /\ DOMAIN retry' = DOMAIN retry \cup {a}
      /\ syncFails'[a] = f /\ retry'[a] = Backoff(f) - sweep.age
      /\ \A x \in DOMAIN syncFails : x # a => syncFails'[x] = syncFails[x]
      /\ \A x \in DOMAIN retry : x # a => retry'[x] = retry[x]
  BY <1>1 DEF Put
<1>4. DOMAIN syncFails' = DOMAIN retry' /\ DOMAIN syncFails' \subseteq Accounts /\ hashes' = hashes
  BY <1>3 DEF BooksOK, FailAccount
<1>5. ASSUME NEW x \in DOMAIN syncFails'
      PROVE syncFails'[x] \in 1..MaxCounted /\ retry'[x] \in -MaxSweep..BackoffCap
  <2>1. CASE x = a
    BY <1>1, <1>2, <1>3, <2>1
  <2>2. CASE x # a
    BY <1>3, <2>2 DEF BooksOK
  <2> QED BY <2>1, <2>2
<1> QED BY <1>4, <1>5 DEF BooksOK

LEMMA SuccessBooks ==
  ASSUME BooksOK, NEW a \in Accounts, NEW cfg, Succeed(a, cfg)
  PROVE BooksOK' /\ DOMAIN hashes' = DOMAIN hashes \cup {a}
  BY DEF Succeed, BooksOK, Put, Drop

\* The clean-up of an account in step 2, when nothing runs under its key, keeps the
\* invariant and moves the sweep on to the next account.
LEMMA FailKeeps ==
  ASSUME SyncInv, NEW a \in sweep.todo, sweep.pc \in {"accounts", "restarting"},
         FailAccount(a, sweep.accs[a]), UNCHANGED <<db, running>>,
         sweep' = Within("accounts", sweep.todo \ {a}, {}),
         AccountKey(a) \in DOMAIN byId => byId[AccountKey(a)] \notin running
  PROVE SyncInv'
<1>1. a \in Accounts /\ a \in DOMAIN sweep.accs
  BY DEF SyncInv, Visits, SweepOK
<1>2. PICK k, kept : /\ k = AccountKey(a) /\ kept = Unregistered(k)
                     /\ byId' = kept.byId /\ byMailbox' = kept.byMailbox /\ hashes' = hashes
  BY DEF FailAccount, AccountKey
<1>3. /\ RegistryOK' /\ MailboxesOK'
      /\ DOMAIN byId' = DOMAIN byId \ {k} /\ \A x \in DOMAIN byId' : byId'[x] = byId[x]
  BY <1>2, UnregisterKeeps DEF SyncInv
<1>4. BooksOK' /\ DbOK'
  BY <1>1, FailureBooks DEF SyncInv, DbOK
<1>5. /\ sweep'.pc = "accounts" /\ sweep'.todo = sweep.todo \ {a} /\ sweep'.accs = sweep.accs
      /\ sweep'.age = sweep.age
  BY DEF Within
<1>6. SweepOK' /\ Terminating' /\ Visits'
  <2>1. SweepOK'
    BY <1>5 DEF SyncInv, SweepOK, Within
  <2>2. Terminating'
    BY <1>5 DEF Terminating
  <2>3. Visits'
    BY <1>2, <1>3, <1>5 DEF SyncInv, Visits
  <2> QED BY <2>1, <2>2, <2>3
<1> QED BY <1>3, <1>4, <1>6 DEF SyncInv

\* So does a daemon made for the account.
LEMMA SpawnKeeps ==
  ASSUME SyncInv, NEW a \in sweep.todo, sweep.pc \in {"accounts", "restarting"}, NEW i \in Instances,
         sweep.accs[a].prov \in Providers,
         Create(DaemonOf(a, sweep.accs[a], i), a, sweep.accs[a]), Succeed(a, sweep.accs[a]),
         db' = db, sweep' = Within("accounts", sweep.todo \ {a}, {}),
         AccountKey(a) \in DOMAIN byId => byId[AccountKey(a)] \notin running
  PROVE SyncInv'
<1>1. a \in Accounts /\ a \in DOMAIN sweep.accs /\ sweep.accs[a] \in ConfigsOf[a]
  BY DEF SyncInv, Visits, SweepOK
<1>2. PICK cfg \in ConfigsOf[a] : cfg = sweep.accs[a]
  BY <1>1
<1>3. PICK d : d = DaemonOf(a, cfg, i)
  OBVIOUS
<1>4. /\ Create(d, a, cfg) /\ cfg.prov \in Providers
      /\ <<a, cfg.prov>> \in DOMAIN byId => byId[<<a, cfg.prov>>] \notin running
  BY <1>2, <1>3 DEF AccountKey
<1>5. /\ RegistryOK' /\ MailboxesOK'
      /\ \A x \in DOMAIN byId' : byId'[x] = d \/ (x \in DOMAIN byId /\ byId'[x] = byId[x])
  BY <1>1, <1>3, <1>4, CreateKeeps DEF SyncInv
<1>6. BooksOK' /\ DbOK' /\ DOMAIN hashes' = DOMAIN hashes \cup {a}
  BY <1>1, SuccessBooks DEF SyncInv, DbOK
<1>7. /\ sweep'.pc = "accounts" /\ sweep'.todo = sweep.todo \ {a} /\ sweep'.accs = sweep.accs
      /\ sweep'.age = sweep.age
  BY DEF Within
<1>8. SweepOK' /\ Terminating' /\ Visits'
  <2>1. SweepOK'
    BY <1>7 DEF SyncInv, SweepOK, Within
  <2>2. Terminating'
    BY <1>7 DEF Terminating
  <2>3. \A x \in DOMAIN byId' : byId'[x].acc \in DOMAIN hashes'
    BY <1>3, <1>5, <1>6 DEF SyncInv, Visits, DaemonOf
  <2>4. Visits'
    BY <1>7, <2>3 DEF SyncInv, Visits
  <2> QED BY <2>1, <2>2, <2>4
<1> QED BY <1>5, <1>6, <1>8 DEF SyncInv

\* Step 1 of the sweep: the daemons of accounts that are gone.
LEMMA TerminationKeeps ==
  ASSUME SyncInv, NEW d \in sweep.todo, StopInactive(d) \/ Terminate(d) PROVE SyncInv'
<1>1. CASE StopInactive(d)
  <2>1. /\ sweep.pc = "terminate" /\ running' = running \ {d}
        /\ byId' = byId /\ byMailbox' = byMailbox /\ db' = db
        /\ hashes' = hashes /\ syncFails' = syncFails /\ retry' = retry
        /\ sweep' = Within("stopping", sweep.todo, {d})
    BY <1>1 DEF StopInactive, registry, books
  <2>2. /\ sweep'.pc = "stopping" /\ sweep'.todo = sweep.todo /\ sweep'.accs = sweep.accs
        /\ sweep'.age = sweep.age /\ sweep'.cur = {d}
    BY <2>1 DEF Within
  <2>3. RegistryOK' /\ MailboxesOK' /\ BooksOK' /\ DbOK'
    BY <2>1 DEF SyncInv, RegistryOK, MailboxesOK, BooksOK, DbOK, Listed
  <2>4. SweepOK'
    BY <2>1, <2>2 DEF SyncInv, SweepOK, Within
  <2>5. Terminating'
    BY <2>1, <2>2 DEF SyncInv, Terminating, Listed
  <2>6. Visits'
    BY <2>2 DEF Visits
  <2> QED BY <2>3, <2>4, <2>5, <2>6 DEF SyncInv
<1>2. CASE Terminate(d)
  <2>1. PICK k, kept : /\ k = IdKey(d) /\ kept = Unregistered(k)
                       /\ byId' = kept.byId /\ byMailbox' = kept.byMailbox
    BY <1>2 DEF Terminate
  <2>2. /\ sweep.pc = "stopping" /\ sweep.cur = {d} /\ running' = running /\ db' = db
        /\ sweep' = Within("terminate", sweep.todo \ {d}, {})
    BY <1>2 DEF Terminate
  <2>3. k \in DOMAIN byId /\ byId[k] = d /\ d \notin running
    BY <2>1, <2>2 DEF SyncInv, Terminating, Listed
  <2>4. /\ RegistryOK' /\ MailboxesOK'
        /\ DOMAIN byId' = DOMAIN byId \ {k} /\ \A x \in DOMAIN byId' : byId'[x] = byId[x]
    BY <2>1, <2>2, <2>3, UnregisterKeeps DEF SyncInv
  <2>5. BooksOK' /\ DOMAIN hashes' = DOMAIN hashes \ {d.acc} /\ DbOK'
    BY <1>2, <2>2 DEF Terminate, SyncInv, BooksOK, DbOK, Drop
  <2>6. /\ sweep'.pc = "terminate" /\ sweep'.todo = sweep.todo \ {d} /\ sweep'.accs = sweep.accs
        /\ sweep'.age = sweep.age
    BY <2>2 DEF Within
  <2>7. SweepOK' /\ Visits'
    BY <2>2, <2>6 DEF SyncInv, SweepOK, Within, Visits
  <2>8. \A x \in DOMAIN byId' : byId[x] # d
    BY <2>1, <2>4 DEF SyncInv, RegistryOK
  <2>9. \A e \in sweep'.todo : IdKey(e) \in DOMAIN byId' /\ byId'[IdKey(e)] = e
    BY <2>2, <2>3, <2>4, <2>6 DEF SyncInv, Terminating, Listed
  <2>10. d.acc \notin DOMAIN sweep.accs
    BY <2>2 DEF SyncInv, Terminating
  <2>11. Terminating'
    BY <2>2, <2>4, <2>5, <2>6, <2>8, <2>9, <2>10 DEF SyncInv, Terminating, Listed
  <2> QED BY <2>4, <2>5, <2>7, <2>11 DEF SyncInv
<1> QED BY <1>1, <1>2

\* The coordinator and the registry agree at every moment of a sweep: whatever start()
\* and stop() raise and however the database changes meanwhile, no running daemon is
\* lost, both indexes lead to the same daemons, every account with a daemon has the
\* fingerprint that reveals its changes, and no retry lies further ahead than the cap.
THEOREM AccountsCorrect == SyncSpec => []AccountsConsistent
<1>1. SyncInit => SyncInv
  <2> SUFFICES ASSUME SyncInit PROVE SyncInv
    OBVIOUS
  <2>1. DOMAIN EmptyDict = {}
    BY DEF EmptyDict
  <2>2. RegistryOK /\ MailboxesOK /\ BooksOK
    BY <2>1 DEF SyncInit, RegistryOK, MailboxesOK, BooksOK
  <2>3. DbOK
    BY DEF SyncInit, DbOK
  <2>4. SweepOK /\ Terminating /\ Visits
    BY <2>1 DEF SyncInit, NoSweep, SweepOK, Terminating, Visits
  <2> QED BY <2>2, <2>3, <2>4 DEF SyncInv
<1>2. SyncInv /\ [SyncNext]_syncVars => SyncInv'
  <2> SUFFICES ASSUME SyncInv, [SyncNext]_syncVars PROVE SyncInv'
    OBVIOUS
  <2>0. ASSUME UNCHANGED <<registry, running>>
        PROVE RegistryOK' /\ MailboxesOK'
    BY <2>0 DEF SyncInv, RegistryOK, MailboxesOK, Listed, registry
  <2>00. ASSUME UNCHANGED books PROVE BooksOK' /\ hashes' = hashes
    BY <2>00 DEF SyncInv, BooksOK, books
  <2>1. CASE SweepBegin
    <3>1. PICK active \in SUBSET Accounts : active = {a \in Accounts : db[a] # Inactive}
      OBVIOUS
    <3>2. /\ sweep.pc = "idle" /\ UNCHANGED <<db, registry, running, books>>
          /\ sweep' = [pc |-> "terminate", accs |-> [a \in active |-> db[a]],
                       todo |-> {d \in Registered : d.acc \notin active}, cur |-> {}, age |-> 0]
      BY <2>1, <3>1 DEF SweepBegin
    <3>3. /\ sweep'.pc = "terminate" /\ sweep'.accs = [a \in active |-> db[a]]
          /\ sweep'.todo = {d \in Registered : d.acc \notin active} /\ sweep'.age = 0
      BY <3>2
    <3>4. DbOK' /\ RegistryOK' /\ MailboxesOK' /\ BooksOK' /\ hashes' = hashes /\ byId' = byId
      BY <2>0, <2>00, <3>2 DEF SyncInv, DbOK, registry
    <3>5. SweepOK'
      BY <3>1, <3>2, <3>3 DEF SyncInv, DbOK, SweepOK
    <3>6. Terminating'
      BY <3>2, <3>3, <3>4 DEF SyncInv, RegistryOK, Visits, Terminating, Listed, Registered
    <3>7. Visits'
      BY <3>3 DEF Visits
    <3> QED BY <3>4, <3>5, <3>6, <3>7 DEF SyncInv
  <2>2. ASSUME NEW d \in sweep.todo, StopInactive(d) \/ Terminate(d) PROVE SyncInv'
    BY <2>2, TerminationKeeps
  <2>3. CASE ToAccounts
    <3>1. /\ sweep.pc = "terminate" /\ sweep.todo = {} /\ UNCHANGED <<db, registry, running, books>>
          /\ sweep' = Within("accounts", DOMAIN sweep.accs, {})
      BY <2>3 DEF ToAccounts
    <3>2. /\ sweep'.pc = "accounts" /\ sweep'.todo = DOMAIN sweep.accs /\ sweep'.accs = sweep.accs
          /\ sweep'.age = sweep.age
      BY <3>1 DEF Within
    <3>3. DbOK' /\ RegistryOK' /\ MailboxesOK' /\ BooksOK' /\ hashes' = hashes /\ byId' = byId
      BY <2>0, <2>00, <3>1 DEF SyncInv, DbOK, registry
    <3>4. SweepOK' /\ Terminating'
      BY <3>1, <3>2 DEF SyncInv, SweepOK, Within, Terminating
    <3>5. Visits'
      BY <3>1, <3>2, <3>3 DEF SyncInv, Terminating, Visits
    <3> QED BY <3>3, <3>4, <3>5 DEF SyncInv
  <2>4. ASSUME NEW a \in Accounts, LeaveAlone(a) PROVE SyncInv'
    <3>1. /\ sweep.pc = "accounts" /\ UNCHANGED <<db, registry, running, books>>
          /\ sweep' = Within("accounts", sweep.todo \ {a}, {})
      BY <2>4 DEF LeaveAlone
    <3>2. /\ sweep'.pc = "accounts" /\ sweep'.todo = sweep.todo \ {a} /\ sweep'.accs = sweep.accs
          /\ sweep'.age = sweep.age
      BY <3>1 DEF Within
    <3>3. DbOK' /\ RegistryOK' /\ MailboxesOK' /\ BooksOK' /\ hashes' = hashes /\ byId' = byId
      BY <2>0, <2>00, <3>1 DEF SyncInv, DbOK, registry
    <3>4. SweepOK' /\ Terminating' /\ Visits'
      BY <3>1, <3>2, <3>3 DEF SyncInv, SweepOK, Within, Terminating, Visits
    <3> QED BY <3>3, <3>4 DEF SyncInv
  <2>5. ASSUME NEW a \in Accounts, UnknownProvider(a) PROVE SyncInv'
    <3>1. AccountKey(a) \notin DOMAIN byId
      BY <2>5 DEF UnknownProvider, SyncInv, RegistryOK, IsDaemon, IdKey, AccountKey
    <3> QED BY <2>5, <3>1, FailKeeps DEF UnknownProvider
  <2>6. ASSUME NEW a \in Accounts, SpawnFails(a) PROVE SyncInv'
    BY <2>6, FailKeeps DEF SpawnFails, Visiting
  <2>7. ASSUME NEW a \in Accounts, NEW i \in Instances, Spawn(a, i) PROVE SyncInv'
    BY <2>7, SpawnKeeps DEF Spawn, Visiting
  <2>8. ASSUME NEW a \in Accounts, RestartDaemon(a) PROVE SyncInv'
    <3>1. PICK o : o = byId[AccountKey(a)] /\ running' = running \ {o}
      BY <2>8 DEF RestartDaemon
    <3>2. /\ sweep.pc = "accounts" /\ a \in sweep.todo /\ sweep.accs[a].prov \in Providers
          /\ UNCHANGED <<db, registry, books>> /\ byId' = byId /\ byMailbox' = byMailbox
          /\ sweep' = Within("restarting", sweep.todo, {a})
      BY <2>8 DEF RestartDaemon, Changed, Visiting, registry
    <3>3. /\ sweep'.pc = "restarting" /\ sweep'.todo = sweep.todo /\ sweep'.accs = sweep.accs
          /\ sweep'.age = sweep.age /\ sweep'.cur = {a}
      BY <3>2 DEF Within
    <3>4. RegistryOK' /\ MailboxesOK' /\ BooksOK' /\ hashes' = hashes /\ DbOK'
      BY <2>00, <3>1, <3>2 DEF SyncInv, RegistryOK, MailboxesOK, DbOK, Listed
    <3>5. SweepOK' /\ Terminating'
      BY <3>2, <3>3 DEF SyncInv, SweepOK, Within, Terminating
    <3>6. Visits'
      BY <3>1, <3>2, <3>3, <3>4 DEF SyncInv, Visits, AccountKey
    <3> QED BY <3>4, <3>5, <3>6 DEF SyncInv
  <2>9. ASSUME NEW a \in Accounts, NEW i \in Instances, Restarted(a, i) PROVE SyncInv'
    <3>1. /\ a \in sweep.todo /\ sweep.pc = "restarting" /\ sweep.accs[a].prov \in Providers
          /\ AccountKey(a) \in DOMAIN byId => byId[AccountKey(a)] \notin running
      BY <2>9 DEF Restarted, SyncInv, Visits
    <3> QED BY <2>9, <3>1, SpawnKeeps DEF Restarted
  <2>10. ASSUME NEW a \in Accounts, RestartFails(a) PROVE SyncInv'
    <3>1. /\ a \in sweep.todo /\ sweep.pc = "restarting"
          /\ AccountKey(a) \in DOMAIN byId => byId[AccountKey(a)] \notin running
      BY <2>10 DEF RestartFails, SyncInv, Visits
    <3> QED BY <2>10, <3>1, FailKeeps DEF RestartFails
  <2>11. CASE SweepEnd
    <3>1. /\ sweep.pc = "accounts" /\ UNCHANGED <<db, registry, running, books>> /\ sweep' = NoSweep
      BY <2>11 DEF SweepEnd
    <3>2. sweep'.pc = "idle" /\ sweep'.accs = EmptyDict /\ sweep'.age = 0 /\ DOMAIN EmptyDict = {}
      BY <3>1 DEF NoSweep, EmptyDict
    <3>3. DbOK' /\ RegistryOK' /\ MailboxesOK' /\ BooksOK' /\ hashes' = hashes /\ byId' = byId
      BY <2>0, <2>00, <3>1 DEF SyncInv, DbOK, registry
    <3>4. SweepOK'
      BY <3>1, <3>2 DEF SweepOK, NoSweep
    <3>5. Terminating' /\ Visits'
      BY <3>1, <3>2, <3>3 DEF SyncInv, Terminating, Visits
    <3> QED BY <3>3, <3>4, <3>5 DEF SyncInv
  <2>12. ASSUME NEW a \in Accounts, NEW cfg \in ConfigsOf[a] \cup {Inactive}, Edit(a, cfg) PROVE SyncInv'
    <3>1. UNCHANGED <<registry, running, books, sweep>> /\ db' = [db EXCEPT ![a] = cfg]
      BY <2>12 DEF Edit
    <3>2. DbOK'
      BY <3>1 DEF SyncInv, DbOK
    <3>3. RegistryOK' /\ MailboxesOK' /\ BooksOK' /\ hashes' = hashes /\ byId' = byId
      BY <2>0, <2>00, <3>1 DEF registry
    <3>4. SweepOK' /\ Terminating' /\ Visits'
      BY <3>1, <3>3 DEF SyncInv, SweepOK, Terminating, Visits, Listed, AccountKey
    <3> QED BY <3>2, <3>3, <3>4 DEF SyncInv
  <2>13. CASE SyncTick
    <3>1. /\ UNCHANGED <<db, registry, running, hashes, syncFails>> /\ sweep.age < MaxSweep
          /\ retry' = [a \in DOMAIN retry |-> IF retry[a] > -MaxSweep THEN retry[a] - 1 ELSE retry[a]]
      BY <2>13 DEF SyncTick
    <3>2. /\ sweep'.pc = sweep.pc /\ sweep'.accs = sweep.accs /\ sweep'.todo = sweep.todo
          /\ sweep'.cur = sweep.cur /\ sweep'.age \in 0..MaxSweep
          /\ sweep' = [pc |-> sweep'.pc, accs |-> sweep'.accs, todo |-> sweep'.todo,
                       cur |-> sweep'.cur, age |-> sweep'.age]
      <4>1. PICK g \in 0..MaxSweep : g = sweep.age
        BY DEF SyncInv, SweepOK
      <4>2. CASE sweep' = sweep
        BY <4>2 DEF SyncInv, SweepOK
      <4>3. CASE sweep' = [sweep EXCEPT !.age = @ + 1]
        <5>1. sweep' = [pc |-> sweep.pc, accs |-> sweep.accs, todo |-> sweep.todo, cur |-> sweep.cur, age |-> g + 1]
          BY <4>1, <4>3 DEF SyncInv, SweepOK
        <5>2. g + 1 \in 0..MaxSweep
          BY <3>1, <4>1
        <5> QED BY <5>1, <5>2
      <4> QED BY <2>13, <4>2, <4>3 DEF SyncTick
    <3>3. BooksOK'
      <4>1. DOMAIN retry' = DOMAIN retry /\ \A a \in DOMAIN retry : retry'[a] \in -MaxSweep..BackoffCap
        <5>1. \A a \in DOMAIN retry : retry[a] \in -MaxSweep..BackoffCap
          BY DEF SyncInv, BooksOK
        <5> QED BY <3>1, <5>1
      <4> QED BY <3>1, <4>1 DEF SyncInv, BooksOK
    <3>4. DbOK' /\ RegistryOK' /\ MailboxesOK' /\ byId' = byId
      BY <2>0, <3>1 DEF SyncInv, DbOK, registry
    <3>5. SweepOK'
      BY <3>2 DEF SyncInv, SweepOK
    <3>6. Terminating' /\ Visits'
      BY <3>1, <3>2, <3>4 DEF SyncInv, Terminating, Visits, Listed, AccountKey
    <3> QED BY <3>3, <3>4, <3>5, <3>6 DEF SyncInv
  <2>14. CASE UNCHANGED syncVars
    BY <2>14 DEF syncVars, SyncInv, RegistryOK, MailboxesOK, BooksOK, DbOK, SweepOK, Terminating,
                 Visits, Listed, AccountKey
  <2> QED BY <2>1, <2>2, <2>3, <2>4, <2>5, <2>6, <2>7, <2>8, <2>9, <2>10, <2>11, <2>12, <2>13, <2>14
          DEF SyncNext, SweepStep
<1> QED BY <1>1, <1>2, SyncInvSuffices, PTL DEF SyncSpec
=============================================================================
