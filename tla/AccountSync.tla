---------------------------- MODULE AccountSync -----------------------------
(***************************************************************************)
(* AccountSyncCoordinator (ingestion_gateway/coordinator.py) keeping the   *)
(* daemons of MailboxDaemonRegistry (webhook_handler.py) in step with the  *)
(* accounts in the database.                                               *)
(*                                                                         *)
(* A sweep holds the coordinator's lock from start to end but awaits every *)
(* daemon.stop(), and the database may change meanwhile.  start() of the   *)
(* three daemons sets the status and spawns a task without suspending, so  *)
(* creating, registering and starting a daemon is one step; it may raise.  *)
(* stop() sets the status first and then awaits, and may raise after that. *)
(*                                                                         *)
(* Time is relative, so that the clock can run for ever: a retry time is   *)
(* kept as the ticks that remain, and a sweep knows how long ago it read   *)
(* the clock it compares retry times with.                                 *)
(***************************************************************************)
EXTENDS Integers, FiniteSets, Dict

CONSTANTS
  Accounts,     \* (tenant_id, id) of the rows of the account repository
  ConfigsOf,    \* account -> the configurations [prov, addr, token] it may have
  Providers,    \* what _map_provider recognises; others raise ValueError
  Instances,    \* what tells two daemon objects for one configuration apart
  BackoffBase,  \* the 10 s of _calculate_backoff_sec, in ticks
  BackoffCap,   \* its 300 s
  MaxCounted,     \* failures counted; the backoff has reached its cap by then
  MaxSweep      \* bound on the ticks one sweep takes

ASSUME BackoffAssumption == BackoffBase \in Nat \ {0} /\ BackoffCap \in Nat \ {0}
ASSUME BoundAssumption == MaxCounted \in Nat \ {0} /\ MaxSweep \in Nat
\* Plain arithmetic, which the provers do not know of exponents.
ASSUME DelayAssumption == \A f \in 1..MaxCounted : BackoffBase * 2 ^ (f - 1) \in Nat

VARIABLES
  db,           \* account -> its configuration, or Inactive (deactivated or deleted)
  byId,         \* _daemons_by_id: <<account, provider>> -> daemon
  byMailbox,    \* _daemons_by_mailbox: <<provider, address>> -> daemon
  running,      \* the daemons whose status is RUNNING
  hashes,       \* _account_config_hashes
  syncFails,        \* _consecutive_failures
  retry,        \* _next_retry_time, as the ticks left
  sweep         \* the sweep in progress

syncVars == <<db, byId, byMailbox, running, hashes, syncFails, retry, sweep>>
registry == <<byId, byMailbox>>
books == <<hashes, syncFails, retry>>

Inactive == [prov |-> "inactive", addr |-> "", token |-> 0]
NoSweep == [pc |-> "idle", accs |-> EmptyDict, todo |-> {}, cur |-> {}, age |-> 0]

SyncInit ==
  /\ db \in [Accounts -> {Inactive}]
  /\ byId = EmptyDict /\ byMailbox = EmptyDict
  /\ running = {}
  /\ hashes = EmptyDict /\ syncFails = EmptyDict /\ retry = EmptyDict
  /\ sweep = NoSweep

\* min(10 * 2 ^ (failures - 1), 300)
Backoff(f) == LET d == BackoffBase * 2 ^ (f - 1) IN IF d < BackoffCap THEN d ELSE BackoffCap

\* A daemon object: the account and configuration it was created with.
DaemonOf(a, cfg, i) == [acc |-> a, cfg |-> cfg, id |-> i]
Registered == {byId[k] : k \in DOMAIN byId}
IdKey(d) == <<d.acc, d.cfg.prov>>
MailboxKey(d) == <<d.cfg.prov, d.cfg.addr>>

\* The sweep moves on within step pc.
Within(pc, todo, cur) == [pc |-> pc, accs |-> sweep.accs, todo |-> todo, cur |-> cur,
                      age |-> sweep.age]

\* Mutant: the mailbox index keeps its entry.
UnregisteredById(k) == [byId |-> Drop(byId, {k}), byMailbox |-> byMailbox]

\* registry.unregister: the entry by id, and the one under its mailbox.
Unregistered(k) ==
  IF k \in DOMAIN byId
  THEN [byId |-> Drop(byId, {k}), byMailbox |-> Drop(byMailbox, {MailboxKey(byId[k])})]
  ELSE [byId |-> byId, byMailbox |-> byMailbox]

\* create_and_register_daemon for account a, after unregistering what it had,
\* and start(): d is a new object.
Create(d, a, cfg) ==
  LET kept == Unregistered(<<a, cfg.prov>>) IN
  /\ d \notin Registered \cup running
  /\ byId' = Put(kept.byId, IdKey(d), d)
  /\ byMailbox' = Put(kept.byMailbox, MailboxKey(d), d)
  /\ running' = running \cup {d}

\* Mutant: the clean-up after a failure also forgets the account's fingerprint.
FailAccountForgetting(a, cfg) ==
  LET f == IF Get(syncFails, a, 0) < MaxCounted THEN Get(syncFails, a, 0) + 1 ELSE MaxCounted
      kept == Unregistered(<<a, cfg.prov>>) IN
  /\ byId' = kept.byId /\ byMailbox' = kept.byMailbox
  /\ syncFails' = Put(syncFails, a, f)
  /\ retry' = Put(retry, a, Backoff(f) - sweep.age)
  /\ hashes' = Drop(hashes, {a})

\* The except branch of the sweep: clean up the registry, count, back off.
FailAccount(a, cfg) ==
  LET f == IF Get(syncFails, a, 0) < MaxCounted THEN Get(syncFails, a, 0) + 1 ELSE MaxCounted
      kept == Unregistered(<<a, cfg.prov>>) IN
  /\ byId' = kept.byId /\ byMailbox' = kept.byMailbox
  /\ syncFails' = Put(syncFails, a, f)
  /\ retry' = Put(retry, a, Backoff(f) - sweep.age)
  /\ UNCHANGED hashes

\* Mutant: a failure count is kept after a success.
SucceedKeepingFails(a, cfg) ==
  /\ hashes' = Put(hashes, a, cfg)
  /\ retry' = Drop(retry, {a})
  /\ UNCHANGED syncFails

\* Mutant: the fingerprint is only recorded for accounts that had none.
SucceedOnce(a, cfg) ==
  /\ hashes' = IF a \in DOMAIN hashes THEN hashes ELSE Put(hashes, a, cfg)
  /\ syncFails' = Drop(syncFails, {a})
  /\ retry' = Drop(retry, {a})

\* What a success records: the fingerprint, and no failure.
Succeed(a, cfg) ==
  /\ hashes' = Put(hashes, a, cfg)
  /\ syncFails' = Drop(syncFails, {a})
  /\ retry' = Drop(retry, {a})

-----------------------------------------------------------------------------
\* reconcile_once takes the lock, reads the accounts and the clock, and lists
\* the daemons whose account is no longer active.
SweepBegin ==
  LET active == {a \in Accounts : db[a] # Inactive} IN
  /\ sweep.pc = "idle"
  /\ sweep' = [pc |-> "terminate", accs |-> [a \in active |-> db[a]],
               todo |-> {d \in Registered : d.acc \notin active},
               cur |-> {}, age |-> 0]
  /\ UNCHANGED <<db, registry, running, books>>

\* Step 1: stop a daemon whose account is gone.
StopInactive(d) ==
  /\ sweep.pc = "terminate"
  /\ running' = running \ {d}
  /\ sweep' = Within("stopping", sweep.todo, {d})
  /\ UNCHANGED <<db, registry, books>>

\* Its stop() returned or raised: it is unregistered and forgotten either way.
Terminate(d) ==
  LET kept == Unregistered(IdKey(d)) IN
  /\ sweep.pc = "stopping" /\ sweep.cur = {d}
  /\ byId' = kept.byId /\ byMailbox' = kept.byMailbox
  /\ hashes' = Drop(hashes, {d.acc})
  /\ syncFails' = Drop(syncFails, {d.acc}) /\ retry' = Drop(retry, {d.acc})
  /\ sweep' = Within("terminate", sweep.todo \ {d}, {})
  /\ UNCHANGED <<db, running>>

\* Step 2 begins once no such daemon is left.
ToAccounts ==
  /\ sweep.pc = "terminate" /\ sweep.todo = {}
  /\ sweep' = Within("accounts", DOMAIN sweep.accs, {})
  /\ UNCHANGED <<db, registry, running, books>>

InBackoff(a) == a \in DOMAIN retry /\ retry[a] + sweep.age > 0
AccountKey(a) == <<a, sweep.accs[a].prov>>
Visiting(a) ==
  /\ sweep.pc = "accounts" /\ a \in sweep.todo
  /\ ~InBackoff(a) /\ sweep.accs[a].prov \in Providers

\* The account waits for its retry, or its daemon is there and unchanged.  A
\* missing fingerprint counts as unchanged.
LeaveAlone(a) ==
  /\ sweep.pc = "accounts" /\ a \in sweep.todo
  /\ \/ InBackoff(a)
     \/ /\ Visiting(a) /\ AccountKey(a) \in DOMAIN byId
        /\ Get(hashes, a, sweep.accs[a]) = sweep.accs[a]
  /\ sweep' = Within("accounts", sweep.todo \ {a}, {})
  /\ UNCHANGED <<db, registry, running, books>>

\* _map_provider raises, here and again in the clean-up, which then does nothing.
UnknownProvider(a) ==
  /\ sweep.pc = "accounts" /\ a \in sweep.todo /\ ~InBackoff(a)
  /\ sweep.accs[a].prov \notin Providers
  /\ FailAccount(a, sweep.accs[a])
  /\ sweep' = Within("accounts", sweep.todo \ {a}, {})
  /\ UNCHANGED <<db, running>>

\* No daemon yet for this account and provider: one is created and started.
Spawn(a, i) ==
  /\ Visiting(a) /\ AccountKey(a) \notin DOMAIN byId
  /\ Create(DaemonOf(a, sweep.accs[a], i), a, sweep.accs[a])
  /\ Succeed(a, sweep.accs[a])
  /\ sweep' = Within("accounts", sweep.todo \ {a}, {})
  /\ UNCHANGED db

\* Creating or starting it raises.
SpawnFails(a) ==
  /\ Visiting(a) /\ AccountKey(a) \notin DOMAIN byId
  /\ FailAccount(a, sweep.accs[a])
  /\ sweep' = Within("accounts", sweep.todo \ {a}, {})
  /\ UNCHANGED <<db, running>>

Changed(a) ==
  /\ Visiting(a) /\ AccountKey(a) \in DOMAIN byId
  /\ Get(hashes, a, sweep.accs[a]) # sweep.accs[a]

\* Mutant: the daemon of a changed account is replaced without being stopped.
RestartDaemonOnly(a) ==
  /\ Changed(a)
  /\ sweep' = Within("restarting", sweep.todo, {a})
  /\ UNCHANGED <<db, registry, running, books>>

\* The configuration changed: the daemon in place is stopped.
RestartDaemon(a) ==
  /\ Changed(a)
  /\ running' = running \ {byId[AccountKey(a)]}
  /\ sweep' = Within("restarting", sweep.todo, {a})
  /\ UNCHANGED <<db, registry, books>>

\* stop() returned: unregister, create, register, start.
Restarted(a, i) ==
  /\ sweep.pc = "restarting" /\ sweep.cur = {a}
  /\ Create(DaemonOf(a, sweep.accs[a], i), a, sweep.accs[a])
  /\ Succeed(a, sweep.accs[a])
  /\ sweep' = Within("accounts", sweep.todo \ {a}, {})
  /\ UNCHANGED db

\* stop() raised, or the replacement could not be started.
RestartFails(a) ==
  /\ sweep.pc = "restarting" /\ sweep.cur = {a}
  /\ FailAccount(a, sweep.accs[a])
  /\ sweep' = Within("accounts", sweep.todo \ {a}, {})
  /\ UNCHANGED <<db, running>>

SweepEnd ==
  /\ sweep.pc = "accounts" /\ sweep.todo = {}
  /\ sweep' = NoSweep
  /\ UNCHANGED <<db, registry, running, books>>

-----------------------------------------------------------------------------
\* An administrator activates, changes or deactivates an account.
Edit(a, cfg) ==
  /\ cfg # db[a]
  /\ db' = [db EXCEPT ![a] = cfg]
  /\ UNCHANGED <<registry, running, books, sweep>>

SyncTick ==
  /\ sweep.age < MaxSweep
  /\ \/ sweep.pc # "idle" \/ \E a \in DOMAIN retry : retry[a] > -MaxSweep
  /\ retry' = [a \in DOMAIN retry |->
                 IF retry[a] > -MaxSweep THEN retry[a] - 1 ELSE retry[a]]
  /\ sweep' = IF sweep.pc = "idle" THEN sweep ELSE [sweep EXCEPT !.age = @ + 1]
  /\ UNCHANGED <<db, registry, running, hashes, syncFails>>

SweepStep ==
  \/ SweepBegin \/ ToAccounts \/ SweepEnd
  \/ \E d \in sweep.todo : StopInactive(d) \/ Terminate(d)
  \/ \E a \in Accounts : \/ LeaveAlone(a) \/ UnknownProvider(a) \/ SpawnFails(a)
                         \/ RestartDaemon(a) \/ RestartFails(a)
                         \/ \E i \in Instances : Spawn(a, i) \/ Restarted(a, i)

SyncNext == SweepStep \/ SyncTick \/ \E a \in Accounts : \E cfg \in ConfigsOf[a] \cup {Inactive} : Edit(a, cfg)

SyncSpec == SyncInit /\ [][SyncNext]_syncVars

\* The sync loop keeps sweeping, time passes, and an account whose daemon is
\* created again and again is not refused for ever.
SyncFairness ==
  /\ WF_syncVars(SweepStep) /\ WF_syncVars(SyncTick)
  /\ \A a \in Accounts : SF_syncVars(\E i \in Instances : Spawn(a, i))

FairSpec == SyncSpec /\ SyncFairness

-----------------------------------------------------------------------------
\* Type invariant; an account has a failure count exactly while it has a retry
\* time, and no retry lies further ahead than the backoff cap.
SyncTypeOK ==
  /\ \A a \in Accounts : db[a] \in ConfigsOf[a] \cup {Inactive}
  /\ DOMAIN byId \subseteq Accounts \X Providers
  /\ \A d \in Registered \cup running :
       d.acc \in Accounts /\ d.cfg \in ConfigsOf[d.acc] /\ d.id \in Instances
  /\ DOMAIN hashes \subseteq Accounts
  /\ DOMAIN syncFails = DOMAIN retry /\ DOMAIN syncFails \subseteq Accounts
  /\ \A a \in DOMAIN syncFails : syncFails[a] \in 1..MaxCounted /\ retry[a] \in -MaxSweep..BackoffCap
  /\ sweep.pc \in {"idle", "terminate", "stopping", "accounts", "restarting"}
  /\ sweep.age \in 0..MaxSweep

\* No daemon runs that the registry has lost: whatever start() or stop() raises
\* and wherever the database changes in between, a RUNNING daemon is registered
\* under its own account and provider, where the next sweep can stop it.
NoOrphanDaemon ==
  \A d \in running : IdKey(d) \in DOMAIN byId /\ byId[IdKey(d)] = d

\* No two accounts share a mailbox of a provider.  The database sees to it for the
\* accounts of one tenant only.
OwnMailboxes ==
  \A a, b \in Accounts : \A x \in ConfigsOf[a], y \in ConfigsOf[b] :
    x.prov = y.prov /\ x.addr = y.addr => a = b

\* The registry's two indexes agree, as long as no two accounts share a mailbox
\* of a provider: each registered daemon is found under its address, and no
\* address leads to a daemon that has been unregistered.
IndexesAgree == OwnMailboxes =>
  /\ \A d \in Registered : MailboxKey(d) \in DOMAIN byMailbox /\ byMailbox[MailboxKey(d)] = d
  /\ \A k \in DOMAIN byMailbox : byMailbox[k] \in Registered

\* Between sweeps every registered daemon's account has a fingerprint on record.
\* Without one, "if stored_hash and ..." would hide every later change of the
\* account's credentials from the coordinator.
ChangesAreNoticed ==
  sweep.pc = "idle" => \A d \in Registered : d.acc \in DOMAIN hashes

Serving(a, cfg) == LET k == <<a, cfg.prov>> IN
  k \in DOMAIN byId /\ byId[k] \in running /\ byId[k].cfg = cfg

\* An account that stays active under a recognised provider ends up with a
\* running daemon for its current configuration, and an account that stays
\* inactive with none, despite failed starts and stops, backoff and edits in
\* the middle of a sweep.
Converges ==
  \A a \in Accounts :
    /\ \A cfg \in {c \in ConfigsOf[a] : c.prov \in Providers} :
         <>[](db[a] = cfg) => <>[]Serving(a, cfg)
    /\ <>[](db[a] = Inactive) => <>[](\A d \in Registered : d.acc # a)

\* The class documents itself as "reconciling active database EmailAccount
\* entities with registered live mailbox provider daemons": once an account has
\* settled, the daemons left for it are those of its current provider.
ReconcilesProviders ==
  \A a \in Accounts : \A cfg \in {c \in ConfigsOf[a] : c.prov \in Providers} :
    <>[](db[a] = cfg) => <>[](\A d \in running : d.acc = a => d.cfg.prov = cfg.prov)

\* The coordinator and the registry agree at every moment of a sweep, whatever
\* start() and stop() raise: no running daemon is lost, the two indexes lead to
\* the same daemons, and no account is without the fingerprint that reveals its
\* changes.
AccountsConsistent == SyncTypeOK /\ NoOrphanDaemon /\ IndexesAgree /\ ChangesAreNoticed
=============================================================================
