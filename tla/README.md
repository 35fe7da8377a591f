# Verification of the e-mail analysis platform (ScamON)

TLA+ models of the parts of the platform that keep state or run concurrently,
the TLC runs that check them on small instances, and TLAPS proofs of the
properties that matter most. Paths below are relative to `src/src/` of the
repository unless they say otherwise. `PROJECT.json` maps every definition to
the lines it models, and lists the runs, the mutants each property was tested
against, the hazards and the theorems.

## 1. The system

A mail arrives from a provider, is deduplicated, analysed by a pipeline of
stages, given a risk score and an action, and the action is carried out or
simulated. Most of it runs in asyncio processes; shared state is held in memory,
in SQLite (audit log, investigations, accounts), in files (memory snapshots,
dead letters, OAuth tokens) and optionally in Redis and PostgreSQL. The
endpoints of `api/main.py` are plain functions and run in threads.

```
provider --> webhook endpoint / polling daemons --> dedup --> pipeline orchestrator
                 ^                                   |             |
   account coordinator (starts, stops daemons)      DLQ    stages: parse, transmission || auth,
                                                           threat intel, content, url, correlation,
                                                           risk, decision, remediation, analytics
                                                                   |
                                      audit log, events --> notifications, SOC broadcaster (WebSocket)
```

| Component | State it keeps | Operations | Interacts through | What is hard | What makes it correct |
|---|---|---|---|---|---|
| Deduplication engine (`ingestion_gateway/dedup.py`) | key -> expiry, counters | check_and_mark, is_duplicate, get_record, mark_seen, prune_expired, clear | calls, one lock | expiry versus lazy deletion and pruning | a key is admitted once per window |
| Graph ingestion (`webhook_handler.py`, `providers/msgraph_daemon.py`, `manager.py`) | daemons, marks, DLQ | webhook post, fetch, deliver, quarantine | HTTP, awaits, shared dedup engine | concurrent posts, retries, failures after marking | nothing processed twice, nothing acknowledged is lost |
| Registry and coordinator (`coordinator.py`, `webhook_handler.py`) | two indexes, fingerprints, backoff | sweep: stop, restart, spawn | account repository, daemons | edits during a sweep, failing start/stop | daemons converge to the accounts |
| Pipeline orchestrator (`orchestrator/`) | the analysis in progress | stages, cancellation, events | awaits of ten engines, event bus | cancellation at any await, failing stages | cancelled in time, truthful events |
| Threat intelligence (`threat_intel/`) | LRU cache, breakers, token bucket | harvest, lookup_indicator, enrich | HTTP providers | expiry, probes, time passing during a call, errors that look like answers | exact breaker, rate never exceeded, a mail charged only for what a provider vouches for |
| Risk engine (`risk/`) | tenant profiles | fuse, score, policy | called by the pipeline | ceilings, scalings, two roundings | worse findings do not score lower |
| Remediation (`remediation/`) | audit log, used approvals, adapters' breakers and access token | dispatch: look up, policy, execute, verify, save | SQLite, adapters, Graph, firewall | retries, crashes between acting and saving, lost answers | acts once, approvals used once, truthful log, verified means enforced |
| SOC broadcaster (`realtime/`) | clients, bounded queues | register, broadcast, heartbeat, send, prune, stop | WebSockets, event bus | slow and dead peers, full queues | in order, losses counted, slots given back |
| Dead-letter queue (`ingestion_gateway/dead_letter.py`, `persistence/`) | ring or files, telemetry | enqueue, requeue, purge, clear_tenant | ingestion, replay | eviction at capacity, crash in a save, ties of mtimes | nothing lost below capacity, telemetry adds up |
| IMAP and Gmail daemons (`providers/`, `webhook_handler.py`) | connection, marks, history | poll, push, fetch, deliver | provider APIs | failure in mid batch, sequence numbers, redelivery | every message delivered or accounted for |
| Mailbox synchronisation (`ingestion/pipeline.py`) | RawEmail, metadata and sync-state rows | run_initial_sync | SQL transactions, event bus | overlapping first syncs, failure in the middle | a sync is stored whole or not at all |
| Dashboard Gmail account (`services/gmail_service.py`) | token file | consent, refresh, disconnect | Google, file system | unlocked file that is emptied first | stays connected until disconnected |
| Notifications (`notifications/`) | rate window, dedup window, metrics | dispatch with retries | channels, event bus | marked before sent, lost answers | exactly repeats suppressed, rate kept, every alert ends |
| Messaging (`messaging/`) | subscriptions, counters | publish, dispatch | handlers | failing handlers, cancellation | handlers are isolated |
| Redis client and locks (`common/redis_client.py`, `redis_dedup.py`) | leases, fallback maps | acquire, release, is_allowed, check_and_mark | Redis | lease expiry, failover to memory | one holder per lease, own lease released |
| Feedback and tuning (`feedback/`) | feedback, trust, recommendations | submit, converge, roll back, tune | events | redelivery, stale recommendation | converges once, rollback restores |
| Planner (`planner/`) | plan, tool results | plan, execute, retry, cancel | tools, language model | cycles, failing tools, planning anew | nothing built on failure, ends |
| Agent tools and reasoning (`analyzers/agent/`, `planner/reasoning.py`) | evidence | report, correlate, score | called by the planner | order and repetition of tools | evidence only adds, order irrelevant |
| Memory and retrieval (`memory/`) | dictionaries, snapshot file, vectors | learn, correct, deduplicate, search | threads, PostgreSQL, embeddings | read-modify-write, crash in a write, sticky fallbacks | the snapshot is the store, retrieval is exact |
| Transmission and authentication (`transmission/`, `authentication/`) | none (DNS cache apart) | hop analysis, SPF, DKIM, DMARC, ARC | pipeline | two engines side by side, clocks of relays | relays only add, signatures only help |
| URL intelligence (`url_intelligence/`, `authentication/dns/`) | DNS cache | expand, validate, sandbox | HTTP, DNS | names that change between check and use | what is opened was public recently |
| HTTP API and IAM (`api/main.py`, `security/`) | users, tokens, revocations, rows | login, refresh, logout, investigate | HTTP, SQL | endpoints interleave between transactions | ended tokens stay ended, answers are audited |
| Persistence (`database/legacy_repositories.py`, `ops/migrator.py`) | tables with foreign keys | save, delete, migrate | SQLite | deletion between two transactions | references hold, migration fair |
| Module registry (`registry/`, `container/`, `*/module.py`) | module states, bindings | register, initialise, shut down, health | hooks of 19 modules | failing hooks, registration during a probe | nothing left running, health never flatters |
| Content analyzers, parsing, dashboards, configuration | none | pure analysis, HTML | - | parsing | (not modelled) |

## 2. Modules

| Module | Models | Checked in run | Proofs |
|---|---|---|---|
| `Dict`, `DedupStore` | dictionaries, with expiry; the cut of a ranked list; shared helpers | - | - |
| `OncePerWindow` | abstract: what deduplication promises | `stores` | - |
| `DedupEngine` | the deduplication engine, refines `OncePerWindow` | `stores` | `StoresProofs` |
| `GraphIngestion` | webhook, daemons, manager, quarantine; uses `DedupStore` | `graph_window`, `graph_retry` | `GraphIngestionProofs` |
| `AccountSync` | coordinator and registry | `accounts`, `account_providers` | `AccountSyncProofs` |
| `ImapDaemon` | the IMAP supervisory loop and the server's mailbox | `mail_sources` | `MailSourcesProofs` |
| `GmailPush` | the Pub/Sub endpoint, Gmail daemons and delivery | `mail_sources`, `gmail_tokens` | `MailSourcesProofs` |
| `DeadLetterQueue` | the queue over both storages | `mail_sources` | `MailSourcesProofs` |
| `MailboxSync` | run_initial_sync and its transaction | `mail_sources` | `MailSourcesProofs` |
| `GmailAccount` | the token file of the dashboard's account | `mail_sources` | `MailSourcesProofs` |
| `Pipeline` | orchestrator and lifecycle events | `analysis` | `PipelineProofs` |
| `RiskScoring` | signal fusion, scoring, policy | `analysis` | - |
| `Investigation` | investigator, planner, provider, executor | `analysis` | `PipelineProofs` |
| `Verdict` | what tools report, reasoning, weighted score | `analysis` | - |
| `CircuitBreaker` | the breaker's methods as functions; shared by the breakers of threat intelligence and of the adapters | - | its own lemmas |
| `ThreatIntel` | look-ups with cache, breaker, limiter | `stores` | `StoresProofs` |
| `IntelEnrichment` | indicators of a mail, every provider, the enrichment; extends `ThreatIntel` | `stores` | `StoresProofs` |
| `RedisLease` | lock, limiter and marks in Redis, with fallback | `stores` | `StoresProofs` |
| `EventBus` | subscriptions and publications | `stores` | `StoresProofs` |
| `Lifecycle` | module registry, container, hooks | `stores`, `module_wiring` | `StoresProofs` |
| `LinkChecks` | redirects, validator, DNS cache, sandbox | `stores` | `StoresProofs` |
| `MailHeaders` | hops, delays, SPF, DKIM, DMARC, ARC | `stores` | `StoresProofs` (signatures) |
| `Remediation` | dispatcher, policy, audit log | `console`, `remediation_dry_run` | `ConsoleProofs` |
| `RemediationAdapters` | the Graph and PAN-OS adapters and the systems they act on | `console` | `ConsoleProofs` |
| `Feedback` | feedback service, convergence, tuner | `console` | `ConsoleProofs` |
| `Sessions` | tokens, rotation, revocation, permissions | `console` | `ConsoleProofs` |
| `ApiDatabase` | endpoints over the tables, migrator | `console` | `ConsoleProofs` |
| `Memory` | an organisation's store and its snapshot | `console` | `ConsoleProofs` |
| `RagIndex` | pgvector store, embeddings, retrieval | `console` | `ConsoleProofs` |
| `Broadcaster` | SOC broadcaster and its clients | `delivery` | `BroadcasterProofs` |
| `Notifications` | subscriber, engine, channels | `delivery` | `BroadcasterProofs` |

`MCMailSources`, `MCAnalysis`, `MCStores`, `MCConsole` and `MCDelivery` each hold
several components that share no state the properties are about. The variable
`part`, chosen in the initial state, says which one moves; the others keep their
initial state. Such a run explores the union of the components' state spaces,
not their product, and asks of each what a run of its own would ask.

Conventions. An action is what the code does between two points where somebody
else can run: a method under a lock, or a coroutine up to its next await. A
definition headed `Mutant:` is a deliberately wrong variant of the definition
below it; no specification uses it. Where a property of a run is a conjunction
of named parts (a component's promise as a whole), every part is about a hazard
of its own and most have a mutant of their own in the module; `PROJECT.json`
lists one for each property.

### How state and actions correspond to the code

* **DedupEngine.** `store` is `_store` reduced to expiry times; `answer` is what
  the last call returned. Every method holds one re-entrant lock and is one
  action. Hashing is abstracted to the key: two keys never collide.
* **GraphIngestion.** `req[r]` is the program counter and the locals of one
  invocation of `msgraph_webhook_endpoint`; `mark` is the key and time
  `check_and_mark` recorded. `Take` is the step from the registry snapshot
  through `check_and_mark`; `FetchFails`, `PipelineFails` and the like are the
  error paths, each with the quarantine it makes. `Post` is the provider, which
  may repeat a batch at any time. `Churning` daemons are added and removed
  meanwhile.
* **AccountSync.** A sweep reads the accounts once, stops daemons of inactive
  accounts (step 1), then visits each account (step 2). `stop()` sets the status
  first and then awaits; `start()` does not suspend. Time is relative.
* **Pipeline.** `pc` is the stage an analysis awaits. The end of a stage, the
  cancellation check and the entry into the next stage are one step.
  `transmission_analysis` and `auth_verification` run under one `gather`, which
  waits for both. The caller may set the token, and the task may be cancelled
  (`CancelledError` is no `Exception`), at every await.
* **ThreatIntel.** A look-up runs to its end before the next starts (the
  manager's method is synchronous), but time passes while a provider is asked.
* **IntelEnrichment.** `job_` is the mail being enriched, `todo` the indicators not
  yet looked up. A look-up is one step here; the providers the manager leaves out
  are any of `Outages`, so the manager's own breaker and limiter need not be
  carried along. An indicator is a record of what the providers look at; a live
  service's answer is a status and counts on both sides of each threshold.
* **RiskScoring.** A state is a mail, given by how bad each upstream finding is;
  a step makes one finding worse. Header integrity, campaign score and the
  seven groups of signals are derived as in the code. Points are integers in
  units of 1/20000, exact where the code uses floats; all the values that occur
  round alike, which was confirmed by evaluating the Python arithmetic. Intel
  confidences are those of the registered providers when they flag an indicator
  (0.85 and above).
* **Remediation.** A dispatch is cut where it touches what other processes see:
  look up and decide, execute and verify, save. `LatestRows` is the `ORDER BY
  timestamp DESC LIMIT 1` of a timestamp in whole seconds: any row of the last
  second may come first. The adapter is a step that may act and still fail.
* **RemediationAdapters.** What is inside that step: a call of `execute_action`
  passes the breaker, gets a token, and makes up to three attempts, each of which
  the service may obey whatever it answers. `folder` and `firewall` are the
  outside systems. An attempt with its pause takes at most a tick, and the token
  is dropped `TokenMargin` ticks before it expires: the 30 seconds of the code
  against three attempts of at most 5 seconds and pauses of at most 2.05.
* **Broadcaster.** Queues hold publication numbers, 0 is a ping. Stale clients
  are found under the lock and unregistered later, in any order.

* **ImapDaemon.** `loop` is where the loop is; a fetch in the worker thread is one
  step and makes the batch seen on the server; the batch is a set of numbered
  messages, handed over in the order of the numbers. Other clients expunge and
  mark messages, which renumbers the mailbox under the daemon's marks.
* **GmailPush.** A push visits the daemons in the order of registration; each
  await of listing and fetching is a step. Redelivery is Pub/Sub's.
* **DeadLetterQueue.** One lock, one action per method; `CrashInSave` is the gap
  between the eviction and the rename. The initial state chooses the storage.
  `Remaining` is the ring without the letters that are gone, in the same order.
* **MailboxSync.** A sync has its transaction's rows to itself until `Commit`;
  the first change of a committed row waits for the transaction that changed it
  last. The look-ups raise when they find two rows, as `scalar_one_or_none` does.
* **GmailAccount.** `OpenFile` and `save_tokens` are the two halves of
  `open("w")` and `json.dump`; two writers that interleave may leave a mixture.
* **Investigation.** A plan is a set of steps, and any order the executor's sort
  could give is a behaviour. Model answers are chosen from plans that include a
  cycle, a shared tool and an unregistered one, or no answer.
* **Verdict.** A mail is the set of its traits, evidence what the reasoning looks
  at. The state machine runs tools in any order and again.
* **MailHeaders.** A state is a letter; relays add headers on top, and after each
  step both engines are evaluated, as functions of the letter.
* **LinkChecks.** One check of a mail at a time; names change their addresses and
  time passes between the validator's question and the request that follows.
* **RedisLease.** A command is atomic on the store it reaches. After an error a
  client uses its own store for good, though the server may have obeyed.
* **EventBus**, **Notifications.** Handlers and attempts on channels are steps of
  their own; cancellation may come while they run.
* **Lifecycle.** Hooks that suspend let other calls in; the rest of a loop over
  modules is one step.
* **Feedback.** Calls under a lock are one action; events between the service and
  the convergence engine may be lost, late, reordered or repeated.
* **Sessions.** A token is what was signed into it; revocations, users and the
  signing key are the server's.
* **ApiDatabase**, **Memory.** A request is a thread cut at its transactions, or
  at every change of the dictionary and every open and write of the snapshot. An
  identifier of `Memory` is what the record is of (request, process, case, kind
  and number), and the changes a request still has to make are a set, each with
  its place (`at`) in the order in which the code makes them.
* **RagIndex.** A vector is the space it lies in, a similarity a rank over which
  the properties quantify; the first `k` of a sorted list are those with fewer
  than `k` before them (`Nearest` of `Dict`, for both stores).

## 3. Runs

Deadlock is checked in `graph_window`, `graph_retry` and `accounts`; the other
systems may stop (an analysis ends, bounds on requests and time are used up).

| Run | Properties and what they ask | Bounds |
|---|---|---|
| `graph_window` | `ProcessedOncePerWindow`, `SuppressedIsAccountedFor` | 2 concurrent posts of a two-item batch, 2 daemons, TTL 2, clock past the window |
| `graph_retry` | `AcknowledgedIsAccountedFor`, `EventuallySettled` | 2 overlapping batches of 3 and 1 items, one daemon that comes and goes, one oversized message |
| `accounts` | `AccountsConsistent`: no orphan daemon, indexes agree, changes are noticed; `Converges` | 2 accounts, 3 providers, 2 instances, backoff 1 capped at 2 |
| `mail_sources` | `ImapDelivers`, `UnseenIsFetched`; `GmailDelivers`; `QueueSafe`; `MailboxSyncSound`; `AccountSound` | 2 mails, one oversized, 2 failures, a stop, marks that expire; 2 pushes of 3 notifications over 3 daemons; 4 letters in a queue of 2, a crash; 3 syncs of up to 2 mails; 2 requests, 3 access tokens, 2 consents, 2 removals or crashes |
| `analysis` | `CancelledInTime`, `EventsAreTrue`, `ComesToAnEnd`; `RiskIsSound`; `InvestigationSound`, `InvestigationHalts`; `VerdictIsSound` | one analysis (they share only the publisher), every subset of failing stages; every combination of findings that meet in a domain or rule; 5 plans of up to 3 steps, 3 iterations, one retry; groups of traits, histories, 3 tool runs |
| `stores` | `AdmitsOncePerWindow` (refinement); `RedisSafe`; `BusSafe`; `IntelSound`; `LifeSafe`; `LinksSound`; `HeadersSound` | 3 keys of 2 tenants, TTLs 0 and 2; 2 processes, lease, bucket and mark that expire; 2 handlers of 2 types, 2 publications; 3 indicators, cache of 2, threshold 2; 2 mails to enrich over 2 ticks, with and without API keys; 6 modules, 3 registered; 5 links in a loop, 2 hosts, cache of 1, 2 mails; 3 headers from 3 domains |
| `console` | `AuditTruthful`, `ApprovalUsedOnce`, `ReexecutionPrevented`; `FeedbackSafe`; `SessionsSafe`; `TablesSound`, `LockoutIsExact`; `MemorySound`; `IndexSound`; `EnforcementSound` | 1 worker, 2 actions, 2 approvals, retries at least a second apart; 3 records, 2 recommendations, 1 redelivery; 4 tokens, 1 edit, 1 restart; 2 requests, 3 logins, lock at 2, 1 deletion; 2 threads, 3 visits, 1 crash; 2 tenants, 2 texts, 4 operations; 3 calls of 2 adapters within 4 ticks, threshold 2, two targets with one object name |
| `delivery` | `ClientsServed`, `StalledClientsLeave`; `NotifySafe`, `AlertsSettle` | 2 connections of a tenant with room for one, queue of 2, 2 events; alerts in scenarios of repeats and several channels, limit 2, 2 sends, 1 lost answer |
| `account_providers`, `remediation_dry_run`, `gmail_tokens`, `module_wiring` | violations, below | 1 account; 1 action; 2 mailboxes; the deployed modules |

The bounds let each case in the comment of a property happen: something expires
while it is held, a second actor arrives while the first one waits, a limit is
reached and passed by one, a failure hits a step that follows a success. What a
property says is in its comment. Some results are worth spelling out:

* `WorseNeverScoresLower` (in `RiskIsSound`) holds with one exception that is
  part of the property. Rule C of `risk/strategies/deterministic.py` halves the
  language score of a mail whose display name is spoofed. When a mismatched
  Reply-To and a suspected thread hijack already fill the 40 points of the
  transmission domain, finding the spoofing lowers the score, by at most 11
  points. Rules A and B never do, with confidences of 0.85 and above; a provider
  that flags indicators with less (the live VirusTotal client, not registered by
  default, starts at 0.5) would make rule B an exception too.
* `CancelledInTime` relies on the check between risk assessment and decision. A
  token set after it has no effect.
* `TwiceOnlyWhenFirst` (in `MailboxSyncSound`): overlapping first syncs make two
  state rows only if both look for the row before either commits; a later one
  finds two rows and rolls back. Once there are two rows, no sync of the account
  succeeds any more.
* `ConfidenceIsAFlaggers` (in `IntelSound`) holds for the providers the manager
  registers itself. With the live ones it does not: the confidence of a flagged
  indicator is the greatest over all observations, and WHOIS is up to 0.85 sure
  of an age, while a live provider may flag at 0.25.
* `LiveServicesRest` (in `IntelSound`): a live provider turns its errors into no
  observation, which the manager books as a success, so that only the provider's
  own breaker protects the service.
* `VerifiedIsEnforced` (in `EnforcementSound`) has two exceptions that are part of
  it. Graph's 404 counts as done also for a mailbox that never held the message,
  and the firewall's 409 also when another target has the same object name (every
  character that is no letter, digit or underscore becomes one).
* `SnapshotFollowsStore` and `VerdictSticks` (in `MemorySound`),
  `LockoutIsExact` and `ConnectionLasts` (in `AccountSound`) are stated for
  requests that do not overlap, because the code has no lock and they are false
  otherwise; the models have the overlaps, and the other parts hold under them.
* `LeaseExclusive` and `AdmittedOncePerTtl` (in `RedisSafe`) count
  per store in use: a client that fell back excludes nobody else.
* `ReachedWasPublic` (in `LinksSound`): between the validator's look-up and the
  request a name may change; what is guaranteed is a public address at most a
  cache life ago.

### Violations

* **`ReconcilesProviders`.** The coordinator looks a daemon up under the
  account's current provider, so after a change of provider the old daemon keeps
  running beside the new one.
* **`VerifiedAnswerWasExecuted`.** A dry run is saved as VERIFIED under the key
  of the live action, and the pipeline makes one for every mail; the live
  dispatch is then answered VERIFIED without acting.
* **`RoutesToMatchingDaemon`.** The Gmail endpoint answers 401 at the first
  registered daemon whose token differs, before it looks at the matching one.
* **`NotificationsAreWired`.** `NotificationModule.initialize` calls a method the
  container does not have, inside a `try`: nothing is ever subscribed.

### Fairness

* `GraphIngestion`: every awaited call returns or raises (weak fairness of each
  request), and the provider posts a batch again until it has a 2xx (strong
  fairness; the Graph change-notification contract the endpoint is written for).
* `AccountSync`: the sync loop keeps sweeping and time passes; starting a daemon
  is not refused for ever (strong fairness of `Spawn`), without which no
  coordinator could converge.
* `ImapDaemon`: the loop runs while it is not stopped; the server is not
  unreachable for ever, and a fetch does not for ever miss the same message.
* `Pipeline`, `Investigation`: every engine, tool, model call and the publisher
  return or raise; their network calls have timeouts (DNS 2 s, language model
  5 s per try, sandbox 3 s, ...).
* `Notifications`: an attempt returns or raises (the channels' clients have
  timeouts), and `gather` resumes when all have.
* `Broadcaster`: the heartbeat loop runs while it is not stopped, and a task that
  found a stale client unregisters it. None for senders: a peer may stop reading.

## 4. Proofs

Proved by TLAPS for every value of the constants. The only assumptions are the
`ASSUME`s of the modules. Most say that a constant has its type; those with more
to them are `TokenMargin < TokenLife` in `RemediationAdapters` (tokens live 3600
seconds by default, the buffer is 30: with equality, a third attempt could carry
a token that has just expired, as the proof attempt showed), `MaxAttempts <=
TokenMargin` there, finite plans in `Investigation`, that every daemon of
`GmailPush` has a name of its own, finitely many processes in `RedisLease`, alerts in
`Notifications` and indicators in `IntelEnrichment`, that a redirect leads to a link
and that only a webhook has an address that can be refused, and the positive bounds
of queues, breakers and windows. TLC evaluates each of them on the runs. One theorem,
`ReexecutionCorrect`, has hypotheses of its own, discussed there.

Each theorem about a property that is not inductive rests on an invariant that is.
What the invariants add, and why they have to:

* **GraphIngestionProofs.** `TypeCorrect`, `WindowCorrect`, `SuppressionCorrect`
  and `AcknowledgementCorrect`. That two marks of a key are a TTL apart does not
  say that the store still remembers the first: `RecordOutlivesMarks` adds that the
  record of a key lives a TTL longer than every mark made under it. What a 2xx
  means is known at the end of a request only; `AckInv` says what a request has
  covered so far, item by item and daemon by daemon, and `MarksAreKept` that
  nothing covered is lost while the request waits.
* **AccountSyncProofs.** `AccountsCorrect`. A sweep works on what it read at its
  start while accounts are edited; `SyncInv` says that the daemons still to be
  terminated are registered, that the one just stopped does not run, and that
  every daemon of an account that is gone is among them.
* **MailSourcesProofs.** `AccountCorrect` (`Unmixed`: without overlap there is one
  writer, which carries the token of the last consent or still finds it in the
  file), `MailboxSyncCorrect` (`BoxInv`: the rows of a transaction are its own and
  complete up to where it is in its list, and while there is one state row the
  mails it adds are new) and `PushCorrect` (`PushInv`: a request that waits for a
  message holds the only mark on it, and all behind it is marked).
  `ImapCorrect` (`ImapInv`): that no message is handed over twice in a TTL says
  nothing of the marks, which are under sequence numbers. While nothing was
  renumbered a number names one message, its mark outlives by a TTL every time the
  message was handed over, and without a fault what is marked was handed over, kept
  or is being handed over. `QueueCorrect` (`QueueInv`): the deque bounds its own
  length, not the number of items; both agree because letters stand in the ring in
  the order of their numbers and so only once (`InTurnCounts`). The files have no
  ring, and what exceeds their bound is counted removal by refused removal.
* **PipelineProofs.** `TypeCorrect`, `CancellationHeeded`, `EventsTruthful`.
  `Consistent` ties what was asked to the token, what was scored to the stages that
  ended well, and each event to the points after its publication began. Steps of
  one analysis leave the others alone (`OthersAreSame`).
  `InvestigationCorrect`: a step is `Founded` when all it depends on was decided,
  and well. The executor only looks at the first record of each dependency;
  `UnblockedIsFounded` shows that this is enough, because the sort refuses plans
  with equal identifiers, and under the configured policy because a plan has a
  tool once. `DecideOneMore` shows that a founded step stays founded.
  `CancelStartsNothing` is the action property in `InvestigationHalts`.
* **StoresProofs.** `TypeCorrect`, and `EngineAdmitsOncePerWindow`: the engine
  refines `OncePerWindow`, with the window of a key as what is left of its live
  record, so that look-ups and pruning stutter or only answer. `BusCorrect`:
  `BusInv` says that a publication has called exactly those of its audience that
  are no longer due, and counts running and cancelled publications apart.
  `LifeCorrect` (`LifeInv`): a call of the registry goes through modules it has not
  visited yet; what it has not reached and is up all the same was left over by a
  failure, and a probe has found up, or moving, every module before its place.
  `LinksCorrect` (`LinkInv`): every entry of the resolver's cache was true of its
  host when it was made and has the life of its kind, and the links visited are the
  hops of the chain and the link the job is at, each once. `RedisCorrect`
  (`RedisInv`): a command may have been obeyed by the server although the process
  then used its own store, so the invariant is said store by store: a lease that
  has not run out is in the store that gave it, the counter of a bucket is at least
  what was granted there and outlives the bucket, and a mail's mark outlives the
  TTL of each admission. `IntelCorrect`: `ManagerInv` (a breaker is a function of
  the calls it has heard of, the bucket of the calls let through, and the cache is
  the end of the row of answered indicators) and `EnrichInv` (an answer that is
  cached or was used says what the providers said last, with confidences in the
  range of who gave them). `SignaturesCorrect` is the half of `HeadersSound` about
  signatures: in the pipeline a verdict depends on the set of signatures only,
  which grows.
* **CircuitBreaker.** What its users' proofs share: a breaker is a function of the
  calls it has heard of (`Heard`), and each method keeps it so (`HeardRests`,
  `HeardLater`, `HeardAllow`, `HeardSuccess`, `HeardFailure`).
* **ConsoleProofs.** Remediation: `TypeCorrect`, `ApprovalsCorrect` and
  `AuditCorrect` (`Truthful`: a dispatch about to save VERIFIED for a live request
  has been carried out), for any number of workers, crashes and unreadable logs.
  Adapters: `EnforcementCorrect` (`Heard` of their breakers; `OrderOK`: a call in
  progress has used at most one tick of its token's buffer per attempt and pause). Database: `TablesCorrect` and
  `LockoutCorrect`, over all endpoints at once (`ApiInv`: what an endpoint holds
  between its transactions is still true of the tables, the counter a login holds
  is the user's unless logins raced, and what the migrator has read of a table
  covers what the table still has unless rows were added). Sessions:
  `SessionsCorrect` (`SessionInv`: a token that ended under the present key is
  still among the revocations, and all refresh tokens of a login but the last have
  ended; a restart forgets the revocations and the key together). Feedback:
  `FeedbackCorrect` (`Chained`: the updates of an entity that stand each began with
  what the one before left). These two theorems state the whole property of the
  run, its action property included. Retrieval: `IndexCorrect` (`RagInv`). The list
  is cut twice, at 2 k by the database and at k by the retriever, and thinned by the
  threshold in between; `CutKeepsNearest`, `CutIsFull` and `DoubleCut` show that the
  first cut is harmless, because if it leaves a relevant record out then all it keeps
  is relevant, and more than enough. Memory: `MemoryCorrect` (`MemInv`). That no
  store has a threat without its evidence is not inductive under overlapping
  requests: a deduplication deletes what it chose earlier. `Led` puts the evidence
  *before* the threat in the store, `Backed` says that a request about to save a
  threat finds the evidence or saves it first, `Removable` that a record about to be
  deleted has an earlier one with its vector, whatever others do meanwhile, and
  `Alone` that without overlap there is one store and at most one request.
  `ReexecutionCorrect` (`OnceInv`: a VERIFIED row is the only latest one of its key,
  and a dispatch is under way only for a key that has none) holds for one process
  (`\A v, w \in Workers : v = w`) that can read its log (`ReadsMayFail = FALSE`) and is
  not given a key twice within a second (`RetryGap # 0`). These are the conditions
  of the run, and TLC finds a second execution when any one of them is dropped:
  the look-up and the save are two steps, a read that raises counts as no row, and
  two rows of one second come back in any order.
* **BroadcasterProofs.** `ServedCorrect`. What waits for a client is one line, the
  event in the sender's hands and the queue; `ClientInv` says client by client that
  the line continues what was received and that the rest is counted, and that a
  connection not made yet is on no list and has nothing. `NotifyCorrect`
  (`NotifyInv`): the sliding window of a tenant holds, as long as it is young
  enough, the timestamp of every alert let through; the cache holds an expiry for
  every alert taken on less than a window ago and for no other; and the counters
  count the alerts of each phase.

Every safety invariant and action property of the passing runs is stated by one of
these theorems, but for those below. Only model-checked:

* all liveness (`EventuallySettled`, `Converges`, `UnseenIsFetched`, `ComesToAnEnd`,
  `InvestigationEnds` in `InvestigationHalts`, `StalledClientsLeave`, `AlertsSettle`):
  the prover has no fairness;
* what sums and folds over the parts of a mail compute (`RiskIsSound`,
  `VerdictIsSound`, and `DelaysAddUp` and `RelaysOnlyAdd` in `HeadersSound`):
  induction over data is out of the prover's reach;
* the four violations, which are false.

## 5. Observations that no run states

Ingestion and remediation

* Marks and the default dead-letter queue are in memory: a crash loses a message
  whose repetition has already been answered 2xx as a duplicate (`dedup.py:25`).
* IMAP messages are deduplicated by sequence number, which another message takes
  over when an earlier one is expunged; an exception at one message drops the
  rest of a batch that the server already shows as seen.
* Two accounts with the same address at the same provider share an entry of the
  registry's mailbox index (`webhook_handler.py:43`).
* `run_initial_sync` writes FAILED to the session that its exception then rolls
  back, with the mails stored so far, although their `EmailDownloadedEvent`s are
  out; the completion event precedes the commit.
* The token file is emptied before it is written: a refresh that reads it then
  saves tokens without a refresh token; one that overlaps a disconnection makes
  the file anew; a token that expires between the list and the details gives an
  empty list with status 200.
* Two workers can both look an idempotency key up before either saves, and both
  act. A FAILED row and the VERIFIED row of its retry tie within a second.

Analysis

* `extract_iocs` leaves out the domain of an address or a link only in a text that
  has both; `verify_action` of the adapters looks at the reference only, which
  every success has; a Retry-After that is a date leaves `execute_action` as an
  exception, and the breaker does not hear of it.
* A threat-intelligence answer is cached although providers were skipped or
  failed (`manager.py:159`); the parallel stage books half of its duration to
  each stage (`orchestrator.py:137`); a cancelled task publishes
  `PipelineStartedEvent` and nothing else (`orchestrator/engine.py:80`).
* SPF is never evaluated in the pipeline (the temporary analysis has no address),
  so only an aligned signature passes DMARC; a signature counts as good by its
  length; an SPF header without a known word passes; an ARC chain is valid when a
  seal exists. One Received date without a zone among dated ones makes the
  transmission analysis raise, and a bare one replaces it.
* Only the first URL in sorted order is looked up, expanded and sandboxed; a
  chain cut at `max_hops` is not marked; a failed request counts as a page.
* The planner's fallback tests `is not None` on a call that raises; time-outs give
  no fallback; a subject of 513 to 998 characters fails planning; a step that was
  skipped, proposed alone, ends in success; an empty plan of a rate-limited model
  is success; retries ignore cancellation; preconditions of policies compare
  priorities only; the report's count of failed tools is always 0.
* A plan with one new step runs all steps again, so one high finding counted twice
  becomes critical; the severity of sender, URL, parser and report evidence is
  lost in conversion; failed SPF, DKIM and DMARC never reach the reasoning; a
  suspicious URL alone stays low; the QR stub reports any decodable image.

State kept for analysts

* The memory store says "thread-safe" (`vector_store.py:1`) and has no lock: two
  first requests build two stores and the first one's lessons are lost, racing
  snapshots lose records, and an iteration may raise half-way. A crash during a
  write loses everything. Vectors use `hash()`, so restored ones match nothing.
  `deduplicate` deletes every threat (it has its evidence's text); learned records
  have no TTL and no tenant, so clean-up and retrieval by tenant never see them.
* A failed database or embedding service is not asked again; deleted rows reappear
  after a restart; a confidence correction is not stored; `LIMIT` precedes the
  threshold; a hashed query is compared with neural rows as CONNECTED.
* An API key passes (`docs/api.md:7`), but an investigation with one ends 500
  after it was learned and saved, because the audit entry's user is the key's id;
  its default role has no permission. A login with the right password ends 500.
  Statistics count verdicts that are never stored. The migrator copies nothing.
* A redis client that met one error stays on its own store; the limiter's window
  is fixed; a rate place is used by a suppressed alert; an alert is marked before
  it is sent, and simulated mail counts as delivered.
* A failed `initialize_all` leaves modules up that `shutdown_all` then ignores; the
  convergence engine is subscribed nowhere; a client can register with a stopped
  broadcaster (`broadcaster.py:185`).

## 6. Not modelled, and why

* `api/ui.py` and the dashboards (HTML), read-only endpoints, message formats.
* Parsing, content, attachment and image analysis, prompts and language-model
  answers: functions of a mail without state. What `Verdict` and `RiskScoring`
  take from them is a trait or a finding; a parsed MIME tree is out of TLC's
  reach.
* SQLAlchemy table declarations and repositories that wrap one statement.
* Formatting, logging, metrics and SIEM export, which change nothing that is
  checked; cryptography, which is taken as unforgeable; the sigmoid of the
  calibrator, which is out of TLC's arithmetic.
* The renewal loops of Graph subscriptions and Gmail watches call a hook and
  change nothing that is delivered. Settings are constants.

## 7. Plan

The modules of the first plan are written, and what the prover can reach of their
properties is proved. Next, in order of importance:

1. `DeadLetterQueue` composed with `GraphIngestion`: what becomes of a quarantined
   message that is requeued while its mark lives.
2. Durations and the SLA report in `Pipeline`; stopping the coordinator in the
   middle of a sweep in `AccountSync`.
