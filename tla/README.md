# Luqen in TLA+

Luqen scans web sites for accessibility problems. Its centre is the dashboard (`packages/dashboard`),
a single Node.js process over SQLite that accepts scans, runs them in an in-memory pool, streams their
progress, schedules them, mails about them, and hands out OAuth tokens to MCP clients. This directory
holds TLA+ models of the parts of the dashboard where interleaving, failure and restart make the code
hard to test, TLC configurations that check them on small instances, and theorems with proofs checked
by TLAPS. All paths below are relative to the repository (`src/`).

## The system: inventory

Paths in this table are relative to `packages/dashboard/src` unless they start with `packages/`.

| Component | State | Operations | Talks to | Hard behaviour | Correct when |
|---|---|---|---|---|---|
| Scan lifecycle (`services/scan-lifecycle.ts`, `scan-service.ts`, `scan-delete-access.ts`, `scan-repository.ts`) | a row per scan in `scan_records`, a report file per scan | initiate, scheduled start, retry, cancel, delete, startup recovery | pool (startScan), storage, DNS lookups | every operation reads, awaits, then writes; restarts | every row settles; what is deleted stays deleted; a completion is not undone by accident |
| Scan pool (`ScanQueue` in `scanner/orchestrator.ts`) | `queue`, `running` | enqueue, processNext | runs | a run ends in four ways, each must give its slot back | bounded, work-conserving, first come first served |
| A run (`runScan`) | the row it works for, its events | running, completion or failure write, file write, events | core scanner, branding, compliance, LLM | its row is cancelled, retried or deleted under it | |
| Progress stream (`emit`, `on`, `routes/scan.ts`) | replay buffer, listeners | subscribe, replay, emit, close | pool, browser | late and early clients, runs that end between lookup and subscription | the outcome told is the outcome stored; a listener hears the end |
| Startup (`server.ts` `onReady`) | – | mark interrupted, start schedulers, recover | lifecycle | crash between any two writes | no row of a dead process stays running |
| OAuth tokens (`routes/oauth/token.ts`, `oauth-refresh-repository.ts`, `oauth-code-repository.ts`) | authorization codes, refresh chains | consent, code grant, refresh grant, reuse detection, clean-up | MCP clients, signer | retried and lost answers, two refreshes of one token | one usable token per chain; reuse ends the chain |
| OAuth signing keys (`auth/oauth-key-*.ts`, `oauth-signer.ts`, `routes/oauth/jwks.ts`) | signing keys, the signer's cached key | bootstrap, rotation, retirement, housekeeping | token endpoint, verifiers | rotation under a running signer, restart | a token in its lifetime verifies |
| Schedules, email, digests (`scheduler.ts`, `email/*`, `routes/schedules.ts`, `routes/admin/email-reports.ts`, `routes/admin/digest-schedules.ts`) | next and last run or send | create, pause, delete, send by hand; tick, claim, send, advance | lifecycle, mail, chat plugins | overlapping ticks, crash between send and advance, a recipient or channel that fails | one scan per period; an early mail has a cause; digests leave out no more than their own deliveries; a due row moves on |
| Agent companion (`agent/*`, `conversation-repository.ts`, `conversation-branch.ts`, `routes/agent.ts`) | messages with their branch and window, paused actions, the run token, the turn registry | post, stream a turn, compact, call tools, pause, confirm, decline, expire, edit, retry, cancel, delete | LLM, MCP tools, SSE | two tabs, withdrawn turns, expiry while a call runs, crash between claim and result | a paused action runs at most once and is settled; turns do not mix; nothing hangs on what was withdrawn; the history sent is one a provider accepts |
| Plugins (`plugins/manager.ts`, `reconciler.ts`) | plugin rows, active instances | install, activate, deactivate, remove, health, reconcile | file system | partial failure | rows and instances agree |
| Coordinated PRs, bulk fixes | PR groups, items | open, retry, poll | git hosts | partial failure, retries | no item opened twice |
| Rescoring (`services/rescore`, `routes/brand-overview.ts`) | a progress row per organisation, brand scores | start, batch, progress | scan rows, guidelines | the list changes between batches, the loop is lost | the row is a lock and a resume point; a rescore ends and covers what it was started for |
| Issue dismissals (`services/issue-dismissals`) | dismissals, persisted counts | dismiss, restore, recount | scan rows | counts read before a write | counts reflect the active dismissals |
| Incremental scans (`page-hash-repository.ts`) | page hashes | compare, upsert | runs | hashes stored before the scan completes | a skipped page has stored results |
| At-rest encryption (`at-rest/*`) | encrypted columns and files | startup check, rekey | storage | crash in a rekey | one key opens everything |
| Service clients, Redis, shutdown, notifications, sharing, HTML/GraphQL/MCP layers | small or none | | | | |
| Core scanner, compliance, LLM, branding, monitor, git-host plugins (`packages/*`) | own processes or libraries | | dashboard | | |

How they interact: routes, GraphQL, MCP and the agent call the services; the services own the rows and
call `ScanOrchestrator.startScan`; the orchestrator's pool calls `runScan`, which writes rows through
the same repository and emits events to listeners that the stream route registered. The scheduler and
the startup recovery call the services as users do. Nothing but the database and the reports directory
survives the process.

## Modules

| Module | Role |
|---|---|
| `ScanLifecycle` | the rows, the pool, the calls, recovery, crashes; properties and mutants |
| `ScanPool` | what the pool promises, as an abstract specification |
| `ScanEvents` | extends `ScanLifecycle` with what it emits and the clients of the stream |
| `MCScanLifecycle`, `MCScanEvents` | small instances |
| `ScanLifecycle_proofs` | inductive invariant of the pool, type correctness, and that the lifecycle implements `ScanPool`; deleted rows never return; a running row has a run; a queued row has something to start it; one start without a retry; completions kept |
| `ScanEvents_proofs` | a stream tells the outcome that is stored, and nothing after it; streams only watch |
| `OAuthTokens` | the token endpoint: codes, refresh chains, the requests on them |
| `MCOAuthTokens` | small instance of it (its symmetry) |
| `OAuthTokens_proofs` | every property of the run `chains`, as theorems |
| `OAuthKeys` | signing keys, their rotation and removal, the signer; checked as it is |
| `OAuthKeys_proofs` | every property of the run `keys`, as theorems |
| `AgentConversation` | one conversation: rows, turns, paused actions, the requests on it and the expiry sweep |
| `AgentHistory` | extends it with what the model is sent of its rows |
| `PausedAction` | what the companion promises about a destructive call, as an abstract specification |
| `MCAgentConversation` | small instances (their symmetry) |
| `AgentConversation_proofs` | the safety properties of the runs `conversation` and `settles` about the rows and the turns, as theorems, and that the conversation implements `PausedAction` |
| `AgentHistory_proofs` | calls are answered once and in place; `HistoryIsWellFormed`, as a theorem |
| `Rescore`, `MCRescore` | the rescore of an organisation's scans, and its small instances |
| `Rescore_proofs` | every safety property of the run `rescore`, as theorems |
| `Schedules`, `MCSchedules` | scheduled scans, e-mail reports and digests, and their small instance |
| `Schedules_proofs` | three properties of the run `schedules`, as theorems |

The scan modules, the two OAuth modules, the conversation, the rescore and the schedules share no state:
the token endpoint signs with whatever key the signer holds, and refresh chains do not depend on keys.
Where they touch, each has the other's effect as an action: `Schedule` in `ScanLifecycle` is the start
that `StartScan` of `Schedules` asks for; `CompleteScan` and `DeleteScan` of `Rescore` are what
`CompleteWrite` and `DropRow` of `ScanLifecycle` do to its list.

### One action is one synchronous stretch

Node runs one callback at a time, so an action is what the code does between two awaits, and everything
may happen at an await. `StorageAdapter` is an asynchronous interface (`db/factory.ts` foresees other
databases); the SQLite adapter does its work synchronously and returns a resolved promise, so a
statement takes effect in the stretch that calls it and the code behind the await runs afterwards. With
SQLite that second part runs before the next macrotask; the model lets other calls come in between, as
the interface allows. DNS lookups, page loads and file operations are real waits with any adapter. The
runs that report a divergence use one request slot, so no trace of theirs depends on two user calls
overlapping in a microtask.

### ScanLifecycle

| State | Code |
|---|---|
| `row` | `scan_records`: status, what the error says (as one of five causes), whether `json_report_path` is set; `absent` before creation, `deleted` after it |
| `files` | which report files exist in the reports directory |
| `jobs`, `state` | one entry per `enqueue` of this process: its scan and how far its wrapper has come (`waiting`, `scanning`, `storing`, `failing`, then how it ended, then `done`) |
| `queue`, `running` | `ScanQueue.queue` (as job numbers), `ScanQueue.running` |
| `call` | the calls in progress: operation, scan, place, the status read at first, the verdict of the lookup. A recovery worker is identified by its row |
| `toRecover`, `deferred` | the list `mapWithLimit` works through; the rows left queued because DNS was unavailable |
| `phase` | before or after the running rows are marked in `onReady` (the server listens only afterwards) |
| `retried`, `begun`, `crashes` | history for the properties; bounds |

| Action | Code |
|---|---|
| `Initiate`, `Schedule`, `Retry` | `initiateScan` from `createScan`, `startScheduledScan`, `retryScan` up to the lookup |
| `LookedUp`, `LookupThrew`, `Defer`, `Refuse`, `Requeue` | `validateAndStart` and the catches around it (`recoverOne`, `startScheduledScan`) |
| `StartScan` | `orchestrator.startScan` -> `ScanQueue.enqueue` -> `processNext` -> the first statement of `runScan` |
| `Cancel`, `CancelWrite`; `Delete`, `Unlink`, `UnlinkFails`, `DropRow` | `cancelScan`; `DELETE /reports/:id` and `deleteScanAndFiles` |
| `CompleteWrite`, `FailWrite`, `StoreFile`, `FinishJob` | the awaits of `runScan` that write, and the wrapper's `finally` |
| `Crash`, `MarkInterrupted`, `Serve`, `Recover` | process death; `onReady`; a recovery worker taking a row |

Details that matter: the first statement of a run executes inside `enqueue` or inside another job's
`finally`, and asks for no status; `updateScan` of a deleted row changes nothing and throws, and each
caller's catch is in the model; a run whose catch throws rejects the promise of `enqueue`, which nobody
awaits and `process-guards.ts` logs, and its slot is given back all the same; a completion leaves the
error text of an earlier cancel in place; recovery and the schedule tick fail a row in their catch
without reading it again.

Not in it: permissions, organisations, the start limiter (refusals that change nothing), validation of
inputs, `deleteOrgScans`, storage errors other than a missing row, Redis (its queue has no consumer).

### ScanEvents

Adds `stream` (a client's request: looking the scan up, open, ended; the status it read; what it was
told), `buffer` (`eventBuffers`) and `announced` (runs that have emitted `scan_start`). Each step of the
lifecycle is taken together with what it emits: `startScan` emits through `emit` (buffered) when the
pool is full; a run emits through a closure of its own that goes to the listeners only. Of the events
only the first and the terminal ones are told apart.

### OAuthTokens

| State | Code |
|---|---|
| `code` | `oauth_authorization_codes`: absent, issued or gone; client, user, expiry |
| `rows`, `status` | `oauth_refresh_tokens`: every token ever stored, as its place in the order of insertion, with chain, parent, owner, the code its chain came from and expiry; whether the row is live, rotated (`rotated` set) or gone |
| `revoked`, `served` | `oauth_clients_v2.revoked_at`; the users `resolveMcpCaller` would serve now |
| `request` | one entry per request in progress: its client, what it presents, the step it waits at (`verifying` the secret, `asking` the rule, `minting`, `rotating`, `answering`) |
| `held` | the tokens some answer has delivered; any client may present any of them |
| `ended`, `begun`, `passed` in a request | history for the properties; bound |

| Action | Code |
|---|---|
| `Consent` | `routes/oauth/authorize.ts` storing a code |
| `PresentCode`, `PresentToken` | `routes/oauth/token.ts` up to the verification of the secret |
| `Redeem`, `Mint` | `handleAuthCode`: `findAndConsume` with the checks behind it; signing and `mint` |
| `Lookup`, `Rotate` | `handleRefresh`: `findByTokenHash` and its checks; the transaction `rotate` |
| `Ask` | `resolveMcpCaller` in either grant |
| `Answer` | the reply, delivered or lost |
| `Revoke`, `CleanupExpired`, `ChangeAccess`, `Tick`, `Crash` | revocation by an administrator; `cleanupExpired`; a user's access changing; time; process death |

Details that matter: the secret of a confidential client is checked asynchronously, and so are the rule and
the signature, so requests overlap between them; the code is consumed before the checks behind it, and
a refused request leaves it consumed; the look-up refuses a token of another client and lets a rotated,
expired or absent one go straight to `rotate`, which alone decides; the child inherits chain, owner and
expiry; `rotate` reads and writes in one transaction, so it is one action. A client that is revoked
while its code is being redeemed may still get a root token stored and delivered. It is of no use: the
endpoint refuses a revoked client before it looks at a token, and revocation is not undone. A failed
client authentication writes nothing and is left out. Scopes, resources and the content of tokens are
abstracted away, the redirect URI and the PKCE verifier to the choice of `Redeem` to refuse.

### OAuthKeys

| State | Code |
|---|---|
| `keys` | `oauth_signing_keys` in order of creation, with `created_at`, `retired_at`, `removed_at` |
| `signer` | the key the dashboard's signer was built with, 0 while the process is down |
| `job` | how far a rotation or a housekeeping sweep has come |
| `tokens` | the access tokens that have not expired: their key and their time |
| `now` | the clock |

| Action | Code |
|---|---|
| `Bootstrap`, `LoadSigner`, `Crash` | `ensureInitialSigningKey`; `createDashboardSigner`; process death |
| `BeginRotation`, `Retire`, `RetireFails` | `performKeyRotation`, from the administrator's route or from housekeeping: insert, then retire; the second statement failing |
| `Sweep`, `SweepEnds` | `runKeyHousekeeping`: removal of keys past the overlap, then the age check |
| `MintAccessToken`, `Tick` | `mintAccessToken`; time |

The two writes of a rotation follow each other without a wait, so nothing of the program comes between
them; but they are not one transaction, and the process may die, or the second statement throw, after
the first. Both ends are in the model, and so is a sweep that stops at a statement that throws. The key
such a rotation leaves active is a *left over* key (`LeftOver`): what becomes of it is the subject of
`SigningMovesOn`, of the run `leftover` and of the theorem `LeftOverStays`.

### AgentConversation, AgentHistory, PausedAction

| State | Code |
|---|---|
| `rows` | `agent_messages` of the conversation in the order of insertion: kind and status, the row each follows, the question's text, the ids of its calls, whether arguments are stored as given, `in_window`, whether it is more than 24 hours old; the turn that wrote it and how often it ran (history) |
| `token`, `deleted` | `active_run_id` and `is_deleted` of `agent_conversations` |
| `registry` | the one controller `ActiveTurnRegistry` holds for the conversation |
| `turn` | per stream: the await it is at (`begin` to `end`, then `done`), its question, its last row, its iteration, the calls of its batch without a result, whether a destructive call is to be paused after it, the compaction's boundary, whether it is aborted |
| `request` | per slot, and for the sweep: the await a post, cancel, confirmation, decline or expiry is at, and its row |

| Action | Code |
|---|---|
| `OpenStream`, `Close` | `GET /agent/stream/:conversationId` and the close of its connection |
| `BeginRun`, `NoRun`, `Register`, `StoreQuestion` | `runTurn` up to its first call of the model |
| `StartCompaction`, `Summarise`, `SummaryFails`, `HideOldRows` | `compactOldestTurns` |
| `Answer`, `CallTools`, `StoreResult`, `NextIteration` | the loop of `runTurn` and `dispatchBatchAndPersist` |
| `Pause`, `DenyThenPause`, `PauseAfterDenied` | a destructive call among those of an answer |
| `Fails`, `MarkStopped`, `Finish` | the catch of `runTurn`, the stopped reply in its two writes, the clean-up |
| `Post`, `StorePost`, `EditResend`, `Retry`, `Delete`, `Cancel`, `CancelTurn` | `POST /agent/message` and the routes of the same names |
| `FindPending`, `Claim`, `ClaimLost`, `RunTool`, `DispatchEnds`, `Reopen`, `CloseFailed`, `AnswerPaused`, `WriteThrows` | confirm and decline: look-up, verdict and claim, dispatch, the three ways a confirmation ends, and its audit row or its last write failing |
| `Sweep`, `Lapse`, `Crash` | the hourly expiry sweep, one row at a time; 24 hours passing; process death |

Details that matter: the run token is changed before the older turn is aborted, and it is the insert
that refuses rows of an older turn, not the turn; a row that follows a superseded one is refused the
same way, whoever writes it; the rolling window counts superseded questions too and never hides a
paused or a streaming row; a claim asks for the status again, and for the age; a refused confirmation
returns to pending only in a conversation that is not deleted and on the active branch, else it is closed; the
stopped reply is stored as streaming and marked in a second write. `AgentHistory` rebuilds what
`windowToChatMessages` makes of the rows: for each message its role and how many calls it declares,
without text; a tool message carries no id and answers by position. Titles, sharing, renaming,
search, which tools there are and who may see a conversation are not modelled; tool results are stored
or not, their content is not looked at.

`PausedAction` has four sets: proposed, approved, executed, closed. The conversation maps its pending
rows, the rows a confirmation has claimed and not finished, the rows whose tool ran, and the rest.

### Rescore

| State | Code |
|---|---|
| `listed`, `unborn` | the completed scans of the organisation as `listScans` returns them, newest first; scans that will complete |
| `scored`, `branded` | scans with a row in `brand_scores`; scans whose site has an active and complete guideline |
| `row` | the `rescore_progress` row |
| `loop` | `processLoop` of the route: between batches or in one, the rest of the batch, its counts |
| `candidates`, `warned`, `stranded` | history for the properties |

| Action | Code |
|---|---|
| `StartRescore` | `startRescore` and the start of `processLoop` |
| `BeginBatch`; `SkipScored`, `WarnUnbranded`, `ScoreScan`, `RefuseScore`; `EndBatch`, `FailBatch` | `processNextBatch`: the row and the list; one scan each; the last write, from the end or from the catch |
| `LoseLoop` | the process stops, or a statement on the row itself throws |
| `CompleteScan`, `DeleteScan`, `Retag`, `ChangeGuideline` | a run's completion (which may score it), a delete (scores go with it), `retagScansForSite`, the administration of guidelines |

The progress row is read at the head of each batch and written at its end, with counts kept in between;
a score is refused by the foreign key once its scan is deleted. Scores have no values here. A scan
enters the list when it first completes and leaves it when it is deleted; one that a retried second job
runs again leaves the list and comes back, and that is not modelled. With SQLite's synchronous calls
in one process nothing at all changes inside the loop of a batch: the model allows more there than
that deployment does.

### Schedules

| State | Code |
|---|---|
| `kind`, `row` | what a schedule is for; its row in `scan_schedules`, `email_reports` or `digest_schedules`: enabled, created, last and next time |
| `pass` | the callbacks of the three timers and the sends by hand in progress: the listed rows still to do, the clock the tick read, how far the first one is |
| `now`, `faults` | the clock; bound |
| `sends`, `excused`, `told` | history: the last two starts or mails, whether an early mail has a cause, the instants a digest covered |

| Action | Code |
|---|---|
| `Create`, `Toggle`, `Delete`, `SendNow` | the routes of the three kinds |
| `Tick` | a timer's callback listing what is due; `Slots` has one slot for scans (`inFlight`), several for mails |
| `Claim`, `ClaimFails`, `StartScan` | `runDueSchedules` |
| `SkipReport`, `SendMail`, `MailFails`, `AdvanceReport` | `processEmailReport` with `sendNotification` |
| `BuildDigest`, `BuildFails`, `Deliver`, `AdvanceDigest` | `processDigest` |
| `AdvanceFails`, `Crash` | the write behind a delivery failing; process death |

A pass works with the rows as they were listed: a schedule paused or deleted meanwhile is still started
or mailed, and an update of a deleted row changes nothing. Contents, recipients' names and the three
lengths of a period are left out; one `Period` stands for each of them.

## Runs

| Run | Instance | Shows |
|---|---|---|
| `lifecycle` | 2 scans, 2 request slots, pool of 2, 2 recovery workers, 3 calls, 1 crash (about 130,000 states) | `TypeOK`, `RunningRowHasRun`, `QueuedRowIsCovered`, `OverlapNeedsRetry`, `DeletedStaysDeleted`, `CompletionUndoneOnlyByUser`, `EveryScanSettles`, `KeepsPoolPromise` (refinement of `ScanPool` with its liveness: bounded, work-conserving, in order) |
| `streams` | 2 scans, 1 call slot, 1 client, 3 calls, 1 crash | `OutcomeIsStored`, `ListenerHearsTheEnd` |
| `chains` | 2 clients, 1 user, 2 codes, 2 request slots, 4 requests, codes that live for the clock value they are issued at, chains one longer, clock 0..2 (about 1,100,000 states, with symmetry) | `TokensTypeOK`, `OneUsablePerChain`, `ReplayIsNoticed`, `EndedChainStaysEnded`, `CodeYieldsOneChain`, `OnlyOwnerMovesChain`, `RevokedChainsDoNotGrow` |
| `keys` | tokens live 2, keys are removed more than 3 after retirement and rotated when older than 2, 3 keys, clock 0..7 (about 450,000 states) | `ActiveKeyRemains`, `SigningMovesOn`, `KeyOutlivesToken` |
| `conversation` | 2 streams, 1 request and the sweep, 1 question posted beside those the turns store, all of one text, windows of 2, 1 iteration, batches of 1, 5 rows (about 1,250,000 states, with symmetry) | `ConversationTypeOK`, `RawOnlyWhilePaused`, `LiveTurnIsReachable`, `RunsDoNotInterleave`, `AnswerHangsOnActive`, `HistoryIsWellFormed` |
| `settles` | 1 stream, 2 requests and the sweep, 1 question, 2 iterations, batches of 2, compaction that keeps 1 (about 330,000 states) | `ActionRunsOnce`, `HiddenIsSummarised`, `DeletedStaysClosed`, `TurnsEnd`, `PausedIsSettled`, `KeepsActionPromise` (refinement of `PausedAction`) |
| `rescore` | 3 scans, batches of 2 (about 430,000 states) | `RescoreTypeOK`, `RunningRowHasLoop`, `PassedMeansJudged`, `RescoreEnds` |
| `schedules` | 2 schedules, period 1, clock 0..3, 2 passes of mails at a time, 1 fault (about 250,000 states) | `StartsArePeriodApart`, `EarlyMailHasCause`, `GapsAreDeliveries`, `DueIsMovedOn` |
| `cancel`, `late` | 1 scan, 1 slot, no crash | the code does otherwise than its documents say (below) |
| `unscored` | 2 scans, batches of 1 | the code does otherwise than its documents say (below) |
| `leftover` | tokens live 1, keys are removed more than 2 after retirement, 4 keys, clock 0..2 | the code does otherwise than its documents say (below) |

Why these bounds are enough to be interesting: in a pool of two, two runs of one scan overlap when it is
retried, and a third job waits and is handed a slot (in `streams` the pool is one, and jobs wait more
often); two slots make any two operations on one scan overlap, together with recovery workers and
runs, which need no slot; three calls allow create, cancel and retry or delete of one scan in a row; one
crash separates two processes, and a second one adds only another restart from the same kinds of rows.
The bounds `MaxCalls` and `MaxCrashes` appear only in the guards of `Begin` and `Crash`. Deadlock is
not checked in the scan runs: with the calls used up and every scan settled the system rests.

For `chains`: four requests give one redemption and three refreshes of its chain, so a chain of four
tokens with replays of any of them, or two redemptions of one code beside refreshes; two slots make any
two of them overlap; two clients present each other's codes and tokens; at the last value of the clock
both the codes and the chains issued at the first have expired. `MaxRequests` and `MaxTime` appear only
in the guards of `Present` and `Tick`. For `keys`: three keys are one rotation after another, each
perhaps interrupted; eight clock values let the first key be retired, removed and outlived by a token.
For `leftover`: one interrupted rotation and two whole ones store four keys.
`MaxKeys` and `MaxTime` appear only in `Insert` and `Tick`. Deadlock is checked in both.

For `conversation`: two streams are the fewest that can mix, and one request beside them edits, retries,
confirms or deletes under either (one question may come from the user, a turn that finds none of its
text stores one itself, and both can be edited); five rows hold a question with what two turns add, the
result of a paused action between a batch and its result included. For `settles`:
one stream is enough for a paused action, for two confirmations to meet on it and for the sweep to come
between; two iterations and batches of two give a compaction behind tool results and a pause behind a
denied call. Its row bound is never reached: one question and two iterations cannot store twenty rows.
`MaxQuestions`, `MaxRows` and `MaxBatch` are named in the guards of `Post`, `Room` and `Calling`. The
conversation may come to rest, so deadlock is not checked, nor is it in the two next runs.

For `rescore`: three scans over batches of two make a second batch, so that the resume point is looked
up in a list that has changed. For `schedules`: four clock values are three periods; a pass may hold a
row while another lists it; one fault is one stop, one failed write, one failed build or one send by
hand (a recipient or a channel may fail any number of times). A behaviour is about one kind of
schedule, and only scans stand beside each other, because only their ticks exclude one another; these
two bounds are in `Init` and `Alone`. `MaxTime` and `MaxFaults` appear only in `Clock` and `Fault`.

### What the code does otherwise than it says

* `cancel`: a cancel writes the row and stops nothing; the run writes `completed` over it.
* `late`: the events of a run never reach the replay buffer, so a client that connects during a run is
  not caught up.
* `leftover`: a rotation retires the newest active key only. Where an interrupted one has left two, the
  comment on `performKeyRotation` says the older will be picked up by a subsequent rotation; none does
  (`oauth-key-rotation.ts:52-55`, 73). It stays in the JWKS for ever (theorem `LeftOverStays`). Nor does
  it continue to sign, as the comment says too: the next start takes the newest (`SigningMovesOn`).
* `unscored`: a rescore counts skipped scans towards a total that holds only candidates. With enough
  newer scored scans it completes without having come to the scans it was started for, every time.

Met while modelling, and not a run of their own:

* A retry of a scan that still has an unfinished job enqueues a second one, which runs on the row the
  first has completed (`scan-lifecycle.ts:193`). `OverlapNeedsRetry` says that nothing else does this.
* A delete that meets the end of a run, between `CompleteWrite` and `StoreFile`, leaves the report file
  of a scan that is gone (`orchestrator.ts:985`).
* A rotation does not reach the signer of the running process. It goes on signing with the retired key,
  also after housekeeping has removed that key from the JWKS, where `oauth-key-rotation.ts:82` says a
  key retired that long ago cannot be signing any valid token. What does hold is `KeyOutlivesToken`: a
  token is verifiable for its lifetime if it was signed no later than `Grace - AccessTTL` after the
  retirement of its key, 30 days with the code's values.
* A process that stops during a rescore leaves its row running, and every later start answers that one
  is running already (`rescore-service.ts:72`), though the header of that file says it can be resumed.
  `RunningRowHasLoop` says that this is the only way a row is left so.
* A rescore whose counted scans are deleted while it runs may never reach its total: at the end of the
  list it asks for one empty batch after another (`rescore-service.ts:146`, 226). `RescoreEnds` excepts
  this case and says that nothing else keeps a rescore from ending.
* An action whose audit row or result row cannot be written after its tool ran (`agent.ts:744`, 768)
  stays claimed without a result, as it does when the process dies there; nothing in the conversation
  says how it ended. It is not run again (`ActionRunsOnce`).
* The result of an action resolved while a batch of another turn is at work is stored inside that batch
  and makes a history with fewer results than calls (`agent-service.ts:1283`). `HistoryIsWellFormed`
  says that nothing else does.
* A recipient that is refused makes the ones before it get an e-mail report again with every tick, and
  what happens while a digest is delivered is in no digest (`email/scheduler.ts:84`,
  `digest-scheduler.ts:303`). `EarlyMailHasCause` and `GapsAreDeliveries` say what is not lost or
  repeated.

### Fairness

`FairSpec` gives weak fairness to every call in progress (an await ends: lookups and page loads carry
timeouts, storage and file operations return), to every job, to startup and to the recovery workers.
Users owe nothing, nor does the process have to crash or a client to leave. Fairness is per call and
per job, as each is a promise chain of its own that the event loop resumes; it does not choose how an
await ends.

`AgentConversation!FairSpec`: weak fairness for each turn (an await ends, the model's stream ends
somehow, tools have timeouts), for each request and for time; strong fairness for the sweep, which runs
at every start and every hour, so that a process that dies again and again now and then lives through
one. Users owe nothing. `Rescore!FairSpec`: the loop goes on while there is one; no scan has to
complete. `Schedules!FairSpec`: timers fire and what a pass waits for ends, well or badly; storage does
not have to fail, and nobody has to send by hand.

`OAuthTokens` and `OAuthKeys` state safety only and assume no fairness: a request or a rotation that
stops halfway is one of the cases their properties are about.

## Proofs

All proofs are checked by TLAPS from nothing, for any sets `Scans` and `Requests` (disjoint), any pool
size and any bounds (`PoolAssumption`, `BoundAssumption`, `CallerAssumption`).

* `ScanLifecycle_proofs`. `PoolInv` is inductive: types of the pool's variables; `running` is the
  cardinality of the active jobs, which are jobs of a finite set; the queue is the tail of the job
  numbers; a job waits exactly when it is in that tail; a non-empty queue means a full pool. None of
  the parts is inductive alone: that `FinishJob` keeps the counter right needs the finishing job to be
  active, that it keeps the pool full needs the counter to be the number of active jobs, and that the
  head of the queue is a waiting job needs the order. `ProcessNext` is handled by one lemma for both of
  its callers, an arbitrary job sequence and counter. From it: `TypeCorrect`, `PoolIsAccounted`,
  `PoolConservesWork`, `PoolKeepsOrder`.
  The same module has the refinement, `Spec => Pool!Spec` with `submitted` the number of jobs, `started`
  those that left the queue, `ended` the done ones: every step of the lifecycle maps to `Submit`, `End`,
  `Reset` or a stutter. That `ProcessNext` starts a job exactly when the abstract pool has room uses the
  counter's invariant. The liveness half of the refinement (`KeepsPoolPromise`) is TLC's.
  Its second half is about the rows. `NoScanReturns` goes through every write of a row.
  `RunningRowsHaveRuns` needs the pool invariant (the job started by `StartHead` is not another scan's) and that a row becomes
  running nowhere else. For the other three, *CallsOK* says what a call was opened for and which status
  it read, and *Empty* that nothing is in memory before the server listens. `OverlapIsARetry` and
  `CompletionIsKept` come from *Once*: a scan that nobody retried in this process has at most one of a
  call that will start it, a place in recovery's list and a job, and until that job's completion write
  its row is not completed. `OverlapNeedsRetry` alone is not inductive: a call about to start, next to a
  job, breaks it one step later. `QueuedRowsAreCovered` goes through the steps: a call gives up its start
  only with a write that takes the row off queued, or by deferring the scan.
* `ScanEvents_proofs`. `StreamsOnlyWatch`: every step of the system with its streams is a step of
  `ScanLifecycle` or changes nothing of it, so all theorems above hold beside any number of clients.
  `OutcomeIsStored` is about the row at the moment the event is delivered, some steps of the run after
  its write; *OutcomeStored* carries it over: from the write of its outcome
  on, a run has that outcome in the row of its scan unless a user retried, cancelled or deleted it. No
  other run of the scan can have overwritten it because by *Once* there is none without a retry, and
  no call or recovery can start one. *StreamInv* is the streams' half: the replay buffer holds only
  progress and an open stream has been told no outcome, so what a step adds to a stream is what that
  step delivers.
* `OAuthTokens_proofs`, for any clients, users, slots and lifetimes and any codes but 0
  (`LifetimeAssumption`, `CodeAssumption`). Besides types, the inductive invariant has three parts.
  *Chains*: `OneUsablePerChain`, `ReplayIsNoticed` and `EndedChainStaysEnded` with `Kin`, that the
  tokens of a chain agree on owner and expiry and are gone together; without it the clean-up, which
  goes by expiry, might remove a replaced token and leave its successor. *Spent*: a code in use by a
  redemption is consumed, by that redemption alone, and has no chain yet; a code that has a chain is
  consumed. This is what makes `CodeYieldsOneChain` survive the waits between consuming the code and
  storing the token. *Owned*: what a refresh request past the look-up still knows of its token (its
  owner, whether the rule was asked, that nothing exchangeable is left once the client is revoked),
  though the look-up was several awaits ago. `OnlyOwnerMovesChain` and `RevokedChainsDoNotGrow` are
  action properties and follow from *Owned*, action by action.
* `OAuthKeys_proofs`, for any periods (`PeriodAssumption`), even an overlap shorter than the lifetime
  of a token. *Rotating*: the newest stored key is active, and a rotation in progress is to retire an
  earlier one; so wherever it stops there is a key to sign with (`KeyRemains`), and the signer of a new
  process has the newest of all. *InOrder* adds to `SigningMovesOn` what makes it inductive: no token is
  from the future, and none names a key younger than the signer's. *Timely*: a removed key was retired
  more than `Grace` ago and a kept token is in its lifetime; `KeyOutlivesToken` is arithmetic on the
  two. `LeftOverStays` is an action property: a key that is active behind the newest, and not about to
  be retired, is so after every step, and published; a rotation begins with the newest, which it is not.

* `AgentConversation_proofs`, for any streams, requests and texts, any window and any number of rows
  (`WindowAssumption`, `IterationAssumption`, `BoundAssumption`, `NameAssumption`). The steps are first
  sorted by what they do to the rows: a turn's row, a request's row, one row written, rows superseded,
  rows hidden, nothing; the invariants are then shown to survive each sort. *Places*: types, that a
  request past its look-up holds a paused or once paused row, that the stopped mark is for a reply, and
  that what is stored of a row fits its kind and status (`RawOnlyWhilePaused` is part of it). *Hangs*:
  a row follows an earlier one, and an active row an active one; superseding takes everything behind
  its first row, which is why nothing active is left hanging. *Runs*: what an older turn wrote is
  behind everything the turn that now holds the token writes; the token changes hands only when a turn
  begins, so a turn never gets it back. *Acts*: between its claim and its end at most one request is
  there with an action, and the action has not run; without it two requests past their claims could
  both run it. *Closed*: a deleted conversation has no pending row; its second half, an action
  property, is that both kinds of insert ask for `deleted`.
  *Summarised* is `HiddenIsSummarised` over any sequence of rows, with *CutsOK*: a compaction cuts at a
  stored row, and one that is about to hide has its summary stored behind its cut. Without *CutsOK* the
  property is not inductive: the rows are hidden a step after the summary is written, and inserts,
  withdrawals and other turns come between. That rows only grow and keep their kinds is what keeps an
  old summary, or enough newer questions, behind a hidden row.
  The refinement, `Spec => Action!Spec`, goes from *Places*, *Acts* and the fact that the sweep
  only declines (`Approved` is about the user's requests). The four sets partition the rows of actions.
  A step that resolves nothing takes rows out of `Paused` and `Approved` only, which is `Close`, or
  brings one new action, which is `Propose`; a claim, a run, a reopen and a failed confirmation move
  one row from one set to another and leave the rest where they were. That no other request holds the
  row (*Acts*) is why it leaves `Approved`.
* `AgentHistory_proofs`, under the same assumptions, in two halves. *CallsAreKept* is about the stored
  rows: which calls a row of each kind holds (the calls of an answer are numbered in it, a paused call
  is the one numbered 0, the result of a paused action has its call), that no two results have the same
  call, that a turn pauses once, and that between an answer and a result of it its turn has stored only
  results of it. It is kept because of *TurnCalls*: the calls a turn has still to store are of its
  present iteration, differ, have no result, and nothing but their results follows the answer they are
  in; and because of *ActionsAnswered*: an action with a result row is one whose confirmation has been
  carried out, and no two requests carry out the same one. `CallsAnsweredInPlace` is its consequence.
  The second half follows the messages row by row: what is made of the first n rows declares exactly as
  many calls too many as there are results directly after row n whose calls were declared last
  (*AwaitsFront*, by a least counterexample over n). At a batch this needs that its declared calls and
  those results correspond one to one, which is *CallsAreKept*, `RunsDoNotInterleave` and the absence of
  `ResultInsideBatch`: here the exception in `HistoryIsWellFormed` is used, and nowhere else. After the
  last row there are no results, so nothing is missing.
* `Rescore_proofs`, for any scans and any size of a batch (`BatchAssumption`, `NameAssumption`: what
  stands for no row and no loop is none). `PassedMeansJudged` is not inductive: the list is read again
  for every batch and changes inside one, so what the loop passes next must be known to be judged before
  it gets there. *BatchSkipsNothing* says so: what stands in the list before a scan of the batch is judged or
  comes earlier in the batch. It survives a completion because the new scan was counted by no rescore
  (*UnbornUnknown*), and a deletion because the others keep their order (*ListedOnce*). *PassedJudged*
  asks the same of both resume points, the one stored and the one the loop will store. *LoopHasRow*: the
  row a loop works from is the running one, which gives `RunningRowHasLoop`. `CountsAddUp` is
  `RescoreTypeOK` with its counts: each scan behind the loop is in one of them.
* `Schedules_proofs`, for any finite set of schedules, any period, any number of passes of mails at a
  time and any bounds (`IdsAssumption`, `PeriodAssumption`, `BoundAssumption`, `NameAssumption`).
  *Base*: types; a pass lists schedules of its own kind that were created, each once, and took its
  times from the past. *Spacing*, for scans: a row's next run is a period after its last start, what a
  pass lists may start by the clock the pass read, and a claimed row counts from that clock. It needs
  that one pass of scans runs at a time. *Coverage*, for digests: up to what a row, or the copy of it in
  a pass, says was sent last, every instant since the creation was told of or spent on a delivery. Sends overlap, so a row may go
  back to an earlier time; it is the copies that keep this true. *Causes*, for reports: unless an early
  mail has its cause already, the row's next mail is a period after the last one or the pass that sent
  it has still to move the row on, and what a pass has still to send may be sent.

Left to TLC: what takes fairness (TLAPS does not do `ENABLED`), which is `EveryScanSettles`, the liveness
of `KeepsPoolPromise`, `ListenerHearsTheEnd`, `TurnsEnd`, `PausedIsSettled`, `RescoreEnds` and
`DueIsMovedOn`. Every other property of a passing run is a theorem. No module uses a RECURSIVE
operator; the messages of `AgentHistory` are a recursive function of the rows, unfolded in
`AgentHistory_proofs`.

## Not modelled

Plugins, coordinated pull requests and bulk fixes, incremental scans, issue dismissals, the rekey at rest and
the registry of service clients are small protocols of their own and the next candidates (below). The
Redis queue has no consumer in this commit and its cache is best effort. A drained shutdown is a crash
at a moment when nothing runs, which the models have. Notifications and webhooks are fired and
forgotten. Sharing, VPAT, the HTML, REST, GraphQL and MCP layers are requests over one row or
presentation. The core scanner, the compliance, LLM, branding and monitor services and the git hosts are
outside processes or libraries; what they answer is a choice of success, failure or delay here.

## Plan

1. Done: `ScanLifecycle`, `ScanPool`, `ScanEvents`, `OAuthTokens`, `OAuthKeys`, `AgentConversation`,
   `AgentHistory`, `PausedAction`, `Rescore`, `Schedules`, with their runs.
2. Done: every safety property of a passing run, as a theorem.
3. Modules: incremental scans and dismissals (what is stored against what was counted), coordinated PRs
   and the plugin manager (rows against outside state, one step of several failing), the rekey at rest.
