# Timeless: a verification project

Timeless is a multi-tenant sponsorship CRM: a Go API (Fiber, GORM on Postgres, Redis),
an asynq worker process, integrations with Notion, Apollo and Zapier, AI agents, and a
Next.js front end. These TLA+ modules model the parts of its backend in which the order
of events decides whether the data stays right. TLC checks them on small instances;
TLAPS proves what matters most for every value of the constants.

Paths below are relative to `src/backend/internal/` unless they say otherwise.
`PROJECT.json` maps every definition to the lines it models, and lists runs, mutants,
hazards and theorems.

- [The system](#the-system)
- [The modules and the code](#the-modules-and-the-code)
- [What each run checks, and its bounds](#what-each-run-checks-and-its-bounds)
- [Fairness](#fairness)
- [What is proved](#what-is-proved)
- [Where the code and the docs disagree](#where-the-code-and-the-docs-disagree)
- [What the code does not guarantee](#what-the-code-does-not-guarantee)
- [What is not modelled](#what-is-not-modelled)
- [The plan](#the-plan)

To check a run or a proof:

    tlc -config sync_two_processes.cfg MCIntegrationSync
    tlapm IntegrationSyncProofs.tla

## The system

Two kinds of processes share one Postgres database and one Redis:

- **API** (`src/backend/cmd/api`, `router`, `handler`, `middleware`, `service`,
  `repository`). Requests are served concurrently. There are almost no locks and few
  transactions: a handler reads rows, decides, and writes rows, one statement at a time,
  and `repository.*.Update` is GORM's `Save`, which writes every column back.
- **Worker** (`src/backend/cmd/worker`, or the API itself with `EmbedWorker`;
  `bootstrap/worker.go`). On start it recovers stale syncs, then starts an asynq server
  (ten concurrent handlers) and a scheduler goroutine. asynq delivers at least once: a
  task whose handler's process died is delivered again when its lease expires, and one
  that returned an error is retried.

They talk through asynq tasks (`worker/tasks.go`): `integration:sync`, `event:dispatch`
(the event bus), e-mails, webhooks, sequences. Browsers are told of changes by the hub of
the API process (WebSocket, SSE), which lives in memory.

### Inventory

| Component | State it keeps | Operations | What is hard | Correct if |
|---|---|---|---|---|
| Integration sync runner, scheduler, `sync_runs` (`worker/integration_task.go`, `worker/scheduler.go`, `repository/sync_run.go`, `service/integration.go`) | one `integrations` row per provider (status, credentials, last sync), `sync_runs`, the queue | connect, sync, refresh a token, revoke, delete, trigger, rotate credentials, periodic resync, recovery | handlers in several processes without a lock; crashes while a sync runs; lease expiry; status written over a row that changed | a run's row tells the truth, a success is final, a due connection is synced again, a stuck one is freed |
| Discovery (`integration/notion.go`, ingestion in `worker/integration_task.go`) | the watermark in `Integration.Config` | page through the search, harvest databases, ingest, store the watermark | people edit while it pages; failures half way; an older row saved over the watermark | the watermark never passes an edit that was not ingested |
| Record sync engine (`syncengine/push.go`, `pull.go`, `eventbus`, `mapping/notion.go`) | the ledger `synced_entities`; the record; the Notion page | push, delete, pull, mark a conflict, record a failure | events out of order, retried or handled at once; crash between a page and its row; edits on both sides | both sides agree or the conflict queue says so; a deleted record leaves no page; ledger rows name distinct pages |
| Team (`handler/team.go`, `service/invitation.go`, `service/auth.go`, `repository/role.go`) | `users`, `user_roles`, `invitations`, the organization | change roles, remove, transfer ownership, invite, accept, revoke, join, delete an account | checks and writes are separate statements of concurrent requests | an owner remains, nobody is left without a role, one account per e-mail, an invitation is answered once |
| Contacts (`handler/webhook_zapier.go`, `syncengine/zapier_ingest.go`, `worker/integration_task.go`, `dedupe/dedupe.go`, `handler/import.go`, the CRUD of companies, contacts and sponsors) | companies, contacts, decision makers, sponsors; deduplication keys in Redis | ingest, import, find or create a company, merge duplicates, create, edit, delete | find-then-create races; a merge against whoever writes a row; a key taken before the event is queued | what was acknowledged becomes one contact; a merge leaves no row behind |
| Background tasks (`worker/tasks.go`, `worker/deadletter.go`, `service/webhook.go`, `handler/outreach.go`) | webhook and deliveries, enrolments, memory index, dead letters | deliver with attempts, advance a sequence, index, enrich; the requests that edit those rows | redelivery of what was done; counters on stale copies; crash between attempts | a task that ended did its work or is on record; a webhook goes off after ten failures in a row |
| Outgoing e-mail (`handler/email.go`, `worker/email_task.go`, `email`) | none | queue, send | a task without a handler | what is queued is tried |
| Accounts (`service/auth.go`, `repository/auth_security.go`, `handler/profile.go`) | the row of a user (login counter, lock, second factor), sessions, tokens sent by e-mail, Redis keys | log in, second factor, refresh, log out, verify, reset, change a password, enrol | lost updates of full-row saves; one token used twice at once; a login under way when the password changes | a token is used once; sessions end with the password; counters count |
| Routes and permissions (`router/router.go`, `middleware/routeguard.go`, `permissions.go`, `rbac.go`, `auth.go`, `origin.go`) | tables in the code; the roles of the user | dispatch a path, look up the permission, decide | two tables that must mean the same, read by two matchers | the guard reads the entry of the route that runs; nothing is closed to everybody |
| Request guards (`middleware/ratelimit.go`, `idempotency.go`, `audit.go`) | counters, locks and stored answers in Redis | count, lock, replay, audit | INCR without EXPIRE; a lock that ends under its owner | a window keeps its limit; a key runs once at a time |
| Real-time hub (`realtime/hub.go`) | registered clients, buffered channels | register, publish, unregister | a full buffer; a client that leaves from two sides | no channel is closed twice; who missed an event is disconnected |
| Connections (`handler/oauth.go`, `integration/oauth.go`, `service/integration.go`, `security/crypto.go`, `security/keyring.go`) | OAuth states in Redis, credentials and webhook tokens, keys of each process | start, callback, exchange, connect, webhook URL, rotate, roll out a key | a callback used twice; saves of old rows; processes with different keys | what was asked for is what is stored; a change of keys loses nothing |
| Field mapping and the Notion adapter (`mapping/notion.go`, `mapping/extract.go`) | the mapping of a field | to a property and back | types that do not hold each other's values | the echo of a push changes nothing; an edit in Notion arrives |
| Apollo enrichment (`integration/apollo.go`, `worker/integration_task.go`) | `updated_at` of companies, credits | choose a batch, enrich, search, match, reveal | calls that fail or know nothing | one person per role, credits bounded, all companies have their turn |
| Zapier client (`integration/zapier.go`) | none | list tools, list apps, call | tools known by name only | only reads; real apps |
| Other CRM records: campaigns, proposals, projects, communications | one row each | create, read, update, delete | publish after commit, best effort | - |
| AI agents and discovery agents (`ai`, `service/discovery.go`) | runs and suggestions, inserted | prompts, calls, inserts | external answers | - |
| Automation, goals, notifications, onboarding, analytics, search, uploads | single rows | queries and writes | - | - |
| Second factor (TOTP, backup codes), hashing | none | pure functions | - | - |
| Configuration, bootstrap, logging, migrations | none | start-up | order of start-up (in IntegrationSync) | - |
| Front end (`src/frontend`) | none that outlives a page | calls of the API | - | - |

The components meet in these places: a local write of a CRM record publishes an event
that the record sync engine handles; the engine works only while the connection's status
is `active`, which the sync runner and the API write; a Notion webhook starts both a pull
(record sync) and, through `EnqueueWebhookSync`, a sync; the sync runner calls Discovery,
Enrichment or the Zapier client, and what they find goes to Contacts; every OAuth flow
ends in `Connect`, which starts a sync; an invitation and a join create the accounts that
Team counts and Accounts signs in; a request passes Access and Gateway before any of
this. Each module takes what it needs of its neighbours as an action of its environment:
RecordSync's `Disconnect` stands for whatever IntegrationSync does to the status,
Discovery's overlapping handlers for those that IntegrationSync shows can pass the
runner's guard, Contacts' `StartSync` for whatever Discovery, Enrichment or Zapier found.

## The modules and the code

Every database statement, queue operation and provider call is a step of its own, because
another process can act between any two of them; what a handler computes in between is
part of the step. Contents are abstract (a token, an edit, an e-mail is a model value or
a number); formatting and logging are left out.

### IntegrationSync (`MCIntegrationSync`, `IntegrationSyncProofs`)

One connection. `conn` is the `integrations` row, `runs` the `sync_runs` table, `tasks`
the asynq queue, `wk[<<p, s>>]` handler `s` of process `p`, `sched[p]` its scheduler
goroutine, `accepted` the tokens the provider takes, `rotation` the copy of the row that
`RotateCredentials` holds, `request` the one a `Connect` or `Revoke` holds, `faults` how many
statements and enqueues have failed.

| Code | Actions |
|---|---|
| `integrationSyncRunner.run` | `Load`, `CheckRunning`, `StartRun`, `SyncCall`, `MarkRow`, `FinishRun`, `Settle` |
| `tryRefresh` | `RefreshCall`, `SaveRefreshed`, then `SyncAgain` |
| `RecoverStaleSyncs`, `ReapStaleRuns` | `Reap`, `Scan`, then `SchedEnqueues` or `SchedSkips` |
| `resyncDueIntegrations` | `TickSelects`, then the same |
| the same statements failing | `LoadFails`, `CheckFails`, `StartFails`, `SaveRefreshedFails`, `MarkFails`, `FinishFails`; `SchedFault`, `EnqueueFails` |
| `IntegrationService` | `ConnectNew`; `ConnectRead` and `ConnectSave`, `RevokeRead` and `RevokeSave`, `RotateRead` and `RotateSave` (read, later saved whole); `RequestSync`, `Delete` |
| asynq, time, the provider (external) | `Dequeue`, `LeaseExpires`, `RunAges`, `BecomesDue`, `TokenExpires`, `Crash`, `Restart` |

`run` on failure paths: a failure of the sync marks the row and then finishes the run; a
failure to ingest, or to decrypt, finishes the run and then marks the row. Both orders
are in `AfterSync`, `MarkRow` and `FinishRun`. Most of `run` does not look at the errors of
its statements: a failed `HasRunning` lets the sync through, a failed `Start` lets it go on
without a `sync_runs` row, a failed `Finish` leaves its row running for the reaper, and a
failed update leaves the status as it was. Each is an action. `Dequeue` waits until the process has
recovered, because `bootstrap` calls the recovery before it starts the server.

### RecordSync (`MCRecordSync`, `RecordSyncProofs`)

One record with one active mapping. `rec` is the record, `pages` the Notion pages made
for it, `ledger` its rows of `synced_entities`, `wk[w]` a handler with its own copy of the
row it read. `UpdatedAt` and `last_edited_time` are counters of writes. `stray` remembers
what the code has no answer to: two handlers in service at once, two that had both looked
for the row and found none, one that died between a page and its row.

| Code | Actions |
|---|---|
| `PushService.pushOne` | `Begin`, `Load`, `GetVersion`, `Write`, `Save`, `Archive`, `SaveArchived` |
| `PullService.PullRecord`, `entityState.apply` | `Find`, `Fetch`, `Check`, `Apply`, `Put`, `SavePulled` |
| `markConflict`, `recordFailure` of both | `MarkConflict`, `RecordFailure` |
| ledger updates whose error is ignored (`push.go:189`, `:302`, `pull.go:267`) | `SaveArchivedFails`, `RecordFailureFails` |
| `CompanyService.Create`/`Update`/`Delete` (contacts and sponsors do the same) | `Edit`, `Delete` |
| Notion, asynq, people (external) | `RemoteEdit`, `Webhook`, `Dequeue`, `Disconnect`, `Crash` |

### Team (`MCTeam`, `TeamProofs`)

One organization. `reqs[r]` is a request being served and what it has learnt so far.

| Code | Actions |
|---|---|
| `UpdateMemberRole` | `AskRoles`, `ReadMember`, `CountOwners`, `RequesterIsOwner`, `DeleteRoles` (the list may be empty), `InsertRole` (names without a role are skipped) |
| `RemoveMember` | `AskRemoval`, `ReadMember`, `CountOwners`, `RemoveUser` |
| `TransferOwnership` | `AskTransfer`, `HoldsOwner`, `FindTarget`, `Transfer` (one transaction) |
| `DeleteAccount` | `AskLeave`, `HoldsOwner`, `CountMembers`, `DeleteUser`, `DeleteOrg` |
| `InvitationService.Create` | `AskInvite`, `RequesterIsOwner`, `KnownEmail`, `FindActive`, `SendInvitation`; `KnownEmailFails`, `FindActiveFails` where a failed lookup counts as nothing found |
| `Accept` | `AskAccept`, `FindPendingByToken`, `KnownEmail` or `KnownEmailFails`, `CreateAccount` (one transaction), `MarkAccepted` |
| `Revoke`; expiry | `RevokeInvitation` (one conditional UPDATE); `InvitationExpires` |
| `JoinOrganization` | `AskJoin`, `KnownEmail` or `KnownEmailFails`, `CreateAccount` |

### Discovery (`MCDiscovery`, `DiscoveryProofs`)

The incremental Notion sync. `edited[i]` is the `last_edited_time` of an item (0: not
shown), `watermark` what `Integration.Config` holds, `sync[h]` a running
`NotionClient.Sync` with its own watermark, its cursor, and what it found (`todo`).

| Code | Actions |
|---|---|
| `integrationSyncRunner.run`, the start | `Begin` (the row, with its watermark, is read once) |
| `discoverAll` | `SearchPage` (one request), `SearchEmpty`, `SearchFails` |
| `Sync`, `harvestDataSourceRows` | `Harvest` |
| `ingestContacts`, `ingestNotes` | `Ingest`, one item a step |
| the final UPDATE of `config` | `SaveWatermark`; `Fail` where the code returns instead |
| `Connect`, `RotateCredentials` | `ReadRow`, `SaveRow`: the whole row is written back |
| Notion (external) | `Edit`, `Share`, `Hide`, `Tick` |

`excused` collects the items that the code does not promise to find; each way into it is
a named case (see [below](#what-the-code-does-not-guarantee)), so that `NothingSkipped`
says exactly what remains.

### SyncRunLog

What the dashboard is promised of `sync_runs`, without handlers, queues or provider: a row
is begun, ended once by the sync that recorded it, given up by a reaper, or abandoned by a
process that died. IntegrationSync implements it (`KeepsRunLog`) under the refinement
`status[r]` = the row's status and `recorded` = the rows whose id a live handler holds.
The abstract machine says what the code leaves open on purpose: a row that was given up
may still be ended by its sync, if that is alive after all; a success never changes.

### Contacts (in `MCRequests`)

Companies and the rows that name one. `job[w]` is a worker's task or request with the
copies it has read; `into` and `late` are history: where a company was merged, and that a
row was written after its company was.

| Code | Actions |
|---|---|
| `handler/webhook_zapier.go`, `Receive` | `Deliver`, `DeliverAgain`, `Publish`, `PublishFails`; `KeyExpires` |
| `syncengine/zapier_ingest.go` (`HandleEvent`), `ingestContacts`, `ingestDiscoveredContacts`, `findOrCreateCompany`, `insertSponsor` | `StartZapier`, `StartSync`, `FindCompany`, `CreateCompany`, `Enrich`, `FindRow`, `CreateRow`, `SaveRow` |
| `importEntity`, `insertContact`, `insertSponsor`, `insertCompany` | `StartImport`, `ImportRow`, `ImportCompany` |
| `dedupe.MergeDuplicateCompanies`, `mergeCompanyInto` | `StartMerge`, `ReadCompanies`, `MergeInto` (one transaction), `MergeDone` |
| CRUD of companies, contacts, sponsors | `NewCompany`, `NewRow`, `ReadCompany`, `SaveCompany`, `ReadRow`, `SaveRow`, `DeleteCompany`, `DeleteRow` |
| a failing statement, a crash | `Fail` |

### Tasks (`MCTasks`)

asynq's tasks other than syncs and events: one webhook with its deliveries, one enrolment,
one company, two index tables. `past` is what has really happened, and `past.lost` the
rows that somebody saved from an old copy.

| Code | Actions |
|---|---|
| asynq, `deadletter.go` | `Enqueue`, `Take`, `Ack`, `HandlerFails`, `NoHandler`, `Crash` |
| `HandleWebhookDeliver`, `deliverWebhook` | `ReadHook`, `CreateDelivery`, `Post`, `SaveDelivery`, `ResetCount`, `CountFailure` |
| `HandleSequenceAdvance`, `Enroll` | `Enroll`, `ReadEnrolment`, `SaveEnrolment` |
| `HandleMemoryIndex` | `FindIndexed`, `WriteIndexed` |
| `HandleCompanyEnrich` | `ReadCompany`, `UpdateCompany`, `ScoreCompany`, against `BeginEdit`, `SaveCompany` |
| `WebhookHandler` (create, update, rotate, delete) | `CreateHook`, `BeginUpdate`, `SaveHook`, `DeleteHook` |

### Accounts (in `MCRequests`)

One user. A password is a number, a session remembers which one it goes back to.

| Code | Actions |
|---|---|
| `Login`, `VerifyMFALogin`, `completeLogin`, `recordFailedLogin` | `Login`, `VerifyMFALogin`, `SaveUser`, `CodeNotSaved`, `CreateSession`; `LockExpires`, `TicketExpires` |
| `RefreshToken` | `Refresh`, `FindSession`, `RevokeOld`, `Blacklist`, `CreateSession` |
| `Logout`, `RevokeSession`, `LogoutAllSessions` | `Logout`, `LogoutRevokes`, `SignOut` |
| `ResendVerification`, `ForgotPassword`, `VerifyEmail`, `ResetPassword` | `BeginIssue`, `Invalidate`, `Issue`, `Redeem`, `ReadUser`, `SaveUser`, `MarkUsed`, `RevokeAll` |
| `ChangePassword`, `EnrollMFA`, `ConfirmMFA`, `DisableMFA`, `Profile.Update` | `Edit`, `SaveUser`, `RevokeAll` |

### Routes and Access (in `MCRequests`)

Routes has no state: it is the tables as they are in the code, every route in the order in
which `Setup` registers it, `routePermissions`, the lists of the five roles, and the two
matchers. Access sends every method and path through them (a parameter is an id, or what
another route has in that place) while the roles of the user change: `Arrive`,
`Authenticate`, `ValidateOrigin`, `Guard`, `Require`, `Answer`, `SetRoles`.

### Gateway (in `MCRequests`, `gateway_replay`)

| Code | Actions |
|---|---|
| `ByIP`, `ByUser`, ..., `RedisRateLimiter.Limit`, `hit` | `Arrive`, `Hit`, `Expire`, `FailOpen`; `WindowEnds` |
| `Idempotency` | `Lookup`, `Acquire`, `Run` (the handler, any outcome), `Store`, `Unlock`; `LockExpires`, `RecordExpires` |
| `AuditLog` | `Audit`, which broadcasts |
| `Hub.Run` (one goroutine, three channels), `WebSocketHandler`, `SSEHandler` | `Connect`, `Register`, `Deliver`, `Unregister`, `Write`, `HandlerEnds` |

Middleware that is passed to a route before its handler runs before it (fiber
v3.0.0-beta.4), so that the order is limiter, key, handler, audit on the way out.

### Connections (in `MCRequests`)

| Code | Actions |
|---|---|
| `OAuthHandler.Start`, `Callback`, `OAuthProvider.Exchange` | `Start`, `Callback`, `Exchange`; `StateExpires` |
| `IntegrationHandler.Connect`, `IntegrationService.Connect` | `Paste`, `Validate`, `Find`, `Save`, `Enqueue`, `Redirect` |
| `EnsureInboundWebhookToken` | `FindToken`, `SaveToken` |
| `RotateCredentials` | `Rotate`, `RotateRow`, `RotateEnds` |
| `NewCredentialCipher`, `NewJWTKeyring`, the environment | `NewKey`, `DropOld`, `Deploy` (one process restarts with the new configuration), `Crash` |

Ciphertext is the key it was sealed under and the tag it carries; opening it is having
that key.

### FieldMapping, Enrichment, ZapierGateway (in `MCRequests`)

Three algorithms as small machines. FieldMapping takes every field of the three entities,
every property type and direction, and lets people edit either side between `Push` and
`Pull`: what the switch statements of `mapping/notion.go` and `mapping/extract.go` do to a value,
text, number, date, list or nothing. The values include those that one side can say and the other
cannot: a date with an hour (`"hour"`) or with an end (`"range"`), a number with more than two
decimals (`"1.504"`), a text or a number its column has no room for (`"big"`, refused). Enrichment is `Begin` (the batch), `Enrich`,
`Search`, `Match` (`findBestRoleMatch`, once a role), `Reveal`, `Done`. ZapierGateway is
`Connect`, `ListTools`, `Agentic`, `Call`, `Finish` against any list of tools. A tool is
what its name says (its app, a verb of reading, a verb of writing), whether it needs arguments, and
what it really does (`changes`). Of Zapier's five meta-tools the code knows the two that list by name
(`Listing`); the three that act (`Acting`) it takes for tools of apps `enable_zapier` and
`execute_zapier`, as `groupToolsByApp` does.

### MCRequests

Contacts, Accounts, Access, Gateway, Connections, FieldMapping, Enrichment and
ZapierGateway share no state, so their product would show nothing. MCRequests instantiates
each with the variables `s1` ... `s9`, which they take turns with: `part` says to which of
them a behaviour belongs, and every property is that of a part. Connections comes in three
sizes (`flows`: two organizations under one key; `urls`: one organization with a webhook
URL; `rotations`: one organization while keys change), each small enough to be explored
whole.

## What each run checks, and its bounds

Twelve runs. Those marked V are expected to be violated: they check what a doc or a comment
says and show what the code does ([below](#where-the-code-and-the-docs-disagree)). Every
property of a passing run has a mutant in `PROJECT.json`: a definition changed as a
plausible bug would change it, which makes TLC find that property violated.

`CHECK_DEADLOCK FALSE` is in every configuration: an instance ends when its bound on
requests, edits or times is used up, and an idle system is allowed to rest.

| Run | Instance | Shows |
|---|---|---|
| `sync_two_processes` | 2 processes with 1 handler each that start one after the other, 2 rows, 2 tasks, 1 token, 1 crash, 1 failed statement or enqueue, manual syncs | `RowFollowsSync`: two handlers never record one row, and the row of a sync in flight is running or was reaped after it went stale. `KeepsRunLog`: IntegrationSync implements SyncRunLog, a success is final. `GuardSeesSyncs`: unless its query fails, `HasRunning` lets no handler through while another one is syncing, but for a sync that is stale or whose `Start` failed |
| `sync_operations` | 1 process, 1 row, 1 task, 2 tokens, 1 crash, 1 failed statement or enqueue, every operation (connect, reconnect, trigger, revoke, delete, credential rotation, token refresh) | `ReapOnlyOrphans`: with one process only rows of dead handlers are reaped, because the recovery runs before the server. `NoCallWithoutToken`: a revoked connection is still enqueued, but no call is made with `{}` |
| `sync_liveness` | 1 process, 2 rows, 2 tasks, 1 crash, 1 failed statement or enqueue, manual syncs, fair | `DueIsResynced`. `RecoveryUnsticks`: a process that starts when no run is fresh frees a connection left syncing or retrying, be it by a first sync that was never enqueued, a status that was not written or a killed handler |
| `sync_stuck_after_restart` (V) | the same, no operations but connect | `SyncingEnds` fails |
| `record_handlers` | 2 handlers, 2 pages, 2 edits, delete, disconnect, 1 fault or overlap of handlers, 1 retry, fair | `OneRowOnePage`: the record has one ledger row unless two handlers had both looked for it in vain, and one page unless, besides, a handler died between page and row. `SettledAgrees`: when all is handled, nothing was dropped and no handlers overlapped, a live record and its page agree or are in the conflict queue, and a deleted one has no page. `Drains`: pushes and webhooks do not set off each other for ever |
| `record_race_pull` (V) | 1 handler, 3 edits on both sides, no fault | `PullKeepsLocalEdits` fails |
| `team_requests` | 3 users, 2 e-mails, 2 invitations, 2 requests at a time, 4 in all, 1 failing statement, lookup or request; role lists that are empty or name a role that does not exist | `NobodyStranded` under overlapping role changes, removals and transfers: a member without a role is one an update emptied (`emptied`) and who got none since. When requests do not overlap: `OwnerRowStays`, if nothing failed; `OneAccountPerEmail` and `InvitationsSettle`, whatever failed but a lookup that counted as nothing found |
| `team_last_owner` (V) | 2 users, 1 request at a time | `LastOwnerStays` fails |
| `discovery_syncs` | 2 pages and a database, 1 handler, pages of 1 result, at most 2 requests, 2 minutes, Connect saving older rows back, 1 fault, fair | `NothingSkipped`; `EachEditOnce` for syncs that do not overlap or fail; `EditsArrive`: every edit that is not excused is ingested in the end |
| `tasks` | 2 workers, 2 tasks of any kind, 3 deliveries, 2 requests, 1 fault, 1 retry, 2 attempts, threshold 2, 1 step | `TasksAccounted`: a task that ended well tried until an answer or the last attempt, one given up is a dead letter. `FailuresCounted`: the counter is the failures in a row unless an old copy was saved, and never more than the failures. `SequenceInOrder`. `AgentsKeepRecords`: no second row unless two looked at once, no edit undone |
| `requests`: Contacts | 2 workers, 2 companies, 2 rows, 1 event, 3 requests, 1 fault, two spellings of a name | `IngestedOnce`: an acknowledged event becomes a contact, and one unless two looked at once. `MergeKeeps`, `MergeLeavesNone`: a merge leaves no row with a company that is gone, and one company |
| Accounts | 2 requests at once, 3 sessions, 2 tokens, 1 code, locked after 2 | `AccountKeepsChanges`, `CredentialsEnd`: a session is replaced once (the table and Redis each make up for the other), a token redeemed once, no session outlives its password unless it was being made |
| Access | every path, role and method, 2 changes of roles | `RoutesAreGuarded`: the guard reads the entry of the route that runs, nothing is closed to everybody, a promotion only adds |
| Gateway | 2 requests, 1 key, 1 client, windows and buffers of 1, 1 fault | `LimitsHold`: a window keeps its limit under concurrent INCRs, a key runs once at a time while its lock lasts. `HearOrLeave`: a client that missed an event leaves, once |
| Connections | 2 processes, 2 rows, 2 organizations or 2 keys, 1 fault | `ConnectedAsAsked`: a code is exchanged once, credentials are those asked for by their organization, the answer is true. `KeysKeepFaith`: a webhook URL stays valid, what was rotated is readable, nobody is signed out by a new key |
| FieldMapping | every field, type, direction; 1 edit on each side | `FieldsComeBack`: the echo of a push changes nothing (but the hour of a text mapped to a date, once), an edit in Notion survives the push after its pull, less what a push cannot say: the hour and the end of a date, a third decimal |
| Enrichment | 3 companies, 3 people, 4 roles, batches of 2, 2 credits, 2 runs | `RolesAreFilled`: one person per role, nobody who fits left out, credits bounded, every company in its turn |
| ZapierGateway | 1 app, up to 3 tools, 2 calls | `SyncOnlyReads`: only tools of the user's apps are called, none that changes anything unless its name says it reads, and all that may be if they are no more than the limit; the apps reported are those of the actions or the tools listed, the acting meta-tools included |
| `gateway_replay` (V) | 1 worker, 2 requests | `ServerErrorsNotStored` fails |

The rows from `requests` to `gateway_replay` but the last are the parts of one run.

Why the bounds are enough for what they look for:

- *Handlers, processes, requests.* The races of this code are between two actors: one
  checks, another acts, the first writes. Two of each are there in every run about a race;
  the theorems cover any number.
- *Tasks and rows.* Two tasks of one connection or record can wait or run at once; a third
  of the same kind repeats one of them (`Enqueue` drops it in IntegrationSync, and people
  wait for a free task in RecordSync). A `sync_runs` row that nobody holds, and that is
  finished or stale, is read by nothing but the reaper, so that ids are reused.
- *Overlaps.* In RecordSync a second handler takes up a task beside a busy one as often as
  faults occur (`Dequeue`), and one overlap is enough for two pages and rows of one record.
  An overlap and a fault in one behaviour are left to `RecordHasOne`, which is proved for
  any number of both.
- *Edits, requests, times.* RecordSync needs two edits for a conflict (one on each side),
  three for the race. Five requests are enough to found a team of two owners, remove one,
  and take Owner from the other, which is how `LastOwnerStays` fails. Two minutes and "no watermark" give
  edits before, in and after the watermark's minute.
- *Faults.* One failure at any place. Two failures are two chances at the same recovery
  code; retries are bounded by `MaxRetry`, so that giving up is reached too.
- *Tasks.* Two attempts and a threshold of two reach the last attempt, the switch-off and
  what comes after it; three deliveries are one more than it takes.
- *Contacts.* Two companies are a duplicate and its primary, two rows a contact and its
  twin; three requests are a merge, a sync and an edit. With `GivenDef` a merge has its
  duplicates from the start.
- *Accounts, Gateway, Connections.* Two requests that overlap on one row, key or counter.
  Windows and buffers of one are full with the first and overflow with the second.
- *FieldMapping.* One value of each kind that the conversions and the columns tell apart.
- *ZapierGateway.* Three tools, each of any kind, and two calls: one tool more than may be
  called, after a call that failed.
- *Enrichment.* Three people and four roles give an exact match, a match by a word, a
  person two roles compete for and a role nobody fits.
- *Page size 1, page limit 2.* With three items the search is cut by the page limit, ended
  by the watermark, and exhausted. Ties within a minute give every order of results.

Symmetry is used in safety runs only, over rows, tasks, tokens, pages, handlers, requests,
invitations, and the users other than the founder. `KeepsRunLog`, `GuardSeesSyncs` and
`MergeLeavesNone` are properties of steps, for which symmetry is sound because they quantify
over the sets they permute.

## Fairness

Only the liveness runs (and `SyncingEnds`) use `FairSpec`.

- IntegrationSync. Weak fairness of a handler's steps: Go runs every goroutine, and calls
  have a timeout. Strong fairness of `Dequeue`: asynq hands out what is pending as
  long as workers become free, even when other tasks compete. Weak fairness of lease
  expiry, of time (`RunAges`, `BecomesDue`) and of the scheduler, which a ticker drives;
  strong fairness of `SchedEnqueues`, because a run in flight disables it now and then.
  `Restart` is a step of the scheduler: a platform restarts a dead worker. People, the
  provider, crashes and failing statements owe nothing, but their numbers are bounded;
  `RotateSave` is the rest of a running request.
- RecordSync. While there is something to do, some handler goes on (weak fairness), some
  task is dequeued and Notion calls the webhook for some page (strong fairness): Notion
  delivers, and retries, its webhooks. Nothing is assumed of one handler, task or page.
- Discovery. Weak fairness of `Handle(h)`: the periodic resync starts a sync again and
  again (that is `DueIsResynced` of IntegrationSync), and a handler goes on. Failures are
  bounded, so that some sync completes.

## What is proved

All theorems hold for every value of the constants, from the `ASSUME`s of the modules
(bounds are naturals, "no such" values are not members, the items are a finite set).
GatewayProofs and AccountsProofs name the same kind of facts in an operator, `Sizes` (for
Connections `ConnSizes`, for the algorithms `EnrichSizes` and `ZapierSizes`), and every
theorem there assumes it. The theorems are proved through inductive invariants, which
TLC was asked about first.

| Module | Theorem | States |
|---|---|---|
| IntegrationSyncProofs | `TypeCorrect` | `TypeOK` |
| | `RowsFollowSyncs` | `RowFollowsSync` |
| | `ImplementsRunLog` | `KeepsRunLog`: IntegrationSync implements SyncRunLog |
| | `SuccessStaysSuccess` | `SuccessIsFinal`, what the log implies of a success |
| | `GuardSeesEverySync` | `GuardSeesSyncs` |
| | `CallsHaveTokens` | `NoCallWithoutToken` |
| | `OnlyOrphansAreReaped` | `ReapOnlyOrphans`, where one process runs the workers |
| RecordSyncProofs | `TypeCorrect` | `TypeOK` |
| | `RecordHasOne` | `OneRowOnePage`, for any number of handlers |
| | `OneHandlerSettles` | `SettledAgrees`, for one handler where nobody clears a property |
| TeamProofs | `TypeCorrect` | `TypeOK` |
| | `MembersKeepRoles` | `NobodyStranded` |
| | `OwnersLast` | `OwnerRowStays` |
| | `AccountsDiffer` | `OneAccountPerEmail` |
| | `InvitationsEndOneWay` | `InvitationsSettle` |
| DiscoveryProofs | `TypeCorrect` | `TypeOK` |
| | `WatermarkPassesNothing` | `NothingSkipped` |
| | `EditsSurfaceOnce` | `EachEditOnce` |
| ContactsProofs | `TypeCorrect` | `TypeOK` |
| | `IngestedOnceTheorem` | `IngestedOnce` |
| | `MergesKeep` | `MergeKeeps` |
| | `MergesLeaveNone` | `MergeLeavesNone`, of steps |
| TasksProofs | `TypeCorrect` | `TypeOK` |
| | `EndsAreAccountedFor` | `TasksAccounted` |
| | `FailuresAreCounted` | `FailuresCounted` |
| | `SequencesAdvance` | `SequenceInOrder` |
| | `RecordsAreKept` | `AgentsKeepRecords` |
| AccountsProofs | `RowsKeepChanges` | `AccountKeepsChanges` |
| | `CredentialsDoEnd` | `CredentialsEnd` |
| | `RolesGetFilled` | `OnePersonPerRole`, `NoneLeftOut`, `CreditsBounded`, `CoverageOverRuns` of Enrichment |
| | `SyncsOnlyRead` | `ReadsOnly`, `AsksAll`, `AppsAreReal` of ZapierGateway |
| | `FieldsAreFaithful` | `EchoStep`, `SurvivesStep` of FieldMapping, of steps |
| GatewayProofs | `LimitsAreKept` | `LimitsHold` |
| | `ClientsHearOrLeave` | `HearOrLeave` |
| | `ConnectionsAreAsked` | `StateOnce`, `TokensOfTheirStarter`, `ToldTheTruth` of Connections |
| | `KeysAreKept` | `TokenStays`, `RotatedIsReadable`, `SessionsSurvive` of Connections |
| ContactsProofs | `PartsKeepChanges`, `PartsEndCredentials` | `AccountKeepsChanges`, `CredentialsEnd` of MCRequests |
| | `PartsHoldLimits`, `PartsHearOrLeave` | `LimitsHold`, `HearOrLeave` of MCRequests |
| | `PartsConnectAsAsked`, `PartsKeepFaith` | `ConnectedAsAsked`, `KeysKeepFaith` of MCRequests |
| | `PartsFillRoles`, `PartsOnlyRead` | `RolesAreFilled`, `SyncOnlyReads` of MCRequests |
| | `PartsGiveBack` | `FieldsComeBack` of MCRequests, of steps |
| | `PartsTyped` | `PartsTypeOK` of MCRequests |
| | `PartsPromote` | `PromotionsOnlyAdd` of Access, for any permission |

Those whose names begin with `Parts` are about the specification that the run `requests` checks, for any number of
handlers and faults: ContactsProofs takes AccountsProofs and GatewayProofs as instances with
the sizes of that run (`AP`; `GP`, `UP` and `RP` for the three of Connections), shows that
they say the same as the instances in MCRequests (`AccountsNext`, ...), and `PartsInv`
carries their invariants along while the other parts have their turns. Contacts' own
theorems are about its `Spec`, which MCRequests runs as its first part. `PartsTyped`
assumes `2 <= MaxRequests`: Contacts' `TypeOK` bounds the requests that all parts count, and
Gateway begins two.

**IntegrationSync.** `RunInv` is `TypeOK`, `RowFollowsSync` and `StepMatchesRow`. The
first two alone are not inductive: nothing would say that a handler that is not recording
holds no row. `StepMatchesRow` ties the step of a handler to whether it may hold a row, and
says that one that is syncing does hold one unless a statement has failed. The action
properties follow: `Finish` writes the row of its own sync, which is running or reaped,
hence never another's success; and a sync in flight whose row is fresh is running,
hence seen by `HasRunning` when that is answered. The refinement follows too: `StepImplementsLog` takes the steps
one by one; `StartRun` begins a row nobody records, `FinishRun` ends
the row its handler holds, which `RunInv` says is running or was given up, a reaper gives
up rows that run, and a crash abandons those of its process, as a failed `Finish` abandons
its own.

Two more come with less. `CallsHaveTokens`: the token a handler works with is looked at when
`StartRun` decrypts it, and what a refresh returns is a token; nothing later puts the wiped
`{}` there. `OnlyOrphansAreReaped` needs `BusyIsUp`: a handler is busy only in a process that
is past its recovery, since the server starts after it and a process that restarts has lost
its handlers. With one process, whoever reaps therefore finds no handler at work.

**RecordSync.** `NameInv`. That rows name distinct pages is kept by an insertion only if
the page it names is nobody's: a handler between creating a page and inserting its row is
the only one that knows of the page (`NewPagesAreUnshared`), and a handler that saves a
row writes the page the row has already (`CopiesAreNamed`). Rows are never removed, and a
page that exists is never created again (`RowsAreNamed`).

`OneInv` says why there is one row and one page (`RecordHasOne`). Only a handler that has
looked for the row and found none creates a page (`Creating`); while no two do, and one
does, the ledger is empty, so that the row it inserts is the only one; and every page has
its row or the handler that is to insert it. Both ways out of this are states that the
code can reach, and are remembered in `stray` when they are.

That the two sides agree in the end (`OneHandlerSettles`) is proved for one handler, any
number of tasks, rows, pages, edits, retries and faults, with people, Notion and crashes
free to step in between any two of its statements. `SettledInv` says of every state why
they will. While the record lives, an event still waits that reads both sides afresh
(`Queued`: a push, a delete, or a pull of a page the ledger knows of or is about to), or
what the handler works with is what the other side holds now (`OnCourse`), so that its last
statement makes them agree; an edit on either side breaks the second and establishes the
first. A deleted record still has an event for it, or no live page (`DeadInv`); without
faults no page is unknown to the ledger (`OrphanInv`). Below these lie what a handler knows
at each step (`KnowsTask`, `KnowsRow`), that the record has one row (`OneRow`), and that a
record without a row that is to be deleted is deleted (`Buried`), which lets a delete that
finds no row do nothing. `LiveInv` must survive a pull that saves a deleted record back
(`Put`): either the delete event is still waiting, or the page is archived. Neither
hypothesis can go. With two handlers a pull of a new page may look for its row before the
push has inserted it, finds none and is done; and a property cleared in Notion yields no
field, so that the pull applies nothing.

**Team.** `TeamInv`. A member without a role is one that an update emptied, or the target of
an update that still has an existing role to insert (`StrandedIsServed`). For this, an update
at that step must have something left to insert (`RequestsOK`, which also records what each
step of an operation knows) and a new account must have a role that exists (`Grants`).
`TransferOwnership` adds Admin before it takes Owner in one transaction, so it strands nobody.

The other three properties are about requests that do not overlap. `SeqInv` says of these, as
long as no failed lookup has counted as nothing found, that one slot at most is in use
(`Alone`) and, per step, that what the request has learnt is still true (`Informed`): the
check of the last owner, the unknown e-mail, the invitation that is not revoked. Between
requests that is `OneAccountPerEmail` and `InvitationsSettle`, and if nothing failed at all
`OwnerRowStays`; within one, the owner may be among the roles still to insert (`OwnerLasts`).

**Discovery.** `WatermarkInv` says of the watermark, of each copy of it, and of what a
search will stop at, that nothing shown at or below it is uningested; and of what a sync
will store, that what it has not ingested is in `todo` or beyond its cursor and above its
own watermark (`SyncCovers`). The search keeps this because results come newest first: the
first result at or below the watermark bounds all that follow. `OnceInv` adds, for syncs
in calm, that what was ingested lies at or below the watermark a search starts from and
that all it finds lies above (`SyncBounds`), that one handler at most is busy and no older
copy of the watermark is held (`Alone`).

**Contacts.** `ContactsInv` has a part for each promise. `Keeping` strengthens what is
promised of an acknowledged event to every event that has its deduplication key, which
acknowledges the next request: it was refused, is being queued, is in a task or in a handler,
or has arrived. It rests on `CopiesOK`, that nobody's copy of a row says otherwise who the row
is. `Looking` ties the rows that nobody raced to the handlers that looked for one: as long as
one is about to create a contact, there is none. `Merging`: merges that do not cross are done
by one worker, into companies it does not delete; then nothing is left with a company merged
away (`NoOrphans`), and each such company leads to one that stays (`GroupSurvives`), which is
an induction along the merges that the well-founded order of naturals gives. `Cleaning` says
of a merge nobody disturbed that one of any two live twins is still in its list, so that
none are left when the list is empty.

Two things were found on the way, both by an invariant that would not go through and that TLC
then refuted with more workers than the run has. Who saves a row from an older copy must be
noted as racing (`raced` of `Saved`), or the exception of `IngestedOnce` would miss a row that
was brought back. And `normalize.CompanyName` is not idempotent (it strips one suffix off
"acme co inc", and another one the next time), so that nothing assumes it; only that a domain
normalizes to a domain.

**Tasks.** `TasksInv`. That a task that ended well has tried (`Trying`) is a fact of the
handler long before the task ends: a delivery row of that task is there, and its attempt
number says which way the handler goes on. A task is held by one worker, which writes one
dead letter for each delivery (`Holding`, `TasksOK`). `Counting`, `Advancing` and `Editing`
have one shape: a worker that has not been overtaken holds the row as it is, hence saves one
more failure, one more step, or the company with its edits. `past.saved` counts the steps
that were saved, which tells a step repeated by a redelivery from one lost. `Indexing`: if no
two looked at once, one handler at most is about to insert.

**Accounts.** `AccountsInv`. `Rowed` is about copies: one that nobody overtook is the row, so
that its save loses nothing; no copy has counted more failures than there were, so that not
even a lost update locks an account early; and a session that is being made goes back to the
password of now, or is marked late. `Replaced` does the accounting behind "a session is
replaced once": what is missing of its revocation (in the table, in Redis) was lost in as many
faults, so that with one fault at most a second refresh finds it revoked, whichever of the
two it asks first. `Redeemed` and `Issued` say of a token, and of a kind of token, that
whoever is at it without overlapping is the only one.

**Gateway.** `GatewayInv`. `Counting`: a window lets no more pass than it counted, and until
its counter has an end, the one handler that found it new has not passed yet; so a window
that ends has let at most its limit through. `Locking`: who runs for a key holds its lock,
unless the lock ran out under a run. `Serving`: a client that missed an event is on its way
out, nobody else is, and a channel is closed exactly when its client goes.

**Connections.** It has its proofs in GatewayProofs, as the instance `C`. `ConnInv` has a
part for each thing a process may hold on to. `FlowsOK`: one request at most has a flow, its
state is gone from Redis by then, and its step says whether the code was exchanged and the
credentials saved; so a code is exchanged once, and the answer is true. `CopiesOK`: a row and
every copy of it in a request that will save it are of one organization, the one that began the
flow its credentials come from. `KeysOK` is the rotation: it begins when every process has
the key of `target`, and until `target` moves on a row that is not in its list any more, or
that was saved by anybody since, is readable with that key alone; a row still in the list is
either readable or as the rotation has read it. A process that is restarted under it ends it, and a new key
makes it count for nothing (`RotationOK`). `TokenStays` holds by itself: what saves another
token over one that was shown has saved a stale row, and is `mixed`. `SignedIn`: a process
that does not know the first key is one whose operator dropped it.

**Enrichment.** It has its proofs in AccountsProofs, with ZapierGateway and FieldMapping:
instances `E`, `Z` and `M` with constants and variables of their own. `EnrichInv` holds for any companies,
people, roles, matching and limits. The credits: who is paid for is who was counted, or is
about to be, and who was found and not paid for came when the credits were spent
(`Credited`); so the paid ones are the first of the checklist. Coverage: as long as Apollo
knows every company, what is left of a batch is the beginning of the order by `updated_at`,
and what was taken out of batches stands at its end, enriched (`InOrder`); when the batches
add up to all companies, the end is the whole order. That no company comes twice in the
order, and that all are in it, is part of its type; a move to the end keeps both.

**ZapierGateway.** Any server, in either mode, with any tools and actions, any call failing.
`AskedInv`: what is still to be looked at is of the server's list, what was called is of it too and
passed the filter, and a tool that would pass is one or the other; at the end of a sync nothing is
left or the calls are used up. From this come `ReadsOnly`, whose premise is about the whole list,
and `AsksAll`. A list of apps is built from what was listed in the same sync; the assumption that no
app of the user's has the name of a meta-tool keeps the two apart.

**FieldMapping.** `MappingInv` says which values a field of a kind can hold, and which a
property of a type can show (what somebody wrote, or what some value was pushed as). The
kinds differ by the Go type that an assignment asks for, the types by the shape of the
property, and the proof goes through their pairs by class, not one by one. `Pushed`: after a
push the property is what the field was translated to, whence its echo is the field
again, but for the hour of a text that is mapped to a date. `Arrived`: from the moment somebody has
written, the property says that, or what a push can say of it (`Kept`), and once it was pulled the
field is translated to `Kept`. `Kept` of it is itself (`KeptIs`), so what is lost is lost once. Both are about fields and types that hold each other's
values (`Faithful`, as in the property).

**Access.** `PartsTyped` gives every request a place in the list of routes: the least index
that matches exists, for a list as long as this one is. `PartsPromote`: each role's
permissions contain those of the role before it, whatever a route asks for.

Two faults of the models were found on the way: the cases of `deserializeNotionProperty`
overlapped on an empty property, where the meaning of `CASE` is open and TLC takes the first
(every branch of the code's switch returns nil there, `mapping/notion.go:171`, and so the
operator now does before it looks at the type); and the type of a request in Access left
out that its flags are Booleans.

**Model-checked only.** Liveness (`DueIsResynced`, `RecoveryUnsticks`, `Drains`,
`EditsArrive`) is outside the prover. Of `RoutesAreGuarded`, that the guard reads the entry of
the route that runs and that no route is closed to everybody compares two tables entry by entry.
They are finite, and TLC sends every call of every route through them; a proof could only
repeat that enumeration, pair by pair.

## Where the code and the docs disagree

Each is a run that TLC shows violated.

1. `sync_stuck_after_restart`. `src/backend/docs/INTEGRATIONS.md:519-522` says a worker
   that was killed while syncing is dealt with by `RecoverStaleSyncs` at the next start,
   within ten minutes. A process that restarts at once finds the run still fresh and skips
   it (`worker/scheduler.go:56`); the redelivered task is dropped by the same check
   (`worker/integration_task.go:59`); later ticks select active connections only. The
   connection stays `syncing` until somebody syncs it by hand or a process starts again.
2. `record_race_pull`. `INTEGRATIONS.md:235-237` says a pull applies a change unless the
   local record was modified. `syncengine/pull.go:217` checks this on one read of the
   record, and saves the fields over another.
3. `team_last_owner`. `middleware/permissions.go:82-84` says the last owner cannot be
   removed or demoted. `repository/role.go:87` counts `user_roles` rows, and a removed
   user keeps them: after one of two owners was removed, the other can be, too.
4. `gateway_replay`. `middleware/idempotency.go:56` says server errors are not cached. The
   middleware reads the status (`:54`) before the error handler of the application has set
   it, so that a run that returned an error is stored as an empty 200 and replayed.

Found while modelling, and not a run, because no property of the models tells the doc and
the code apart in one step of theirs, or because the runs have other questions:

- `POST /emails/send` answers "Email queued for delivery" (`handler/email.go:74`), but
  `RegisterEmailDeliveryHandler` (`worker/email_task.go:57`) is called by nobody: the task
  is retried and archived without a handler having seen it (`NoHandler` in Tasks).
- `security/crypto.go:18-29` and `.env.example:16-20` say that retired keys keep old data
  readable. Ciphertext without a tag is opened with the *current* key (`:45-48`), so that
  after a first change of keys it can neither be read nor rotated: `RotateCredentials` stops
  at it. MFA secrets (`service/auth.go:1101`) are sealed with the same key and are not rotated.
- `worker/integration_task.go:191-194` says that batches lead to full coverage. A company
  Apollo does not know keeps its `updated_at` and stays at the head of each batch:
  `RolesAreFilled` promises coverage only if all are known.
- `integration/apollo.go:38-40` says that rate limits back off; its callers turn the error
  into a warning and go on. OAuth stores Apollo's token as `access_token`
  (`handler/oauth.go:63`), while the client reads `api_key` (`apollo.go:29`).
- `middleware/audit.go:31` reads the status as early as the idempotency middleware does,
  though `docs/SECURITY_ARCHITECTURE.md:23` says that changes that succeed are recorded.
- `router/router.go:535-550` leaves `POST /webhooks/zapier/:token` out of
  `publicAPIRoutes`: the start-up check says of this public route that it will answer 403.
- `EnsureInboundWebhookToken` calls itself idempotent; when two
  calls, or a call and a `Connect`, overlap, the URL that was shown first is lost (the case
  `KeysKeepFaith` excepts). An agentic Zapier sync is labelled so when its apps came from
  the classic list.

## What the code does not guarantee

Met while modelling. These are behaviours of the models, and the properties are stated so
that they hold beside them; no doc claims otherwise except where said.

*IntegrationSync.* Two handlers can both pass `HasRunning` before either calls `Start`
(`integration_task.go:59`, `:67`); a failed `HasRunning` lets a sync through, and a sync whose
`Start` failed is seen by nobody. After a failed `Finish` (`:386`) the connection is not synced
until its row is stale, and a failed update (`:96`, `:110`, `:156`, `:506`) leaves the status it
had. A refreshed token that could not be stored is lost (`:184`). `Connect`, `Revoke` and
`RotateCredentials` save the whole row they have read (`service/integration.go:123`, `:172`,
`:230`) and undo what a sync wrote meanwhile. A sync in flight turns a revoked row `active` again, and a token
refresh stores a token in it (`:156`, `:184`). A sync with an old token marks a
reconnected connection `expired` (`:96`). A second process reaps a live sync that is
slower than ten minutes (`repository/sync_run.go:115`). A Connect whose enqueue fails
stays `syncing`: the comment at `service/integration.go:229` counts on the periodic
resync, which selects active rows only (`worker/scheduler.go:114`).

*RecordSync.* `INTEGRATIONS.md:248` has it that organization, type, id and system uniquely
identify a row of the ledger, but nothing in the code or the schema makes it so: two events
of a new record handled at once both find no row, and make two pages and two rows
(`push.go:169`, `:224`, `:252`). The version check of a page and its PATCH are two requests
(`integration/notion.go:103`); versions are compared as text cut to seconds, while Notion
rounds to minutes (`:108`). A delete that runs while the page is being created finds no
row, and the page stays (`push.go:175`). Two pushes can write out of order (`:224`). Our
own push looks like somebody's edit and may put a record in the conflict queue
(`pull.go:217`). A pull that saves after a delete inserts the record again (`:51`).
`recordFailure` leaves the conflict mark (`push.go:300`). A property cleared in Notion is
never pulled (`pull.go:229`). An event that Redis did not take is never sent again
(`service/company.go:46`). A crash between a page and its row leaves a page the ledger
does not know, and the retry creates another. A row is not updated after its page was
archived, or after a failure, if that statement fails (`push.go:189`, `:302`).

*Team.* Two owners who demote each other at once leave none. `UpdateMemberRole` deletes all
roles and looks at no result (`handler/team.go:239`): a failure before the INSERTs, an empty
list of roles, or names that the organization has no role for (`:241-246`) leave a member
without roles, and the answer is "roles updated". A lookup that fails counts as nothing found
(`service/auth.go:319`, `service/invitation.go:76`, `:79`, `:179`): a second account or a
second invitation can be made for an e-mail. An invitation revoked while it is being
accepted is both. Two acceptances or joins at once make two accounts with one e-mail. If
`MarkAccepted` fails, the token works again after the member was removed. An invitation
outlives its organization, and its inviter's ownership. Two transfers at once by one owner
make two owners.

*Discovery* (the ways into `excused`). An item edited within the minute of the watermark is not
found (`notion.go:276`); nor an older page that is shared later; nor what lies behind
`maxSearchPages` (`:244`) or behind a request that failed after others had succeeded
(`:374`); nor the rows of a database whose request failed. Reconnecting to another
workspace keeps the watermark of the old one (`service/integration.go:210`). `Connect` and
`RotateCredentials` can write an older watermark back, so that items are ingested again
(never skipped: `NothingSkipped` is checked and proved with them). A retried ingestion
writes its activities again (`integration_task.go:488`).

*Contacts.* No table has a unique index: two ingestions at once make two companies, or two
contacts of one address (`integration_task.go:454`). The deduplication key of a Zapier
event is taken before the event is queued (`webhook_zapier.go:75`): if queueing fails, the
retry is acknowledged and dropped. A row saved or created by somebody who had read its
company before a merge stays with the company that is gone. Two merges that cross can
delete both of a pair. Decision makers are found by company and title: two people with
one title become one row. A Save brings a deleted row back.

*Tasks.* A redelivered task advances an enrolment again, and two deliveries at once lose a
failure or undo a reset (`tasks.go:585`). A worker that dies between attempts leaves a
delivery pending. A task whose worker dies on its last attempt is archived without a dead
letter. The steps of a sequence that cannot be read are taken for none, which completes the
enrolment (`tasks.go:434`), and a look-up of the memory or of the graph that fails is taken
for "not found" and makes a second row (`tasks.go:722`). The handlers of `sequence:advance`,
`memory:index` and `company:enrich` are registered, but nothing in the repository queues such a
task: what the models say of them holds for a task somebody puts there. `TriggerEvent` and `NotificationService.Send` have no caller.

*Accounts.* Saves of the whole row lose each other's changes: a login that failed can undo
a new password or a lock. Two refreshes at once of one session, or two redemptions of
one token, both succeed. Two refresh tokens made within one second are equal
(`service/auth.go:1203`). A look-up in Redis that fails counts as "not there", both for a
revoked refresh token and for a stored answer.

*Gateway.* If Redis fails between INCR and EXPIRE, a counter never ends. A lock that expires
lets a second run in. A WebSocket that the hub has dropped stays open and gets nothing
more. The guard compares paths with their case and fiber does not: what differs is
refused, never let in.

*Connections.* `GetByProvider` and then `Create`, without a unique index: connecting twice
at once makes two rows. Saves of old rows undo a rotation or a reconnection (`mixed`).

*FieldMapping.* A field mapped to a type that cannot hold it is skipped in silence; a
property erased in Notion comes back with the next push. A date with an hour or an end is read
(`mapping/notion.go:206`) and written back as the day alone (`:132`), which erases them in
Notion; so is the third decimal of a number mapped to `deal_value` (`numeric(15,2)`). What a column
has no room for is refused when it is pulled, and overwritten by the next push.

*ZapierGateway.* A tool `gmail_find_email` is taken for an app "gmail_find". A tool that changes
something though its name says it reads is called. Only two of the five meta-tools named at
`integration/zapier.go:30` are left out of the apps (`:189`): when the list of an agentic server
fails or is empty, `enable_zapier` and `execute_zapier` are reported as apps.

## What is not modelled

- Inside the modelled parts: field translation (RecordSync keeps the one case that
  changes control, a cleared property); the ceiling of 1,000 rows of one database, the
  users request and the comments of a page (Discovery); more than one mapping of a record,
  which would be handled one after the other by the same code; Manager and Guest, which
  no check of Team asks about; passwords and tokens of requests, whose failure changes
  nothing.
- Also inside them: registration of other organizations, editing sequences, direct e-mails,
  the stage and position of a sponsor, the generic create and update of an integration,
  the contents of the audit trail; the password of an organization, whose counter is that
  of Accounts on another row.
- Other CRM records, analytics, goals, notifications and the like: one statement a request.
- AI agents and discovery agents: prompts, requests and parsing.
- TOTP, hashing and ciphers: pure functions over bytes. Configuration, logging, migrations: start-up
  code. The front end keeps nothing that outlives a page.

## The plan

Done, in the order of importance: IntegrationSync, RecordSync, Team, Discovery, each with
its proofs; Contacts; Tasks; SyncRunLog with the refinement and its proof; Accounts,
Gateway, Access with Routes; Connections, FieldMapping, Enrichment, ZapierGateway;
MCRequests, which checks the parts that share nothing in one run.

Proved since: `NoCallWithoutToken` and `ReapOnlyOrphans`; Team for requests that do not
overlap; Tasks; Contacts; Gateway; Accounts; Connections; RecordSync for one handler,
and that a record has one row and page for any number;
Enrichment, ZapierGateway, FieldMapping; the types of all parts of MCRequests.

Open: RecordSync with overlapping handlers, for which `SettledAgrees` would need exceptions
that are not stated yet (`OneRowOnePage` has them); and the two tables of Access on paths beyond those that the routes have.
