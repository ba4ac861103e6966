# OUTRENA in TLA+

A verification project for OUTRENA: a multi-tenant FastAPI service
(`src/outrena-backend`) that finds prospects, writes cadences of emails with an
LLM and sends them through MailBridge, and the React pages in front of it
(`src/outrena-frontend`). Every tenant has a PostgreSQL schema of its own; the
public schema holds the registry of tenants. The models are translations of the
sources; the line ranges are in `PROJECT.json` under `map`.

Many source files begin with one or several commented-out older versions of
themselves. Only the last, live version is modelled, and line numbers refer to it.

## 1. The system

| Component | State it keeps | Operations | What is hard |
|---|---|---|---|
| Outreach sending (`features/scheduler`, `features/sequences`, `features/mailbridge`) | `Sequence.status`, `sentAt`, `SchedulerStatus` | scheduler tick (one APScheduler job per API process), manual tick, send-email, schedule, edit, delete, tracking webhooks | several processes read the same rows without locks; statuses are held in a session and reach the database in somebody else's commit; crashes, lost answers, stale identity maps |
| Prospect records and GDPR (`features/prospects`, `features/gdpr`, `features/public/unsubscribe_router.py`, `services/pii_service.py`) | `Prospect` (email, names encrypted at rest, `suppressed`, `consent_status`, `anonymized`), `consents`, `data_subject_requests` | create, edit, soft delete, enrich, consent withdrawal, erasure, rectification, objection, restriction, unsubscribe | decrypted values live in persistent ORM objects and are flushed; raw SQL matches by plaintext email; an edit loaded before an erasure commits after it |
| Per-user email quota (`features/mailbridge/user_email_quota_service.py`) | `user_email_quotas` (one row per user and day), sender identities | pre-send check, record send / bounce / complaint, daily and 24 h reset, throttle | check-then-act and read-modify-write without locks, two resets, duplicate webhooks, insert race on the unique key |
| Campaigns (`features/campaigns`) | `Campaign`, links, `Sequence` rows it generates | link prospect, preflight, activate, pause, generate sequences | check-then-insert, long generation in one request |
| Autopilot pipeline (`features/autopilot`, `AutopilotPage.tsx`) | `_RESULTS`, `_RUNNING` and `_PROGRESS` of one process, the rows a run inserts, the page's task id, result and review gate | start, poll, the four steps, review, approve, reset | one background coroutine of the API process; one step of several fails, a 20 minute limit, a restart or another replica has forgotten the run |
| Autopilot queue and flows (`features/autopilot_queue`, `features/flows`) | queue items, `FlowRun` | enqueue, trigger, cancel, run flow | no worker: trigger goes from QUEUED to COMPLETED in one transaction |
| Tenants (`services/tenant_provisioning_service.py`, `api/routes/platform.py`, `alembic/env.py`) | tenant registry, schemas, Keycloak users | provision, roll back, suspend, reactivate, migrate all tenants; signup requests | a saga over PostgreSQL, Alembic and Keycloak with compensation; deploys that migrate the rows they listed while sagas make and drop them |
| Billing (`features/billing`) | `subscriptions`, seats, Stripe ids | subscribe, cancel, Stripe webhooks, seats | its rows can never be stored (section 9) |
| Usage caps (`features/usage`) | `usage_events`, cost summaries | record, cap gate | check-then-act on a cap |
| Tenant session (`api/deps.py`, `middleware`, `core/database.py`) | `search_path` of a pooled connection | set per request | the path is lost after a commit takes another connection |
| Domain warm-up (in `features/scheduler`) | `Domain.warmingWeek`, `dailySendLimit` | nightly advance, effective cap | boundary of the ramp |
| LLM, sourcing, enrichment, CSV import, analytics, templates, notifications, dashboards | rows of their own | CRUD and calls of third parties | little state; not planned |
| Frontend (`src/outrena-frontend`) | the query cache, the autopilot page, sign-in | lists that change before the server agrees, polling, a 401 | overlapping optimistic changes, snapshots, refetches, lost answers; most pages only read a list, send one request and read the list again |
| Terraform, Helm, monitoring | - | - | no state machine in this code |

Interactions: the scheduler, the manual tick and send-email share the `Sequence`
and `Prospect` tables with the users' CRUD requests, the webhooks and the GDPR
service, and every one of them goes through the quota service with the *same*
SQLAlchemy session, whose options are `expire_on_commit=False, autoflush=False`
(`core/database.py:157`). API processes share nothing but the database; what one of
them keeps in memory (the registry of autopilot runs, the connections of its pool) the
others do not know. The Celery workers run maintenance jobs; the autopilot task that
`worker/celery_app.py:505-617` defines is never enqueued.

What has to be true, component by component:

* *Sending*: a scheduling leads to one email per process; `Sent` means delivered; a
  suppressed prospect gets nothing; nothing waits for ever.
* *Prospects*: an erasure stays an erasure and a suppression a suppression, whatever
  request was under way; personal data is sealed in the table.
* *Quota*: counters never run ahead of what happened; the cap binds; every denial has
  a reason and an end.
* *Consents, data subject requests*: one active consent per purpose; a request ends once.
* *Autopilot*: a run leaves all of its rows or none; what the page says of it is so;
  a page that polls comes to an end.
* *Tenants*: a provisioning that returned keeps what it made; a failed one drops its
  schema; deploys take nothing away; every request ends, also when Alembic hangs.
* *Tenant session*: every statement of a request works in the schema of its tenant.
* *Pages*: a page at rest shows what is in the database.

## 2. Plan

The most important behaviour first: what leaves the house, then what must not come
back, then what limits it, then how the rest of the system feeds these.

| # | Module(s) | Subject | State |
|---|---|---|---|
| 1 | `OutreachSend`, `OutreachSendInvariant`, `OutreachSendProofs`, `SendLedger` | sending, and the abstract promise it implements | modelled, 4 runs, refinement, proved |
| 2 | `ProspectPii`, `ProspectPiiProofs` | personal data and its erasure | modelled, 3 runs, proved |
| 3 | `UserEmailQuota`, `UserEmailQuotaProofs` | the quota of a user | modelled, 1 run, proved |
| 4 | `AutopilotRun`, `AutopilotRunProofs`, `RunLedger` | a run in the background, its registry, the page that follows it, and the abstract promise of runs | modelled, 1 run, refinement, proved |
| 5 | `TenantProvisioning`, `TenantProvisioningProofs`, `TenantLife` | the provisioning saga, its rollback and the deploys, and the abstract life of a subdomain | modelled, 1 run, refinement, proved |
| 6 | `TenantSession`, `TenantSessionProofs` | in which schema a statement runs | modelled, 1 run, proved |
| 7 | `OptimisticBoard`, `OptimisticBoardProofs` | pages that change before the server agrees | modelled, 1 run, proved |
| - | billing and seats, tenant signup | - | dropped: no row of either can be stored (section 9) |
| - | consents and data subject requests | one active consent per purpose, the end of a request | left: what they do to prospects is in `ProspectPii`; the rest is one check-then-insert |

Composition. `OutreachSend` leaves the quota's verdict open (`QuotaAllows` and
`QuotaDenies` are both enabled) and `UserEmailQuota` leaves the callers open; the two
meet in `check_can_send` and `record_send`, of which the first module models the
commits and the second the values. A run of `AutopilotRun` inserts its `Sequence` and
`Prospect` rows in one commit; `OutreachSend` and `ProspectPii` take them in by `Create`
and `Source`. Every module but `TenantSession` takes it that the statements of a session
reach the schema of its tenant; `TenantSession` says when that is so and when it is not.
`OptimisticBoard` leaves the server's verdict on a change open, which the backend's
services give.

Bounds. Each module has one run that goes through all of its actions, with the two or
three actors that can interfere and enough events of every kind for the hazards to
show; further runs ask a different question (liveness, a claim of the
documentation) or put other actors together. Theorems: the type invariant and every
safety property of the runs, and the three refinements, for all values of the constants. Modules
are written for both: bounds are constants, invariants are conjunctions of named parts, and there
is no RECURSIVE operator.

## 3. OutreachSend: who mails what, and what is remembered of it

One tenant's `Sequence` rows. `status`, `suppressed` and `isRunning` are the
committed tables. Every session `w` is a process: a `Tick` (the APScheduler job of
one API process: `main.py:130` starts one in every API process, and the Helm chart
runs two or more, `k8s/outrena/values.yaml:42`), a `Manual` tick, or a `Request`
(`send_email`). A session owns `pc`, the rows it fetched (`todo`), the row in hand
(`cur`), the prospect object of its identity map (`loaded`) and the statuses it
has set and not committed (`pending`). The rest is history: `delivered` (what
MailBridge took), `scheds` (how often a row was put into Scheduled), `lostBy`
(deliveries the session will never record) and `suppressedSince`.

| In the code | In the model |
|---|---|
| query, `for seq in sequences` | `TickStart`, `ManualStart`, `Take`, `TickSkip`, `TickTake`, ... |
| `check_can_send` (may commit, and then flushes the caller's rows) | `QuotaCommits`, `QuotaAllows`, `QuotaDenies` |
| the gates and the POST to MailBridge | `Refused`, `ResponseLost`, `AcceptedSystem`, `AcceptedUser` |
| `record_send` and its commit | `RecordSend` |
| last commit and `finally` | `Finish`, `RequestCommit` |
| process killed, failed flush, StaleDataError | `Fail`, `StaleRow` |
| CRUD, webhooks, GDPR | `Create` ... `Unsuppress` |

The order of two steps is the code's: run_tick writes `Sent` before `record_send`,
MailBridgeService.send calls `record_send` before its caller writes `Sent`, and this
difference is what `UserExposure` is about. A commit writes only what the session
changed (`Flushed`), an UPDATE of a single deleted row fails and poisons the session
(`CanFlush`, `StaleRow`). Rows carry no content; the time of day, the PARTIAL hash,
the DNS gate, the warm-up and the quota are nondeterministic choices, because every
combination of their outcomes can occur. `ORDER BY createdAt` and both LIMITs are
modelled, ties included (the rows of one transaction have equal `createdAt`).

Abstractions that add behaviour and remove none: the rows an autopilot run inserts
in one transaction appear one by one; a request may be repeated by anybody.
Left out: a prospect without email address is one more reason for `TickSkip`.

### Runs

| Run | Instance | Shows |
|---|---|---|
| `outreach_ticks` | 1 scheduled tick and 1 manual tick, a user's row and a row of `system` of one prospect, one mishap | two sessions over the same rows: one delivery per session and scheduling, `Sent` only after a delivery, no mail of a tick past a suppression; and what they mail is a behaviour of `SendLedger` |
| `outreach_request` | 1 request session, 2 sends of a row, 2 mishaps, all events | send-email against users and webhooks |
| `outreach_live` | 1 tick, 2 users' rows, 2 schedulings, one mishap, `FairSpec` | every early touch is picked up; and one process in depth, with what a mishap costs a user's row (`UserExposure`) |
| `outreach_backlog` | violation | suppressed old rows starve younger ones: LIMIT 500 of the oldest rows counts rows that the loop then skips |

Bounds. Two rows are enough for one to be held while the other is taken, flushed
or deleted, which is all a session can tell apart; they share a prospect so that the
identity map matters. `MaxSched`, `MaxMishap`, `MaxAsk` bound the history counters,
`BatchLimit` stands for 500, `ManualLimit` for 50. A second scheduled tick has the
actions of the first and no others, so that a tick and a manual tick are the pair in
which both kinds of session meet every kind of row.

Refinement. `SendLedger` is what the scheduler promises, without rows, batches, sessions
and commits: an email is due as often as it was scheduled, a mailer sends it no more
often than it is due and than it has lost the record of it, and only the record of a
delivery can be lost. `OutreachSend` implements it (`KeepsLedger`): `due` is `scheds`,
`sent` is what ticks and manual ticks have `delivered`, `lost` is `lostBy`, and every step
that is none of `Schedule`, `Mail`, `MailUnanswered` and `Forget` is a stutter. Requests of
send-email are no mailers of the ledger: a user may send by hand as often as he asks.

Fairness (`FairSpec`, only in the runs `outreach_live` and `outreach_backlog`). Weak fairness of `Proceed`: the
interval job starts ticks for ever and every await of a tick has a timeout. Strong
fairness of `GatesReopen`: business hours return every working day, the PARTIAL hash
depends on the tick, the quota is new every day, MailBridge recovers. Nothing is
assumed of users, of webhooks or of failures. What the code does not guarantee is
not assumed: a domain whose DNS check keeps failing, or a prospect without address,
holds its rows for ever, and the property speaks of rows whose gates do reopen.

### Theorems (`OutreachSendProofs`)

For any finite or infinite sets of rows, prospects and sessions, and any bounds,
under `SenderAssumption` and `RowAssumption`:

* `TypeCorrect`: `Spec => []TypeOK`.
* `OncePerSchedulingHolds`: by the inductive invariant `SendInv`. The property
  alone is not inductive: it does not exclude that a session holds a row it has
  already mailed. `Budget` counts a delivery that may still come (`Open`) in
  advance, and needs `SessionInv`: the row in hand has left the batch, nothing is
  held for it before MailBridge took it, ticks and manual ticks hold nothing but
  `Sent`, a tick holds it before it calls `record_send`.
* `UserExposureHolds`: from the same invariant (`UserHeld`).
* `SentWasDeliveredHolds`: inductive together with `TypeOK`; the lemma
  `ReportedWork` follows a delivery from MailBridge to the commit or the loss.
* `TickHonoursSuppressionHolds`: an action property, by `KnowsSuppressed`: a
  prospect suppressed since the tick began is suppressed in the table and in the
  object the tick may have kept, and is not the prospect of a row past the gate.

* `LedgerKept`: the refinement, for every value of the constants. Initial states map to
  initial states, and each action maps to its abstract step or to a stutter; the licence
  of a `Mail` is `Budget`, and `SessionInv` gives that only deliveries are forgotten.

`WorkFrame` (a session leaves the others alone) and `EnvironmentFrame` reduce every
step to the session that makes it. `EligiblePickedUp` is liveness and is only
model-checked; the proofs say nothing about fairness.

## 4. ProspectPii: personal data that comes back

The `Prospect` rows of a tenant. `row` is the committed table. A request of
`ProspectService`, `ProspectAiService` or the prospects router is a session `s` with
`pc`, `op` and `hand`, the ORM object it loaded, of which `dirty` names the columns
that differ from what the SELECT returned. The engine has `expire_on_commit=False`,
so the object is not read again unless the code says `refresh`. GDPR, retention and
the unsubscribe link run raw SQL in transactions of their own; an erasure is two
statements and `doomed` holds what the first one found.

| In the code | In the model |
|---|---|
| `get` and `_decrypt_prospect_pii` | `Visible`, `Got`, `Decrypt`: the clear text is assigned to the persistent object and makes its columns dirty |
| `create`, `update`, `enrich`, `ultimate_profile`, `delete`, consent/withdraw | `Create` ... `Withdraw` begin a request, `Commit`, `Refresh`, `Score` are its later transactions, `Close` ends it without one |
| `process_erasure_request` | `EraseNobody`, or `EraseSelect` and `EraseUpdate` |
| rectification, objection, restriction, gdpr/consent/withdraw | `Rectify`, `Suppress` |
| retention of inactive prospects | `Retain` |
| `_step_prospect_sourcing` of autopilot | `Source`: clear text |
| `import_csv`, `_process_unsubscribe` | `Import`, `Unsubscribe`: nothing is committed (section 9) |

Abstractions. `firstName` and `lastName` are one field, for the code treats them alike.
`deleted_at` and `anonymized` are one flag, because every writer sets both. Emails are
never NULL (a row without one is found by nobody and has nothing to erase). A Fernet
token is the text with a mark; that encrypting again gives a new token is kept, since
it makes the column dirty. Scores, enrichment columns and consent rows are left out.

| Run | Instance | Shows |
|---|---|---|
| `pii_sealed` | 1 row, 2 addresses, 2 requests, 1 erasure, with a key | whose commit can bring erased data back, and that no stale commit takes back a flag |
| `pii_restored` | violation | an `update` under way brings personal data back into an anonymised row |
| `pii_erase` | violation | an erasure by email does not find a row whose email is encrypted, and completes |

Bounds. The properties speak of one row and its sessions; rows interact only through
the address by which raw SQL finds them, so that one row and two addresses contain
the case of a row that changes its address between two statements. Two requests and
one erasure are the three writers whose order matters.

Theorems, for any sets of rows, addresses, sessions and officers, with or without a
key, under `TextAssumption`: `PiiTypeCorrect`, `RestoredHolds`, `FlagsSurviveHolds`.
The argument is `PiiInv` (in `ProspectPii`): `HandInv` says what an object may
write - one that was loaded erased, or that `delete` erased, carries nothing but
"[anonymized]" in its dirty columns, and a flag is only ever dirty in the direction
of its operation - and `RowInv` that what is anonymised, or about to be, exists. Without
`HandInv` the properties are not inductive: they would have to hold of arbitrary objects.

## 5. UserEmailQuota: counting without locks

The row of `user_email_quotas` of one user and the current UTC day: `exists`, `quota`.
A session is in one call (`op`), at one of its awaits (`pc`), with the object its
SELECT returned (`hand`), the `now` of `reset_daily_if_needed`, and `today`, whether
that object is still the row of the day. `Midnight` starts a new day with no row;
calls that are under way keep writing to the old one. A commit writes the columns that
differ from what was loaded, with the value of the object (`Saved`): this is where
increments are lost.

| In the code | In the model |
|---|---|
| SELECT of `get_or_create_quota` | `Call`, `RecordSend`, `Midnight` (its date filter) |
| its INSERT, UNIQUE(user_id, date) | `Create`, `Conflict` |
| `reset_daily_if_needed` | `ClearThrottle` |
| `check_can_send` | `CheckThrottled`, `CheckQuota`, `CheckTrips`, `CheckOk` |
| POST to MailBridge and its outcome | `Accept`, `Refuse`, `Fail` |
| `record_send` | `FinishSend` |
| `record_bounce`, `record_complaint` | `RecordEvent`, then `Judge` or `Acquit` |
| `get_user_quota_status`, `check_spam_threshold` | `Status` (only the reset writes) |

The objects of different calls are different even in one session: the identity map holds
them weakly and no caller keeps one. Rates are compared by multiplication. The quota of
the sender identity is a constant. The reset of a 24 hour old window is left out
because `window_start` is always a time of the row's own day.

History: `accepted` (emails MailBridge took today), `lost` (those of them the row will not
keep: the record was not made, or a stale object wrote over what others had counted),
`disturbed`.

Run `quota_day`: two sessions, a day of two hours, a quota of 2, thresholds of one
email, a bounce throttle of one hour and a spam throttle of two, at most four emails, one
bounce and one complaint a day. Two sessions are what a lost update and a lost insert
need; a day of two hours has throttles that end within the day and throttles that reach
past it; four emails are two more than the quota: one for the other session and one for a
lost record, so that the bound of `OvershootBounded` is reached and not only kept. The
thresholds are lower than the code's 20 and 1000 so that they can be crossed. `FairSpec`:
time passes, and a call that was under way at midnight ends, for its awaits all have
timeouts. Nothing more is assumed: not that other calls end, nor that anybody calls.

* `NeverOvercounts`: stale writes lose increments, never invent one; `DeniedOnlyWhenSpent`:
  so nobody is denied for emails that were not sent. The inductive invariant is
  `CountsInv`: what an object of today's row holds was counted once, and counts only grow.
* `ThrottleHasEnd`: flag and end agree, by `ThrottleInv`, which says the same of every
  object: a commit writes both columns or neither.
* `CapHoldsAlone`: emails sent one after the other never exceed the quota of a day, wherever
  midnight falls between check, sending and recording. `AloneInv` relates `accepted` to
  the row and the email that is not yet recorded (`Recorded`, `Current`, `NewDay`).
* `OvershootBounded`: with overlapping sessions the cap is exceeded, because the check reserves
  nothing; but n sessions exceed it by at most n - 1 emails and by the records that were lost.
  `OvershootInv` is the invariant: what was accepted is in the row, or lost, or still owed by
  a session (`Kept`), and the emails accepted together with those that have passed the check
  stay within the quota, the lost records and n - 1 (`Bounded`). The property is not inductive
  without them, for it says nothing of emails that have passed the check.
* `QuotaReturns`: a user is not blocked for ever. Liveness, model-checked only.

Theorems, for any quota, thresholds and length of the day: `QuotaTypeCorrect`,
`NeverOvercountsHolds`, `DeniedOnlyWhenSpentHolds`, `ThrottleHasEndHolds`,
`CapHoldsAloneHolds`, and `OvershootBoundedHolds`, which counts sessions and so assumes that
they are finitely many (`SessionsAssumption`).

## 6. AutopilotRun: a run, its process and its page

`POST /autopilot` puts a run into `_RUNNING` of the process that took it, starts a
coroutine and answers with a task id; the page polls `GET /autopilot/{id}` every three
seconds until it sees a terminal status. A run `t` has a `stage`, what it has flushed
(`work`), what is committed (`rows`), its `outcome`, and in its process `home` the entries
`running`, `results` and `progress`. A page has its answer to come (`post`), `taskId`, the
last `screen`, and the review gate (`pause`, `gate`, `shown`, `selected`, `fetches`).

| In the code | In the model |
|---|---|
| the steps of `orchestrate_pipeline`, which only flush | `StepDone`, `TouchDone`, `StepFails` |
| `wait_for(..., 1200)` of `_run_background` | `GiveUp` |
| the one commit of the router, and `_RESULTS` after it | `Commit`, `CommitRaises`, `Settle` |
| the routes | `Enqueue`, `Answer` |
| the page: submit, poll, review, approve, reset | `Submit`, `Refuse`, `PostAnswered`, `PostLost`, `Poll`, `Reconnect` (section 9), `ReviewAnswered`, `ReviewFailed`, `Toggle`, `Approve`, `Reset` |
| a process ends and its dictionaries with it | `Restart` |

Abstractions. What the LLM answers is left out; a step succeeds or raises. The rows of a
step are one element, the table they are in. `unsure` remembers the runs whose commit was
made and answered with an error.

Run `autopilot_run`: one page, two runs (a second one is what a reset and a late answer
need), two processes of which one takes the POSTs and the other stands for every replica
that never heard of the run, one restart, one review fetch at a time.

* `AllOrNothing`, `FailureLeavesNothing`: whichever step fails, times out or is killed, the
  tables have nothing of the run, or all of it.
* `SuccessIsSaved`: a page never says Completed with the result SUCCESS of a run that is
  not in the database, whatever has crashed since. (PARTIAL is another matter: section 9.)
* `KnownAtHome`: a run is in `_RUNNING` until it is in `_RESULTS`, at every await between.
* `KeepsRuns`: the refinement of `RunLedger`, which has no processes, dictionaries, polls and
  commits. A run is new, running, and then kept as a whole or gone, and that is decided
  once (`LifeOf`); in the one case of a commit that was made and answered with an error it is
  kept and nobody knows (doubtful). A page follows a run of its own, and whatever it is told
  of the end of that run (`VerdictOf`), by any process and as often as it asks, is so.
  PARTIAL counts as a failure there, for it leaves nothing.
* `PollingEnds`: under `FairSpec`, a page ends in a terminal status or stops following the
  run, unless its process was restarted: afterwards every answer is PENDING, for ever.

Fairness: a coroutine goes on until it ends, for the time limit bounds every await of it;
the page's interval polls again and again and the balancer may pick any process; a fetch
is answered or fails. Users, restarts and lost answers are not assumed to happen or not to.

Theorems, for any sets of pages, processes and runs: `RunTypeCorrect`, `RunsAreAtomic`,
`FailuresAreClean`, `SuccessesAreSaved`, `HomeKnowsTask`. `ReviewIsLate` proves the contrary
of what the page promises (section 9): the review gate reads in a session of its own, and
sees no prospect of a run whose emails are not committed too; no run checks it, for it
follows from `AllOrNothing` and the isolation of the database. The inductive
invariant is `RunInv`: per task, where it is decides what it holds and what is in the
tables (`TaskInv`: fresh, working, holding an outcome, told), and what a page shows,
however old, is what its task's process has said. The safety properties are not inductive
alone, because they say nothing of what a coroutine will commit. `RunsKept` is the
refinement: `LedgerInv` adds that a run in doubt has ended and has no result but FAILURE
(`DoubtInv`), and that an id in use belongs to a started run and to one page, as an answer
to come or as the run it follows (`FreshIds`). The run has one page, so
that "of its own" is shown by the theorem only. `PollingEnds` is model-checked only.

## 7. TenantProvisioning and TenantSession

### TenantProvisioning

`provision_tenant` is one request that inserts the row of the registry, creates the
schema, runs Alembic, seeds, creates the administrator in Keycloak and activates the row,
each in a transaction or a call of its own, and that compensates when a step raises.
`alembic/env.py` has a second writer of the same schemas: without `ALEMBIC_TARGET_SCHEMA`
(its Mode B, which runs before the API at every start of `docker-compose.yml:895` and is
what the deployment guide has operators run) it reads the ACTIVE and PROVISIONING rows
that are not deleted and then, one commit for each, creates the schema if it is not there
and migrates it. State: `row` and `deleted` (the registry), `schema` (how far the schema is;
"deployed" when a deploy made it from nothing), `admins` (Keycloak), `at` and `for` (where a
request is and for which slug), `listed` (what a deploy has read and not reached), `finished`
(history) and `crashes`.

| In the code | In the model |
|---|---|
| `is_slug_available`, INSERT | `Ask`, `Insert` |
| the steps | `CreateSchema`, `Migrate`, `Hang`, `TimeOut`, `Seed`, `CreateAdmin`, `Activate` |
| a step raises, `_rollback_provisioning` | `Fails`, `Rollback`, `RollbackBreaks` |
| the process is killed | `Crash` |
| the platform administrator | `Suspend`, `Reactivate` |
| `_list_active_tenant_schemas`, `do_run_migrations`, the end of its loop | `List`, `Upgrade`, `StopDeploy` |

A commit that is made and answered with an error is part of `Insert` (outside the try block:
the request ends "unsure" and its row stays), `Activate` and `RollbackBreaks`; for the other
steps it is the step and then `Fails`. A crash between two steps is `Crash` in the later one.
The order of a deploy's schemas, by name in the code, is left open.

Run `tenant_saga`: three requests for one slug, two crashes and two deploys: one request that
fails, one that runs into what it left, one that wins; slugs share nothing but a deploy's
list, which treats each of them alone, so that one is enough.
Deadlock is not checked, for each request is one call and all may be over.

* `FinishedKeepsSchema`: only the request that inserted the row may compensate, and no
  deploy harms what it made.
* `DeletedLeavesNoSchema`: a rollback has dropped the schema before it retires the row,
  whenever the process dies. A deploy may have made a new one since; that it does is in
  section 9.
* `AbandonedOnlyByMishap`: an unfinished row that nobody works on was left by a crash, a
  failed rollback or the lost answer to the commit of the INSERT, never by a failed step.
* `KeepsLife`: saga and deploys implement `TenantLife`, the life of a subdomain without
  requests and rollbacks. It is claimed once, and built and torn down while one request works
  on it (`WorkedOn`); then it serves, is removed or is abandoned, and in none of these does
  anybody claim it again, tear it down or give it an administrator. Deploys make or complete
  its schema in every stage, but only where they have listed it (`due`), and they list no
  removed one. `LifeStage`, `LifeBuilt` and `LifeDue` are the mapping; what a suspension
  writes is no part of it.
* `SagaEnds`: every call ends.

Fairness (`FairSpec`): the calls a request awaits are answered or fail. For Keycloak httpx has
a timeout of 10 s, and Alembic may hang: `TimeOut` after 120 s is what the property rests on. For
PostgreSQL it is an assumption, because no `statement_timeout` or `lock_timeout` is set: a
deploy that hangs, or the backend of the killed Alembic until it notices, may hold locks
that DROP SCHEMA waits for, and is taken to let go of them. Deploys need not go on or begin.

Theorems, for any sets of slugs, requests and deploys and any number of crashes:
`TenantTypeCorrect`, `FinishedIsKept`, `DeletedIsGone`, `AbandonedByMishap`, by `SagaInv`: a
slug has at most one request between its INSERT and its end, how far that one is
bounds how far the schema and the administrator can be, and a deploy lists inserted rows
only; since `Upgrade` neither drops a schema nor empties it, deploys keep all of this.
`LifeKept` is the refinement, from the same invariant: a request that works on a slug is the
only one and has not finished it, so that its steps are steps of that subdomain and leave
the others where they are (`LifeRequest`), and the steps of a deploy are those of the abstract
one (`LifeDeploy`). The run has one slug, and several are covered by the theorem. `SagaEnds`
is model-checked only.

### TenantSession

`get_db` opens a session, sets `search_path` by its first statement and hands the session
to the endpoint. A session `s` has its `home` and, in a transaction, a connection `conn`; the
pool of the process is the queue `idle`; a connection has the `path` its transaction sees
and the one a rollback leaves (`saved`). `Open` and `SetAgain` set the path, `Commit` gives
the connection back and keeps its path, `RollBack` gives it back without what was set,
`Resume` takes the connection that has waited longest, `Close` ends the session. The queue of
SQLAlchemy's pool and the settings of PostgreSQL are external, from how `core/database.py`
configures them; there is no pool event listener that sets the path again.

Run `tenant_path` (violation): two sessions of two tenants on two connections. A session
that goes on after a commit (`commit(); db.get(...)` is common, and `run_tick`,
`scheduler/service.py:5616-5631`, commits `isRunning` before its SELECT) may work in the
schema of another tenant. Overlapping sessions are normal: usage events, permission checks
and the LLM configuration open a second one within a request.
`tests/integration/test_isolation.py:151-171` runs two sessions and no commit.

Theorems, for any sets of sessions, connections and schemas: `FirstTransactionHolds` (the
transaction that set the path is at home, whatever else happens) and `AloneHolds` (a process
that serves one session at a time stays at home through all of its commits), by `PoolInv`:
a connection is held by at most one session or waits once in the queue, and without
overlap every connection that can be taken has the path of the only session. Both assume
`Names` (the two "none" values are no path and no connection, the public schema is a path
and the pool keeps at least one connection), stated with the theorems.
They cover what the run refutes for the general case, and have been checked by TLC on the
3877 states of its instance.

## 8. OptimisticBoard: pages that change before the server agrees

The kanban of deals, the content ideas and the switches of the optimization rules show a
change in the query cache before the server has made it. One cache entry: `server` (the
table), `cache`, `stale` (isInvalidated), `mounted`, `fetch` (a GET under way and what it
has read) and the requests `call`. History: `tangled`, the rows that one of the named ways
can leave wrong, and `last`, how the last request ended.

| In the code | In the model |
|---|---|
| `useQuery`, leaving and returning | `Visit`, `Leave`, `Read`, `Arrive`, `FetchFails`, `Reload` |
| `onMutate`: cancelQueries, snapshot, setQueryData | `Mutate` |
| a dialog's save or delete, without onMutate | `Submit` |
| the server makes the change | `Commit` |
| `onSuccess`: invalidateQueries, or (toggle) nothing | `Succeed` |
| `onError`: the snapshot is put back | `Fail`, for a refusal or a lost answer |
| another user | `ForeignWrite` |

TanStack Query is external, modelled from its version 5: invalidating an entry that has data and is
mounted cancels a fetch under way and starts another; without data, or unmounted, it joins
or only marks; setQueryData clears the mark. Rows are plain values, "deleted" among them,
and the server may refuse anything, which adds behaviour and removes none. The collection of
unused entries after five minutes and the 404 of a deletion are left out.

Run `board_page`: two rows, two values, two requests at once, any number of requests, foreign
writes and reloads after one another. Two of each is what a snapshot that covers another
row, and a snapshot that covers another change of the same row, need. Rows, values and
requests are symmetric: no definition names one, and no property is temporal.

* `ShowsServer`: a page at rest shows the table, but for the rows that were tangled by an
  overtaken snapshot, a lost answer, or a commit after the list was read. In particular no
  order of answers, refetches, drags and reloads alone makes it wrong.
* `SuccessCleans`: the next success that has the list read again repairs all of it.

Theorems `BoardTypeCorrect`, `ShowsServerHolds`, `SuccessCleansHolds`, for any sets of rows,
values and requests under `BoardAssumption`, by `BoardInv`. `ShowsServer` alone is not
inductive: a page is not always at rest. `ScreenInv` says of every row on the screen that it
is the server's or a change ahead of it, `SnapshotInv` the same of the snapshots that may be
put back, `FetchInv` that what a GET has read is still so, and `CleanInv` that a success has
a fetch behind it or has cleaned up.

## 9. What the code does that its texts do not say

The runs with expect "violation" are listed under `findings` in `PROJECT.json`; the
points below were met while translating; where an action shows one, it is named.

Sending, prospects and quota:

* `run_tick` selects touches 1 to 6, `generate` creates seven: a scheduled touch 7
  is never picked up (`Due`).
* `manual_tick` does not look at `suppressed` (`ManualTake`).
* `schedule_send` schedules a row whatever its status, a Sent one too (`ScheduleSend`).
* A read decrypts in place, and the next commit of its session writes the clear text to
  the table (`Decrypt`, `Flushed`).
* Consent withdrawal compares the clear-text email with the stored token and suppresses
  nobody (`Withdraw` in `Commit`).
* A rectification of the email binds one parameter for both the new and the old email
  and leaves it as it was (`Rectify`).
* The unsubscribe link binds text to timestamp columns and inserts into a table that
  does not exist: its transaction fails (`Unsubscribe`).
* A CSV import reports rows that its session never commits (`Import`).
* A spam throttle of 24 hours ends at midnight, for the check reads only the row of the
  day (`Midnight`); with the default quota of 100 the 1000 emails it needs are never reached.
* A bounce throttle is set again after its hour without a new bounce (`CheckTrips`).
* `runbooks/11-mailbridge-integration.md:50-51` speaks of deduplicated webhooks;
  `apply_tracking_event` counts every delivery.

Autopilot:

* A run whose email step failed is PARTIAL and is rolled back completely; the router answers
  SUCCESS, and the page shows "Completed" and a campaign id that does not exist
  (`StepFails`, `Answer`).
* `AutopilotPage.tsx:2620` says "the pipeline will pause after finding prospects so you can
  review them before emails are generated", 2944-2945 "Select the ones you want to include
  before emails are generated", 3005 "Pipeline will continue with the selected prospects" and
  the comment at 2443 "prospects are already imported at this stage". None of it is so: the
  pipeline never pauses, prospects and emails are committed together at its end, so that
  the gate shows the prospects of earlier runs while a run goes on, and its own only with
  their emails written (`ReviewIsLate`). The selection is sent nowhere, and approving lets
  the next poll open the gate again (`Approve`). "Cancel Run" and Reset do not stop the run,
  and a fetch under way may open the gate after them.
* After a restart, or on another replica, a known run is PENDING and the page polls for ever.
* Polling stops at a terminal status, but the query is read again when a browser comes back
  online: `App.tsx:34-42` turns `refetchOnWindowFocus` off and leaves `refetchOnReconnect` on.
  After a restart or on another replica a page that showed Completed is Pending again
  (`Reconnect`).
* A lost answer to POST starts a run that the page does not follow; the user starts a second.
* The docstring of `celery_app.py:509-514` describes a task that nothing enqueues.

Tenants:

* `models/tenant.py:28-29` speaks of a 404 until step 6; the middleware answers 403, and
  `reactivate` writes ACTIVE whatever the status was, in the middle of a provisioning too.
  A suspension during a provisioning is overwritten by its step 6.
* The rollback leaves the Keycloak user, although its docstring says "fully tears down"; a
  retry with the same address gets a 502, and the slug of a failed tenant stays taken.
  An activation whose commit is answered with an error is rolled back although it was made.
* An INSERT whose commit is answered with an error (`Insert`, step 1 is before the try block)
  leaves a PROVISIONING row: the slug is taken, nobody works on it, nothing cleans it up.
* A deploy that has listed a PROVISIONING row creates its schema again after the rollback has
  dropped it (`List`, `Rollback`, `Upgrade`): the soft-deleted tenant has a migrated schema that
  nothing looks for, although the rollback is described as "drop the schema, soft-delete the
  record" (`tenant_provisioning_service.py:377`) and as leaving "no orphans"
  (`PHASE2-VERIFICATION.md:87-88`). Every deploy also migrates the schemas of abandoned rows,
  and creates those that a crash or a failed rollback had dropped, but no SUSPENDED
  tenant's, whose schema falls behind until it is reactivated and deployed again.
* `alembic/env.py:13` says "Iterate all ACTIVE tenant schemas"; its query takes PROVISIONING
  ones too (149), for which Mode A is said to be needed (5-9).
* `runbooks/01-tenant-provisioning.md:105-115`, `02-schema-migration.md:28-37` and
  `scripts/db-migrate-all-tenants.sh` scope Alembic by `TARGET_SCHEMA`, and 02:35 says that no
  command migrates all tenants. `env.py` reads `ALEMBIC_TARGET_SCHEMA` (129): each of these
  commands, `downgrade -1` and `current` included, goes through public and every tenant, and
  creates the schemas that are missing. The script's `|| true; rc=$?` in addition reports
  every migration as OK.
* `TenantSignupRequest` refers to `public.tenants.tenant_id` and `Subscription` to
  `public.tenants.id`. The model `Tenant` is imported by `alembic/env.py` only and has no
  column `id`, so that SQLAlchemy refuses to flush either: no signup and no subscription is
  ever stored. Their status pages disagree with the backend in addition: `SignupStatusPage`
  waits for lower-case words and `SignupApprovalsPage` filters "pending" where the backend
  says PENDING_APPROVAL; `TenantsPage` reads `t.id` where the answer has `tenant_id`.

Pages:

* Two moves overlap and one is refused: its snapshot takes the other card back. A switch
  whose list was read before its commit shows the old value until something else is read;
  a change that was committed and whose answer was lost is shown as "reverted" (`Fail`).
* The rules page shows example rules when the list is empty (comment BUG-29).
* `AuthContext.tsx:910-913` promises at most one login attempt per session after a 401. The
  flag is removed by `init` (872) after every successful check and by the effect at 943-948,
  so that a backend that keeps answering 401 sends the user round for ever; of two 401s
  at once the second clears it. Signing out without Keycloak does not clear the query cache.

## 10. What is not modelled

* *Most of the lines.* The sources have about 83 000 lines of TypeScript beside the Python
  backend. The core logic (what is sent, erased, counted, provisioned) is in the backend, to which
  most of the map points; of the pages only those are modelled whose state can disagree with
  the server (sections 6 and 8), well under one percent of the frontend. The others read a list,
  show a form or a chart, send one request and read the list again; the rest is wording,
  types and example data. A model of them would restate assignments.
* *The autopilot queue*: `trigger_scheduler` is one transaction; a cancel and a trigger that
  read the same item overwrite each other, and the last commit wins.
* *Campaigns*: one request at a time writes a status; the loser of two `link_prospect` is
  stopped by a UNIQUE constraint and becomes a 500.
* *Consents*: two first grants at once leave two active rows; the life of a data subject request
  is one field.
* *Billing and signup*: nothing can be stored (section 9).
* *Alembic commands other than `upgrade head`*: `downgrade` and `current`, typed by operators or
  by the script of section 9; `TenantProvisioning` does not distinguish revisions. Its
  "deployed" stands for whatever a run over all tenants makes of nothing.
* *Sign-in*: Keycloak's redirects are outside of the code; section 9 says what the flag does.
* Contents of emails and prompts, LLM and enrichment calls, rendering, analytics and
  dashboards keep no state whose order matters. The warm-up ramp is one nightly assignment.
* Liveness (`EligiblePickedUp`, `QuotaReturns`, `PollingEnds`, `SagaEnds`) is checked by TLC and
  not proved, for it rests on fairness and so on ENABLED. Every other property of a passing
  run has a theorem. What holds of the quota module for a whole year
  of days is not explored: a day is two hours and the next one begins without a row.

PostgreSQL is taken to be at READ COMMITTED, as the engine configures it: a statement sees
what was committed before it began, row updates are atomic, and a statement that fails
aborts its transaction.
