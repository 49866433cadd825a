# Verification of Gestor-IA (Hermes)

Hermes is a FastAPI service (`src/core/hermes`) through which the people of a company operate
their Dolibarr ERP from Telegram: they ask questions, request commands that are previewed and
executed after a confirmation, and send photographs of supplier invoices that become invoices
in the ERP. This directory holds TLA+ models of its core, the TLC runs that check them and
theorems that TLAPS checks.

The service runs as one uvicorn worker
(`config/systemd/gestor-ia.service.template:18`, `--workers 1`, `Restart=on-failure`). Redis,
SQLAlchemy and SQLite are called synchronously inside `async` handlers, so two requests only
interleave where the code really awaits: an HTTP call to Dolibarr, Telegram or a model server.
The models take their steps from there. The admin CLI and the rotation scripts are processes
of their own.

## Inventory

| Component (source under `src/core/hermes`) | State | Operations | Hard behaviours | What makes it correct |
|---|---|---|---|---|
| Command layer: `commands/executor.py`, `store.py`, `telegram.py`, `telegram_callback` of `main.py` | pending commands in Redis (status, owner, result, `expires_at`, 24 h TTL); `telegram:callback:{id}` keys | preview, confirm, cancel, correct; delivery and redelivery of a callback | presses interleave at awaits, redelivery, crash between CONFIRMED and EXECUTED, TTL, lost and late answers of Dolibarr, revoked users | one create request per command; a refusal told is true for ever; success told is true; only the owner confirms; no command stays CONFIRMED for ever, and none left half way is taken up again; every callback is acknowledged |
| Supplier invoice: `commands/handlers/supplier_invoice.py`, `DocumentIdempotencyManager` in `audit.py`, `invoices/reconciliation.py`, `supplier_creator.py` | one row per (instance, supplier, number) in the audit database: milestone, attachment flag | register, confirm (seven steps), reconcile | two commands for one number, a timeout applied later, failure after the creation, crash between milestones | a second invoice only after a failure; nothing is sent after an uncertain answer; a row is right about Dolibarr; an uncertain result is resolved |
| Identity: `identity.py`, `identity_store.py`, `identity_resolver.py`, `authorization.py`, admin CLI | SQLite rows per (instance, Telegram user) | resolve, link, unlink, enable, disable, rotate key | `resolve` reads, awaits Dolibarr twice and writes the whole row back | users stay one to one; what the operator does lasts and is obeyed |
| Audit log: `AuditLogger` in `audit.py`, `audit_migrations.py`, `deploy_audit_schema.py`, the audit endpoint of `main.py` | the schema; the chain of records, one for all instances | deploy and migrate, append, verify, clean up, read in pages | deployments that fail at any statement or meet, several processes that append, records of one second, hashes made of microseconds, swallowed failures, deletions from the middle, rows added between two pages | what a deployment left undone the next makes up for; a report of the verification is explained; evidence stays; pages are complete |
| Document ingestion: `invoices/ingestion.py` and the extractor, validator, resolver | document state in Redis (TTL 7 days), files, rows of the audit database | ingest, resume, preview, reconcile | crash in the pipeline, the same photograph twice, Redis state and row disagree | a document ends in review, a duplicate or a failure, and is never registered twice |
| Telegram webhook: `telegram_webhook` of `main.py` | `telegram:update:{id}` keys | dispatch of an update | redelivery while a request runs, crash while the key says processing, failure after a command is stored | one request at a time handles an update; an acknowledged update was handled; every update is handled at last |
| Dolibarr client: `core/integrations/dolibarr/client.py` | none (a connection pool) | one HTTP request per call, pagination | timeouts, decoding of lists, page numbering | the outcome reported is the outcome |
| Secret rotation: `scripts/rotate/*`, `scripts/rotate-secrets.py` | env files, configuration files, running services, backup in memory | preflight, backup, change, validate, rollback | a failure, heeded or not, or an interruption between two changes, two rotations at once, env files read and written without a lock, dry run | success means one secret everywhere; a rollback restores; no rotation changes another credential unawares; Redis keeps a password somebody knows |
| Queries: `query_layer.py`, `query/*`, `tools/*`, the message branches of `main.py` | none | interpret, authorize, call a tool, answer | links, keys and roles that change meanwhile, the choice among classes of arguments, pages counted from 0 and from 1, exceptions nobody catches | a request bears the key of whom it is for; an answer is true of Dolibarr |
| Insights: `insights/*`, and the searches of `client.py`, `invoices/` | none | read a list by pages, add up, rank, look for an invoice | the list changes between two pages, limits cut to a page, lists that are not wrapped | a reading is one list; sums of one reading agree; the searches agree |
| Document handlers: `commands/handlers/{order,proposal,invoice,payment,stock_movement,project,bc3,supplier_invoice}.py` | none | find or create a party, create, add lines, validate | any request fails or its answer is lost, two commands for one new party | success means all of it; a failure leaves a draft; a party is created twice only by a race or where the search cannot list it |
| Instance resolution: `resolver.py`, `instance_config.py`, `secret_resolver.py` | domain index cache, env-file cache | resolve by domain, reload | a cached index after a change of the files | a request is served under the instance of its domain |
| Money arithmetic: `commands/models.py`, `invoices/models.py`, `validator.py`, `verification.py` | none | totals, FIFO allocation, stock valuation, comparison | rounding, zero and absent values | totals agree, allocations never exceed the payment |
| AI providers, routing | in-memory registries | complete, fall back | provider failures | out of scope |
| BC3, extensions, Cloudflare, installation scripts | files, dictionaries | | | out of scope (libraries nobody calls, thin clients, shell) |

How they interact: the webhook resolves the user (identity, Dolibarr), and either answers a
query, stores a preview (`CommandExecutor.preview`) or hands a document to the ingestion, whose
preview it stores as a `CREATE_SUPPLIER_INVOICE` command (the durable row, which the confirmation
needs, is written by no caller). The callback
endpoint takes the press of a button to `CommandExecutor.confirm`, which calls the handler,
which calls Dolibarr with the user's key. Everything is written to the audit log. The rotation scripts
change the files and the credentials that all of this runs with.
`PROJECT.json` lists every component with its status, and under `hazards` the places where
this code is hard to test.

## Modules

| Module | What it is |
|---|---|
| `CommandLifecycle` | what the command layer promises: the abstract life of a command |
| `CommandExecution` | the executor, the store, the callback endpoint and their environment |
| `MCCommandExecution` | instances for TLC |
| `CommandExecutionProofs` | theorems about `CommandExecution` |
| `InvoiceOnce` | what the durable record of a supplier invoice promises |
| `SupplierInvoice` | the milestones, the confirmation handler, the reconciliation, Dolibarr |
| `MCSupplierInvoice` | instances for TLC |
| `SupplierInvoiceProofs` | theorems about `SupplierInvoice` |
| `IdentityResolution` | the table of identities, its resolution, the operator |
| `MCIdentityResolution` | instances for TLC |
| `TelegramWebhook` | the webhook; extends `IdentityResolution`, whose steps it takes as its own |
| `MCTelegramWebhook` | instances for TLC |
| `TelegramWebhookProofs` | theorems about `IdentityResolution` and `TelegramWebhook` |
| `DocumentIngestion` | the state of a document in Redis, its pipeline, its retries |
| `MCDocumentIngestion` | instances for TLC |
| `DocumentIngestionProofs` | theorems about `DocumentIngestion` |
| `SecretRotation` | the rotation classes and the older script, files, servers, two operators |
| `MCSecretRotation` | instances for TLC |
| `SecretRotationProofs` | theorems about `SecretRotation` |
| `AuditSchema` | the schema of the audit database, its deployment and validation |
| `AuditChain` | the log; extends `AuditSchema`, on whose schema it is written |
| `MCAuditChain` | instances for TLC |
| `AuditChainProofs` | theorems about `AuditSchema` and `AuditChain` |
| `DocumentHandlers` | the fourteen handlers that make documents, as sequences of steps |
| `MCDocumentHandlers` | instances for TLC |
| `DocumentHandlersProofs` | theorems about `DocumentHandlers` |
| `QueryIntent` | what a text is taken for: patterns, model, classes of arguments (no state) |
| `PagedReading` | lists read by pages, and what is made of what was read |
| `QueryReading` | a message from its arrival to its answer; extends both |
| `MCQueries` | instances for TLC |
| `QueryReadingProofs` | theorems about `QueryReading` and `PagedReading` |

### CommandExecution

State: `status`, `owner`, `result` are the fields of the Redis key of a command, `late` says
that `expires_at` passed, `key` is the idempotency key of a callback, `queue` is Telegram's
side of it. `posts`, `created` and `adrift` are what was sent to Dolibarr, what Dolibarr did,
and requests on the wire that nobody waits for. `pc[p]` is where the request of press `p` is:
its values are the awaits of `telegram_callback` and `CommandExecutor.confirm` and the points
where a crash leaves something visible. A store operation (WATCH/MULTI/EXEC on one key) is one
step. `seen[p]` is the access that this request resolved; `access[u]` the access now.

Actions: `PreviewCommand` and `IngestDocument` store previews; `PressButton`, `Deliver`,
`DeliverDuplicate` are the delivery (SET NX EX); `AskDolibarr`, `ResolveUser`, `RefuseUser`,
`ResolverRaises` are `get_user_context` before and after Dolibarr is asked. What the endpoint catches
(`RefuseUser`) is told apart from what it does not (`ResolverRaises`: no API key, a 401 or 403, a failure of the
request for the groups, a row deleted meanwhile), which ends in 500 as often as the callback is delivered again; the level
`barred` of `access` is a user of whom this is so every time. `ConfirmTaken` to `SearchRaises` are
`CommandExecutor.confirm` with every exit; `Cancel`, `Correct`, `WithdrawRefused` the other two
buttons; `ShowAnswer`, `Acknowledge`, `TelegramFails` the end of the request. The environment is
`ChangeAccess`, `Expire`, `TtlRemoves`, `KeyExpires`, `LateCreation`, `Crash`.

The variable `wiring`, chosen at the start from the constant `Wirings` and never changed, says how
the program is wired where the code as it is written cannot work: `injected`
(`telegram_callback` calls `get_user_context` without its dependency), `audited`
(`log_from_context` is called with arguments it also passes itself, a TypeError) and `faulty` (the
search after a 409 can itself fail, outside every `except`). The tests replace the first two by
mocks. The theorems hold for every set of wirings; `ExecConcurrent` takes that of
the tests, as otherwise nothing gets past its confirmation (`NothingRunsAsWritten`); `ExecAccess` takes those of
the source, as a whole and mended in part, with a search that may fail (`AnyWiring`).

### SupplierInvoice

State: `state` and `attached` are the row of one (instance, supplier, number); `invoices`,
`adrift`, `files` are Dolibarr's side; `posts`, `timedOut`, `verified` are history. `pc[a]` is
the await at which attempt `a`, a command carrying this number, is; `said[a]` its answer.

Actions follow `ConfirmSupplierInvoiceHandler.execute` step by step, with `update_milestone`
(`Mark`, guarded by `CanMark`, the table `VALID_TRANSITIONS`) inside each, and `Fail`, the two
`mark_failed_retryable` clauses, whose refusal is a `ValueError` out of the handler.
`Reconcile` is the reconciliation handler. Four constants: `Overlap` (two confirmations may run
at once), `SearchSees` (the duplicate search sees what Dolibarr has), `LateApply` (a request
that ended in an error other than a timeout, or that a crash abandoned, may still be applied),
`PathImported` (the handler's module imports the `Path` it uses). `Register`
creates the row as `DocumentIngestionService.mark_pending_confirmation` (`invoices/ingestion.py:1222`)
would; nothing calls it, and neither the confirmation handler nor the reconciliation handler is
registered in `commands/__init__.py:88-91`. `CommandExecution!NoHandler` is what happens today, and this
module is what happens once the handlers are registered as `commands/__init__.py` intends and the row is
written when a command is stored.

`InvoiceOnce` promises what the row can promise without assumptions about the search or the wire: one request from each
time the operation is open, none after an uncertain answer, and an end that stays the end. It does not promise one
invoice, as the code does not: the search reads one page of a list (`SearchSees`) and what was given up for lost may be
applied (`LateApply`).

### IdentityResolution

State: `rows[t]` is the row of Telegram user `t` in `telegram_identities`: its Dolibarr user,
`enabled`, and the API key, which is `<<user, n>>` for the n-th key Dolibarr issued to that
user; `erp` says who is active in Dolibarr and which key is the last. `pc`, `about` and
`copy` are the resolutions in progress: where each is, whom it is about, the row it read.
`rotation` is the key rotation script between its two statements. `written` and `raced` are
history: the row as the operator left it, and whether a request held a copy of it at that moment.

Actions: `Load`, `UserAnswered`, `GroupsAnswered` and `Save` are `IdentityResolver.resolve` cut at
its two awaits, with each exception as an outcome: `denied` for those
`resolve_user_context_from_company_context` turns into None, `raised` for those nobody catches
(a row without a key, 401 and 403 from Dolibarr, a failure while asking for groups, a write back
that finds no row or another row with the same user). `Link`, `Unlink`, `SetEnabled` are the
admin commands: each of their checks says what a constraint of the table or the row count
says again at the write, so a command is one step. `NewKey`, `FindRow` and `WriteKey` are the
rotation of a key.

### TelegramWebhook

State: `telegram[u]` is Telegram's side of an update: queued, waiting for a request, or
done; `redis[u]` the key `telegram:update:{id}`; `step[r]`, `serving[r]` the handler of request
`r`. `handled`, `commands`, `stranded` and `interrupted` are history: updates handled to the end,
pending commands stored for them, requests that stored a command and then ended in 500, and updates sent again
before their request had answered.

Actions: `Receive` is SET NX and the answer to a duplicate; `StartResolving` and `Resolve` take the
steps of `IdentityResolution`; `Ignored`, `Refused`, `ActionEnds`, `StoreCommand`, `PreviewFails`
and `PreviewEnds` are the branches of the handler (no message, stranger, query or
failure, command, document). Whether a preview whose sending raised was shown nobody knows, as a timeout may come after
the delivery (`telegram/client.py:89-97`), so no property asks for it; `Complete` and `Fail` its two ends. `TimeOut` is Telegram giving
up an answer, `Crash` the worker. `Operate` is the operator at the same time.
The keys live for a day, longer than Telegram repeats an update, and do not expire here. That Redis itself fails at
one of the writes of the key (`main.py:1517`, `1526`) is not modelled.

### DocumentIngestion

State: `status[h]`, `retries[h]` are fields of the hash of document `h` in Redis and `stale` says whose
`updated_at` is more than five minutes old; `files` is the pending directory; `pc[r]`, `on[r]` are where
run `r` of `_process_document` is, cut at its two awaits (the model, Dolibarr), and for which document;
`open[h]` counts the commands of `h` that wait for their user, `recorded` is what `check_duplicate` finds.
`overlapped`, `abandoned` and `retried` are history: documents a run was begun for while another was in
progress, documents whose run ended without a word in Redis, and failures that were tried again.

Actions: `ReceiveNew`, `StoreFails`, `RetryFailed`, `RetryStale` are `ingest_bytes` and the branches of
`_handle_existing_document` that change something; in the states that the program reaches otherwise
(REVIEW, FAILED_FINAL, RECEIVED) the document is refused. `Extracted`, `RunFails`, `AlreadyRecorded`,
`PreviewReady` and `CommandNotStored` are the pipeline and all its ends, the last two with the webhook's
storing of the command, between which nothing is awaited. The environment is `FiveMinutesPass`,
`CommandEnds`, `KeyExpires`, `RowChanges` and `Crash`. COMPLETED, CANCELLED and the other milestones of
`DocumentState` have no writer that anything calls.

### SecretRotation

State: `text[f][l]` is the secret in line `l` of file `f`, `live[l]` the one its server takes, `up` the
services that are active. `phase`, `at`, `kind`, `asked`, `new`, `saved`, `wasUp` belong to a run of the
scripts: where it is, what it rotates, on which side of the command `--dry-run` was given, its
`BackupInfo`. `before`, `mixed` and `overtaken` are history: the files when it began, whether it met another run,
and whether another wrote an env file that it had read and not written yet.

A class of rotation is a record: the lines it concerns, the files its backup takes, and the steps of
its `change` in their order. Actions: `Start` (preflight and backup), one per kind of step (`Given`, `WriteFile`,
`ReadEnv`, `WriteEnv`, `Ask`, `Rewrite`, `Restart`), `ChangeFails`, `Validates`, `ValidationFails`, `Rollback` and `Dies`. A
dry run is modelled as it is written: `update_env_file` (`base.py:298`) writes all the same, and an option before the
command is reset by the default of the subcommand. `update_env_file` reads the env file (`base.py:277`) in one step and
writes it as a whole (`base.py:298`) in another, with no lock, so that a line another run wrote in between is lost. A file of one
credential has no other line to lose, and its reading and writing are one step. `CONFIG SET` and `CONFIG REWRITE`
run with `check=False` (`redis.py:98`), setWebhook is not looked at: `Ask` and `Rewrite` go on without the change, whatever
the reason. `ALTER USER` may be refused, or done and its answer lost.

### AuditSchema and AuditChain

State of the schema: its parts, which are tables, the two newer columns and indexes; the step of each deployment, what
`create_all` still has to make for it (`todo`), the columns it found missing and those it was refused; the processes
that started. `Bootstrap` is the inspection of `create_all`, which settles what is made; `Creates` one of its statements,
a table and then each of its indexes; `LooksForColumn` one of the two inspections of the migration, `AddsColumn` one
`ALTER TABLE`, whose failure is a warning; `Validates` and `Starts` the validation at the end of a deployment and at the start
of a process. Each statement takes effect at once, and `DeployFails` may come between any two. The indexes of a table that is
there are never made up for: a deployment that breaks off between the table of documents and its unique index leaves a
schema that no later deployment completes, which is the second exception of `MissingIsExplained`.

State of the log: `rows` is `audit_log`; a row has the record its hash was made with (`prev`), the instant
that went into the hash (`made`) and the second the database dated it (`at`). Actions: `ReadsLast` and `Inserts`
are `AuditLogger.log`, whose processes meet; `LogFails`; `CleansUp` is `cleanup_old_logs`; `OpensPages`,
`ReadsPage`, `ClosesPages` a client of the endpoint; `Tick`. `Broken` is `verify_integrity` for one of the orders
that rows of the same second may come in.

### DocumentHandlers

State: third parties and documents in Dolibarr, and for each run what its handler knows. A handler is the
sequence of its steps, and each step an action with its ends: the request is refused, its answer is
lost, or is without an id. A party is found by its tax id (`taxed`) or by its name, and then only if it is marked as a
supplier and its title holds the name that is asked for (`Listed`); the party there is at the start may be any of these or
none. `wrapped` says whether the server puts lists into an object with "data", as
`client.py` expects. The steps show where the code cannot go on: `SearchCustomer` (`search_thirdparties` has no
argument `filter_customer`), `Dates` (a `date` has no `timestamp()`), `Record` (`record_completed` does not exist),
`Call` (`CommandExecutor.confirm` passes four arguments, which handlers with three do not take). Of the handlers for
customers only invoices get as far as their document, for a party found by its tax id. The list of a proposal's lines may
read as empty although it has some: it is not wrapped, or was answered with 404, of which the client makes an empty list
(`client.py:158`). The invoice copied from it has no line, is validated, and is answered as a success
(`unread`, the exception of `SuccessIsWhole`).

### QueryIntent, QueryReading and PagedReading

`QueryIntent` has the classes of arguments as sets of keys, the order in which pydantic tries them, the actions with the
attributes their conversion reads, and the outcomes of the two interpreters. `QueryReading` has one message
(`msg`: its stage, the context it arrived with, the call, the key of the request, the answer), the row of its
user (`link`) and the rows in Dolibarr (`held`), which change at every point. `PagedReading` has one reading:
the list (`rows`), which others insert into and delete from, and the reader, with what the insights make of
what it read (`SummaryOutstanding`, `OutstandingByThirdparty`, ...) and the three searches for an invoice
(`Reconciled`, `DuplicateCheck`, `DuplicateExists`). Sums are `Total`, a recursive function over a sequence. A ranking is
any order in which nobody who owes more is left behind (`OutstandingByThirdparty`, `Ranked` third parties long), as the code
sorts by the amount alone; the searches select from the set of rows of a page.

What the models make visible, and the properties are stated around: free texts for lists, and `/productos`,
ask for page 1 where Dolibarr counts from 0, so the first page is not shown; a count of third parties is 0
or an error; a list of products with a row in it fails; lists of invoices always fail; the insights of the
registered tools always fail, as the list they read refuses `pagination_data`, while their tests replace it; a
denied preview and an unsupported action are answered with silence; a command text out of bounds
raises out of the webhook and is sent again. The search for duplicates asks for 500 invoices, is given a page
of 100, the second where pages count from 0. `reconcile_with_dolibarr` and `check_duplicate_in_dolibarr` have no
caller but tests.

## Runs

Sizes are TLC's, with two workers.

| Run | Shows | Distinct states |
|---|---|---|
| `ExecConcurrent` | two users and two presses under one preview, redelivery, late answers, expiry, one crash: one creation, refusals and success told are true, and `CommandLifecycle` is implemented | 716 k |
| `ExecAccess` | a guarded command and an invoice without a handler in every wiring, while administrators change, bar and delete the user between its steps, the resolver raises, audit calls raise, the search after a 409 fails and the worker crashes: every callback is acknowledged, but for a user the resolver raises on every time; what is confirmed ends; what was left half way is never taken up again | 191 k |
| `InvSerial` | three commands with one number, one after the other, with the search and the late requests of the code, failures at each step, one crash: none requested after a timeout, a second request or invoice only after a failure, and `InvoiceOnce` is implemented | 1.6 k |
| `InvOverlap` | three overlapping confirmations and a crash: success told, the row, and ERP_RESULT_UNKNOWN are still right | 12 k |
| `Identity` | two resolutions, two Telegram and two Dolibarr users, the operator: users stay one to one, what the operator does while no request holds a copy lasts, and a user switched off then gets no further than the row | 189 k |
| `Webhook` | an update repeated after failures, timeouts and a crash: one handler at a time and none after the end, a second command only after a request that stored one ended in 500, acknowledged means handled, every update is handled at last | 33 k |
| `Ingestion` | one document, three requests, failures, slow models, recorded operations and a crash: one open command if no run outlasts five minutes, the bytes are there for every retry, PROCESSING is true or abandoned, and is left at last | 5 k |
| `Rotation` | two rotations of any kind, at once or in turn, with wrong entries, refusals, failures nobody looks at, failed writes, failed validations, interruptions and dry runs: what a success, a rollback and an interruption leave behind, and when one credential is lost to another | 919 k |
| `Audit` | two deployments on any schema, at once or broken off anywhere, and two processes that write, clean up and read pages: what a deployment may miss at its validation, what the verification may report, evidence stays, pages are complete | 1.41 M |
| `Handlers` | two executions of any handlers for one name, any request failing or its answer lost, a party of any kind there before: a success is whole, a failure leaves a draft, a party twice means a race or a search that could not list it | 92 k |
| `Queries` | every kind of message while links, keys, roles and contents change, and every reading of a list while rows are inserted and deleted: whose key reads, what an answer is worth, that insights and searches agree | 2.08 M |

One run expects a violation, a finding of `PROJECT.json` with the line it contradicts: in `InvDouble` two overlapping
confirmations both create the invoice (`AtMostOneInvoice`). It has an exact search, no late request and no crash, so that the
overlap alone is to blame, and shows what happens once the handler is registered.

Other instances show more of the code. Put the property into the configuration and TLC shows the trace:

- `OnlyLastSeen` (`Identity.cfg`): a resolution enables a user whom the operator disabled meanwhile (`identity_resolver.py:230`).
- `NoneForgotten` (`Webhook.cfg`): Telegram repeats an update and gets 200 as for a duplicate; the request it waited
  for fails and deletes the key (`main.py:1526`); nobody tries again.
- `RetriesBounded` (`Ingestion.cfg`): a document that always fails is tried again more than `MAX_AUTO_RETRIES` times, as each
  failure sets the count to 0 (`invoices/ingestion.py:1097`).
- `DryRunHarmless` (`Rotation.cfg`): a dry run writes env files (`base.py:298`, against `base.py:169`).
- `AlreadyIsTrue` (`ExecConcurrent.cfg`): "Ya confirmado" is answered for an execution that failed (`executor.py:155`).
- `VerifiedKept` (`InvSerial.cfg`): `Path` is not imported (`supplier_invoice.py:908`), so a verified invoice with a file goes
  back to FAILED_RETRYABLE; with `PathImported = TRUE` the retry of a pending attachment throws the milestone away.
  `UnknownResolved`: no reconciliation ever leaves ERP_RESULT_UNKNOWN.
- `NoOrphanConfirmed` (`ExecAccess.cfg` with the wiring `AsWritten`): the call of `log_from_context` as it is written raises
  outside the `try` (`executor.py:139`), so every confirmation leaves its command CONFIRMED until its TTL takes it away, although
  a comment asks that audit errors fail no request (`audit.py:425`). `injected |-> FALSE`: the endpoint calls `get_user_context`
  without its dependency, and no callback is acknowledged. `faulty |-> TRUE` leaves a command CONFIRMED after a 409. A supplier
  invoice in the registry of today is left CONFIRMED by its confirmation, as no handler is registered (`NoHandler`).
- `AtMostOneInvoice` (`InvSerial.cfg`): a retry after a failed step creates the invoice again, as the search misses it, or the first
  request is applied late.

Bounds. Commands do not share state except the users' access, so one command, or one of each
kind in `ExecAccess`, is enough; two presses give every pair of buttons, every order and every
overlap of their requests, and redelivery makes each of them several requests; a second user is
only needed for ownership. One crash (`MaxCrashes`) reaches every point of a request, and the
state it leaves is then used by the redelivered callback. For an invoice three attempts allow a
failure, a retry of it, and a retry of what the retry left; the row has no memory beyond its
milestone. For identities two users on each side are what a confusion needs, and two requests a race
between two write backs; three actions of the operator unlink, link elsewhere and change. Updates meet
only in the rows and in the bounds, so the webhook is run with one update of every kind and two
requests: a first and its repetition. Documents share nothing, so `Ingestion` has one; three runs
give two overlapping ones and a third after them, and `MaxCommands` stops runs and commands at as many.
`retried` stops one above the limit of the code. `Levels` limits the access levels a run lets users take.
Two rotations are one that disturbs and one that is disturbed, of every pair of kinds. In `Audit`
two deployments are one that breaks off or interferes and one that comes to its validation, from no tables, those of
an older release and today's; two processes race, two ticks make a second (a whole instant and a fraction), three records are two that
tie and one that follows, and pages of one row make a reading of three. Two handler runs race for one name, with
two lines, so that a failure may come between them, and a party before them that is found by tax id, by name, by both or by neither. For queries pages of two rows with up to five rows make a
full, a full and a short page, `MaxPages = 2` lets the search stop early, one edit happens between any two
pages, and a ranking of one cuts off a second debtor; a message is sent twice and meets three changes.

Deadlock is not checked where the system may come to rest: every preview, press, attempt, update, rotation, record and handler
run can be used up. In `Identity`, `Ingestion` and `Queries` a step is always possible, and deadlock is checked.

Fairness. `FairRequests`: weak fairness of each request, the event loop runs it to its next await
and every HTTP call has a 30 s timeout. `FairSpec` adds the delivery: weak fairness, Telegram delivers until it gets a 200.
`ShowAnswer` and `Acknowledge`: strong fairness, Telegram is not down at every attempt. `ResolveUser`: strong fairness, Dolibarr,
asked for a user it accepts, does not fail at every attempt. `TtlRemoves`: weak fairness, Redis drops a key whose TTL is over.
`FairSpec` of `SupplierInvoice` adds a reconciliation that is started again and again; not even that
resolves the row. `FairSpec` of `TelegramWebhook`: weak fairness of every handler, whose calls have timeouts, and
strong fairness of `Receive` for each update, since Telegram repeats an update until it is answered with 200.
`FairSpec` of `DocumentIngestion`: the calls of a run end and time passes (weak), a command ends after a day at the
latest (weak), and the user who still wants the invoice sends it again (strong, as it must be sent when it is
accepted and a request is free). `HandledAtLast` excepts an update whose requests failed as often as `MaxFailures` allows.
The modules added for scripts, the log, handlers and queries promise nothing that must happen in the end, and state no fairness.

## Proofs

`CommandExecutionProofs`, for every set of commands, users and presses and any number of crashes:

- `TypeCorrect`: the type invariant, from `ConstantsAssumption`.
- `SingleCreation`: `AtMostOneCreation`. It is not inductive: the invariant `IInv` adds that two
  requests never execute the same command (`Exclusive`), that a command being executed is
  CONFIRMED (`Confirmed`), that a command still pending was not sent (`Unsent`), and how the
  number of requests, of creations and of requests adrift add up (`OneRequest`).
- `RefusalsHold`: `NotRunIsTrue`, from the conjunct `Refused`, which follows a refusal from the
  store to the text that is shown.
- `SuccessIsTold` (`CreatedIsTrue`) and `OwnerDecides` (`OwnerConfirmed`, in no run). The invariant `KInv` says what a request that executes has established: it is a Confirm of the
  owner (`Owned`), it has sent its create request past that point (`Sent`), and a text of success follows
  a creation (`Truthful`).
- `OrphansNeverRun` (`OrphansStay`), in every wiring: what a crash, or an exception outside the `try`, left CONFIRMED is never
  taken up again, as only PENDING is confirmed (`IInv`), and only its TTL takes it out of that state.
- `Refinement`: `Spec => ImplementsLifecycle`. Every step of a request, of the store, of Dolibarr and of the
  worker is a step of the life of one command or leaves all of them alone.
- `OverStaysOver` (in no run) follows from `Refinement` and the steps of `CommandLifecycle` alone: a command that was
  withdrawn, executed or failed, or has left Redis, is never taken up again, and what is EXECUTED was asked for once.
- `NothingRunsAsWritten` (in no run), under `WiredAsWritten`, the wiring the source has today (a call of the audit log raises):
  no command reaches Dolibarr or is EXECUTED, and no press is told anything but a refusal, as each audit call stands before the
  request or the answer it goes with.

`SupplierInvoiceProofs`, for every finite set of attempts and any number of crashes:

- `TypeCorrect`, and `UnknownNeverPosts`: `UnknownBlocks` needs only the transition table, so it
  holds without any hypothesis, however attempts overlap.
- `TimeoutIsLast`: `NoPostAfterTimeout`, if confirmations do not overlap. `SerialInv` says that one
  attempt is busy at a time, that the row is where that attempt is (`Placed`), and that a timeout
  leaves ERP_RESULT_UNKNOWN for ever (`Stuck`).
- `SecondNeedsFailure` (`SecondIsARetry`), if confirmations do not overlap, whatever the search finds and whenever requests
  are applied. `CountInv` counts: a row from which the invoice is created again was left by a failure, and there are no more
  invoices and requests adrift than requests sent.
- `Refinement`: `Spec => ImplementsOnce`, if confirmations do not overlap, each step of the handler being a step of
  `InvoiceOnce` or a stutter.
- `ToldIsTrue` (`SuccessIsTrue`) and `RowIsTrue` (`MilestoneIsTrue`) need no hypothesis: an attempt past the creation knows
  that there is an invoice, and the transition table never leaves COMPLETED (`TrueInv`).
- `UnknownForEver` (in no run), if confirmations do not overlap: a row in ERP_RESULT_UNKNOWN is never written again, which
  is why the hazard that it must be resolved has no property that holds.
- `WhatIsOverStays` (in no run) follows from `Refinement` and the steps of `InvoiceOnce` alone: what is completed, given up or
  timed out stays so and sends nothing more, and where the row says that the invoice was created there is one.

That confirmations do not overlap is the one hypothesis of the others. The code does not see to it, and `InvDouble` shows that it is
needed: it is what a user does who waits for the answer before confirming another command for the same invoice.

`TelegramWebhookProofs`, of identities, for all sets of users and requests:

- `IdentityTypeCorrect`.
- `UsersApart` (`OneToOne`), `OperatorKept` (`OperatorWins`), `OffIsOff` (`OffMeansDenied`). The invariant
  `SafeInv` adds `CopiesAreRows`: unless the row was raced, a copy a request holds is the row itself,
  so writing it back changes nothing.

`TelegramWebhookProofs`, of the webhook, for all sets of updates and requests and any number of failures,
timeouts and crashes:

- `WebhookTypeCorrect` (`TypeOK`).
- `WebhookResolves`: `Spec => IdentitySpec`. Every step of the webhook is a step of identity
  resolution or leaves its variables alone; with it the theorems above hold of the webhook.
- `WebhookKeepsUsersApart` (in no run) says so: `OneToOne`, `OperatorWins` and `OffMeansDenied` of `Spec`.
- `HandledOnce` (`OneHandler`), `AckIsTrue` (`AckedIsHandled`), `CommandsCounted`
  (`SecondFollowsFailure`). The invariant `HookInv` adds what a key says of the requests of its update
  (`KeysTell`) and how commands and stranded requests add up at each step (`CommandsEven`).

`DocumentIngestionProofs`, for all sets of documents and requests and all bounds:

- `TypeCorrect` (`TypeOK`).
- `CommandsApart` (`OneCommand`), `BytesKept` (`RetryableHasFile`), `StatusTrue` (`ProcessingIsTrue`). The
  invariant `IInv` adds that the document of every run has its file (`RunHasFile`) and that a
  document no run overtook has one run, in process and without a command (`OneAtATime`). Two lemmas, `BeginIsSafe` and
  `EndIsSafe`, say what every way into a run and every way out of it asks.

`SecretRotationProofs`, for any number of runs and any secrets:

- `TypeCorrect` (`TypeOK`, in no run).
- `RotationsApart` (`OthersKept`), `RollbackIsWhole` (`RollbackRestores`), `SuccessIsTrue` (`SuccessIsWhole`). What the
  classes of rotation have in common is stated once (`Programs`): what is written is in the backup, `update_env_file`
  is the first to write its file, every file with the line is written. The invariant `RotationInv` says that runs in
  progress together are marked as mixed, and of one that is not (`Undisturbed`) that its backup is the text of
  its start, that files it has not written are too, and that those it wrote have its new secret. A run that was not overtaken
  still holds the env file as it is when it comes to write it (`Holds`).
- `PasswordKnown` (`RedisKnown`). `RedisInv` says, as long as nothing speaks against it (`Quiet`), which of the file, .env
  and the server have the new password at each step of `RedisRotation.change` (`Stage`), also where CONFIG SET failed, and that the
  copy of .env another rotation would write back has the password that is there (`Kept`).

`AuditChainProofs`, for any number of deployments, processes, records, instants and pages:

- `TypeCorrect` (`TypeOK`, in no run). That the bound on records is kept is proved by counting the writers.
- `MissingIsMadeUpFor` (`MissingIsExplained`). `SchemaInv` says of each deployment that a table which is missing is still on its
  list while it creates (`Made`), that a column which is missing was found so or refused (`Found`), and that a table of
  documents without its unique index is owed the index by a deployment that is through with the table (`IndexOwed`).
- `EvidenceStays` (`EvidenceKept`): a row is evidence as its own columns say, by which the cleanup goes.
- `ReportsAreExplained` (`BrokenIsExplained`). `Chained` says that a record nobody raced was made with the hash of one of the
  last rows before it, and stays so, as later rows are dated no earlier.
- `PagesMissNothing` (`PagesAreComplete`). `Paged` counts: without ties, a row not yet seen has at least as many rows before
  it as the client has asked for.

`DocumentHandlersProofs`, for any number of runs and lines:

- `FailuresLeaveDrafts` (`FailureLeavesDraft`), `TwinsMeanARace` (`TwinsAreRaced`), `SuccessTold` (`SuccessIsWhole`). What the
  sequences of steps have in common is stated once (`HandlersAreSound`): the party before the document, the document
  before its lines, a validation last. `HandlersInv` adds what each run knows of its own document.
- `OnlyInvoicesArrive` and `MostHandlersFail` (in no run): where a date is needed nothing is made, so that of the handlers for
  customers and suppliers only the one of invoices makes a document, for a party it found by its tax id, and ten of the
  fourteen handlers never report success. `ReachInv` adds to `HandlersInv` what a run past the search of a customer knows of
  its party; `HandlersReach` states once which step comes before which.

`QueryReadingProofs`, for any keys, page sizes, lists and numbers of changes:

- `TypeCorrect` (`TypeOK`, in no run).
- `AnswersHold` (`AnswersAreTrue`), `KeysAreTheirs` (`ReadsAreBacked`). `MessageInv` says that an interpreter makes of a text only
  calls there is something for (`InterpretIsFine`), and that a tool is asked only for calls it knows.
- `PagesMakeOneList` (`ReadingIsWhole`). `PagedInv` says what a reading in progress has: of a third party, that nobody wanted
  stands on the pages before (`Finding`); of invoices (`Progress`), that what was read is the list up to here, if nobody touched
  it, and that the numbers read are lower than those to come, if nothing was inserted.
- `InsightsAddUp` (`InsightsAgree`), for lists of any length and any number of third parties in the ranking. The table of what
  each invoice adds to what each third party owes is summed by rows, which is the summary, and by columns, which is the
  ranking, and both are the same (`TotalOfTable`); that a ranking cut off shows no more follows as no row is below
  nothing. The sums are reached by the induction of `Counting`, which is a set of numbers without a least counterexample
  (`WFMin`), since a theorem with an operator for a parameter cannot be used.
- `RankingExists`, in no run: of any list there is a ranking, so what is said of every ranking is said of some.
- `SearchesAgreeOnAnyPage` (`SearchesAgree`), for pages of any size. The invariant `Gathered` of both says that what
  was read as invoices is invoices, and that a search has read the page of numbered rows it asked for, or nothing
  if the list is not wrapped.

Every safety invariant and action property of the runs is a theorem. Model-checked only: liveness (`PressAnswered`,
`ConfirmedEnds`, `HandledAtLast`, `ProcessingEnds`), as TLAPS does not reason about ENABLED.

## Not modelled

- The text of messages, previews and logs. The patterns of the query parser are told apart by what they
  find, what a model answers is any intent it could be.
- The choice of a supplier, what the extractor reads in a document, its validation and the comparison of an
  invoice read back: nondeterministic outcomes of `SupplierInvoice` and `DocumentIngestion`.
- Money arithmetic: totals, FIFO allocation and stock valuation are single expressions over decimals, without
  state; in the handlers "needs" says that they may fail.
- Failures of Redis at the keys of updates, and a `DolibarrException` that the resolver of suppliers swallows
  (`supplier_resolver.py:175-206`) before the searches that `SearchesAgree` compares.
- The duration of the Redis TTLs, which are events or, for the keys of updates, left out.
- The merge of permissions of users and groups, the summary of the audit log, the resolution of periods into dates.
- The index of domains in `resolver.py`: it is built once and never refreshed, so a model of it would say just that.
- AI providers and routing (HTTP calls and dictionaries), the BC3 library (called by nothing), the extension registry, the
  thin Cloudflare and Telegram clients, the shell scripts of the installation.

## Plan

Done: `CommandLifecycle`, `CommandExecution`; `InvoiceOnce`, `SupplierInvoice`; `IdentityResolution`, `TelegramWebhook`;
`DocumentIngestion`; `SecretRotation`; `AuditSchema`, `AuditChain`; `DocumentHandlers`; `QueryIntent`, `QueryReading`,
`PagedReading`. Left, in this order:

1. The composition of `DocumentIngestion` with the row of `SupplierInvoice`, which waits for a caller of
   `mark_pending_confirmation` in the code, and that of `QueryReading` with `TelegramWebhook`.
2. Money arithmetic against a reference definition, and the merge of permissions.
