# lume-tenant-api: formal model

TLA+ modules, TLC configurations and TLAPS proofs about the tenant API of Lume
(NestJS, Prisma on PostgreSQL).  Paths below are relative to the repository; the
TypeScript sources are in `src/`, the schema in `prisma/schema.prisma`.

## 1. The system

The API serves one tenant ("company") and has two halves.  The **WhatsApp half**
receives customer messages from the Evolution provider, keeps the conversations,
hands every event to an automation through an outbox, and sends answers back.
The **back-office half** manages routes, passengers, documents, imports, users and
sessions.  All state is in PostgreSQL; several API processes may run against one
database, and each process runs its own timers (`setInterval`) for the outbox,
imports and retention.  Concurrency therefore comes from processes, from requests
interleaved at every `await`, and from timers; failures are process crashes,
database calls that fail or whose reply is lost after the commit, provider calls
with an unknown result, and leases that lapse under a worker that is only slow.

### 1.1 Components

| Component | State | Operations | What makes it correct |
|---|---|---|---|
| Automation outbox (`whatsapp-automation-event.store.ts`, `whatsapp-automation.dispatcher.ts`, `prisma-whatsapp.repository.ts`) | `integration_outbox`, `whatsapp_automation_executions`, checkpoints in the inbox, the batch a running tick of a dispatcher awaits | `createOrderedOutbox`, `claim`, `markAccepted`, `rejectBeforeAcceptance`, `completeOutboxExecution`, `reconcileAutomationOutbox` | rows of a conversation one at a time and in order; no row lost or concluded twice; audit agrees with the row; bounded attempts |
| Delivery of an outbound message (`api-whatsapp-automation.provider.ts`, `evolution-outbound.client.ts`, repository) | `whatsapp_messages`, `whatsapp_message_attempts`, inbox commands | `claimEvolutionDispatch`, `recordEvolutionResult`, `markEvolutionDispatchUnknown`, reconciliation | a customer gets a message at most once; the tables say what happened; an unknown result stays reconcilable |
| Conversations (`conversation-transition.matrix.ts`, repository) | `whatsapp_conversations`, the transition log, the command inbox | `transition`, `persistWebhookMessage`, `createOutbound`, `createHumanOutbound` | human service has an attendant; one actor's decision is not undone by a stale one; the version orders what happened |
| Evolution webhook intake (`evolution-webhook.service.ts`) | webhook inbox, media | receive, normalise, persist | a webhook delivered twice is applied once |
| Quote proposals (repository, proposal documents) | `quote_requests`, `quote_proposals`, documents, delivery batches | create, decide, update status, upload, send, complete a batch | status follows the deliveries; one open proposal; a batch is concluded when all of it is sent |
| Automation provider and agent (`api-whatsapp-automation.provider.ts`, `whatsapp-automation-flow.ts`, agent) | checkpoints, decisions, the flags of the menus | plan a message, ask the model, carry out the steps | options are read under the menu that was shown; only the customer confirms; silent beside a person; a repeated execution repeats no effect |
| Package import (`whatsapp-import.service.ts`) | batches, records, external references | apply, resume, reconcile, roll back | an applied batch is complete; a rollback undoes its batch and nothing of the customers |
| History import (`whatsapp-history-import.service.ts`) | a manifest per batch with a lease, upload sessions, files of the batch | upload in blocks, decrypt, compare, resolve, apply, attach media, cancel, expire, recover | bytes are a prefix of the backup; one job at a time; applied means complete; an import comes to an end |
| Documents (`document-management.use-case.ts`, `document-workflow.ts`) | requests, items, submissions, decisions | create, batch, synchronise, upload, complete, review, delete, policy, add, renew | a request has the status of its items; a command has one effect; approvals stay |
| Routing (routes, contracts, companies, passengers, fixed points) | routes, their passengers, snapshots, approvals and history | generate, update, plan, review, approve, publish | a plan fits its vehicle; what is approved is what was reviewed |
| Authentication (sessions, refresh tokens, password challenges) | their tables | login, refresh, log out, reset, change password | sessions and tokens end with the password; a link sets one password |
| Users, departments, permissions | users | create, update, change status, delete | an active administrator remains |
| Data exchange, routing optimiser, bootstrap, licensing, retention, notifications, support, metrics, storage, HTTP, configuration | little or none | conversions, calls of services, wiring | — |

### 1.2 How the parts interact

```
 Evolution ──webhook──▶ intake ──▶ conversation ──row──▶ outbox ──claim──▶ dispatcher
     ▲                                ▲   ▲                                  │ execute
     │                                │   └── attendant (HTTP)               ▼
     └── provider call ◀── delivery ◀─┴────────── plan of the automation provider
```

A webhook writes message, conversation and outbox row in one transaction.  A
dispatcher of any process claims the row; an inbound row becomes a plan (stored as
a checkpoint) whose commands change the conversation and create outbound rows; an
outbound row is delivered through the provider.  Attendants act on the same
conversations through HTTP.  Everything is joined by rows, never by memory: the
only state in a process is whether its tick is running and the promises in flight.

### 1.3 What is hard here

`PROJECT.json` lists the hazards line by line.  The main ones:

* `completeOutboxExecution` reads a row, checks who owns it and later updates it by
  primary key, under advisory locks that `claim` and the rejection do not take;
* a failed rejection resets the dispatcher's flag while the rest of its batch is
  still being executed, so ticks of one process overlap;
* an execution that lost its row is told to go on when its audit row is no longer
  `CLAIMED`;
* the reply of a committed transaction may be lost, and the caller then compensates
  for something that did happen;
* a provider call may have been carried out although the client saw an error;
* several processes claim rows of one conversation, of which only the first may be
  handled;
* a webhook re-opens a closed conversation from what it read before it took the
  lock of the conversation, with an update that names no version;
* a reply of the bot and an operator's reconciliation of a proposal do not take that
  lock at all;
* bot, attendants and customer lead one conversation by turns, and its state, step,
  attendant, request, proposal and batch are columns of different tables;
* an execution asks a model between two reads of the conversation, may die after any
  of its commands, and is repeated from the two records it left;
* in the back office a request reads, decides, and writes in a later transaction at
  READ COMMITTED, mostly without comparing what it read: documents, routes, users and
  imports all have such a pair of steps;
* the long jobs of the imports keep a manifest, a lease and files, which are written one
  after the other and in several processes.

## 2. Modules

| Module | Stands for |
|---|---|
| `OrderedDispatch` | abstract specification: events of a conversation are handled in order, one at a time, once |
| `AutomationOutbox` | the outbox, its audit, checkpoints and the dispatchers of all processes |
| `AutomationOutboxOrder` | the refinement mapping from the outbox to `OrderedDispatch` |
| `EvolutionDispatch` | one outbound message, its attempts and row, and the dispatches that deliver it |
| `ConversationMatrix` | the transition matrix: who may ask for what, from which snapshot, with which result; no state |
| `AttendedConversation` | the columns of a conversation that the next two modules share; no actions |
| `Conversation` | the row of a conversation under concurrent commands, webhooks and replies |
| `QuoteProposal` | the commercial cycle: quote requests, proposal documents, batches, and the transitions beside them |
| `AutomationFlow` | the plan of the automation for each message, and the commands that carry it out |
| `DocumentWorkflow` | which status an item may take and a request has; no state |
| `DocumentDossier` | the dossier of one employee under concurrent requests |
| `PackageImport` | batches of a package that are applied, resumed, reconciled and rolled back |
| `HistoryImport` | one Android batch from its first block to its media |
| `Identity` | accounts, sessions, access tokens and password links |
| `RoutePlanning` | the routes of a contract for a shift and a day |
| `MCAutomationOutbox`, `MCEvolutionDispatch`, `MCConversation`, `MCQuoteProposal`, `MCAutomationFlow`, `MCDocumentDossier`, `MCPackageImport`, `MCHistoryImport`, `MCIdentity`, `MCRoutePlanning` | symmetry and values of constants for TLC |
| `AutomationOutbox_proofs`, `EvolutionDispatch_proofs`, `ConversationMatrix_proofs`, `Conversation_proofs` (of `Conversation` and of `QuoteProposal`), `AutomationFlow_proofs`, `Identity_proofs`, `DocumentDossier_proofs`, `BackOffice_proofs` (of `RoutePlanning`, of `PackageImport` and of `HistoryImport`) | TLAPS proofs |

`Conversation`, `QuoteProposal` and `AutomationFlow` all extend `ConversationMatrix`, the first two
through `AttendedConversation`.  `AutomationFlow`
joins it with the queue of the outbox as one conversation sees it: the oldest message is
executed, a failure puts it back, the attempts end.  The first two divide the
work of the repository: `Conversation` has the transactions and their overlaps and
keeps of the proposals what they write to the row; `QuoteProposal` has the whole
commercial cycle, with each operation in one step, because each holds the
advisory lock of the conversation from its first read to its commit.

`PROJECT.json` maps every definition to the lines it stands for.  Definitions
introduced by a comment that speaks of a slip are no part of a specification: each is a plausible
mistake in the definition below it, and shows that some property would notice it.

### 2.1 AutomationOutbox

State: `outbox` (a row per conversation and sequence number), `executions` (the audit
rows of a row, in order of their claims), `workers` (the dispatch that handles each
execution, with the stage it has reached), `checkpoint` (the stored batch of an
inbound row), `running` (the dispatches that the running tick of each process awaits;
none, when its flag is down) and `spent` (used up bounds).

| Action | Code |
|---|---|
| `Enqueue` | `createOrderedOutbox` |
| `Tick` | `tick` and `claim`: sweep of exhausted and lapsed rows, then a batch of candidates |
| `Accept`, `AcceptWithoutLock`, `AcceptFails` | `markAccepted`: its update matches, matches nothing, or throws |
| `Reject`, `RejectReplyLost`, `RejectFails` | `rejectBeforeAcceptance`: carried out, carried out and its reply lost, or failed; what throws leaves `Promise.all` and ends the tick, and the rest of its batch goes on (`Abandon`) |
| `StoreCheckpoint`, `EndExecution` | the provider fixes its batch and ends with an outcome |
| `BeginCompletion`, `SaveCompletion`, `CompletionFails` | `completeOutboxExecution`, split where it reads the row and where it writes it, with `completeUnexpectedAcceptedFailure` after a throw |
| `EndTick` | the `finally` of `tick`, after the dispatches of its own batch |
| `Reconcile` | `reconcileAutomationOutbox` for a dead outbound row; the row remembers in `reconciled` that it was confirmed as sent |
| `Crash` | the process dies: promises and open transactions are gone |
| `Lapse`, `BackoffEnds`, `Mature` | the clock |

Abstractions.  *Identifiers*: an execution is a UUID in the code, compared only within
its row; here the n-th claim of a row has identifier n and 0 is NULL.  *Time*: the code
compares timestamps with `NOW()`; a row has instead the flags `due` (`available_at` is
past), `lapsed` (`locked_at` is stale or `execution_lease_until` is past) and an `age`
(which of the two collection windows it has left), and the clock sets them whenever
it may.  One order of times is kept: a completing transaction ends within 5 seconds and a lease lasts
30, so `Lapse` ends no lease that was granted while a transaction that is still completing had
already read the row.  *Isolation*: transactions run at READ COMMITTED.  The sweep and the claim
(`FOR UPDATE SKIP LOCKED`) are one step, which is what row locks give; completion is
two steps, because it reads without a row lock.  *Batches*: which later messages a
stored batch contains depends on their text and their times; it is any set of later
inbound rows that exist.  *The commands of a plan* are not part of this module.

### 2.2 EvolutionDispatch

State: `message`, its `attempts` by dispatch generation, the `generation` named by the
row's payload, the `row` as far as delivery depends on it, `dispatch` (the stage of each
overlapping dispatch), `service` (how far a service is that claims and sends a generation
by itself), the inbox commands found (`claimed`, `recorded`), and two pieces
of the world outside: `inFlight` (requests the provider has not decided) and `delivered`
(what it sent).  The last is what the database can only guess, and what the properties
compare it with.

| Action | Code |
|---|---|
| `Start`, `Sweep`, `Finish`, `Vanish` | the row: claim, takeover, sweep, completion, a lost process |
| `Claim`, `ClaimFails`, `LeaseLapses` | `claimEvolutionDispatch` and its lease |
| `ServiceClaim` | `claimEvolutionDispatch` through the internal API: with a command of its own, on a ready attempt, or on an unknown one with the evidence `confirmed-not-sent` |
| `ServiceSends` | external: the service makes its request, or stops before |
| `Refuse`, `Request`, `Respond` | the client: incomplete configuration, the request, its answer |
| `Provide` | external: the provider sends, or drops, a request |
| `RecordSent`, `RecordSentFails`, `RecordNotSent`, `Report` | `recordEvolutionResult`, from a dispatch (which tries twice) and from the internal API |
| `Mark`, `MarkFails` | `markEvolutionDispatchUnknown` |
| `ReconcileSent`, `ReconcileNotSent` | `reconcileAutomationOutbox` |

A failed call is nondeterministic about its commit: the database call may have failed
before or after it.  Evidence is true, that of an operator, of a claim and of a report:
what is declared sent was delivered, what is declared not sent is neither delivered nor in
flight, nor in the hands of a dispatch or service.  `AtMostOnce` depends on that, as does
the real system.  Of the internal API the claims and the results are modelled.  Its
completion of a row needs the identifier of the execution, which only the dispatcher
knows; its transitions, outbound messages and patches of quote requests belong to
the next modules.

### 2.3 ConversationMatrix

A snapshot is what `ConversationSnapshot` holds.  `Permitted` collects the guards of
`resolveConversationTransition` and `Resolved` its results, one arm per transition;
`BotFlowStep` is `resolveBotFlowStep`.  `ResumeNames` and `Proposed` are what the
repository decides or writes outside the matrix.  Departments are a constant, because
only "commercial" is told apart.  The policy `preventCloseWithApprovedQuote` is off, as
the code's default is.

### 2.4 Conversation

State: `conversation`, `assigned`, `contextual`, `unread` and `version` are columns of the
row; `messages` says of every message of the customer whether it was stored, and
whether it was read since; `command`, `hook` and `reply` are the open transactions.

| Action | Code |
|---|---|
| `Begin`, `Commit`, `Abort` | `transition`, and what proposals, decisions and `createHumanOutbound` write to the row: lock, read and guards; the update guarded by the version; a conflict or failure |
| `Receive`, `ReopenRow`, `Store`, `Fail` | `persistWebhookMessage`: the reading before the lock, the unguarded re-opening, everything after the lock, a transaction that is rolled back |
| `CheckReply`, `CreateReply` | `createOutbound`, which reads the row and never locks or writes it |

There is one command at a time because commands hold the advisory lock of the
conversation, and one webhook because webhooks hold that of the contact.  Between its
re-opening and its commit a webhook owns the lock of the row, so a command cannot
commit (`MayCommit`); when the command holds the advisory lock that the webhook waits
for, PostgreSQL ends one of them, which is `Abort` or `Fail`.  *Data*: whether a text came
late enough for `resume-contextual-contact`, and whether a message is a text at all, is
left open.  *Guards of proposals*: more commands are accepted than in the code (any
proposal on an open commercial conversation); what holds here holds with fewer.

### 2.5 QuoteProposal

State: the snapshot, its attendant and `contextual`, the `quotes` by sequence and the
`current` one, the `documents` with their request, batch, status and the state of their
delivery, and `operator`, the reconciliation in progress.

| Action | Code |
|---|---|
| `Transition` | `transition`, with the quote requests it opens, moves or cancels |
| `Reopen`, `Resume` | `persistWebhookMessage` |
| `CreateProposal`, `Decide`, `UpdateStatus`, `Upload`, `Send` | the operations of the panel |
| `RecordSentOfMany`, `RecordSentLast`, `RecordFailed`, `Refuse` | `recordEvolutionResult` for a proposal, with `completeQuoteProposalBatchIfReady` |
| `LoseResult` | a result that stays unknown, and isolates the row |
| `ReconcileNotSent`; `BeginReconcileSent`, `EndReconcileSent`, `AbortReconcileSent` | `reconcileAutomationOutbox`; confirmed-sent is two steps, since it takes no lock of the conversation |

`Commands` is the set of transitions that are asked for by name.  The internal API
would accept `proposal-delivery-confirmed` from a service identity; nothing in
the repository asks for it, and with it the request and its documents would part.  So the
instances (`Asked`) and the proofs (`Unasked`) exclude it, and the delivery's own
confirmation remains.  There is one reconciliation at a time.

### 2.6 AutomationFlow

State: the snapshot `conversation` and the other columns a plan depends on (`marks`), the
current `quote` request, the `inbox` of messages not concluded, `work` (the execution of the
oldest one with its two durable records, the checkpoint and the decision) and `screen`,
what the customer was shown last.

| Action | Code |
|---|---|
| `Receive` | what `persistWebhookMessage` does to the conversation and puts into the payload of the row |
| `Begin` | `decideAutomationPlan` and the checkpoint; an envelope that is not valid |
| `EndWithoutReply` | plans that leave the customer to a person |
| `Prepare`, `Correct` | the transitions before and after the question to the model |
| `Decide` | the model's answer and the decision store |
| `Patch` | `patchQuoteRequest` |
| `CheckReply`, `CreateReply` | `createOutbound`: what it reads and decides on, and what it inserts later, without a lock or a version in between |
| `Deliver`, `DeliveryFails` | the delivery of the reply |
| `Finish`, `End` | the transition after the reply, the completion of the row |
| `Crash` | a process that dies or a call that fails: the attempt counts, the records stay |
| `Attend`, `Propose`, `ProposalDelivered`, `DecideRequest` | the attendants |

A text is an option of a menu, an explicit confirmation, or no text at all.  The answer of
the model is any verdict, readable or not.  A message is delivered in one step, because
what may go wrong there is in `EvolutionDispatch`, and there is one execution at a
time, because the rest is in `AutomationOutbox`.

### 2.7 DocumentWorkflow and DocumentDossier

`DocumentWorkflow` translates `document-workflow.ts`: `ItemTransitions`, and `DerivedStatus`,
which looks only at the set of statuses of the items that are judged.  `DocumentDossier` has
the `requests` and `items` of an employee, the employee's `profile`, and in `job` what each
HTTP request in progress has read or written.

| Action | Code |
|---|---|
| `ReadUpload`, `WriteUpload` | `upload`: what it reads, and the version it writes if the item is still as it was |
| `ReadComplete`, `WriteComplete` | `completeSubmission`, with the answer of the review agent between the two |
| `ReadDelete`, `WriteDelete` | `deleteSubmission` |
| `ReadReview`, `OpenReview`, `WriteReview` | `review`: an approval writes its own rows and reads the other items of its type (`OpenReview`), then writes these one by one as it read them; other decisions are written at once |
| `ReadPolicy`, `WritePolicy` | `setItemPolicy` |
| `ReadAdd`, `WriteAdd`; `ReadRenew`, `WriteRenew` | `addRequestItem`; `renew` |
| `ReadCreate`, `WriteCreate`; `ReadBatch`, `WriteBatch` | a single request; a batch that merges into the dossier there is |
| `SaveProfile`; `ReadSync`, `WriteSync` | `updateUser` of `users.controller.ts`, and the synchronisation after it, which a crash may skip |
| `Commit`, `Abort` | the end of a transaction |

A transaction up to its last read is one step and its commit another, which is what
READ COMMITTED lets others see; a row that was written is locked (`Locked`), a unique key
makes the second writer fail.  `skewed` (observed) collects the requests whose status was
derived while another transaction changed their items; `missed` (observed) those another transaction
changed between an approval's reading of the duplicates and its writing.  An employee
starts with one dossier, or with two, as `document-management.md` knows them from before.

### 2.8 PackageImport

State: the `batch` rows with claim and lease, the conversations `conv`, the external references
`ref` and `mref`, imported (`rows`) and real (`live`) messages, the import `records`, and the
run of each worker (`job`).

| Action | Code |
|---|---|
| `StartApply`, `Claim` | validation of the package, the claim of the batch |
| `ReadConversation`, `WriteConversation` | the transaction of a conversation, between its drift check and its writes |
| `Finish`, `FailApply`, `Interrupt` | the end of a run: applied or failed; a conversation that cannot be written |
| `StartRollback`, `Rollback`, `FailRollback` | `rollback`, a serializable transaction |
| `Cut`, `Activity` | the cut-off instant passes, a customer writes |
| `Expire`, `Crash` | the lease, a process |

`Issues` is what `reconcile` reports.  `raced` (observed) are the records written over a
conversation that changed between the drift check and the write.

### 2.9 HistoryImport

State: `man`, the manifest in `whatsapp_history_import_states`; its `lease`; the `uploads` with
their bytes and what `upload.json` says of them; `disk`, what the comparison left; `history`,
`accepted` and `attached`, what the tenant has; and per process `hand` (the lock of the batch
with the manifest it will write), `flow`, `task`, `again` and `barred`.

| Action | Code |
|---|---|
| `CreateDatabaseUpload`, `CreateMediaUpload`, `AddChunk`, `AppendChunk`, `RecordChunk` | the uploads; the bytes are appended before they are recorded |
| `CompleteDatabaseUpload`, `Decrypt`, `DecryptFails`, `CloseDatabaseUpload` | the end of the upload of the database |
| `CompleteMediaUpload`, `AddMediaArchive` | the end of the upload of the media, or their handing over in one file |
| `ResolveDivergence`, `Apply`, `Cancel`, `CancelUpload` | requests |
| `Commit`, `CommitCancel`, `Refuse` | the manifest is written, or refused because the batch was cancelled |
| `ClaimBatch`, `Start`, `Release`, `Resume` | `runClaimedJob` |
| `Compare`, `PublishPreview` | the comparison with what the tenant has |
| `Load`, `CarryOut`, `ImportChunk`, `HandOver`, `Save`, `GiveImportUp`, `SaveFailure` | `runAndroidImport`; what fails reads the manifest once more and writes it back as failed |
| `Validate`, `Attach`, `PublishMedia`, `Fails` | the media |
| `Recover`, `CleanUp`, `ExpireUpload`, `InstanceDies`, `Lapse` | timers, processes, the lease |

Formats and cryptography are a success or a failure.  Progress that only moves counters
is not a step.  One step is coarser than the code: `cleanupExpiredImports` reads the row and writes
the manifest as `expired` later, without the lock (4333-4395), and `CleanUp` does both at once.  Every
other write of a manifest is split where the code is; this one would multiply the states of the run beyond
what TLC exhausts, and what it writes claims neither an import nor media, which is all that
the properties ask of a manifest.

### 2.10 Identity

State: `account`, `root` (who has the configured username), `session`, the refresh tokens
that are `alive`, how many were `issued`, the last `access` token of each session, the
password `link` rows, and in `request` the copy each request decides on.

| Action | Code |
|---|---|
| `StartLogin`, `FinishLogin`, `FirstAccess` | `AuthenticateUseCase` |
| `StartRefresh`, `FinishRefresh`, `Logout` | `RefreshSessionUseCase` and `rotate`, `LogoutUseCase` |
| `StartReset`, `StartForgot`, `IssueReset`, `IssueForgot` | the two requests of a link |
| `Delivered`, `ForgotUndelivered`, `ResetUndelivered`, `CancelReplacement` | what becomes of its e-mail; `cancelReplacement` in two steps |
| `StartComplete`, `FinishComplete`; `StartChangeOwn`, `FinishChangeOwn` | a new password by link; by the account itself |
| `CreateUser`, `StartUpdate`, `StartStatus`, `StartDelete` and their ends | the management of accounts |
| `LinkExpires`, `SuspensionEnds` | the clock |
| `Restart` | `ProductionBootstrapService` |

A password is the number of times it was changed.  `Accepted` is `JwtAuthGuard`.
`overtaken` (observed) says that a write outside the counting transactions met an account
that had changed since it was read.

### 2.11 RoutePlanning

State: `passenger`, the `route` rows with their plans, the `versions` and `approvals`, the
commands people have in flight (`request`), the history of commands as far as it matters
(`effective`, `generated`), and the `generation` under way.

| Action | Code |
|---|---|
| `AskUpdate`, `AskRecalculate`, `AskEditPlan`, `AskTransition`, `AskApprove`, `AskPublish`, `AskAgain` | the use case reads and decides |
| `Check`, `Write`, `Lose` | the transaction: command and version compared, the row updated whatever it holds by then; a failure |
| `Generate`, `SkipVehicle`, `CreateRoute`, `CheckPlan`, `SavePlan`, `CutShort` | `generate`, a transaction per route and plan |
| `UpdatePassenger`, `ChangeStatus` | passengers change |

Points, distances and times are left out: no guard reads them.  `overtaken` (observed) are
the routes a command was written to over another's, `quiet` (observed) says that nothing but
the generation has written since it began.


## 3. What is checked

`Run` names the entries of `PROJECT.json`; the passing ones are exhaustive.

| Run | Bounds | Shows |
|---|---|---|
| `OutboxExclusive` | 2 processes, 2 rows of a conversation, 2 attempts, 1 fault | with no lease lapsing under a live dispatch: one execution at a time and in order (`InOrder`), an audit row for every attempt and none left open (`AuditIsTrue`); the outbox implements `OrderedDispatch` (`RefinesOrder`) |
| `OutboxOverrun` | 2 processes, 1 row, 2 overruns, 1 fault, 1 reconciliation | a late dispatch may repeat work, but does not take a row from its newest claim, succeeds at most once and for a cause (`DeliveredOnce`) and never undoes a delivery; the row is concluded in the end |
| `Delivery` | 2 dispatches, 2 generations, 3 starts, 2 overruns, 2 faults, 1 report, 1 claim of a service | delivered at most once, also when a service claims an attempt, or claims it again with evidence; the tables claim nothing that did not happen and take nothing back, also when results are reported late, twice or out of order; what is isolated can be confirmed, or sent again (`IsolatedCanBeReconciled`); the row does not stay open for ever |
| `ConversationRow` | 2 attendants, 2 messages, 7 versions, 1 overtaken webhook | state, step and attendant fit; the unread counter is exact; a message that found the conversation open leaves it with its attendant |
| `ProposalCycle` | 2 attendants, 2 requests, 2 documents, 2 batches, 1 lost result, 1 overlap | request, conversation, documents and batches agree (`RequestFollowsQuote`, `ProposalsInOrder`); the webhook never refuses a message; a proposal that is being sent stays confirmable until a closing, and the last confirmation of a batch moves its request on |
| `AutomationFlow` | 6 messages, 2 waiting, 2 attempts, 1 disturbance | an option is read under the menu that was shown; only the customer confirms, and the summary is what was shown last, but for two screens that may cover it; the bot moves nothing and has no reply accepted beside a person (`HumanIsNotDisturbed`); whoever is promised a person gets one (`Safety`); every message is concluded |
| `DocumentDossier` | 4 operations, 2 at a time, 1 or 2 dossiers, 2 items, 2 versions | a request has the status of its items where no two transactions overlapped; a command that is stored has one effect, versions stay, approvals have a person behind them (`HistoryIsTrue`); an approval settles its type where nobody changed the request meanwhile; no upload replaces an approved document |
| `PackageImport` | 2 batches, 2 identifiers of 1 phone, 2 messages, 2 workers, 4 runs, 1 real message | an applied batch is complete and reconciles, nothing of one that was rolled back is left (`ReportIsTrue`); rollback and import keep what customers did |
| `HistoryImport` | 1 process, 2 messages (1 divergent), a database in 2 blocks, a ZIP, 1 crash, 1 detour | one job at a time, media after messages, applied means complete (`JobsAreOrderly`); the bytes received are a prefix of the file; an import comes to an end |
| `Identity` | 3 accounts, 4 requests, 2 at a time, 2 sessions of 2 rotations, 2 links, 1 restart | an administrator remains but for an unguarded write; tokens, access and links answer to the current password (`CredentialsAreSound`); a session that ended stays ended |
| `RoutePlanning` | 3 passengers, 2 vehicles of 1 seat, 4 commands, generations or changes, 2 commands in flight | a plan fits its vehicle or says that it needs another, except where one command was written over another, and a generation leaves everyone on one route (`PlansHold`); what is approved is what was reviewed |
| `IdentityFinding` | 3 requests | the finding of section 5 |

Ten of these properties are conjunctions with named parts, each with a comment of its
own in the module: `AuditIsTrue`, `DeliveredOnce`, `IsolatedCanBeReconciled`,
`ProposalsInOrder`, `Safety`, `HistoryIsTrue`, `ReportIsTrue`, `JobsAreOrderly`,
`CredentialsAreSound` and `PlansHold`; those of the newer modules include its type invariant.

**Why these bounds.**  *Outbox.* Order needs two rows of a conversation, and exclusion two
processes (a third only repeats the second; both are symmetric).  Two attempts make
one retry and one exhaustion.  One fault at any step already makes a call whose reply
is lost followed by its compensation, or a crash in any stage; two overruns let two late
dispatches meet a third.  A message needs two generations to be re-opened, and three
starts for one that is sending, one that isolates and one that comes later.  One claim of
a service either goes ahead of the dispatches or follows one whose attempt was isolated.
Overruns are bounded separately because they are what the configuration excludes:
`src/infra/config/environment.ts` (365-425) refuses to start unless the execution
lease exceeds the AI's time limits, the sending limit and 30 s, so only a stalled
process overruns.  Hence the properties that need the absence of overruns are
checked (and proved) with `MaxOverruns = 0`, and everything that has to hold even so
is checked with overruns.

*Conversations.* A command and a webhook interleave in all their steps with 6 versions; the
seventh leaves one more command after both.  Two messages are needed for a count that is
not 0 or 1.  `MaxOvertakes` bounds the one interleaving that is a finding.  Two
documents make a batch that is partly sent, two batches one that
competes, and two requests one that was superseded; `MaxOverlaps` bounds what
commits during a reconciliation, which has no lock.  In `QuoteProposal` nothing else is
bounded: transitions go round for ever.  Six messages lead a customer through the longest
way of `AutomationFlow`: menu, commercial menu, collection, summary, confirmation and one more
that follows up.

*Back office.* The hazards are pairs of overlapping operations, so two workers; what a
pair left behind is then met by a third and a fourth operation.  Two dossiers of an item
each make an approval that settles an item of another request, and an operation on that item
between its reading and its writing; from one dossier the second item, or the second request, is
added meanwhile.  Two packages, the second
bringing an identifier of the first again and an alias of its phone, make an import over
an import and a rollback under one.  One process runs all jobs of a history
import, and interleaves them with its requests; two were too many states to exhaust, and the
module is written for any number.  Three passengers for two seats leave one over.

Where a finding refutes a promise, the passing runs check what remains of it:
`MessageKeepsAttendant` for messages that found the conversation open;
`OnlyClosingPreventsConfirmation` and `UndisturbedConfirmationCounts` without a closing or an
overlap; `HumanIsNotDisturbed` for what is moved or accepted, and for the reply of an execution that
nobody overtook between its check and its insert; `ConfirmedByCustomer` with the two screens that
may cover the summary (section 5); `AdministratorKept`, `StatusFollowsItems`, `ApprovalSettlesType`, `ImportKeepsActivity`, the
conversations of `ReportIsTrue` and `RollbackKeepsActivity`, the plans of `RoutePlanning` except where
`overtaken`, `skewed`, `missed` or `raced` records that two transactions ran into one another.  These variables
decide nothing, they only observe.  So those properties would not notice such an overlap: that it
happens, and what it does, is what the counterexamples of section 5 show.

**Fairness.**  All of it is weak fairness.  In `AutomationOutbox` and `EvolutionDispatch` ticks
are fair because `setInterval` fires in every process; dispatch steps because a promise whose
call returns is resumed; `Lapse` of an orphan, `BackoffEnds` and `Mature` because the clock
advances.  In `AutomationFlow` the execution of a message is fair, for the same reasons: the
queue under it is the one whose liveness the outbox shows.  In `HistoryImport` a request or
job goes on with what it began (`Locked`, `Job`), the recovery timer fires (`Recover`), and a
lease nobody renews runs out (`Lapse`).  Nothing is assumed of faults, overruns, arrivals,
reports, customers or operators; a bounded number of faults is what "eventually" means
here: the system recovers once failures stop.

**Deadlock.**  `AutomationOutbox` is checked for deadlock: a dispatcher can always tick;
so is `QuoteProposal`: someone can always act.  In the other modules a behaviour ends
when the bounds on messages, operations, requests or runs are used up and what
was begun is done: they set `CHECK_DEADLOCK FALSE`.

**Mutants.**  Every property has a mutant in `PROJECT.json`: a definition replaced by
a plausible slip, under which the property fails.

## 4. What is proved

For every set of conversations, processes, accounts, documents, passengers and requests, and
all values of the bounds.  Where a theorem states a property of a run, the run shows it on a small
instance.

| Theorem | Statement | When |
|---|---|---|
| `AutomationOutbox_proofs!TypeCorrect`, `NewestClaimOwns`, `SuccessIsKept` | `TypeOK`, `NewestClaimOwnsRow`; the audit never takes a success back | |
| `AutomationOutbox_proofs!DeliveredHasCause` | a row is delivered only for an execution that succeeded, its own or the one that consumed it, or for an operator | |
| `AutomationOutbox_proofs!SucceedsOnce`, `DeliveredIsKept` | a row succeeds at most once, and stays delivered, unless another row may absorb it | |
| `AutomationOutbox_proofs!SucceedsForCause`, `DeliveredForGood` | `DeliveredOnce`: at most one success per row, and delivered exactly when it or the row that absorbed it succeeded or an operator confirmed that very row; `DeliveredIsFinal` | no overruns |
| `AutomationOutbox_proofs!ExecutedOneByOne`, `ClaimedInOrder` | `OneRowPerConversation`, `InOrder` | no overruns, no reconciliations |
| `AutomationOutbox_proofs!AuditTells` | `AuditIsTrue` | no overruns, no reconciliations |
| `AutomationOutbox_proofs!ImplementsOrder` | `RefinesOrder`: the outbox implements `OrderedDispatch` | no overruns, no reconciliations |
| `AutomationOutbox_proofs!HandledOneAtATime`, `NothingOvertaken`, `ConcludedForGood` | what the order promises: `OneAtATime`, `NoOvertaking`, `DoneIsFinal` of `OrderedDispatch` | |
| `AutomationOutbox_proofs!OutboxKeepsTheOrder` | these three of the outbox itself | no overruns, no reconciliations |
| `EvolutionDispatch_proofs!TypeCorrect`, `DeliveredAtMostOnce` | `TypeOK`, `AtMostOnce` | |
| `EvolutionDispatch_proofs!StatusIsKept`, `DeliveredRowsAreSent`, `IsolationHasAWayOut` | `NeverTakenBack`, `DeliveredMeansSent`, `IsolatedCanBeReconciled` | |
| `ConversationMatrix_proofs!ResolvedFits`, `ResolvedRequest` | what every permitted transition makes of a snapshot | |
| `Conversation_proofs!RowTypeCorrect`, `RowAlwaysFits`, `UnreadAlwaysExact`, `AttendantIsKept`, `VersionsNameStates` | of `Conversation`: `RowTypeOK`, `AttendanceFits`, `UnreadIsExact`, `MessageKeepsAttendant`, `VersionNamesState`, overtaken webhooks included | |
| `Conversation_proofs!TypeCorrect`, `AttendanceAlwaysFits`, `RequestAlwaysFollows`, `DecisionsAreFinal` | of `QuoteProposal`: `TypeOK`, `AttendanceFits`, `RequestFollowsQuote`, `DecisionIsFinal` | `Unasked` |
| `Conversation_proofs!ProposalsGoInOrder`, `InboundIsAccepted`, `OnlyClosingPrevents`, `ConfirmationCounts` | of `QuoteProposal`: `ProposalsInOrder`, `InboundIsNeverRefused`, `OnlyClosingPreventsConfirmation`, `UndisturbedConfirmationCounts` | `Unasked` |
| `AutomationFlow_proofs!FlowIsSafe`, `HumanNotDisturbed`, `OptionsReadUnderShownMenu`, `CustomerConfirms` | `Safety`, `HumanIsNotDisturbed`, `AnswersShownMenu`, `ConfirmedByCustomer` | |
| `Identity_proofs!SessionsEndForGood`, `OneToken` | `SessionEndsForGood`, `OneTokenPerSession` | |
| `Identity_proofs!CredentialsSound` | `CredentialsAreSound` | |
| `Identity_proofs!AdministratorIsKept` | `AdministratorKept`: an administrator remains, unless an unguarded write met an account that had changed | |
| `DocumentDossier_proofs!TypeCorrect`, `StatusFollows` | `TypeOK`; `StatusFollowsItems`, except in requests two transactions changed at once | |
| `DocumentDossier_proofs!HistoryTrue` | `HistoryIsTrue`: versions, submissions and decisions agree; a command makes one submission, decision or request (a batch merged into a dossier makes none of these) | |
| `DocumentDossier_proofs!UploadKeeps`, `ApprovalSettles` | `UploadKeepsApproval`; `ApprovalSettlesType`, except in requests another transaction changed meanwhile | |
| `BackOffice_proofs!PlansAlwaysHold` | `PlansHold`: `TypeOK`, `FitsUnlessFlagged` (but for routes where one command was written over another), `EveryoneOnOneRoute` (but for generations beside which something was written) | |
| `BackOffice_proofs!ApprovedAsReviewedHolds` | `ApprovedAsReviewed`, with the same exception | |
| `BackOffice_proofs!ReportsAreTrue` | `ReportIsTrue`: `ImportTypeOK`, `AppliedIsComplete`, `AppliedReconciles`, `RolledBackIsGone` | |
| `BackOffice_proofs!RollbacksKeepActivity`, `ImportsKeepActivity` | `RollbackKeepsActivity`, `ImportKeepsActivity` | |
| `BackOffice_proofs!HistoryJobsAreOrderly` | `JobsAreOrderly`: `HistoryTypeOK`, `ImportIsComplete`, `MediaAfterMessages`, `OneJobAtATime` | |
| `BackOffice_proofs!HistoryReceivedIsPrefix` | `ReceivedIsPrefix` | one process takes requests |

"No overruns" is `MaxOverruns = 0` (no lease lapses under a living worker), "no
reconciliations" `MaxReconciliations = 0`, "`Unasked`" that nobody asks for
`proposal-delivery-confirmed` by name (section 2.5), "one process takes requests" that `Front` has at
most one element (the other `Instances` run jobs).  The assumptions on constants that the modules
declare (`BoundsAssumption`, `DispatchAssumption`, `DepartmentAssumption`,
`ConversationAssumption`, `QuoteAssumption`, `AutomationFlowAssumption`, `IdentityAssumption`, `DossierAssumption`,
`RoutePlanningAssumption`, `NoneIsNoRow`, `PackagesAreRows`, `AbsentIsNoRow`,
`BackupIsRows`, `NilIsNoValue`) give their types and keep values apart;
`DossierAssumption` says besides that the catalogue is finite and that some document in it is
asked of everybody, `RoutePlanningAssumption` that nobody is on the roster twice, `PackagesAreRows` that no package
is empty, `BackupIsRows` that a backup has finitely many messages.  TLC evaluates them in every run of their modules.

*Outbox.*  A lemma for every action says what it does to one row (`Effect`: kept, created, taken,
swept, accepted, rejected, saved, absorbed, reconciled); the invariants are then shown
for one row at a time against those effects.  `NewestClaimOwnsRow` is inductive together with
`TypeOK`: a claim names the length of the audit as the owner and every other writer
of the owner clears it.  The case worth reading is `SaveCompletion`, which writes by
primary key: it cannot touch a row claimed since it read it, because `Lapse` needs
the lease to be over and a lease outlives a completing transaction.  `AuditInv` adds that
a dispatch whose execution succeeded has saved and does not hold its row, which is why a
success stays one.  `DeliveredInv` adds that one completion of a row
is saving at a time and none when the row is delivered.  It is kept without any
assumption by rows that are not `Absorbable` (deliveries and reconciliations, and the first row of a
conversation): nobody but their own executions writes them.  That a cause also delivers (`CauseDelivers`)
uses that what was delivered stays so, and `reconciled`, which only a confirmation of that very row sets.  A customer's message with rows before it may be
absorbed by the batch of an earlier one, and for these the proof needs that there are no overruns; section 5
says what remains possible with them.

Exclusion is not inductive.  It follows from `ExclusiveInv`: `LiveInv` (a dispatch
that acts on its row holds the row, so there is one per row), `QueueInv` (rows are created in
their order) and, without reconciliations, `InOrder`.  `MaxOverruns = 0` is used in the step
`Lapse`, `MaxReconciliations = 0` in `Reconcile`: these are exactly the two steps that may
break the order.  `AuditIsTrue` needs `CountInv` besides: every claim is an attempt, and only
the newest audit row of a row in progress is open.  The refinement is proved step by step from
the conjunction of all of them (`OrderlyInv`): creating a row arrives, a claim starts, a
completion finishes the row together with the rows it absorbs, and every other step leaves
the phase of all rows as it was.

*Delivery.*  `AtMostOnce` follows from `DeliveryInv`: `SingleRequest` (per generation, the
right to send is in one place only: the ready attempt, one dispatch or service that is
sending, one request in flight or one delivery) and `OneGeneration` (earlier generations can
neither be sending, in flight nor delivered).  A claim command that exists already is
never told to send, and a lapsed lease isolates the attempt.  An isolated attempt is sent again
in two ways only, a new generation and a fresh claim of a service, and both name evidence that it was
not sent.  That this evidence is true is an assumption of the model (`NeverSent`), and the theorem says no
more than it: who declares a message not sent that was sent has it delivered twice.
`DeliveredMeansSent` joins to that `SenderInv` (whoever is still to record a result is alone in his
generation, and it has none) and `ResultInv` (whoever reports success knows of a delivery).
`IsolatedCanBeReconciled` needs `IsoInv`: while a message has no result, neither has its latest attempt.

*Conversation.*  `AttendanceFits` is inductive by way of the matrix alone: `ResolvedFits`
shows once, for all transitions, that state and step fit before and after, and the
transactions only have to supply the attendant.  `UnreadIsExact` is not, because a command
writes back what it read.  `ConversationInv` adds `LockInv` (while a command
holds the lock, version, counter and guards are still what it read) and `HookInv` (the
webhook's message is not stored yet).  A webhook stores only when the lock is free,
which is the step that needs it.  `MessageKeepsAttendant` then looks at the one step that
stores a message.

*Proposals.*  `QuoteInv` joins `TypeOK`, `AttendanceFits` and `RequestFollowsQuote` with
`QuotesAhead` (requests that were not opened are untouched, which makes the next
one new), `DocumentsAttached` (a document that exists belongs to an opened request)
and `OperatorInv` (what a reconciliation that is not stale has read still holds, so that it
completes the batch of a request that is under review).  `RequestFollowsQuote` needs
the latter because the reconciliation writes without a lock.  The properties of the deliveries
need `CycleInv`, which adds where a conversation stands while a document is on its way
(`StandsInv`), that the documents still to be sent are of one batch and of a confirmed request
(`BatchInv`), that only a proposal that was sent is answered (`AnswersAProposal`), and
what the operator knows as long as nothing is committed beside him (`KnowsInv`).

*Automation.*  `FlowInv` is about one execution and the conversation it was planned for.  `WorkInv` says which
plans are made (`PlanShape`), what the stage of an execution says of its durable records (`StageInv`)
and in which order its commands were done (`DoneInv`).  An execution nobody overtook still meets the
conversation it was planned for: it is the bot's (`BotInv`) and in the step the plan starts from (`StepInv`);
every attendant's action makes it stale, and a message that arrives changes at most an open
conversation.  That is the whole of `HumanIsNotDisturbed`: what moves the conversation checks its version, what
accepts a reply has just read it, and the insert that follows relies on that reading, so beside a person it can
only be that of an execution which is stale.  The last case is real (section 5).  `SummaryInv` says what was shown last where a request waits to be confirmed, `MenuInv` the
same of the menus while no attendant has acted, which needs `AloneInv`: until then nobody but the
automation moves the conversation, and only its first message opens it.  Most commands touch
neither the conversation nor the screen, and one lemma serves them all; the transitions use the
theorems of the matrix.  What is left of the inbox after a batch is given by ranks of its rows, and that the
ranks are a numbering is well-founded induction.

*Sessions.*  `SessionInv` joins what is alive with what was issued: only the token issued last
in a session can be alive, and a session nobody opened has none (`TokensInv`); a request that
logs in names an account and one that refreshes names a token (`RequestsInv`).  Every step but
`FinishLogin` and `FinishRefresh` only takes tokens away (`Revokes`).  A login opens the next
session, which was never opened.  A refresh adds a token only in exchange for one that is
alive, which is the guard of `rotate` in the database: without it a session that
was revoked while the refresh was under way would come back.

*Accounts.*  The version of an account stands for its password: every step that changes the
password raises the version, and none lowers it (`Onward`).  So what a request read, and
what an access token was signed with, is true of the account now or its version is over
(`Past`), which `IdentityInv` says of every request (`WorkInv`), session (`CredentialsInv`) and link (`LinksInv`).
`AdminInv` says that, unless an unguarded write met a changed account, deleted accounts
have no administrator's rights left and some live one has: a transaction that counts then counts what it should.
The next session and the next link are a smallest and a largest number; that these exist is shown by
well-founded induction on finite sets.

*Documents.*  `DossierInv` has five parts.  `TablesInv` is the type of the tables, with items
that are `Sound` (as many submissions as versions, numbered in order, and a decision behind every
approval).  `JobsInv` says what a request still has of what it read (`WorkOK`) and what a
transaction that is open will commit (`TransactionOK`): its rows continue the rows they replace,
each submission and decision it adds bears its command, that command has had no effect yet,
and the statuses it derived are those of its rows and of what was committed, except where another one committed meanwhile.
An approval between its reading and its writing has read what is open of its type, but for what others
committed since (`ReviewOK`, `SettlesAll`).
`LocksInv` says that open transactions share neither rows nor commands.  `OneEffectInv` is `OneEffectPerCommand`
pairwise, and `StatusFollowsItems` the property itself.  Every operation that writes has one lemma, which
shows its rows and hands them to `HoldStep`; the work is in `Commit`, of which each part is
shown separately: it leaves the rows of the other transactions alone because they are locked, their commands
unspent because keys are unique, and the requests it does not touch as they were (`CommitElsewhere`).

*Routes.*  `PlanningInv` rests on versions.  Every write raises the version of its row, so whoever
still has the version of the row knows what he read of it: a command (`CommandInv`, `Justified`) that an
approval is of a plan under review with everyone seated, that a plan fits the capacity; the generation
(`PlanJustified`) the same of its plan.  A command that is behind writes all the same, and its route is then
`overtaken`, of which `RowSound` says nothing.  The snapshot that an approval which was overtaken will name must
still exist, which is the last part of `CommandInv`.  `QuietInv` says that a generation completes one vehicle
after the other, also when it was cut short and sent again.  That a calculated plan fits is a counting
argument: ranks in the order of the roster differ (`RanksDiffer`), so no more than n passengers have a rank below
n (`RanksBound`); that everyone is on one route follows because the groups of the vehicles share
the passengers out (`GroupsPartition`).

*Packages.*  `ImportInv` has eight parts.  `ShapeInv` and `IdsInv` are the tables: the identifier of a
conversation is never given again and keeps its phone.  `PackageInv` ties a record to the package of
its batch, once for each conversation; `ReferencesInv` ties a reference to the one applied record that made it.
The core is `ChainInv`, about conversations that were not raced: the versions their applied records
left ascend in the order of the application, none beyond that of the row, and no later one created a
message an earlier one needs.  A rollback that finds no drift therefore undoes the last applied record of each of its
conversations, and the row it restores is again what the record before it left (`LastOfChain`, `RestoredRow`).  A
raced record breaks the chain, which is why the properties leave its conversation out (section 5).
`LiveInv` says that real messages in a conversation an import created are newer than the
cut-off of that import, so that a rollback which removes the conversation is blocked by them.  `BatchInv` says what the end of a run leaves, and
`JobsInv` what a run still knows after another took its batch: the records it counted on stay, because
a batch that was rolled back is never claimed again.  Every action has one lemma; the three that
write conversations have one step for each part.

*Backups.*  Requests and jobs of the history import carry copies of the manifest and write them back
later, over what somebody else wrote.  `ManifestInv` therefore says of every copy (in `man`, in
`hand`, in the `snap` of a job) the same, `ManifestOK`, and says it only of the tenant: that everything was brought and
decided where the copy says `applied`, and that all media are linked where it says `completed`.  What the tenant
has only grows (`Grows`), so what is said of it stays true (`TruthStays`), and an old copy does no harm.  An import
counts on the files and not on the tenant, hence `DiskInv`: what a comparison left is still the whole
difference, but for what was brought since.  A job says the same of what it has loaded
(`TaskInv`), whatever becomes of the files.  `LeaseInv` says that, unless somebody cancelled, the lease
is with the one job that works; `HandInv` that a lock which publishes is waited for by its job.  Every
action has one lemma, and most of them only have to show that the tenant grows.

For the bytes `BytesInv` follows a block: as long as a request has the lock, the file is the blocks
before its own, then these and its own, or the file is gone.  Whoever else is at work only changes the status of
the session or removes it (`Fades`).  That no other process takes requests is needed where a lock is
taken and where a block is appended and recorded; section 5 says what happens otherwise.

**Only model-checked**: liveness (the prover does not do fairness).  Some theorems have no run of their own: those about `OrderedDispatch` (`RefinesOrder`
relates it to the outbox), the type invariants, the parts of `DeliveredOnce` and `DeliveredIsFinal` that hold
in spite of overruns, `OneRowPerConversation`, `VersionNamesState` and `DecisionIsFinal`.

## 5. Findings

**No administrator left** (`IdentityFinding`).  `UpdateUserUseCase` decides on the account it
read whether the update has to go through the transaction that counts administrators;
otherwise the row is written without comparing it again
(`prisma-users.repository.ts:367`).  An update that read the account before it was promoted
takes the right away again, although by then it is the only administrator's.
`docs/architecture.md:202-205`: an explicit administrator remains, also under concurrent
demotion and deactivation.  `AdministratorKept` is what holds: no other way leads there.

### Other disagreements seen while modelling

Each was reproduced as a counterexample of its model when it was found; the properties that
remain true beside it are in the runs.  For six of them a configuration is kept that finds the counterexample
again; it is no entry of `PROJECT.json`, and is run by hand, as in
`tlc -config ReplyFinding.cfg MCAutomationFlow`:

| Configuration | Module | Refuted | Beside it holds |
|---|---|---|---|
| `TakeOverFinding.cfg` | `MCConversation` | `TakeOverStands` | `MessageKeepsAttendant` |
| `ReplyFinding.cfg` | `MCAutomationFlow` | `SilentWhileAttended` | `HumanIsNotDisturbed` |
| `ProposalFinding.cfg` | `MCQuoteProposal` | `LastConfirmationCounts` | `UndisturbedConfirmationCounts` |
| `DossierFinding.cfg` | `MCDocumentDossier` | `ApprovalRecalculates` | `StatusFollowsItems` |
| `PackageFinding.cfg` | `MCPackageImport` | `ImportIsSerializable` | `ImportKeepsActivity` |
| `RouteFinding.cfg` | `MCRoutePlanning` | `PublishedIsApproved` | `ApprovedAsReviewed` |

The properties of actions among them are checked under fairness, so that the
counterexample does not rest on a system that stops.  Line numbers without a file are those of
`prisma-whatsapp.repository.ts`.

* *Two executions of one event.*  When the update of `markAccepted` matches no row, any audit
  status other than `CLAIMED` is read as success (`whatsapp-automation-event.store.ts:299`),
  also `EXPIRED`: a dispatch that stalled and whose row was taken over executes the event beside
  the active execution.  `docs/whatsapp-api.md:72`.  Idempotent commands keep the damage
  small: `DeliveredOnce`, `AtMostOnce`.
* *Closed while a proposal is being sent.*  `transition` makes take-over, return-to-bot,
  forward and new-quote-request wait for a queued proposal (1469-1493), but not close; the
  confirmation is then refused.  `docs/whatsapp-mvp.md:44`.
* *A batch that nobody completes* (`ProposalFinding`).  The reconciliation of a sent proposal (4038) does not take
  the lock of the conversation; beside the result of the other document of a batch, each
  counts the other as queued.  Same line of the documentation.
* *A take-over undone* (`TakeOverFinding`).  The webhook re-opens with what it read before the lock, naming no
  version (1044), and removes an attendant who took the closed conversation over in between.
  `docs/architecture.md:117`.
* *A message left in a closed conversation.*  A closing that commits between the webhook's
  reading (955) and its lock.  `docs/whatsapp-api.md:103`.
* *A reply after a take-over* (`ReplyFinding`).  `createOutbound` reads the conversation without its lock
  and inserts the message later without comparing its version (2204-2336).  `docs/whatsapp-api.md:165`.
* *A dossier with the status of before* (`DossierFinding`).  An approval recalculates the dossiers it
  affects from what its transaction sees (`document-management.use-case.ts` 2779-2797), and an operation on
  one of them at the same time does too (2095): each counts the item of the other as it was before.
  `docs/document-management.md:50-54`.
* *Published without approved version* (`RouteFinding`).  A publication and an update of the base data overlap:
  both compare the version first and write later (`prisma-route.repository.ts` 452-466,
  777-784), and the published route has lost its approved version.  `README.md:186-188`.
* *Imported over new activity* (`PackageFinding`).  The package import compares a conversation and writes it at
  READ COMMITTED (`whatsapp-import.service.ts` 2415-2445);
  `docs/whatsapp-conversation-import.md` says that each conversation is written in a
  serializable transaction.

### Behaviour worth a decision

* *Outbox and delivery.*  A row whose attempts are used up before its message was ever claimed
  cannot be re-opened (3896).  A delivery reported without the provider's identifier isolates
  its row for ever.  A late failure report of an earlier attempt makes a re-opened message
  failed, and its real delivery can then not be confirmed (2884-3040).  With three overruns or more one chain of
  events is not excluded: a row re-opened by the late completion of an earlier batch is claimed again and
  rejected while that batch absorbs it, and then its own first completion, which writes by primary key,
  overwrites the delivery.  TLC does not reach it within its bounds; the theorems `SucceedsOnce` and
  `DeliveredIsKept` leave out exactly the rows it could happen to (`Absorbable`).
* *Automation.*  A message planned before another one moved the conversation is retried in vain
  with the version of its checkpoint.  The retry of a failure after the decision was stored asks
  another question than the stored one answers, and never succeeds.  A request that an
  attendant cancels during its collection is collected further after a return to the bot
  (`conversation-transition.matrix.ts:87`).  The summary a customer confirms need not be what was shown
  last: the message that re-opened a conversation shows the main menu also when older messages went before it
  and have asked for the confirmation again, and the hand-off of a message given up before the person was
  called leaves the conversation where it was.  It takes five messages with three of them waiting to
  meet the first, which is what the proof of `ConfirmedByCustomer` brought out.
* *Documents.*  Two operations on one request may each miss the item of the other in its
  status (`document-management.use-case.ts:2095`).  A review checks neither version nor
  status of what it decides on.  An approval waives the duplicates it has read without
  looking at them again (2659-2745), so that one which was decided or changed in between is overwritten; two approvals of one
  type wait for each other's rows, and PostgreSQL ends one of them.  A batch that is merged into a dossier
  there is does not store its command (1158-1277): sent again, it re-opens the documents that were approved, waived or
  cancelled since.  `completedAt` is not cleared again.  A required item that the
  synchronisation cancels leaves `partially-submitted` for ever.  Two batches at once create two dossiers.  A crash between the update of a user
  and its synchronisation leaves the dossier behind (`users.controller.ts:245`).  The status
  `expired` is read but never assigned.
* *Package import.*  A batch with two identifiers of one phone can never be rolled back.  The
  rest of a batch that failed half way is refused after a customer wrote.  A rollback restores
  the version number, so that a client's older copy fits again.  If the import it undoes had been written
  over another one between its check and its write (`whatsapp-import.service.ts:2547`), the number fits a batch before both again, and
  that one can be rolled back under a later one that is applied and needs its messages.  It takes three batches
  of one conversation to meet this, which is what the proof of `RollbackKeepsActivity` brought out.
* *History import* (`whatsapp-history-import.service.ts`).  A crash while `upload.json` says
  `processing`, or between it and the manifest, leaves the upload unusable (3614-3625,
  3706-3735).  A block that was appended and not recorded does the same (1590-1625).  So do
  two processes that take the same block: the lock of a batch is one of the process (4541-4553), both find the file as
  long as its record (1590-1597), and the block is in it twice, which is what the proof of `ReceivedIsPrefix` brought
  out.  A comparison
  is not recovered while the status of a media upload hides it (443-473).  A write after a
  cancellation may put the batch back (4072-4102).  A job whose first write is refused
  rejects a promise that nobody handles, which ends the process (2398-2414).  The
  cleanup takes no lock (4333).
* *Accounts.*  A login that was under way during a password change, a deactivation or a deletion
  still stores its refresh token (`authenticate.use-case.ts:111`): its access token is refused,
  but the refresh token is good for another one once the account may work.  A logout and a refresh at once leave the session alive
  (`logout.use-case.ts:17`).  Two failed resets at once lose a valid link; the
  undoing of one may re-open a link that was replaced again
  (`prisma-password-change-challenges.repository.ts` 69-104).
* *Routes.*  A generation that is sent again with a changed roster plans with both
  (`routes.use-case.ts` 163-217).  One under a new command meets the codes of the first for
  ever (171-199).  A command that was completed is refused when it is sent again, before its
  repetition is recognised (415, 441, 496).

## 6. Plan

Modelled first were the outbox and the delivery, because every message passes through both and
they hold the system's concurrency; then the conversations and the commercial cycle, which
everything else acts on; then the automation's plans, the two imports, documents, accounts and
routes.  What is left, in this order:

1. Composition of `AutomationOutbox` with `EvolutionDispatch`: the delivery as the content of
   an outbound execution.
2. The history import from exported chats, and two processes on one batch.
3. Contracts, companies and passengers, whose versions work like those of routes; the
   deduplication of webhooks and the echoes of outbound messages.

## 7. Not modelled

Pure input and output (storage, exports, geocoding, mail), parsing and layout (imports'
file formats, workbooks, texts of messages), the answers of the language model (a
nondeterministic outcome where they matter), wiring and validation.  In particular:

* *Data exchange, notifications, support, metrics, health, storage*: conversions and calls of
  services, no state that steps could disturb.
* *Licensing and retention*: a licence is verified without state; retention deletes by age.
* *Of conversations*: `ensureConversationForPhone`, echoes of outbound messages, media and
  profile pictures; of `patchQuoteRequest` only what the plan depends on.  The re-opening of
  inbound rows isolated by a removed provider is a one-off migration path and left out of
  `Reconcile`.  A customer who writes more often than the debounce keeps the first message
  waiting (`whatsapp-automation-event.store.ts:172`): arrivals are bounded here, so this
  starvation is out of the model's reach.
* *Of documents*: the catalogue, checklists, corrections of extracted data, exports, files.
* *Of the history import*: exported chats in ZIP files, a living process that loses its lease.
* *Of accounts*: rate limits, failed logins, expiry of sessions by age, departments, profiles.
* *Of routing*: the optimiser's geometry, contracts, companies, fixed points, and the passenger
  workbook.
