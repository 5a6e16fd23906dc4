# Formal models of UDM DocTrack

UDM DocTrack is a Django program with which the offices of a university route
paper and digital documents to each other, and file the finished ones in a
shared repository. PostgreSQL is its only coordination point: web requests and
two background workers (django-q2) change the same rows.

This directory holds TLA+ models of that program, TLC runs that check them on
small instances, and TLAPS proofs about them. Paths below are relative to
`src/`. Findings come in section 7, what is not modelled in section 8.

## 1. Inventory

| component | state it keeps | operations | correct when |
|---|---|---|---|
| **Internal document tracking** (`apps/tracking/services.py`, `models.py`) | `TrackingRecord` (status, current office, holder, current batch, number), `RoutingStep`, append-only `RecordActivity`, `TrackingNumberSequence` | create draft, send, forward, return, confirm receipt (one, bulk), remark, attach, upload a version, mark in process, complete, approve, reopen, grant access | custody is a chain of receipts; the cached columns agree with the steps; history is never rewritten; numbers have no gap; filing happens once, after work finished in somebody's hands |
| **Queues, tags, badges, dashboard** (`apps/tracking/services.py`, `filters.py`, `apps/core/views.py`, `analytics.py`) | none: each is a query of its own | queues of an office, direction tag and Confirm button of a row, overdue charge, report splits, dashboard ring | the queries agree with one another and with the permissions |
| **Notices and the chase** (`apps/core/notifications.py`, `core/tasks.py`) | `OfficeNotification` rows, open until `resolved_at` | raised and answered by the services; a daily job reminds senders of unreceived batches and warns holders of passed deadlines | an open notice is true, told once, and comes in the end |
| **Transactions and row locks** (`apps/core/permissions.py`, all services) | PostgreSQL row locks, one advisory lock | `active_writer`, `locked_mutation`, `select_for_update` in each service | no transactions block each other for good |
| **Accounts, capabilities, restrictions** (`apps/accounts/views.py`, `capabilities.py`, `permission_admin.py`, `admin.py`, `core/mixins.py`, `core/admin_site.py`) | accounts, restriction policies with a revision | change, suspend, promote, delete, recover, restrict an account | a write is still allowed when it commits; a stale form is refused; a ready administrator remains |
| **Email one-time passwords, invitations** (`apps/accounts/otp.py`, `email_security.py`) | challenges with generation, attempts, expiry; sessions with a stamp | begin, deliver, resend, verify, cancel, invite, change or recover an address | a session or a verified address rests on a mailbox that was reached; nothing outlives a recovery |
| **Document repository** (`apps/documents/services.py`, `tasks.py`, `core/storage_references.py`) | `Document`, files, stored objects, deletion state | upload, read, retry, request / review deletion, restore, purge | a document and its objects go together; what it shows of its reading is so |
| **Document processing** (`apps/documents/processing.py`) | per file and generation a run (state, lease, attempts), units, document status and text | request, claim, read, OCR, publish, recover | one published run per file; accepted text is never lost; work ends |
| **Topics: inference and automatic tags** (`tagging.py`, `automatic_tags.py`, `inference_jobs.py`, `tag_application_jobs.py`, `lifecycle.py`) | tags with counters, contributions, reviews, models with their snapshot, intents with leases, suggestions | review, replace, merge, train, activate, suggest, apply, roll back | a person's decision is not overwritten; counters are exact; an answer fits what was read |
| **Uploads and stored files** (`apps/core/upload_drafts.py`, `upload_forms.py`, `storage.py`, `file_lifecycle.py`, `file_maintenance.py`) | drafts, staged files, storage keys, cleanup intents with leases, retained versions | stage, discard, finalize, replay, retire, clean up | a referenced object is never deleted, an unreferenced one is in the end; a form submits what its page showed |
| **External tracking** (`apps/tracking/external_services.py`, `external_models.py`, `external_views.py`) | external cases with a revision, dispatches, late reports, corrections | route, receive, report, correct, complete, file, chase | the history keeps its order however late it is told; a form decides on what it showed |
| **Business time** (`apps/core/business_time.py`) | none (calendar rows) | working time between two instants | agrees with counting working minutes |
| **Search, text extraction, OCR, model fitting, rendering** | derived data | queries, third-party readers, numerical learning | outside this project, section 8 |

How the parts meet:

- A **view** parses a request, opens a transaction through `locked_mutation`
  (`apps/core/permissions.py`) and calls one service. The wrapper locks the
  actor's row, then the record's, re-reads both, and re-evaluates the
  permission under those locks. Two services on one record therefore never
  overlap: a service is one atomic step of the models, and what that costs in
  lock waits is a model of its own (`RowLocks`).
- The services write **notices** in the same transaction. The **chase** and the
  other jobs run outside, read candidates without a lock, and handle each one
  later in a transaction of its own.
- **Filing** (`archive_tracking_record`) creates the repository document in the
  transaction that completes the record. Processing, tags and search indexing
  of that document start after the commit, from a queue.
- **Stored objects** take no part in a transaction. Rows commit before or after
  the bytes they name; intents left behind by the transactions remove what no
  row names.
- **Account changes** are serialized by one advisory lock; ordinary work only
  locks the rows it decides on.

Hard to test, and therefore what the properties are about: interleavings of
services of several offices holding one record; cached columns that a service
forgets to recompute; candidates that are stale when a job handles them;
overlapping and killed jobs; lock orders; leases that expire under a live
worker; objects stored before their rows commit; forms submitted after what
they showed changed; mail that arrives late; histories that are reported late
and corrected. `PROJECT.json` lists every such hazard at its line, with the
properties that cover it.

## 2. Modules

| module | models | uses |
|---|---|---|
| `Tracking` | the custody services of internal tracking | |
| `Custody` | the abstract promise: who holds a document | |
| `TrackingCustody` | the refinement mapping from `Tracking` to `Custody` | both |
| `Queues` | what the pages say of the records | `Tracking` |
| `TrackingNotices` | notices, time and the chase job beside the services | `Tracking` |
| `RowLocks` | the lock sequences of the transactions, PostgreSQL's lock table | |
| `Extraction` | text extraction of a filed document: runs, leases, publication, recovery | |
| `Repository` | the repository without runs: reading tasks, deletion review, purge | |
| `Topics` | tags, contributions, models, the suggest and apply queues | |
| `Uploads` | drafts, staged files, versions, cleanup | |
| `ExternalTracking` | one external case, its pages and its notices | |
| `EmailOtp` | one account, its browsers, challenges and mailbox | |
| `AccountAdmin` | administrators' requests, restrictions and their forms | |
| `CustodyProofs` | types, caches, custody chain, history, register, refinement | `TrackingCustody` |
| `PagesProofs` | the same of the pages and the notices | `CustodyProofs` |
| `StoresProofs` | proofs about `Repository` and `RowLocks` | |
| `ExtractionProofs`, `UploadsProofs`, `TopicsProofs`, `ExternalProofs` | proofs about the module of that name | |
| `AccountsProofs` | proofs about `AccountAdmin` and `EmailOtp` | |
| `MC*` | instances for TLC; several components share a run where they share no state, each behaviour then stays in one of them | |

### Tracking

One action per service; `can_user_*`, `visible_to` and the capability checks
are its guards. `record` is the row of each `TrackingRecord`, `steps` its
`RoutingStep` rows, `timeline` its `RecordActivity` rows, `lastNumber` the
`TrackingNumberSequence`, `filed` the records with a repository document.

| code | action |
|---|---|
| `create_draft_record` | `CreateDraft` |
| `route_record` (`SEND`, `FORWARD`, `RETURN`) | `Route`, with `SendingOffice`, `NewSteps`, `RoutedRow` |
| `confirm_receipt`, `bulk_confirm_receipts` | `ConfirmReceipt`, `BulkConfirmReceipts` |
| `add_remark`, `attach_files`, version upload | `AddRemark`, `AttachFiles`, `UploadVersion` |
| `mark_in_process` | `MarkInProcess` |
| `complete_record`, `approve_upload`, `reopen_record` | `Complete`, `Approve`, `Reopen` |
| `recalculate_status` | `Recalculated`, called by the actions as the code calls it |
| `with_stage_for` | `StageOf`, only in the property `StatusIsStage` |

Abstractions:

- Time is the length of the record's timeline. A receipt carries the position
  of the entry it wrote, so `created_at >= received_at` compares positions.
- The events REMARK and ATTACHMENT, always read together, are the one event
  `WORK`. Entries VIEWED, PRINTED and of grants change nothing the guards read
  and are left out, as is `first_received_at`.
- `sent_at` of the steps of one batch is equal in the model; the code writes
  them in one loop.
- A tracking number is its place in the office's series; the month in its text
  is not modelled. Accounts keep their office and role.
- Access grants are left out: they give neither custody nor a draft to anyone.
- All capabilities are granted; a restricted account is one that does nothing.

### Custody and TrackingCustody

`Custody` knows documents, a sender, holders and awaited offices. It says that
a document is endorsed only by an office that holds it (or, before the first
receipt, by its sender), that an office becomes a holder by its own receipt,
that work finishes in somebody's hands and that filing is final. The mapping
reads that state off the rows. `ImplementsCustody` is the refinement.

### Queues

No state and no action: the queries of the queues (`apply_scope`), of a row's
tag and button (`annotate_direction`, `annotate_can_confirm`), of the overdue
charge, the report and the dashboard, each translated from its own query, as
functions of the state of `Tracking`. A page answers for a set of offices; which
records are late is any set.

### TrackingNotices

Extends `Tracking`: each service that touches notices is composed with what it
does to them (`RouteAndNotify`, `ConfirmAndNotify`, ...). `deadline` and `aged`
make time a choice: a deadline passes, a batch becomes older than the reminder
delay. `chase_unreceived_and_overdue` is a sequence of actions of a worker:
read candidates (`ChaseStart`), handle one sender (`Nudge`), read the late
ones (`ChaseLate`), handle one record (`Late`), `ChaseEnd`, or `ChaseKilled` at
any point between. Services run between any two of them. The code's three
queries for late candidates are one snapshot, and the sorted order of the
candidates is any order; both only add behaviours of the environment's
choosing, because each candidate is judged again under its lock. Notices of
the informational kinds and their pruning are left out.

### RowLocks

A transaction is the sequence of row locks it takes, each with its mode. The
modes and conflicts are PostgreSQL's. A transaction may end, committed or
refused, whenever it is not blocked. Foreign-key checks deferred to the commit
are KEY SHARE locks at the end; those on the transaction's own rows and on
offices are left out because no transaction modelled takes a mode that
conflicts with them. PostgreSQL ends a deadlock by failing one transaction;
the model stops there instead, since the question is whether one can happen.
Extraction runs, merges of tags, uploads and external routes take a prefix of
locks that is listed already and are not listed again.

### Extraction

One repository document and its files. `run` is the `ExtractionRun` of each
file and generation with its `ExtractionUnit` rows, `document` the columns of
`Document` that processing writes, `worker` what an invocation of
`process_run` carries between its transactions, `queue` the invocations that
are due, `recovery` the candidates a recovery command has read and not handled.

| code | action |
|---|---|
| `_request_document_extraction` with `request_processing` | `Request` |
| `process_run` up to its claim | `DeliverBlocked`, `DeliverNothing`, `Claim` |
| its second transaction, `_save_native_units` | `SaveNative` |
| `ocr_unit` and its `authorize_dispatch` | `CallProvider` |
| its last transaction, `_publish` | `Store`, with `Published`, `NextState`, `Aggregated` |
| the `_blocked` exits with a token | `Changed` |
| the two `except` branches | `ReadFails`, `Interrupted` |
| the worker's process is ended (`Q_CLUSTER` timeout, a restart) | `Killed` |
| `recover_processing` | `RecoverStart`, `RecoverOne` |
| lease and retry times passing, account and consent forms | `LeaseExpires`, `WaitPasses`, `PermissionChanges`, `ConsentChanges` |

Abstractions:

- Files and their versions are constant: a document's files are frozen once it
  is filed (`add_file_to_document` refuses). What `_publish` does about files
  it finds late is therefore out of reach and left out. A document without
  files is EMPTY or DONE at once (`processing.py:150`) and outside the module.
- A unit's text is whether it holds the text of a complete reading. The state
  `TO_READ` is a unit with `ocr_needed` and without `ocr_attempted`. Blank
  pages, and with them the status EMPTY, are left out; so is SKIPPED from a
  publication, which the model shows as FAILED (`Retained` sets it last in every
  publication that is not complete).
- `permitted` stands for the conditions of `_eligible` on the requester, the
  settings and the processing context. One account requests; the refusal of
  another account's pending run is left out.
- The document's text is the set of pages whose text it holds. The limit of
  200 000 characters and the record's own subject and remarks, which lead the
  text, are left out.
- The provider's own retries are one answer. `queue` also stands for the
  processing a web process does itself when background tasks are off
  (`drive_local_processing`); there nothing stops a worker whose lease has run
  out, whereas a queue worker is ended a minute before.
- Messages may be delivered any number of times; the queue allows two.

### Repository

Documents with the objects of their files, as the repository runs by default:
background tasks, and reading without runs. A reading task goes from the
request that commits it (`Task`) over `Submit` or `QueueFails`, `Start` and one
`Read` per file, outside any transaction, to `Finish`, or it is dropped,
cancelled, given up or killed. A reviewer's page is current or not (`page`),
because `updated_at` changes with every write that names it. A run of the purge
reads its candidates without a lock (`PurgeStart`), opens one (`PurgeOpen`),
deletes object after object under a lock on the key (`PurgeObject`), and ends
with `PurgeCommit`, `PurgeFails` or `PurgeKilled`. `unread` is a ghost: the
files that could not be read since the last full reading. Filing copies, edits
of metadata, the local mode without a queue and references kept by audit rows
are left out.

### Uploads

`blobs` is the object store, which knows no transactions: every writer is a
`Stored(...)` that commits, is compensated, or is killed between the bytes and
the rows (`lost`). The tabs of one owner load, post, save and submit one draft
in a row of transactions (`Load`, `Post`, `Stage`, `Refresh`, `Save`, `Submit`,
`Replay`); other offices upload versions (`OthersUpload`), drafts lapse, and
the cleaners claim intents with a lease, look again whether the key is
referenced, and remove. Keys of staged files and of versions have different
prefixes, which is the assumption that `Drafts` and `Groups` are disjoint. The
number of versions kept is `Keep`, 5 in the code. Blocked intents, a changed
storage configuration, and external and repository targets are left out, and a
response to a stage or remove request is a later `Load`.

### Topics

`topic`, `paper`, `model`, `task` and `suggestion` are the rows; `runner` is
what a worker carries between its transactions, `merging` the documents a merge
has locked, `form` a tag form that has loaded its row. People review, replace
and merge (`Review`, `ReplaceTags`, `MergeBegin`/`MergeEnd`), models are trained
on a snapshot and activated or invalidated, and two queues of work, each with
leases, attempts and recovery, suggest (`InferStart`, `Predict`, `InferSave`)
and apply (`ApplyStart`, `ApplyCheck`, `ApplyPublish`). `save_masterdata_form`
(`search/indexing.py:69`) refreshes only `usage_count`, so a tag edit that
waited for a merge writes back the old `canonical`; `SaveForm` does so too. A
review's vocabulary check and its tag lock are one step, and so are the two
looks of `predict_tags`; a stale page that the code refuses is no step. Of a
tag's reviews only the last counts, so `decided` keeps that one, and the tags
reviewed since, to tell which of two tags that were merged was spoken of last;
reviews in one request are written in the order of their keys (`ByKey`). One run
per document; aliases, quality gates, sampling, training eligibility and the
raw `TagAdmin` (`core/admin.py:29`, which saves a stale `usage_count`) are left
out.

### ExternalTracking

One case: its row, its dispatches, the work and the turns of completion and
reopening with the times they were reported to have happened, its notices, and
who has a page with the present revision (`matching`) and a page that shows the
case as it is (`fresh`). Revisions are compared for equality only, so these two
sets replace the number. An inside office acts at the time of the clock; what
an outside office did is reported later at a time between the last known one
and now (`Reportable`), and corrected later (`CorrectStep`, with `MayCorrect`
and `TimesFit`). A case that never left the offices with accounts is never
filed (`ArchiveExternalRecord` follows the code's refusal). The turnaround
report is translated too (`Charged` and what uses it) with office hours taken
as clock time. The directory, numbering, grants, due dates and the versions of
attachments are left out.

### EmailOtp and AccountAdmin

`EmailOtp` is one account: `challenges` are its rows, `outbox` the mail a
request is still sending, `mailbox` what reached its address, `session` each
browser's session with its proof. A code is the pair of its challenge and its
generation, as the digest binds it to both. The mode without mandatory codes,
budgets per address and counters per IP, the 60-second wait, the parts of the
stamp that are role and office, and the link to a second account are left out.

`AccountAdmin` follows each person's request from the middleware (`Arrive`) to
the transaction that has its locks (`Begin`) and its end (`Commit`, `Refuse`).
`Serialized` is the advisory lock, `LockedRows` the rows the transaction holds,
and `form` the restriction form of a page that was opened earlier.
`AdministrationHolds` excepts an assisted address recovery, which may take the
last ready administrator's address away
(`docs/EMAIL_OTP_AND_PERMISSIONS.md:58` says so).

## 3. Runs

Several components share a run when they share no state. The first state then
chooses a *setting*, and every behaviour stays in it, so that the settings'
states add up and do not multiply.

| run | settings and instance | question |
|---|---|---|
| `tracking_custody` | `custody`, `notices`; 1 record, 3 offices, 3 users and an office-less system administrator, 2 chase workers | do custody, caches, queues, notices and history hold over every interleaving of the services, with the chase beside them, and do the services implement `Custody`? |
| `tracking_life` | `filing` (completion, reopening, filing), `numbers` (2 records, bulk receipts), `people`, `suggest`, `apply` (tags of the filed documents) | does the register hold, do the pages agree, does what people and models say of a document stand? |
| `extraction_runs` | `leases` (late answers, takeover, consent withdrawn in a call), `retries` (publications of two generations); 1 file, 1 page, 2 workers | is one run current, does reading move forward, is consent honoured? |
| `extraction_files` | 2 files, of which at most one scanned, 2 workers | siblings reading and failing at once |
| `stores` | `custody locks`, `document locks` (3 sessions), `reading`, `removing`, `purging` (2 documents that may share an object) | no circular wait; a document is whole, its status true, its text kept |
| `uploads_forms` | `forms` (2 tabs), `versions`, `maintenance`; 1 draft, 2 files, 2 groups, 1 version kept, 1 kill | do the objects match the rows, does a form submit what it showed? |
| `components` | `times`, `pages` (external cases), `mail`, `addresses` (one-time passwords), `staffing`, `policies` (accounts) | histories reported late and corrected; codes; administration |
| `background` | `chase`, `cleanup`, `suggest`; 1 chase worker, 2 cleaners, fairness | what must come, comes |
| `locks_accounts`, `extraction_last_good`, `extraction_recovery`, `topics_merge` | small | the findings of section 7 |

Bounds, and why they are enough:

- `MaxBatch` bounds the routings of one record, `MaxTimeline` its entries; both
  stand only in guards (`b <= MaxBatch`, `Room`). Three batches reach a send, a
  forward after partial receipt, and a return from the second recipient, after
  which a batch only repeats what the batch before it could be. Seven entries
  reach completion on top of that, nine reach reopening and filing.
- Three offices are the least in which one recipient forwards while another
  still owes its receipt to a sender that is neither. Records, offices and
  users are symmetric where no constant tells them apart.
- Two records are what a number series and a bulk receipt need; a further batch
  does not touch numbers. The two histories have at most seven entries together.
- With the chase, two batches and five entries: a route, a partial receipt, a
  completion, a reopening and a second route around a run of the job. Two
  workers are the configured number (`Q_CLUSTER`), and what it takes for a
  takeover.
- `MaxGeneration` bounds the retries of a document. Two generations are what it
  takes for a worker of the older to publish after the newer.
  `MaxInterruptions` and `MaxAttempts` are 3 in the code; with 2 a counter is
  both below and at its budget, with 1 the first error exhausts it. One page
  per file: pages of a run are read one after the other, by one worker.
- A circular wait of the lock orders present needs at most three sessions
  (account, record or document, office or advisory lock). A mixture leaves out
  a session that begins with the locks another already begins with.
- In an external case, a clock of 4 and three dispatches leave a gap to report
  late into and to correct across; two turns are a completion and a reopening,
  and the clock then stops at 3.
- Three people are a system administrator, one who may become it, and one who
  is changed by both.

`CHECK_DEADLOCK FALSE` stands in the passing runs because their bounds stop the
system on purpose. `locks_accounts` has the check on.

Every property of a passing run has a mutant in `PROJECT.json`: a plausible
mistake in the mapped code under which TLC finds the property violated. The
mutated operators are the definitions commented `Fault:`.

## 4. Properties

A property that a run names often has named parts; each has its sentence beside
its definition.

| property | parts |
|---|---|
| `CachesAgree` | `StatusIsStage` (the stored status is what the list pages compute from the steps), `CustodyIsCached` (office and holder are those of the latest receipt) |
| `ChainOfCustody` | `CustodyChain`, `BatchHasOneSender`, `WorkFollowsReceipt` |
| `RegisterHolds` | `NumbersHaveNoGaps`, `FiledWhenCompleted` |
| `HistoryIsAppendOnly`, `ImplementsCustody` | |
| `QueuesAgree` | `OfficeQueuesPartition`, `TagMatchesQueue`, `ConfirmQueueIsHonest`, `NothingFallsBetweenQueues`, `OverdueIsCharged` |
| `PagesAgree` | `NobodyActsUnseen`, `EveryRecordCountedOnce` |
| `NoticesAreTrue`; `OfficesAreTold` | `ToldOnce`, `OwingOfficesAreTold` |
| `RemindersCome` | `SenderIsReminded`, `HoldersAreWarned` |
| `OneCurrentRun`, `BusyMeansWork`, `DoneIsComplete`, `ConsentHonoured`; `ReadingMovesForward` | `CurrentNeverGoesBack`, `CompletedUnitsStay` |
| `DocumentsAreWhole` | `RestorableIsWhole`, `ObjectsHaveRows` |
| `StatusIsTrue` | `FailureStaysVisible`, `BusyMeansTask` |
| `TextIsKept` | `SavedTextIsKept`, `RemovedIsStill` |
| `DecidedOnWhatWasShown` | |
| `StoreMatchesRows`, `SubmissionsHold`, `SubmitsWhatWasShown`, `StagedObjectsGo` | |
| `TagsAddUp` | `UsageIsExact`, `TagsAreContributed`, `MergedTagsAreGone` |
| `HumanTagsStay`, `PeopleOverrideModels`, `SuggestionsSettle`; `AnswersFitWhatWasRead` | `AppliedToWhatWasRead`, `SuggestedForThisContent` |
| `CaseHistoryHolds` | `Chronology`, `ExternalCustodyChain` |
| `CaseViewsAgree` | `MatchingPageIsCurrent`, `NobodyManagesUnseen`, `DirectionsPartition` |
| `EveryMomentChargedOnce`, `ExternalNoticesAreTrue`, `OwnFactsStand` | |
| `MailboxesWereReached` | `SessionRestsOnMailbox`, `VerifiedAddressWasReached` |
| `CodesAreBounded` | `DeliveredMeansThisCode`, `GuessesAreBounded` |
| `NoChallengeOutlivesRecovery`, `RightsAgree` | |
| `AdministrationHolds` | `LastReadyAdminStays`, `FormsReplaceWhatTheyShowed`, `OnlySystemAdminsPromote` |
| `NoCircularWait` | |

Some carry an exception that states what the code does:

- `OwingOfficesAreTold`: a record that is completed and reopened with receipts
  outstanding does not get its ROUTED notices back, because completion answered
  them and `reopen_record` raises none.
- `BusyMeansWork`: when the recovery command gives a run up after its last
  interruption (`processing.py:460`) it does not touch the document, which stays
  shown as being read although nothing will read it.
- `SubmitsWhatWasShown`: requests that bring no files of their own, see section 7.
- `AdministrationHolds`: an assisted address recovery.

## 5. Fairness

Only `background` assumes any.

- *Chase.* `ensure_schedules` registers it as a daily schedule, so an idle
  worker starts it (WF `ChaseStart`) and one that is through ends it (WF
  `ChaseEnd`). A run may be killed at any point (`Q_CLUSTER`: timeout 600 s)
  but is started again the next day, and a kill does not hit the same place for
  ever: the handling of each candidate has SF, the least assumption under
  which a job that is killed can still be useful.
- *Cleanup.* The maintenance job is daily too. Leases and drafts run out and
  orphans are queued (WF); a claim of an intent and the removal of its object
  have SF, for the same reason.
- *Suggest.* Leases and waiting times end (WF); recovering an intent, starting
  one and ending a started one in any way, a failure or a death included, have
  SF. Attempts are counted, so an intent that keeps failing ends as failed. No
  schedule runs the recovery command; the design notes plan "a bounded recovery
  command/scheduled invocation" (`docs/superpowers/specs/
  2026-10-22-document-intelligence-design.md:111`). `SuggestionsSettle` is therefore
  conditional: work settles if somebody runs that command again and again.

The SF promises of the three settings are combined into a few: in any behaviour
only the actions of one setting can be enabled, so the combination promises
neither more nor less.

Nothing else is fair. No service is: nobody has to receive, complete or file
anything. For document processing itself no liveness is claimed: after three
interruptions the recovery gives a run up without a word to its document (see
`BusyMeansWork`). The apply queue has the shape of the suggest queue and is
checked for safety only.

## 6. Proofs

TLC looks at the instances above; TLAPS proves the theorems below for every
value of the constants under the named assumptions of the modules (the NULLs
are not members of their tables, budgets are positive, the tables that are
counted are finite). TLC evaluates those assumptions in the runs.
`PROJECT.json` lists each theorem with the property it states.

**CustodyProofs.** Every step of the system moves one record by one service, or
several records each by a bulk receipt (`ServiceMoves`, `StepMoves`), so the
invariant `CustodyInv` speaks of one record at a time. It is the types and, per
record, `Sound`, `Cached`, and `Traced`. `Cached`, the agreement of
`recalculate_status` with `with_stage_for`, is not inductive alone: the
recalculation of a row in circulation yields its stage only if its batch has
steps, if the receipts of that batch have a latest one (`HasLatest`), and if
receipt positions lie inside the timeline, so that a later entry never makes
old work count for a new receipt. `RecalculatedIsCached` is the heart.
`Traced` carries where a document has come from: a record before its first
dispatch is with its origin (`AtOrigin`), and a step of a batch names its
office once (`OneAddress`), without which a receipt would leave the awaited
set of the refinement with the office still in it. From it follow
`CachesCorrect`, `ChainUnbroken`, `HistoryKept` and, step by step, the
refinement `TrackingImplementsCustody`. `RegisterCorrect` is the one
result that crosses records: numbers of two records of one office differ
and are below the series' last.

**PagesProofs.** The pages have no state; `QueuesCorrect` derives their
agreement from `CustodyInv` and the finiteness of the offices. For
`PagesAlwaysAgree`, `SignerInv` adds that a signer is one who could act, so that
nobody acts on a record it cannot open; and the counts are partitions of finite
sets: the live stages share out the records on their way, for everybody and
for one office (`StageSound`, `StagesShareOut`), the directions share out a stage
(`CellsAddUp`), and what is neither a draft nor filed is what the ring shows
(`RingShows`). Whether an open notice is true (`Honest`) depends only on the
values the refinement mapping reads off a record, so what a service does to
notices is argued with the lemmas of the refinement. The chase adds its own
steps: a candidate is looked at again under its lock, which is why no
assumption on how old the candidates are appears anywhere.

**ExtractionProofs.** `IInv` holds what fencing rests on: nothing exists beyond
the document's generation, queue and recovery know only runs that exist, a run
that has not ended has interruptions left, and the page a worker selected is
still to be read as long as the lease is its own. The last is why a late answer
is harmless. A COMPLETE run has only complete units, and those stay
(`CompletedUnitsStay`); with `OneCurrentRun` and a count of the current runs,
every file has exactly one of them, which gives `DoneIsComplete`. The count
uses that the files of a document are finitely many and not none. `BusyMeansWork` is
inductive beside `IInv`. `ConsentHonoured` is the fact that a provider is called
only in the step that looked at consent.

**StoresProofs.** Of the repository, `PurgesFit` is the strengthening: a document whose purge
has begun is locked and stays expired, a key the purge has passed is gone or
referenced by another document, and no two purges decide on one key at
once. `PagesTrue` says what a reviewer's current page shows, `JobsFit` what a
reading task may still write. Steps fall into three classes (`Still`, `Quiet`,
`Calm`), by what they leave alone; most need only their class.

Of the locks, `NobodyWaitsInACircle` says that any mix of services on any rows is
free of deadlock, if none of it is `share_with_user`, `administer` or
`review_tag`. Two of these make the circles of section 7, so the hypothesis is
the finding seen from the other side. Every transaction takes its locks by turns (`Orderly`): the lock of the
account table, its own account, a second account only under that lock, then
rows by table and primary key, with a reference to an account between them and
documents. `RequestedIsOrderly` proves it service by service. `LockInv` adds mutual exclusion;
then whoever a session waits for asks for something whose turn comes later
(`WaitingIsForward`). The one subtle case is two administrators' accounts taken
in any order: only a holder of the account table's lock takes a second one, and
there is one of those. A circle of sessions has a smallest circle in it, where
each is waited for, and there the first turn contradicts.

**UploadsProofs.** `RowsFit` and `KeysAreSpent`: a key with a cleanup intent was
used, is not referenced, and is gone when the intent is complete. Keys are
fresh when they are stored and never come back to a row, so each step either leaves a key
alone or moves it forward in that order (`KeyAdvance`). A page whose revision
is the draft's shows the saved files (`PageIsTrue`). The versions kept are an
interval ending at the latest (`NewestKept`).

**TopicsProofs.** `Ledger` has three parts. `Core`: after every operation a
document's tags are those of its contributions, the counters are exact (a set
that gains and loses elements changes its size by what it gains and loses, so
the floor at zero is never reached), and no document carries a merged tag.
`Desk`: a tag form that was opened on a merged tag finds it merged when it
saves; without this a late save could not be told from one that brings a merged
tag back. `Answers`: what a worker found when it took its publication locks
(`Publishable`) is still so when it writes. The locks name two documents, its
own and the one its model was trained on; `PapersFrame` and `ModelsFrame` say
what every step leaves of a guarded document and a trained model, and
`PublishersKeep` draws the conclusion once for all steps. Each operation is then
one lemma (`...IsGood`), and the four theorems read off it: `TagsAlwaysAddUp`,
`HumanTagsAlwaysStay`, `PeopleAlwaysOverride`, `AnswersAlwaysFit`. The first
takes the tags without a contribution away from what can happen: none exists in
a repository that began without them, so `_bootstrap` never finds one.

**ExternalProofs.** `ExtInv` is the shape of the case, the order of its times and
its holders, with `Worked` (work is reported only under a custody that had
begun, none from the future), the pages that match among those that are fresh,
and the notices. Corrections move times in the middle of the history; that they
change nobody's responsibility is `ResponsibleKept`.

That the turnaround report charges every moment once (`ChargedOnce`) needs one
more invariant, `TurnsInv`: completions and reopenings stand in the order of
their times, a reopening meets the dispatch its completion left, a case is
closed exactly from its last completion on, and a draft that starts outside has
no timed work. `PauseInCustody` then shows that a pause overlaps the one custody
it interrupts, all of it, and no other; `OverlapsFit`, that the pauses of a
custody never exceed it, so the `max(seconds, 0)` of the code hides nothing; and
waits, custodies and pauses add up to the distance from the first dispatch to
the end. The sums are recursive functions on sequences; the section "Sums over
sequences" proves what is needed of them (they exist, add up, telescope, and
may be taken by rows or by columns) from the well-ordering of the naturals.

**AccountsProofs.** `AdminInv` says that what a request was allowed on is still
so when it commits (`StillMay`) and that a form whose revision matches shows
the present policy (`FormOK`): rows are locked from the decision to the commit,
and changes of accounts are serialized. `OtpInv` follows a code: a
delivered code's mail lies in the mailbox of the address it was sent to, a used
one was delivered, an open one began in the present era of its account.

What proving changed in the models: `ResponsibleOffice`, `Obstacle` and
`ObstacleOfNow` had a CASE whose arms overlap. TLC takes the first arm, TLA+
leaves the choice open, and the proof failed where they differ; each is now
exclusive, in the order of the code.

Only model-checked is liveness (`RemindersCome`, `StagedObjectsGo`,
`SuggestionsSettle`), which these provers do not do. Every invariant and every
action property of the passing runs is a theorem.

## 7. Findings

- **`locks_accounts`**. Granting a record to one account locks that account after
  the record (`apps/tracking/services.py:846`, `apps/accounts/sharing.py:44`);
  the account's own work locks the account first. The comments beside both
  locks say this order is excluded; the global lock does not exclude it,
  because ordinary work does not take that lock. The account screens make a
  second circle: they lock administrator and target FOR UPDATE, the mode
  `active_writer` avoids on purpose, and a filing that refers to the
  administrator's uploads must wait for it while holding the target.
  PostgreSQL detects both and aborts a transaction; nothing retries it.
- **`extraction_last_good`**. The design notes say that an OCR error cannot erase a
  last-good result. A page's text is carried over only from a complete page of a
  current run (`apps/documents/processing.py:191`), but a run that fails becomes
  current, with its carried pages not complete. A second failing retry starts
  from nothing.
- **`extraction_recovery`**. The recovery command does not look again at its
  candidate under the lock: a run claimed in between loses its live lease and is
  charged an interruption (`apps/documents/processing.py:458`).
- **`topics_merge`**. The design notes (`docs/superpowers/specs/
  2026-10-22-document-intelligence-design.md:127`) say that an explicit rejection
  survives, with no automatic resurrection. `merge_tags` moves every contribution
  of the source to the target, the automatic ones too, and does not look at what
  people said of the target on that document (`apps/documents/tagging.py:292`).

Read off the models, and worth knowing, though no run is kept for them:

- `README.md:64` says that custody changes only when the receiving office
  confirms. `Route` changes it too: with one batch received by B and C, C may
  forward although B confirmed last; the batch then leaves from C, the current
  office jumps from B to C, and B loses custody.
- `Aggregated` replaces the text of the whole document when every run that exists
  so far is complete (`apps/documents/processing.py:269`): another file's text,
  saved before runs were kept, is lost if that file then cannot be read.
- `Aggregated` clears a failure retained for a generation when every current run
  is complete, although the current run of a file that was blocked in this
  generation is an older one (`apps/documents/processing.py:284`).
- Recovery and exhaustion of attempts leave an inference task's lease token in
  place, so the worker that was given up may still end the task: one shown as
  "action required" can become complete.
- A POST that brings files of its own takes up the draft as it is now, another
  tab's saved files included (`apps/core/upload_forms.py:280`). A request
  without files is refused when its revision is old.
- Objects whose writer is killed between the bytes and the rows are named by no
  row and no intent; nothing removes them.
- An external case that never left the offices with accounts is refused filing
  for good.
- `overdue_unattributed` "should be zero" (`apps/tracking/services.py:1241`) but
  counts a draft whose deadline has passed.
- `sla_due_days_for` takes the minimum over the rules, so a rule with no
  deadline (0 days) removes the deadline of the whole batch.

## 8. Not modelled

- *Views, forms, filters, analytics*: request parsing, page assembly, rendering,
  exports. The guards, queues and counts they share with the services are
  modelled there.
- *Search*: full-text queries and ranking. The refresh of rows by its forms is
  in `Topics`.
- *Text extraction, OCR, model fitting*: pure or numerical functions around
  third-party libraries; their outcomes are choices in `Extraction` and
  `Topics`.
- *Login lockout*: counted by the package django-axes.
- *Business time*: calendar arithmetic over rows. `ExternalTracking` takes
  office hours as clock time.
- *Configuration and operations*: read to justify fairness and bounds.
- *The locks of `review_tag`*, in the run of the lock orders: it locks the tag it decides on
  and then every tag of the document (`apps/documents/tagging.py:107`, `:155`),
  and another review or tag edit need not share that order. No text of the
  repository promises one, so the model without it is kept and the circle stands here.
- What each module leaves out, named in section 2.

The `map` of `PROJECT.json` names the lines each definition stands for, about a
fifth of the implementation: the parts that change shared state. Most of the
rest is page assembly, reports and commands.

## 9. Plan

1. `BusinessTime`: working time as a function, against a count of minutes.
2. The apply queue in the liveness run.
