# Verification of the HamroMentor backend

TLA+ models, TLC runs and TLAPS proofs of the Django backend of an exam
preparation service: students register, buy or are given access, sit exams that
are timed, ranked and reviewed, practise questions, and are notified of what
happens. The code is sequential Python, but it is served by several processes
with several threads each, over one MySQL database at READ COMMITTED, without a
transaction around a request (`ATOMIC_REQUESTS` is not set); Cloud Tasks calls back
at least once, and Cloud Scheduler calls the cron endpoints. What is hard is
what two requests, a retry, a late task or a dead thread do to each other; that
is what the modules are about.

Contents: 1 inventory - 2 modules and code - 3 how the database, the queue and
the clock are modelled - 4 runs - 5 proofs - 6 what disagrees with the documents
- 7 what is not modelled - 8 plan.

## 1 Inventory

State is in MySQL rows unless said otherwise. "Hard" names the behaviour that
tests hardly reach, "right" what makes the component correct.

**Exam attempts** (`tests_app/views.py`, `lifecycle.py`, `models.py`).
State: `TestAttempt` (status, start, score, rank), its `AttemptQuestion`s,
`Answer`s and review snapshots. Operations: start or resume, answer, mark for
review, submit, read the result, finalize what expired (on a page view, on the
next start, by the sweep `finalize_expired_attempts`). Calls Question statistics
and, through `on_commit`, the queue; asks Access decisions before a start. Hard:
double start, submit against sweep against page view, ranking of simultaneous
submissions, lock order, the deadline during a request. Right: one live attempt,
the limit of attempts, one finalization, the rank of the moment, every expired
attempt submitted.

**Purchases, coupons and referrals** (`billing/payment_service.py`, `views.py`).
State: `Purchase` (status, reference, deadline), `Coupon.usage_count`,
the referrer's `User.wallet_balance`, `PaymentAuditLog`. Operations: order, submit proof, approve
(also unpaid), reject, ask for resubmission, cancel, expire, refund, edit the
coupon. After the commit: audit entry, notifications. Hard: two
administrators, the student and the expiry job deciding one order; the counter;
the read-then-write of the coupon form; a crash after the commit. Right: one
decision, no approval without payment, coupon limits.

**Access from purchases** (`payment_service._activate_product`, `refund`,
`GrantAccessView`, `ScholarshipViewSet`). State: `Subscription`,
`GrandTestAccess`, marketplace `CourseEnrollment`, `Scholarship`, and the ledger
`PurchaseEntitlementGrant`. Operations: grant, extend, reverse, revoke. Hard:
several orders over one row, reversed in any order; scholarships beside orders.
Right: each approved order has one live grant, each refund takes back exactly
its own.

**Session reminders** (`notifications/exam_integration.py`, `services.py`,
`eligibility.py`, `ExamSessionViewSet`). State: `ExamSession`, `Notification`
with a unique dedupe key, `NotificationDelivery` for in-app. Operations:
schedule, reschedule (delete and create), cancel, refresh of the status, sweep.
No transaction spans a request. Hard: a sweep over a list that changes. Right:
none early, none missed, reminders agree with the session.

**Delivery** (`notifications/email_tasks.py`, `push_tasks.py`, adapters,
`push_service.py`). State: `NotificationDelivery` (status, attempts),
`PushSubscription`, `PushDeliveryAttempt`, the queue. Operations: enqueue after
commit, callback (claim, call the provider, record), register and revoke a
browser, cancel. Hard: at-least-once, overlap, lost answers, dead threads.
Right: one e-mail a row, bounded tries, every steady browser reached.

**Question statistics** (`academics/services.py`, `tests_app/stats_tasks.py`).
State: `QuestionAttempt.selected_option` per student and question, the unsigned
counters of questions and options, `TestAttempt.stats_applied_at`. Operations:
record a practice answer and its delta in one transaction, record the answers of
an exam and send their deltas as one task, apply the deltas of an attempt once,
edit a question. Hard: redelivery, deltas applied out of order, an editor who
saves counters read before. Right: one vote per student and question.

**Free Starter** (`entitlements/provisioning.py`). State: one entitlement per
student and resource with used and limit. Operations: provision, consume under
a row lock. Hard: the gate, the attempt and the charge are three steps. Right:
never above the limit, and little more opened than was paid for.

**Access decisions** (`entitlements/services.py`, `tests_app/card_access.py`,
`access.py` of several apps). No state; functions of subscriptions, grants,
enrolment, sessions and Free Starter, and the quota of a subscription, read and
written back without a lock (`billing/access.py:102-106`). Hard: list, card and
start are three implementations of one rule. Right: what a card offers the start
grants; the quota counts each start once.

**Bulk import** (`academics/import_*.py`). State: `ImportBatch` (status,
`dedup_status`, `dedup_generation`, two claims), `ImportRow`. Operations: upload,
change the subject, search duplicates, decide and edit rows, confirm, import
(claimed by a conditional update), create a test or questions directly, roll
back. Hard: stale generations, claims taken over after half an hour, redelivery,
a run that dies between a question and its row (only the two direct imports are
transactions). Right: a row becomes one question; a completed search is the one for
the subject on screen.

**Exam versions and release** (`tests_app/exam_versioning.py`, `lifecycle.py`,
`can_view_solutions`). State: `Test`, `ExamSession`, the windows of both.
Operations: create and edit an exam, reschedule (which adopts an exam without
sessions, under the lock of the `Test` row), edit and cancel a session, release
solutions. Hard: deadline, review and status of a session are computed apart from
the same rows, and forms save whole rows read before. Right: no solutions while
others answer, none before a further attempt of the same window.

**Media library** (`media_library/service.py`, `tasks.py`, `views.py`). State:
`MediaAsset` rows, the objects in two buckets, the task of each new picture.
Operations: upload (a picture that is ready already gets a row that shares its
objects), process (make the variants), delete (the objects too unless another row
shares them). No lock, and no transaction but those of the two direct imports, which
upload the pictures of a whole batch in one (`academics/import_views.py:801`, 900).
Hard: uploads and deletions of rows that share objects; rows and tasks of an import
not committed yet; objects go before their row; a repeated task; the upload's last
save after the task. Right: a ready row can be shown; an answered task has settled its
row.

**Smart practice** (`smart_practice`): sessions and their answers; create,
answer, complete. Right: one answer per question, completion once.
**Question bank and taxonomy** (`academics/views.py`): administration, bookmarks,
the answer endpoint. **Parsers** (`academics/importers`, `excel.py`): files to
rows, stateless. **Exam analytics** (`performance.py`, `grand_test_*.py`): reads.
**Accounts** (`accounts/views.py`): users, devices (`Device`, counted without
a lock, `views.py:85-108`), verification of profiles, role permissions with an
audit. **Verification documents** and **Cloud storage**: private files and
signed links. **Courses** (`courses/views.py`): batches, enrolment requests
(approve, decline), packages pruned by cron. **Marketplace**
(`marketplace/views.py`): teacher applications and courses, draft to submitted to
approved or rejected. **Videos**: progress and bookmarks. **Feed, preferences and events**
(`notifications/views.py`, `events.py`): rows marked as read, templates.
**Billing analytics**, **site content**, **audit logs**, **settings**: reads,
administration and append-only records.

How they interact: a start asks Access decisions, which read the rows that
Access from purchases writes; a finalization calls Question statistics; session
administration calls Session reminders and decides what Exam release shows; approvals, sessions and results create
notifications whose rows Delivery sends. These are function calls inside one
thread or `on_commit` hooks; two requests meet only in the database and the
queue. The modules cut along those rows.

## 2 Modules and code

Each module has its constants and their `ASSUME`, variables, one action per
statement or transaction that other requests can come between, and its
properties; `MC...` gives it symmetry and small functions for TLC, `...Proofs`
holds its theorems. A worker is a server thread; `pc` says where its request is,
the other per-worker variables what it has read. Some properties need to look
back; the variables marked *history* in a module are read by properties only.
Before some definitions stands a variant with a mistake (`ReadUser`,
`ClaimAny`, ...): no specification uses it; replacing the definition by it must
make a run fail, which is how each property is shown to be sensitive to the code.

**ExamAttempt** - the attempts at one exam, i.e. one test and session.
`owner`, `number`, `status`, `start`, `frozen`, `preview`, `answers`, `result`
are the rows of `TestAttempt` and its children; `userX`, `userS`, `attemptLock`,
`testLock`, `testS`, `questionX`, `questionS`, `history` the row locks that open
transactions hold, exclusive (`X`) and shared (`S`); `wanted` the Question rows a
statement has still to lock.

| actions | code |
|---|---|
| RequestStart, LockUser, FindNoAttempt, ResumeAttempt, FinalizeStale, RefuseStart, InsertAttempt, FreezeQuestion, CreateAttempt | `views.py` `_start_attempt` |
| RequestAnswer, RequestMark, WriteAnswer | `SubmitAnswerView`, `MarkForReviewView` |
| RequestSubmit, TouchExpired | `SubmitTestView`, `ensure_finalized_if_expired` |
| BeginSweep, SweepNext | `sweep_expired_attempts` |
| LockAttempt, SkipFinalized, ScoreAnswers, RecordResult, RankAttempt, SnapshotQuestions, InsertSnapshot, CommitFinalization | `lifecycle.finalize_attempt` and its helpers |
| RequestPractice, PracticeAnswer, CountQuestion, QueueForQuestion, CommitCounts | the locks of `record_question_result` and `_apply_question_stat_delta` |
| RequestStatistics, LockForStatistics (then CountQuestion) | those of `process_question_stats`, for this exam or another with the same questions |
| RequestReschedule, LockTestForReschedule, AdoptAttempt, CommitReschedule | those of `create_reschedule_session`, which locks the `Test` before the attempts |
| DeadlockVictim | InnoDB's deadlock detection |

Finalization runs by itself or inside a start (`FinalizeStale`): `Return` leads
back to the caller and `Nested` tells which. Inserting a row takes a shared lock on
the row of each of its foreign keys: the user and the question of a `QuestionEvent`
(`RecordResult`), the test of an attempt (`InsertAttempt`), the question of an
`AttemptQuestion` (`FreezeQuestion`), an `AttemptQuestionSnapshot` (`InsertSnapshot`)
and a new `Answer` (`WriteAnswer`). These make a start and a submission of one
student wait for each other, and the holder of the `Test` lock for a statistics task.
`Blockers` says whom a request waits for, `InCycle` that it waits for itself. The
constant `Alongside` switches the practice answers, statistics and reschedules, of
which only the locks are here; what they do is in QuestionStats and ExamRelease.

**OfficialAttempts** - the abstract exam: no request, lock or clock; a start, a
submission, and a start that submits an overdue attempt are single events, ranks
count earlier submissions and nothing submitted changes. ExamAttempt implements
it under the mapping `Official` (the attempts as they are, their results as the
commit stores them, every step before a commit a stutter): property
`ImplementsOfficial`, checked and proved.

**Payment** - orders, the coupon, the referrer. `student`, `status`,
`reference`, `deadline`, `audit` are the `Purchase` and its log (`student` is
chosen at the start: one run has the orders of one and of several students);
`usage` is `Coupon.usage_count`. *History*: `redeemed`, the orders approved with
the coupon, and `lost`, whether a form has written back a counter that had moved.

| actions | code |
|---|---|
| RequestOrder, InsertOrder, BeginActivateFree, RefuseFree | `PurchaseViewSet.create` |
| BeginSubmit, SaveSubmission | `payment_service.submit` |
| BeginActivate, LockCoupon, RefuseCoupon, CheckReferral, CommitActivate | `payment_service.activate` |
| Reject, RequestResubmission, Cancel, Expire, Refund | the transitions of `payment_service` that only lock, check and save |
| RecordEvent | the audit entry and notifications after the commit |
| BeginEdit, SaveEdit | `CouponViewSet.update` |

**PurchaseAccess** - one student, one subscription product, one Grand Test, one
course. `access` holds the rows that give access, `ledger` the
`PurchaseEntitlementGrant` of each order; `Grant...` and `CreateSubscription`,
`ExtendSubscription` are the branches of `_activate_product`; `BeginRefund`,
`CommitRefund`, `Reversed` are `refund` and `_reverse_grant`; `BeginGrant`,
`RecordScholarship`, `BeginRevoke`, `FinishRevoke` the manual grants and
scholarships of `views.py`. It composes with Payment through the status of an
order: what is one step there (`CommitActivate`, `Refund`) is here the
transaction seen from the rows it touches.

**SessionReminders** - one session and one student's reminders, one row for each
kind under its dedupe key. The loops of the code are a set `todo` of what they
listed; `Lookup`/`CreateReminder` are `get_or_create` and insert,
`DeleteDeliveries`/`DeleteRow` the two statements of a cascading delete,
`Recheck`, `ReadDelivery`, `DeliverInApp`, `SaveDispatched` one round of
`dispatch_due_notifications`. `inAppOn` is the student's preference for in-app
messages, which `ChangePreference` moves; a reminder made while it is off has its
delivery skipped from the start (`enabled` in the row remembers it, for the
property) and is scheduled and dispatched like any other.

**Delivery** - one row for one channel. `tasks` counts the copies of its task on
the queue, `Answers` what a provider's reply says and whether it arrived;
`Claim`, `SendEmail`, `RecordEmail` are `process_email_delivery`;
`ListDevices`, `TakeDevice`, `SendPush`, `SaveDevice`, `SaveAttempt`,
`FinishPush` are `process_push_delivery` and the callback view that turns
"some device must be tried again" into the answer 500 (`AskAgain`).

**QuestionStats** - the counters of questions. `vote` is
`QuestionAttempt.selected_option`, `changes` the deltas an exam computed when it
was finalized, `queue` the tasks of Cloud Tasks. It composes with ExamAttempt
through `Finalize`, which is `RecordResult` for every answer and the commit there, seen from the
votes.

| actions | code |
|---|---|
| Answer | `QuestionViewSet.answer`, `record_question_result` inline |
| Finalize | the votes in `_score_and_rank`, `_enqueue_stats_safely` |
| ApplyTask, SkipTask | `process_question_stats` under the attempt's row lock |
| BeginEdit, SaveEdit, SaveImages | `QuestionAdminSerializer.update`, `upload_images` |

An option that is deleted and made again gets a new `edition`, so that the
UPDATE of an older delta finds no row; a delta that would take an unsigned column
below zero fails its transaction (`Fits`).

**ImportBatch** - what the two modules of an import share: the rows of a batch,
which states may be edited, the bounds.

**ImportSearch** - the duplicate search of one batch, and the taxonomy requests
that start one. `subject`, `generation`, `dedup`, `dedupClaim` are the columns of
`ImportBatch`, `patch[p]` what a request has read, `search[w]` what a handler has;
`tasks` are the tasks Cloud Tasks holds and `named` the names it knows, those of
finished tasks included. *History*: `given`, `doubled`, `unsent`, `broken`,
`unannounced`, `searchedFor`.

| actions | code |
|---|---|
| ReadBatch, SaveSubject, SaveGeneration, SendTask, BreakRequest | `ImportBatchTaxonomyView.patch`: the batch is read, its subject saved, then the generation after the one read, then the task created under a name with that generation |
| ForgetName | Cloud Tasks, which refuses the name of a task it remembers |
| ClaimSearch, DropSearch | the compare-and-set of `run_dedup_task` and the reads after it |
| ClearRow, SearchRow, StopSearch, FinishSearch | the rounds of `_run_dedup` with its look at the generation every `CheckEvery` rows, and the last conditional UPDATE |
| Crash, RowIsGone | a handler that dies or raises: the task comes again, the claim stays |
| PatchRow, SetAction, DeleteRow, Import | what administrators do beside it |

**ImportRun** - the import of a searched batch. `StartRun` is `_claim_batch` and
the query after it; `CreateQuestion`, `SaveRow`, `SkipRow`, `RowFails` one round
of `run_import`, `BreakRun` an exception or the death of the process;
`BeginDirect`, `CommitDirect`, `FailDirect` are create-test and create-questions;
`Rollback` is `ImportRollbackView`; `Confirm`, `TaskRepeats`, `TaskForgotten`,
`DropTask` the queue. `made` counts the questions that came from a row; the
history `accidents` counts what may honestly make one more: the run broke off
between question and row, the row was overwritten meanwhile, a direct request
crossed another writer. Import in ImportSearch is this module in one step.

**StudentAccess** - one student, several tests and questions. `CanAccess`,
`Visible`, `CardState`, `Paid`, `Available`, `GateOpen` are the decision
functions of the code; `RequestStart` passes the gate, `Resume`,
`CreateAttempt`, `RefuseStart` are the transaction of the start, `ChargeStarter`,
`ReadQuota`, `WriteQuota` the charges after it; `RequestAnswer`, `RecordAnswer`,
`RefuseOption` the answer endpoint of the question bank, which charges first.
The clock, enrolments, purchases and the lapse of an allowance change between
any two steps. A window is that of the test or of a session (`BySession`, of any
exam type; `Unpublished` while the session is a draft), the limit that of the test
or of the session (`Limit`, `SessionLimit`), and `Earlier` are attempts in sessions
before the present one. `CardDiffers` lists where the card and the start are known to
disagree. The attempts it creates are those of ExamAttempt, reduced to how many there
are, whether one is in progress, and whether that one is past its deadline and not
finalized (`overtime`; `TimeIsUp`, `ClockTick`); the purchases are those of
PurchaseAccess, reduced to whether a product is in force.

**ExamRelease** - one exam, its sessions and attempts, a clock. `Effective`,
`Deadline`, `Solutions`, `ReviewInTime`, `Missed`, `Governing` are the derived
rules of `lifecycle.py` and `entitlements/services.py`; `BeginStart`,
`SaveStatus`, `InsertAttempt` the steps of a start; `Reschedule` with `Adopt` is
`create_reschedule_session`; `BeginEditSession`/`SaveSession` and
`BeginEditExam`/`SaveExam` are forms that save every column they read.

**MediaAssets** - the rows of one picture (one hash and image type), their
storage keys and the objects under them; every call on a bucket and every save is
an action. An upload is a request of its own, or one of those of an import, between
`BeginImport` and `Commit` (or `ImportFails`): its rows are seen by that worker alone
until the commit (`uncommitted`, `Visible`) and are gone after a rollback, its
objects and tasks are there at once and stay. *History*: `condemned`, `spoilt`, `overtaken`.

| actions | code |
|---|---|
| BeginImport, Commit, ImportFails | `ImportBatchCreateTestView`, `ImportBatchCreateQuestionsView` |
| FindDuplicate, InsertCopy, UploadOriginal, InsertNew, Enqueue, UploadFails, SaveAnnounced | `create_media_asset_from_file` |
| Deliver, MarkProcessing, Download, UploadVariant, ProcessingFails, SaveReady, SaveFailed | `process_media_asset` and the task view |
| BeginDelete, CheckShared, RemoveObject, DropRow | `delete_media_asset` |

## 3 Environment

*Database.* A plain read returns what is committed. A transaction that takes row
locks and reads in between is several actions with lock variables (ExamAttempt,
Payment); a rollback is a worker that returns and releases its locks without
having written. In ExamAttempt a request for a shared lock also waits behind one for
an exclusive lock that came before it (`Queued`). A transaction that is seen in the
middle by what is outside the database is several actions with rows that others do
not see (MediaAssets). READ COMMITTED is what Django sets on MySQL unless told
otherwise. In SessionReminders and Delivery the code opens no transaction,
so every statement is an action. In PurchaseAccess the transaction of a grant
appears as read and write, because the `Subscription` row is read without a lock;
the `Purchase` row it locks keeps other grants and refunds of the order out.

*Crash.* `Crash(w)` (`BreakRun` in ImportRun): the thread dies between two
statements; what was committed stays, locks go. ExamAttempt has no such action: there a dead thread leaves what
`DeadlockVictim` leaves.

*Queue.* A task is delivered until its answer is a success, may be delivered
again after that (`RepeatTask`, `TaskRepeats`, `acked = FALSE` in QuestionStats), and may
never have been created (`LoseTask`, `sent = FALSE`, `BreakRequest`). A task with a
name is created once until the queue forgets the name (`TaskForgotten`, `ForgetName`);
the code takes the refusal for success. The synchronous modes, in which the request
runs the handler itself, are for development and not modelled, except that of the
duplicate search, which a comment (`import_views.py:356-372`) says is what production
runs (`DEDUP_PROCESSING_ASYNC` is not set). Its behaviours are among those of
ImportSearch: the task is delivered at once, never again after a failure, and no name
is refused. So the safety properties hold of it, and `SearchCompletes`, to which a
search that broke off is an exception.

*Claims.* A claim column is fresh or stale; it turns stale half an hour after it
was set. `LongRuns` and `LongSearches` say whether a handler may work longer than
that; where FALSE, a claim ages only when its holder is done, dead or superseded.

*Clock.* A natural number that `Tick` advances to `MaxTime`; instants of one
request are one instant unless the code reads the clock twice across a wait.

*Bounds* (all in guards or constants): `MaxTime`; `MaxEvents`, `MaxEdits`,
`MaxChanges`, `MaxAnswers`, `MaxUploads`, `MaxRequests`, `MaxCrashes` (requests,
acts of administrators, changes from outside, dead threads); the identities `Rows`,
`Purchases`, `Sources`, `Subscriptions`, `Attempts`, `Sessions` (in ExamAttempt a
start that finds no row left is refused). The proofs assume no bound.

*Fairness.* A thread goes on with its request; the clock ticks; the scheduler
calls its endpoints for ever; a lock that is released again and again is
granted in the end (strong fairness on the lock steps: InnoDB grants in order of
request), and one request of a lock cycle is sacrificed; the queue delivers a task
again and again until it is answered (strong fairness of `ClaimSearch`: each delivery
that finds a search to claim may claim it); a taxonomy request that has saved its
generation goes on to create the task, or breaks off. No fairness for students,
administrators or providers.

## 4 Runs

| run | instance | shows |
|---|---|---|
| attempts | 2 students, 2 threads, 2 rows, 2 attempts allowed, 1 question, daily test with a preview, clock 1 | the requests and their locks implement the abstract exam; with it results are final; one live attempt, ranks count exactly the earlier submissions, finalizations do not deadlock with each other |
| attempt_liveness | 1 student, 2 threads, 1 row, 1 question, practice answers, statistics tasks and reschedules beside the exam, fair | expired attempts are submitted and requests end, deadlock victims included |
| payment | 2 orders of one or two students, one free, 1 reference, coupon with one use and one per student, edited by forms, 2 threads, deaths | cap kept unless a form took the counter back; limit per student; decisions final |
| purchase_access | 3 sources of any kind, plans of 1 or 2 days, 2 threads | ledger exact always; time adds up, refunds spare others, scholarships apart when requests do not overlap |
| session_reminders | 2 kinds, 2 start times, 2 threads, 2 events (edits, cancellations, a lost access, a changed preference, a death), clock 2, fair | never early, due ones dispatched; agreement after requests that do not overlap |
| delivery | 2 browsers, 2 threads, 2 tries, 3 events for e-mail and 1 for push, fair | one e-mail, steady browsers reached, retries end, e-mails settle |
| question_stats | 2 students, 3 exams (two of one student), 1 question of 2 options, 3 practice answers, 1 edit, tasks lost, repeated and reordered | pick counts and totals are one vote per student, up to deltas on their way |
| import_search | 2 rows, one subject or none, 2 taxonomy requests by 2 threads, 2 handlers, a look at each row, a crash, an edit, fair | what completes the batch is a search for its subject; a superseded search writes one check interval at most; one search of a generation at a time; the search completes |
| import_run | 2 rows, 2 handlers, a direct request, a failure, an edit | one run at a time; a second question only by accident; a rollback leaves none |
| student_access | Mock Test in a session with a limit of its own, Grand Test with a window of its own, Past Year test put off to a draft session with an attempt before, question; allowance of 2, 1 and 0, quota 2, 2 threads, a death, 4 changes | allowance not overdrawn, what it opens bounded, quota exact unless starts overlap, cards honoured where card and start are not known to differ |
| exam_release | 1 student, 2 attempts, 2 sessions, any kind of exam, clock 3, 2 administrative acts | no solutions by schedule while the window is answered; who saw them sits it no more; adoption keeps deadlines and released solutions |
| media_assets | 2 uploads of one picture with one variant, alone or in imports, deletions, repeated tasks, 2 threads, a death | a ready row can be shown whatever happens to rows that share its objects; an answered task has settled its row |

*Why these bounds are enough.* The hazards are races of two requests; two
threads show each, and a third adds no kind of conflict since every lock is
exclusive between two. The exception are cycles of lock waits, which may need three
transactions and two questions: the invariant `IInv` and
`FinalizationsDoNotDeadlock` were also checked once with three threads, two questions
and all the other transactions, one row; and the theorem is for any number. Two students are needed to rank, two attempts to start
twice. Three sources are the least with which the creator of a row, an extension
and a survivor of a refund are different. Two tries are the least with a retry
after a counted failure; two browsers the least where one fails and one does not.
Two starts and a clock of two let a reminder be due before and after an edit, and
an edit move the session both ways. Two exams of one student beside practice let a
delta be overtaken by a later one; two taxonomy requests let a search be superseded,
or two of them save one generation, and two rows let it happen halfway (`SearchInv`
was also checked once with two subjects, and with three requests). An allowance of two, one and none puts two
threads at every distance from the limit. A clock of three has a moment before,
in, at the end of and after a window; two sessions an old and a rescheduled one.
Two uploads are a picture and its copy, or two that do not see each other.
Symmetry is used among identities the specification only compares; not in runs
with liveness.

*Conditions.* Some properties have exceptions, because the code does not keep them
without; section 6 says what happens then.

| in the property | the case |
|---|---|
| `Quiet`, `~overlapped`, `calm`, `~raced`, `doubled` (StudentAccess) | two requests overlapped, or, where said, one died |
| `edited` | somebody edited the question |
| `accidents` | the row had an accident (ImportRun, above) |
| `reopened` | an administrator moved the end of the window, or released by hand |
| `lost` | a coupon form wrote an old counter back |
| `doubled`, `unsent`, `broken`, `unannounced` (ImportSearch) | two requests saved this generation; its request broke off before the task; a search of it broke off; the subject was saved without a generation of its own |
| `CardDiffers` | an attempt past its deadline but not finalized, a session the card does not look at, a limit of the session |
| `spoilt` | the row was copied from one whose deletion had begun, was half deleted, or was not committed when a deletion looked for other rows |
| `overtaken` | the task was answered before the upload's last save or before the import committed the row; or a repeated delivery died |

*Deadlock* is checked for ExamAttempt, whose sweep is always possible; the
other systems may really come to rest.

*Further configurations*, of behaviours that the code does not keep (section 6):
`AttemptReview.cfg` (MCExamAttempt), `AccessGrandTest.cfg` and `AccessRollback.cfg`
(MCPurchaseAccess) and `StatsStall.cfg` (MCQuestionStats). TLC finds the property of
each violated.

## 5 Proofs

| module | theorem | of |
|---|---|---|
| ExamAttemptProofs | TypeCorrect, InvariantHolds, OneLiveAttemptHolds, SequentialRankHolds, FinalizationsDoNotDeadlockHolds, ResultIsFinalHolds, AttemptLimitHolds; OfficialHolds (refinement) | any number of students, threads, rows, questions |
| PaymentProofs | TypeCorrect, OrderInvariant, ApprovedWithProofHolds, DecidedOnceHolds, CouponCapHolds, CouponPerUserHolds | any number of orders, students, threads |
| PurchaseAccessProofs | TypeCorrect, InvariantHolds, LedgerExactHolds; AloneHolds, PaidTimeAddsHolds, SharedAccessKeptHolds, OriginsApartHolds | any sources, rows, threads, durations |
| SessionReminderProofs | TypeCorrect, InvariantHolds, NeverEarlyHolds; LoneHolds, RemindersMatchHolds, EveryReminderComesHolds, StatusTellsDeliveryHolds | any kinds, offsets, starts, threads |
| DeliveryProofs | TypeCorrect, InvariantHolds, EmailOnceHolds, TriesBoundedHolds, SkippedStaysUnsentHolds; PushInvHolds, PushReachesAllHolds | any devices, threads, tries |
| ContentProofs (QuestionStats) | TypeCorrect, InvariantHolds, PicksAreExact, TotalIsExact | any students, questions, options, exams |
| ContentProofs (MediaAssets) | MediaInvHolds, ReadyIsShownHolds, AnsweredIsSettledHolds | any uploads, variants, threads |
| ImportProofs (ImportRun) | TypeCorrect; InvariantHolds, OneRunHolds, OneQuestionPerRowHolds, RollbackLeavesNoneHolds if `~LongRuns` | any rows, handlers, direct requests |
| ImportProofs (ImportSearch) | SearchTypeCorrect, SearchInvHolds, CompletedByCurrentHolds, StaleWindowHolds, OneSearchHolds | any rows, subjects, requests, handlers, check interval |
| StudentProofs (StudentAccess) | TypeCorrect, InvariantHolds, StarterHolds, RepeatsAreFreeHolds, QuotaExactHolds, CardIsHonouredHolds; OpensInvHolds, OpensBoundedHolds | any tests, courses, batches, policies, threads |
| StudentProofs (ExamRelease) | ReleaseInvHolds, AnswersBeforeSolutionsHolds, NeverSitsAfterSolutionsHolds, AdoptionKeepsRightsHolds | any students, attempts, sessions, times |

Every safety property and every action property that a run checks is a theorem.
Where two components share a module of proofs, it extends both, and their names
are kept apart (`SearchSpec`, `MediaSpec`, `ReleaseSpec`).

Assumed are only the `ASSUME`s of the modules (finite sets where something is
counted, distinguished values outside their sets, numbers natural); every run
evaluates them. The theorems of ImportRun alone have a hypothesis on a constant:
`~LongRuns` (no run of an import outlives its claim of half an hour; with it
`OneRun` is false, since a claim is never renewed). `OneSearch` says the same of
searches within the property. The arguments:

*ExamAttempt.* `OneLiveAttempt` is not inductive: a start that has found no
attempt inserts one later. `IInv` adds that from the check to the insert it
holds the student's row (`HoldsUser`) and that under this lock the only live
attempt is the one it is about to close (`SeesEveryAttempt`). `SequentialRank`
needs that from the re-check to the commit a finalization holds its attempt,
still in progress (`HoldsAttempt`), and that a computed rank agrees with the pool
as long as the `Test` lock is held (`HoldsTest`). Finalizations do not deadlock
because their locks are ranked: attempt, then the rows of the student's answers, then
the `Test`. `LocksByPhase` says in which phases a transaction may hold each; among
any set of finalizations the one furthest on waits for none of the others, since all
they could share with it, the `Question` rows, they lock for sharing. The
refinement theorem maps the steps before a commit to stutters; at the commit
`HoldsTest` says that the draft is the ranking of the abstract exam at that
moment, and `SeesEveryAttempt` that the student has nothing else in progress.

*Payment.* Approval is backed by proof since activation holds the order's row
and its status is pending, which had a reference (`HoldsPurchase`,
`ReferencedWhenPending`). The cap needs `CounterExact` and that past the check
the coupon is held with room left (`HoldsCoupon`). A form that saves the counter
it read breaks `CounterExact`; `lost` records that, and both hold until then,
since a form that saves what the counter still is changes nothing. The limit per
student does not read that counter but the student's approved orders, again under
the coupon's lock: no other approval of an order with the coupon can come between
the count and the commit (`HasStudentRoom`), so it needs no exception.

*PurchaseAccess.* The status re-check under the `Purchase` lock makes the
thread that grants or refunds an order the only one (`HoldsOrder`); then ledger,
status and the history of reversals move together. The other three properties
hold of requests that do not overlap (`AloneInv`): then what the one request has
read of a row is still so when it writes (`Sequential`), every grant is of a row
that exists (`RowsKnown`), and the time of a row is a set of days, those of each
source on it, which a grant adds and a reversal takes away as a whole, so that
their number moves by exactly the days of one source. `SharedAccessKept` and
`OriginsApart` are needed for that induction and it for them.

*SessionReminders.* The sweep works on rows it listed before; it is safe
because a primary key is never used again, so a row that still bears the listed
key is the row that was due (`KeysUsedOnce`). For requests that do not overlap
`CalmInv` relates rows, deliveries and session at every step of the request on
its way: a row that disagrees with its delivery is the one in hand
(`RowAgrees`), a reminder that is missing is one the request has still to create
(`RowMatches`), and what it read and listed still holds (`SessionAsRead`,
`RowsAsRead`); at rest these are the three properties. What a status says of its
delivery depends on the preference when the reminder was made (`Made`, `Sent`).

*Delivery.* The conditional update lets one worker hold the row; `HeldBy` and
`EmailCounted` count the calls of the provider against it. Of the pushes
`PushInv` says that a browser that was active all along is settled, or a task is
on the queue, or a callback is on its way to it or will ask for the task again
(`Serves`); a death gives the task back to the queue.

*QuestionStats.* The sum of the changes on their way telescopes: each variable's
part of `PicksExact` moves by one for one student or one attempt, so the proof
is about cardinalities of sets that gain or lose one member. It needs that an
applied attempt is a finalized one and that changes are recorded once.

*ImportRun.* A run holds a fresh claim (`RunsClaimed`); a row has a question more
than its accidents explain only when it says so or a run is halfway through it
(`NotYetMade`); a run that a direct request has overtaken makes one more of each
row it has left, and these are the rows the request charged as accidents
(`Overtaken`).

*ImportSearch.* The generation does go back: a request saves the one after that it
has read. So the proof is about the generations the batch has had (`given`) and those
it was given twice (`doubled`). A search of a generation given once that was overtaken
sees another number (`LooksOften`), since the number it has comes back only as a
double; it has looked within the last `CheckEvery` rows, which bounds what it writes.
A search that sees its own generation is for the subject of the batch, unless that
was saved alone or the generation twice (`SearchesCurrent`), and the last conditional
UPDATE completes only such a search. It holds a fresh claim if none outlives its claim
(`ClaimHeld`), so a second one cannot take it.

*StudentAccess.* `ChargeInOrder` and `QuotaInOrder` follow one request from the
gate to its charge, as long as no other is in between; the conditional update
under the row lock gives `StarterWithinAllowance` without any of it.
`CardIsHonoured` needs that nobody has an attempt before the window opened, and that
one in progress when the window closes is past its deadline (`AttemptsInWindow`):
then the cases of the card and of the gate coincide, those of `CardDiffers` apart.
`OpensBounded` counts requests where they stand (`OpensInv`): while a unit is
left, what was opened beyond the units taken is paid by a request before its
charge or by a thread that died there; once nothing is left, only requests past
the gate can open more, and at least one thread is the one that took the last
unit. There must be a thread for that: `Workers # {}`.

*ExamRelease.* All three properties compare two moments that the code computes
in different places. `ReleaseInv` says for every window that is not on record as
`reopened` that it is over by the clock if its session says so, and is not
released by hand (`WindowsOK`); that the same is true of the status a start is
about to save (`StartsOK`) and of the row a form is about to write back
(`FormOK`), which both read earlier; and that the end of a window somebody has
seen the solutions of is behind the clock (`ShownOK`). From it follows that the
deadline of every attempt in the window is too. An adoption (only a reschedule
is one, since a form that writes `adopted` back has read it) gives the new session
the end of the exam's window.

*MediaAssets.* `MediaInv` has rows made in order with keys that were handed out
(`RowsInOrder`), a request about a row there is, an upload with a key that nobody
else has, a processing task whose variants so far are in the bucket
(`Attending`), and that an object whose deletion has begun belongs to no row but
the one being deleted and those spoilt (`ReadyIntact`): the check for other rows
and the decision to delete are one step, at which a row that is there and not seen is
spoilt, and a row that comes later copies the key of a row that is condemned
already, and is spoilt. `AnsweredIsSettled` is
inductive with these: only a worker at the row can take it back to processing,
and it stays at it until it has settled it or died.

Only model-checked is liveness (`ExpiredIsSubmitted`, `RequestsEnd`,
`DueIsDispatched`, `RetriesEnd`, `EmailSettles`, `SearchCompletes`): fairness and
`ENABLED` are out of the prover's reach, as is induction over data; no module
here has a RECURSIVE operator.

## 6 What disagrees with the documents

Found while modelling. These are behaviours of the models, where the exceptions of
section 4 and the missing properties come from, except the ones marked (read), which
are in code that the models leave out. Four have a configuration that shows them: an
answer between scoring and the review snapshot makes the review disagree
with the score (`AttemptReview.cfg`; `lifecycle.py:513`, comment 500-503 "always
agrees"); the refund of one order for a Grand Test takes the access another order paid for
(`AccessGrandTest.cfg`; `payment_service.py:593`, 542-545); a delta of -1 on a
counter that an editor has set back to zero fails every delivery of its task, so
the exam is never counted (`StatsStall.cfg`; `academics/serializers.py:323`, the
docstring at `tests_app/views.py:1336-1348` lets a retry apply the statistics);
`billing/models.py:540-544` says that refunding an order that extended a subscription
"must roll the expiry back to what it was before", and the help texts at 562-571 that
the refund of the order that created the row "deactivates it" and another "restores
previous_expires_at instead" (`AccessRollback.cfg`, `RestoresPrevious`). The code
(`payment_service.py`, `_reverse_access_record`) takes back the time that the order
added and leaves a row active that other orders paid for, which
`docs/PHASE_9_ARCHITECTURE.md:123-142` explains; `PaidTimeAdds` and
`SharedAccessKept` state that rule, and the columns' texts are of the one before.

*Exam attempts.* Answers to questions outside the attempt are accepted and, in
full attempts, scored (`views.py:1254`, `lifecycle.py:377`; `models.py:429-430`
says otherwise). A closed daily window still admits a student who has any
earlier attempt (`views.py:250`; the comment at 232 speaks of resuming).
An answer can land after the submission (`views.py:1254`;
`docs/PHASE_6_COMPLETION_REPORT.md:133`). A rank is never revised
(`lifecycle.py:427`; `docs/PHASE_7_ARCHITECTURE.md:203`). The 409 that
`views.py:400` calls "effectively unreachable" is what InnoDB gives to the
victim of the cycle between the user row and the attempt row.

*Locks of exam attempts.* The comment at `lifecycle.py:421-424` calls the ranking
"deadlock-safe": its caller holds the attempt first and "never acquires a Test lock
anywhere else in a different order". That is so among submissions, page views and
sweeps (`FinalizationsDoNotDeadlock`), and not of the rest. The first reschedule locks the
`Test` (`exam_versioning.py:96`) and then every attempt it adopts (70), against a
finalization that holds its attempt and wants the `Test`. After the `Test` lock a
finalization inserts its review snapshots (`lifecycle.py:547`), whose foreign key
(`models.py:545`) takes shared locks on `Question` rows that statistics tasks and
practice answers hold exclusively, so that all submissions of the exam wait for a task
that may itself wait for locks of one of them. A statistics task
applies its deltas inside the transaction that claims the attempt
(`stats_tasks.py:99-110`), so it keeps the lock of the attempt and of every question
to its end; the docstring at `academics/services.py:252-254` says "each question's
delta is applied in its own short transaction", and the one before it calls a cycle
"impossible to form". Two practice answers to one question share-lock its row by
inserting a `QuestionEvent` and then both want to update it: a cycle of its own,
where `services.py:111-112` says that "a single QBank answer was never the concurrency
profile causing deadlocks". InnoDB breaks each of these cycles, and the liveness
run has them all: what is lost is the victim's request.

*Payments.* A coupon form saved beside an approval writes the old counter back,
and one more order is approved than the coupon allows (`billing/views.py:366`;
`payment_service.py:414-415` "always loses"; `lost` in `CouponCap`). One reference can pay two orders submitted and approved at once
(`payment_service.py:362`, comment 349-351). A referrer is paid again after
approve, refund, approve, or by two approvals at once (338). The audit entry is
lost if the process dies after the commit (444, docstring 2-5).

*Access.* Two approvals at once lose one extension (88-106). A scholarship and
an order can merge while the `Scholarship` row is not yet written
(`views.py:241`); a renewed scholarship extends the row and then fails on the
one-to-one key. Time granted by hand is destroyed when the order that created
the row is refunded. For courses, refunding one order takes time of another, and
buying again after a refund leaves access after all refunds
(`payment_service.py:315`). A refunded Grand Test cannot be ordered again
(`views.py:561`). A plan without end that a finite plan extends gets an end (95).

*Reminders.* While the student has in-app messages off, a reminder is created with its
delivery skipped (`services.py:201-205`), and is dispatched all the same: dispatched
does not say that the student got it. Editing the time of a cancelled session creates reminders
(`perform_update` refuses only completed sessions; `services.py:308-310`). A kind
sent for an earlier start never comes for the new one (dedupe key). An edit or
refresh that overlaps a cancellation restores the session (`models.py:317`).
A cancellation and a sweep overwrite each other's status (`services.py:386`);
"STATUS_SCHEDULED means it was never delivered" (358-360) fails when a sweep has
delivered and not yet saved. One failed save ends a pass of the sweep. Deleting
a session leaves its reminders, and an edit in flight inserts it again.

*Question statistics.* A question saved by an editor takes the counters back to
what they were when the form was read, and making the options anew clears every
student's vote while the totals stay (`academics/serializers.py:323`). A task that
could not be created is logged and forgotten.

*Bulk import.* `import_views.py:885-888` speaks of a check that "stops the same batch
from being imported twice": two direct requests, or one beside a run, both pass it.
`_run_dedup` says a superseded search "can never overwrite" a newer one; it writes
up to one check interval. A process that dies leaves the batch importing (the
search processing), and a redelivery within half an hour is acknowledged without
effect, so that nothing resumes it. A decision made for an earlier subject stays with its row. A duplicate
edited into an invalid row stays a duplicate and is imported. Replace deletes the
original before its successor exists (read). A queued run after a direct import and a
rollback takes the batch back to importing. Create-test and create-questions do
not ask whether the search has completed, the PATCH of a row not for the status
of the batch.

*Changes of subject at once.* The PATCH reads the batch without a lock, and saves its
subject (`import_views.py:326`) and the generation after the one it read (349-353)
apart. Two changes at once save one generation: then a search for the one subject
completes the batch that says the other, a search overtaken by the second change sees
no change and goes on to its end, writing rows without bound, and the second change
takes its claim away, so that two searches of one generation run. The second task is
refused for its name, which `enqueue_dedup_task` takes for a duplicate ("a genuinely
new generation always gets a distinct name"); when the first has been delivered
before the second save, the search stays pending for ever. (In the synchronous
mode both search, one after the other or at once.) So it does when the
request dies, or `create_task` fails, after the generation is saved. A request that
dies between the two saves, or one that changes only the chapter and writes back the
subject it read, leaves a completed batch with a subject nobody searched
(`run_dedup_task`: "never falsely reports success for a Subject it wasn't run
against").

*Access.* `_free_starter_eligibility` says that a prior attempt was paid for; the
subscription may have lapsed or been refunded since. `docs/FREE_STARTER_USAGE_RULES.md`
section 10 calls a double click on one resource "safe by construction": two first
starts or answers at once charge twice, and a start charges nothing when the unit
is gone by then. A refused option of a question costs its unit. The card offers
what the start refuses (`CardDiffers`; "the two must never diverge",
`lifecycle.py:164-166`, "the exact same canonical function _start_attempt enforces",
`card_access.py:257`): "continue" for an attempt past its deadline that nobody has
finalized (`card_access.py:219`, 235), which the start finalizes and may then answer
max_attempts_reached (`views.py:377-386`); "start" for a Mock or Past Year test
outside the window of its session (`views.py:161-197`; 275 of the card looks at
Grand and Daily Tests only), for a draft session, for an ended session when there was
an attempt, and beyond the session's own limit, since it counts the attempts of all
sessions against `Test.max_attempts` (`or 1` where that is 0). It also says locked
where a prior attempt or a preview would start. At the closing instant of a Daily
Test `lifecycle.py:218` still says live and the start refuses (read).
`can_start_test`, "mirroring _start_attempt's own checks exactly", leaves out the
exam's own schedule, prior attempts and previews (read). Two starts on a quota at once count as one.
Bookmarks, confidence marks and Smart Practice make a question known without a
unit.

*Exam release.* A student who sits an earlier session is told to have missed the
exam, with its solutions, when the latest session has ended
(`GrandTestMissedReviewView`, whose docstring speaks of no attempt ever). Two
reschedules at once (a double click) make two sessions. The first reschedule of
an exam without a schedule makes a session that lasts as long as the exam takes
from its creation: attempts in progress expire (`exam_versioning.py`: "purely
additive"). Adoption loses a manual release and takes back the immediate solutions
of Daily and Mock Tests. A session that has ended can be cancelled until someone
refreshes its status. A status refreshed before an edit and saved after it ends a
session that was put off: solutions are shown while others answer. A form that
was read before an adoption or a release undoes it. Attempts in progress survive
the cancellation of their session.

*Media library.* The objects go before the row, so a deletion that dies leaves a
ready row with nothing to show, which later uploads copy, and an upload that found
the row before its deletion gets a row without objects (`service.py:78-97`; `views.py`:
"No partial deletion should remain"). A copy that an import has not committed is not
seen by the check for other rows (`service.py:92`), so that the deletion of the
picture takes its objects, and the copy is committed ready with nothing to show. The
task of a new picture is created before the import that inserts it commits
(`service.py:72` inside `import_views.py:801` or 900; `IMAGE_PROCESSING_ASYNC` is
True in `cloudbuild.yaml:42`): delivered before, it finds no row and is answered
(`tasks.py:50-52`), and the row is committed as processing for ever. An import that
is rolled back leaves the objects it uploaded. The upload's last save sets a row to
processing after its task may have made it ready, and nothing calls the task again
(`service.py:73-74`; `tasks.py`: "flip status to ready/failed"); in the synchronous
mode it always does (read). A repeated delivery hides a ready picture while it runs and may
leave it failed ("Idempotent"). Two uploads of the same bytes at once are both
processed (`views.py`: "never re-uploaded or re-processed twice"). A task that could
not be created leaves a row uploading for ever.

*Delivery.* A row stays processing when a thread dies, or `render_email`
raises, between claim and send (`email_tasks.py:112` names another "ONLY way").
An answer that is late or unreadable counts as temporary and the e-mail is sent
again. Overlapping pushes re-send to a browser that has the message
(`push_tasks.py:79-80` says never); a push ignores a cancellation; its row says
sent when all browsers failed; a retry goes on with attempts already failed; a
browser registered again can be marked invalid by an older push. A lost enqueue
leaves an immediate row queued for ever.

## 7 Not modelled

In the modelled parts: the locks of `Option` rows, of administrators' edits of
questions and tests, and the retries of a deadlocked delta, beside an exam; heartbeats, time per question, bookmarks and passwords of
exams; a schedule that changes during an attempt in ExamAttempt (`OpensAt`,
`ClosesAt`, `Duration` are constants there; ExamRelease changes them);
screenshots, prices, plans, renewal reminders (their check-then-send can send
two, `billing/views.py:890`); `max_uses` without limit; the shared lock of a
coupon's foreign key; the package page; several students in StudentAccess and
ExamRelease, whose rows never meet; Daily Test previews beside a subscription,
course content and videos among the access decisions, an attempt still in progress in
an earlier session than the test's present one, and a reschedule during the behaviour
(StudentAccess has the sessions as constants); the questions that a new
version of an exam copies, and its number; upload, validation, media and progress
counters of an import; the announcement of a session, the daily "ending"
reminder relative to the end, registration deadlines and drafts, the order of
kinds in a loop (any); validation, formats, roles, other categories and signed links
of media; the synchronous mode of the queues (development only).

Components without a module: Smart practice, accounts and devices (the limit of
devices is read, then inserted against, `accounts/views.py:85-108`: two logins at
once pass it), courses, marketplace and videos are planned below;
parsers, cloud storage, analytics, site content and settings stay out: stateless,
reads, or input and output.

## 8 Plan

1. **SmartPractice** - a protocol of a few actions: one answer per question,
   completion once.
2. **Accounts**, **CourseWorkflow** - devices, verification, approval workflows of
   enrolment requests, teachers and courses.
3. A refinement of QuestionStats: an abstract tally that changes when a student
   does, with the deltas on their way as its lag.
