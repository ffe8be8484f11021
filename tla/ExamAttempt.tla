---------------------------- MODULE ExamAttempt ----------------------------
(***************************************************************************)
(* The life of the attempts at ONE exam: starting or resuming an attempt,  *)
(* answering, submitting, automatic submission when time runs out, and the *)
(* finalization that scores, ranks and snapshots an attempt exactly once.  *)
(*                                                                         *)
(* Code: tests_app/views.py (_start_attempt, AttemptDetailView,            *)
(* SubmitAnswerView, MarkForReviewView, SubmitTestView, TestResultView,    *)
(* FinalizeExpiredAttemptsView) and tests_app/lifecycle.py.                *)
(*                                                                         *)
(* An "exam" is one (test, session) pair: the scope in which attempts are  *)
(* counted, limited and ranked.  A worker is a server thread running one   *)
(* request at a time.  The database is MySQL at READ COMMITTED: a plain    *)
(* read returns what is committed, SELECT ... FOR UPDATE takes an exclusive*)
(* row lock until the transaction ends, and the insertion of a child row   *)
(* takes a shared lock on the parent row of each of its foreign keys, all  *)
(* of one inserted row at once.  A request for a shared lock waits behind  *)
(* a queued request for an exclusive one.                                  *)
(*                                                                         *)
(* Three other kinds of transactions lock the same rows: practice answers  *)
(* and statistics tasks, which count on Question rows (module              *)
(* QuestionStats), and the first reschedule, which moves the attempts of   *)
(* the Test to a session (module ExamRelease).  Only their locks are here. *)
(***************************************************************************)
EXTENDS Integers, FiniteSets

CONSTANTS
    Students,       \* the students who may take this exam
    Workers,        \* server threads
    Rows,           \* identities available for TestAttempt rows
    TestQuestions,  \* the questions of the Test
    Bank,           \* the ids of the questions of the question bank
    Choices,        \* what an answer request may carry
    NoStudent, NoWorker, NoRow,
    ScheduleKind,   \* which window _start_attempt enforces
    OpensAt, ClosesAt, Duration,
    MaxAttempts,    \* Test.max_attempts or ExamSession.max_attempts
    FreePreview,    \* Test.free_preview_questions of a PRO daily test, else 0
    RightMarks, WrongMarks,
    Alongside,      \* the other transactions: "practice", "statistics", "reschedule"
    MaxTime         \* the clock stops here (bound)

AnswerValues == {"none", "blank", "right", "wrong"}

ASSUME ExamAssumption ==
    /\ IsFiniteSet(Rows) /\ IsFiniteSet(Bank)
    /\ Bank \subseteq Nat \ {0} /\ TestQuestions \subseteq Bank
    /\ Alongside \subseteq {"practice", "statistics", "reschedule"}
    /\ Choices \subseteq {"blank", "right", "wrong"}
    /\ NoStudent \notin Students /\ NoWorker \notin Workers /\ NoRow \notin Rows
    /\ ScheduleKind \in {"session", "grand", "daily", "open"}
    /\ {OpensAt, ClosesAt, Duration, MaxAttempts, FreePreview,
        RightMarks, WrongMarks, MaxTime} \subseteq Nat

VARIABLES
    now,
    \* --- committed TestAttempt rows and their children ---
    owner, number, status, start,
    frozen,       \* AttemptQuestion: the questions fixed at the start
    preview,      \* AttemptQuestion.is_preview
    adopted,      \* the Test has an ExamTemplate
    answers,      \* Answer rows: the value saved for each question
    result,       \* score sheet, rank, pool size, review snapshot
    earlier,      \* history: the attempts already submitted when this one was
    \* --- row locks held by open transactions ---
    userX, userS, attemptLock, testLock, testS,
    questionX, questionS,
    history,      \* the QuestionAttempt row of a student and a question
    \* --- the request each worker is running ---
    pc, who, target, auto, entry, draft, todo,
    wanted,       \* the Question rows the rest of its statement has to lock
    plan          \* the attempt it is inserting

rowVars == <<owner, number, start, frozen, preview, adopted>>
resultVars == <<status, result, earlier>>
examLocks == <<userX, userS, attemptLock, testLock, testS>>
bankLocks == <<questionX, questionS, history>>
locks == <<examLocks, bankLocks>>
request == <<who, target, auto, entry, todo>>
locals == <<request, draft, wanted, plan>>
vars == <<now, rowVars, answers, resultVars, locks, pc, locals>>

-----------------------------------------------------------------------------
(* Values *)

AnswerSheet == [Bank -> AnswerValues]
NoAnswers == [q \in Bank |-> "none"]
Entries == [question: Bank, choice: Choices \cup {"mark"}]
NoEntry == [question |-> 0, choice |-> "none"]
Drafts == [sheet: AnswerSheet, review: AnswerSheet, rank: Nat, total: Nat,
           auto: BOOLEAN, end: Nat]
NoDraft == [sheet |-> NoAnswers, review |-> NoAnswers, rank |-> 0, total |-> 0,
            auto |-> FALSE, end |-> 0]
Plans == [questions: SUBSET Bank, preview: BOOLEAN, at: Nat]
NoPlan == [questions |-> {}, preview |-> FALSE, at |-> 0]

\* Only answers with a selected option earn or lose marks.
Score(sheet) ==
    RightMarks * Cardinality({q \in Bank : sheet[q] = "right"})
      - WrongMarks * Cardinality({q \in Bank : sheet[q] = "wrong"})

AnsweredIn(sheet) == {q \in Bank : sheet[q] \in {"right", "wrong"}}
Answered(sheet) == AnsweredIn(sheet) # {}

Earliest(a, b) == IF a <= b THEN a ELSE b

\* effective_attempt_end: the personal deadline, cut short by the window.
EffectiveEnd(r) ==
    IF ScheduleKind = "open" THEN start[r] + Duration
                             ELSE Earliest(start[r] + Duration, ClosesAt)

IsExpired(r) == status[r] = "in_progress" /\ now >= EffectiveEnd(r)

\* Wrong: counts only the attempts that were submitted.
SubmittedAttemptsOf(s) == {r \in Rows : status[r] = "submitted" /\ owner[r] = s}

AttemptsOf(s) == {r \in Rows : status[r] # "none" /\ owner[r] = s}
LiveOf(s) == {r \in AttemptsOf(s) : status[r] = "in_progress"}
Pool == {r \in Rows : status[r] = "submitted"}
Ahead(pool, sheet) == {r \in pool : Score(result[r].sheet) > Score(sheet)}

\* Session and schedule checks of _start_attempt; a Test scheduled without a
\* session lets a student with an earlier attempt through after its end.
WindowAllows(s) ==
    CASE ScheduleKind = "open"    -> TRUE
      [] ScheduleKind = "session" -> OpensAt <= now /\ now <= ClosesAt
      [] ScheduleKind = "grand"   -> OpensAt <= now /\ (now <= ClosesAt \/ AttemptsOf(s) # {})
      [] ScheduleKind = "daily"   -> OpensAt <= now /\ (now < ClosesAt \/ AttemptsOf(s) # {})

\* freeze_attempt_questions: all questions, or a preview slice of a shuffle.
FrozenSets(isPreview) ==
    IF isPreview
    THEN {S \in SUBSET TestQuestions :
            Cardinality(S) = Earliest(FreePreview, Cardinality(TestQuestions))}
    ELSE {TestQuestions}

-----------------------------------------------------------------------------
(* Row locks *)

CanLockUser(w, s) == userX[s] \in {NoWorker, w} /\ userS[s] \subseteq {w}
CanLockAttempt(w, r) == attemptLock[r] \in {NoWorker, w}
CanLockTest(w) == testLock \in {NoWorker, w} /\ testS \subseteq {w}
CanShareTest(w) == testLock \in {NoWorker, w}

\* v has asked for the exclusive lock of the Question row q and waits for it.
Queued(v, q) == pc[v] = "queued" /\ q \in wanted[v] /\ \A p \in wanted[v] : q <= p

\* The workers an exclusive, or a shared, lock of a Question row has to wait for.
OwnBlockers(w, q) == {v \in Workers \ {w} : questionX[q] = v \/ v \in questionS[q]}
ShareBlockers(w, q) == {v \in Workers \ {w} : questionX[q] = v \/ Queued(v, q)}

\* The workers that keep w from recording an answer of student s to q.
RecordBlockers(w, s, q) ==
    ShareBlockers(w, q) \cup {v \in Workers \ {w} : userX[s] = v \/ history[s][q] = v}

\* One answer of record_question_result: the student's QuestionAttempt row
\* is locked, then the QuestionEvent inserted.  Both in one step: the history
\* row belongs to the student, whose other requests are the only ones kept out.
Record(w, s, q) ==
    /\ RecordBlockers(w, s, q) = {}
    /\ history' = [history EXCEPT ![s] = [@ EXCEPT ![q] = w]]
    /\ userS' = [userS EXCEPT ![s] = @ \cup {w}]
    /\ questionS' = [questionS EXCEPT ![q] = @ \cup {w}]

\* A foreign key of an inserted row: the shared lock of one Question row.
Share(w, q) ==
    /\ ShareBlockers(w, q) = {}
    /\ questionS' = [questionS EXCEPT ![q] = @ \cup {w}]
    /\ wanted' = [wanted EXCEPT ![w] = @ \ {q}]

\* The end of a transaction, by commit or rollback, drops all its locks.
ReleaseLocks(w) ==
    /\ userX' = [s \in Students |-> IF userX[s] = w THEN NoWorker ELSE userX[s]]
    /\ userS' = [s \in Students |-> userS[s] \ {w}]
    /\ attemptLock' = [r \in Rows |-> IF attemptLock[r] = w THEN NoWorker ELSE attemptLock[r]]
    /\ testLock' = IF testLock = w THEN NoWorker ELSE testLock
    /\ testS' = testS \ {w}
    /\ questionX' = [q \in Bank |-> IF questionX[q] = w THEN NoWorker ELSE questionX[q]]
    /\ questionS' = [q \in Bank |-> questionS[q] \ {w}]
    /\ history' = [s \in Students |->
         [q \in Bank |-> IF history[s][q] = w THEN NoWorker ELSE history[s][q]]]

\* The worker returns from its call, to a pending sweep or to no request.
Return(w, rest) ==
    /\ pc' = [pc EXCEPT ![w] = IF rest = {} THEN "idle" ELSE "sweep"]
    /\ who' = [who EXCEPT ![w] = NoStudent]
    /\ target' = [target EXCEPT ![w] = NoRow]
    /\ auto' = [auto EXCEPT ![w] = FALSE]
    /\ entry' = [entry EXCEPT ![w] = NoEntry]
    /\ draft' = [draft EXCEPT ![w] = NoDraft]
    /\ todo' = [todo EXCEPT ![w] = rest]
    /\ wanted' = [wanted EXCEPT ![w] = {}]
    /\ plan' = [plan EXCEPT ![w] = NoPlan]

\* The worker enters finalize_attempt(r, auto_submitted=byServer).
CallFinalize(w, r, byServer) ==
    /\ pc' = [pc EXCEPT ![w] = "fin_lock"]
    /\ target' = [target EXCEPT ![w] = r]
    /\ auto' = [auto EXCEPT ![w] = byServer]

Nested(w) == who[w] # NoStudent
Finalized(w) == draft[w].rank > 0
Closing(w) == IF Finalized(w) THEN {target[w]} ELSE {}

\* The commit of a finalization: status, result and history of its attempt.
StoreResult(w) ==
    /\ result' = [r \in Rows |-> IF r \in Closing(w) THEN draft[w] ELSE result[r]]
    /\ earlier' = [r \in Rows |-> IF r \in Closing(w) THEN Pool ELSE earlier[r]]

-----------------------------------------------------------------------------
(* Starting or resuming an attempt: _start_attempt *)

\* The checks made before any lock is taken.
RequestStart(w, s) ==
    /\ pc[w] = "idle"
    /\ WindowAllows(s)
    /\ pc' = [pc EXCEPT ![w] = "start_lock"]
    /\ who' = [who EXCEPT ![w] = s]
    /\ UNCHANGED <<now, rowVars, answers, resultVars, locks, target, auto, entry, todo,
                   draft, wanted, plan>>

\* Wrong: the user row is read without FOR UPDATE.
ReadUser(w) ==
    /\ pc[w] = "start_lock"
    /\ pc' = [pc EXCEPT ![w] = "start_read"]
    /\ UNCHANGED <<now, rowVars, answers, resultVars, locks, locals>>

\* SELECT ... FOR UPDATE on the student's own user row.
LockUser(w) ==
    /\ pc[w] = "start_lock"
    /\ CanLockUser(w, who[w])
    /\ userX' = [userX EXCEPT ![who[w]] = w]
    /\ pc' = [pc EXCEPT ![w] = "start_read"]
    /\ UNCHANGED <<now, rowVars, answers, resultVars, userS, attemptLock, testLock, testS,
                   bankLocks, locals>>

\* No attempt is in progress: go on to create one.
FindNoAttempt(w) ==
    /\ pc[w] = "start_read"
    /\ LiveOf(who[w]) = {}
    /\ pc' = [pc EXCEPT ![w] = "start_create"]
    /\ UNCHANGED <<now, rowVars, answers, resultVars, locks, locals>>

\* An attempt in progress and not expired is handed back.
ResumeAttempt(w) ==
    /\ pc[w] = "start_read"
    /\ \E r \in LiveOf(who[w]) : ~IsExpired(r)
    /\ ReleaseLocks(w)
    /\ Return(w, {})
    /\ UNCHANGED <<now, rowVars, answers, resultVars>>

\* An expired one is finalized first, inside this same transaction.
FinalizeStale(w) ==
    /\ pc[w] = "start_read"
    /\ \E r \in LiveOf(who[w]) : IsExpired(r) /\ CallFinalize(w, r, TRUE)
    /\ UNCHANGED <<now, rowVars, answers, resultVars, locks, who, entry, todo,
                   draft, wanted, plan>>

\* A bound of the model: each insertion under way will find an unused row.
RowLeft ==
    Cardinality({v \in Workers : pc[v] = "start_freeze"})
      < Cardinality({r \in Rows : status[r] = "none"})

\* No attempt left (or no row): the transaction commits what it finalized.
RefuseStart(w) ==
    /\ pc[w] = "start_create"
    /\ Cardinality(AttemptsOf(who[w])) >= MaxAttempts \/ ~RowLeft
    /\ status' = [r \in Rows |-> IF r \in Closing(w) THEN "submitted" ELSE status[r]]
    /\ StoreResult(w)
    /\ ReleaseLocks(w)
    /\ Return(w, {})
    /\ UNCHANGED <<now, rowVars, answers>>

\* TestAttempt.objects.create: a shared lock on the Test; the questions to
\* freeze are read.
InsertAttempt(w) ==
    /\ pc[w] = "start_create"
    /\ Cardinality(AttemptsOf(who[w])) < MaxAttempts /\ RowLeft
    /\ CanShareTest(w)
    /\ testS' = testS \cup {w}
    /\ \E isPreview \in BOOLEAN : \E S \in FrozenSets(isPreview) :
         /\ isPreview => FreePreview > 0
         /\ plan' = [plan EXCEPT ![w] = [questions |-> S, preview |-> isPreview, at |-> now]]
         /\ wanted' = [wanted EXCEPT ![w] = S]
    /\ pc' = [pc EXCEPT ![w] = "start_freeze"]
    /\ UNCHANGED <<now, rowVars, answers, resultVars, userX, userS, attemptLock, testLock,
                   bankLocks, request, draft>>

\* freeze_attempt_questions inserts one AttemptQuestion after another.
FreezeQuestion(w) ==
    /\ pc[w] = "start_freeze"
    /\ \E q \in wanted[w] : Share(w, q)
    /\ UNCHANGED <<now, rowVars, answers, resultVars, examLocks, questionX, history,
                   pc, request, draft, plan>>

\* All questions are frozen: the attempt is committed.
CreateAttempt(w) ==
    /\ pc[w] = "start_freeze"
    /\ wanted[w] = {}
    /\ \E r \in Rows :
         /\ status[r] = "none"
         /\ owner' = [owner EXCEPT ![r] = who[w]]
         /\ number' = [number EXCEPT ![r] = Cardinality(AttemptsOf(who[w])) + 1]
         /\ start' = [start EXCEPT ![r] = plan[w].at]
         /\ preview' = [preview EXCEPT ![r] = plan[w].preview]
         /\ frozen' = [frozen EXCEPT ![r] = plan[w].questions]
         /\ status' = [x \in Rows |-> IF x = r THEN "in_progress"
                                      ELSE IF x \in Closing(w) THEN "submitted" ELSE status[x]]
    /\ StoreResult(w)
    /\ ReleaseLocks(w)
    /\ Return(w, {})
    /\ UNCHANGED <<now, answers, adopted>>

-----------------------------------------------------------------------------
(* Answering: SubmitAnswerView and MarkForReviewView *)

\* The checks of an answer request, on the attempt as it is read here.
RequestAnswer(w, r) ==
    /\ pc[w] = "idle"
    /\ status[r] = "in_progress" /\ ~IsExpired(r)
    /\ \E q \in Bank, c \in Choices :
         /\ preview[r] => q \in frozen[r]
         /\ entry' = [entry EXCEPT ![w] = [question |-> q, choice |-> c]]
    /\ pc' = [pc EXCEPT ![w] = "answer_write"]
    /\ target' = [target EXCEPT ![w] = r]
    /\ UNCHANGED <<now, rowVars, answers, resultVars, locks, who, auto, todo,
                   draft, wanted, plan>>

\* Marking for review checks the Test's own question list instead.
RequestMark(w, r) ==
    /\ pc[w] = "idle"
    /\ status[r] = "in_progress" /\ ~IsExpired(r)
    /\ \E q \in TestQuestions :
         entry' = [entry EXCEPT ![w] = [question |-> q, choice |-> "mark"]]
    /\ pc' = [pc EXCEPT ![w] = "answer_write"]
    /\ target' = [target EXCEPT ![w] = r]
    /\ UNCHANGED <<now, rowVars, answers, resultVars, locks, who, auto, todo,
                   draft, wanted, plan>>

\* What update_or_create leaves in the Answer row.
Written(old, choice) ==
    IF choice # "mark" THEN choice ELSE IF old = "none" THEN "blank" ELSE old

\* Answer.objects.update_or_create: an update takes no lock on the attempt,
\* an insertion takes the shared locks of its attempt and its question.
WriteAnswer(w) ==
    /\ pc[w] = "answer_write"
    /\ LET r == target[w]
           q == entry[w].question
       IN /\ answers[r][q] = "none" => CanLockAttempt(w, r) /\ ShareBlockers(w, q) = {}
          /\ answers' = [answers EXCEPT ![r] =
                           [@ EXCEPT ![q] = Written(answers[r][q], entry[w].choice)]]
    /\ Return(w, {})
    /\ UNCHANGED <<now, rowVars, resultVars, locks>>

-----------------------------------------------------------------------------
(* Requests that finalize *)

\* SubmitTestView: allowed after the deadline, refused to a preview attempt.
RequestSubmit(w, r) ==
    /\ pc[w] = "idle"
    /\ status[r] = "in_progress"
    /\ ~preview[r]
    /\ CallFinalize(w, r, FALSE)
    /\ UNCHANGED <<now, rowVars, answers, resultVars, locks, who, entry, todo,
                   draft, wanted, plan>>

\* ensure_finalized_if_expired: opening, answering or marking an expired attempt.
TouchExpired(w, r) ==
    /\ pc[w] = "idle"
    /\ IsExpired(r)
    /\ CallFinalize(w, r, TRUE)
    /\ UNCHANGED <<now, rowVars, answers, resultVars, locks, who, entry, todo,
                   draft, wanted, plan>>

\* Wrong: the sweep passes over the attempts that have no answer to score.
BeginSweepAnswered(w) ==
    /\ pc[w] = "idle"
    /\ Return(w, {r \in Rows : IsExpired(r) /\ Answered(answers[r])})
    /\ UNCHANGED <<now, rowVars, answers, resultVars, locks>>

\* sweep_expired_attempts: one pass over the attempts expired by now.
BeginSweep(w) ==
    /\ pc[w] = "idle"
    /\ Return(w, {r \in Rows : IsExpired(r)})
    /\ UNCHANGED <<now, rowVars, answers, resultVars, locks>>

SweepNext(w) ==
    /\ pc[w] = "sweep"
    /\ \E r \in todo[w] : CallFinalize(w, r, TRUE)
    /\ UNCHANGED <<now, rowVars, answers, resultVars, locks, who, entry, todo,
                   draft, wanted, plan>>

-----------------------------------------------------------------------------
(* finalize_attempt, one statement that waits or reads at a time *)

\* Wrong: the status is not checked again under the lock.
LockAttemptBlindly(w) ==
    /\ pc[w] = "fin_lock"
    /\ CanLockAttempt(w, target[w])
    /\ attemptLock' = [attemptLock EXCEPT ![target[w]] = w]
    /\ pc' = [pc EXCEPT ![w] = "fin_score"]
    /\ UNCHANGED <<now, rowVars, answers, resultVars, userX, userS, testLock, testS,
                   bankLocks, locals>>

\* Wrong: a submission by the student locks the Test first.
LockTestThenAttempt(w) ==
    /\ pc[w] = "fin_lock"
    /\ IF auto[w] \/ testLock = w
       THEN /\ CanLockAttempt(w, target[w])
            /\ status[target[w]] = "in_progress"
            /\ attemptLock' = [attemptLock EXCEPT ![target[w]] = w]
            /\ pc' = [pc EXCEPT ![w] = "fin_score"]
            /\ UNCHANGED testLock
       ELSE CanLockTest(w) /\ testLock' = w /\ UNCHANGED <<attemptLock, pc>>
    /\ UNCHANGED <<now, rowVars, answers, resultVars, userX, userS, testS, bankLocks, locals>>

\* Lock the attempt row and re-check its status.
LockAttempt(w) ==
    /\ pc[w] = "fin_lock"
    /\ CanLockAttempt(w, target[w])
    /\ status[target[w]] = "in_progress"
    /\ attemptLock' = [attemptLock EXCEPT ![target[w]] = w]
    /\ pc' = [pc EXCEPT ![w] = "fin_score"]
    /\ UNCHANGED <<now, rowVars, answers, resultVars, userX, userS, testLock, testS,
                   bankLocks, locals>>

\* Wrong: a sweep puts an attempt that was finalized meanwhile back in its queue.
SkipThenRequeue(w) ==
    /\ pc[w] = "fin_lock"
    /\ CanLockAttempt(w, target[w])
    /\ status[target[w]] # "in_progress"
    /\ Return(w, todo[w])
    /\ UNCHANGED <<now, rowVars, answers, resultVars, locks>>

\* Finalized meanwhile by another request: return the row as it is.
SkipFinalized(w) ==
    /\ pc[w] = "fin_lock"
    /\ CanLockAttempt(w, target[w])
    /\ status[target[w]] # "in_progress"
    /\ \/ /\ Nested(w)
          /\ attemptLock' = [attemptLock EXCEPT ![target[w]] = w]
          /\ pc' = [pc EXCEPT ![w] = "start_create"]
          /\ UNCHANGED <<userX, userS, testLock, testS, bankLocks, locals>>
       \/ /\ ~Nested(w)
          /\ Return(w, todo[w] \ {target[w]})
          /\ UNCHANGED locks
    /\ UNCHANGED <<now, rowVars, answers, resultVars>>

\* _score_and_rank reads the Answer rows once.
ScoreAnswers(w) ==
    /\ pc[w] = "fin_score"
    /\ draft' = [draft EXCEPT ![w] = [@ EXCEPT !.sheet = answers[target[w]],
                                               !.auto = auto[w], !.end = now]]
    /\ wanted' = [wanted EXCEPT ![w] = AnsweredIn(answers[target[w]])]
    /\ pc' = [pc EXCEPT ![w] = IF Answered(answers[target[w]]) THEN "fin_record" ELSE "fin_rank"]
    /\ UNCHANGED <<now, rowVars, answers, resultVars, locks, request, plan>>

\* record_question_result, for one answer after another.
RecordResult(w) ==
    /\ pc[w] = "fin_record"
    /\ \E q \in wanted[w] :
         /\ Record(w, owner[target[w]], q)
         /\ wanted' = [wanted EXCEPT ![w] = @ \ {q}]
         /\ pc' = [pc EXCEPT ![w] = IF wanted[w] = {q} THEN "fin_rank" ELSE "fin_record"]
    /\ UNCHANGED <<now, rowVars, answers, resultVars, userX, attemptLock, testLock, testS,
                   questionX, request, draft, plan>>

\* Wrong: the ranking pool is read without the Test's lock.
RankUnlocked(w) ==
    /\ pc[w] = "fin_rank"
    /\ draft' = [draft EXCEPT ![w] =
                   [@ EXCEPT !.rank = Cardinality(Ahead(Pool, draft[w].sheet)) + 1,
                             !.total = Cardinality(Pool) + 1]]
    /\ pc' = [pc EXCEPT ![w] = "fin_snapshot"]
    /\ UNCHANGED <<now, rowVars, answers, resultVars, locks, request, wanted, plan>>

\* SELECT ... FOR UPDATE on the Test, then the ranking pool.
RankAttempt(w) ==
    /\ pc[w] = "fin_rank"
    /\ CanLockTest(w)
    /\ testLock' = w
    /\ draft' = [draft EXCEPT ![w] =
                   [@ EXCEPT !.rank = Cardinality(Ahead(Pool, draft[w].sheet)) + 1,
                             !.total = Cardinality(Pool) + 1]]
    /\ pc' = [pc EXCEPT ![w] = "fin_snapshot"]
    /\ UNCHANGED <<now, rowVars, answers, resultVars, userX, userS, attemptLock, testS,
                   bankLocks, request, wanted, plan>>

\* A start goes on to its insertion, any other finalization commits.
AfterSnapshots(w) == IF Nested(w) THEN "start_create" ELSE "fin_commit"

\* _create_question_snapshots reads the Answer rows again; the snapshots of
\* the questions recorded before find the lock of their question held.
SnapshotQuestions(w) ==
    /\ pc[w] = "fin_snapshot"
    /\ draft' = [draft EXCEPT ![w] = [@ EXCEPT !.review =
                   [q \in Bank |-> IF q \in frozen[target[w]] THEN answers[target[w]][q]
                                                              ELSE "none"]]]
    /\ LET unlocked == {q \in frozen[target[w]] : w \notin questionS[q]}
       IN /\ wanted' = [wanted EXCEPT ![w] = unlocked]
          /\ pc' = [pc EXCEPT ![w] = IF unlocked = {} THEN AfterSnapshots(w) ELSE "fin_insert"]
    /\ UNCHANGED <<now, rowVars, answers, resultVars, locks, request, plan>>

\* The insertion of the snapshots, one row after another.
InsertSnapshot(w) ==
    /\ pc[w] = "fin_insert"
    /\ \E q \in wanted[w] :
         /\ Share(w, q)
         /\ pc' = [pc EXCEPT ![w] = IF wanted[w] = {q} THEN AfterSnapshots(w) ELSE "fin_insert"]
    /\ UNCHANGED <<now, rowVars, answers, resultVars, examLocks, questionX, history,
                   request, draft, plan>>

CommitFinalization(w) ==
    /\ pc[w] = "fin_commit"
    /\ status' = [r \in Rows |-> IF r \in Closing(w) THEN "submitted" ELSE status[r]]
    /\ StoreResult(w)
    /\ ReleaseLocks(w)
    /\ Return(w, todo[w] \ {target[w]})
    /\ UNCHANGED <<now, rowVars, answers>>

-----------------------------------------------------------------------------
(* The other transactions *)

\* QuestionViewSet.answer: a student, who may be sitting the exam, practises.
RequestPractice(w, s) ==
    /\ "practice" \in Alongside
    /\ pc[w] = "idle"
    /\ pc' = [pc EXCEPT ![w] = "practice_record"]
    /\ who' = [who EXCEPT ![w] = s]
    /\ \E q \in Bank : wanted' = [wanted EXCEPT ![w] = {q}]
    /\ UNCHANGED <<now, rowVars, answers, resultVars, locks, target, auto, entry, todo, draft, plan>>

PracticeAnswer(w) ==
    /\ pc[w] = "practice_record"
    /\ \E q \in wanted[w] : Record(w, who[w], q)
    /\ pc' = [pc EXCEPT ![w] = "count"]
    /\ UNCHANGED <<now, rowVars, answers, resultVars, userX, attemptLock, testLock, testS,
                   questionX, locals>>

\* process_question_stats for an attempt of this exam (its row is locked
\* first) or of another exam with some of the same questions.
RequestStatistics(w) ==
    /\ "statistics" \in Alongside
    /\ pc[w] = "idle"
    /\ \E S \in (SUBSET Bank) \ {{}} : wanted' = [wanted EXCEPT ![w] = S]
    /\ \/ /\ \E r \in Pool : target' = [target EXCEPT ![w] = r]
          /\ pc' = [pc EXCEPT ![w] = "stats_lock"]
       \/ pc' = [pc EXCEPT ![w] = "count"] /\ UNCHANGED target
    /\ UNCHANGED <<now, rowVars, answers, resultVars, locks, who, auto, entry, todo, draft, plan>>

LockForStatistics(w) ==
    /\ pc[w] = "stats_lock"
    /\ CanLockAttempt(w, target[w])
    /\ attemptLock' = [attemptLock EXCEPT ![target[w]] = w]
    /\ pc' = [pc EXCEPT ![w] = "count"]
    /\ UNCHANGED <<now, rowVars, answers, resultVars, userX, userS, testLock, testS,
                   bankLocks, locals>>

\* _apply_question_stat_delta, in ascending order of the questions.
CountQuestion(w) ==
    /\ pc[w] \in {"count", "queued"}
    /\ \E q \in wanted[w] :
         /\ \A p \in wanted[w] : q <= p
         /\ OwnBlockers(w, q) = {}
         /\ questionX' = [questionX EXCEPT ![q] = w]
         /\ wanted' = [wanted EXCEPT ![w] = @ \ {q}]
    /\ pc' = [pc EXCEPT ![w] = "count"]
    /\ UNCHANGED <<now, rowVars, answers, resultVars, examLocks, questionS, history,
                   request, draft, plan>>

\* The transaction commits after the last question.
CommitCounts(w) ==
    /\ pc[w] = "count" /\ wanted[w] = {}
    /\ ReleaseLocks(w)
    /\ Return(w, {})
    /\ UNCHANGED <<now, rowVars, answers, resultVars>>

QueueForQuestion(w) ==
    /\ pc[w] = "count"
    /\ \E q \in wanted[w] : (\A p \in wanted[w] : q <= p) /\ OwnBlockers(w, q) # {}
    /\ pc' = [pc EXCEPT ![w] = "queued"]
    /\ UNCHANGED <<now, rowVars, answers, resultVars, locks, locals>>

\* create_reschedule_session locks the Test; the first time it moves the
\* attempts without a session, locking them one after another.
RequestReschedule(w) ==
    /\ "reschedule" \in Alongside
    /\ pc[w] = "idle"
    /\ pc' = [pc EXCEPT ![w] = "resch_lock"]
    /\ UNCHANGED <<now, rowVars, answers, resultVars, locks, locals>>

LockTestForReschedule(w) ==
    /\ pc[w] = "resch_lock"
    /\ CanLockTest(w)
    /\ testLock' = w
    /\ todo' = [todo EXCEPT ![w] = IF adopted \/ ScheduleKind = "session" THEN {}
                                   ELSE {r \in Rows : status[r] # "none"}]
    /\ pc' = [pc EXCEPT ![w] = "resch_adopt"]
    /\ UNCHANGED <<now, rowVars, answers, resultVars, userX, userS, attemptLock, testS,
                   bankLocks, who, target, auto, entry, draft, wanted, plan>>

AdoptAttempt(w) ==
    /\ pc[w] = "resch_adopt"
    /\ \E r \in todo[w] :
         /\ CanLockAttempt(w, r)
         /\ attemptLock' = [attemptLock EXCEPT ![r] = w]
         /\ todo' = [todo EXCEPT ![w] = @ \ {r}]
    /\ UNCHANGED <<now, rowVars, answers, resultVars, userX, userS, testLock, testS,
                   bankLocks, pc, who, target, auto, entry, draft, wanted, plan>>

CommitReschedule(w) ==
    /\ pc[w] = "resch_adopt" /\ todo[w] = {}
    /\ adopted' = TRUE
    /\ ReleaseLocks(w)
    /\ Return(w, {})
    /\ UNCHANGED <<now, owner, number, start, frozen, preview, answers, resultVars>>

-----------------------------------------------------------------------------
(* Lock waits, time, specification *)

\* Whom w waits for when it needs one of the questions in wanted[w] and
\* blockers[q] keep it from q: nobody, as long as one of them is free.
WaitsAt(w, blockers) ==
    IF \E q \in wanted[w] : blockers[q] = {} THEN {}
    ELSE UNION {blockers[q] : q \in wanted[w]}

\* The workers holding a lock that w's next statement is waiting for, or
\* queued before it.
Blockers(w) ==
    CASE pc[w] = "start_lock" -> {v \in Workers \ {w} : userX[who[w]] = v \/ v \in userS[who[w]]}
      [] pc[w] \in {"fin_lock", "stats_lock"} -> {v \in Workers \ {w} : attemptLock[target[w]] = v}
      [] pc[w] = "answer_write" /\ answers[target[w]][entry[w].question] = "none" ->
           ShareBlockers(w, entry[w].question)
             \cup {v \in Workers \ {w} : attemptLock[target[w]] = v}
      [] pc[w] = "fin_record" ->
           WaitsAt(w, [q \in Bank |-> RecordBlockers(w, owner[target[w]], q)])
      [] pc[w] = "practice_record" -> WaitsAt(w, [q \in Bank |-> RecordBlockers(w, who[w], q)])
      [] pc[w] \in {"fin_insert", "start_freeze"} -> WaitsAt(w, [q \in Bank |-> ShareBlockers(w, q)])
      [] pc[w] \in {"fin_rank", "resch_lock"} ->
           {v \in Workers \ {w} : testLock = v \/ v \in testS}
      [] pc[w] = "start_create" -> {v \in Workers \ {w} : testLock = v}
      [] pc[w] = "queued" -> UNION {OwnBlockers(w, q) : q \in {p \in Bank : Queued(w, p)}}
      [] pc[w] = "resch_adopt" /\ \A r \in todo[w] : ~CanLockAttempt(w, r) ->
           {v \in Workers \ {w} : \E r \in todo[w] : attemptLock[r] = v}
      [] OTHER -> {}

\* w waits, through any number of others, for itself.
InCycle(w) ==
    \A S \in SUBSET Workers :
        Blockers(w) \subseteq S /\ (\A v \in S : Blockers(v) \subseteq S) => w \in S

\* InnoDB ends a cycle of lock waits by rolling one of its transactions back:
\* a start answers 409, the others fail with a server error or are retried.
DeadlockVictim(w) ==
    /\ InCycle(w)
    /\ ReleaseLocks(w)
    /\ Return(w, {})
    /\ UNCHANGED <<now, rowVars, answers, resultVars>>

Tick ==
    /\ now < MaxTime
    /\ now' = now + 1
    /\ UNCHANGED <<rowVars, answers, resultVars, locks, pc, locals>>

Init ==
    /\ now = 0
    /\ owner = [r \in Rows |-> NoStudent]
    /\ number = [r \in Rows |-> 0]
    /\ status = [r \in Rows |-> "none"]
    /\ start = [r \in Rows |-> 0]
    /\ frozen = [r \in Rows |-> {}]
    /\ preview = [r \in Rows |-> FALSE]
    /\ answers = [r \in Rows |-> NoAnswers]
    /\ result = [r \in Rows |-> NoDraft]
    /\ earlier = [r \in Rows |-> {}]
    /\ userX = [s \in Students |-> NoWorker]
    /\ userS = [s \in Students |-> {}]
    /\ attemptLock = [r \in Rows |-> NoWorker]
    /\ testLock = NoWorker /\ testS = {}
    /\ questionX = [q \in Bank |-> NoWorker]
    /\ questionS = [q \in Bank |-> {}]
    /\ history = [s \in Students |-> [q \in Bank |-> NoWorker]]
    /\ adopted = FALSE
    /\ pc = [w \in Workers |-> "idle"]
    /\ who = [w \in Workers |-> NoStudent]
    /\ target = [w \in Workers |-> NoRow]
    /\ auto = [w \in Workers |-> FALSE]
    /\ entry = [w \in Workers |-> NoEntry]
    /\ draft = [w \in Workers |-> NoDraft]
    /\ todo = [w \in Workers |-> {}]
    /\ wanted = [w \in Workers |-> {}]
    /\ plan = [w \in Workers |-> NoPlan]

Request(w) ==
    \/ \E s \in Students : RequestStart(w, s) \/ RequestPractice(w, s)
    \/ RequestStatistics(w) \/ RequestReschedule(w)
    \/ \E r \in Rows : \/ RequestAnswer(w, r) \/ RequestMark(w, r)
                       \/ RequestSubmit(w, r) \/ TouchExpired(w, r)

StartStep(w) ==
    \/ LockUser(w) \/ FindNoAttempt(w) \/ ResumeAttempt(w) \/ FinalizeStale(w)
    \/ RefuseStart(w) \/ InsertAttempt(w) \/ FreezeQuestion(w) \/ CreateAttempt(w)

FinalizeStep(w) ==
    \/ LockAttempt(w) \/ SkipFinalized(w) \/ ScoreAnswers(w) \/ RecordResult(w)
    \/ RankAttempt(w) \/ SnapshotQuestions(w) \/ InsertSnapshot(w) \/ CommitFinalization(w)

\* The steps of the other transactions.
AsideStep(w) ==
    \/ PracticeAnswer(w) \/ LockForStatistics(w) \/ CountQuestion(w) \/ QueueForQuestion(w) \/ CommitCounts(w)
    \/ LockTestForReschedule(w) \/ AdoptAttempt(w) \/ CommitReschedule(w)

\* Everything a worker does to carry on with the request it has accepted.
Continue(w) ==
    StartStep(w) \/ FinalizeStep(w) \/ WriteAnswer(w) \/ SweepNext(w) \/ AsideStep(w)

Next ==
    \/ Tick
    \/ \E w \in Workers : Request(w) \/ BeginSweep(w) \/ Continue(w) \/ DeadlockVictim(w)

Spec == Init /\ [][Next]_vars

\* The statements that wait for a lock, those of a finalization that already
\* holds its attempt apart.
Grant(w) ==
    \/ LockUser(w) \/ LockAttempt(w) \/ SkipFinalized(w) \/ WriteAnswer(w)
    \/ InsertAttempt(w) \/ FreezeQuestion(w) \/ PracticeAnswer(w) \/ LockForStatistics(w)
    \/ CountQuestion(w) \/ LockTestForReschedule(w) \/ AdoptAttempt(w)
GrantTest(w) == RankAttempt(w) \/ InsertSnapshot(w)

\* Time passes, a worker carries on or is chosen to end a lock cycle; a lock
\* that is released again and again is granted to its waiter in the end (InnoDB
\* queues lock requests in order); Cloud Scheduler keeps calling the sweep.
Fairness ==
    /\ WF_vars(Tick)
    /\ \A w \in Workers :
         /\ WF_vars(Continue(w) \/ DeadlockVictim(w))
         /\ SF_vars(Grant(w)) /\ SF_vars(RecordResult(w)) /\ SF_vars(GrantTest(w))
    /\ SF_vars(\E w \in Workers : BeginSweep(w))

FairSpec == Spec /\ Fairness

-----------------------------------------------------------------------------
(* Properties *)

FinalizePcs == {"fin_lock", "fin_score", "fin_record", "fin_rank", "fin_snapshot",
                "fin_insert", "fin_commit"}

PcValues == FinalizePcs \cup
    {"idle", "start_lock", "start_read", "start_create", "start_freeze", "answer_write", "sweep",
     "practice_record", "stats_lock", "count", "queued", "resch_lock", "resch_adopt"}

\* The attempt rows.
RowsOK ==
    /\ owner \in [Rows -> Students \cup {NoStudent}]
    /\ number \in [Rows -> Nat]
    /\ start \in [Rows -> Nat]
    /\ frozen \in [Rows -> SUBSET Bank]
    /\ preview \in [Rows -> BOOLEAN]
    /\ adopted \in BOOLEAN

\* What submission writes.
ResultsOK ==
    /\ status \in [Rows -> {"none", "in_progress", "submitted"}]
    /\ result \in [Rows -> Drafts]
    /\ earlier \in [Rows -> SUBSET Rows]

LocksOK ==
    /\ userX \in [Students -> Workers \cup {NoWorker}]
    /\ userS \in [Students -> SUBSET Workers]
    /\ attemptLock \in [Rows -> Workers \cup {NoWorker}]
    /\ testLock \in Workers \cup {NoWorker} /\ testS \subseteq Workers
    /\ questionX \in [Bank -> Workers \cup {NoWorker}]
    /\ questionS \in [Bank -> SUBSET Workers]
    /\ history \in [Students -> [Bank -> Workers \cup {NoWorker}]]

\* The requests; a request that works on a student or an attempt has one.
RequestsOK ==
    /\ pc \in [Workers -> PcValues]
    /\ who \in [Workers -> Students \cup {NoStudent}]
    /\ target \in [Workers -> Rows \cup {NoRow}]
    /\ auto \in [Workers -> BOOLEAN]
    /\ entry \in [Workers -> Entries \cup {NoEntry}]
    /\ draft \in [Workers -> Drafts]
    /\ todo \in [Workers -> SUBSET Rows]
    /\ wanted \in [Workers -> SUBSET Bank]
    /\ plan \in [Workers -> Plans]
    /\ \A w \in Workers :
         /\ pc[w] \in {"start_lock", "start_read", "start_create", "start_freeze", "practice_record"}
              => who[w] \in Students
         /\ pc[w] \in {"idle", "sweep", "answer_write", "fin_commit", "stats_lock",
                       "resch_lock", "resch_adopt"} => who[w] = NoStudent
         /\ pc[w] \in FinalizePcs \cup {"answer_write", "stats_lock"} => target[w] \in Rows
         /\ pc[w] = "answer_write" => entry[w] \in Entries

\* The type of every variable.
TypeOK ==
    /\ now \in Nat
    /\ answers \in [Rows -> AnswerSheet]
    /\ RowsOK /\ ResultsOK /\ LocksOK /\ RequestsOK

\* Simultaneous start requests of one student (double tap, two tabs, retry)
\* never leave two attempts in progress: "one official attempt".
OneLiveAttempt ==
    \A r1, r2 \in Rows :
        /\ status[r1] = "in_progress" /\ status[r2] = "in_progress"
        /\ owner[r1] = owner[r2]
        => r1 = r2

\* A student's attempts carry different numbers, none above the limit.
AttemptLimit ==
    \A r1, r2 \in Rows :
        /\ status[r1] # "none" /\ status[r2] # "none" /\ owner[r1] = owner[r2]
        => /\ number[r1] \in 1..MaxAttempts
           /\ r1 # r2 => number[r1] # number[r2]

\* Ranking is sequential: the rank and pool size stored with an attempt count
\* exactly the attempts whose submission committed before its own.
SequentialRank ==
    \A r \in Rows : status[r] = "submitted" =>
        /\ earlier[r] \subseteq Pool
        /\ result[r].rank = Cardinality(Ahead(earlier[r], result[r].sheet)) + 1
        /\ result[r].total = Cardinality(earlier[r]) + 1

\* Submissions, sweeps and page views that finalize at once never wait for each
\* other in a circle ("deadlock-safe", lifecycle.py): each of their deadlocks
\* has a start, a practice answer, a statistics task or a reschedule in it.
FinalizationsDoNotDeadlock ==
    \A W \in (SUBSET Workers) \ {{}} :
        (\A w \in W : pc[w] \in FinalizePcs /\ ~Nested(w)) =>
            \E w \in W : Blockers(w) \cap W = {}

\* A submitted attempt is final: never re-scored, re-ranked or reopened.
ResultIsFinal ==
    [][\A r \in Rows : status[r] = "submitted" =>
          status'[r] = "submitted" /\ result'[r] = result[r] /\ earlier'[r] = earlier[r]]_vars

\* An attempt whose time is up is submitted, even if its student never returns
\* and whichever transaction a deadlock sacrifices.
ExpiredIsSubmitted ==
    \A r \in Rows : IsExpired(r) ~> status[r] = "submitted"

\* No request waits for ever.
RequestsEnd == \A w \in Workers : pc[w] # "idle" ~> pc[w] = "idle"

-----------------------------------------------------------------------------
(* The inductive invariant behind these properties *)

\* A start holds its student's row from the check of the attempts to the end.
HoldsUser(w) ==
    /\ pc[w] \in {"start_read", "start_create", "start_freeze"} => userX[who[w]] = w
    /\ pc[w] \in FinalizePcs /\ Nested(w) => userX[who[w]] = w

\* Under that lock the only attempt in progress is the one being finalized,
\* and an insertion stays within the limit.
SeesEveryAttempt(w) ==
    /\ pc[w] \in {"start_create", "start_freeze"} => LiveOf(who[w]) \subseteq Closing(w)
    /\ pc[w] = "start_freeze" => Cardinality(AttemptsOf(who[w])) < MaxAttempts
    /\ pc[w] \in FinalizePcs /\ Nested(w) => LiveOf(who[w]) \subseteq {target[w]}

\* From the status re-check to the commit, a finalization holds its attempt's
\* row and the attempt stays in progress.
HoldsAttempt(w) ==
    (pc[w] \in FinalizePcs \ {"fin_lock"} \/ Finalized(w)) =>
        /\ target[w] \in Rows
        /\ attemptLock[target[w]] = w
        /\ status[target[w]] = "in_progress"

\* A rank is computed under the Test's lock, held until it is stored; until
\* then it agrees with the pool.
HoldsTest(w) ==
    /\ pc[w] \in {"fin_snapshot", "fin_insert", "fin_commit"} => Finalized(w)
    /\ Finalized(w) =>
         /\ pc[w] \in {"fin_snapshot", "fin_insert", "fin_commit", "start_create", "start_freeze"}
         /\ testLock = w
         /\ draft[w].rank = Cardinality(Ahead(Pool, draft[w].sheet)) + 1
         /\ draft[w].total = Cardinality(Pool) + 1

\* The phases of a transaction in which it may hold each kind of lock: a
\* finalization takes its attempt's row before those of its student's answers,
\* and the Test's after these.
LocksByPhase(w) ==
    /\ \A s \in Students : userX[s] = w =>
         who[w] = s /\ pc[w] \in FinalizePcs \cup {"start_read", "start_create", "start_freeze"}
    /\ \A r \in Rows : attemptLock[r] = w =>
         pc[w] \in (FinalizePcs \ {"fin_lock"})
           \cup {"start_create", "start_freeze", "count", "queued", "resch_adopt"}
    /\ testLock = w => Finalized(w) \/ pc[w] = "resch_adopt"
    /\ w \in testS => pc[w] = "start_freeze"
    /\ \A q \in Bank : questionX[q] = w => pc[w] \in {"count", "queued"}
    /\ \A s \in Students, q \in Bank : history[s][q] = w =>
         /\ pc[w] \in (FinalizePcs \ {"fin_lock", "fin_score"})
              \cup {"start_create", "start_freeze", "count", "queued"}
         /\ pc[w] \in FinalizePcs => s = owner[target[w]]

LockPhases == \A w \in Workers : LocksByPhase(w)

IInv ==
    /\ TypeOK
    /\ \A w \in Workers :
         HoldsUser(w) /\ SeesEveryAttempt(w) /\ HoldsAttempt(w) /\ HoldsTest(w)
    /\ LockPhases
    /\ OneLiveAttempt
    /\ SequentialRank

-----------------------------------------------------------------------------
(* Refinement: the promise without requests, locks and clock *)

OfficialResult ==
    [r \in Rows |-> [points |-> Score(result[r].sheet),
                     rank |-> result[r].rank, total |-> result[r].total]]

Official == INSTANCE OfficialAttempts WITH
    Points <- {Score(sheet) : sheet \in AnswerSheet},
    result <- OfficialResult

\* Submissions that lock, score, rank and commit step by step are, to every
\* student, single events in one order; starts that overlap leave one attempt.
ImplementsOfficial == Official!Spec

-----------------------------------------------------------------------------
(* What comments and documents of the repository say, and the code does not *)

\* The review snapshot "always agrees with the score that was actually computed
\* for THIS attempt" (lifecycle.py).  The answers are read twice.
ReviewAgreesWithScore ==
    \A r \in Pool : \A q \in frozen[r] : result[r].review[q] = result[r].sheet[q]
=============================================================================
