------------------------- MODULE ExamAttemptProofs -------------------------
(***************************************************************************)
(* Theorems about ExamAttempt, for any numbers of students, workers, rows  *)
(* and questions: its types, one attempt in progress per student, the      *)
(* finality of submitted attempts, their sequential ranks, and the lock    *)
(* waits among finalizations.                                              *)
(***************************************************************************)
EXTENDS ExamAttempt, FiniteSetTheorems, TLAPS

-----------------------------------------------------------------------------
(* Types *)

LEMMA NoDraftType == NoDraft \in Drafts /\ NoAnswers \in AnswerSheet /\ NoDraft.rank = 0
  BY DEF NoDraft, Drafts, NoAnswers, AnswerSheet, AnswerValues

\* The end of a transaction keeps the locks well typed.
LEMMA ReleaseType ==
  ASSUME LocksOK, NEW w \in Workers, ReleaseLocks(w)
  PROVE  LocksOK'
  BY DEF LocksOK, ReleaseLocks

\* So does the end of a request for the requests.
LEMMA ReturnType ==
  ASSUME RequestsOK, NEW w \in Workers, NEW rest \in SUBSET Rows, Return(w, rest)
  PROVE  RequestsOK'
  BY NoDraftType, ExamAssumption DEF RequestsOK, Return, PcValues, FinalizePcs, NoPlan, Plans, ExamAssumption

\* Entering finalize_attempt on an existing row, from any request that may.
LEMMA CallFinalizeType ==
  ASSUME RequestsOK, NEW w \in Workers, NEW r \in Rows, NEW b \in BOOLEAN,
         CallFinalize(w, r, b), UNCHANGED <<who, entry, todo, draft, wanted, plan>>
  PROVE  RequestsOK'
  BY DEF RequestsOK, CallFinalize, PcValues, FinalizePcs

\* Storing a result keeps the result columns well typed.
LEMMA StoreType ==
  ASSUME ResultsOK, RequestsOK, NEW w \in Workers, StoreResult(w)
  PROVE  /\ result' \in [Rows -> Drafts]
         /\ earlier' \in [Rows -> SUBSET Rows]
  BY DEF ResultsOK, RequestsOK, StoreResult, Pool

\* Counting a set of rows gives a natural number.
LEMMA RowCount ==
  ASSUME NEW S, S \subseteq Rows
  PROVE  IsFiniteSet(S) /\ Cardinality(S) \in Nat
  BY ExamAssumption, FS_Subset, FS_CardinalityType DEF ExamAssumption

LEMMA InitType == Init => TypeOK
<1> SUFFICES ASSUME Init PROVE TypeOK
  OBVIOUS
<1>1. now \in Nat /\ answers \in [Rows -> AnswerSheet] /\ RowsOK /\ ResultsOK
  BY NoDraftType DEF Init, RowsOK, ResultsOK
<1>2. LocksOK
  BY DEF Init, LocksOK
<1>3. plan \in [Workers -> Plans] /\ wanted \in [Workers -> SUBSET Bank]
  BY DEF Init, NoPlan, Plans
<1>4. RequestsOK
  BY <1>3, NoDraftType DEF Init, RequestsOK, PcValues, FinalizePcs
<1> QED BY <1>1, <1>2, <1>4 DEF TypeOK

\* The lock columns and the requests are left alone by a clock tick.
LEMMA UnchangedTypes ==
  /\ RowsOK /\ UNCHANGED rowVars => RowsOK'
  /\ ResultsOK /\ UNCHANGED resultVars => ResultsOK'
  /\ LocksOK /\ UNCHANGED locks => LocksOK'
  /\ RequestsOK /\ UNCHANGED <<pc, locals>> => RequestsOK'
<1>1. RowsOK /\ UNCHANGED rowVars => RowsOK'
  BY DEF RowsOK, rowVars
<1>2. ResultsOK /\ UNCHANGED resultVars => ResultsOK'
  BY DEF ResultsOK, resultVars
<1>3. LocksOK /\ UNCHANGED locks => LocksOK'
  BY DEF LocksOK, locks, examLocks, bankLocks
<1>4. RequestsOK /\ UNCHANGED <<pc, locals>> => RequestsOK'
  BY DEF RequestsOK, locals, request
<1> QED BY <1>1, <1>2, <1>3, <1>4

\* So are the locks by the answers recorded and the rows inserted.
LEMMA RecordType ==
  ASSUME LocksOK, NEW w \in Workers, NEW s, NEW q, Record(w, s, q),
         UNCHANGED <<userX, attemptLock, testLock, testS, questionX>>
  PROVE  LocksOK'
<1>1. history' \in [Students -> [Bank -> Workers \cup {NoWorker}]]
  BY DEF LocksOK, Record
<1>2. userS' \in [Students -> SUBSET Workers] /\ questionS' \in [Bank -> SUBSET Workers]
  BY DEF LocksOK, Record
<1> QED BY <1>1, <1>2 DEF LocksOK

LEMMA ShareType ==
  ASSUME LocksOK, NEW w \in Workers, NEW q, Share(w, q),
         UNCHANGED <<examLocks, questionX, history>>
  PROVE  LocksOK'
  BY DEF LocksOK, Share, examLocks

LEMMA StartType ==
  ASSUME TypeOK, NEW w \in Workers, StartStep(w)
  PROVE  TypeOK'
<1>1. CASE LockUser(w)
  <2>1. LocksOK'
    BY <1>1 DEF LockUser, TypeOK, LocksOK, RequestsOK, bankLocks
  <2>2. RequestsOK'
    BY <1>1 DEF LockUser, TypeOK, RequestsOK, locals, request, PcValues, FinalizePcs
  <2> QED BY <1>1, <2>1, <2>2, UnchangedTypes DEF LockUser, TypeOK
<1>2. CASE FindNoAttempt(w)
  <2>1. RequestsOK'
    BY <1>2 DEF FindNoAttempt, TypeOK, RequestsOK, locals, request, PcValues, FinalizePcs
  <2> QED BY <1>2, <2>1, UnchangedTypes DEF FindNoAttempt, TypeOK
<1>3. CASE ResumeAttempt(w)
  BY <1>3, ReleaseType, ReturnType, UnchangedTypes DEF ResumeAttempt, TypeOK
<1>4. CASE FinalizeStale(w)
  <2>1. PICK r \in Rows : CallFinalize(w, r, TRUE)
    BY <1>4 DEF FinalizeStale, LiveOf, AttemptsOf
  <2> QED BY <1>4, <2>1, CallFinalizeType, UnchangedTypes DEF FinalizeStale, TypeOK
<1>5. CASE RefuseStart(w)
  <2>1. ResultsOK'
    BY <1>5, StoreType DEF RefuseStart, TypeOK, ResultsOK
  <2> QED BY <1>5, <2>1, ReleaseType, ReturnType, UnchangedTypes DEF RefuseStart, TypeOK
<1>6. CASE InsertAttempt(w)
  <2>0. PICK isPreview \in BOOLEAN : \E S \in FrozenSets(isPreview) :
          /\ plan' = [plan EXCEPT ![w] = [questions |-> S, preview |-> isPreview, at |-> now]]
          /\ wanted' = [wanted EXCEPT ![w] = S]
    BY <1>6 DEF InsertAttempt
  <2>1. PICK S \in FrozenSets(isPreview) :
          /\ plan' = [plan EXCEPT ![w] = [questions |-> S, preview |-> isPreview, at |-> now]]
          /\ wanted' = [wanted EXCEPT ![w] = S]
    BY <2>0
  <2>2. S \subseteq Bank
    BY <2>1, ExamAssumption DEF FrozenSets, ExamAssumption
  <2>3. plan' \in [Workers -> Plans] /\ wanted' \in [Workers -> SUBSET Bank]
    BY <2>1, <2>2 DEF TypeOK, RequestsOK, Plans
  <2>4. RequestsOK'
    BY <1>6, <2>3 DEF InsertAttempt, TypeOK, RequestsOK, request, PcValues, FinalizePcs
  <2>5. LocksOK'
    BY <1>6 DEF InsertAttempt, TypeOK, LocksOK, bankLocks
  <2> QED BY <1>6, <2>4, <2>5, UnchangedTypes DEF InsertAttempt, TypeOK
<1>7. CASE FreezeQuestion(w)
  <2>1. PICK q \in wanted[w] : Share(w, q)
    BY <1>7 DEF FreezeQuestion
  <2>2. RequestsOK'
    BY <1>7, <2>1 DEF FreezeQuestion, Share, TypeOK, RequestsOK, request
  <2>3. LocksOK'
    BY <1>7, <2>1, ShareType DEF FreezeQuestion, TypeOK
  <2> QED BY <1>7, <2>2, <2>3, UnchangedTypes DEF FreezeQuestion, TypeOK
<1>8. CASE CreateAttempt(w)
  <2>1. PICK r \in Rows :
          /\ owner' = [owner EXCEPT ![r] = who[w]]
          /\ number' = [number EXCEPT ![r] = Cardinality(AttemptsOf(who[w])) + 1]
          /\ start' = [start EXCEPT ![r] = plan[w].at]
          /\ preview' = [preview EXCEPT ![r] = plan[w].preview]
          /\ frozen' = [frozen EXCEPT ![r] = plan[w].questions]
          /\ status' = [x \in Rows |-> IF x = r THEN "in_progress"
                                       ELSE IF x \in Closing(w) THEN "submitted" ELSE status[x]]
          /\ adopted' = adopted
    BY <1>8 DEF CreateAttempt
  <2>2. Cardinality(AttemptsOf(who[w])) \in Nat
    BY RowCount DEF AttemptsOf
  <2>3. plan[w] \in Plans /\ who[w] \in Students \cup {NoStudent}
    BY DEF TypeOK, RequestsOK
  <2>4. RowsOK'
    BY <2>1, <2>2, <2>3 DEF TypeOK, RowsOK, Plans
  <2>5. ResultsOK'
    BY <1>8, <2>1, StoreType DEF CreateAttempt, TypeOK, ResultsOK
  <2> QED BY <1>8, <2>4, <2>5, ReleaseType, ReturnType, UnchangedTypes DEF CreateAttempt, TypeOK
<1> QED BY <1>1, <1>2, <1>3, <1>4, <1>5, <1>6, <1>7, <1>8 DEF StartStep

LEMMA FinalizeType ==
  ASSUME TypeOK, NEW w \in Workers, FinalizeStep(w)
  PROVE  TypeOK'
<1>1. CASE LockAttempt(w)
  <2>1. LocksOK'
    BY <1>1 DEF LockAttempt, TypeOK, LocksOK, RequestsOK, bankLocks
  <2>2. RequestsOK'
    BY <1>1 DEF LockAttempt, TypeOK, RequestsOK, locals, request, PcValues, FinalizePcs
  <2> QED BY <1>1, <2>1, <2>2, UnchangedTypes DEF LockAttempt, TypeOK
<1>2. CASE SkipFinalized(w)
  <2>1. CASE Nested(w)
    <3>1. LocksOK'
      BY <1>2, <2>1 DEF SkipFinalized, TypeOK, LocksOK, bankLocks
    <3>2. RequestsOK'
      BY <1>2, <2>1 DEF SkipFinalized, Nested, TypeOK, RequestsOK, locals, request, PcValues, FinalizePcs
    <3> QED BY <1>2, <3>1, <3>2, UnchangedTypes DEF SkipFinalized, TypeOK
  <2>2. CASE ~Nested(w)
    <3>1. todo[w] \ {target[w]} \in SUBSET Rows
      BY DEF TypeOK, RequestsOK
    <3>2. RequestsOK'
      BY <1>2, <2>2, <3>1, ReturnType DEF SkipFinalized, TypeOK
    <3> QED BY <1>2, <2>2, <3>2, UnchangedTypes DEF SkipFinalized, TypeOK
  <2> QED BY <2>1, <2>2
<1>3. CASE ScoreAnswers(w)
  <2>1. answers[target[w]] \in AnswerSheet
    BY <1>3 DEF ScoreAnswers, TypeOK, RequestsOK, FinalizePcs
  <2>2. draft' \in [Workers -> Drafts]
    BY <1>3, <2>1 DEF ScoreAnswers, TypeOK, RequestsOK, Drafts
  <2>3. wanted' \in [Workers -> SUBSET Bank]
    BY <1>3 DEF ScoreAnswers, TypeOK, RequestsOK, AnsweredIn
  <2>4. RequestsOK'
    BY <1>3, <2>2, <2>3 DEF ScoreAnswers, TypeOK, RequestsOK, request, PcValues, FinalizePcs
  <2> QED BY <1>3, <2>4, UnchangedTypes DEF ScoreAnswers, TypeOK
<1>4. CASE RecordResult(w)
  <2>1. PICK q \in wanted[w] :
          /\ Record(w, owner[target[w]], q)
          /\ wanted' = [wanted EXCEPT ![w] = @ \ {q}]
          /\ pc' = [pc EXCEPT ![w] = IF wanted[w] = {q} THEN "fin_rank" ELSE "fin_record"]
    BY <1>4 DEF RecordResult
  <2>2. LocksOK'
    BY <1>4, <2>1, RecordType DEF RecordResult, TypeOK
  <2>3. RequestsOK'
    BY <1>4, <2>1 DEF RecordResult, TypeOK, RequestsOK, request, PcValues, FinalizePcs
  <2> QED BY <1>4, <2>2, <2>3, UnchangedTypes DEF RecordResult, TypeOK
<1>5. CASE RankAttempt(w)
  <2>1. /\ Cardinality(Ahead(Pool, draft[w].sheet)) + 1 \in Nat
        /\ Cardinality(Pool) + 1 \in Nat
    BY RowCount DEF Ahead, Pool
  <2>2. draft' \in [Workers -> Drafts]
    BY <1>5, <2>1 DEF RankAttempt, TypeOK, RequestsOK, Drafts
  <2>3. RequestsOK'
    BY <1>5, <2>2 DEF RankAttempt, TypeOK, RequestsOK, request, PcValues, FinalizePcs
  <2>4. LocksOK'
    BY <1>5 DEF RankAttempt, TypeOK, LocksOK, bankLocks
  <2> QED BY <1>5, <2>3, <2>4, UnchangedTypes DEF RankAttempt, TypeOK
<1>6. CASE SnapshotQuestions(w)
  <2>1. [q \in Bank |-> IF q \in frozen[target[w]] THEN answers[target[w]][q] ELSE "none"]
          \in AnswerSheet
    BY <1>6 DEF SnapshotQuestions, TypeOK, RequestsOK, FinalizePcs, AnswerSheet, AnswerValues
  <2>2. draft' \in [Workers -> Drafts]
    BY <1>6, <2>1 DEF SnapshotQuestions, TypeOK, RequestsOK, Drafts
  <2>3. wanted' \in [Workers -> SUBSET Bank]
    BY <1>6 DEF SnapshotQuestions, TypeOK, RowsOK, RequestsOK, FinalizePcs
  <2>4. RequestsOK'
    BY <1>6, <2>2, <2>3 DEF SnapshotQuestions, AfterSnapshots, TypeOK, RequestsOK, request, PcValues,
       FinalizePcs, Nested
  <2> QED BY <1>6, <2>4, UnchangedTypes DEF SnapshotQuestions, TypeOK
<1>8. CASE InsertSnapshot(w)
  <2>1. PICK q \in wanted[w] :
          /\ Share(w, q)
          /\ pc' = [pc EXCEPT ![w] = IF wanted[w] = {q} THEN AfterSnapshots(w) ELSE "fin_insert"]
    BY <1>8 DEF InsertSnapshot
  <2>2. RequestsOK'
    BY <1>8, <2>1 DEF InsertSnapshot, Share, AfterSnapshots, TypeOK, RequestsOK, request, PcValues,
       FinalizePcs, Nested
  <2>3. LocksOK'
    BY <1>8, <2>1, ShareType DEF InsertSnapshot, TypeOK
  <2> QED BY <1>8, <2>2, <2>3, UnchangedTypes DEF InsertSnapshot, TypeOK
<1>7. CASE CommitFinalization(w)
  <2>1. ResultsOK'
    BY <1>7, StoreType DEF CommitFinalization, TypeOK, ResultsOK
  <2>2. todo[w] \ {target[w]} \in SUBSET Rows
    BY DEF TypeOK, RequestsOK
  <2> QED BY <1>7, <2>1, <2>2, ReleaseType, ReturnType, UnchangedTypes
          DEF CommitFinalization, TypeOK
<1> QED BY <1>1, <1>2, <1>3, <1>4, <1>5, <1>6, <1>7, <1>8 DEF FinalizeStep

LEMMA AsideType ==
  ASSUME TypeOK, NEW w \in Workers, AsideStep(w)
  PROVE  TypeOK'
<1>1. CASE PracticeAnswer(w)
  <2>1. LocksOK'
    BY <1>1, RecordType DEF PracticeAnswer, TypeOK
  <2>2. RequestsOK'
    BY <1>1 DEF PracticeAnswer, TypeOK, RequestsOK, locals, request, PcValues, FinalizePcs
  <2> QED BY <1>1, <2>1, <2>2, UnchangedTypes DEF PracticeAnswer, TypeOK
<1>2. CASE LockForStatistics(w)
  <2>1. LocksOK'
    BY <1>2 DEF LockForStatistics, TypeOK, LocksOK, bankLocks
  <2>2. RequestsOK'
    BY <1>2 DEF LockForStatistics, TypeOK, RequestsOK, locals, request, PcValues, FinalizePcs
  <2> QED BY <1>2, <2>1, <2>2, UnchangedTypes DEF LockForStatistics, TypeOK
<1>3. CASE CountQuestion(w)
  <2>1. LocksOK'
    BY <1>3 DEF CountQuestion, TypeOK, LocksOK, examLocks
  <2>2. RequestsOK'
    BY <1>3 DEF CountQuestion, TypeOK, RequestsOK, request, PcValues, FinalizePcs
  <2> QED BY <1>3, <2>1, <2>2, UnchangedTypes DEF CountQuestion, TypeOK
<1>4. CASE QueueForQuestion(w)
  <2>1. RequestsOK'
    BY <1>4 DEF QueueForQuestion, TypeOK, RequestsOK, locals, request, PcValues, FinalizePcs
  <2> QED BY <1>4, <2>1, UnchangedTypes DEF QueueForQuestion, TypeOK
<1>5. CASE CommitCounts(w)
  BY <1>5, ReleaseType, ReturnType, UnchangedTypes DEF CommitCounts, TypeOK
<1>6. CASE LockTestForReschedule(w)
  <2>1. LocksOK'
    BY <1>6 DEF LockTestForReschedule, TypeOK, LocksOK, bankLocks
  <2>2. RequestsOK'
    BY <1>6 DEF LockTestForReschedule, TypeOK, RequestsOK, PcValues, FinalizePcs
  <2> QED BY <1>6, <2>1, <2>2, UnchangedTypes DEF LockTestForReschedule, TypeOK
<1>7. CASE AdoptAttempt(w)
  <2>1. LocksOK'
    BY <1>7 DEF AdoptAttempt, TypeOK, LocksOK, bankLocks
  <2>2. RequestsOK'
    BY <1>7 DEF AdoptAttempt, TypeOK, RequestsOK
  <2> QED BY <1>7, <2>1, <2>2, UnchangedTypes DEF AdoptAttempt, TypeOK
<1>8. CASE CommitReschedule(w)
  <2>1. RowsOK'
    BY <1>8 DEF CommitReschedule, TypeOK, RowsOK
  <2> QED BY <1>8, <2>1, ReleaseType, ReturnType, UnchangedTypes DEF CommitReschedule, TypeOK
<1> QED BY <1>1, <1>2, <1>3, <1>4, <1>5, <1>6, <1>7, <1>8 DEF AsideStep

LEMMA RequestType ==
  ASSUME TypeOK, NEW w \in Workers, Request(w)
  PROVE  TypeOK'
<1>1. ASSUME NEW s \in Students, RequestStart(w, s) PROVE TypeOK'
  <2>1. RequestsOK'
    BY <1>1 DEF RequestStart, TypeOK, RequestsOK, PcValues, FinalizePcs
  <2> QED BY <1>1, <2>1, UnchangedTypes DEF RequestStart, TypeOK
<1>6. ASSUME NEW s \in Students, RequestPractice(w, s) PROVE TypeOK'
  <2>1. wanted' \in [Workers -> SUBSET Bank]
    BY <1>6 DEF RequestPractice, TypeOK, RequestsOK
  <2>2. RequestsOK'
    BY <1>6, <2>1 DEF RequestPractice, TypeOK, RequestsOK, PcValues, FinalizePcs
  <2> QED BY <1>6, <2>2, UnchangedTypes DEF RequestPractice, TypeOK
<1>7. CASE RequestStatistics(w)
  <2>1. wanted' \in [Workers -> SUBSET Bank]
    BY <1>7 DEF RequestStatistics, TypeOK, RequestsOK
  <2>2. RequestsOK'
    BY <1>7, <2>1 DEF RequestStatistics, Pool, TypeOK, RequestsOK, PcValues, FinalizePcs
  <2> QED BY <1>7, <2>2, UnchangedTypes DEF RequestStatistics, TypeOK
<1>8. CASE RequestReschedule(w)
  <2>1. RequestsOK'
    BY <1>8 DEF RequestReschedule, TypeOK, RequestsOK, locals, request, PcValues, FinalizePcs
  <2> QED BY <1>8, <2>1, UnchangedTypes DEF RequestReschedule, TypeOK
<1>2. ASSUME NEW r \in Rows, RequestAnswer(w, r) PROVE TypeOK'
  <2>1. PICK e \in Entries : entry' = [entry EXCEPT ![w] = e]
    BY <1>2 DEF RequestAnswer, Entries
  <2>2. RequestsOK'
    BY <1>2, <2>1 DEF RequestAnswer, TypeOK, RequestsOK, PcValues, FinalizePcs
  <2> QED BY <1>2, <2>2, UnchangedTypes DEF RequestAnswer, TypeOK
<1>3. ASSUME NEW r \in Rows, RequestMark(w, r) PROVE TypeOK'
  <2>1. PICK e \in Entries : entry' = [entry EXCEPT ![w] = e]
    BY <1>3, ExamAssumption DEF RequestMark, Entries, ExamAssumption
  <2>2. RequestsOK'
    BY <1>3, <2>1 DEF RequestMark, TypeOK, RequestsOK, PcValues, FinalizePcs
  <2> QED BY <1>3, <2>2, UnchangedTypes DEF RequestMark, TypeOK
<1>4. ASSUME NEW r \in Rows, RequestSubmit(w, r) PROVE TypeOK'
  BY <1>4, CallFinalizeType, UnchangedTypes DEF RequestSubmit, TypeOK
<1>5. ASSUME NEW r \in Rows, TouchExpired(w, r) PROVE TypeOK'
  BY <1>5, CallFinalizeType, UnchangedTypes DEF TouchExpired, TypeOK
<1> QED BY <1>1, <1>2, <1>3, <1>4, <1>5, <1>6, <1>7, <1>8 DEF Request

LEMMA NextType == TypeOK /\ [Next]_vars => TypeOK'
<1> SUFFICES ASSUME TypeOK, [Next]_vars PROVE TypeOK'
  OBVIOUS
<1>1. CASE Tick
  BY <1>1, UnchangedTypes DEF Tick, TypeOK
<1>2. ASSUME NEW w \in Workers, BeginSweep(w) PROVE TypeOK'
  <2>1. RequestsOK'
    BY <1>2, ReturnType DEF BeginSweep, TypeOK
  <2> QED BY <1>2, <2>1, UnchangedTypes DEF BeginSweep, TypeOK
<1>3. ASSUME NEW w \in Workers, WriteAnswer(w) PROVE TypeOK'
  <2>1. RequestsOK'
    BY <1>3, ReturnType DEF WriteAnswer, TypeOK
  <2>2. target[w] \in Rows /\ entry[w] \in Entries
    BY <1>3 DEF WriteAnswer, TypeOK, RequestsOK, FinalizePcs
  <2> DEFINE q == entry[w].question
             old == answers[target[w]][q]
             new == Written(old, entry[w].choice)
  <2>4. q \in Bank /\ entry[w].choice \in {"blank", "right", "wrong", "mark"}
    BY <2>2, ExamAssumption DEF Entries, ExamAssumption
  <2>5. old \in AnswerValues
    BY <2>2, <2>4 DEF TypeOK, AnswerSheet
  <2>6. new \in AnswerValues
    BY <2>4, <2>5 DEF Written, AnswerValues
  <2>7. answers' = [answers EXCEPT ![target[w]] = [@ EXCEPT ![q] = new]]
    BY <1>3 DEF WriteAnswer
  <2>3. answers' \in [Rows -> AnswerSheet]
    <3> HIDE DEF q, old, new
    <3> QED BY <2>2, <2>4, <2>6, <2>7 DEF TypeOK, AnswerSheet
  <2> QED BY <1>3, <2>1, <2>3, UnchangedTypes DEF WriteAnswer, TypeOK
<1>4. ASSUME NEW w \in Workers, SweepNext(w) PROVE TypeOK'
  <2>1. PICK r \in Rows : CallFinalize(w, r, TRUE)
    BY <1>4 DEF SweepNext, TypeOK, RequestsOK
  <2> QED BY <1>4, <2>1, CallFinalizeType, UnchangedTypes DEF SweepNext, TypeOK
<1>5. ASSUME NEW w \in Workers, DeadlockVictim(w) PROVE TypeOK'
  BY <1>5, ReleaseType, ReturnType, UnchangedTypes DEF DeadlockVictim, TypeOK
<1>6. CASE UNCHANGED vars
  BY <1>6, UnchangedTypes DEF vars, TypeOK
<1> QED BY <1>1, <1>2, <1>3, <1>4, <1>5, <1>6, RequestType, StartType, FinalizeType, AsideType
        DEF Next, Continue

\* Every variable keeps its type.
THEOREM TypeCorrect == Spec => []TypeOK
  BY InitType, NextType, PTL DEF Spec

-----------------------------------------------------------------------------
(* What one worker's step can change *)

Act(w) == Request(w) \/ BeginSweep(w) \/ Continue(w) \/ DeadlockVictim(w)

\* The rows a step inserts (at most one, by a start) and the ones it submits.
Stores(w, new) ==
    /\ \A x \in new : status[x] = "none"
    /\ \A x, y \in new : x = y
    /\ new # {} => pc[w] = "start_freeze" /\ ~(pc'[w] = "start_freeze")
    /\ owner' = [x \in Rows |-> IF x \in new THEN who[w] ELSE owner[x]]
    /\ status' = [x \in Rows |-> IF x \in new THEN "in_progress"
                                 ELSE IF x \in Closing(w) THEN "submitted" ELSE status[x]]
    /\ StoreResult(w)

\* The steps that change no attempt and no result.
Quiet(w) == Act(w) /\ ~RefuseStart(w) /\ ~CommitFinalization(w) /\ ~CreateAttempt(w)

LEMMA QuietStep ==
  ASSUME NEW w \in Workers, Quiet(w)
  PROVE  UNCHANGED <<owner, number, status, result, earlier>>
<1> USE DEF rowVars, resultVars
<1>1. CASE Request(w)
  BY <1>1 DEF Request, RequestStart, RequestPractice, RequestStatistics, RequestReschedule,
     RequestAnswer, RequestMark, RequestSubmit, TouchExpired
<1>2. CASE BeginSweep(w) \/ SweepNext(w) \/ WriteAnswer(w) \/ DeadlockVictim(w)
  BY <1>2 DEF BeginSweep, SweepNext, WriteAnswer, DeadlockVictim
<1>3. CASE StartStep(w)
  BY <1>3 DEF Quiet, StartStep, LockUser, FindNoAttempt, ResumeAttempt, FinalizeStale,
     InsertAttempt, FreezeQuestion
<1>4. CASE FinalizeStep(w)
  BY <1>4 DEF Quiet, FinalizeStep, LockAttempt, SkipFinalized, ScoreAnswers, RecordResult,
     RankAttempt, SnapshotQuestions, InsertSnapshot
<1>5. CASE AsideStep(w)
  BY <1>5 DEF AsideStep, PracticeAnswer, LockForStatistics, CountQuestion, QueueForQuestion,
     CommitCounts, LockTestForReschedule, AdoptAttempt, CommitReschedule
<1> QED BY <1>1, <1>2, <1>3, <1>4, <1>5 DEF Quiet, Act, Continue

LEMMA RowChange ==
  ASSUME TypeOK, NEW w \in Workers, Act(w)
  PROVE  \/ UNCHANGED <<owner, status, result, earlier>>
         \/ \E new \in SUBSET Rows : Stores(w, new)
<1>1. CASE RefuseStart(w)
  <2>1. Stores(w, {})
    BY <1>1 DEF RefuseStart, Stores, rowVars, TypeOK, RowsOK
  <2> QED BY <2>1
<1>2. CASE CommitFinalization(w)
  <2>1. Stores(w, {})
    BY <1>2 DEF CommitFinalization, Stores, rowVars, TypeOK, RowsOK
  <2> QED BY <2>1
<1>3. CASE CreateAttempt(w)
  <2>1. PICK r \in Rows :
          /\ status[r] = "none"
          /\ owner' = [owner EXCEPT ![r] = who[w]]
          /\ status' = [x \in Rows |-> IF x = r THEN "in_progress"
                                       ELSE IF x \in Closing(w) THEN "submitted" ELSE status[x]]
    BY <1>3 DEF CreateAttempt
  <2>2. pc[w] = "start_freeze" /\ pc'[w] = "idle" /\ StoreResult(w)
    BY <1>3 DEF CreateAttempt, Return, TypeOK, RequestsOK
  <2>3. Stores(w, {r})
    BY <2>1, <2>2 DEF Stores, TypeOK, RowsOK
  <2> QED BY <2>3
<1> QED BY <1>1, <1>2, <1>3, QuietStep DEF Quiet

\* The worker w holds the same locks before and after the step.
SameLocks(w) ==
    /\ \A s \in Students : (userX'[s] = w) = (userX[s] = w)
    /\ \A r \in Rows : (attemptLock'[r] = w) = (attemptLock[r] = w)
    /\ (testLock' = w) = (testLock = w)
    /\ (w \in testS') = (w \in testS)
    /\ \A q \in Bank : (questionX'[q] = w) = (questionX[q] = w)
    /\ \A s \in Students, q \in Bank : (history'[s][q] = w) = (history[s][q] = w)

LEMMA UnchangedLocks ==
  ASSUME NEW w, UNCHANGED locks
  PROVE  SameLocks(w)
  BY DEF SameLocks, locks, examLocks, bankLocks

\* The end of a transaction drops its locks, and no others.
LEMMA ReleaseOthers ==
  ASSUME TypeOK, NEW w \in Workers, ReleaseLocks(w), NEW v \in Workers, v # w
  PROVE  SameLocks(v)
<1>1. v # NoWorker
  BY ExamAssumption DEF ExamAssumption
<1>2. \A s \in Students, q \in Bank : history'[s][q] = IF history[s][q] = w THEN NoWorker ELSE history[s][q]
  BY DEF ReleaseLocks
<1> QED BY <1>1, <1>2 DEF TypeOK, LocksOK, ReleaseLocks, SameLocks

LEMMA RecordOthers ==
  ASSUME TypeOK, NEW w \in Workers, NEW s, NEW q, Record(w, s, q),
         UNCHANGED <<userX, attemptLock, testLock, testS, questionX>>,
         NEW v \in Workers, v # w
  PROVE  SameLocks(v)
<1>1. history[s][q] # v
  BY DEF Record, RecordBlockers
<1>2. \A t \in Students, p \in Bank : history'[t][p] = IF t = s /\ p = q THEN w ELSE history[t][p]
  BY DEF TypeOK, LocksOK, Record
<1> QED BY <1>1, <1>2 DEF SameLocks

\* A worker changes neither another worker's request nor the locks it holds.
LEMMA OthersUndisturbed ==
  ASSUME TypeOK, NEW w \in Workers, Act(w), NEW v \in Workers, v # w
  PROVE  /\ pc'[v] = pc[v] /\ who'[v] = who[v] /\ target'[v] = target[v] /\ draft'[v] = draft[v]
         /\ SameLocks(v)
<1> DEFINE Same == /\ pc'[v] = pc[v] /\ who'[v] = who[v] /\ target'[v] = target[v]
                   /\ draft'[v] = draft[v]
<1>0. v # NoWorker
  BY ExamAssumption DEF ExamAssumption
<1>1. CASE Request(w)
  <2>1. UNCHANGED locks
    BY <1>1 DEF Request, RequestStart, RequestPractice, RequestStatistics, RequestReschedule,
       RequestAnswer, RequestMark, RequestSubmit, TouchExpired
  <2>2. Same
    BY <1>1 DEF Request, RequestStart, RequestPractice, RequestStatistics, RequestReschedule,
       RequestAnswer, RequestMark, RequestSubmit, TouchExpired, CallFinalize, TypeOK, RequestsOK,
       locals, request
  <2> QED BY <2>1, <2>2, UnchangedLocks
<1>2. CASE BeginSweep(w) \/ SweepNext(w) \/ WriteAnswer(w)
  <2>1. UNCHANGED locks
    BY <1>2 DEF BeginSweep, SweepNext, WriteAnswer
  <2>2. Same
    BY <1>2 DEF BeginSweep, SweepNext, WriteAnswer, CallFinalize, Return, TypeOK, RequestsOK
  <2> QED BY <2>1, <2>2, UnchangedLocks
<1>3. ASSUME ReleaseLocks(w), NEW rest, Return(w, rest) PROVE Same /\ SameLocks(v)
  <2>1. Same
    BY <1>3 DEF Return, TypeOK, RequestsOK
  <2> QED BY <1>3, <2>1, ReleaseOthers
<1>4. CASE StartStep(w)
  <2>1. CASE LockUser(w)
    <3>1. Same
      BY <2>1 DEF LockUser, TypeOK, RequestsOK, locals, request
    <3>2. SameLocks(v)
      BY <2>1, <1>0 DEF LockUser, CanLockUser, TypeOK, LocksOK, SameLocks, bankLocks
    <3> QED BY <3>1, <3>2
  <2>2. CASE FindNoAttempt(w) \/ FinalizeStale(w)
    <3>1. UNCHANGED locks
      BY <2>2 DEF FindNoAttempt, FinalizeStale
    <3>2. Same
      BY <2>2 DEF FindNoAttempt, FinalizeStale, CallFinalize, TypeOK, RequestsOK, locals, request
    <3> QED BY <3>1, <3>2, UnchangedLocks
  <2>3. CASE ResumeAttempt(w) \/ RefuseStart(w) \/ CreateAttempt(w)
    <3>1. ReleaseLocks(w) /\ Return(w, {})
      BY <2>3 DEF ResumeAttempt, RefuseStart, CreateAttempt
    <3> QED BY <3>1, <1>3
  <2>4. CASE InsertAttempt(w)
    <3>1. Same
      BY <2>4 DEF InsertAttempt, TypeOK, RequestsOK, request
    <3>2. SameLocks(v)
      BY <2>4 DEF InsertAttempt, SameLocks, bankLocks
    <3> QED BY <3>1, <3>2
  <2>5. CASE FreezeQuestion(w)
    <3>1. Same
      BY <2>5 DEF FreezeQuestion, TypeOK, RequestsOK, request
    <3>2. SameLocks(v)
      BY <2>5 DEF FreezeQuestion, SameLocks, examLocks
    <3> QED BY <3>1, <3>2
  <2> QED BY <1>4, <2>1, <2>2, <2>3, <2>4, <2>5 DEF StartStep
<1>5. CASE FinalizeStep(w)
  <2>1. CASE LockAttempt(w)
    <3>1. Same
      BY <2>1 DEF LockAttempt, TypeOK, RequestsOK, locals, request
    <3>2. SameLocks(v)
      BY <2>1, <1>0 DEF LockAttempt, CanLockAttempt, TypeOK, LocksOK, SameLocks, bankLocks
    <3> QED BY <3>1, <3>2
  <2>2. CASE SkipFinalized(w)
    <3>1. CASE Nested(w)
      <4>1. Same
        BY <2>2, <3>1 DEF SkipFinalized, TypeOK, RequestsOK, locals, request
      <4>2. SameLocks(v)
        BY <2>2, <3>1, <1>0 DEF SkipFinalized, CanLockAttempt, TypeOK, LocksOK, SameLocks, bankLocks
      <4> QED BY <4>1, <4>2
    <3>2. CASE ~Nested(w)
      <4>1. Same
        BY <2>2, <3>2 DEF SkipFinalized, Return, TypeOK, RequestsOK
      <4> QED BY <2>2, <3>2, <4>1, UnchangedLocks DEF SkipFinalized
    <3> QED BY <3>1, <3>2
  <2>3. CASE ScoreAnswers(w) \/ SnapshotQuestions(w)
    <3>1. Same
      BY <2>3 DEF ScoreAnswers, SnapshotQuestions, TypeOK, RequestsOK, request
    <3> QED BY <2>3, <3>1, UnchangedLocks DEF ScoreAnswers, SnapshotQuestions
  <2>4. CASE RecordResult(w)
    <3>1. Same
      BY <2>4 DEF RecordResult, TypeOK, RequestsOK, request
    <3> QED BY <2>4, <3>1, RecordOthers DEF RecordResult
  <2>5. CASE RankAttempt(w)
    <3>1. Same
      BY <2>5 DEF RankAttempt, TypeOK, RequestsOK, request
    <3>2. SameLocks(v)
      BY <2>5, <1>0 DEF RankAttempt, CanLockTest, SameLocks, bankLocks
    <3> QED BY <3>1, <3>2
  <2>6. CASE InsertSnapshot(w)
    <3>1. Same
      BY <2>6 DEF InsertSnapshot, TypeOK, RequestsOK, request
    <3>2. SameLocks(v)
      BY <2>6 DEF InsertSnapshot, SameLocks, examLocks
    <3> QED BY <3>1, <3>2
  <2>7. CASE CommitFinalization(w)
    <3>1. ReleaseLocks(w) /\ Return(w, todo[w] \ {target[w]})
      BY <2>7 DEF CommitFinalization
    <3> QED BY <3>1, <1>3
  <2> QED BY <1>5, <2>1, <2>2, <2>3, <2>4, <2>5, <2>6, <2>7 DEF FinalizeStep
<1>6. CASE AsideStep(w)
  <2>1. CASE PracticeAnswer(w)
    <3>1. Same
      BY <2>1 DEF PracticeAnswer, TypeOK, RequestsOK, locals, request
    <3> QED BY <2>1, <3>1, RecordOthers DEF PracticeAnswer
  <2>2. CASE LockForStatistics(w)
    <3>1. Same
      BY <2>2 DEF LockForStatistics, TypeOK, RequestsOK, locals, request
    <3>2. SameLocks(v)
      BY <2>2, <1>0 DEF LockForStatistics, CanLockAttempt, TypeOK, LocksOK, SameLocks, bankLocks
    <3> QED BY <3>1, <3>2
  <2>3. CASE CountQuestion(w)
    <3>1. Same
      BY <2>3 DEF CountQuestion, TypeOK, RequestsOK, request
    <3>2. PICK q : OwnBlockers(w, q) = {} /\ questionX' = [questionX EXCEPT ![q] = w]
      BY <2>3 DEF CountQuestion
    <3>3. questionX[q] # v
      BY <3>2 DEF OwnBlockers
    <3>4. SameLocks(v)
      BY <2>3, <3>2, <3>3 DEF CountQuestion, TypeOK, LocksOK, SameLocks, examLocks
    <3> QED BY <3>1, <3>4
  <2>4. CASE QueueForQuestion(w)
    <3>1. Same
      BY <2>4 DEF QueueForQuestion, TypeOK, RequestsOK, locals, request
    <3> QED BY <2>4, <3>1, UnchangedLocks DEF QueueForQuestion
  <2>5. CASE CommitCounts(w) \/ CommitReschedule(w)
    <3>1. ReleaseLocks(w) /\ Return(w, {})
      BY <2>5 DEF CommitCounts, CommitReschedule
    <3> QED BY <3>1, <1>3
  <2>6. CASE LockTestForReschedule(w)
    <3>1. Same
      BY <2>6 DEF LockTestForReschedule, TypeOK, RequestsOK
    <3>2. SameLocks(v)
      BY <2>6, <1>0 DEF LockTestForReschedule, CanLockTest, SameLocks, bankLocks
    <3> QED BY <3>1, <3>2
  <2>7. CASE AdoptAttempt(w)
    <3>1. Same
      BY <2>7 DEF AdoptAttempt, TypeOK, RequestsOK
    <3>2. SameLocks(v)
      BY <2>7, <1>0 DEF AdoptAttempt, CanLockAttempt, TypeOK, LocksOK, SameLocks, bankLocks
    <3> QED BY <3>1, <3>2
  <2> QED BY <1>6, <2>1, <2>2, <2>3, <2>4, <2>5, <2>6, <2>7 DEF AsideStep
<1>7. CASE DeadlockVictim(w)
  BY <1>7, <1>3 DEF DeadlockVictim
<1> QED BY <1>1, <1>2, <1>4, <1>5, <1>6, <1>7 DEF Act, Continue

\* What a step submits was in progress, held by its worker, and ranked under
\* the lock of the Test.
LEMMA ClosingIsHeld ==
  ASSUME IInv, NEW w \in Workers
  PROVE  \A r \in Closing(w) : /\ r \in Rows /\ r = target[w] /\ Finalized(w)
                               /\ status[r] = "in_progress"
                               /\ attemptLock[r] = w /\ testLock = w
  BY DEF IInv, Closing, HoldsAttempt, HoldsTest

\* A submitted attempt keeps its status, result and history.
LEMMA SubmittedStays ==
  ASSUME IInv, NEW w \in Workers, Act(w), NEW r \in Rows, status[r] = "submitted"
  PROVE  status'[r] = "submitted" /\ result'[r] = result[r] /\ earlier'[r] = earlier[r]
<1>1. CASE UNCHANGED <<owner, status, result, earlier>>
  BY <1>1
<1>2. ASSUME NEW new \in SUBSET Rows, Stores(w, new)
      PROVE  status'[r] = "submitted" /\ result'[r] = result[r] /\ earlier'[r] = earlier[r]
  <2>1. r \notin new /\ r \notin Closing(w)
    BY <1>2, ClosingIsHeld DEF Stores
  <2> QED BY <1>2, <2>1 DEF Stores, StoreResult
<1> QED BY <1>1, <1>2, RowChange DEF IInv

-----------------------------------------------------------------------------
(* The invariant is inductive *)

LEMMA OneLiveAttemptNext ==
  ASSUME IInv, NEW w \in Workers, Act(w)
  PROVE  OneLiveAttempt'
<1>1. CASE UNCHANGED <<owner, status, result, earlier>>
  BY <1>1 DEF IInv, OneLiveAttempt
<1>2. ASSUME NEW new \in SUBSET Rows, Stores(w, new) PROVE OneLiveAttempt'
  <2> SUFFICES ASSUME NEW r1 \in Rows, NEW r2 \in Rows,
                      status'[r1] = "in_progress", status'[r2] = "in_progress",
                      owner'[r1] = owner'[r2]
               PROVE  r1 = r2
    BY DEF OneLiveAttempt
  <2>1. ASSUME NEW x \in new, NEW y \in Rows \ new, status'[y] = "in_progress"
        PROVE  owner'[y] # owner'[x]
    <3>1. LiveOf(who[w]) \subseteq Closing(w)
      BY <1>2, <2>1 DEF Stores, IInv, SeesEveryAttempt
    <3>2. status[y] = "in_progress" /\ y \notin Closing(w)
      BY <1>2, <2>1 DEF Stores
    <3>3. owner'[y] = owner[y] /\ owner'[x] = who[w]
      BY <1>2, <2>1 DEF Stores
    <3> QED BY <3>1, <3>2, <3>3 DEF LiveOf, AttemptsOf
  <2>2. CASE r1 \in new /\ r2 \in new
    BY <1>2, <2>2 DEF Stores
  <2>3. CASE r1 \notin new /\ r2 \notin new
    BY <1>2, <2>3 DEF Stores, IInv, OneLiveAttempt
  <2> QED BY <2>1, <2>2, <2>3
<1> QED BY <1>1, <1>2, RowChange DEF IInv

LEMMA SequentialRankNext ==
  ASSUME IInv, NEW w \in Workers, Act(w)
  PROVE  SequentialRank'
<1>1. CASE UNCHANGED <<owner, status, result, earlier>>
  <2>1. Pool' = Pool
    BY <1>1 DEF Pool
  <2>2. \A r \in Rows : Ahead(earlier[r], result[r].sheet)' = Ahead(earlier[r], result[r].sheet)
    BY <1>1 DEF Ahead, Score
  <2> QED BY <1>1, <2>1, <2>2 DEF IInv, SequentialRank
<1>2. ASSUME NEW new \in SUBSET Rows, Stores(w, new) PROVE SequentialRank'
  <2> SUFFICES ASSUME NEW r \in Rows, status'[r] = "submitted"
               PROVE  /\ earlier'[r] \subseteq Pool'
                      /\ result'[r].rank = Cardinality(Ahead(earlier[r], result[r].sheet)') + 1
                      /\ result'[r].total = Cardinality(earlier'[r]) + 1
    BY DEF SequentialRank
  <2>1. Pool \subseteq Pool' /\ \A x \in Pool : result'[x] = result[x]
    BY SubmittedStays DEF Pool
  <2>2. CASE status[r] = "submitted"
    <3>1. earlier'[r] = earlier[r] /\ result'[r] = result[r] /\ earlier[r] \subseteq Pool
      BY <2>2, SubmittedStays DEF IInv, SequentialRank
    <3>2. Ahead(earlier[r], result[r].sheet)' = Ahead(earlier[r], result[r].sheet)
      BY <2>1, <3>1 DEF Ahead, Score
    <3> QED BY <2>1, <2>2, <3>1, <3>2 DEF IInv, SequentialRank
  <2>3. CASE status[r] # "submitted"
    <3>1. r \in Closing(w)
      BY <1>2, <2>3 DEF Stores
    <3>2. result'[r] = draft[w] /\ earlier'[r] = Pool
      BY <1>2, <3>1 DEF Stores, StoreResult
    <3>3. Ahead(earlier[r], result[r].sheet)' = Ahead(Pool, draft[w].sheet)
      BY <2>1, <3>2 DEF Ahead, Score
    <3>4. /\ draft[w].rank = Cardinality(Ahead(Pool, draft[w].sheet)) + 1
          /\ draft[w].total = Cardinality(Pool) + 1
      BY <3>1, ClosingIsHeld DEF IInv, HoldsTest
    <3> QED BY <2>1, <3>2, <3>3, <3>4
  <2> QED BY <2>2, <2>3
<1> QED BY <1>1, <1>2, RowChange DEF IInv

\* The step of one worker leaves the facts about another worker's request.
LEMMA OtherWorkerNext ==
  ASSUME IInv, NEW w \in Workers, Act(w), NEW v \in Workers, v # w
  PROVE  (HoldsUser(v) /\ SeesEveryAttempt(v) /\ HoldsAttempt(v) /\ HoldsTest(v))'
<1>1. /\ pc'[v] = pc[v] /\ who'[v] = who[v] /\ target'[v] = target[v] /\ draft'[v] = draft[v]
      /\ \A s \in Students : userX[s] = v => userX'[s] = v
      /\ \A r \in Rows : attemptLock[r] = v => attemptLock'[r] = v
      /\ testLock = v => testLock' = v
  BY OthersUndisturbed DEF IInv, SameLocks
<1>2. /\ HoldsUser(v) /\ SeesEveryAttempt(v) /\ HoldsAttempt(v) /\ HoldsTest(v)
      /\ HoldsUser(w)
  BY DEF IInv
<1>3. (pc[v] \in FinalizePcs /\ Nested(v)) \/ pc[v] \in {"start_read", "start_create", "start_freeze"}
      => who[v] \in Students
  BY DEF IInv, TypeOK, RequestsOK, Nested
<1>4. HoldsUser(v)'
  BY <1>1, <1>2, <1>3 DEF HoldsUser, Nested
<1>5. ASSUME who[v] \in Students, userX[who[v]] = v
      PROVE  /\ LiveOf(who[v])' \subseteq LiveOf(who[v])
             /\ AttemptsOf(who[v])' = AttemptsOf(who[v])
  <2>1. CASE UNCHANGED <<owner, status, result, earlier>>
    BY <1>1, <2>1 DEF LiveOf, AttemptsOf
  <2>2. ASSUME NEW new \in SUBSET Rows, Stores(w, new), NEW x \in Rows
        PROVE  /\ x \in LiveOf(who[v])' => x \in LiveOf(who[v])
               /\ (x \in AttemptsOf(who[v])') = (x \in AttemptsOf(who[v]))
    <3>1. x \in new => owner'[x] # who[v] /\ status[x] = "none"
      BY <1>2, <1>5, <2>2 DEF Stores, HoldsUser
    <3>2. x \in Closing(w) => status[x] # "none"
      BY ClosingIsHeld
    <3> QED BY <1>1, <2>2, <3>1, <3>2 DEF Stores, LiveOf, AttemptsOf
  <2>3. /\ LiveOf(who[v]) \subseteq Rows /\ LiveOf(who[v])' \subseteq Rows
        /\ AttemptsOf(who[v]) \subseteq Rows /\ AttemptsOf(who[v])' \subseteq Rows
    BY DEF LiveOf, AttemptsOf
  <2> QED BY <2>1, <2>2, <2>3, RowChange DEF IInv
<1>6. SeesEveryAttempt(v)'
  BY <1>1, <1>2, <1>3, <1>5 DEF SeesEveryAttempt, HoldsUser, Nested, Closing, Finalized
<1>7. HoldsAttempt(v)'
  <2> SUFFICES ASSUME pc[v] \in FinalizePcs \ {"fin_lock"} \/ Finalized(v)
               PROVE  status'[target[v]] = "in_progress" /\ attemptLock'[target[v]] = v
    BY <1>1, <1>2 DEF HoldsAttempt, Finalized
  <2>1. target[v] \in Rows /\ attemptLock[target[v]] = v /\ status[target[v]] = "in_progress"
    BY <1>2 DEF HoldsAttempt
  <2>2. target[v] \notin Closing(w)
    BY <2>1, ClosingIsHeld
  <2> QED BY <1>1, <2>1, <2>2, RowChange DEF Stores, IInv
<1>8. HoldsTest(v)'
  <2> SUFFICES ASSUME Finalized(v)
               PROVE  /\ testLock' = v
                      /\ Ahead(Pool, draft[v].sheet)' = Ahead(Pool, draft[v].sheet)
                      /\ Pool' = Pool
    BY <1>1, <1>2 DEF HoldsTest, Finalized
  <2>1. testLock = v /\ testLock' = v
    BY <1>1, <1>2 DEF HoldsTest
  <2>2. Closing(w) = {}
    BY <2>1, ClosingIsHeld DEF Closing
  <2>3. Pool' = Pool
    BY <2>2, RowChange DEF Stores, Pool, IInv
  <2>4. \A x \in Pool : result'[x] = result[x]
    BY SubmittedStays DEF Pool
  <2>5. draft'[v] = draft[v]
    BY <1>1
  <2>6. {x \in Pool : Score(result'[x].sheet) > Score(draft'[v].sheet)}
          = {x \in Pool : Score(result[x].sheet) > Score(draft[v].sheet)}
    BY <2>4, <2>5
  <2>7. Ahead(Pool, draft[v].sheet)'
          = {x \in Pool' : Score(result'[x].sheet) > Score(draft'[v].sheet)}
    BY DEF Ahead, Score
  <2> QED BY <2>1, <2>3, <2>6, <2>7 DEF Ahead
<1> QED BY <1>4, <1>6, <1>7, <1>8

OwnFacts(w) == HoldsUser(w) /\ SeesEveryAttempt(w) /\ HoldsAttempt(w) /\ HoldsTest(w)

\* Between two requests a worker has no obligations.
LEMMA ReturnNext ==
  ASSUME IInv, NEW w \in Workers, NEW rest, Return(w, rest)
  PROVE  OwnFacts(w)' /\ ~Finalized(w)'
<1>1. pc'[w] \in {"idle", "sweep"} /\ draft'[w].rank = 0
  BY NoDraftType DEF IInv, TypeOK, RequestsOK, Return
<1> QED BY <1>1 DEF OwnFacts, HoldsUser, SeesEveryAttempt, HoldsAttempt, HoldsTest, Finalized, FinalizePcs

\* A request entering finalize_attempt on its own has only its attempt to name.
LEMMA CallNext ==
  ASSUME IInv, NEW w \in Workers, NEW r \in Rows, NEW b, CallFinalize(w, r, b),
         pc[w] \in {"idle", "sweep"}, UNCHANGED <<who, draft>>
  PROVE  OwnFacts(w)'
<1>1. pc'[w] = "fin_lock" /\ who'[w] = NoStudent /\ draft'[w] = draft[w]
  BY DEF IInv, TypeOK, RequestsOK, CallFinalize
<1>2. ~Finalized(w)
  BY DEF IInv, HoldsTest
<1> QED BY <1>1, <1>2 DEF OwnFacts, HoldsUser, SeesEveryAttempt, HoldsAttempt, HoldsTest, Finalized,
        FinalizePcs, Nested

LEMMA OwnStartNext ==
  ASSUME IInv, NEW w \in Workers, StartStep(w)
  PROVE  OwnFacts(w)'
<1> USE DEF IInv, TypeOK
<1>1. CASE LockUser(w)
  <2>1. pc[w] = "start_lock" /\ pc'[w] = "start_read" /\ who[w] \in Students
    BY <1>1 DEF LockUser, RequestsOK
  <2>2. userX'[who[w]] = w
    BY <1>1, <2>1 DEF LockUser, LocksOK
  <2>3. ~Finalized(w) /\ UNCHANGED <<who, draft>>
    BY <1>1, <2>1 DEF LockUser, HoldsTest, locals, request
  <2> QED BY <2>1, <2>2, <2>3 DEF OwnFacts, HoldsUser, SeesEveryAttempt, HoldsAttempt, HoldsTest,
          Finalized, FinalizePcs
<1>2. CASE FindNoAttempt(w)
  <2>1. /\ pc[w] = "start_read" /\ pc'[w] = "start_create" /\ LiveOf(who[w]) = {}
        /\ UNCHANGED <<who, draft, userX, owner, status>>
    BY <1>2 DEF FindNoAttempt, RequestsOK, locals, request, locks, examLocks, rowVars, resultVars
  <2>2. LiveOf(who[w])' = {}
    BY <2>1 DEF LiveOf, AttemptsOf
  <2>3. ~Finalized(w) /\ userX[who[w]] = w
    BY <2>1 DEF HoldsTest, HoldsUser
  <2> QED BY <2>1, <2>2, <2>3 DEF OwnFacts, HoldsUser, SeesEveryAttempt, HoldsAttempt, HoldsTest,
          Finalized, FinalizePcs
<1>3. CASE ResumeAttempt(w) \/ RefuseStart(w) \/ CreateAttempt(w)
  <2>1. Return(w, {})
    BY <1>3 DEF ResumeAttempt, RefuseStart, CreateAttempt
  <2> QED BY <2>1, ReturnNext
<1>4. CASE FinalizeStale(w)
  <2>1. PICK r \in LiveOf(who[w]) : CallFinalize(w, r, TRUE)
    BY <1>4 DEF FinalizeStale
  <2>2. /\ pc[w] = "start_read" /\ pc'[w] = "fin_lock" /\ target'[w] = r
        /\ UNCHANGED <<who, draft, userX, owner, status>>
    BY <1>4, <2>1 DEF FinalizeStale, CallFinalize, RequestsOK, locks, examLocks, rowVars, resultVars
  <2>3. LiveOf(who[w])' \subseteq {r}
    BY <2>1, <2>2 DEF LiveOf, AttemptsOf, OneLiveAttempt
  <2>4. ~Finalized(w) /\ userX[who[w]] = w
    BY <2>2 DEF HoldsTest, HoldsUser
  <2> QED BY <2>2, <2>3, <2>4 DEF OwnFacts, HoldsUser, SeesEveryAttempt, HoldsAttempt, HoldsTest,
          Finalized, FinalizePcs, Nested
\* Between the insertion of the attempt and its commit nothing is stored.
<1>5. ASSUME UNCHANGED <<owner, status, result, draft, who, target>>
      PROVE  /\ \A s : AttemptsOf(s)' = AttemptsOf(s) /\ LiveOf(s)' = LiveOf(s)
             /\ Pool' = Pool
             /\ Ahead(Pool, draft[w].sheet)' = Ahead(Pool, draft[w].sheet)
  BY <1>5 DEF LiveOf, AttemptsOf, Pool, Ahead
<1>6. CASE InsertAttempt(w)
  <2>1. /\ pc[w] = "start_create" /\ pc'[w] = "start_freeze"
        /\ Cardinality(AttemptsOf(who[w])) < MaxAttempts
        /\ UNCHANGED <<who, target, draft, userX, attemptLock, testLock, owner, status, result>>
    BY <1>6 DEF InsertAttempt, RequestsOK, request, rowVars, resultVars
  <2> QED BY <1>5, <2>1 DEF OwnFacts, HoldsUser, SeesEveryAttempt, HoldsAttempt, HoldsTest,
          Finalized, FinalizePcs, Closing
<1>7. CASE FreezeQuestion(w)
  <2>1. /\ pc[w] = "start_freeze" /\ pc' = pc
        /\ UNCHANGED <<who, target, draft, userX, attemptLock, testLock, owner, status, result>>
    BY <1>7 DEF FreezeQuestion, request, examLocks, rowVars, resultVars
  <2> QED BY <1>5, <2>1 DEF OwnFacts, HoldsUser, SeesEveryAttempt, HoldsAttempt, HoldsTest,
          Finalized, FinalizePcs, Closing
<1> QED BY <1>1, <1>2, <1>3, <1>4, <1>6, <1>7 DEF StartStep

LEMMA OwnFinalizeNext ==
  ASSUME IInv, NEW w \in Workers, FinalizeStep(w)
  PROVE  OwnFacts(w)'
<1> USE DEF IInv, TypeOK
\* A step inside finalize_attempt that stores nothing leaves the attempts alone.
<1>0. ASSUME UNCHANGED <<owner, status, result>>
      PROVE  /\ \A s : LiveOf(s)' = LiveOf(s)
             /\ Pool' = Pool
             /\ \A sheet : Ahead(Pool, sheet)' = Ahead(Pool, sheet)
  BY <1>0 DEF LiveOf, AttemptsOf, Pool, Ahead
<1>1. CASE LockAttempt(w)
  <2>1. /\ pc[w] = "fin_lock" /\ pc'[w] = "fin_score" /\ target[w] \in Rows
        /\ attemptLock'[target[w]] = w /\ status[target[w]] = "in_progress"
        /\ UNCHANGED <<who, target, draft, userX, owner, status, result>>
    BY <1>1 DEF LockAttempt, RequestsOK, LocksOK, FinalizePcs, locals, request, rowVars, resultVars
  <2>2. ~Finalized(w)
    BY <2>1 DEF HoldsTest
  <2> QED BY <1>0, <2>1, <2>2 DEF OwnFacts, HoldsUser, SeesEveryAttempt, HoldsAttempt, HoldsTest,
          Finalized, FinalizePcs, Nested
<1>2. CASE SkipFinalized(w)
  <2>1. CASE Nested(w)
    <3>1. /\ pc[w] = "fin_lock" /\ pc'[w] = "start_create" /\ status[target[w]] # "in_progress"
          /\ UNCHANGED <<who, target, draft, userX, owner, status, result>>
      BY <1>2, <2>1 DEF SkipFinalized, RequestsOK, locals, request, rowVars, resultVars
    <3>2. ~Finalized(w) /\ userX[who[w]] = w /\ LiveOf(who[w]) \subseteq {target[w]}
      BY <2>1, <3>1 DEF HoldsTest, HoldsUser, SeesEveryAttempt, FinalizePcs
    <3>3. LiveOf(who[w]) = {}
      BY <3>1, <3>2 DEF LiveOf
    <3> QED BY <1>0, <3>1, <3>2, <3>3 DEF OwnFacts, HoldsUser, SeesEveryAttempt, HoldsAttempt,
            HoldsTest, Finalized, FinalizePcs
  <2>2. CASE ~Nested(w)
    BY <1>2, <2>2, ReturnNext DEF SkipFinalized
  <2> QED BY <2>1, <2>2
<1>3. CASE ScoreAnswers(w)
  <2>1. /\ pc[w] = "fin_score" /\ pc'[w] \in {"fin_record", "fin_rank"}
        /\ draft'[w].rank = draft[w].rank
        /\ UNCHANGED <<who, target, userX, attemptLock, owner, status, result>>
    BY <1>3 DEF ScoreAnswers, RequestsOK, Drafts, request, rowVars, resultVars, locks, examLocks
  <2>2. ~Finalized(w)
    BY <2>1 DEF HoldsTest
  <2> QED BY <1>0, <2>1, <2>2 DEF OwnFacts, HoldsUser, SeesEveryAttempt, HoldsAttempt, HoldsTest,
          Finalized, FinalizePcs, Nested
<1>4. CASE RecordResult(w)
  <2>1. /\ pc[w] = "fin_record" /\ pc'[w] \in {"fin_record", "fin_rank"}
        /\ UNCHANGED <<who, target, draft, userX, attemptLock, owner, status, result>>
    BY <1>4 DEF RecordResult, RequestsOK, request, rowVars, resultVars
  <2>2. ~Finalized(w)
    BY <2>1 DEF HoldsTest
  <2> QED BY <1>0, <2>1, <2>2 DEF OwnFacts, HoldsUser, SeesEveryAttempt, HoldsAttempt, HoldsTest,
          Finalized, FinalizePcs, Nested
<1>5. CASE RankAttempt(w)
  <2>1. /\ pc[w] = "fin_rank" /\ pc'[w] = "fin_snapshot" /\ testLock' = w
        /\ UNCHANGED <<who, target, userX, attemptLock, owner, status, result>>
    BY <1>5 DEF RankAttempt, RequestsOK, request, rowVars, resultVars
  <2>2. /\ draft'[w].sheet = draft[w].sheet
        /\ draft'[w].rank = Cardinality(Ahead(Pool, draft[w].sheet)) + 1
        /\ draft'[w].total = Cardinality(Pool) + 1
    BY <1>5 DEF RankAttempt, RequestsOK, Drafts
  <2>3. Cardinality(Ahead(Pool, draft[w].sheet)) \in Nat
    BY RowCount DEF Ahead, Pool
  <2>4. Ahead(Pool, draft[w].sheet)' = Ahead(Pool, draft[w].sheet)
    BY <1>0, <2>1, <2>2 DEF Ahead, Pool
  <2> QED BY <1>0, <2>1, <2>2, <2>3, <2>4 DEF OwnFacts, HoldsUser, SeesEveryAttempt, HoldsAttempt,
          HoldsTest, Finalized, FinalizePcs, Nested
<1>6. CASE SnapshotQuestions(w)
  <2>1. /\ pc[w] = "fin_snapshot"
        /\ pc'[w] \in {AfterSnapshots(w), "fin_insert"}
        /\ UNCHANGED <<who, target, userX, attemptLock, testLock, owner, status, result>>
    BY <1>6 DEF SnapshotQuestions, RequestsOK, request, rowVars, resultVars, locks, examLocks
  <2>2. /\ draft'[w].sheet = draft[w].sheet /\ draft'[w].rank = draft[w].rank
        /\ draft'[w].total = draft[w].total
    BY <1>6 DEF SnapshotQuestions, RequestsOK, Drafts
  <2>3. Ahead(Pool, draft[w].sheet)' = Ahead(Pool, draft[w].sheet)
    BY <1>0, <2>1, <2>2 DEF Ahead, Pool
  <2>4. HoldsTest(w)'
    BY <1>0, <2>1, <2>2, <2>3 DEF HoldsTest, Finalized, AfterSnapshots
  <2>5. HoldsUser(w)' /\ SeesEveryAttempt(w)' /\ HoldsAttempt(w)'
    BY <1>0, <2>1, <2>2 DEF HoldsUser, SeesEveryAttempt, HoldsAttempt, HoldsTest, Finalized,
       FinalizePcs, Nested, Closing, AfterSnapshots
  <2> QED BY <2>4, <2>5 DEF OwnFacts
<1>8. CASE InsertSnapshot(w)
  <2>1. /\ pc[w] = "fin_insert" /\ pc'[w] \in {AfterSnapshots(w), "fin_insert"}
        /\ UNCHANGED <<who, target, draft, userX, attemptLock, testLock, owner, status, result>>
    BY <1>8 DEF InsertSnapshot, RequestsOK, request, rowVars, resultVars, examLocks
  <2>2. Ahead(Pool, draft[w].sheet)' = Ahead(Pool, draft[w].sheet)
    BY <1>0, <2>1 DEF Ahead, Pool
  <2>3. HoldsTest(w)'
    BY <1>0, <2>1, <2>2 DEF HoldsTest, Finalized, AfterSnapshots
  <2>4. HoldsUser(w)' /\ SeesEveryAttempt(w)' /\ HoldsAttempt(w)'
    BY <1>0, <2>1 DEF HoldsUser, SeesEveryAttempt, HoldsAttempt, HoldsTest, Finalized,
       FinalizePcs, Nested, Closing, AfterSnapshots
  <2> QED BY <2>3, <2>4 DEF OwnFacts
<1>7. CASE CommitFinalization(w)
  BY <1>7, ReturnNext DEF CommitFinalization
<1> QED BY <1>1, <1>2, <1>3, <1>4, <1>5, <1>6, <1>7, <1>8 DEF FinalizeStep

\* The other transactions finalize nothing.
LEMMA OwnAsideNext ==
  ASSUME IInv, NEW w \in Workers, AsideStep(w)
  PROVE  OwnFacts(w)'
<1> DEFINE Aside == {"practice_record", "stats_lock", "count", "queued", "resch_lock", "resch_adopt"}
<1>1. CASE CommitCounts(w) \/ CommitReschedule(w)
  BY <1>1, ReturnNext DEF CommitCounts, CommitReschedule
<1>2. CASE ~(CommitCounts(w) \/ CommitReschedule(w))
  <2>1. pc[w] \in Aside /\ pc'[w] \in Aside /\ UNCHANGED draft
    BY <1>2 DEF AsideStep, PracticeAnswer, LockForStatistics, CountQuestion, QueueForQuestion,
       LockTestForReschedule, AdoptAttempt, IInv, TypeOK, RequestsOK, locals
  <2>2. ~Finalized(w)
    BY <2>1 DEF IInv, HoldsTest
  <2> QED BY <2>1, <2>2 DEF OwnFacts, HoldsUser, SeesEveryAttempt, HoldsAttempt, HoldsTest, Finalized,
          FinalizePcs
<1> QED BY <1>1, <1>2

LEMMA OwnNext ==
  ASSUME IInv, NEW w \in Workers, Act(w)
  PROVE  OwnFacts(w)'
<1>1. CASE Request(w)
  <2>1. ASSUME NEW s \in Students, RequestStart(w, s) PROVE OwnFacts(w)'
    <3>1. pc[w] = "idle" /\ pc'[w] = "start_lock" /\ draft' = draft
      BY <2>1 DEF RequestStart, IInv, TypeOK, RequestsOK
    <3> QED BY <3>1 DEF IInv, OwnFacts, HoldsUser, SeesEveryAttempt, HoldsAttempt, HoldsTest, Finalized, FinalizePcs
  <2>2. ASSUME NEW r \in Rows, RequestAnswer(w, r) \/ RequestMark(w, r) PROVE OwnFacts(w)'
    <3>1. pc[w] = "idle" /\ pc'[w] = "answer_write" /\ draft' = draft
      BY <2>2 DEF RequestAnswer, RequestMark, IInv, TypeOK, RequestsOK
    <3> QED BY <3>1 DEF IInv, OwnFacts, HoldsUser, SeesEveryAttempt, HoldsAttempt, HoldsTest, Finalized, FinalizePcs
  <2>3. ASSUME NEW r \in Rows, RequestSubmit(w, r) \/ TouchExpired(w, r) PROVE OwnFacts(w)'
    BY <2>3, CallNext DEF RequestSubmit, TouchExpired
  <2>4. CASE RequestReschedule(w) \/ RequestStatistics(w) \/ \E s \in Students : RequestPractice(w, s)
    <3>1. pc[w] = "idle" /\ pc'[w] \in {"practice_record", "stats_lock", "count", "resch_lock"} /\ draft' = draft
      BY <2>4 DEF RequestReschedule, RequestStatistics, RequestPractice, IInv, TypeOK, RequestsOK, locals
    <3> QED BY <3>1 DEF IInv, OwnFacts, HoldsUser, SeesEveryAttempt, HoldsAttempt, HoldsTest, Finalized, FinalizePcs
  <2> QED BY <1>1, <2>1, <2>2, <2>3, <2>4 DEF Request
<1>2. CASE BeginSweep(w) \/ WriteAnswer(w) \/ DeadlockVictim(w)
  BY <1>2, ReturnNext DEF BeginSweep, WriteAnswer, DeadlockVictim
<1>3. CASE SweepNext(w)
  <2>1. PICK r \in Rows : CallFinalize(w, r, TRUE)
    BY <1>3 DEF SweepNext, IInv, TypeOK, RequestsOK
  <2> QED BY <1>3, <2>1, CallNext DEF SweepNext
<1> QED BY <1>1, <1>2, <1>3, OwnStartNext, OwnFinalizeNext, OwnAsideNext DEF Act, Continue

\* The locks of another worker stay with the phase of its transaction.
LEMMA OtherPhasesNext ==
  ASSUME IInv, NEW w \in Workers, Act(w), NEW v \in Workers, v # w
  PROVE  LocksByPhase(v)'
<1>1. /\ pc'[v] = pc[v] /\ who'[v] = who[v] /\ target'[v] = target[v] /\ draft'[v] = draft[v]
      /\ SameLocks(v)
  BY OthersUndisturbed DEF IInv
<1>2. LocksByPhase(v) /\ HoldsAttempt(v)
  BY DEF IInv, LockPhases
<1>3. ASSUME pc[v] \in FinalizePcs \ {"fin_lock"} PROVE owner'[target[v]] = owner[target[v]]
  <2>1. target[v] \in Rows /\ status[target[v]] = "in_progress"
    BY <1>2, <1>3 DEF HoldsAttempt
  <2> QED BY <2>1, RowChange DEF Stores, IInv
<1>4. ASSUME NEW s \in Students, NEW q \in Bank, history'[s][q] = v
      PROVE  /\ pc'[v] \in (FinalizePcs \ {"fin_lock", "fin_score"})
                  \cup {"start_create", "start_freeze", "count", "queued"}
             /\ pc'[v] \in FinalizePcs => s = owner'[target'[v]]
  <2>1. history[s][q] = v
    BY <1>1, <1>4 DEF SameLocks
  <2> QED BY <1>1, <1>2, <1>3, <2>1 DEF LocksByPhase
<1>5. (testLock' = v => Finalized(v)' \/ pc'[v] = "resch_adopt") /\ (v \in testS' => pc'[v] = "start_freeze")
  BY <1>1, <1>2 DEF LocksByPhase, SameLocks, Finalized
<1> QED BY <1>1, <1>2, <1>4, <1>5 DEF LocksByPhase, SameLocks

\* At the end of its transaction a worker holds no lock.
LEMMA NoLocks ==
  ASSUME NEW w \in Workers, ReleaseLocks(w)
  PROVE  LocksByPhase(w)'
<1>1. w # NoWorker
  BY ExamAssumption DEF ExamAssumption
<1>2. \A s \in Students, q \in Bank : history'[s][q] # w
  BY <1>1 DEF ReleaseLocks
<1>3. /\ \A s \in Students : userX'[s] # w
      /\ \A r \in Rows : attemptLock'[r] # w
      /\ testLock' # w /\ w \notin testS'
      /\ \A q \in Bank : questionX'[q] # w
  BY <1>1 DEF ReleaseLocks
<1> QED BY <1>2, <1>3 DEF LocksByPhase

\* Nor does it between its requests, nor while it has not locked yet.
LockFree == {"idle", "sweep", "start_lock", "answer_write", "practice_record", "stats_lock", "resch_lock"}

LEMMA FreeOfLocks ==
  ASSUME IInv, NEW w \in Workers,
         pc[w] \in LockFree \/ (pc[w] = "fin_lock" /\ ~Nested(w))
  PROVE  /\ \A s \in Students : userX[s] # w
         /\ \A r \in Rows : attemptLock[r] # w
         /\ testLock # w /\ w \notin testS
         /\ \A q \in Bank : questionX[q] # w
         /\ \A s \in Students, q \in Bank : history[s][q] # w
<1>1. LocksByPhase(w) /\ HoldsTest(w)
  BY DEF IInv, LockPhases
<1>2. Nested(w) <=> who[w] # NoStudent
  BY DEF Nested
<1>3. NoStudent \notin Students
  BY ExamAssumption DEF ExamAssumption
<1> QED BY <1>1, <1>2, <1>3 DEF LocksByPhase, HoldsTest, LockFree, FinalizePcs

LEMMA KeepsNone ==
  ASSUME NEW w \in Workers, UNCHANGED locks,
         /\ \A s \in Students : userX[s] # w
         /\ \A r \in Rows : attemptLock[r] # w
         /\ testLock # w /\ w \notin testS
         /\ \A q \in Bank : questionX[q] # w
         /\ \A s \in Students, q \in Bank : history[s][q] # w
  PROVE  LocksByPhase(w)'
  BY DEF LocksByPhase, locks, examLocks, bankLocks

LEMMA OwnPhasesNext ==
  ASSUME IInv, NEW w \in Workers, Act(w)
  PROVE  LocksByPhase(w)'
<1> USE DEF IInv, TypeOK
<1>0. LocksByPhase(w) /\ HoldsTest(w) /\ HoldsUser(w) /\ HoldsAttempt(w)
  BY DEF LockPhases
<1>1. CASE Request(w) \/ BeginSweep(w) \/ SweepNext(w) \/ WriteAnswer(w)
  <2>1. pc[w] \in LockFree /\ UNCHANGED locks
    BY <1>1 DEF Request, RequestStart, RequestPractice, RequestStatistics, RequestReschedule,
       RequestAnswer, RequestMark, RequestSubmit, TouchExpired, BeginSweep, SweepNext, WriteAnswer, LockFree
  <2> QED BY <2>1, FreeOfLocks, KeepsNone
<1>2. CASE ReleaseLocks(w)
  BY <1>2, NoLocks
<1>3. CASE StartStep(w) /\ ~ReleaseLocks(w)
  <2>1. CASE LockUser(w)
    <3>1. pc[w] = "start_lock" /\ pc'[w] = "start_read" /\ who' = who
      BY <2>1 DEF LockUser, RequestsOK, locals, request
    <3>2. \A s \in Students : userX'[s] = w => s = who[w]
      BY <2>1, <3>1, FreeOfLocks DEF LockUser, LocksOK, LockFree
    <3> QED BY <2>1, <3>1, <3>2, FreeOfLocks DEF LockUser, LocksByPhase, LockFree, bankLocks
  <2>2. CASE FindNoAttempt(w)
    <3>1. pc[w] = "start_read" /\ pc'[w] = "start_create" /\ who' = who /\ draft' = draft /\ UNCHANGED locks
      BY <2>2 DEF FindNoAttempt, RequestsOK, locals, request
    <3> QED BY <1>0, <3>1 DEF LocksByPhase, FinalizePcs, locks, examLocks, bankLocks, Finalized
  <2>3. CASE FinalizeStale(w)
    <3>1. pc[w] = "start_read" /\ pc'[w] = "fin_lock" /\ who' = who /\ draft' = draft /\ UNCHANGED locks
      BY <2>3 DEF FinalizeStale, CallFinalize, RequestsOK
    <3> QED BY <1>0, <3>1 DEF LocksByPhase, FinalizePcs, locks, examLocks, bankLocks, Finalized
  <2>4. CASE InsertAttempt(w)
    <3>1. pc[w] = "start_create" /\ pc'[w] = "start_freeze"
      BY <2>4 DEF InsertAttempt, RequestsOK
    <3>2. UNCHANGED <<who, draft, userX, attemptLock, testLock, questionX, history>>
      BY <2>4 DEF InsertAttempt, request, bankLocks
    <3> QED BY <1>0, <3>1, <3>2 DEF LocksByPhase, FinalizePcs, Finalized
  <2>5. CASE FreezeQuestion(w)
    <3>1. pc[w] = "start_freeze" /\ pc' = pc
      BY <2>5 DEF FreezeQuestion
    <3>2. UNCHANGED <<who, draft, userX, attemptLock, testLock, testS, questionX, history>>
      BY <2>5 DEF FreezeQuestion, request, examLocks
    <3> QED BY <1>0, <3>1, <3>2 DEF LocksByPhase, FinalizePcs, Finalized
  <2> QED BY <1>3, <2>1, <2>2, <2>3, <2>4, <2>5 DEF StartStep, ResumeAttempt, RefuseStart, CreateAttempt
<1>4. CASE FinalizeStep(w) /\ ~ReleaseLocks(w)
  <2>1. CASE LockAttempt(w)
    <3>1. pc[w] = "fin_lock" /\ pc'[w] = "fin_score"
      BY <2>1 DEF LockAttempt, RequestsOK
    <3>2. UNCHANGED <<who, draft, userX, testLock, testS, questionX, history>>
      BY <2>1 DEF LockAttempt, locals, request, bankLocks
    <3> QED BY <1>0, <3>1, <3>2 DEF LocksByPhase, FinalizePcs, Finalized
  <2>2. CASE SkipFinalized(w)
    <3>1. CASE Nested(w)
      <4>1. pc[w] = "fin_lock" /\ pc'[w] = "start_create"
        BY <2>2, <3>1 DEF SkipFinalized, RequestsOK
      <4>2. UNCHANGED <<who, draft, userX, testLock, testS, questionX, history>>
        BY <2>2, <3>1 DEF SkipFinalized, locals, request, bankLocks
      <4> QED BY <1>0, <4>1, <4>2 DEF LocksByPhase, FinalizePcs, Finalized
    <3>2. CASE ~Nested(w)
      <4>1. pc[w] = "fin_lock" /\ UNCHANGED locks
        BY <2>2, <3>2 DEF SkipFinalized
      <4> QED BY <3>2, <4>1, FreeOfLocks, KeepsNone
    <3> QED BY <3>1, <3>2
  <2>3. CASE ScoreAnswers(w)
    <3>1. pc[w] = "fin_score" /\ pc'[w] \in {"fin_record", "fin_rank"} /\ UNCHANGED <<who, target, owner, locks>>
      BY <2>3 DEF ScoreAnswers, RequestsOK, request, rowVars
    <3>2. ~Finalized(w)
      BY <1>0, <3>1 DEF HoldsTest
    <3> QED BY <1>0, <3>1, <3>2 DEF LocksByPhase, FinalizePcs, locks, examLocks, bankLocks
  <2>4. CASE RecordResult(w)
    <3>1. /\ pc[w] = "fin_record" /\ pc'[w] \in {"fin_record", "fin_rank"}
          /\ UNCHANGED <<who, target, owner, userX, attemptLock, testLock, testS, questionX>>
      BY <2>4 DEF RecordResult, RequestsOK, request, rowVars
    <3>2. ~Finalized(w)
      BY <1>0, <3>1 DEF HoldsTest
    <3>3. ASSUME NEW s \in Students, NEW q \in Bank, history'[s][q] = w PROVE s = owner[target[w]]
      <4>1. PICK p : Record(w, owner[target[w]], p)
        BY <2>4 DEF RecordResult
      <4>2. s # owner[target[w]] => history'[s][q] = history[s][q]
        BY <4>1 DEF Record, LocksOK
      <4> QED BY <1>0, <3>1, <3>3, <4>2 DEF LocksByPhase, FinalizePcs
    <3> QED BY <1>0, <3>1, <3>2, <3>3 DEF LocksByPhase, FinalizePcs
  <2>5. CASE RankAttempt(w)
    <3>1. /\ pc[w] = "fin_rank" /\ pc'[w] = "fin_snapshot"
          /\ UNCHANGED <<who, target, owner, userX, attemptLock, testS, questionX, history>>
      BY <2>5 DEF RankAttempt, RequestsOK, request, rowVars, bankLocks
    <3>2. draft'[w].rank = Cardinality(Ahead(Pool, draft[w].sheet)) + 1
      BY <2>5 DEF RankAttempt, RequestsOK, Drafts
    <3>3. Finalized(w)'
      BY <3>2, RowCount DEF Finalized, Ahead, Pool
    <3> QED BY <1>0, <3>1, <3>3 DEF LocksByPhase, FinalizePcs
  <2>6. CASE SnapshotQuestions(w)
    <3>1. /\ pc[w] = "fin_snapshot" /\ pc'[w] \in {"start_create", "fin_commit", "fin_insert"}
          /\ UNCHANGED <<who, target, owner, locks>>
      BY <2>6 DEF SnapshotQuestions, AfterSnapshots, RequestsOK, request, rowVars
    <3>2. draft'[w].rank = draft[w].rank
      BY <2>6 DEF SnapshotQuestions, RequestsOK, Drafts
    <3> QED BY <1>0, <3>1, <3>2 DEF LocksByPhase, FinalizePcs, Finalized, locks, examLocks, bankLocks
  <2>7. CASE InsertSnapshot(w)
    <3>1. /\ pc[w] = "fin_insert" /\ pc'[w] \in {"start_create", "fin_commit", "fin_insert"}
          /\ UNCHANGED <<who, target, draft, owner, userX, attemptLock, testLock, testS, questionX, history>>
      BY <2>7 DEF InsertSnapshot, AfterSnapshots, RequestsOK, request, rowVars, examLocks
    <3> QED BY <1>0, <3>1 DEF LocksByPhase, FinalizePcs, Finalized
  <2> QED BY <1>4, <2>1, <2>2, <2>3, <2>4, <2>5, <2>6, <2>7 DEF FinalizeStep, CommitFinalization
<1>5. CASE AsideStep(w) /\ ~ReleaseLocks(w)
  <2>1. CASE PracticeAnswer(w)
    <3>1. /\ pc[w] = "practice_record" /\ pc'[w] = "count"
          /\ UNCHANGED <<userX, attemptLock, testLock, testS, questionX>>
      BY <2>1 DEF PracticeAnswer, RequestsOK
    <3> QED BY <3>1, FreeOfLocks DEF LocksByPhase, LockFree, FinalizePcs
  <2>2. CASE LockForStatistics(w)
    <3>1. /\ pc[w] = "stats_lock" /\ pc'[w] = "count"
          /\ UNCHANGED <<userX, testLock, testS, questionX, history>>
      BY <2>2 DEF LockForStatistics, RequestsOK, bankLocks
    <3> QED BY <3>1, FreeOfLocks DEF LocksByPhase, LockFree
  <2>3. CASE CountQuestion(w)
    <3>1. /\ pc[w] \in {"count", "queued"} /\ pc'[w] = "count"
          /\ UNCHANGED <<userX, attemptLock, testLock, testS, history>>
      BY <2>3 DEF CountQuestion, RequestsOK, examLocks
    <3>2. testLock # w
      BY <1>0, <3>1 DEF LocksByPhase, HoldsTest
    <3> QED BY <1>0, <3>1, <3>2 DEF LocksByPhase, FinalizePcs
  <2>4. CASE QueueForQuestion(w)
    <3>1. pc[w] = "count" /\ pc'[w] = "queued" /\ UNCHANGED locks
      BY <2>4 DEF QueueForQuestion, RequestsOK
    <3>2. testLock # w
      BY <1>0, <3>1 DEF LocksByPhase, HoldsTest
    <3> QED BY <1>0, <3>1, <3>2 DEF LocksByPhase, FinalizePcs, locks, examLocks, bankLocks
  <2>5. CASE LockTestForReschedule(w)
    <3>1. /\ pc[w] = "resch_lock" /\ pc'[w] = "resch_adopt"
          /\ UNCHANGED <<userX, attemptLock, testS, questionX, history>>
      BY <2>5 DEF LockTestForReschedule, RequestsOK, bankLocks
    <3> QED BY <3>1, FreeOfLocks DEF LocksByPhase, LockFree
  <2>6. CASE AdoptAttempt(w)
    <3>1. /\ pc[w] = "resch_adopt" /\ pc' = pc
          /\ UNCHANGED <<userX, testLock, testS, questionX, history>>
      BY <2>6 DEF AdoptAttempt, bankLocks
    <3> QED BY <1>0, <3>1 DEF LocksByPhase, FinalizePcs
  <2> QED BY <1>5, <2>1, <2>2, <2>3, <2>4, <2>5, <2>6 DEF AsideStep, CommitCounts, CommitReschedule
<1> QED BY <1>1, <1>2, <1>3, <1>4, <1>5 DEF Act, Continue, DeadlockVictim

LEMMA InitInv == Init => IInv
  BY InitType, NoDraftType, ExamAssumption DEF ExamAssumption, Init, IInv, HoldsUser, SeesEveryAttempt, HoldsAttempt, HoldsTest,
     LockPhases, LocksByPhase, OneLiveAttempt, SequentialRank, Finalized, FinalizePcs, LiveOf, AttemptsOf

\* Without a step of a worker, only the clock changes.
LEMMA IdleNext ==
  ASSUME IInv, Tick \/ UNCHANGED vars
  PROVE  IInv'
<1>1. UNCHANGED <<rowVars, answers, resultVars, locks, pc, locals>>
  BY DEF Tick, vars
<1>2. UNCHANGED <<owner, number, status, start, frozen, preview, answers, result, earlier,
                  userX, userS, attemptLock, testLock, testS, questionX, questionS, history,
                  pc, who, target, auto, entry, draft, todo>>
  BY <1>1 DEF rowVars, resultVars, locks, examLocks, bankLocks, locals, request
<1>3. Pool' = Pool
  BY <1>2 DEF Pool
<1>5. \A s : LiveOf(s)' = LiveOf(s) /\ AttemptsOf(s)' = AttemptsOf(s)
  BY <1>2 DEF LiveOf, AttemptsOf
<1>6. TypeOK'
  BY NextType DEF IInv, Next
<1>7. ASSUME NEW w \in Workers PROVE OwnFacts(w)'
  <2>1. Ahead(Pool, draft[w].sheet)' = Ahead(Pool, draft[w].sheet)
    BY <1>2, <1>3 DEF Ahead
  <2> QED BY <1>2, <1>3, <1>5, <2>1 DEF IInv, OwnFacts, HoldsUser, SeesEveryAttempt, HoldsAttempt,
          HoldsTest, Nested, Finalized, Closing
<1>8. SequentialRank'
  <2>1. \A r \in Rows : Ahead(earlier[r], result[r].sheet)' = Ahead(earlier[r], result[r].sheet)
    BY <1>2 DEF Ahead
  <2> QED BY <1>2, <1>3, <2>1 DEF IInv, SequentialRank
<1>9. LockPhases'
  BY <1>2 DEF IInv, LockPhases, LocksByPhase, Finalized
<1> QED BY <1>2, <1>6, <1>7, <1>8, <1>9 DEF IInv, OwnFacts, OneLiveAttempt

LEMMA InvNext == IInv /\ [Next]_vars => IInv'
<1> SUFFICES ASSUME IInv, [Next]_vars PROVE IInv'
  OBVIOUS
<1>1. CASE Tick \/ UNCHANGED vars
  BY <1>1, IdleNext
<1>2. ASSUME NEW w \in Workers, Act(w) PROVE IInv'
  <2>1. TypeOK'
    BY NextType DEF IInv
  <2>2. \A v \in Workers : OwnFacts(v)'
    BY <1>2, OwnNext, OtherWorkerNext DEF OwnFacts
  <2>3. LockPhases'
    BY <1>2, OwnPhasesNext, OtherPhasesNext DEF LockPhases
  <2> QED BY <1>2, <2>1, <2>2, <2>3, OneLiveAttemptNext, SequentialRankNext DEF IInv, OwnFacts
<1> QED BY <1>1, <1>2 DEF Next, Act

-----------------------------------------------------------------------------
(* Theorems *)

\* The inductive invariant: who holds which row lock at which point, and what
\* that lock guarantees.
THEOREM InvariantHolds == Spec => []IInv
  BY InitInv, InvNext, PTL DEF Spec

\* However many start requests of a student run at once, at most one attempt of
\* that student is in progress.
THEOREM OneLiveAttemptHolds == Spec => []OneLiveAttempt
<1>1. IInv => OneLiveAttempt
  BY DEF IInv
<1> QED BY <1>1, InvariantHolds, PTL

\* Ranks are sequential: each submitted attempt was ranked against exactly the
\* attempts submitted before it.
THEOREM SequentialRankHolds == Spec => []SequentialRank
<1>1. IInv => SequentialRank
  BY DEF IInv
<1> QED BY <1>1, InvariantHolds, PTL

\* A submitted attempt is never re-scored, re-ranked or reopened.
THEOREM ResultIsFinalHolds == Spec => ResultIsFinal
<1>1. ASSUME IInv, [Next]_vars
      PROVE  \A r \in Rows : status[r] = "submitted" =>
               status'[r] = "submitted" /\ result'[r] = result[r] /\ earlier'[r] = earlier[r]
  <2>1. CASE Tick \/ UNCHANGED vars
    BY <2>1 DEF Tick, vars, resultVars
  <2>2. ASSUME NEW w \in Workers, Act(w)
        PROVE  \A r \in Rows : status[r] = "submitted" =>
                 status'[r] = "submitted" /\ result'[r] = result[r] /\ earlier'[r] = earlier[r]
    BY <1>1, <2>2, SubmittedStays
  <2> QED BY <1>1, <2>1, <2>2 DEF Next, Act
<1> QED BY <1>1, InvariantHolds, PTL DEF Spec, ResultIsFinal

-----------------------------------------------------------------------------
(* Refinement: every step is a step of OfficialAttempts, or changes nothing there *)

\* The instance counts as this module does.
LEMMA SameCount == \A S : Official!Cardinality(S) = Cardinality(S)
  BY DEF Official!Cardinality, Cardinality

LEMMA InitOfficial == Init => Official!Init
<1> SUFFICES ASSUME Init PROVE Official!Init
  OBVIOUS
<1>1. {q \in Bank : NoAnswers[q] = "right"} = {} /\ {q \in Bank : NoAnswers[q] = "wrong"} = {}
  BY DEF NoAnswers
<1>2. Score(NoAnswers) = 0
  <2>1. Score(NoAnswers) = RightMarks * 0 - WrongMarks * 0
    BY <1>1, FS_EmptySet DEF Score
  <2>2. RightMarks \in Nat /\ WrongMarks \in Nat
    BY ExamAssumption DEF ExamAssumption
  <2> QED BY <2>1, <2>2
<1>3. OfficialResult = [r \in Rows |-> Official!Unused]
  BY <1>2 DEF Init, OfficialResult, NoDraft, Official!Unused
<1> QED BY <1>3 DEF Init, Official!Init

\* The rank in a finalization's draft is the one an indivisible submission gets.
LEMMA DraftIsOfficial ==
  ASSUME IInv, NEW w \in Workers, Finalized(w)
  PROVE  /\ draft[w].sheet \in AnswerSheet
         /\ Official!Ranking(Score(draft[w].sheet)) =
              [points |-> Score(draft[w].sheet), rank |-> draft[w].rank, total |-> draft[w].total]
<1>1. draft[w].sheet \in AnswerSheet
  BY DEF IInv, TypeOK, RequestsOK, Drafts
<1>2. Official!Submitted = Pool
  BY DEF Official!Submitted, Pool
<1>3. {r \in Pool : OfficialResult[r].points > Score(draft[w].sheet)} = Ahead(Pool, draft[w].sheet)
  BY DEF OfficialResult, Ahead, Pool
<1>4. /\ draft[w].rank = Cardinality(Ahead(Pool, draft[w].sheet)) + 1
      /\ draft[w].total = Cardinality(Pool) + 1
  BY DEF IInv, HoldsTest
<1> QED BY <1>1, <1>2, <1>3, <1>4, SameCount DEF Official!Ranking

\* What a commit stores, read as an official result.
LEMMA StoredIsOfficial ==
  ASSUME IInv, NEW w \in Workers, StoreResult(w)
  PROVE  OfficialResult' = [r \in Rows |-> IF r \in Closing(w)
                                           THEN Official!Ranking(Score(draft[w].sheet))
                                           ELSE OfficialResult[r]]
<1>1. CASE Closing(w) = {}
  BY <1>1 DEF StoreResult, OfficialResult
<1>2. CASE Closing(w) # {}
  <2>1. Finalized(w)
    BY <1>2 DEF Closing
  <2> QED BY <2>1, DraftIsOfficial DEF StoreResult, OfficialResult
<1> QED BY <1>1, <1>2

\* A commit without an insertion submits the attempt it finalized, if any.
LEMMA CommitOfficial ==
  ASSUME IInv, NEW w \in Workers, StoreResult(w), UNCHANGED <<owner, number>>,
         status' = [r \in Rows |-> IF r \in Closing(w) THEN "submitted" ELSE status[r]]
  PROVE  [Official!Next]_(Official!vars)
<1>1. CASE ~Finalized(w)
  <2>1. UNCHANGED <<status, OfficialResult>>
    BY <1>1, StoredIsOfficial DEF Closing, OfficialResult, IInv, TypeOK, ResultsOK
  <2> QED BY <2>1 DEF Official!vars
<1>2. CASE Finalized(w)
  <2>1. Closing(w) = {target[w]} /\ target[w] \in Rows /\ status[target[w]] = "in_progress"
    BY <1>2 DEF Closing, IInv, HoldsAttempt
  <2>2. status' = [status EXCEPT ![target[w]] = "submitted"]
    BY <2>1 DEF IInv, TypeOK, ResultsOK
  <2>3. OfficialResult' = [OfficialResult EXCEPT ![target[w]] =
                             Official!Ranking(Score(draft[w].sheet))]
    BY <2>1, StoredIsOfficial DEF OfficialResult
  <2>4. Official!Submit(target[w])
    BY <1>2, <2>1, <2>2, <2>3, DraftIsOfficial DEF Official!Submit
  <2> QED BY <2>1, <2>4 DEF Official!Next
<1> QED BY <1>1, <1>2

\* A commit that inserts begins the student's next attempt, after submitting
\* the one it finalized, if any.
LEMMA CreateOfficial ==
  ASSUME IInv, NEW w \in Workers, CreateAttempt(w)
  PROVE  Official!Next
<1> DEFINE s == who[w]
<1>1. PICK r \in Rows :
        /\ status[r] = "none"
        /\ owner' = [owner EXCEPT ![r] = s]
        /\ number' = [number EXCEPT ![r] = Cardinality(AttemptsOf(s)) + 1]
        /\ status' = [x \in Rows |-> IF x = r THEN "in_progress"
                                     ELSE IF x \in Closing(w) THEN "submitted" ELSE status[x]]
  BY DEF CreateAttempt
<1>2. /\ s \in Students /\ pc[w] = "start_freeze" /\ StoreResult(w)
      /\ Cardinality(AttemptsOf(s)) < MaxAttempts /\ LiveOf(s) \subseteq Closing(w)
  BY DEF CreateAttempt, IInv, TypeOK, RequestsOK, SeesEveryAttempt
<1>3. Official!Taken(s) = AttemptsOf(s) /\ Official!Running(s) = LiveOf(s)
  BY DEF Official!Taken, Official!Running, AttemptsOf, LiveOf
<1>4. CASE ~Finalized(w)
  <2>1. Closing(w) = {}
    BY <1>4 DEF Closing
  <2>2. UNCHANGED OfficialResult
    BY <1>2, <2>1, StoredIsOfficial DEF OfficialResult
  <2>3. status' = [status EXCEPT ![r] = "in_progress"]
    BY <1>1, <2>1 DEF IInv, TypeOK, ResultsOK
  <2>4. Official!Begin(s, r)
    BY <1>1, <1>2, <1>3, <2>1, <2>2, <2>3, SameCount DEF Official!Begin
  <2> QED BY <1>2, <2>4 DEF Official!Next
<1>5. CASE Finalized(w)
  <2> DEFINE old == target[w]
  <2>1. Closing(w) = {old} /\ old \in Rows /\ status[old] = "in_progress"
    BY <1>5 DEF Closing, IInv, HoldsAttempt
  <2>2. status' = [status EXCEPT ![old] = "submitted", ![r] = "in_progress"]
    BY <1>1, <2>1 DEF IInv, TypeOK, ResultsOK
  <2>3. OfficialResult' = [OfficialResult EXCEPT ![old] = Official!Ranking(Score(draft[w].sheet))]
    BY <1>2, <2>1, StoredIsOfficial DEF OfficialResult
  <2>4. Official!SubmitAndBegin(s, old, r)
    BY <1>1, <1>2, <1>3, <1>5, <2>1, <2>2, <2>3, DraftIsOfficial, SameCount
       DEF Official!SubmitAndBegin
  <2> QED BY <1>2, <2>1, <2>4 DEF Official!Next
<1> QED BY <1>4, <1>5

LEMMA NextOfficial == IInv /\ [Next]_vars => [Official!Next]_(Official!vars)
<1> SUFFICES ASSUME IInv, [Next]_vars PROVE [Official!Next]_(Official!vars)
  OBVIOUS
<1>1. ASSUME UNCHANGED <<owner, number, status, result>> PROVE UNCHANGED Official!vars
  BY <1>1 DEF Official!vars, OfficialResult
<1>2. CASE Tick \/ UNCHANGED vars
  BY <1>1, <1>2 DEF Tick, vars, rowVars, resultVars
<1>3. ASSUME NEW w \in Workers, RefuseStart(w) \/ CommitFinalization(w)
      PROVE  [Official!Next]_(Official!vars)
  BY <1>3, CommitOfficial DEF RefuseStart, CommitFinalization, rowVars
<1>4. ASSUME NEW w \in Workers, CreateAttempt(w) PROVE Official!Next
  BY <1>4, CreateOfficial
<1>5. ASSUME NEW w \in Workers, Quiet(w) PROVE UNCHANGED <<owner, number, status, result>>
  BY <1>5, QuietStep
<1> QED BY <1>1, <1>2, <1>3, <1>4, <1>5 DEF Next, Act, Quiet

\* The requests, locks and transactions of the code implement the promise made
\* to the students: indivisible submissions in one order, attempts one at a time.
THEOREM OfficialHolds == Spec => ImplementsOfficial
  BY InitOfficial, NextOfficial, InvariantHolds, PTL DEF Spec, ImplementsOfficial, Official!Spec

-----------------------------------------------------------------------------
(* The limit of attempts *)

\* The numbers of a student's attempts count up to the number of attempts.
Numbered(s) ==
    /\ Cardinality(AttemptsOf(s)) <= MaxAttempts
    /\ \A r \in AttemptsOf(s) : number[r] \in 1..Cardinality(AttemptsOf(s))
    /\ \A r1, r2 \in AttemptsOf(s) : number[r1] = number[r2] => r1 = r2

AllNumbered ==
    /\ \A r \in Rows : status[r] # "none" => owner[r] \in Students
    /\ \A s \in Students : Numbered(s)

LEMMA InitNumbered == Init => AllNumbered
<1> SUFFICES ASSUME Init PROVE AllNumbered
  OBVIOUS
<1>1. \A s : AttemptsOf(s) = {}
  BY DEF Init, AttemptsOf
<1>2. Cardinality({}) = 0 /\ MaxAttempts \in Nat
  BY FS_EmptySet, ExamAssumption DEF ExamAssumption
<1>3. \A s \in Students : Numbered(s)
  BY <1>1, <1>2 DEF Numbered
<1> QED BY <1>3 DEF Init, AllNumbered

LEMMA CreateNumbered ==
  ASSUME IInv, AllNumbered, NEW w \in Workers, CreateAttempt(w)
  PROVE  AllNumbered'
<1>0. PICK s \in Students : s = who[w]
  BY DEF CreateAttempt, IInv, TypeOK, RequestsOK
<1> DEFINE count == Cardinality(AttemptsOf(s))
<1>1. PICK r \in Rows :
        /\ status[r] = "none"
        /\ owner' = [owner EXCEPT ![r] = s]
        /\ number' = [number EXCEPT ![r] = count + 1]
        /\ status' = [x \in Rows |-> IF x = r THEN "in_progress"
                                     ELSE IF x \in Closing(w) THEN "submitted" ELSE status[x]]
  BY <1>0 DEF CreateAttempt
<1>2. count < MaxAttempts /\ MaxAttempts \in Nat
  BY <1>0, ExamAssumption DEF CreateAttempt, IInv, SeesEveryAttempt, ExamAssumption
<1>3. \A x \in Closing(w) : status[x] # "none"
  BY DEF Closing, IInv, HoldsAttempt
<1>4. /\ AttemptsOf(s)' = AttemptsOf(s) \cup {r} /\ r \notin AttemptsOf(s)
      /\ \A t \in Students \ {s} : AttemptsOf(t)' = AttemptsOf(t) /\ r \notin AttemptsOf(t)
  <2>1. \A x \in Rows : /\ (status'[x] # "none") = (x = r \/ status[x] # "none")
                        /\ owner'[x] = IF x = r THEN s ELSE owner[x]
    BY <1>1, <1>3 DEF IInv, TypeOK, RowsOK, ResultsOK
  <2> QED BY <1>1, <2>1 DEF AttemptsOf
<1>5. count \in Nat /\ Cardinality(AttemptsOf(s))' = count + 1
  <2>1. AttemptsOf(s) \subseteq Rows
    BY DEF AttemptsOf
  <2>2. IsFiniteSet(AttemptsOf(s)) /\ count \in Nat
    BY <2>1, RowCount
  <2>3. Cardinality(AttemptsOf(s) \cup {r}) = count + 1
    BY <1>4, <2>2, FS_AddElement
  <2> QED BY <1>4, <2>2, <2>3
<1>6. \A x \in Rows : x # r => number'[x] = number[x]
  BY <1>1 DEF IInv, TypeOK, RowsOK
<1>7. number'[r] = count + 1
  BY <1>1 DEF IInv, TypeOK, RowsOK
<1>8. ASSUME NEW t \in Students PROVE Numbered(t)'
  <2>0. Numbered(t) /\ AttemptsOf(t) \subseteq Rows
    BY DEF AllNumbered, AttemptsOf
  <2>1. CASE t # s
    <3>1. AttemptsOf(t)' = AttemptsOf(t) /\ \A x \in AttemptsOf(t) : number'[x] = number[x]
      BY <1>4, <1>6, <2>0, <2>1
    <3> QED BY <2>0, <3>1 DEF Numbered
  <2>2. CASE t = s
    <3>1. \A x \in AttemptsOf(s) : number'[x] = number[x] /\ number[x] \in 1..count
      BY <1>4, <1>6, <2>0, <2>2 DEF Numbered
    <3> HIDE DEF count
    <3>2. count + 1 <= MaxAttempts
      BY <1>2, <1>5
    <3>3. AttemptsOf(s)' = AttemptsOf(s) \cup {r} /\ Cardinality(AttemptsOf(s)') = count + 1
      BY <1>4, <1>5
    <3>4. \A r1, r2 \in AttemptsOf(s) : number[r1] = number[r2] => r1 = r2
      BY <2>0, <2>2 DEF Numbered
    <3>5. \A x \in AttemptsOf(s)' : number'[x] \in 1..(count + 1)
      BY <1>5, <1>7, <3>1, <3>3
    <3>6. \A r1, r2 \in AttemptsOf(s)' : number'[r1] = number'[r2] => r1 = r2
      BY <1>5, <1>7, <3>1, <3>3, <3>4
    <3> QED BY <2>2, <3>2, <3>3, <3>5, <3>6 DEF Numbered
  <2> QED BY <2>1, <2>2
<1>9. \A x \in Rows : status'[x] # "none" => owner'[x] \in Students
  BY <1>1, <1>3 DEF AllNumbered, IInv, TypeOK, RowsOK, ResultsOK
<1> QED BY <1>8, <1>9 DEF AllNumbered

LEMMA NextNumbered == IInv /\ AllNumbered /\ [Next]_vars => AllNumbered'
<1> SUFFICES ASSUME IInv, AllNumbered, [Next]_vars PROVE AllNumbered'
  OBVIOUS
<1>1. ASSUME UNCHANGED <<owner, number>>,
             \A r \in Rows : status'[r] = "none" <=> status[r] = "none"
      PROVE  AllNumbered'
  <2>1. \A s : AttemptsOf(s)' = AttemptsOf(s)
    BY <1>1 DEF AttemptsOf
  <2> QED BY <1>1, <2>1 DEF AllNumbered, Numbered
<1>2. CASE Tick \/ UNCHANGED vars
  BY <1>1, <1>2 DEF Tick, vars, rowVars, resultVars
<1>3. ASSUME NEW w \in Workers, RefuseStart(w) \/ CommitFinalization(w) PROVE AllNumbered'
  <2>1. \A r \in Rows : r \in Closing(w) => status[r] # "none"
    BY DEF Closing, IInv, HoldsAttempt
  <2>2. /\ status' = [r \in Rows |-> IF r \in Closing(w) THEN "submitted" ELSE status[r]]
        /\ UNCHANGED <<owner, number>>
    BY <1>3 DEF RefuseStart, CommitFinalization, rowVars
  <2> QED BY <1>1, <2>1, <2>2
<1>4. ASSUME NEW w \in Workers, CreateAttempt(w) PROVE AllNumbered'
  BY <1>4, CreateNumbered
<1>5. ASSUME NEW w \in Workers, Quiet(w) PROVE AllNumbered'
  <2>1. UNCHANGED <<owner, number, status>>
    BY <1>5, QuietStep
  <2> QED BY <1>1, <2>1
<1> QED BY <1>2, <1>3, <1>4, <1>5 DEF Next, Act, Quiet

\* However many starts of a student run at once, the attempts carry different
\* numbers and never exceed the limit of the exam.
THEOREM AttemptLimitHolds == Spec => []AttemptLimit
<1>1. IInv /\ AllNumbered => AttemptLimit
  <2> SUFFICES ASSUME IInv, AllNumbered,
                      NEW r1 \in Rows, NEW r2 \in Rows,
                      status[r1] # "none", status[r2] # "none", owner[r1] = owner[r2]
               PROVE  number[r1] \in 1..MaxAttempts /\ (r1 # r2 => number[r1] # number[r2])
    BY DEF AttemptLimit
  <2> DEFINE s == owner[r1]
  <2>1. s \in Students /\ r1 \in AttemptsOf(s) /\ r2 \in AttemptsOf(s)
    BY DEF AllNumbered, AttemptsOf
  <2>2. Numbered(s)
    BY <2>1 DEF AllNumbered
  <2>3. Cardinality(AttemptsOf(s)) \in Nat /\ MaxAttempts \in Nat
    BY RowCount, ExamAssumption DEF AttemptsOf, ExamAssumption
  <2> QED BY <2>1, <2>2, <2>3 DEF Numbered
<1>2. Spec => []AllNumbered
  BY InitNumbered, NextNumbered, InvariantHolds, PTL DEF Spec
<1> QED BY <1>1, <1>2, InvariantHolds, PTL

-----------------------------------------------------------------------------
(* Lock waits among finalizations *)

\* A finalization outside a start waits for another one only at its attempt's
\* row or at the Test.
LEMMA WaitsForFinalization ==
  ASSUME IInv, AllNumbered, NEW w \in Workers, NEW v \in Blockers(w),
         pc[w] \in FinalizePcs, pc[v] \in FinalizePcs, ~Nested(v)
  PROVE  \/ pc[w] = "fin_lock" /\ attemptLock[target[w]] = v
         \/ pc[w] = "fin_rank" /\ testLock = v
<1> DEFINE s == owner[target[w]]
<1>1. v \in Workers /\ v # w /\ LocksByPhase(v) /\ HoldsAttempt(v) /\ HoldsAttempt(w)
  <2> DEFINE recording == [q \in Bank |-> RecordBlockers(w, s, q)]
             sharing == [q \in Bank |-> ShareBlockers(w, q)]
  <2>1. \A q \in wanted[w] : /\ recording[q] \subseteq Workers \ {w}
                             /\ sharing[q] \subseteq Workers \ {w}
    BY DEF IInv, TypeOK, RequestsOK, RecordBlockers, ShareBlockers
  <2>2. WaitsAt(w, recording) \subseteq Workers \ {w} /\ WaitsAt(w, sharing) \subseteq Workers \ {w}
    <3> HIDE DEF recording, sharing
    <3> QED BY <2>1 DEF WaitsAt
  <2>3. v \in Workers /\ v # w
    BY <2>2 DEF Blockers, FinalizePcs
  <2> QED BY <2>3 DEF IInv, LockPhases
<1>2. \A q \in Bank : v \notin ShareBlockers(w, q)
  BY <1>1 DEF ShareBlockers, Queued, LocksByPhase, FinalizePcs
<1>3. CASE pc[w] = "fin_record"
  <2>1. PICK q \in wanted[w] : v \in RecordBlockers(w, s, q)
    BY <1>3 DEF Blockers, FinalizePcs, WaitsAt, IInv, TypeOK, RequestsOK
  <2>2. q \in Bank /\ target[w] \in Rows /\ status[target[w]] = "in_progress" /\ attemptLock[target[w]] = w
    BY <1>1, <1>3, <2>1 DEF IInv, TypeOK, RequestsOK, HoldsAttempt, FinalizePcs
  <2>3. s \in Students
    BY <2>2 DEF AllNumbered
  <2>4. CASE userX[s] = v
    BY <1>1, <2>3, <2>4, ExamAssumption DEF LocksByPhase, Nested, ExamAssumption
  <2>5. CASE history[s][q] = v
    <3>1. s = owner[target[v]] /\ pc[v] # "fin_lock"
      BY <1>1, <2>2, <2>3, <2>5 DEF LocksByPhase, FinalizePcs
    <3>2. target[v] \in Rows /\ status[target[v]] = "in_progress" /\ attemptLock[target[v]] = v
      BY <1>1, <3>1 DEF HoldsAttempt
    <3>3. target[v] = target[w]
      BY <2>2, <3>1, <3>2 DEF IInv, OneLiveAttempt
    <3> QED BY <1>1, <2>2, <3>2, <3>3
  <2> QED BY <1>2, <2>1, <2>2, <2>4, <2>5 DEF RecordBlockers
<1>4. CASE pc[w] = "fin_insert"
  BY <1>2, <1>4 DEF Blockers, FinalizePcs, WaitsAt, IInv, TypeOK, RequestsOK
<1>5. CASE pc[w] = "fin_rank"
  BY <1>1, <1>5 DEF Blockers, FinalizePcs, LocksByPhase
<1>6. CASE pc[w] = "fin_lock"
  BY <1>6 DEF Blockers
<1> QED BY <1>3, <1>4, <1>5, <1>6 DEF Blockers, FinalizePcs

\* Submissions, sweeps and page views take their attempt, then their student's
\* answers, then the Test: whatever their number, they are never deadlocked
\* among themselves.
THEOREM FinalizationsDoNotDeadlockHolds == Spec => []FinalizationsDoNotDeadlock
<1>1. ASSUME IInv, AllNumbered PROVE FinalizationsDoNotDeadlock
  <2> SUFFICES ASSUME NEW W \in (SUBSET Workers) \ {{}},
                      \A w \in W : pc[w] \in FinalizePcs /\ ~Nested(w),
                      ~ \E w \in W : Blockers(w) \cap W = {}
               PROVE  FALSE
    BY Zenon DEF FinalizationsDoNotDeadlock
  <2>1. ASSUME NEW w \in W
        PROVE  \E v \in W : \/ pc[w] = "fin_lock" /\ attemptLock[target[w]] = v
                            \/ pc[w] = "fin_rank" /\ testLock = v
    <3>1. PICK v \in W : v \in Blockers(w)
      OBVIOUS
    <3> QED BY <1>1, <3>1, WaitsForFinalization
  <2>2. \A w \in W : pc[w] # "fin_rank"
    <3> SUFFICES ASSUME NEW w \in W, pc[w] = "fin_rank" PROVE FALSE
      OBVIOUS
    <3>1. PICK v \in W : testLock = v
      BY <2>1
    <3>2. Finalized(v)
      BY <1>1, <3>1 DEF IInv, LockPhases, LocksByPhase, FinalizePcs
    <3>3. pc[v] \notin {"fin_lock", "fin_rank"}
      BY <1>1, <3>2 DEF IInv, HoldsTest
    <3> QED BY <2>1, <3>3
  <2>3. \A w \in W : pc[w] # "fin_lock"
    <3> SUFFICES ASSUME NEW w \in W, pc[w] = "fin_lock" PROVE FALSE
      OBVIOUS
    <3>1. PICK v \in W : attemptLock[target[w]] = v
      BY <2>1
    <3>2. target[w] \in Rows
      BY <1>1 DEF IInv, TypeOK, RequestsOK, FinalizePcs
    <3>3. pc[v] # "fin_lock"
      BY <1>1, <3>1, <3>2 DEF IInv, LockPhases, LocksByPhase
    <3> QED BY <2>1, <2>2, <3>3
  <2>4. W # {}
    OBVIOUS
  <2> QED BY <2>1, <2>2, <2>3, <2>4
<1>2. Spec => []AllNumbered
  BY InitNumbered, NextNumbered, InvariantHolds, PTL DEF Spec
<1> QED BY <1>1, <1>2, InvariantHolds, PTL
=============================================================================
