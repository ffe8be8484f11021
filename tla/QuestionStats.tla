---------------------------- MODULE QuestionStats ----------------------------
(***************************************************************************)
(* The counters shown beside a question: how many students have answered   *)
(* it, how many of them are right, how many chose each option.  A student  *)
(* has one current option per question (QuestionAttempt.selected_option);  *)
(* every change of it yields a delta.  Practice applies its delta in the   *)
(* transaction of the answer.  A finalized exam sends its deltas as one    *)
(* task through Cloud Tasks, which delivers at least once and again after  *)
(* a failure.  The counters are unsigned columns: an update that would     *)
(* take one below zero fails and rolls its whole transaction back.         *)
(***************************************************************************)
EXTENDS Integers, FiniteSets

CONSTANTS
    Students,
    Questions,
    Options,        \* positions of the options of a question
    Right,          \* the positions that carry the right answer
    Attempts,       \* exam attempts, each finalized once at most
    Owner,          \* Owner[a] is the student of attempt a
    NoOption,       \* selected_option is NULL
    NoDraft,        \* no editor holds a copy of the question
    LossyEnqueue,   \* TRUE: creating the task may fail after the commit
    MaxAnswers,     \* bound: practice answers
    MaxEdits        \* bound: edits begun by administrators

ASSUME StatsAssumption ==
    /\ IsFiniteSet(Students) /\ IsFiniteSet(Attempts)
    /\ Options # {} /\ Right \subseteq Options /\ NoOption \notin Options
    /\ Owner \in [Attempts -> Students]
    /\ LossyEnqueue \in BOOLEAN
    /\ MaxAnswers \in Nat /\ MaxEdits \in Nat

VARIABLES
    vote,       \* vote[s][q]: QuestionAttempt.selected_option
    total,      \* Question.total_attempts
    correct,    \* Question.correct_attempts
    picks,      \* picks[q][o]: Option.pick_count
    edition,    \* how often the option rows of q were deleted and made anew
    finalized,  \* attempts that have left in_progress
    changes,    \* changes[a][q]: the change of vote attempt a caused
    queue,      \* attempts whose task Cloud Tasks still holds
    applied,    \* attempts with stats_applied_at set
    draft,      \* draft[q]: what an editor has read of q and will save
    edited,     \* questions some editor has saved
    answers,    \* practice answers so far
    edits       \* edits begun so far

counters == <<total, correct, picks>>
editing == <<edition, draft, edited, edits>>
tasks == <<finalized, changes, queue, applied>>
vars == <<vote, counters, editing, tasks, answers>>

Votes == Options \cup {NoOption}
NoChange == [prev |-> NoOption, new |-> NoOption, edition |-> 0]
Change == [prev : Votes, new : Votes, edition : Nat]
Draft == [total : Nat, correct : Nat, picks : [Options -> Nat]]
-----------------------------------------------------------------------------
(* Deltas (_record_question_result, second half). *)

One(condition) == IF condition THEN 1 ELSE 0

\* A change of vote counts once for the student who had none before,
\* whatever the number of answers.
TotalDelta(c) == One(c.new # NoOption /\ c.prev = NoOption)

CorrectDelta(c) == One(c.new \in Right) - One(c.new # NoOption /\ c.prev \in Right)

\* The rows of an older edition are gone: UPDATE ... WHERE pk = finds none.
OptionDelta(c, q, o) ==
    IF c.edition # edition[q] THEN 0
    ELSE One(c.new = o) - One(c.new # NoOption /\ c.prev = o)

\* Answering with the option already selected, or with none, is no change.
ChangeOf(s, q, o) ==
    IF o = NoOption \/ o = vote[s][q] THEN NoChange
    ELSE [prev |-> vote[s][q], new |-> o, edition |-> edition[q]]

\* Wrong: the previous option keeps the student's vote.
PicksAfterAdding(cs) ==
    [q \in Questions |-> [o \in Options |-> picks[q][o] + One(cs[q].new = o)]]

\* The totals and pick counts once the changes cs (one for each question of
\* qs) are added: the F() updates of _apply_question_stat_delta.
TotalAfter(cs) == [q \in Questions |-> total[q] + TotalDelta(cs[q])]
CorrectAfter(cs) == [q \in Questions |-> correct[q] + CorrectDelta(cs[q])]
PicksAfter(cs) ==
    [q \in Questions |-> [o \in Options |-> picks[q][o] + OptionDelta(cs[q], q, o)]]

\* No unsigned column goes below zero.
Fits(cs) ==
    \A q \in Questions :
        /\ TotalAfter(cs)[q] >= 0 /\ CorrectAfter(cs)[q] >= 0
        /\ \A o \in Options : PicksAfter(cs)[q][o] >= 0

ApplyDeltas(cs) ==
    /\ Fits(cs)
    /\ total' = TotalAfter(cs)
    /\ correct' = CorrectAfter(cs)
    /\ picks' = PicksAfter(cs)
-----------------------------------------------------------------------------
Init ==
    /\ vote = [s \in Students |-> [q \in Questions |-> NoOption]]
    /\ total = [q \in Questions |-> 0] /\ correct = [q \in Questions |-> 0]
    /\ picks = [q \in Questions |-> [o \in Options |-> 0]]
    /\ edition = [q \in Questions |-> 0]
    /\ finalized = {} /\ queue = {} /\ applied = {}
    /\ changes = [a \in Attempts |-> [q \in Questions |-> NoChange]]
    /\ draft = [q \in Questions |-> NoDraft] /\ edited = {}
    /\ answers = 0 /\ edits = 0

\* A practice answer (also a Smart Practice answer): the vote and the
\* counters in one transaction, under the lock of the QuestionAttempt row.
\* When a counter would go below zero the request fails and changes nothing.
Answer(s, q, o) ==
    /\ answers < MaxAnswers
    /\ ApplyDeltas([p \in Questions |-> IF p = q THEN ChangeOf(s, q, o) ELSE NoChange])
    /\ vote' = [vote EXCEPT ![s][q] = o]
    /\ answers' = answers + 1
    /\ UNCHANGED <<editing, tasks>>

\* finalize_attempt: the votes of every answered question in one
\* transaction; after the commit the deltas, if any, become one task.
\* choice[q] is the option answered for q; sent tells whether the task was
\* created (_enqueue_stats_safely swallows the error when it was not).
Finalize(a, choice, sent) ==
    LET s == Owner[a]
        cs == [q \in Questions |-> ChangeOf(s, q, choice[q])]
    IN  /\ a \notin finalized
        /\ sent \/ LossyEnqueue
        /\ finalized' = finalized \cup {a}
        /\ changes' = [changes EXCEPT ![a] = cs]
        /\ vote' = [vote EXCEPT ![s] =
                      [q \in Questions |-> IF choice[q] = NoOption THEN @[q] ELSE choice[q]]]
        /\ queue' = IF sent /\ \E q \in Questions : cs[q] # NoChange
                    THEN queue \cup {a} ELSE queue
        /\ UNCHANGED <<counters, editing, applied, answers>>

\* Wrong: the deltas applied with no look at stats_applied_at.
ApplyTaskUnmarked(a, acked) ==
    /\ a \in queue
    /\ ApplyDeltas(changes[a])
    /\ applied' = applied \cup {a}
    /\ queue' = IF acked THEN queue \ {a} ELSE queue
    /\ UNCHANGED <<vote, editing, finalized, changes, answers>>

\* One delivery of the task of attempt a.  The attempt row is locked and
\* read with stats_applied_at NULL, the deltas and the mark commit together;
\* acked is FALSE when the answer to Cloud Tasks is lost.
ApplyTask(a, acked) ==
    /\ a \in queue \ applied
    /\ ApplyDeltas(changes[a])
    /\ applied' = applied \cup {a}
    /\ queue' = IF acked THEN queue \ {a} ELSE queue
    /\ UNCHANGED <<vote, editing, finalized, changes, answers>>

\* A delivery of a task already applied is acknowledged and does nothing.
SkipTask(a) ==
    /\ a \in queue \cap applied
    /\ queue' = queue \ {a}
    /\ UNCHANGED <<vote, counters, editing, finalized, changes, applied, answers>>

\* An administrator opens a question: the row, with its counters, is read.
BeginEdit(q) ==
    /\ draft[q] = NoDraft /\ edits < MaxEdits
    /\ draft' = [draft EXCEPT ![q] =
                   [total |-> total[q], correct |-> correct[q], picks |-> picks[q]]]
    /\ edits' = edits + 1
    /\ UNCHANGED <<vote, counters, tasks, edition, edited, answers>>

\* QuestionAdminSerializer.update: every column of the row read before is
\* saved, then the option rows are deleted (which nulls the selected_option
\* of every student) and made anew with counters at zero.
SaveEdit(q) ==
    /\ draft[q] # NoDraft
    /\ total' = [total EXCEPT ![q] = draft[q].total]
    /\ correct' = [correct EXCEPT ![q] = draft[q].correct]
    /\ picks' = [picks EXCEPT ![q] = [o \in Options |-> 0]]
    /\ vote' = [s \in Students |-> [vote[s] EXCEPT ![q] = NoOption]]
    /\ edition' = [edition EXCEPT ![q] = @ + 1]
    /\ draft' = [draft EXCEPT ![q] = NoDraft]
    /\ edited' = edited \cup {q}
    /\ UNCHANGED <<tasks, answers, edits>>

\* upload_images: the question row and the option rows in changed are saved
\* as they were read.
SaveImages(q, changed) ==
    /\ draft[q] # NoDraft
    /\ total' = [total EXCEPT ![q] = draft[q].total]
    /\ correct' = [correct EXCEPT ![q] = draft[q].correct]
    /\ picks' = [picks EXCEPT ![q] =
                   [o \in Options |-> IF o \in changed THEN draft[q].picks[o] ELSE @[o]]]
    /\ draft' = [draft EXCEPT ![q] = NoDraft]
    /\ edited' = edited \cup {q}
    /\ UNCHANGED <<vote, edition, tasks, answers, edits>>

Next ==
    \/ \E s \in Students, q \in Questions, o \in Options : Answer(s, q, o)
    \/ \E a \in Attempts, choice \in [Questions -> Votes], sent \in BOOLEAN :
         Finalize(a, choice, sent)
    \/ \E a \in Attempts, acked \in BOOLEAN : ApplyTask(a, acked)
    \/ \E a \in Attempts : SkipTask(a)
    \/ \E q \in Questions : BeginEdit(q) \/ SaveEdit(q)
    \/ \E q \in Questions, changed \in SUBSET Options : SaveImages(q, changed)

Spec == Init /\ [][Next]_vars

\* Cloud Tasks delivers a task until it is acknowledged.
FairSpec ==
    /\ Spec
    /\ \A a \in Attempts : WF_vars(\E acked \in BOOLEAN : ApplyTask(a, acked)) /\ WF_vars(SkipTask(a))
-----------------------------------------------------------------------------
TypeOK ==
    /\ vote \in [Students -> [Questions -> Votes]]
    /\ total \in [Questions -> Nat] /\ correct \in [Questions -> Nat]
    /\ picks \in [Questions -> [Options -> Nat]]
    /\ edition \in [Questions -> Nat]
    /\ changes \in [Attempts -> [Questions -> Change]]
    /\ queue \subseteq finalized /\ finalized \subseteq Attempts /\ applied \subseteq finalized
    /\ draft \in [Questions -> Draft \cup {NoDraft}]
    /\ edited \subseteq Questions /\ answers \in Nat /\ edits \in Nat

\* The attempts whose deltas are not in the counters: on their way or lost.
Uncounted == finalized \ applied

Voters(q, o) == {s \in Students : vote[s][q] = o}
Gained(q, o) == {a \in Uncounted : changes[a][q].new = o}
Dropped(q, o) == {a \in Uncounted : changes[a][q].new # NoOption /\ changes[a][q].prev = o}

\* While nobody has edited the question, the pick count of each option is
\* the number of students who have it selected now, up to the deltas of
\* exams that are still on their way: no answer is counted twice, whatever
\* the order and the number of deliveries ("one vote per distinct student").
PicksExact ==
    \A q \in Questions \ edited, o \in Options :
        picks[q][o] + Cardinality(Gained(q, o)) = Cardinality(Voters(q, o)) + Cardinality(Dropped(q, o))

HasVoted(q) == {s \in Students : vote[s][q] # NoOption}
FirstVotes(q) == {a \in Uncounted : changes[a][q].new # NoOption /\ changes[a][q].prev = NoOption}

\* total_attempts is the number of distinct students with an answer, less
\* the first votes of exams that are still on their way.
TotalExact ==
    \A q \in Questions \ edited :
        total[q] + Cardinality(FirstVotes(q)) = Cardinality(HasVoted(q))

\* Every task Cloud Tasks holds is applied in the end: a failed delivery
\* changes nothing and a later one succeeds.  The code does not keep this
\* (StatsStall.cfg): a delta below zero fails every delivery.
TasksApply == \A a \in Attempts : a \in queue ~> a \in applied
=============================================================================
