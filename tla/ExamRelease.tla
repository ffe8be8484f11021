---------------------------- MODULE ExamRelease -----------------------------
(***************************************************************************)
(* When the solutions of an exam are shown, and who may still sit it.      *)
(* One exam (Test) with a window of its own or with sessions that          *)
(* administrators add, edit and cancel; the first reschedule adopts the    *)
(* exam: it turns the exam's own window into a session and moves the       *)
(* attempts there.  Solutions are released by the schedule or by hand, to  *)
(* students who submitted and, for a Grand Test, to those who missed it.   *)
(*                                                                         *)
(* No transaction spans a request, except the reschedule, which locks the  *)
(* Test row, and the insertion of an attempt, which locks the student's.   *)
(* A start reads the session, may save its refreshed status, and inserts   *)
(* the attempt later; a form is read, checked and later saved with every   *)
(* column it read.  Which student may open the exam at all is the business *)
(* of StudentAccess, the locks and the score that of ExamAttempt.          *)
(***************************************************************************)
EXTENDS Integers, FiniteSets

CONSTANTS
    Students,
    Attempts,       \* identities of TestAttempt rows
    Sessions,       \* identities of ExamSession rows
    NoStudent,
    NoSession,
    NoTime,
    NoForm,
    Duration,       \* Test.duration_minutes
    MaxAttempts,    \* max_attempts of the exam and its sessions
    ReviewDays,     \* Test.review_duration_days, NoTime if unlimited
    MaxTime,        \* bound: the clock
    MaxEdits        \* bound: what administrators do

ASSUME ReleaseAssumption ==
    /\ NoStudent \notin Students /\ NoSession \notin Sessions
    /\ NoTime \notin Nat
    /\ Duration \in Nat \ {0} /\ MaxAttempts \in Nat \ {0}
    /\ ReviewDays \in Nat \cup {NoTime}
    /\ MaxTime \in Nat /\ MaxEdits \in Nat

VARIABLES
    now,
    exam,      \* the Test row
    session,   \* session[s]: an ExamSession row
    attempt,   \* attempt[a]: a TestAttempt row
    starting,  \* starting[u]: where a start of student u is
    form,      \* the row an administrator's form has read
    edits,
    shown,     \* history: shown[u], the windows whose solutions u has seen
    reopened   \* history: windows an administrator closed later than they
               \* were to close, or released by hand

releaseVars == <<now, exam, session, attempt, starting, form, edits, shown, reopened>>

Time == 0 .. MaxTime
\* What an attempt was made in: a session, or the exam itself.
Windows == Sessions \cup {NoSession}

\* registration_open is scheduled here; nothing creates a draft session.
Statuses == {"none", "scheduled", "live", "completed", "cancelled"}

ExamRow == [kind: {"grand", "daily", "mock"}, manual: BOOLEAN, draft: BOOLEAN,
            adopted: BOOLEAN, opens: Time \cup {NoTime},
            closes: Time \cup {NoTime}, released: BOOLEAN]
SessionRow == [status: Statuses, opens: Nat, closes: Nat, released: BOOLEAN]
AttemptRow == [owner: Students \cup {NoStudent}, window: Windows,
               status: {"none", "in_progress", "submitted"}, start: Time]

ReleaseTypeOK ==
    /\ now \in Time /\ edits \in 0 .. MaxEdits
    /\ exam \in ExamRow
    /\ session \in [Sessions -> SessionRow]
    /\ attempt \in [Attempts -> AttemptRow]
    /\ starting \in [Students ->
            [step: {"idle", "refresh", "checked"}, window: Windows,
             row: SessionRow]]
    /\ form = NoForm \/ form \in [of: Windows, row: SessionRow \cup ExamRow]
    /\ shown \in [Students -> SUBSET Windows]
    /\ reopened \subseteq Windows

-----------------------------------------------------------------------------
(* The rules that every request derives from the rows and the clock *)

NoRow == [status |-> "none", opens |-> 0, closes |-> 0, released |-> FALSE]
Idle == [step |-> "idle", window |-> NoSession, row |-> NoRow]

Existing == {s \in Sessions : session[s].status # "none"}
Spans == {w \in Time \X Time : w[1] < w[2] /\ w[2] < MaxTime}

\* The session that governs the exam: the one that starts last, if any.
Governing ==
    LET open == {s \in Existing : session[s].status # "cancelled"}
    IN  IF open = {} THEN {NoSession}
        ELSE {s \in open : \A t \in open : session[t].opens <= session[s].opens}

Effective(row) ==
    CASE row.status \in {"cancelled", "completed"} -> row.status
      [] OTHER -> IF now > row.closes THEN "completed"
                  ELSE IF now >= row.opens THEN "live" ELSE "scheduled"

\* Wrong: only a session cuts an attempt short.
DeadlineOfSession(a) ==
    LET personal == attempt[a].start + Duration
        closes == IF attempt[a].window = NoSession THEN NoTime
                  ELSE session[attempt[a].window].closes
    IN  IF closes # NoTime /\ closes < personal THEN closes ELSE personal

\* The end of an attempt: its own duration, or the end of its window.
Deadline(a) ==
    LET personal == attempt[a].start + Duration
        closes == IF attempt[a].window # NoSession
                  THEN session[attempt[a].window].closes
                  ELSE IF exam.kind \in {"grand", "daily"} THEN exam.closes
                  ELSE NoTime
    IN  IF closes # NoTime /\ closes < personal THEN closes ELSE personal

Expired(a) == attempt[a].status = "in_progress" /\ now >= Deadline(a)

\* Whether the next answer for the attempt is taken.
CanAnswer(a) == attempt[a].status = "in_progress" /\ ~Expired(a)

\* When the review of a Grand Test opens, given the governing session g.
ReviewOpens(w, g) ==
    IF w # NoSession THEN session[w].closes
    ELSE IF g # NoSession THEN session[g].closes ELSE exam.closes

\* Wrong: the end of the exam is taken for the last moment of the review.
SolutionsTooSoon(a, g) ==
    LET w == attempt[a].window IN
    /\ attempt[a].status = "submitted"
    /\ IF exam.manual
       THEN IF w = NoSession THEN exam.released ELSE session[w].released
       ELSE CASE exam.kind = "grand" -> TRUE
              [] OTHER -> w # NoSession => Effective(session[w]) = "completed"

\* can_view_solutions
Solutions(a, g) ==
    LET w == attempt[a].window
        opens == ReviewOpens(w, g)
    IN
    /\ attempt[a].status = "submitted"
    /\ IF exam.manual
       THEN IF w = NoSession THEN exam.released ELSE session[w].released
       ELSE CASE exam.kind = "grand" -> (opens # NoTime => now >= opens)
              [] OTHER -> w # NoSession => Effective(session[w]) = "completed"

\* can_view_detailed_review, and its like for a missed Grand Test.
ReviewInTime(w, g) ==
    exam.kind = "grand" /\ ReviewOpens(w, g) # NoTime /\ ReviewDays # NoTime
        => now < ReviewOpens(w, g) + ReviewDays

AttemptsIn(u, w) == {a \in Attempts : attempt[a].owner = u /\ attempt[a].window = w}

\* grand_test_participation_status = "missed"
Missed(u, g) ==
    /\ AttemptsIn(u, g) = {}
    /\ IF g # NoSession THEN Effective(session[g]) = "completed"
       ELSE NoTime \notin {exam.opens, exam.closes} /\ now > exam.closes

\* The window closes at a time known to everybody: a session's does, and
\* that of a Grand Test that was never rescheduled.  (For properties.)
Closing(w) ==
    \/ w # NoSession
    \/ exam.kind = "grand" /\ exam.closes # NoTime /\ Existing = {}

-----------------------------------------------------------------------------
(* Students *)

SessionAdmits(row) ==
    row.status # "cancelled" /\ row.opens <= now /\ now <= row.closes

\* The window of an exam without sessions; a student who has an attempt
\* passes it when it is closed, too.
ExamAdmits(u) ==
    exam.kind # "mock" /\ NoTime \notin {exam.opens, exam.closes} =>
        /\ now >= exam.opens
        /\ \/ IF exam.kind = "daily" THEN now < exam.closes ELSE now <= exam.closes
           \/ AttemptsIn(u, NoSession) # {}

\* A start by way of a session or of the exam, up to the lock on the user.
\* The request keeps what the checks that remain read of the session row.
BeginStart(u) ==
    /\ starting[u] = Idle /\ ~exam.draft
    /\ \E w \in Existing \cup Governing :
          IF w = NoSession
          THEN /\ ExamAdmits(u)
               /\ starting' = [starting EXCEPT ![u].step = "checked"]
          ELSE LET row == [session[w] EXCEPT !.status = Effective(session[w]),
                                             !.released = FALSE]
                   changed == row.status # session[w].status
               IN  /\ changed \/ SessionAdmits(row)
                   /\ starting' = [starting EXCEPT ![u] =
                        IF changed
                        THEN [step |-> "refresh", window |-> w, row |-> row]
                        ELSE [step |-> "checked", window |-> w, row |-> NoRow]]
    /\ UNCHANGED <<now, exam, session, attempt, form, edits, shown, reopened>>

\* ExamSession.refresh_status saves the status; the checks follow.
SaveStatus(u) ==
    LET r == starting[u] IN
    /\ r.step = "refresh"
    /\ session' = [session EXCEPT ![r.window].status = r.row.status]
    /\ starting' = [starting EXCEPT ![u] =
            IF SessionAdmits(r.row)
            THEN [r EXCEPT !.step = "checked", !.row = NoRow] ELSE Idle]
    /\ UNCHANGED <<now, exam, attempt, form, edits, shown, reopened>>

\* Under the lock on the student: the attempt in progress is resumed, or
\* submitted if it has expired; a new one is inserted if there is room.
InsertAttempt(u) ==
    LET w == starting[u].window
        mine == AttemptsIn(u, w)
        resumed == {a \in mine : CanAnswer(a)}
        closed == [a \in Attempts |->
                     IF a \in mine /\ Expired(a) /\ resumed = {}
                     THEN [attempt[a] EXCEPT !.status = "submitted"]
                     ELSE attempt[a]]
    IN
    /\ starting[u].step = "checked"
    /\ starting' = [starting EXCEPT ![u] = Idle]
    /\ IF resumed = {} /\ Cardinality(mine) < MaxAttempts
       THEN \E a \in Attempts :
              /\ attempt[a].status = "none"
              /\ attempt' = [closed EXCEPT ![a] =
                    [owner |-> u, window |-> w, status |-> "in_progress",
                     start |-> now]]
       ELSE attempt' = closed
    /\ UNCHANGED <<now, exam, session, form, edits, shown, reopened>>

\* A submission, by the student or by the server.
Finalize(a) ==
    /\ attempt[a].status = "in_progress"
    /\ attempt' = [attempt EXCEPT ![a].status = "submitted"]
    /\ UNCHANGED <<now, exam, session, starting, form, edits, shown, reopened>>

\* Student u sees the solutions of a window the properties are about.
Show(u, w) ==
    shown' = IF Closing(w) /\ w \notin reopened
             THEN [shown EXCEPT ![u] = @ \cup {w}] ELSE shown

\* The result page of a submitted attempt, when it includes the solutions.
ViewResult(a) ==
    LET w == attempt[a].window IN
    /\ \E g \in Governing : Solutions(a, g) /\ ReviewInTime(w, g)
    /\ Show(attempt[a].owner, w)
    /\ UNCHANGED <<now, exam, session, attempt, starting, form, edits, reopened>>

\* The review of a Grand Test that the student has missed.
ViewMissed(u) ==
    /\ exam.kind = "grand"
    /\ \E g \in Governing :
          /\ Missed(u, g) /\ ReviewInTime(NoSession, g)
          /\ Show(u, g)
    /\ UNCHANGED <<now, exam, session, attempt, starting, form, edits, reopened>>

-----------------------------------------------------------------------------
(* Administrators *)

AdminActs == edits < MaxEdits /\ edits' = edits + 1

\* Wrong: the session is given the duration instead of the exam's window.
BackfilledByDuration ==
    LET opens == IF exam.opens # NoTime THEN exam.opens ELSE 0
        closes == opens + Duration
    IN  [opens |-> opens, closes |-> closes, released |-> FALSE,
         status |-> IF closes < now THEN "completed"
                    ELSE IF opens <= now THEN "live" ELSE "scheduled"]

\* The session that stands for the window the exam had so far.
Backfilled ==
    LET opens == IF exam.opens # NoTime THEN exam.opens ELSE 0
        closes == IF exam.closes # NoTime THEN exam.closes ELSE opens + Duration
    IN  [opens |-> opens, closes |-> closes, released |-> FALSE,
         status |-> IF closes < now THEN "completed"
                    ELSE IF opens <= now THEN "live" ELSE "scheduled"]

\* adopt_test_into_template: the exam's window becomes session s, the
\* attempts without a session move there, and the exam is hidden.
Adopt(s) ==
    /\ ~exam.adopted /\ session[s].status = "none"
    /\ exam' = [exam EXCEPT !.adopted = TRUE, !.draft = TRUE]
    /\ attempt' = [a \in Attempts |->
            IF attempt[a].status # "none" /\ attempt[a].window = NoSession
            THEN [attempt[a] EXCEPT !.window = s] ELSE attempt[a]]
    /\ LET Moved(ws) == IF NoSession \in ws /\ Closing(NoSession)
                       THEN (ws \ {NoSession}) \cup {s} ELSE ws
       IN  /\ shown' = [u \in Students |-> Moved(shown[u])]
           /\ reopened' = Moved(reopened)

\* create_reschedule_session, in one transaction under the Test row: a new
\* session of this exam, or of a copy of it (new version), which is another
\* exam.  The status of the new session is scheduled.
Reschedule ==
    /\ AdminActs
    /\ \E s, first \in Sessions, span \in Spans, copy \in BOOLEAN :
          /\ span[1] >= now /\ s # first /\ session[s].status = "none"
          /\ \/ Adopt(first)
             \/ exam.adopted /\ UNCHANGED <<exam, attempt, shown, reopened>>
          /\ session' = [t \in Sessions |->
                CASE t = first /\ ~exam.adopted -> Backfilled
                  [] t = s /\ ~copy ->
                        [NoRow EXCEPT !.status = "scheduled",
                                      !.opens = span[1], !.closes = span[2]]
                  [] OTHER -> session[t]]
    /\ UNCHANGED <<now, starting, form>>

\* ExamSessionViewSet.cancel looks at the saved status.
Cancel(s) ==
    /\ AdminActs
    /\ session[s].status \in {"scheduled", "live"}
    /\ session' = [session EXCEPT ![s].status = "cancelled"]
    /\ UNCHANGED <<now, exam, attempt, starting, form, shown, reopened>>

\* A session is released by hand; the exam itself, for attempts without one.
ReleaseSolutions(w) ==
    /\ AdminActs /\ exam.manual
    /\ IF w = NoSession
       THEN /\ ~exam.released /\ exam' = [exam EXCEPT !.released = TRUE]
            /\ UNCHANGED session
       ELSE /\ w \in Existing /\ ~session[w].released
            /\ session' = [session EXCEPT ![w].released = TRUE]
            /\ UNCHANGED exam
    /\ reopened' = reopened \cup {w}
    /\ UNCHANGED <<now, attempt, starting, form, shown>>

\* The check of perform_update.
Editable(s) ==
    /\ session[s].status # "completed"
    /\ \A a \in Attempts : ~(attempt[a].window = s /\ attempt[a].status = "submitted")

BeginEditSession(s) ==
    /\ AdminActs
    /\ form = NoForm /\ s \in Existing /\ Editable(s)
    /\ form' = [of |-> s, row |-> session[s]]
    /\ UNCHANGED <<now, exam, session, attempt, starting, shown, reopened>>

\* Every column is written, the window as the administrator typed it.
SaveSession ==
    /\ form # NoForm /\ form.of # NoSession
    /\ \E span \in Spans :
          /\ session' = [session EXCEPT ![form.of] =
                [form.row EXCEPT !.opens = span[1], !.closes = span[2]]]
          /\ reopened' = IF span[2] > session[form.of].closes
                         THEN reopened \cup {form.of} ELSE reopened
    /\ form' = NoForm
    /\ UNCHANGED <<now, exam, attempt, starting, edits, shown>>

BeginEditExam ==
    /\ AdminActs
    /\ form = NoForm
    /\ form' = [of |-> NoSession, row |-> exam]
    /\ UNCHANGED <<now, exam, session, attempt, starting, shown, reopened>>

\* The same for the exam: publish or hide it, move its window, or change
\* how solutions are released.  Nothing is checked.
SaveExam ==
    /\ form # NoForm /\ form.of = NoSession
    /\ \/ \E b \in BOOLEAN : exam' = [form.row EXCEPT !.draft = b]
       \/ \E b \in BOOLEAN : exam' = [form.row EXCEPT !.manual = b]
       \/ \E span \in Spans :
            exam' = [form.row EXCEPT !.opens = span[1], !.closes = span[2]]
    /\ reopened' = IF exam'.closes # exam.closes
                   THEN reopened \cup {NoSession} ELSE reopened
    /\ form' = NoForm
    /\ UNCHANGED <<now, session, attempt, starting, edits, shown>>

Tick ==
    /\ now < MaxTime /\ now' = now + 1
    /\ UNCHANGED <<exam, session, attempt, starting, form, edits, shown, reopened>>

-----------------------------------------------------------------------------
\* An exam as it was created, or adopted (with a copy) and published.
ReleaseInit ==
    /\ now = 0 /\ edits = 0 /\ form = NoForm
    /\ exam \in {e \in ExamRow :
            /\ ~e.draft /\ ~e.released
            /\ <<e.opens, e.closes>> \in Spans \cup {<<NoTime, NoTime>>}}
    /\ \E first \in Sessions :
          session = [s \in Sessions |->
                        IF s = first /\ exam.adopted THEN Backfilled ELSE NoRow]
    /\ attempt = [a \in Attempts |->
            [owner |-> NoStudent, window |-> NoSession, status |-> "none", start |-> 0]]
    /\ starting = [u \in Students |-> Idle]
    /\ shown = [u \in Students |-> {}]
    /\ reopened = {}

ReleaseNext ==
    \/ \E u \in Students :
          BeginStart(u) \/ SaveStatus(u) \/ InsertAttempt(u) \/ ViewMissed(u)
    \/ \E a \in Attempts : Finalize(a) \/ ViewResult(a)
    \/ \E s \in Sessions : Cancel(s) \/ BeginEditSession(s)
    \/ \E w \in Windows : ReleaseSolutions(w)
    \/ Reschedule \/ SaveSession \/ BeginEditExam \/ SaveExam
    \/ Tick

ReleaseSpec == ReleaseInit /\ [][ReleaseNext]_releaseVars

-----------------------------------------------------------------------------
(* Properties *)

\* Solutions that the schedule releases are released when nobody can answer
\* in the same window any more: the two ends of a window, the one of
\* can_view_solutions and the one of is_attempt_expired, are the same
\* moment, in a session, in the window of a Grand Test, after an adoption
\* and whatever administrators edit; except that a refreshed status which
\* is saved after an edit can end a session that was put off.
AnswersBeforeSolutions ==
    \A a, b \in Attempts :
        LET w == attempt[a].window IN
        /\ attempt[b].window = w /\ Closing(w) /\ ~exam.manual
        /\ exam.kind = "grand" \/ w \notin reopened
        /\ \E g \in Governing : Solutions(a, g)
        => ~CanAnswer(b)

\* A student who has seen the solutions of a window, with a result or as one
\* who missed it, never sits an attempt in that window afterwards, although
\* a start checks the window before it inserts the attempt; unless an
\* administrator has moved the end of the window or released it by hand.
NeverSitsAfterSolutions ==
    \A b \in Attempts :
        LET w == attempt[b].window IN
        CanAnswer(b) /\ Closing(w) /\ w \notin reopened
        => w \notin shown[attempt[b].owner]

\* The adoption of an exam by its first reschedule "never touches" the
\* attempts it moves: with a scheduled Grand or Daily Test their deadlines
\* stay, and of a Grand Test the solutions that were released by the
\* schedule.
AdoptionKeepsRights ==
    [][ (~exam.adopted /\ exam'.adopted /\ exam.closes # NoTime
         /\ exam.kind \in {"grand", "daily"}) =>
          \A a \in Attempts :
             /\ attempt[a].status = "in_progress" => Deadline(a)' = Deadline(a)
             /\ /\ exam.kind = "grand" /\ ~exam.manual
                /\ attempt[a].window = NoSession /\ Governing = {NoSession}
                /\ Solutions(a, NoSession)
                => \E g \in Governing' : Solutions(a, g)' ]_releaseVars

-----------------------------------------------------------------------------
(* The inductive invariant behind them *)

\* What is over or released in a window before it was to close is on record.
\* The exam's own window counts until there is a session.
WindowsOK ==
    /\ \A s \in Sessions \ reopened :
          /\ session[s].status = "completed" => now > session[s].closes
          /\ ~session[s].released
    /\ exam.released => NoSession \in reopened \/ Existing # {}
    /\ exam.adopted => Existing # {}

\* Attempts and starts are in sessions there are; what a start is about to
\* save was so when it looked.
StartsOK ==
    /\ \A a \in Attempts :
          /\ attempt[a].window \in Existing \cup {NoSession}
          /\ attempt[a].status # "none" => attempt[a].owner \in Students
    /\ \A u \in Students :
          LET r == starting[u] IN
          /\ r.window \in Existing \cup {NoSession}
          /\ r.step = "refresh" =>
                /\ r.window # NoSession /\ r.row.status # "none"
                /\ r.row.status = "completed" /\ r.window \notin reopened =>
                      now > session[r.window].closes

\* What a form is about to write back.
FormOK ==
    form # NoForm =>
        LET row == form.row IN
        IF form.of = NoSession
        THEN /\ row \in ExamRow /\ row.kind = exam.kind /\ row.closes = exam.closes
             /\ row.adopted => exam.adopted
             /\ row.released => NoSession \in reopened \/ Existing # {}
        ELSE /\ row \in SessionRow /\ form.of \in Existing
             /\ row.status \notin {"none", "completed"}
             /\ row.released => form.of \in reopened

\* The end of a window that students have seen solutions of.
End(w) == IF w = NoSession THEN exam.closes ELSE session[w].closes

ShownOK ==
    \A u \in Students : \A w \in shown[u] :
        /\ w \in Existing \/ (w = NoSession /\ Closing(NoSession))
        /\ w \notin reopened => now >= End(w)

ReleaseInv == ReleaseTypeOK /\ WindowsOK /\ StartsOK /\ FormOK /\ ShownOK

=============================================================================
