-------------------------- MODULE SessionReminders --------------------------
(***************************************************************************)
(* One exam session, edited, cancelled, deleted and started by several     *)
(* requests, and the scheduled reminders one student gets of it: created   *)
(* with the session, replaced when its time changes, cancelled with it,    *)
(* and dispatched by the scheduled sweep.                                  *)
(*                                                                         *)
(* Code: ExamSessionViewSet (tests_app/views.py), ExamSession.refresh_-    *)
(* status, create_reschedule_session (tests_app/exam_versioning.py),       *)
(* notifications/exam_integration.py, services.py and eligibility.py.      *)
(*                                                                         *)
(* The reminders of one session differ only in their key and offset, those *)
(* of different students and sessions never meet.  The in-app delivery is  *)
(* shown here; what a dispatch hands to the queues for e-mail and push is  *)
(* module Delivery.  Requests run outside transactions: every statement    *)
(* commits by itself.                                                      *)
(***************************************************************************)
EXTENDS Integers, FiniteSets

CONSTANTS
    Kinds,          \* the reminders of a session: 24 h, 1 h, 15 min, starting
    Offset,         \* how long before the start each is due
    Length,         \* from the start of a session to its end
    Starts,         \* the start times an administrator may choose
    Workers,        \* server threads
    NoEntry,
    MaxTime, MaxEvents  \* bounds: clock; requests, dead threads, changes of
                        \* access and preference

ASSUME ReminderAssumption ==
    /\ Offset \in [Kinds -> Int] /\ Length \in Nat
    /\ Starts \subseteq Nat /\ Starts # {}
    /\ {MaxTime, MaxEvents} \subseteq Nat
    /\ NoEntry \notin [kind: Kinds, id: Nat]

VARIABLES
    now,
    session,        \* the ExamSession row: status and start
    attempt,        \* the student's attempt in the session
    row,            \* the Notification row under the dedupe key of each kind, with
                    \* its in-app delivery and whether that was on when it was made
    nextId,         \* the next primary key
    access,         \* the student's access to the test: had "always", "lost"
                    \* or had "again" after a loss
    inAppOn,        \* the student's preference for in-app messages
    received,       \* history: the in-app reminders the student got, and when
    calm,           \* history: no request overlapped another or died
    events,         \* history: for the bound
    pc, work        \* the request each worker is running, and what it has read

vars == <<now, session, attempt, row, nextId, access, inAppOn, received, calm, events, pc, work>>

NoRow == [id |-> 0, status |-> "none", start |-> 0, inapp |-> "none", enabled |-> TRUE]
Entries == [kind: Kinds, id: Nat]

\* status, start: of the session in memory; old: the start before an edit;
\* todo: the entries a loop has still to visit; at: the one it is at.
NoWork == [status |-> "none", start |-> 0, old |-> 0, todo |-> {}, at |-> NoEntry]

Due(k, start) == start - Offset[k]
Present(e) == row[e.kind].id = e.id
Scheduled == {k \in Kinds : row[k].status = "scheduled"}
EntriesOf(K) == {[kind |-> k, id |-> row[k].id] : k \in K}
Exists == session.status \notin {"none", "deleted"}

-----------------------------------------------------------------------------
Event == events < MaxEvents /\ events' = events + 1

Enter(w, step, record) ==
    /\ pc[w] = "idle"
    /\ pc' = [pc EXCEPT ![w] = step]
    /\ work' = [work EXCEPT ![w] = record]
    /\ calm' = (calm /\ \A v \in Workers \ {w} : pc[v] = "idle")

Request(w, step, record) ==
    /\ Event
    /\ Enter(w, step, record)
    /\ UNCHANGED <<now, session, attempt, row, nextId, access, inAppOn, received>>

Goto(w, step) == pc' = [pc EXCEPT ![w] = step] /\ UNCHANGED work

\* The request ends: answered, or aborted by an exception.
Finish(w) ==
    /\ pc' = [pc EXCEPT ![w] = "idle"]
    /\ work' = [work EXCEPT ![w] = NoWork]

\* The loop takes up entry e.
Take(w, step, e) ==
    /\ e \in work[w].todo
    /\ pc' = [pc EXCEPT ![w] = step]
    /\ work' = [work EXCEPT ![w].todo = @ \ {e}, ![w].at = e]

\* It is done with the entry, and goes on at step; after the last, at last.
Advance(w, step, last) ==
    IF work[w].todo = {} /\ last = "idle" THEN Finish(w) ELSE
    /\ pc' = [pc EXCEPT ![w] = IF work[w].todo = {} THEN last ELSE step]
    /\ work' = [work EXCEPT ![w].at = NoEntry]

RequestFrame == UNCHANGED <<now, nextId, access, inAppOn, received, calm, events>>

-----------------------------------------------------------------------------
(* Creating a session and its reminders *)

\* create_reschedule_session; the reminders follow when it has committed.
CreateSession(w, start) ==
    /\ session.status = "none" /\ start >= now
    /\ session' = [status |-> "scheduled", start |-> start]
    /\ Enter(w, "schedule", [NoWork EXCEPT !.start = start])
    /\ UNCHANGED <<now, attempt, row, nextId, access, inAppOn, received, events>>

\* schedule_session_reminders: an eligible student gets every reminder whose
\* time is still to come by the clock read here.
BeginSchedule(w) ==
    LET due == {k \in Kinds : Due(k, work[w].start) > now}
    IN /\ pc[w] = "schedule"
       /\ IF access # "lost" /\ due # {}
          THEN /\ pc' = [pc EXCEPT ![w] = "lookup"]
               /\ work' = [work EXCEPT ![w].todo = {[kind |-> k, id |-> 0] : k \in due}]
          ELSE Finish(w)
       /\ RequestFrame /\ UNCHANGED <<session, attempt, row>>

\* create_notification: a row with the dedupe key is left as it is.
Lookup(w, e) ==
    /\ pc[w] = "lookup"
    /\ IF row[e.kind] = NoRow THEN Take(w, "insert", e) ELSE
       /\ e \in work[w].todo
       /\ IF work[w].todo = {e} THEN Finish(w)
          ELSE UNCHANGED pc /\ work' = [work EXCEPT ![w].todo = @ \ {e}]
    /\ RequestFrame /\ UNCHANGED <<session, attempt, row>>

\* The insert fails on the unique key, and the request with it, when another
\* request was first.  The delivery of a channel that is switched off is skipped
\* at once.
CreateReminder(w) ==
    LET k == work[w].at.kind
        new == [id |-> nextId, status |-> "scheduled", start |-> work[w].start,
                inapp |-> IF inAppOn THEN "queued" ELSE "skipped", enabled |-> inAppOn]
    IN /\ pc[w] = "insert"
       /\ IF row[k] # NoRow
          THEN Finish(w) /\ UNCHANGED <<row, nextId>>
          ELSE /\ row' = [row EXCEPT ![k] = new]
               /\ nextId' = nextId + 1
               /\ Advance(w, "lookup", "idle")
       /\ UNCHANGED <<now, session, attempt, access, inAppOn, received, calm, events>>

-----------------------------------------------------------------------------
(* Editing: update and perform_update *)

\* The serializer's copy of the row is read.
BeginEdit(w, start) ==
    /\ Exists
    /\ Request(w, "edit_check", [NoWork EXCEPT !.status = session.status, !.start = start])

\* A second read decides: a session that is gone, completed, or that has a
\* submitted attempt, is not edited.
CheckEdit(w) ==
    /\ pc[w] = "edit_check"
    /\ IF ~Exists \/ session.status = "completed" \/ attempt = "submitted"
       THEN Finish(w)
       ELSE /\ pc' = [pc EXCEPT ![w] = "edit_save"]
            /\ work' = [work EXCEPT ![w].old = session.start]
    /\ RequestFrame /\ UNCHANGED <<session, attempt, row>>

\* Wrong: the reminders are left as they are.
SaveEditAlone(w) ==
    /\ pc[w] = "edit_save" /\ Finish(w)
    /\ session' = [status |-> work[w].status, start |-> work[w].start]
    /\ RequestFrame /\ UNCHANGED <<attempt, row>>

\* Every column of the first copy is written, its status too, and the row is
\* inserted again if it is gone.
SaveEdit(w) ==
    /\ pc[w] = "edit_save"
    /\ session' = [status |-> work[w].status, start |-> work[w].start]
    /\ IF work[w].start = work[w].old THEN Finish(w) ELSE
       /\ pc' = [pc EXCEPT ![w] = "delete_list"]
       /\ work' = [work EXCEPT ![w] = [NoWork EXCEPT !.start = work[w].start]]
    /\ RequestFrame /\ UNCHANGED <<attempt, row>>

\* reschedule_notifications_for_session: the scheduled reminders are listed ...
ListStale(w) ==
    /\ pc[w] = "delete_list"
    /\ pc' = [pc EXCEPT ![w] = IF Scheduled = {} THEN "schedule" ELSE "delete"]
    /\ work' = [work EXCEPT ![w].todo = EntriesOf(Scheduled)]
    /\ RequestFrame /\ UNCHANGED <<session, attempt, row>>

\* ... and deleted one by one, whatever has become of them: the deliveries ...
DeleteDeliveries(w, e) ==
    /\ pc[w] = "delete" /\ Take(w, "delete_row", e)
    /\ row' = IF Present(e) THEN [row EXCEPT ![e.kind].inapp = "none"] ELSE row
    /\ RequestFrame /\ UNCHANGED <<session, attempt>>

\* Wrong: the row is kept, cancelled, and holds its dedupe key.
DeleteRowSoftly(w) ==
    LET e == work[w].at
    IN /\ pc[w] = "delete_row"
       /\ row' = IF Present(e) THEN [row EXCEPT ![e.kind].status = "cancelled"] ELSE row
       /\ Advance(w, "delete", "schedule")
       /\ RequestFrame /\ UNCHANGED <<session, attempt>>

\* Wrong: the row is given its new time in place.
DeleteRowMoved(w) ==
    LET e == work[w].at
    IN /\ pc[w] = "delete_row"
       /\ row' = IF Present(e) THEN [row EXCEPT ![e.kind].start = work[w].start, ![e.kind].inapp = "queued"] ELSE row
       /\ Advance(w, "delete", "schedule")
       /\ RequestFrame /\ UNCHANGED <<session, attempt>>

\* ... then the row; when all are gone the reminders are created again.
DeleteRow(w) ==
    LET e == work[w].at
    IN /\ pc[w] = "delete_row"
       /\ row' = IF Present(e) THEN [row EXCEPT ![e.kind] = NoRow] ELSE row
       /\ Advance(w, "delete", "schedule")
       /\ RequestFrame /\ UNCHANGED <<session, attempt>>

-----------------------------------------------------------------------------
(* Cancelling and deleting *)

BeginCancel(w) ==
    /\ Exists /\ session.status # "completed"
    /\ Request(w, "cancel_save", NoWork)

\* The save of one column fails when the row is gone.
SaveCancel(w) ==
    /\ pc[w] = "cancel_save"
    /\ IF Exists THEN session' = [session EXCEPT !.status = "cancelled"] /\ Goto(w, "cancel_list")
       ELSE Finish(w) /\ UNCHANGED session
    /\ RequestFrame /\ UNCHANGED <<attempt, row>>

\* cancel_notifications_for_session lists the scheduled reminders ...
ListPending(w) ==
    /\ pc[w] = "cancel_list"
    /\ IF Scheduled = {} THEN Finish(w)
       ELSE /\ pc' = [pc EXCEPT ![w] = "cancel"]
            /\ work' = [work EXCEPT ![w].todo = EntriesOf(Scheduled)]
    /\ RequestFrame /\ UNCHANGED <<session, attempt, row>>

\* ... and cancels each that was scheduled then: its status is not read again.
CancelRow(w, e) ==
    /\ pc[w] = "cancel" /\ e \in work[w].todo
    /\ IF Present(e) THEN row' = [row EXCEPT ![e.kind].status = "cancelled"] /\ Take(w, "cancel_skip", e)
       ELSE Finish(w) /\ UNCHANGED row
    /\ RequestFrame /\ UNCHANGED <<session, attempt>>

\* Wrong: the deliveries stay queued.
SkippedNone(e) == row

Skipped(e) ==
    IF Present(e) /\ row[e.kind].inapp = "queued" THEN [row EXCEPT ![e.kind].inapp = "skipped"] ELSE row

SkipDeliveries(w) ==
    /\ pc[w] = "cancel_skip"
    /\ row' = Skipped(work[w].at)
    /\ Advance(w, "cancel", "idle")
    /\ RequestFrame /\ UNCHANGED <<session, attempt>>

\* destroy refuses a session with attempts, and leaves its reminders alone.
BeginDestroy(w) == Exists /\ attempt = "none" /\ Request(w, "destroy", NoWork)

FinishDestroy(w) ==
    /\ pc[w] = "destroy" /\ Finish(w)
    /\ session' = [session EXCEPT !.status = "deleted"]
    /\ attempt' = "none"
    /\ RequestFrame /\ UNCHANGED row

-----------------------------------------------------------------------------
(* A student starts the exam: _start_attempt, refresh_status *)

\* compute_effective_session_status
EffectiveStatus ==
    CASE session.status \in {"cancelled", "completed"} -> session.status
      [] OTHER -> IF now > session.start + Length THEN "completed"
                  ELSE IF now >= session.start THEN "live" ELSE "scheduled"

BeginStart(w) ==
    /\ Exists
    /\ Request(w, IF EffectiveStatus = session.status THEN "admit" ELSE "refresh_save",
               [NoWork EXCEPT !.status = EffectiveStatus, !.start = session.start])

SaveStatus(w) ==
    /\ pc[w] = "refresh_save"
    /\ IF Exists THEN session' = [session EXCEPT !.status = work[w].status] /\ Goto(w, "admit")
       ELSE Finish(w) /\ UNCHANGED session
    /\ RequestFrame /\ UNCHANGED <<attempt, row>>

\* The rest of the start is module ExamAttempt.
Admit(w) ==
    /\ pc[w] = "admit" /\ Finish(w)
    /\ attempt' = IF /\ work[w].status # "cancelled" /\ attempt = "none" /\ Exists
                     /\ now \in work[w].start .. (work[w].start + Length)
                  THEN "in_progress" ELSE attempt
    /\ RequestFrame /\ UNCHANGED <<session, row>>

SubmitAttempt ==
    /\ attempt = "in_progress" /\ attempt' = "submitted"
    /\ UNCHANGED <<now, session, row, nextId, access, inAppOn, received, calm, events, pc, work>>

-----------------------------------------------------------------------------
(* The sweep: dispatch_due_notifications *)

\* A sweep that finds nothing changes nothing.
BeginSweep(w) ==
    LET due == {k \in Scheduled : Due(k, row[k].start) <= now}
    IN /\ due # {}
       /\ Enter(w, "sweep", [NoWork EXCEPT !.todo = EntriesOf(due)])
       /\ UNCHANGED <<now, session, attempt, row, nextId, access, inAppOn, received, events>>

\* recheck_notification_eligibility
Recheck(w, e) ==
    /\ pc[w] = "sweep"
    /\ Take(w, IF access = "lost" THEN "sweep_cancel" ELSE "sweep_read", e)
    /\ RequestFrame /\ UNCHANGED <<session, attempt, row>>

\* Wrong: a reminder with nothing left to deliver is passed over.
ReadDeliveryOrPass(w) ==
    LET e == work[w].at
    IN /\ pc[w] = "sweep_read"
       /\ IF Present(e) /\ row[e.kind].inapp = "queued" THEN Goto(w, "sweep_deliver")
          ELSE Advance(w, "sweep", "idle")
       /\ RequestFrame /\ UNCHANGED <<session, attempt, row>>

ReadDelivery(w) ==
    LET e == work[w].at
    IN /\ pc[w] = "sweep_read"
       /\ Goto(w, IF Present(e) /\ row[e.kind].inapp = "queued" THEN "sweep_deliver" ELSE "sweep_save")
       /\ RequestFrame /\ UNCHANGED <<session, attempt, row>>

\* _deliver_in_app; a delivery that is gone fails, recording that fails too.
DeliverInApp(w) ==
    LET e == work[w].at
    IN /\ pc[w] = "sweep_deliver"
       /\ IF Present(e) /\ row[e.kind].inapp # "none"
          THEN /\ row' = [row EXCEPT ![e.kind].inapp = "delivered"]
               /\ received' = received \cup {[kind |-> e.kind, start |-> row[e.kind].start, at |-> now]}
               /\ Goto(w, "sweep_save")
          ELSE Finish(w) /\ UNCHANGED <<row, received>>
       /\ UNCHANGED <<now, session, attempt, nextId, access, inAppOn, calm, events>>

\* One save each, over whatever the row says now; it fails when the row is gone.
SweepSave(w, step, status, advance) ==
    LET e == work[w].at
    IN /\ pc[w] = step
       /\ IF Present(e) THEN row' = [row EXCEPT ![e.kind].status = status] /\ advance
          ELSE Finish(w) /\ UNCHANGED row
       /\ RequestFrame /\ UNCHANGED <<session, attempt>>

SaveDispatched(w) == SweepSave(w, "sweep_save", "dispatched", Advance(w, "sweep", "idle"))
SaveIneligible(w) == SweepSave(w, "sweep_cancel", "cancelled", Goto(w, "sweep_skip"))

SkipIneligible(w) ==
    /\ pc[w] = "sweep_skip"
    /\ row' = Skipped(work[w].at)
    /\ Advance(w, "sweep", "idle")
    /\ RequestFrame /\ UNCHANGED <<session, attempt>>

-----------------------------------------------------------------------------
Tick ==
    /\ now < MaxTime /\ now' = now + 1
    /\ UNCHANGED <<session, attempt, row, nextId, access, inAppOn, received, calm, events, pc, work>>

ChangeAccess ==
    /\ access # "again" /\ Event
    /\ access' = IF access = "always" THEN "lost" ELSE "again"
    /\ UNCHANGED <<now, session, attempt, row, nextId, inAppOn, received, calm, pc, work>>

ChangePreference ==
    /\ Event /\ inAppOn' = ~inAppOn
    /\ UNCHANGED <<now, session, attempt, row, nextId, access, received, calm, pc, work>>

\* A thread dies: what it has saved stays.
Crash(w) ==
    /\ pc[w] # "idle" /\ Event
    /\ calm' = FALSE /\ Finish(w)
    /\ UNCHANGED <<now, session, attempt, row, nextId, access, inAppOn, received>>

Init ==
    /\ now = 0
    /\ session = [status |-> "none", start |-> 0]
    /\ attempt = "none"
    /\ row = [k \in Kinds |-> NoRow] /\ nextId = 1
    /\ access = "always" /\ inAppOn = TRUE /\ received = {} /\ calm = TRUE
    /\ events = 0
    /\ pc = [w \in Workers |-> "idle"]
    /\ work = [w \in Workers |-> NoWork]

Step(w) ==
    \/ BeginSchedule(w) \/ CreateReminder(w)
    \/ CheckEdit(w) \/ SaveEdit(w) \/ ListStale(w) \/ DeleteRow(w)
    \/ SaveCancel(w) \/ ListPending(w) \/ SkipDeliveries(w) \/ FinishDestroy(w)
    \/ SaveStatus(w) \/ Admit(w)
    \/ ReadDelivery(w) \/ DeliverInApp(w) \/ SaveDispatched(w)
    \/ SaveIneligible(w) \/ SkipIneligible(w)
    \/ \E e \in work[w].todo :
          Lookup(w, e) \/ DeleteDeliveries(w, e) \/ CancelRow(w, e) \/ Recheck(w, e)

Next ==
    \/ Tick \/ ChangeAccess \/ ChangePreference \/ SubmitAttempt
    \/ \E w \in Workers :
          \/ Step(w) \/ BeginSweep(w) \/ Crash(w)
          \/ BeginCancel(w) \/ BeginDestroy(w) \/ BeginStart(w)
          \/ \E start \in Starts : CreateSession(w, start) \/ BeginEdit(w, start)

Spec == Init /\ [][Next]_vars

\* A thread goes on until its request is answered; the scheduler keeps calling
\* the sweep.
FairSpec == Spec /\ \A w \in Workers : WF_vars(Step(w)) /\ WF_vars(BeginSweep(w))

-----------------------------------------------------------------------------
Statuses == {"none", "scheduled", "live", "completed", "cancelled", "deleted"}
WorkRecords == [status: Statuses, start: Nat, old: Nat, todo: SUBSET Entries, at: Entries \cup {NoEntry}]
Rows == [id: Nat, status: {"none", "scheduled", "dispatched", "cancelled"}, start: Nat,
         inapp: {"none", "queued", "delivered", "skipped"}, enabled: BOOLEAN]
Sweeping == {"sweep_read", "sweep_deliver", "sweep_save", "sweep_cancel", "sweep_skip"}
AtEntry == Sweeping \cup {"insert", "delete_row", "cancel_skip"}
Steps == AtEntry \cup {"idle", "schedule", "lookup", "edit_check", "edit_save", "delete_list", "delete",
                       "cancel_save", "cancel_list", "cancel", "destroy", "refresh_save", "admit", "sweep"}

DataOK ==
    /\ now \in Nat /\ nextId \in Nat \ {0}
    /\ session \in [status: Statuses, start: Nat]
    /\ attempt \in {"none", "in_progress", "submitted"}
    /\ row \in [Kinds -> Rows]
    /\ access \in {"always", "lost", "again"} /\ inAppOn \in BOOLEAN
    /\ received \subseteq [kind: Kinds, start: Nat, at: Nat]
    /\ calm \in BOOLEAN /\ events \in Nat

WorkersOK ==
    /\ pc \in [Workers -> Steps]
    /\ work \in [Workers -> WorkRecords]
    /\ \A w \in Workers : pc[w] \in AtEntry => work[w].at # NoEntry

TypeOK == DataOK /\ WorkersOK

\* The entries a sweep has listed and not finished with.
Listed(w) ==
    (IF pc[w] \in {"sweep"} \cup Sweeping THEN work[w].todo ELSE {})
        \cup (IF pc[w] \in Sweeping THEN {work[w].at} ELSE {})

\* A row's key is new when it is inserted and never used again, so a row that
\* still bears the key a sweep has listed is the row that was due.
KeysUsedOnce ==
    /\ \A k \in Kinds : /\ row[k].id < nextId
                        /\ row[k].status = "scheduled" => row[k].id # 0
    /\ \A w \in Workers : \A e \in Listed(w) :
          /\ e.id \in 1 .. (nextId - 1)
          /\ Present(e) => Due(e.kind, row[e.kind].start) <= now

\* What a reminder's delivery is when it is made, and when it is dispatched.
Made(k) == IF row[k].enabled THEN "queued" ELSE "skipped"
Sent(k) == IF row[k].enabled THEN "delivered" ELSE "skipped"

Quiet == calm /\ \A w \in Workers : pc[w] = "idle"

\* No interleaving, crash or edit makes a student receive a reminder before
\* it is due for the start time the reminder was made for: the sweep keeps a
\* list while an edit deletes the rows and creates others
\* (dispatch_due_notifications, reschedule_notifications_for_session).
NeverEarly == \A r \in received : r.at >= Due(r.kind, r.start)

IInv == TypeOK /\ KeysUsedOnce /\ NeverEarly

\* After requests that did not overlap, every reminder still to be sent is
\* for the time the session now has (perform_update's _resync_reminders).
RemindersMatch ==
    Quiet /\ Exists => \A k \in Scheduled : row[k].start = session.start

\* And none is missing: a student who had access all along will get every
\* reminder whose time is still to come, save those of a kind that was sent
\* for an earlier start, on the channels that are on when it is made (schedule_session_reminders after reschedule_-
\* notifications_for_session).
EveryReminderComes ==
    Quiet /\ Exists /\ session.status # "cancelled" /\ access = "always" =>
        \A k \in Kinds : Due(k, session.start) > now =>
            \/ row[k].status = "scheduled" /\ row[k].start = session.start
            \/ row[k].status = "dispatched" /\ Due(k, row[k].start) <= now

\* After requests that did not overlap, the status of a reminder says what the
\* student got of it: those dispatched, and only they, were delivered, but for
\* the ones made while the student had switched in-app messages off, which are
\* dispatched with their delivery skipped (create_notification,
\* dispatch_due_notifications, cancel_notification).
StatusTellsDelivery ==
    Quiet => \A k \in Kinds :
        /\ row[k].status = "scheduled" => row[k].inapp = Made(k)
        /\ row[k].status = "dispatched" => row[k].inapp = Sent(k)
        /\ row[k].status = "cancelled" => row[k].inapp = "skipped"

-----------------------------------------------------------------------------
(* The inductive invariant behind the properties of requests that do not overlap *)

OneAtATime == \A v, w \in Workers : pc[v] # "idle" /\ pc[w] # "idle" => v = w

\* A request is at one of the steps, with the reminder of kind k in hand.
InHand(k, steps) == \E w \in Workers : pc[w] \in steps /\ work[w].at.kind = k

Replacing == {"delete_list", "delete", "delete_row"}
Scheduling == {"schedule", "lookup", "insert"}
ToCreate(w, k) ==
    \/ pc[w] \in Replacing \cup {"schedule"}
    \/ pc[w] \in {"lookup", "insert"} /\ [kind |-> k, id |-> 0] \in work[w].todo
    \/ pc[w] = "insert" /\ work[w].at.kind = k

\* The status of a row agrees with its delivery, but for the row in hand.
RowAgrees(k) ==
    /\ row[k].status = "none" => row[k] = NoRow
    /\ row[k].status = "scheduled" =>
         row[k].inapp = Made(k) \/ InHand(k, {"delete_row", "sweep_save"})
    /\ row[k].status = "dispatched" => row[k].inapp = Sent(k) /\ Due(k, row[k].start) <= now
    /\ row[k].status = "cancelled" =>
         row[k].inapp = "skipped" \/ InHand(k, {"cancel_skip", "sweep_skip"})

\* A row is for the time the session has, and is there or still to be created.
RowMatches(k) ==
    /\ session.status = "none" => row[k] = NoRow
    /\ Exists /\ k \in Scheduled =>
         row[k].start = session.start \/ \E w \in Workers : pc[w] \in Replacing
    /\ Exists /\ session.status # "cancelled" /\ access = "always" =>
         /\ row[k].status # "cancelled"
         /\ Due(k, session.start) > now =>
              row[k].status \in {"scheduled", "dispatched"} \/ \E w \in Workers : ToCreate(w, k)

\* What a lone request has read of the session still holds ...
SessionAsRead(w) ==
    /\ pc[w] \in {"edit_check", "edit_save"} => Exists /\ work[w].status = session.status
    /\ pc[w] = "edit_save" => work[w].old = session.start
    /\ pc[w] \in Replacing \cup Scheduling => Exists /\ work[w].start = session.start
    /\ pc[w] = "cancel_save" => Exists
    /\ pc[w] \in {"cancel_list", "cancel", "cancel_skip"} => session.status = "cancelled"
    /\ pc[w] = "refresh_save" =>
         /\ Exists /\ session.status # "cancelled"
         /\ work[w].status \in {"scheduled", "live", "completed"}

\* ... and what it has listed of the reminders.
RowsAsRead(w) ==
    LET todo == work[w].todo
        at == work[w].at
    IN /\ pc[w] = "delete" => todo = EntriesOf(Scheduled)
       /\ pc[w] = "delete_row" => at \notin todo /\ todo \cup {at} = EntriesOf(Scheduled)
       /\ pc[w] = "schedule" => Scheduled = {}
       /\ pc[w] \in {"lookup", "insert"} => \A e \in todo : e.id = 0
       /\ pc[w] = "insert" => at.id = 0 /\ row[at.kind] = NoRow
       /\ pc[w] \in {"cancel", "cancel_skip", "sweep"} \cup Sweeping => todo \subseteq EntriesOf(Scheduled)
       /\ pc[w] \in {"cancel_skip"} \cup Sweeping => Present(at) /\ at \notin todo
       /\ pc[w] \in {"sweep_read", "sweep_deliver", "sweep_save", "sweep_cancel"} => at.kind \in Scheduled
       /\ pc[w] = "sweep_deliver" => row[at.kind].enabled
       /\ pc[w] = "sweep_save" => row[at.kind].inapp = Sent(at.kind)
       /\ pc[w] \in {"cancel_skip", "sweep_skip"} =>
            row[at.kind].status = "cancelled" /\ row[at.kind].inapp = Made(at.kind)
       /\ pc[w] \in {"sweep_cancel", "sweep_skip"} => access # "always"

CalmInv ==
    /\ OneAtATime
    /\ \A k \in Kinds : RowAgrees(k) /\ RowMatches(k)
    /\ \A w \in Workers : SessionAsRead(w) /\ RowsAsRead(w)

LoneInv == IInv /\ (calm => CalmInv)

-----------------------------------------------------------------------------
\* A scheduled reminder that is due is dispatched, cancelled or replaced in
\* the end, whatever sweeps fail or die meanwhile (dispatch_due_notifications).
DueIsDispatched ==
    \A k \in Kinds :
        (k \in Scheduled /\ Due(k, row[k].start) <= now) ~>
            ~(k \in Scheduled /\ Due(k, row[k].start) <= now)
=============================================================================
