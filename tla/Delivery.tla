------------------------------ MODULE Delivery ------------------------------
(***************************************************************************)
(* One NotificationDelivery row for e-mail or for push, from the commit    *)
(* that creates it to its last retry: the task that is put on the queue    *)
(* after the commit, the callbacks the queue makes (at least once, and     *)
(* again until it gets an answer of success), the providers, and the       *)
(* browsers a push is fanned out to.                                       *)
(*                                                                         *)
(* Code: notifications/services.py (the on_commit hooks), email_tasks.py,  *)
(* push_tasks.py, push_service.py, the two adapters and the callback views *)
(* in notifications/views.py.  Callbacks run outside transactions.         *)
(***************************************************************************)
EXTENDS Integers, FiniteSets

CONSTANTS
    Devices,        \* the browsers of the student
    Workers,        \* server threads
    MaxTries,       \* MAX_DELIVERY_ATTEMPTS
    NoDevice,
    MaxEvents       \* bound, per channel: dead threads, lost or repeated tasks,
                    \* cancellations, changes of devices

ASSUME DeliveryAssumption ==
    /\ MaxTries \in Nat \ {0}
    /\ MaxEvents \in [{"email", "push"} -> Nat]
    /\ NoDevice \notin Devices

VARIABLES
    channel,        \* of the row: "email" or "push"
    status, count,  \* of the row
    tasks,          \* copies of its task the queue has still to deliver
    enqueued,       \* the on_commit hook: "pending", "done" or "failed"
    subscription,   \* of each device
    attempt,        \* the PushDeliveryAttempt row of each device
    mails, tries,   \* history: e-mails accepted, calls of the e-mail provider
    pushes,         \* history: messages accepted for each device
    steady,         \* history: the devices whose subscription never changed
    lost,           \* history: an e-mail was accepted and the answer lost
    calm,           \* history: no callback overlapped another or died, and no
                    \* answer to a push was lost
    events,         \* history: for the bound
    pc, work        \* the callback each worker is running, and what it has read

queue == <<tasks, enqueued>>
row == <<status, count>>
push == <<subscription, attempt, pushes, steady>>
mail == <<mails, tries>>
history == <<lost, calm>>
vars == <<channel, row, queue, push, mail, history, events, pc, work>>

NoAttempt == [status |-> "none", count |-> 0]
Outcomes == {"sent", "permanent", "temporary"}

\* todo, device: the devices still to visit and the one at hand; count: of the
\* row or attempt in memory; again: a device failed and has tries left.
NoWork == [todo |-> {}, device |-> NoDevice, count |-> 0, result |-> "none", again |-> FALSE]

\* A provider that accepts says so, or its answer is lost.
Answers(outcome, accepted) ==
    /\ outcome = "sent" => accepted
    /\ accepted => outcome \in {"sent", "temporary"}

Active == {d \in Devices : subscription[d] = "active"}

-----------------------------------------------------------------------------
Event == events < MaxEvents[channel] /\ events' = events + 1

Goto(w, step, record) ==
    /\ pc' = [pc EXCEPT ![w] = step]
    /\ work' = [work EXCEPT ![w] = record]

\* The callback ends; with an answer of 200 the queue forgets the task, and with
\* 500 it delivers it again.
Finish(w) == Goto(w, "idle", NoWork)
Acknowledge(w) == Finish(w) /\ UNCHANGED queue

AskAgain(w) == Goto(w, "idle", NoWork) /\ tasks' = tasks + 1 /\ UNCHANGED enqueued

-----------------------------------------------------------------------------
(* The queue *)

\* The hook that runs when the creating transaction has committed.
Enqueue ==
    /\ enqueued = "pending"
    /\ enqueued' = "done" /\ tasks' = tasks + 1
    /\ UNCHANGED <<channel, row, push, mail, history, events, pc, work>>

\* The thread dies before the hook, or the queue refuses the task.
LoseTask ==
    /\ enqueued = "pending" /\ Event
    /\ enqueued' = "failed"
    /\ UNCHANGED <<channel, row, tasks, push, mail, history, pc, work>>

\* The queue delivers a task once more, or two sweeps have put one each.
RepeatTask ==
    /\ enqueued = "done" /\ Event
    /\ tasks' = tasks + 1
    /\ UNCHANGED <<channel, row, enqueued, push, mail, history, pc, work>>

\* An idle worker is handed a task.
Take(w) ==
    /\ pc[w] = "idle" /\ tasks > 0
    /\ tasks' = tasks - 1
    /\ UNCHANGED enqueued

\* A thread dies; the queue gets no answer.
Crash(w) ==
    /\ pc[w] # "idle" /\ Event
    /\ AskAgain(w) /\ calm' = FALSE
    /\ UNCHANGED <<channel, row, push, mail, lost>>

\* cancel_notification, or an ineligible sweep, reaches a row that is queued.
Skip ==
    /\ status = "queued" /\ Event
    /\ status' = "skipped"
    /\ UNCHANGED <<channel, count, queue, push, mail, history, pc, work>>

-----------------------------------------------------------------------------
(* E-mail: process_email_delivery *)

\* Wrong: a row that is being processed may be claimed again.
ClaimAny(w) ==
    /\ channel = "email" /\ Take(w)
    /\ IF status \in {"queued", "processing"}
       THEN status' = "processing" /\ Goto(w, "send", [NoWork EXCEPT !.count = count])
       ELSE Finish(w) /\ UNCHANGED status
    /\ UNCHANGED <<channel, count, push, mail, history, events>>

\* The callback begins with _claim_delivery: one conditional update; who does
\* not win sends nothing and answers 200.
Claim(w) ==
    /\ channel = "email" /\ Take(w)
    /\ IF status = "queued"
       THEN status' = "processing" /\ Goto(w, "send", [NoWork EXCEPT !.count = count])
       ELSE Finish(w) /\ UNCHANGED status
    /\ UNCHANGED <<channel, count, push, mail, history, events>>

\* email_adapter.send: the provider accepts the message or not.  An answer
\* that is late, not JSON or without MessageID counts as a temporary failure.
SendEmail(w, outcome, accepted) ==
    /\ pc[w] = "send"
    /\ Answers(outcome, accepted)
    /\ tries' = tries + 1
    /\ mails' = IF accepted THEN mails + 1 ELSE mails
    /\ Goto(w, "record", [work[w] EXCEPT !.result = outcome])
    /\ lost' = (lost \/ (accepted /\ outcome # "sent"))
    /\ UNCHANGED <<channel, row, queue, push, calm, events>>

\* Wrong: the callback answers 200 after a failure that is to be retried.
RecordEmailAnswered(w) ==
    /\ pc[w] = "record"
    /\ count' = work[w].count + 1
    /\ status' = IF work[w].result = "sent" THEN "sent"
                 ELSE IF work[w].result = "permanent" \/ count' >= MaxTries THEN "failed" ELSE "queued"
    /\ Acknowledge(w)
    /\ UNCHANGED <<channel, push, mail, history, events>>

\* The outcome is saved; after a temporary failure the claim is released while
\* tries are left.
RecordEmail(w) ==
    /\ pc[w] = "record"
    /\ count' = work[w].count + 1
    /\ status' = IF work[w].result = "sent" THEN "sent"
                 ELSE IF work[w].result = "permanent" \/ count' >= MaxTries THEN "failed" ELSE "queued"
    /\ IF status' = "queued" THEN AskAgain(w) ELSE Acknowledge(w)
    /\ UNCHANGED <<channel, push, mail, history, events>>

-----------------------------------------------------------------------------
(* Push: process_push_delivery *)

\* The callback begins with the list of the active devices; without any the row
\* is skipped.
ListDevices(w) ==
    /\ channel = "push" /\ Take(w)
    /\ calm' = (calm /\ \A v \in Workers \ {w} : pc[v] = "idle")
    /\ IF Active = {} THEN status' = "skipped" /\ Finish(w)
       ELSE UNCHANGED status /\ Goto(w, "next", [NoWork EXCEPT !.todo = Active])
    /\ UNCHANGED <<channel, count, push, mail, lost, events>>

\* Its attempt is fetched or created; one that was sent is passed over.
TakeDevice(w, d) ==
    /\ pc[w] = "next" /\ d \in work[w].todo
    /\ LET row_d == IF attempt[d] = NoAttempt THEN [NoAttempt EXCEPT !.status = "queued"] ELSE attempt[d]
       IN /\ attempt' = [attempt EXCEPT ![d] = row_d]
          /\ IF row_d.status = "sent" THEN Goto(w, "next", [work[w] EXCEPT !.todo = @ \ {d}])
             ELSE Goto(w, "push", [work[w] EXCEPT !.todo = @ \ {d}, !.device = d, !.count = row_d.count])
    /\ UNCHANGED <<channel, row, queue, subscription, pushes, steady, mail, history, events>>

\* webpush_adapter.send
SendPush(w, outcome, accepted) ==
    /\ pc[w] = "push"
    /\ Answers(outcome, accepted)
    /\ pushes' = IF accepted THEN [pushes EXCEPT ![work[w].device] = @ + 1] ELSE pushes
    /\ Goto(w, IF outcome = "permanent" THEN "device" ELSE "attempt", [work[w] EXCEPT !.result = outcome])
    /\ calm' = (calm /\ ~(accepted /\ outcome # "sent"))
    /\ UNCHANGED <<channel, row, queue, subscription, attempt, steady, mail, lost, events>>

\* A device that is gone is marked invalid, even if it has registered again.
SaveDevice(w) ==
    /\ pc[w] = "device"
    /\ subscription' = [subscription EXCEPT ![work[w].device] = "invalid"]
    /\ steady' = steady \ {work[w].device}
    /\ Goto(w, "attempt", work[w])
    /\ UNCHANGED <<channel, row, queue, attempt, pushes, mail, history, events>>

\* Wrong: the failures of a device are not counted.
SaveAttemptUncounted(w) ==
    LET again == work[w].result = "temporary"
        outcome == IF work[w].result = "sent" THEN "sent" ELSE IF again THEN "queued" ELSE "failed"
    IN /\ pc[w] = "attempt"
       /\ attempt' = [attempt EXCEPT ![work[w].device] = [status |-> outcome, count |-> work[w].count]]
       /\ Goto(w, "next", [NoWork EXCEPT !.todo = work[w].todo, !.again = work[w].again \/ again])
       /\ UNCHANGED <<channel, row, queue, subscription, pushes, steady, mail, history, events>>

\* The whole attempt is saved over whatever another callback has saved.
SaveAttempt(w) ==
    LET tried == work[w].count + (IF work[w].result = "temporary" THEN 1 ELSE 0)
        again == work[w].result = "temporary" /\ tried < MaxTries
        outcome == IF work[w].result = "sent" THEN "sent" ELSE IF again THEN "queued" ELSE "failed"
    IN /\ pc[w] = "attempt"
       /\ attempt' = [attempt EXCEPT ![work[w].device] = [status |-> outcome, count |-> tried]]
       /\ Goto(w, "next", [NoWork EXCEPT !.todo = work[w].todo, !.again = work[w].again \/ again])
       /\ UNCHANGED <<channel, row, queue, subscription, pushes, steady, mail, history, events>>

\* Wrong: the callback always answers 200.
FinishPushDone(w) ==
    /\ pc[w] = "next" /\ work[w].todo = {}
    /\ status' = "sent" /\ Acknowledge(w)
    /\ UNCHANGED <<channel, count, push, mail, history, events>>

\* The row counts as sent whatever became of the devices; the task comes again
\* while one has tries left.
FinishPush(w) ==
    /\ pc[w] = "next" /\ work[w].todo = {}
    /\ status' = "sent"
    /\ IF work[w].again THEN AskAgain(w) ELSE Acknowledge(w)
    /\ UNCHANGED <<channel, count, push, mail, history, events>>

\* register_subscription and revoke_subscription
ChangeDevice(d, new) ==
    /\ channel = "push" /\ subscription[d] # new /\ Event
    /\ subscription' = [subscription EXCEPT ![d] = new]
    /\ steady' = steady \ {d}
    /\ UNCHANGED <<channel, row, queue, attempt, pushes, mail, history, pc, work>>

-----------------------------------------------------------------------------
\* What one worker's callback does next.
EmailStep(w) ==
    \/ Claim(w) \/ RecordEmail(w)
    \/ \E outcome \in Outcomes, accepted \in BOOLEAN : SendEmail(w, outcome, accepted)

PushStep(w) ==
    \/ ListDevices(w) \/ SaveDevice(w) \/ SaveAttempt(w) \/ FinishPush(w)
    \/ \E d \in work[w].todo : TakeDevice(w, d)
    \/ \E outcome \in Outcomes, accepted \in BOOLEAN : SendPush(w, outcome, accepted)

\* _resolve_channels asks for push only when a device is active.
Init ==
    /\ channel \in {"email", "push"} /\ status = "queued" /\ count = 0
    /\ tasks = 0 /\ enqueued = "pending"
    /\ subscription \in [Devices -> {"active", "revoked"}]
    /\ channel = "push" <=> Active # {}
    /\ attempt = [d \in Devices |-> NoAttempt]
    /\ mails = 0 /\ tries = 0 /\ pushes = [d \in Devices |-> 0]
    /\ steady = Active /\ events = 0
    /\ lost = FALSE /\ calm = TRUE
    /\ pc = [w \in Workers |-> "idle"] /\ work = [w \in Workers |-> NoWork]

Next ==
    \/ Enqueue \/ LoseTask \/ RepeatTask \/ Skip
    \/ \E w \in Workers : EmailStep(w) \/ PushStep(w) \/ Crash(w)
    \/ \E d \in Devices, new \in {"active", "revoked"} : ChangeDevice(d, new)

Spec == Init /\ [][Next]_vars

\* The hook runs, the queue keeps delivering, and threads go on.
FairSpec ==
    /\ Spec /\ WF_vars(Enqueue)
    /\ \A w \in Workers : WF_vars(EmailStep(w)) /\ WF_vars(PushStep(w))

-----------------------------------------------------------------------------
WorkRecords == [todo: SUBSET Devices, device: Devices \cup {NoDevice}, count: Nat,
                result: Outcomes \cup {"none"}, again: BOOLEAN]
EmailSteps == {"send", "record"}
PushSteps == {"next", "push", "device", "attempt"}

DataOK ==
    /\ channel \in {"email", "push"}
    /\ status \in {"queued", "processing", "sent", "failed", "skipped"} /\ count \in Nat
    /\ tasks \in Nat /\ enqueued \in {"pending", "done", "failed"}
    /\ subscription \in [Devices -> {"active", "revoked", "invalid"}]
    /\ attempt \in [Devices -> [status: {"none", "queued", "sent", "failed"}, count: Nat]]
    /\ mails \in Nat /\ tries \in Nat /\ pushes \in [Devices -> Nat]
    /\ steady \subseteq Devices /\ events \in Nat
    /\ lost \in BOOLEAN /\ calm \in BOOLEAN

\* A callback is one of its channel, and one that works on a device has it.
WorkersOK ==
    /\ pc \in [Workers -> {"idle"} \cup EmailSteps \cup PushSteps]
    /\ work \in [Workers -> WorkRecords]
    /\ \A w \in Workers :
          /\ pc[w] \in EmailSteps => channel = "email"
          /\ pc[w] \in PushSteps => channel = "push"
          /\ pc[w] \in {"push", "device", "attempt"} => work[w].device # NoDevice

TypeOK == DataOK /\ WorkersOK

Holders == {w \in Workers : pc[w] \in {"send", "record"}}

\* The e-mail in the hand of worker w, which has claimed the row.
HeldBy(w) ==
    /\ status = "processing" /\ work[w].count = count /\ count < MaxTries
    /\ pc[w] = "send" => tries = count /\ (lost \/ mails = 0)
    /\ pc[w] = "record" => /\ tries = count + 1 /\ work[w].result # "none"
                           /\ work[w].result = "sent" => mails >= 1
                           /\ lost \/ mails = (IF work[w].result = "sent" THEN 1 ELSE 0)

\* One worker at most holds the row; without one every call is counted, or was
\* the last of a worker that died.
EmailCounted ==
    /\ \A v, w \in Holders : v = w
    /\ \A w \in Holders : HeldBy(w)
    /\ status \in {"queued", "skipped"} => tries = count /\ count < MaxTries /\ (lost \/ mails = 0)
    /\ status = "processing" /\ Holders = {} => tries <= count + 1 /\ count < MaxTries /\ (lost \/ mails <= 1)

\* One row is one e-mail: repeated tasks, workers that die and retries never
\* make the provider accept it twice, if no answer of it is lost
\* (_claim_delivery).
EmailOnce == ~lost => mails <= 1

\* The provider is called at most MaxTries times for a row, also when a worker
\* died with a call it had not counted (process_email_delivery).
TriesBounded == tries <= MaxTries

\* A row that says sent was accepted; one that says failed was not, if no
\* answer is lost (process_email_delivery).
StatusTellsMail ==
    channel = "email" =>
        /\ status = "sent" => mails >= 1
        /\ status = "failed" => lost \/ mails = 0

IInv ==
    /\ TypeOK
    /\ channel = "email" => EmailCounted
    /\ EmailOnce /\ TriesBounded /\ StatusTellsMail

\* What is skipped is not mailed later, whichever task or worker was on its way
\* (cancel_notification and _claim_delivery).
SkippedStaysUnsent ==
    [][channel = "email" /\ status = "skipped" => mails' = mails /\ status' = status]_vars

\* A callback on its way will come to device d, or asks for the task again.
Serves(w, d) ==
    /\ pc[w] \in PushSteps
    /\ \/ d \in work[w].todo \/ work[w].again
       \/ pc[w] \in {"push", "device", "attempt"} /\ work[w].device = d

\* A device that was active all along is settled, or someone is still to come.
PushInv ==
    channel = "push" =>
        /\ steady \subseteq Active
        /\ \A d \in steady : \/ attempt[d].status \in {"sent", "failed"}
                              \/ enqueued # "done" \/ tasks > 0
                              \/ \E w \in Workers : Serves(w, d)

\* When the queue has nothing left, every device that was active all along was
\* reached or has used up its tries, in whatever order callbacks ran and died
\* (process_push_delivery, PushProcessDeliveryView).
PushReachesAll ==
    channel = "push" /\ enqueued = "done" /\ tasks = 0 /\ (\A w \in Workers : pc[w] = "idle") =>
        \A d \in steady : attempt[d].status \in {"sent", "failed"}

\* The retries end: at last the queue has nothing left and every callback is
\* answered (the counts of tries in both tasks).
RetriesEnd == <>[](tasks = 0 /\ \A w \in Workers : pc[w] = "idle")

\* An e-mail that got its task is settled in the end, or left processing by a
\* worker that died (process_email_delivery).
EmailSettles ==
    (channel = "email" /\ enqueued = "done") ~>
        (status \in {"sent", "failed", "skipped"} \/ (status = "processing" /\ Holders = {}))

=============================================================================
