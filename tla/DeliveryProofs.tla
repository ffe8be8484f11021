--------------------------- MODULE DeliveryProofs ---------------------------
(***************************************************************************)
(* Proofs about Delivery.  IInv is inductive: at most one worker holds a   *)
(* claimed row (HeldBy says what it knows of it), and without one every    *)
(* call of the e-mail provider is counted or was the last call of a worker *)
(* that died (EmailCounted).  PushInv is: a browser is settled, or somebody *)
(* is still to come for it.                                                *)
(***************************************************************************)
EXTENDS Delivery, TLAPS

\* What a worker does next with its callback keeps the types of all of them.
LEMMA GotoType ==
    ASSUME TypeOK, NEW w \in Workers, NEW step \in {"idle"} \cup EmailSteps \cup PushSteps,
           NEW record \in WorkRecords, Goto(w, step, record), channel' = channel,
           step \in EmailSteps => channel = "email",
           step \in PushSteps => channel = "push",
           step \in {"push", "device", "attempt"} => record.device # NoDevice
    PROVE  WorkersOK'
  BY DEF TypeOK, WorkersOK, Goto

LEMMA NoWorkType == NoWork \in WorkRecords
  BY DEF NoWork, WorkRecords

\* The records a step hands on.
LEMMA RecordTypes ==
    ASSUME NEW record \in WorkRecords
    PROVE  /\ record.todo \subseteq Devices /\ record.count \in Nat
           /\ record.device \in Devices \cup {NoDevice}
           /\ record.result \in Outcomes \cup {"none"} /\ record.again \in BOOLEAN
           /\ \A result \in Outcomes : [record EXCEPT !.result = result] \in WorkRecords
           /\ \A count_ \in Nat : [record EXCEPT !.count = count_] \in WorkRecords
           /\ \A d \in Devices : [record EXCEPT !.todo = @ \ {d}] \in WorkRecords
           /\ \A d \in Devices, count_ \in Nat :
                 [record EXCEPT !.todo = @ \ {d}, !.device = d, !.count = count_] \in WorkRecords
           /\ \A todo \in SUBSET Devices, again \in BOOLEAN :
                 /\ [record EXCEPT !.todo = todo] \in WorkRecords
                 /\ [record EXCEPT !.todo = todo, !.again = again] \in WorkRecords
  BY DEF WorkRecords

\* Every variable keeps its type.
LEMMA TypeInit == Init => TypeOK
  <1> SUFFICES ASSUME Init PROVE TypeOK
    OBVIOUS
  <1>1. work \in [Workers -> WorkRecords]
    BY NoWorkType DEF Init
  <1> QED
    BY <1>1 DEF Init, TypeOK, DataOK, WorkersOK, NoAttempt, Active, EmailSteps, PushSteps

LEMMA TypeStep == TypeOK /\ [Next]_vars => TypeOK'
  <1> USE DeliveryAssumption DEF TypeOK
  <1> SUFFICES ASSUME TypeOK, [Next]_vars PROVE TypeOK'
    OBVIOUS
  <1>1. CASE UNCHANGED vars
    BY <1>1 DEF DataOK, WorkersOK, vars, row, queue, push, mail, history
  <1>2. CASE Enqueue \/ LoseTask \/ RepeatTask \/ Skip
    BY <1>2 DEF Enqueue, LoseTask, RepeatTask, Skip, Event, DataOK, WorkersOK, row, queue, push, mail, history
  <1>3. ASSUME NEW d \in Devices, NEW new \in {"active", "revoked"}, ChangeDevice(d, new)
        PROVE  TypeOK'
    BY <1>3 DEF ChangeDevice, Event, DataOK, WorkersOK, row, queue, push, mail, history
  <1>4. ASSUME NEW w \in Workers, Crash(w) PROVE TypeOK'
    <2>1. /\ tasks' = tasks + 1 /\ events' = events + 1 /\ calm' \in BOOLEAN
          /\ UNCHANGED <<channel, row, enqueued, push, mail, lost>>
      BY <1>4 DEF Crash, Event, AskAgain
    <2>2. Goto(w, "idle", NoWork) /\ channel' = channel
      BY <1>4 DEF Crash, AskAgain
    <2>3. DataOK'
      BY <2>1 DEF DataOK, row, push, mail
    <2>4. WorkersOK'
      BY <2>2, GotoType, NoWorkType DEF EmailSteps, PushSteps
    <2>5. QED
      BY <2>3, <2>4
  <1>5. ASSUME NEW w \in Workers, Claim(w) PROVE TypeOK'
    <2>1. DataOK'
      BY <1>5 DEF Claim, Take, DataOK, row, queue, push, mail, history
    <2>2. [NoWork EXCEPT !.count = count] \in WorkRecords
      BY NoWorkType, RecordTypes DEF DataOK
    <2>3. WorkersOK'
      BY <1>5, <2>2, NoWorkType, GotoType DEF Claim, Finish, EmailSteps, PushSteps
    <2>4. QED
      BY <2>1, <2>3
  <1>6. ASSUME NEW w \in Workers, NEW outcome \in Outcomes, NEW accepted \in BOOLEAN, SendEmail(w, outcome, accepted)
        PROVE  TypeOK'
    <2>1. DataOK'
      BY <1>6 DEF SendEmail, DataOK, row, queue, push, history
    <2>2. [work[w] EXCEPT !.result = outcome] \in WorkRecords /\ channel = "email"
      BY <1>6, RecordTypes DEF SendEmail, WorkersOK, EmailSteps
    <2>3. WorkersOK'
      BY <1>6, <2>2, GotoType DEF SendEmail, EmailSteps, PushSteps
    <2>4. QED
      BY <2>1, <2>3
  <1>7. ASSUME NEW w \in Workers, RecordEmail(w) PROVE TypeOK'
    <2>1. Goto(w, "idle", NoWork) /\ tasks' \in Nat /\ UNCHANGED enqueued
      BY <1>7 DEF RecordEmail, AskAgain, Acknowledge, Finish, DataOK, queue
    <2>2. work[w].count \in Nat
      BY RecordTypes DEF WorkersOK
    <2>3. count' \in Nat /\ status' \in {"queued", "sent", "failed"}
      BY <1>7, <2>2 DEF RecordEmail
    <2>4. DataOK'
      BY <1>7, <2>1, <2>3 DEF RecordEmail, DataOK, push, mail, history
    <2>5. WorkersOK'
      BY <1>7, <2>1, NoWorkType, GotoType DEF RecordEmail, EmailSteps, PushSteps
    <2>6. QED
      BY <2>4, <2>5
  <1>8. ASSUME NEW w \in Workers, ListDevices(w) PROVE TypeOK'
    <2>1. DataOK'
      BY <1>8 DEF ListDevices, Take, DataOK, push, mail
    <2>2. [NoWork EXCEPT !.todo = Active] \in WorkRecords
      BY NoWorkType, RecordTypes DEF Active
    <2>3. WorkersOK'
      BY <1>8, <2>2, NoWorkType, GotoType DEF ListDevices, Finish, EmailSteps, PushSteps
    <2>4. QED
      BY <2>1, <2>3
  <1>9. ASSUME NEW w \in Workers, NEW d \in work[w].todo, TakeDevice(w, d) PROVE TypeOK'
    <2> DEFINE row_d == IF attempt[d] = NoAttempt THEN [NoAttempt EXCEPT !.status = "queued"] ELSE attempt[d]
               next == [work[w] EXCEPT !.todo = @ \ {d}, !.device = d, !.count = row_d.count]
    <2>1. work[w] \in WorkRecords
      BY DEF WorkersOK
    <2>2. d \in Devices /\ channel = "push"
      BY <1>9, <2>1, RecordTypes DEF WorkersOK, TakeDevice, PushSteps
    <2>3. row_d \in [status: {"none", "queued", "sent", "failed"}, count: Nat]
      BY <2>2 DEF NoAttempt, DataOK
    <2>4. DataOK'
      BY <1>9, <2>2, <2>3 DEF TakeDevice, DataOK, row, queue, mail, history
    <2>5. next \in WorkRecords /\ next.device # NoDevice
      <3>1. row_d.count \in Nat
        BY <2>3
      <3>2. next.device = d
        BY <2>1 DEF WorkRecords
      <3>3. next \in WorkRecords
        <4> HIDE DEF row_d
        <4> QED
          BY <2>1, <2>2, <3>1, RecordTypes
      <3>4. QED
        BY <2>2, <3>2, <3>3
    <2>6. [work[w] EXCEPT !.todo = @ \ {d}] \in WorkRecords
      BY <2>1, <2>2, RecordTypes
    <2>7. CASE row_d.status = "sent"
      <3>1. Goto(w, "next", [work[w] EXCEPT !.todo = @ \ {d}]) /\ channel' = channel
        BY <1>9, <2>7 DEF TakeDevice
      <3>2. WorkersOK'
        BY <2>2, <2>6, <3>1, GotoType DEF EmailSteps, PushSteps
      <3>3. QED
        BY <2>4, <3>2
    <2>8. CASE row_d.status # "sent"
      <3>1. Goto(w, "push", next) /\ channel' = channel
        BY <1>9, <2>8 DEF TakeDevice
      <3>2. WorkersOK'
        <4> HIDE DEF next
        <4> QED
          BY <2>2, <2>5, <3>1, GotoType DEF EmailSteps, PushSteps
      <3>3. QED
        BY <2>4, <3>2
    <2>9. QED
      BY <2>7, <2>8
  <1>10. ASSUME NEW w \in Workers, NEW outcome \in Outcomes, NEW accepted \in BOOLEAN, SendPush(w, outcome, accepted)
         PROVE  TypeOK'
    <2> DEFINE step == IF outcome = "permanent" THEN "device" ELSE "attempt"
               next == [work[w] EXCEPT !.result = outcome]
    <2>1. work[w] \in WorkRecords
      BY DEF WorkersOK
    <2>2. work[w].device \in Devices \cup {NoDevice} /\ next \in WorkRecords
      BY <2>1, RecordTypes
    <2>3. work[w].device # NoDevice /\ channel = "push"
      BY <1>10 DEF SendPush, WorkersOK, PushSteps
    <2>4. next.device = work[w].device
      BY <2>1 DEF WorkRecords
    <2>5. DataOK'
      BY <1>10, <2>2, <2>3 DEF SendPush, DataOK, row, queue, mail
    <2>6. Goto(w, step, next) /\ step \in {"device", "attempt"} /\ channel' = channel
      BY <1>10 DEF SendPush
    <2>7. WorkersOK'
      <3> HIDE DEF next, step
      <3> QED
        BY <2>2, <2>3, <2>4, <2>6, GotoType DEF EmailSteps, PushSteps
    <2>8. QED
      BY <2>5, <2>7
  <1>11. ASSUME NEW w \in Workers, SaveDevice(w) PROVE TypeOK'
    <2>1. work[w] \in WorkRecords
      BY DEF WorkersOK
    <2>2. work[w].device # NoDevice /\ channel = "push"
      BY <1>11 DEF SaveDevice, WorkersOK, PushSteps
    <2>3. DataOK'
      BY <1>11 DEF SaveDevice, DataOK, row, queue, mail, history
    <2>4. WorkersOK'
      BY <1>11, <2>1, <2>2, GotoType DEF SaveDevice, EmailSteps, PushSteps
    <2>5. QED
      BY <2>3, <2>4
  <1>12. ASSUME NEW w \in Workers, SaveAttempt(w) PROVE TypeOK'
    <2> DEFINE tried == work[w].count + (IF work[w].result = "temporary" THEN 1 ELSE 0)
               again == work[w].result = "temporary" /\ tried < MaxTries
               outcome == IF work[w].result = "sent" THEN "sent" ELSE IF again THEN "queued" ELSE "failed"
               next == [NoWork EXCEPT !.todo = work[w].todo, !.again = work[w].again \/ again]
    <2>1. work[w] \in WorkRecords
      BY DEF WorkersOK
    <2>2. /\ work[w].count \in Nat /\ work[w].todo \subseteq Devices
          /\ work[w].again \/ again \in BOOLEAN
      BY <2>1, RecordTypes
    <2>3. channel = "push"
      BY <1>12 DEF SaveAttempt, WorkersOK, PushSteps
    <2>4. [status |-> outcome, count |-> tried] \in [status: {"none", "queued", "sent", "failed"}, count: Nat]
      BY <2>2
    <2>5. DataOK'
      BY <1>12, <2>4 DEF SaveAttempt, DataOK, row, queue, mail, history
    <2>6. next \in WorkRecords
      <3> HIDE DEF again
      <3> QED
        BY <2>2, NoWorkType, RecordTypes
    <2>7. Goto(w, "next", next) /\ channel' = channel
      BY <1>12 DEF SaveAttempt
    <2>8. WorkersOK'
      <3> HIDE DEF next
      <3> QED
        BY <2>3, <2>6, <2>7, GotoType DEF EmailSteps, PushSteps
    <2>9. QED
      BY <2>5, <2>8
  <1>13. ASSUME NEW w \in Workers, FinishPush(w) PROVE TypeOK'
    <2>1. Goto(w, "idle", NoWork) /\ tasks' \in Nat /\ UNCHANGED enqueued
      BY <1>13 DEF FinishPush, AskAgain, Acknowledge, Finish, DataOK, queue
    <2>2. DataOK'
      BY <1>13, <2>1 DEF FinishPush, DataOK, push, mail, history
    <2>3. WorkersOK'
      BY <1>13, <2>1, NoWorkType, GotoType DEF FinishPush, EmailSteps, PushSteps
    <2>4. QED
      BY <2>2, <2>3
  <1>14. QED
    BY <1>1, <1>2, <1>3, <1>4, <1>5, <1>6, <1>7, <1>8, <1>9, <1>10, <1>11, <1>12, <1>13 DEF Next, EmailStep, PushStep

-----------------------------------------------------------------------------
\* The part of the invariant that is about e-mail.
EmailInv ==
    /\ channel = "email" => EmailCounted
    /\ EmailOnce /\ TriesBounded /\ StatusTellsMail

\* Nothing that happens to a push row touches the e-mail history.
LEMMA PushKeeps ==
    ASSUME EmailInv, channel = "push", UNCHANGED <<channel, mails, tries, lost>>
    PROVE  EmailInv'
  BY DEF EmailInv, EmailOnce, TriesBounded, StatusTellsMail

\* Nor does a change of what EmailInv does not mention.
LEMMA OthersKeep ==
    ASSUME EmailInv, UNCHANGED <<channel, row, mail, lost, pc, work>>
    PROVE  EmailInv'
  BY DEF EmailInv, EmailOnce, TriesBounded, StatusTellsMail, EmailCounted, Holders, HeldBy, row, mail

\* What Goto does to the workers that hold the row.
LEMMA GotoHolders ==
    ASSUME TypeOK, NEW w \in Workers, NEW step, NEW record, Goto(w, step, record)
    PROVE  /\ Holders' = (Holders \ {w}) \cup (IF step \in {"send", "record"} THEN {w} ELSE {})
           /\ pc'[w] = step /\ work'[w] = record
           /\ \A v \in Workers \ {w} : pc'[v] = pc[v] /\ work'[v] = work[v]
  BY DEF TypeOK, WorkersOK, Goto, Holders

LEMMA EmailInit == Init => EmailInv
  <1> SUFFICES ASSUME Init PROVE EmailInv
    OBVIOUS
  <1>1. Holders = {}
    BY DEF Init, Holders
  <1>2. QED
    BY <1>1, DeliveryAssumption DEF Init, EmailInv, EmailCounted, EmailOnce, TriesBounded, StatusTellsMail

LEMMA EmailInvStep == TypeOK /\ EmailInv /\ [Next]_vars => EmailInv'
  <1> USE DeliveryAssumption
  <1> SUFFICES ASSUME TypeOK, EmailInv, [Next]_vars PROVE EmailInv'
    OBVIOUS
  <1>1. CASE UNCHANGED vars \/ Enqueue \/ LoseTask \/ RepeatTask
    BY <1>1, OthersKeep DEF vars, history, Enqueue, LoseTask, RepeatTask, Event
  <1>2. CASE Skip
    <2>1. CASE channel = "push"
      BY <1>2, <2>1, PushKeeps DEF Skip, mail, history
    <2>2. CASE channel = "email"
      <3>1. Holders = {}
        BY <1>2, <2>2 DEF Skip, EmailInv, EmailCounted, HeldBy
      <3>2. Holders' = {} /\ UNCHANGED <<channel, count, mails, tries, lost>> /\ status = "queued" /\ status' = "skipped"
        BY <1>2, <3>1 DEF Skip, Holders, mail, history
      <3>3. QED
        BY <2>2, <3>1, <3>2 DEF EmailInv, EmailCounted, EmailOnce, TriesBounded, StatusTellsMail
    <2>3. QED
      BY <2>1, <2>2 DEF TypeOK, DataOK
  <1>3. ASSUME NEW d \in Devices, NEW new \in {"active", "revoked"}, ChangeDevice(d, new)
        PROVE  EmailInv'
    BY <1>3, OthersKeep DEF ChangeDevice, history
  <1>4. ASSUME NEW w \in Workers, Crash(w) PROVE EmailInv'
    <2>1. UNCHANGED <<channel, row, mail, lost>> /\ Goto(w, "idle", NoWork)
      BY <1>4 DEF Crash, AskAgain
    <2>2. CASE channel = "push"
      BY <2>1, <2>2, PushKeeps DEF mail
    <2>3. CASE channel = "email" /\ w \in Holders
      <3>1. Holders = {w}
        BY <2>3 DEF EmailInv, EmailCounted
      <3>2. Holders' = {}
        BY <2>1, <3>1, GotoHolders
      <3>3. HeldBy(w) /\ pc[w] \in {"send", "record"}
        BY <2>3 DEF EmailInv, EmailCounted, Holders
      <3>4. status = "processing" /\ tries <= count + 1 /\ count < MaxTries /\ (lost \/ mails <= 1)
        BY <3>3 DEF HeldBy, TypeOK, DataOK
      <3>5. QED
        BY <2>1, <2>3, <3>2, <3>4 DEF EmailInv, EmailCounted, EmailOnce, TriesBounded, StatusTellsMail, row, mail
    <2>4. CASE channel = "email" /\ w \notin Holders
      <3>1. Holders' = Holders /\ \A v \in Holders : pc'[v] = pc[v] /\ work'[v] = work[v]
        BY <2>1, <2>4, GotoHolders DEF Holders
      <3>2. QED
        BY <2>1, <2>4, <3>1 DEF EmailInv, EmailCounted, HeldBy, EmailOnce, TriesBounded, StatusTellsMail, row, mail
    <2>5. QED
      BY <2>2, <2>3, <2>4 DEF TypeOK, DataOK
  <1>5. ASSUME NEW w \in Workers, Claim(w) PROVE EmailInv'
    <2>1. channel = "email" /\ pc[w] = "idle" /\ w \notin Holders /\ UNCHANGED <<channel, count, mails, tries, lost>>
      BY <1>5 DEF Claim, Take, Holders, mail, history
    <2>2. CASE status = "queued"
      <3>1. status' = "processing" /\ Goto(w, "send", [NoWork EXCEPT !.count = count])
        BY <1>5, <2>2 DEF Claim
      <3>2. Holders = {}
        BY <2>1, <2>2 DEF EmailInv, EmailCounted, HeldBy
      <3>3. Holders' = {w} /\ pc'[w] = "send" /\ work'[w] = [NoWork EXCEPT !.count = count]
        BY <3>1, <3>2, GotoHolders
      <3>4. HeldBy(w)'
        BY <2>1, <2>2, <3>1, <3>3 DEF HeldBy, EmailInv, EmailCounted, NoWork
      <3>5. QED
        BY <2>1, <3>1, <3>3, <3>4 DEF EmailInv, EmailCounted, EmailOnce, TriesBounded, StatusTellsMail
    <2>3. CASE status # "queued"
      <3>1. status' = status /\ Goto(w, "idle", NoWork)
        BY <1>5, <2>3 DEF Claim, Finish
      <3>2. Holders' = Holders /\ \A v \in Holders : pc'[v] = pc[v] /\ work'[v] = work[v]
        BY <2>1, <3>1, GotoHolders DEF Holders
      <3>3. QED
        BY <2>1, <3>1, <3>2 DEF EmailInv, EmailCounted, HeldBy, EmailOnce, TriesBounded, StatusTellsMail
    <2>4. QED
      BY <2>2, <2>3
  <1>6. ASSUME NEW w \in Workers, NEW outcome \in Outcomes, NEW accepted \in BOOLEAN, SendEmail(w, outcome, accepted)
        PROVE  EmailInv'
    <2>1. /\ pc[w] = "send" /\ channel = "email" /\ w \in Holders
          /\ UNCHANGED <<channel, status, count>>
          /\ tries' = tries + 1 /\ mails' = (IF accepted THEN mails + 1 ELSE mails)
          /\ lost' = (lost \/ (accepted /\ outcome # "sent"))
          /\ outcome = "sent" => accepted
          /\ Goto(w, "record", [work[w] EXCEPT !.result = outcome])
      BY <1>6 DEF SendEmail, Answers, TypeOK, WorkersOK, EmailSteps, Holders, row
    <2>2. Holders = {w} /\ HeldBy(w)
      BY <2>1 DEF EmailInv, EmailCounted
    <2>3. Holders' = {w} /\ pc'[w] = "record" /\ work'[w] = [work[w] EXCEPT !.result = outcome]
      BY <2>1, <2>2, GotoHolders
    <2>4. /\ work[w] \in WorkRecords /\ outcome # "none"
          /\ work'[w].result = outcome /\ work'[w].count = work[w].count
      BY <2>3 DEF TypeOK, WorkersOK, WorkRecords, Outcomes
    <2>5. tries = count /\ (lost \/ mails = 0) /\ count < MaxTries /\ status = "processing" /\ work[w].count = count
      BY <2>1, <2>2 DEF HeldBy
    <2>6. lost' \/ mails' = (IF outcome = "sent" THEN 1 ELSE 0)
      BY <2>1, <2>5 DEF TypeOK, DataOK
    <2>7. outcome = "sent" => mails' >= 1
      BY <2>1 DEF TypeOK, DataOK
    <2>8. HeldBy(w)'
      BY <2>1, <2>3, <2>4, <2>5, <2>6, <2>7 DEF HeldBy
    <2>9. EmailOnce' /\ TriesBounded' /\ StatusTellsMail'
      BY <2>1, <2>5, <2>6 DEF EmailOnce, TriesBounded, StatusTellsMail, TypeOK, DataOK
    <2>10. QED
      BY <2>1, <2>3, <2>5, <2>8, <2>9 DEF EmailInv, EmailCounted
  <1>7. ASSUME NEW w \in Workers, RecordEmail(w) PROVE EmailInv'
    <2>1. /\ pc[w] = "record" /\ channel = "email" /\ w \in Holders
          /\ UNCHANGED <<channel, mails, tries, lost>>
          /\ count' = work[w].count + 1
          /\ Goto(w, "idle", NoWork)
      BY <1>7 DEF RecordEmail, AskAgain, Acknowledge, Finish, TypeOK, WorkersOK, EmailSteps, Holders, mail, history
    <2>2. status' = IF work[w].result = "sent" THEN "sent"
                    ELSE IF work[w].result = "permanent" \/ count' >= MaxTries THEN "failed" ELSE "queued"
      BY <1>7 DEF RecordEmail
    <2>3. Holders = {w} /\ HeldBy(w)
      BY <2>1 DEF EmailInv, EmailCounted
    <2>4. Holders' = {}
      BY <2>1, <2>3, GotoHolders
    <2>5. /\ tries = count' /\ count < MaxTries /\ count' = count + 1
          /\ work[w].result = "sent" => mails >= 1
          /\ lost \/ mails = (IF work[w].result = "sent" THEN 1 ELSE 0)
      BY <2>1, <2>3 DEF HeldBy
    <2>6. CASE work[w].result = "sent"
      <3>1. status' = "sent"
        BY <2>2, <2>6
      <3>2. QED
        BY <2>1, <2>4, <2>5, <2>6, <3>1 DEF EmailInv, EmailCounted, EmailOnce, TriesBounded, StatusTellsMail
    <2>7. CASE work[w].result # "sent" /\ (work[w].result = "permanent" \/ count' >= MaxTries)
      BY <2>1, <2>2, <2>4, <2>5, <2>7 DEF EmailInv, EmailCounted, EmailOnce, TriesBounded, StatusTellsMail
    <2>8. CASE work[w].result # "sent" /\ work[w].result # "permanent" /\ count' < MaxTries
      <3>1. status' = "queued"
        BY <2>1, <2>2, <2>5, <2>8 DEF TypeOK, DataOK
      <3>2. QED
        BY <2>1, <2>4, <2>5, <2>8, <3>1 DEF EmailInv, EmailCounted, EmailOnce, TriesBounded, StatusTellsMail
    <2>9. QED
      BY <2>1, <2>5, <2>6, <2>7, <2>8 DEF TypeOK, DataOK
  <1>8. ASSUME NEW w \in Workers, PushStep(w) PROVE EmailInv'
    <2>1. channel = "push" /\ UNCHANGED <<channel, mails, tries, lost>>
      BY <1>8 DEF PushStep, ListDevices, SaveDevice, SaveAttempt, FinishPush, TakeDevice, SendPush,
                  TypeOK, WorkersOK, PushSteps, mail, history
    <2>2. QED
      BY <2>1, PushKeeps
  <1>9. QED
    BY <1>1, <1>2, <1>3, <1>4, <1>5, <1>6, <1>7, <1>8 DEF Next, EmailStep

-----------------------------------------------------------------------------
\* IInv is an invariant: the two parts above together.
THEOREM InvariantHolds == Spec => []IInv
  <1>1. Init => IInv
    BY TypeInit, EmailInit DEF IInv, EmailInv
  <1>2. IInv /\ [Next]_vars => IInv'
    <2> SUFFICES ASSUME IInv, [Next]_vars PROVE IInv'
      OBVIOUS
    <2>1. TypeOK /\ EmailInv
      BY DEF IInv, EmailInv
    <2>2. TypeOK' /\ EmailInv'
      BY <2>1, TypeStep, EmailInvStep
    <2>3. QED
      BY <2>2 DEF IInv, EmailInv
  <1>3. QED
    BY <1>1, <1>2, PTL DEF Spec

\* Every variable keeps its type, and each callback has what it works on.
THEOREM TypeCorrect == Spec => []TypeOK
  <1>1. IInv => TypeOK
    BY DEF IInv
  <1>2. QED
    BY <1>1, InvariantHolds, PTL

\* However often its task is repeated and wherever threads die, one row is
\* accepted as one e-mail, unless an answer of the provider is lost
\* (_claim_delivery).
THEOREM EmailOnceHolds == Spec => []EmailOnce
  <1>1. IInv => EmailOnce
    BY DEF IInv
  <1>2. QED
    BY <1>1, InvariantHolds, PTL

\* The provider is called at most MaxTries times for one row
\* (process_email_delivery).
THEOREM TriesBoundedHolds == Spec => []TriesBounded
  <1>1. IInv => TriesBounded
    BY DEF IInv
  <1>2. QED
    BY <1>1, InvariantHolds, PTL

\* What is skipped is never mailed, whatever task or worker is on its way
\* (cancel_notification, _claim_delivery).
THEOREM SkippedStaysUnsentHolds == Spec => SkippedStaysUnsent
  <1>1. IInv /\ [Next]_vars => [channel = "email" /\ status = "skipped" => mails' = mails /\ status' = status]_vars
    <2> SUFFICES ASSUME IInv, Next, channel = "email", status = "skipped"
                 PROVE  mails' = mails /\ status' = status
      OBVIOUS
    <2>1. Holders = {}
      BY DEF IInv, EmailCounted, HeldBy
    <2>2. ASSUME NEW w \in Workers PROVE pc[w] = "idle"
      BY <2>1 DEF IInv, TypeOK, WorkersOK, EmailSteps, PushSteps, Holders
    <2>3. CASE Enqueue \/ LoseTask \/ RepeatTask \/ Skip
      BY <2>3 DEF Enqueue, LoseTask, RepeatTask, Skip, row, mail
    <2>4. ASSUME NEW w \in Workers, EmailStep(w) \/ PushStep(w) \/ Crash(w)
          PROVE  mails' = mails /\ status' = status
      <3>1. pc[w] = "idle"
        BY <2>2
      <3>2. Claim(w)
        BY <2>4, <3>1 DEF EmailStep, PushStep, Crash, RecordEmail, SendEmail, ListDevices, SaveDevice,
                          SaveAttempt, FinishPush, TakeDevice, SendPush
      <3>3. QED
        BY <3>2 DEF Claim, mail
    <2>5. ASSUME NEW d \in Devices, NEW new \in {"active", "revoked"}, ChangeDevice(d, new)
          PROVE  mails' = mails /\ status' = status
      BY <2>5 DEF ChangeDevice, row, mail
    <2>6. QED
      BY <2>3, <2>4, <2>5 DEF Next
  <1>2. QED
    BY <1>1, InvariantHolds, PTL DEF Spec, SkippedStaysUnsent

-----------------------------------------------------------------------------
(* Every device that was active all along is reached *)

Settled(d) == attempt[d].status \in {"sent", "failed"}
Coming(d) == enqueued # "done" \/ tasks > 0 \/ \E w \in Workers : Serves(w, d)

\* The step of one callback takes nothing from the others: a device is settled,
\* or still to be visited, if the callback that moves sees to its own.
LEMMA CallbackKeeps ==
    ASSUME TypeOK, PushInv, channel = "push", NEW w \in Workers, NEW step, NEW record, Goto(w, step, record),
           channel' = channel, steady' \subseteq steady, steady' \subseteq Active',
           enqueued' = enqueued, tasks' \in Nat,
           NEW d \in steady',
           Settled(d) => Settled(d)' \/ Coming(d)',
           Serves(w, d) => Settled(d)' \/ Coming(d)',
           tasks > 0 => Coming(d)'
    PROVE  Settled(d)' \/ Coming(d)'
  <1>1. Settled(d) \/ Coming(d)
    BY DEF PushInv, Settled, Coming
  <1>2. ASSUME NEW v \in Workers \ {w}, Serves(v, d) PROVE Serves(v, d)'
    BY <1>2, GotoHolders DEF Serves
  <1>3. CASE \E v \in Workers \ {w} : Serves(v, d)
    BY <1>2, <1>3 DEF Coming
  <1>4. CASE enqueued # "done"
    BY <1>4 DEF Coming
  <1>5. QED
    BY <1>1, <1>3, <1>4 DEF Coming

\* A callback begins: the list it makes holds every device active all along.
LEMMA ListDevicesKeeps ==
    ASSUME TypeOK, PushInv, NEW w \in Workers, ListDevices(w)
    PROVE  PushInv'
  <1>1. /\ channel = "push" /\ channel' = channel /\ enqueued' = enqueued
        /\ UNCHANGED <<subscription, attempt, steady>>
        /\ steady \subseteq Active
    BY DEF ListDevices, Take, push, PushInv
  <1>2. SUFFICES ASSUME NEW d \in steady PROVE Coming(d)'
    BY <1>1 DEF PushInv, Coming, Active
  <1>3. Goto(w, "next", [NoWork EXCEPT !.todo = Active])
    BY <1>1 DEF ListDevices
  <1>4. pc'[w] = "next" /\ work'[w] = [NoWork EXCEPT !.todo = Active]
    BY <1>3, GotoHolders
  <1>5. QED
    BY <1>1, <1>4 DEF Coming, Serves, NoWork, PushSteps

\* It goes from one device to the next.
LEMMA VisitKeeps ==
    ASSUME TypeOK, PushInv, NEW w \in Workers,
           \/ SaveDevice(w) \/ SaveAttempt(w)
           \/ \E d \in work[w].todo : TakeDevice(w, d)
           \/ \E outcome \in Outcomes, accepted \in BOOLEAN : SendPush(w, outcome, accepted)
    PROVE  PushInv'
  <1>1. /\ channel = "push" /\ pc[w] \in PushSteps
        /\ UNCHANGED <<channel, enqueued, tasks>>
        /\ work[w] \in WorkRecords /\ work[w].todo \subseteq Devices
    BY DEF TypeOK, WorkersOK, WorkRecords, SaveDevice, SaveAttempt, TakeDevice, SendPush, PushSteps, queue
  <1>2. steady \subseteq Active /\ steady \subseteq Devices /\ \A d \in steady : Settled(d) \/ Coming(d)
    BY <1>1 DEF PushInv, Settled, Coming, Active, TypeOK, DataOK
  <1>3. ASSUME NEW d, tasks > 0 PROVE Coming(d)'
    BY <1>1, <1>3 DEF Coming
  <1>4. CASE SaveDevice(w)
    <2>1. /\ Goto(w, "attempt", work[w]) /\ UNCHANGED attempt /\ steady' = steady \ {work[w].device}
          /\ subscription' = [subscription EXCEPT ![work[w].device] = "invalid"] /\ pc[w] = "device"
      BY <1>4 DEF SaveDevice
    <2>2. steady' \subseteq steady /\ steady' \subseteq Active'
      BY <1>2, <2>1 DEF Active, TypeOK, DataOK
    <2>3. pc'[w] = "attempt" /\ work'[w] = work[w]
      BY <2>1, GotoHolders
    <2>4. ASSUME NEW d \in steady' PROVE Settled(d)' \/ Coming(d)'
      <3>1. Settled(d) => Settled(d)'
        BY <2>1 DEF Settled
      <3>2. Serves(w, d) => Coming(d)'
        BY <2>1, <2>3 DEF Serves, Coming, PushSteps
      <3>3. QED
        BY <1>1, <1>3, <2>1, <2>2, <2>4, <3>1, <3>2, CallbackKeeps DEF TypeOK, DataOK
    <2>5. QED
      BY <2>2, <2>4 DEF PushInv, Settled, Coming
  <1>5. CASE SaveAttempt(w)
    <2> DEFINE tried == work[w].count + (IF work[w].result = "temporary" THEN 1 ELSE 0)
               again == work[w].result = "temporary" /\ tried < MaxTries
               outcome == IF work[w].result = "sent" THEN "sent" ELSE IF again THEN "queued" ELSE "failed"
               record == [NoWork EXCEPT !.todo = work[w].todo, !.again = work[w].again \/ again]
    <2>1. /\ Goto(w, "next", record) /\ UNCHANGED <<subscription, steady>>
          /\ attempt' = [attempt EXCEPT ![work[w].device] = [status |-> outcome, count |-> tried]]
          /\ pc[w] = "attempt"
      BY <1>5 DEF SaveAttempt
    <2>2. record.todo = work[w].todo /\ record.again = (work[w].again \/ again)
      BY DEF NoWork
    <2>3. outcome \in {"sent", "failed"} \/ again
      OBVIOUS
    <2> HIDE DEF record, outcome, again, tried
    <2>4. pc'[w] = "next" /\ work'[w] = record
      BY <2>1, GotoHolders
    <2>5. steady' \subseteq Active' /\ steady' = steady
      BY <1>2, <2>1 DEF Active
    <2>6. ASSUME NEW d \in steady' PROVE Settled(d)' \/ Coming(d)'
      <3>1. CASE d = work[w].device
        <4>1. again => Coming(d)'
          BY <2>2, <2>4 DEF Coming, Serves, PushSteps
        <4>2. outcome \in {"sent", "failed"} => Settled(d)'
          BY <1>2, <2>1, <2>5, <3>1 DEF Settled, TypeOK, DataOK
        <4>3. QED
          BY <2>3, <4>1, <4>2
      <3>2. CASE d # work[w].device
        <4>1. Settled(d) => Settled(d)'
          BY <1>2, <2>1, <2>5, <3>2 DEF Settled, TypeOK, DataOK
        <4>2. Serves(w, d) => Coming(d)'
          BY <2>1, <2>2, <2>4, <3>2 DEF Serves, Coming, PushSteps
        <4>3. QED
          BY <1>1, <1>3, <2>1, <2>5, <4>1, <4>2, CallbackKeeps DEF TypeOK, DataOK
      <3>3. QED
        BY <3>1, <3>2
    <2>7. QED
      BY <2>5, <2>6 DEF PushInv, Settled, Coming
  <1>6. CASE \E d \in work[w].todo : TakeDevice(w, d)
    <2>1. PICK x \in work[w].todo : TakeDevice(w, x)
      BY <1>6
    <2> DEFINE row_x == IF attempt[x] = NoAttempt THEN [NoAttempt EXCEPT !.status = "queued"] ELSE attempt[x]
               passed == [work[w] EXCEPT !.todo = @ \ {x}]
               taken == [work[w] EXCEPT !.todo = @ \ {x}, !.device = x, !.count = row_x.count]
    <2>2. /\ pc[w] = "next" /\ attempt' = [attempt EXCEPT ![x] = row_x]
          /\ UNCHANGED <<subscription, steady>>
          /\ IF row_x.status = "sent" THEN Goto(w, "next", passed) ELSE Goto(w, "push", taken)
      BY <2>1 DEF TakeDevice
    <2>3. /\ passed.todo = work[w].todo \ {x} /\ passed.again = work[w].again
          /\ taken.todo = work[w].todo \ {x} /\ taken.again = work[w].again /\ taken.device = x
      BY <1>1 DEF WorkRecords
    <2>4. Settled(x) => row_x = attempt[x]
      BY DEF Settled, NoAttempt
    <2> HIDE DEF row_x, passed, taken
    <2>5. x \in Devices /\ attempt'[x] = row_x /\ \A d \in Devices \ {x} : attempt'[d] = attempt[d]
      BY <1>1, <2>2 DEF TypeOK, DataOK
    <2>6. steady' = steady /\ steady' \subseteq Active'
      BY <1>2, <2>2 DEF Active
    <2>7. PICK step \in {"next", "push"}, record \in {passed, taken} :
            /\ Goto(w, step, record)
            /\ \/ step = "next" /\ record = passed /\ row_x.status = "sent"
               \/ step = "push" /\ record = taken
      BY <2>2
    <2>8. pc'[w] = step /\ work'[w] = record
      BY <2>7, GotoHolders
    <2>9. ASSUME NEW d \in steady' PROVE Settled(d)' \/ Coming(d)'
      <3>1. Settled(d) => Settled(d)'
        BY <1>2, <2>4, <2>5, <2>6 DEF Settled
      <3>2. Serves(w, d) => Settled(d)' \/ Coming(d)'
        <4>1. CASE d = x
          BY <2>3, <2>5, <2>7, <2>8, <4>1 DEF Settled, Coming, Serves, PushSteps
        <4>2. CASE d # x
          BY <2>2, <2>3, <2>7, <2>8, <4>2 DEF Coming, Serves, PushSteps
        <4>3. QED
          BY <4>1, <4>2
      <3>3. QED
        BY <1>1, <1>3, <2>6, <2>7, <3>1, <3>2, CallbackKeeps DEF TypeOK, DataOK
    <2>10. QED
      BY <2>6, <2>9 DEF PushInv, Settled, Coming
  <1>7. CASE \E outcome \in Outcomes, accepted \in BOOLEAN : SendPush(w, outcome, accepted)
    <2>1. PICK outcome \in Outcomes, accepted \in BOOLEAN : SendPush(w, outcome, accepted)
      BY <1>7
    <2> DEFINE step == IF outcome = "permanent" THEN "device" ELSE "attempt"
               record == [work[w] EXCEPT !.result = outcome]
    <2>2. Goto(w, step, record) /\ UNCHANGED <<subscription, attempt, steady>> /\ pc[w] = "push"
      BY <2>1 DEF SendPush
    <2>3. record.todo = work[w].todo /\ record.again = work[w].again /\ record.device = work[w].device
      BY <1>1 DEF WorkRecords
    <2>4. step \in {"device", "attempt"}
      OBVIOUS
    <2> HIDE DEF step, record
    <2>5. pc'[w] = step /\ work'[w] = record
      BY <2>2, GotoHolders
    <2>6. steady' = steady /\ steady' \subseteq Active'
      BY <1>2, <2>2 DEF Active
    <2>7. ASSUME NEW d \in steady' PROVE Settled(d)' \/ Coming(d)'
      <3>1. Settled(d) => Settled(d)'
        BY <2>2 DEF Settled
      <3>2. Serves(w, d) => Coming(d)'
        BY <2>2, <2>3, <2>4, <2>5 DEF Serves, Coming, PushSteps
      <3>3. QED
        BY <1>1, <1>3, <2>2, <2>6, <3>1, <3>2, CallbackKeeps DEF TypeOK, DataOK
    <2>8. QED
      BY <2>6, <2>7 DEF PushInv, Settled, Coming
  <1>8. QED
    BY <1>4, <1>5, <1>6, <1>7

\* It ends: while a device has tries left the task comes again.
LEMMA EndKeeps ==
    ASSUME TypeOK, PushInv, NEW w \in Workers, FinishPush(w) \/ Crash(w)
    PROVE  PushInv'
  <1>1. /\ UNCHANGED <<channel, enqueued, subscription, attempt, steady>> /\ tasks \in Nat
        /\ Goto(w, "idle", NoWork)
        /\ \/ tasks' = tasks + 1
           \/ /\ tasks' = tasks /\ pc[w] = "next" /\ work[w].todo = {} /\ ~work[w].again
    BY DEF FinishPush, Crash, AskAgain, Acknowledge, Finish, push, queue, TypeOK, DataOK
  <1>2. SUFFICES ASSUME channel = "push", NEW d \in steady PROVE Settled(d)' \/ Coming(d)'
    BY <1>1 DEF PushInv, Settled, Coming, Active
  <1>3. CASE tasks' = tasks + 1
    BY <1>1, <1>3 DEF Coming
  <1>4. CASE tasks' = tasks
    <2>1. ~Serves(w, d)
      BY <1>1, <1>4 DEF Serves
    <2>2. steady' \subseteq Active'
      BY <1>1, <1>2 DEF PushInv, Active
    <2>3. Settled(d) => Settled(d)'
      BY <1>1 DEF Settled
    <2>4. QED
      BY <1>1, <1>2, <1>4, <2>1, <2>2, <2>3, CallbackKeeps DEF Coming
  <1>5. QED
    BY <1>1, <1>3, <1>4

\* The invariant that a device active all along is settled or someone is still
\* to come: the queue, or a callback that has it on its list or asks for the
\* task again (process_push_delivery, PushProcessDeliveryView).
THEOREM PushInvHolds == Spec => []PushInv
  <1>1. Init => PushInv
    BY DEF Init, PushInv
  <1>2. TypeOK /\ PushInv /\ [Next]_vars => PushInv'
    <2> SUFFICES ASSUME TypeOK, PushInv, [Next]_vars PROVE PushInv'
      OBVIOUS
    <2>1. CASE UNCHANGED vars
      BY <2>1 DEF PushInv, Active, Serves, vars, queue, push
    <2>2. CASE Enqueue \/ LoseTask \/ RepeatTask \/ Skip
      <3>1. /\ UNCHANGED <<channel, push, pc, work>> /\ tasks' >= tasks /\ tasks \in Nat /\ tasks' \in Nat
            /\ \/ enqueued' = enqueued \/ enqueued' # "done" \/ tasks' > 0
        BY <2>2 DEF Enqueue, LoseTask, RepeatTask, Skip, queue, TypeOK, DataOK
      <3>2. QED
        BY <3>1 DEF PushInv, Active, Serves, push
    <2>3. ASSUME NEW d \in Devices, NEW new \in {"active", "revoked"}, ChangeDevice(d, new)
          PROVE  PushInv'
      <3>1. /\ UNCHANGED <<channel, queue, attempt, pc, work>> /\ channel = "push"
            /\ subscription' = [subscription EXCEPT ![d] = new] /\ steady' = steady \ {d}
        BY <2>3 DEF ChangeDevice
      <3>2. steady' \subseteq Active'
        BY <3>1 DEF PushInv, Active, TypeOK, DataOK
      <3>3. QED
        BY <3>1, <3>2 DEF PushInv, Serves, queue
    <2>4. ASSUME NEW w \in Workers, EmailStep(w) PROVE PushInv'
      BY <2>4 DEF EmailStep, Claim, RecordEmail, SendEmail, PushInv, TypeOK, WorkersOK, EmailSteps
    <2>5. ASSUME NEW w \in Workers, PushStep(w) \/ Crash(w) PROVE PushInv'
      BY <2>5, ListDevicesKeeps, VisitKeeps, EndKeeps DEF PushStep
    <2>6. QED
      BY <2>1, <2>2, <2>3, <2>4, <2>5 DEF Next
  <1>3. QED
    BY <1>1, <1>2, TypeCorrect, PTL DEF Spec

\* When the queue has nothing left, every device that was active all along was
\* reached or has used up its tries, for any devices and threads, in whatever
\* order callbacks run, overlap and die (process_push_delivery).
THEOREM PushReachesAllHolds == Spec => []PushReachesAll
  <1>1. PushInv => PushReachesAll
    BY DEF PushInv, PushReachesAll, Serves, PushSteps
  <1>2. QED
    BY <1>1, PushInvHolds, PTL
=============================================================================
