----------------------- MODULE SessionReminderProofs -----------------------
(***************************************************************************)
(* Proofs about SessionReminders for any reminders, offsets, start times   *)
(* and threads.  No interleaving of edits, cancellations and sweeps, and   *)
(* no crash, makes a student receive a reminder before it is due (IInv);   *)
(* and requests that do not overlap leave the reminders in agreement with  *)
(* the session and with what was delivered (LoneInv).                      *)
(***************************************************************************)
EXTENDS SessionReminders, TLAPS

\* What one worker's step leaves of the others, and of its own list.
Others(w) == \A v \in Workers \ {w} : pc'[v] = pc[v] /\ work'[v] = work[v]

-----------------------------------------------------------------------------
(* The moves of a worker keep its record well-typed *)

LEMMA NoWorkType == NoWork \in WorkRecords /\ NoWork.todo = {}
  BY DEF NoWork, WorkRecords, Statuses

LEMMA FinishMove ==
  ASSUME WorkersOK, NEW w \in Workers, Finish(w)
  PROVE  WorkersOK' /\ Others(w) /\ pc'[w] = "idle"
  BY NoWorkType DEF WorkersOK, Finish, Others, Steps, AtEntry, Sweeping

LEMMA GotoMove ==
  ASSUME WorkersOK, NEW w \in Workers, NEW step \in Steps, Goto(w, step),
         step \in AtEntry => pc[w] \in AtEntry
  PROVE  /\ WorkersOK' /\ Others(w)
         /\ pc'[w] = step /\ work'[w] = work[w]
  BY DEF WorkersOK, Goto, Others

LEMMA RecordMove ==
  ASSUME WorkersOK, NEW w \in Workers, NEW step \in Steps, NEW record \in WorkRecords,
         pc' = [pc EXCEPT ![w] = step], work' = [work EXCEPT ![w] = record],
         step \in AtEntry => record.at # NoEntry
  PROVE  /\ WorkersOK' /\ Others(w)
         /\ pc'[w] = step /\ work'[w] = record
  BY DEF WorkersOK, Others

LEMMA TakeMove ==
  ASSUME WorkersOK, NEW w \in Workers, NEW step \in Steps, NEW e, Take(w, step, e)
  PROVE  /\ WorkersOK' /\ Others(w)
         /\ pc'[w] = step /\ e \in work[w].todo /\ e \in Entries
         /\ work'[w].todo \subseteq work[w].todo /\ work'[w].at = e
<1> DEFINE record == [work[w] EXCEPT !.todo = work[w].todo \ {e}, !.at = e]
<1>1. work[w] \in WorkRecords /\ e \in work[w].todo
  BY DEF WorkersOK, Take
<1>2. e \in Entries /\ e # NoEntry
  BY <1>1, ReminderAssumption DEF WorkRecords, Entries
<1>3. record \in WorkRecords /\ record.todo \subseteq work[w].todo /\ record.at = e
  BY <1>1, <1>2 DEF WorkRecords
<1>4. pc' = [pc EXCEPT ![w] = step] /\ work' = [work EXCEPT ![w] = record]
  BY DEF Take, WorkersOK
<1> HIDE DEF record
<1> QED BY <1>1, <1>2, <1>3, <1>4, RecordMove

LEMMA AdvanceMove ==
  ASSUME WorkersOK, NEW w \in Workers, NEW step \in Steps \ AtEntry,
         NEW last \in Steps \ AtEntry, Advance(w, step, last)
  PROVE  /\ WorkersOK' /\ Others(w)
         /\ \/ pc'[w] = "idle"
            \/ /\ pc'[w] \in {step, last}
               /\ work'[w].todo = work[w].todo
               /\ work[w].todo = {} => pc'[w] = last
<1>1. CASE Finish(w)
  BY <1>1, FinishMove
<1>2. CASE ~Finish(w)
  <2> DEFINE record == [work[w] EXCEPT !.at = NoEntry]
             next == IF work[w].todo = {} THEN last ELSE step
  <2>1. record \in WorkRecords /\ record.todo = work[w].todo
    BY DEF WorkersOK, WorkRecords
  <2>2. pc' = [pc EXCEPT ![w] = next] /\ work' = [work EXCEPT ![w] = record]
    BY <1>2 DEF Advance, WorkersOK
  <2>3. next \in Steps /\ next \notin AtEntry /\ next \in {step, last}
    OBVIOUS
  <2>4. work[w].todo = {} => next = last
    OBVIOUS
  <2> HIDE DEF record, next
  <2> QED BY <2>1, <2>2, <2>3, <2>4, RecordMove
<1> QED BY <1>1, <1>2

LEMMA EnterMove ==
  ASSUME WorkersOK, calm \in BOOLEAN, NEW w \in Workers, NEW step \in Steps \ AtEntry,
         NEW record \in WorkRecords, Enter(w, step, record)
  PROVE  /\ WorkersOK' /\ Others(w) /\ calm' \in BOOLEAN
         /\ pc'[w] = step /\ work'[w] = record
  BY RecordMove DEF Enter

-----------------------------------------------------------------------------
(* Keys are used once *)

SweepSteps == {"sweep"} \cup Sweeping

\* A step leaves each row its key and start, or removes it, or inserts a row
\* under the next key.
RowsKept ==
    /\ now' = now /\ nextId' \in {nextId, nextId + 1}
    /\ \A k \in Kinds :
          /\ \/ row'[k].id = row[k].id /\ row'[k].start = row[k].start
             \/ row'[k].id = 0
             \/ row'[k].id = nextId /\ nextId' = nextId + 1
          /\ row'[k].status = "scheduled" => row'[k].id # 0

LEMMA ListedType ==
  ASSUME WorkersOK, NEW w \in Workers
  PROVE  Listed(w) \subseteq Entries
  BY DEF WorkersOK, Listed, WorkRecords, Entries, AtEntry

LEMMA NotListed ==
  ASSUME NEW w \in Workers, pc'[w] \notin SweepSteps
  PROVE  Listed(w)' \subseteq Listed(w)
  BY DEF Listed, SweepSteps

\* The worker is still in the loop of a sweep, and its list has not grown.
LEMMA ListShrinks ==
  ASSUME NEW w \in Workers, pc[w] \in SweepSteps, pc'[w] \in SweepSteps,
         work'[w].todo \subseteq work[w].todo,
         pc'[w] \in Sweeping => work'[w].at \in Listed(w)
  PROVE  Listed(w)' \subseteq Listed(w)
  BY DEF Listed, SweepSteps

\* The invariant follows from what a step does to the rows and to the list of
\* its own worker.
LEMMA StepKeeps ==
  ASSUME IInv, NEW w \in Workers, WorkersOK', Others(w), DataOK', RowsKept,
         Listed(w)' \subseteq Listed(w),
         NeverEarly'
  PROVE  IInv'
<1>1. ASSUME NEW v \in Workers PROVE Listed(v)' \subseteq Listed(v)
  <2>1. CASE v = w
    BY <2>1
  <2>2. CASE v # w
    BY <2>2 DEF Others, Listed
  <2> QED BY <2>1, <2>2
<1>2. ASSUME NEW k \in Kinds
      PROVE  row'[k].id < nextId' /\ (row'[k].status = "scheduled" => row'[k].id # 0)
  BY DEF IInv, KeysUsedOnce, RowsKept, TypeOK, DataOK, Rows
<1>3. ASSUME NEW v \in Workers, NEW e \in Listed(v)'
      PROVE  /\ e.id \in 1 .. (nextId' - 1)
             /\ Present(e)' => Due(e.kind, row'[e.kind].start) <= now'
  <2>1. /\ e \in Entries /\ e.id \in 1 .. (nextId - 1)
        /\ Present(e) => Due(e.kind, row[e.kind].start) <= now
    BY <1>1, <1>3, ListedType DEF IInv, TypeOK, KeysUsedOnce
  <2>2. e.kind \in Kinds /\ e.id # 0 /\ e.id # nextId
    BY <2>1 DEF Entries, IInv, TypeOK, DataOK
  <2>3. nextId \in Nat /\ nextId' \in Nat
    BY DEF IInv, TypeOK, DataOK
  <2>4. e.id \in 1 .. (nextId' - 1)
    BY <2>1, <2>3 DEF RowsKept
  <2>5. ASSUME row'[e.kind].id = e.id PROVE row[e.kind].id = e.id /\ row'[e.kind].start = row[e.kind].start
    BY <2>2, <2>5 DEF RowsKept
  <2> QED BY <2>1, <2>4, <2>5 DEF Present, RowsKept
<1> QED BY <1>2, <1>3 DEF IInv, TypeOK, KeysUsedOnce

\* A step that leaves the rows alone and does not sweep.
LEMMA QuietStep ==
  ASSUME IInv, NEW w \in Workers, WorkersOK', Others(w), pc'[w] \notin SweepSteps,
         UNCHANGED <<now, row, nextId, received>>, inAppOn' \in BOOLEAN,
         session' \in [status: Statuses, start: Nat],
         attempt' \in {"none", "in_progress", "submitted"},
         access' \in {"always", "lost", "again"},
         calm' \in BOOLEAN, events' \in Nat
  PROVE  IInv'
<1>1. RowsKept /\ DataOK'
  BY DEF IInv, TypeOK, DataOK, RowsKept, KeysUsedOnce
<1>2. NeverEarly'
  BY DEF IInv, NeverEarly
<1> QED BY <1>1, <1>2, NotListed, StepKeeps

\* A step that changes one row in its status or delivery, or removes it.
LEMMA RowStep ==
  ASSUME IInv, NEW w \in Workers, WorkersOK', Others(w), Listed(w)' \subseteq Listed(w),
         RequestFrame, UNCHANGED <<session, attempt>>, NEW k \in Kinds, NEW r \in Rows,
         row' = [row EXCEPT ![k] = r],
         r.id = 0 \/ (r.id = row[k].id /\ r.start = row[k].start),
         r.status = "scheduled" => r.id = row[k].id /\ row[k].status = "scheduled"
  PROVE  IInv'
<1>1. RowsKept /\ DataOK'
  BY DEF IInv, TypeOK, DataOK, RowsKept, KeysUsedOnce, RequestFrame
<1>2. NeverEarly'
  BY DEF IInv, NeverEarly, RequestFrame
<1> QED BY <1>1, <1>2, StepKeeps

\* A step that changes no row.
LEMMA NoRowStep ==
  ASSUME IInv, NEW w \in Workers, WorkersOK', Others(w), Listed(w)' \subseteq Listed(w),
         RequestFrame, UNCHANGED <<session, attempt, row>>
  PROVE  IInv'
<1>1. RowsKept /\ DataOK'
  BY DEF IInv, TypeOK, DataOK, RowsKept, KeysUsedOnce, RequestFrame
<1>2. NeverEarly'
  BY DEF IInv, NeverEarly, RequestFrame
<1> QED BY <1>1, <1>2, StepKeeps

-----------------------------------------------------------------------------
(* Requests begin *)

LEMMA RequestKeeps ==
  ASSUME IInv, NEW w \in Workers, NEW step \in Steps \ (AtEntry \cup SweepSteps),
         NEW record \in WorkRecords, Request(w, step, record)
  PROVE  IInv'
<1>1. WorkersOK /\ calm \in BOOLEAN /\ events \in Nat /\ Enter(w, step, record)
  BY DEF IInv, TypeOK, DataOK, Request
<1>2. WorkersOK' /\ Others(w) /\ calm' \in BOOLEAN /\ pc'[w] = step
  BY <1>1, EnterMove
<1>3. /\ UNCHANGED <<now, row, nextId, received, session, attempt, access, inAppOn>>
      /\ events' \in Nat
  BY <1>1 DEF Request, Event
<1> QED BY <1>2, <1>3, QuietStep DEF IInv, TypeOK, DataOK

LEMMA RequestsKeep ==
  ASSUME IInv, NEW w \in Workers, NEW start \in Starts,
         \/ CreateSession(w, start) \/ BeginEdit(w, start)
         \/ BeginCancel(w) \/ BeginDestroy(w) \/ BeginStart(w)
  PROVE  IInv'
<1>1. /\ WorkersOK /\ calm \in BOOLEAN /\ start \in Nat
      /\ session.status \in Statuses /\ session.start \in Nat
  BY ReminderAssumption DEF IInv, TypeOK, DataOK
<1>2. CASE CreateSession(w, start)
  <2> DEFINE record == [NoWork EXCEPT !.start = start]
  <2>1. record \in WorkRecords
    BY <1>1, NoWorkType DEF WorkRecords
  <2>2. "schedule" \in Steps \ AtEntry /\ "schedule" \notin SweepSteps
    BY DEF Steps, AtEntry, Sweeping, SweepSteps
  <2>3. Enter(w, "schedule", record)
    BY <1>2 DEF CreateSession
  <2>4. /\ session' \in [status: Statuses, start: Nat]
        /\ UNCHANGED <<now, attempt, row, nextId, access, inAppOn, received, events>>
    BY <1>1, <1>2 DEF CreateSession, Statuses
  <2> HIDE DEF record
  <2>5. WorkersOK' /\ Others(w) /\ calm' \in BOOLEAN /\ pc'[w] = "schedule"
    BY <1>1, <2>1, <2>2, <2>3, EnterMove
  <2> QED BY <2>2, <2>4, <2>5, QuietStep DEF IInv, TypeOK, DataOK
<1>3. CASE BeginEdit(w, start)
  <2>1. [NoWork EXCEPT !.status = session.status, !.start = start] \in WorkRecords
    BY <1>1, NoWorkType DEF WorkRecords
  <2>2. "edit_check" \in Steps \ (AtEntry \cup SweepSteps)
    BY DEF Steps, AtEntry, Sweeping, SweepSteps
  <2> QED BY <1>3, <2>1, <2>2, RequestKeeps DEF BeginEdit
<1>4. CASE BeginCancel(w)
  <2>1. "cancel_save" \in Steps \ (AtEntry \cup SweepSteps)
    BY DEF Steps, AtEntry, Sweeping, SweepSteps
  <2> QED BY <1>4, <2>1, NoWorkType, RequestKeeps DEF BeginCancel
<1>5. CASE BeginDestroy(w)
  <2>1. "destroy" \in Steps \ (AtEntry \cup SweepSteps)
    BY DEF Steps, AtEntry, Sweeping, SweepSteps
  <2> QED BY <1>5, <2>1, NoWorkType, RequestKeeps DEF BeginDestroy
<1>6. CASE BeginStart(w)
  <2> DEFINE record == [NoWork EXCEPT !.status = EffectiveStatus, !.start = session.start]
             step == IF EffectiveStatus = session.status THEN "admit" ELSE "refresh_save"
  <2>1. EffectiveStatus \in Statuses
    BY <1>1 DEF EffectiveStatus, Statuses
  <2>2. record \in WorkRecords
    BY <1>1, <2>1, NoWorkType DEF WorkRecords
  <2>3. step \in Steps \ (AtEntry \cup SweepSteps)
    BY DEF Steps, AtEntry, Sweeping, SweepSteps
  <2>4. Request(w, step, record)
    BY <1>6 DEF BeginStart
  <2> HIDE DEF record, step
  <2> QED BY <2>2, <2>3, <2>4, RequestKeeps
<1> QED BY <1>2, <1>3, <1>4, <1>5, <1>6

LEMMA BeginSweepKeeps ==
  ASSUME IInv, NEW w \in Workers, BeginSweep(w)
  PROVE  IInv'
<1> DEFINE due == {k \in Scheduled : Due(k, row[k].start) <= now}
           record == [NoWork EXCEPT !.todo = EntriesOf(due)]
<1>1. /\ WorkersOK /\ calm \in BOOLEAN /\ DataOK /\ KeysUsedOnce
      /\ Enter(w, "sweep", record)
      /\ UNCHANGED <<now, session, attempt, row, nextId, access, inAppOn, received, events>>
  BY DEF IInv, TypeOK, DataOK, BeginSweep
<1>2. due \subseteq Kinds /\ EntriesOf(due) \subseteq Entries
  BY <1>1 DEF Scheduled, EntriesOf, Entries, DataOK, Rows
<1>3. record \in WorkRecords /\ record.todo = EntriesOf(due)
  BY <1>2, NoWorkType DEF WorkRecords
<1>4. "sweep" \in Steps \ AtEntry /\ "sweep" \notin Sweeping
  BY DEF Steps, AtEntry, Sweeping
<1>5. ASSUME NEW k \in due
      PROVE  /\ row[k].id \in 1 .. (nextId - 1)
             /\ Due(k, row[k].start) <= now
  <2>1. row[k].status = "scheduled" /\ row[k].id < nextId /\ row[k].id \in Nat /\ row[k].id # 0
    BY <1>1, <1>2 DEF Scheduled, KeysUsedOnce, DataOK, Rows
  <2> QED BY <1>1, <2>1 DEF DataOK
<1> HIDE DEF record
<1>6. WorkersOK' /\ Others(w) /\ calm' \in BOOLEAN /\ pc'[w] = "sweep" /\ work'[w] = record
  BY <1>1, <1>3, <1>4, EnterMove
<1>7. Listed(w)' = EntriesOf(due)
  BY <1>3, <1>4, <1>6 DEF Listed
<1>8. ASSUME NEW v \in Workers, NEW e \in Listed(v)'
      PROVE  /\ e.id \in 1 .. (nextId' - 1)
             /\ Present(e)' => Due(e.kind, row'[e.kind].start) <= now'
  <2>1. CASE v = w
    <3>1. PICK k \in due : e = [kind |-> k, id |-> row[k].id]
      BY <1>7, <1>8, <2>1 DEF EntriesOf
    <3> QED BY <1>1, <1>5, <3>1
  <2>2. CASE v # w
    <3>1. e \in Listed(v)
      BY <1>6, <1>8, <2>2 DEF Others, Listed
    <3> QED BY <1>1, <3>1 DEF KeysUsedOnce, Present
  <2> QED BY <2>1, <2>2
<1>9. KeysUsedOnce'
  BY <1>1, <1>8 DEF KeysUsedOnce
<1> QED BY <1>1, <1>6, <1>9 DEF IInv, TypeOK, DataOK, NeverEarly

-----------------------------------------------------------------------------
(* Steps that read, or change the session or the attempt *)

LEMMA ReadingKeeps ==
  ASSUME IInv, NEW w \in Workers,
         \/ BeginSchedule(w) \/ CheckEdit(w) \/ ListStale(w) \/ ListPending(w)
         \/ \E e \in work[w].todo : Lookup(w, e)
  PROVE  IInv'
<1>1. WorkersOK /\ DataOK /\ work[w] \in WorkRecords
  BY DEF IInv, TypeOK, WorkersOK
<1>2. /\ "idle" \notin SweepSteps
      /\ {"lookup", "edit_save", "schedule", "delete", "cancel"} \subseteq Steps \ (AtEntry \cup SweepSteps)
      /\ "insert" \in Steps \ SweepSteps
  BY DEF Steps, AtEntry, Sweeping, SweepSteps
<1>3. RequestFrame /\ UNCHANGED <<session, attempt, row>>
  BY DEF BeginSchedule, CheckEdit, ListStale, ListPending, Lookup
<1>4. SUFFICES WorkersOK' /\ Others(w) /\ pc'[w] \notin SweepSteps
  BY <1>3, NotListed, NoRowStep
<1>5. CASE Finish(w)
  BY <1>1, <1>2, <1>5, FinishMove
<1>6. CASE BeginSchedule(w) /\ ~Finish(w)
  <2> DEFINE todo == {[kind |-> k, id |-> 0] : k \in {k \in Kinds : Due(k, work[w].start) > now}}
             record == [work[w] EXCEPT !.todo = todo]
  <2>1. record \in WorkRecords
    BY <1>1 DEF WorkRecords, Entries
  <2>2. pc' = [pc EXCEPT ![w] = "lookup"] /\ work' = [work EXCEPT ![w] = record]
    BY <1>1, <1>6 DEF BeginSchedule, WorkersOK
  <2> HIDE DEF record
  <2> QED BY <1>1, <1>2, <2>1, <2>2, RecordMove
<1>7. CASE CheckEdit(w) /\ ~Finish(w)
  <2> DEFINE record == [work[w] EXCEPT !.old = session.start]
  <2>1. record \in WorkRecords
    BY <1>1 DEF WorkRecords, DataOK
  <2>2. pc' = [pc EXCEPT ![w] = "edit_save"] /\ work' = [work EXCEPT ![w] = record]
    BY <1>1, <1>7 DEF CheckEdit, WorkersOK
  <2> HIDE DEF record
  <2> QED BY <1>1, <1>2, <2>1, <2>2, RecordMove
<1>8. CASE (ListStale(w) \/ ListPending(w)) /\ ~Finish(w)
  <2> DEFINE record == [work[w] EXCEPT !.todo = EntriesOf(Scheduled)]
  <2>1. EntriesOf(Scheduled) \subseteq Entries
    BY <1>1 DEF EntriesOf, Scheduled, Entries, DataOK, Rows
  <2>2. record \in WorkRecords
    BY <1>1, <2>1 DEF WorkRecords
  <2>3. PICK step \in {"schedule", "delete", "cancel"} :
          pc' = [pc EXCEPT ![w] = step] /\ work' = [work EXCEPT ![w] = record]
    BY <1>1, <1>8 DEF ListStale, ListPending, WorkersOK
  <2> HIDE DEF record
  <2> QED BY <1>1, <1>2, <2>2, <2>3, RecordMove
<1>9. CASE (\E e \in work[w].todo : Lookup(w, e)) /\ ~Finish(w)
  <2>1. PICK e \in work[w].todo : Lookup(w, e)
    BY <1>9
  <2>2. CASE Take(w, "insert", e)
    BY <1>1, <1>2, <2>2, TakeMove
  <2>3. CASE ~Take(w, "insert", e)
    <3> DEFINE record == [work[w] EXCEPT !.todo = work[w].todo \ {e}]
    <3>1. record \in WorkRecords
      BY <1>1 DEF WorkRecords
    <3>2. pc[w] = "lookup" /\ UNCHANGED pc /\ work' = [work EXCEPT ![w] = record]
      BY <1>1, <1>9, <2>1, <2>3 DEF Lookup, WorkersOK
    <3>3. pc' = [pc EXCEPT ![w] = "lookup"] /\ work' = [work EXCEPT ![w] = record]
      BY <1>1, <3>2 DEF WorkersOK
    <3> HIDE DEF record
    <3> QED BY <1>1, <1>2, <3>1, <3>3, RecordMove
  <2> QED BY <2>2, <2>3
<1> QED BY <1>5, <1>6, <1>7, <1>8, <1>9

LEMMA SessionSteps ==
  ASSUME IInv, NEW w \in Workers,
         \/ SaveEdit(w) \/ SaveCancel(w) \/ FinishDestroy(w) \/ SaveStatus(w) \/ Admit(w)
  PROVE  IInv'
<1>1. WorkersOK /\ DataOK /\ work[w] \in WorkRecords
  BY DEF IInv, TypeOK, WorkersOK
<1>2. /\ "idle" \notin SweepSteps
      /\ {"delete_list", "cancel_list", "admit"} \subseteq Steps \ (AtEntry \cup SweepSteps)
  BY DEF Steps, AtEntry, Sweeping, SweepSteps
<1>3. /\ UNCHANGED <<now, row, nextId, received, access, inAppOn, calm, events>>
      /\ session' \in [status: Statuses, start: Nat]
      /\ attempt' \in {"none", "in_progress", "submitted"}
  BY <1>1 DEF SaveEdit, SaveCancel, FinishDestroy, SaveStatus, Admit, RequestFrame,
              DataOK, WorkRecords, Statuses
<1>4. SUFFICES WorkersOK' /\ Others(w) /\ pc'[w] \notin SweepSteps
  BY <1>1, <1>3, QuietStep DEF DataOK
<1>5. CASE Finish(w)
  BY <1>1, <1>2, <1>5, FinishMove
<1>6. CASE SaveEdit(w) /\ ~Finish(w)
  <2> DEFINE record == [NoWork EXCEPT !.start = work[w].start]
  <2>1. record \in WorkRecords
    BY <1>1, NoWorkType DEF WorkRecords
  <2>2. pc' = [pc EXCEPT ![w] = "delete_list"] /\ work' = [work EXCEPT ![w] = record]
    BY <1>6 DEF SaveEdit
  <2> HIDE DEF record
  <2> QED BY <1>1, <1>2, <2>1, <2>2, RecordMove
<1>7. CASE (SaveCancel(w) \/ SaveStatus(w)) /\ ~Finish(w)
  <2>1. Goto(w, "cancel_list") \/ Goto(w, "admit")
    BY <1>7 DEF SaveCancel, SaveStatus
  <2> QED BY <1>1, <1>2, <2>1, GotoMove
<1> QED BY <1>5, <1>6, <1>7 DEF FinishDestroy, Admit

-----------------------------------------------------------------------------
(* Steps that change a row *)

\* The entry a worker is at is one of the reminders, and its row is well-typed.
LEMMA AtReminder ==
  ASSUME TypeOK, NEW w \in Workers, pc[w] \in AtEntry
  PROVE  work[w].at \in Entries /\ work[w].at.kind \in Kinds /\ row[work[w].at.kind] \in Rows
  BY DEF TypeOK, WorkersOK, DataOK, WorkRecords, Entries

LEMMA CreateReminderKeeps ==
  ASSUME IInv, NEW w \in Workers, CreateReminder(w)
  PROVE  IInv'
<1> DEFINE k == work[w].at.kind
           new == [id |-> nextId, status |-> "scheduled", start |-> work[w].start,
                   inapp |-> IF inAppOn THEN "queued" ELSE "skipped", enabled |-> inAppOn]
<1>1. TypeOK /\ DataOK /\ WorkersOK /\ KeysUsedOnce /\ NeverEarly /\ pc[w] = "insert"
  BY DEF IInv, TypeOK, CreateReminder
<1>2. k \in Kinds
  BY <1>1, AtReminder DEF AtEntry
<1>3. new \in Rows /\ new.id = nextId
  BY <1>1 DEF WorkersOK, WorkRecords, DataOK, Rows
<1>4. {"lookup", "idle"} \subseteq Steps \ (AtEntry \cup SweepSteps)
  BY DEF Steps, AtEntry, Sweeping, SweepSteps
<1>5. UNCHANGED <<now, session, attempt, access, inAppOn, received, calm, events>>
  BY DEF CreateReminder
<1>6. WorkersOK' /\ Others(w) /\ pc'[w] \in {"lookup", "idle"}
  <2>1. Finish(w) \/ Advance(w, "lookup", "idle")
    BY DEF CreateReminder
  <2> QED BY <1>1, <1>4, <2>1, FinishMove, AdvanceMove
<1>7. Listed(w)' \subseteq Listed(w)
  BY <1>4, <1>6, NotListed
<1>8. \/ UNCHANGED <<row, nextId>>
      \/ row' = [row EXCEPT ![k] = new] /\ nextId' = nextId + 1
  BY DEF CreateReminder
<1> HIDE DEF k, new
<1>9. RowsKept
  <2>1. nextId \in Nat \ {0} /\ row \in [Kinds -> Rows]
    BY <1>1 DEF DataOK
  <2>2. \A j \in Kinds : row[j].status = "scheduled" => row[j].id # 0
    BY <1>1 DEF KeysUsedOnce
  <2> QED BY <1>2, <1>3, <1>5, <1>8, <2>1, <2>2 DEF RowsKept
<1>10. DataOK' /\ NeverEarly'
  BY <1>1, <1>2, <1>3, <1>5, <1>8 DEF DataOK, NeverEarly
<1> QED BY <1>6, <1>7, <1>9, <1>10, StepKeeps

LEMMA DeletingKeeps ==
  ASSUME IInv, NEW w \in Workers,
         DeleteRow(w) \/ \E e \in work[w].todo : DeleteDeliveries(w, e)
  PROVE  IInv'
<1>1. TypeOK /\ DataOK /\ WorkersOK
  BY DEF IInv, TypeOK
<1>2. /\ {"delete", "schedule", "idle"} \subseteq Steps \ (AtEntry \cup SweepSteps)
      /\ "delete_row" \in AtEntry /\ "delete_row" \in Steps \ SweepSteps
  BY DEF Steps, AtEntry, Sweeping, SweepSteps
<1>3. CASE DeleteRow(w)
  <2> DEFINE e == work[w].at
  <2>1. e.kind \in Kinds
    BY <1>1, <1>2, <1>3, AtReminder DEF DeleteRow
  <2>2. WorkersOK' /\ Others(w) /\ pc'[w] \notin SweepSteps
    BY <1>1, <1>2, <1>3, AdvanceMove DEF DeleteRow
  <2>3. RequestFrame /\ UNCHANGED <<session, attempt>>
    BY <1>3 DEF DeleteRow
  <2>4. NoRow \in Rows /\ NoRow.id = 0 /\ NoRow.status = "none"
    BY DEF NoRow, Rows
  <2>5. row' = [row EXCEPT ![e.kind] = NoRow] \/ row' = row
    BY <1>3 DEF DeleteRow
  <2> HIDE DEF e
  <2>6. Listed(w)' \subseteq Listed(w)
    BY <2>2, NotListed
  <2>7. CASE row' = row
    BY <2>2, <2>3, <2>6, <2>7, NoRowStep
  <2>8. CASE row' = [row EXCEPT ![e.kind] = NoRow]
    BY <2>1, <2>2, <2>3, <2>4, <2>6, <2>8, RowStep
  <2> QED BY <2>5, <2>7, <2>8
<1>4. CASE \E e \in work[w].todo : DeleteDeliveries(w, e)
  <2>1. PICK e \in work[w].todo : DeleteDeliveries(w, e)
    BY <1>4
  <2>2. WorkersOK' /\ Others(w) /\ pc'[w] \notin SweepSteps /\ e.kind \in Kinds
    BY <1>1, <1>2, <2>1, TakeMove DEF DeleteDeliveries, Entries
  <2>3. RequestFrame /\ UNCHANGED <<session, attempt>>
    BY <2>1 DEF DeleteDeliveries
  <2> DEFINE r == [row[e.kind] EXCEPT !.inapp = "none"]
  <2>4. r \in Rows /\ r.id = row[e.kind].id /\ r.start = row[e.kind].start /\ r.status = row[e.kind].status
    BY <1>1, <2>2 DEF DataOK, Rows
  <2>5. row' = [row EXCEPT ![e.kind] = r] \/ row' = row
    BY <2>1 DEF DeleteDeliveries
  <2> HIDE DEF r
  <2>6. Listed(w)' \subseteq Listed(w)
    BY <2>2, NotListed
  <2>7. CASE row' = row
    BY <2>2, <2>3, <2>6, <2>7, NoRowStep
  <2>8. CASE row' = [row EXCEPT ![e.kind] = r]
    BY <2>2, <2>3, <2>4, <2>6, <2>8, RowStep
  <2> QED BY <2>5, <2>7, <2>8
<1> QED BY <1>3, <1>4

\* Skipping the queued delivery of an entry leaves its row's key and start.
LEMMA SkippedRow ==
  ASSUME TypeOK, NEW w \in Workers, NEW e, e.kind \in Kinds, row' = Skipped(e)
  PROVE  \E r \in Rows : /\ row' = [row EXCEPT ![e.kind] = r]
                         /\ r.id = row[e.kind].id /\ r.start = row[e.kind].start
                         /\ r.status = row[e.kind].status
<1>1. row \in [Kinds -> Rows]
  BY DEF TypeOK, DataOK
<1>2. CASE row' = row
  <2>1. row' = [row EXCEPT ![e.kind] = row[e.kind]] /\ row[e.kind] \in Rows
    BY <1>1, <1>2
  <2> QED BY <2>1
<1>3. CASE row' # row
  <2> DEFINE r == [row[e.kind] EXCEPT !.inapp = "skipped"]
  <2>1. r \in Rows /\ r.id = row[e.kind].id /\ r.start = row[e.kind].start /\ r.status = row[e.kind].status
    BY <1>1 DEF Rows
  <2>2. row' = [row EXCEPT ![e.kind] = r]
    BY <1>3 DEF Skipped
  <2> QED BY <2>1, <2>2
<1> QED BY <1>2, <1>3

LEMMA CancellingKeeps ==
  ASSUME IInv, NEW w \in Workers,
         SkipDeliveries(w) \/ \E e \in work[w].todo : CancelRow(w, e)
  PROVE  IInv'
<1>1. TypeOK /\ DataOK /\ WorkersOK
  BY DEF IInv, TypeOK
<1>2. /\ {"cancel", "idle"} \subseteq Steps \ (AtEntry \cup SweepSteps)
      /\ "cancel_skip" \in AtEntry /\ "cancel_skip" \in Steps \ SweepSteps
  BY DEF Steps, AtEntry, Sweeping, SweepSteps
<1>3. CASE SkipDeliveries(w)
  <2> DEFINE e == work[w].at
  <2>1. e.kind \in Kinds /\ row' = Skipped(e) /\ RequestFrame /\ UNCHANGED <<session, attempt>>
    BY <1>1, <1>2, <1>3, AtReminder DEF SkipDeliveries
  <2>2. WorkersOK' /\ Others(w) /\ pc'[w] \notin SweepSteps
    BY <1>1, <1>2, <1>3, AdvanceMove DEF SkipDeliveries
  <2> HIDE DEF e
  <2> QED BY <1>1, <2>1, <2>2, SkippedRow, NotListed, RowStep
<1>4. CASE \E e \in work[w].todo : CancelRow(w, e)
  <2>1. PICK e \in work[w].todo : CancelRow(w, e)
    BY <1>4
  <2>2. e.kind \in Kinds
    BY <1>1 DEF WorkersOK, WorkRecords, Entries
  <2>3. RequestFrame /\ UNCHANGED <<session, attempt>>
    BY <2>1 DEF CancelRow
  <2>4. CASE Present(e)
    <3> DEFINE r == [row[e.kind] EXCEPT !.status = "cancelled"]
    <3>1. r \in Rows /\ r.id = row[e.kind].id /\ r.start = row[e.kind].start /\ r.status = "cancelled"
      BY <1>1, <2>2 DEF DataOK, Rows
    <3>2. row' = [row EXCEPT ![e.kind] = r] /\ Take(w, "cancel_skip", e)
      BY <2>1, <2>4 DEF CancelRow
    <3> HIDE DEF r
    <3>3. WorkersOK' /\ Others(w) /\ pc'[w] \notin SweepSteps
      BY <1>1, <1>2, <3>2, TakeMove
    <3> QED BY <2>2, <2>3, <3>1, <3>2, <3>3, NotListed, RowStep
  <2>5. CASE ~Present(e)
    <3>1. Finish(w) /\ UNCHANGED row
      BY <2>1, <2>5 DEF CancelRow
    <3>2. WorkersOK' /\ Others(w) /\ pc'[w] \notin SweepSteps
      BY <1>1, <1>2, <3>1, FinishMove
    <3> QED BY <2>3, <3>1, <3>2, NotListed, NoRowStep
  <2> QED BY <2>4, <2>5
<1> QED BY <1>3, <1>4

-----------------------------------------------------------------------------
(* The sweep *)

\* Going on in the sweep, or ending it, does not lengthen its list.
LEMMA SweepMove ==
  ASSUME WorkersOK, NEW w \in Workers, pc[w] \in Sweeping,
         \/ Finish(w) \/ Advance(w, "sweep", "idle")
         \/ \E step \in Sweeping : Goto(w, step)
  PROVE  WorkersOK' /\ Others(w) /\ Listed(w)' \subseteq Listed(w)
<1>1. /\ {"sweep", "idle"} \subseteq Steps \ AtEntry /\ "idle" \notin SweepSteps
      /\ Sweeping \subseteq AtEntry /\ Sweeping \subseteq Steps
      /\ Sweeping \subseteq SweepSteps /\ "sweep" \in SweepSteps \ Sweeping
  BY DEF Steps, AtEntry, Sweeping, SweepSteps
<1>2. CASE Finish(w)
  BY <1>1, <1>2, FinishMove, NotListed
<1>3. CASE Advance(w, "sweep", "idle")
  <2>1. WorkersOK' /\ Others(w) /\ (pc'[w] = "idle" \/ (pc'[w] = "sweep" /\ work'[w].todo = work[w].todo))
    BY <1>1, <1>3, AdvanceMove
  <2>2. CASE pc'[w] = "idle"
    BY <1>1, <2>1, <2>2, NotListed
  <2>3. CASE pc'[w] = "sweep" /\ work'[w].todo = work[w].todo
    BY <1>1, <2>1, <2>3, ListShrinks
  <2> QED BY <2>1, <2>2, <2>3
<1>4. CASE \E step \in Sweeping : Goto(w, step)
  <2>1. PICK step \in Sweeping : Goto(w, step)
    BY <1>4
  <2>2. WorkersOK' /\ Others(w) /\ pc'[w] = step /\ work'[w] = work[w]
    BY <1>1, <2>1, GotoMove
  <2>3. work[w].at \in Listed(w)
    BY DEF Listed
  <2> QED BY <1>1, <2>2, <2>3, ListShrinks
<1> QED BY <1>2, <1>3, <1>4

LEMMA RecheckKeeps ==
  ASSUME IInv, NEW w \in Workers, NEW e \in work[w].todo, Recheck(w, e)
  PROVE  IInv'
<1>1. WorkersOK
  BY DEF IInv, TypeOK
<1>2. PICK step \in {"sweep_cancel", "sweep_read"} : Take(w, step, e)
  BY DEF Recheck
<1>3. /\ step \in Steps /\ step \in Sweeping /\ pc[w] \in SweepSteps /\ Sweeping \subseteq SweepSteps
      /\ e \in Listed(w)
  BY <1>2 DEF Recheck, Steps, AtEntry, Sweeping, SweepSteps, Listed
<1>4. /\ WorkersOK' /\ Others(w) /\ pc'[w] = step
      /\ work'[w].todo \subseteq work[w].todo /\ work'[w].at = e
  BY <1>1, <1>2, <1>3, TakeMove
<1>5. Listed(w)' \subseteq Listed(w)
  BY <1>3, <1>4, ListShrinks
<1> QED BY <1>4, <1>5, NoRowStep DEF Recheck

LEMMA SweepSavesKeep ==
  ASSUME IInv, NEW w \in Workers,
         ReadDelivery(w) \/ SaveDispatched(w) \/ SaveIneligible(w) \/ SkipIneligible(w)
  PROVE  IInv'
<1> DEFINE e == work[w].at
<1>1. /\ TypeOK /\ DataOK /\ WorkersOK /\ pc[w] \in Sweeping
      /\ RequestFrame /\ UNCHANGED <<session, attempt>>
  BY DEF IInv, TypeOK, Sweeping, ReadDelivery, SaveDispatched, SaveIneligible, SkipIneligible, SweepSave
<1>2. e.kind \in Kinds
  BY <1>1, AtReminder DEF AtEntry
<1>3. \/ Finish(w) \/ Advance(w, "sweep", "idle")
      \/ \E step \in Sweeping : Goto(w, step)
  BY DEF ReadDelivery, SaveDispatched, SaveIneligible, SkipIneligible, SweepSave, Sweeping
<1>4. WorkersOK' /\ Others(w) /\ Listed(w)' \subseteq Listed(w)
  BY <1>1, <1>3, SweepMove
<1>5. CASE row' = row
  BY <1>1, <1>4, <1>5, NoRowStep
<1>6. CASE SkipIneligible(w)
  <2>1. row' = Skipped(e)
    BY <1>6 DEF SkipIneligible
  <2> HIDE DEF e
  <2> QED BY <1>1, <1>2, <1>4, <2>1, SkippedRow, RowStep
<1>7. CASE row' # row /\ ~SkipIneligible(w)
  <2>1. PICK status \in {"dispatched", "cancelled"} : row' = [row EXCEPT ![e.kind].status = status]
    BY <1>7 DEF ReadDelivery, SaveDispatched, SaveIneligible, SweepSave
  <2> DEFINE r == [row[e.kind] EXCEPT !.status = status]
  <2>2. r \in Rows /\ r.id = row[e.kind].id /\ r.start = row[e.kind].start /\ r.status # "scheduled"
    BY <1>1, <1>2 DEF DataOK, Rows
  <2>3. row' = [row EXCEPT ![e.kind] = r]
    BY <2>1
  <2> HIDE DEF e, r
  <2> QED BY <1>1, <1>2, <1>4, <2>2, <2>3, RowStep
<1> QED BY <1>5, <1>6, <1>7

\* The row bears the key the sweep listed, so it is the row that was due.
LEMMA DeliverKeeps ==
  ASSUME IInv, NEW w \in Workers, DeliverInApp(w)
  PROVE  IInv'
<1> DEFINE e == work[w].at
           r == [row[e.kind] EXCEPT !.inapp = "delivered"]
           new == [kind |-> e.kind, start |-> row[e.kind].start, at |-> now]
<1>1. TypeOK /\ DataOK /\ WorkersOK /\ KeysUsedOnce /\ NeverEarly /\ pc[w] \in Sweeping
  BY DEF IInv, TypeOK, Sweeping, DeliverInApp
<1>2. e.kind \in Kinds /\ row[e.kind] \in Rows /\ e \in Listed(w)
  BY <1>1, AtReminder DEF AtEntry, Listed
<1>3. /\ r \in Rows /\ r.id = row[e.kind].id /\ r.start = row[e.kind].start
      /\ r.status = row[e.kind].status
  BY <1>2 DEF Rows
<1>4. Finish(w) \/ \E step \in Sweeping : Goto(w, step)
  BY DEF DeliverInApp, Sweeping
<1>5. WorkersOK' /\ Others(w) /\ Listed(w)' \subseteq Listed(w)
  BY <1>1, <1>4, SweepMove
<1>6. UNCHANGED <<now, session, attempt, nextId, access, inAppOn, calm, events>>
  BY DEF DeliverInApp
<1>7. \/ UNCHANGED <<row, received>>
      \/ Present(e) /\ row' = [row EXCEPT ![e.kind] = r] /\ received' = received \cup {new}
  BY DEF DeliverInApp
<1>8. new \in [kind: Kinds, start: Nat, at: Nat]
  BY <1>1, <1>2 DEF DataOK, Rows
<1>9. Present(e) => new.at >= Due(new.kind, new.start)
  <2>1. Present(e) => Due(e.kind, row[e.kind].start) <= now
    BY <1>1, <1>2 DEF KeysUsedOnce
  <2>2. Due(e.kind, row[e.kind].start) \in Int /\ now \in Int
    BY <1>1, <1>2, ReminderAssumption DEF Due, DataOK, Rows
  <2> QED BY <2>1, <2>2
<1> HIDE DEF e, r, new
<1>10. NeverEarly'
  BY <1>1, <1>7, <1>9 DEF NeverEarly, Due
<1>11. DataOK'
  BY <1>1, <1>2, <1>3, <1>6, <1>7, <1>8 DEF DataOK
<1>12. RowsKept
  BY <1>1, <1>2, <1>3, <1>6, <1>7 DEF RowsKept, KeysUsedOnce, DataOK
<1> QED BY <1>5, <1>10, <1>11, <1>12, StepKeeps

-----------------------------------------------------------------------------
(* The theorems *)

LEMMA InitHolds == Init => IInv
<1> SUFFICES ASSUME Init PROVE IInv
  OBVIOUS
<1>1. NoRow \in Rows /\ NoRow.id = 0 /\ NoRow.status = "none"
  BY DEF NoRow, Rows
<1>2. DataOK
  BY <1>1 DEF Init, DataOK, Statuses
<1>3. WorkersOK
  BY NoWorkType DEF Init, WorkersOK, Steps, AtEntry, Sweeping
<1>4. KeysUsedOnce /\ NeverEarly
  BY <1>1 DEF Init, KeysUsedOnce, NeverEarly, Listed, Sweeping
<1> QED BY <1>2, <1>3, <1>4 DEF IInv, TypeOK

LEMMA WorkerKeeps ==
  ASSUME IInv, NEW w \in Workers, Step(w)
  PROVE  IInv'
  BY ReadingKeeps, SessionSteps, CreateReminderKeeps, DeletingKeeps, CancellingKeeps,
     RecheckKeeps, SweepSavesKeep, DeliverKeeps DEF Step

\* The clock, the student, a crash: no row and no list changes.
LEMMA OutsideKeeps ==
  ASSUME IInv, \/ Tick \/ ChangeAccess \/ ChangePreference \/ SubmitAttempt \/ \E w \in Workers : Crash(w)
  PROVE  IInv'
<1>1. TypeOK /\ DataOK /\ WorkersOK /\ KeysUsedOnce /\ NeverEarly
  BY DEF IInv, TypeOK
<1>2. CASE Tick \/ ChangeAccess \/ ChangePreference \/ SubmitAttempt
  <2>1. /\ UNCHANGED <<session, row, nextId, received, calm, pc, work>>
        /\ now' \in Nat /\ now' >= now
        /\ DataOK'
    <3>1. CASE ChangePreference
      BY <1>1, <3>1 DEF ChangePreference, Event, DataOK
    <3>2. CASE Tick \/ ChangeAccess \/ SubmitAttempt
      BY <1>1, <3>2 DEF Tick, ChangeAccess, SubmitAttempt, Event, DataOK
    <3> QED BY <1>2, <3>1, <3>2
  <2>2. ASSUME NEW w \in Workers, NEW e \in Listed(w)
        PROVE  /\ e.id \in 1 .. (nextId - 1)
               /\ Present(e) => Due(e.kind, row[e.kind].start) <= now'
    <3>1. e.kind \in Kinds
      BY <1>1, <2>2, ListedType DEF Entries
    <3>2. Due(e.kind, row[e.kind].start) \in Int /\ now \in Int
      BY <1>1, <3>1, ReminderAssumption DEF Due, DataOK, Rows
    <3> QED BY <1>1, <2>1, <2>2, <3>2 DEF KeysUsedOnce
  <2>3. KeysUsedOnce'
    BY <1>1, <2>1, <2>2 DEF KeysUsedOnce, Listed, Present
  <2> QED BY <1>1, <2>1, <2>3 DEF IInv, TypeOK, WorkersOK, NeverEarly
<1>3. CASE \E w \in Workers : Crash(w)
  <2>1. PICK w \in Workers : Crash(w)
    BY <1>3
  <2>2. /\ UNCHANGED <<now, session, attempt, row, nextId, access, inAppOn, received>>
        /\ calm' = FALSE /\ events' \in Nat /\ Finish(w)
    BY <1>1, <2>1 DEF Crash, Event, DataOK
  <2>3. WorkersOK' /\ Others(w) /\ pc'[w] \notin SweepSteps
    BY <1>1, <2>2, FinishMove DEF SweepSteps, Sweeping
  <2> QED BY <1>1, <2>2, <2>3, QuietStep DEF DataOK
<1> QED BY <1>2, <1>3

LEMMA InvariantStep == IInv /\ [Next]_vars => IInv'
<1> SUFFICES ASSUME IInv, [Next]_vars PROVE IInv'
  OBVIOUS
<1>1. CASE UNCHANGED vars
  BY <1>1 DEF vars, IInv, TypeOK, DataOK, WorkersOK, KeysUsedOnce, NeverEarly, Listed, Present
<1>2. CASE Next
  BY <1>2, WorkerKeeps, OutsideKeeps, RequestsKeep, BeginSweepKeeps,
     ReminderAssumption DEF Next
<1> QED BY <1>1, <1>2

\* Spec keeps the inductive invariant: a key a sweep has listed is used again
\* for no other row, whatever edits delete and create meanwhile.
THEOREM InvariantHolds == Spec => []IInv
  BY InitHolds, InvariantStep, PTL DEF Spec

\* Every variable keeps its type, and a worker in the middle of an entry has one.
THEOREM TypeCorrect == Spec => []TypeOK
<1>1. IInv => TypeOK
  BY DEF IInv
<1> QED BY <1>1, InvariantHolds, PTL

\* No student receives a reminder before it is due, for any reminders, start
\* times and number of threads, crashes included (dispatch_due_notifications).
THEOREM NeverEarlyHolds == Spec => []NeverEarly
<1>1. IInv => NeverEarly
  BY DEF IInv
<1> QED BY <1>1, InvariantHolds, PTL

-----------------------------------------------------------------------------
(* Requests that do not overlap: one worker at a time *)

USE DEF Made, Sent

Solo(w) == \A v \in Workers \ {w} : pc[v] = "idle"

\* CalmInv, of the only worker that may be busy.
Agrees(w, k) ==
    /\ row[k].status = "none" => row[k] = NoRow
    /\ row[k].status = "scheduled" =>
         row[k].inapp = Made(k) \/ (pc[w] \in {"delete_row", "sweep_save"} /\ work[w].at.kind = k)
    /\ row[k].status = "dispatched" => row[k].inapp = Sent(k) /\ Due(k, row[k].start) <= now
    /\ row[k].status = "cancelled" =>
         row[k].inapp = "skipped" \/ (pc[w] \in {"cancel_skip", "sweep_skip"} /\ work[w].at.kind = k)

Matches(w, k) ==
    /\ session.status = "none" => row[k] = NoRow
    /\ Exists /\ row[k].status = "scheduled" =>
         row[k].start = session.start \/ pc[w] \in Replacing
    /\ Exists /\ session.status # "cancelled" /\ access = "always" =>
         /\ row[k].status # "cancelled"
         /\ Due(k, session.start) > now =>
              row[k].status \in {"scheduled", "dispatched"} \/ ToCreate(w, k)

CalmOf(w) ==
    /\ \A k \in Kinds : Agrees(w, k) /\ Matches(w, k)
    /\ SessionAsRead(w) /\ RowsAsRead(w)

\* A worker that is idle has nothing in hand.
LEMMA IdleHolds ==
  ASSUME NEW w \in Workers, pc[w] = "idle"
  PROVE  /\ SessionAsRead(w) /\ RowsAsRead(w)
         /\ \A k \in Kinds : ~ToCreate(w, k)
         /\ pc[w] \notin Replacing
BY DEF SessionAsRead, RowsAsRead, ToCreate, Replacing, Scheduling, Sweeping

LEMMA SoloMeans ==
  \A w \in Workers : Solo(w) => (CalmInv <=> CalmOf(w))
<1> SUFFICES ASSUME NEW w \in Workers, Solo(w) PROVE CalmInv <=> CalmOf(w)
  OBVIOUS
<1>1. OneAtATime
  BY DEF Solo, OneAtATime
<1>2. \A v \in Workers \ {w} : SessionAsRead(v) /\ RowsAsRead(v)
  BY IdleHolds DEF Solo
<1>3. ASSUME NEW k \in Kinds PROVE RowAgrees(k) <=> Agrees(w, k)
  BY DEF RowAgrees, Agrees, InHand, Solo
<1>4. (\E v \in Workers : pc[v] \in Replacing) <=> pc[w] \in Replacing
  BY DEF Solo, Replacing
<1>5. ASSUME NEW k \in Kinds PROVE (\E v \in Workers : ToCreate(v, k)) <=> ToCreate(w, k)
  BY IdleHolds DEF Solo
<1>6. ASSUME NEW k \in Kinds PROVE RowMatches(k) <=> Matches(w, k)
  BY <1>4, <1>5 DEF RowMatches, Matches, Scheduled
<1> QED BY <1>1, <1>2, <1>3, <1>6 DEF CalmInv, CalmOf

LEMMA SoloMeansNext == (\A w \in Workers : Solo(w) => (CalmInv <=> CalmOf(w)))'
BY SoloMeans, PTL

\* It is enough to look at the worker that moves.
LEMMA SoloStep ==
  ASSUME NEW w \in Workers, Solo(w), CalmInv, Others(w), CalmOf(w) => CalmOf(w)'
  PROVE  CalmInv'
<1>1. CalmOf(w)
  BY SoloMeans
<1>2. Solo(w)'
  BY DEF Solo, Others
<1> QED BY <1>1, <1>2, SoloMeansNext

-----------------------------------------------------------------------------
(* Exactly what the moves of a worker do *)

LEMMA TakeExact ==
  ASSUME WorkersOK, NEW w \in Workers, NEW step, NEW e, Take(w, step, e)
  PROVE  /\ pc'[w] = step /\ e \in work[w].todo /\ e \in Entries
         /\ work'[w].todo = work[w].todo \ {e} /\ work'[w].at = e
         /\ work'[w].start = work[w].start
<1> DEFINE record == [work[w] EXCEPT !.todo = work[w].todo \ {e}, !.at = e]
<1>1. work[w] \in WorkRecords /\ e \in work[w].todo /\ e \in Entries
  BY DEF WorkersOK, Take, WorkRecords
<1>2. record.todo = work[w].todo \ {e} /\ record.at = e /\ record.start = work[w].start
  BY <1>1 DEF WorkRecords
<1>3. pc' = [pc EXCEPT ![w] = step] /\ work' = [work EXCEPT ![w] = record]
  BY DEF Take, WorkersOK
<1> HIDE DEF record
<1> QED BY <1>1, <1>2, <1>3 DEF WorkersOK

LEMMA AdvanceExact ==
  ASSUME WorkersOK, NEW w \in Workers, NEW step, NEW last, Advance(w, step, last)
  PROVE  /\ pc'[w] = IF work[w].todo = {} THEN last ELSE step
         /\ work[w].todo # {} \/ last # "idle" =>
              work'[w].todo = work[w].todo /\ work'[w].start = work[w].start
<1>1. CASE work[w].todo = {} /\ last = "idle"
  BY <1>1 DEF Advance, Finish, WorkersOK
<1>2. CASE ~(work[w].todo = {} /\ last = "idle")
  <2> DEFINE record == [work[w] EXCEPT !.at = NoEntry]
  <2>1. record.todo = work[w].todo /\ record.start = work[w].start
    BY DEF WorkersOK, WorkRecords
  <2>2. /\ pc' = [pc EXCEPT ![w] = IF work[w].todo = {} THEN last ELSE step]
        /\ work' = [work EXCEPT ![w] = record]
    BY <1>2 DEF Advance, WorkersOK
  <2> HIDE DEF record
  <2> QED BY <1>2, <2>1, <2>2 DEF WorkersOK
<1> QED BY <1>1, <1>2

\* An entry of the scheduled reminders is one whose row is scheduled.
LEMMA InEntries ==
  \A e \in Entries : e \in EntriesOf(Scheduled) <=> e.kind \in Scheduled /\ Present(e)
BY DEF EntriesOf, Scheduled, Entries, Present

LEMMA SameEntry == \A x, y \in Entries : x.kind = y.kind /\ x.id = y.id => x = y
BY DEF Entries

LEMMA InEntriesNext ==
  (\A e \in Entries : e \in EntriesOf(Scheduled) <=> e.kind \in Scheduled /\ Present(e))'
BY InEntries, PTL

LEMMA EntriesAreEntries == DataOK => EntriesOf(Scheduled) \subseteq Entries
BY DEF EntriesOf, Scheduled, Entries, DataOK, Rows

-----------------------------------------------------------------------------
(* A lone request creates the reminders *)

LEMMA CalmFinish ==
  ASSUME WorkersOK, NEW w \in Workers, Finish(w),
         \A k \in Kinds : /\ row'[k].status = "none" => row'[k] = NoRow
                          /\ row'[k].status = "scheduled" => row'[k].inapp = Made(k)'
                          /\ row'[k].status = "dispatched" =>
                               row'[k].inapp = Sent(k)' /\ Due(k, row'[k].start) <= now'
                          /\ row'[k].status = "cancelled" => row'[k].inapp = "skipped"
                          /\ session'.status = "none" => row'[k] = NoRow
                          /\ Exists' /\ row'[k].status = "scheduled" => row'[k].start = session'.start
                          /\ Exists' /\ session'.status # "cancelled" /\ access' = "always" =>
                               /\ row'[k].status # "cancelled"
                               /\ Due(k, session'.start) > now' =>
                                    row'[k].status \in {"scheduled", "dispatched"}
  PROVE  CalmOf(w)'
<1>1. pc'[w] = "idle"
  BY FinishMove
<1>2. SessionAsRead(w)' /\ RowsAsRead(w)'
  BY <1>1 DEF SessionAsRead, RowsAsRead, Replacing, Scheduling, Sweeping
<1>3. \A k \in Kinds : Agrees(w, k)'
  BY DEF Agrees
<1>4. \A k \in Kinds : Matches(w, k)'
  BY DEF Matches
<1> QED BY <1>2, <1>3, <1>4 DEF CalmOf

LEMMA CalmSchedule ==
  ASSUME IInv, NEW w \in Workers, CalmOf(w), BeginSchedule(w)
  PROVE  CalmOf(w)'
<1> DEFINE due == {k \in Kinds : Due(k, work[w].start) > now}
           todo == {[kind |-> k, id |-> 0] : k \in due}
<1>1. /\ WorkersOK /\ DataOK /\ pc[w] = "schedule" /\ UNCHANGED <<now, session, row, access>>
      /\ Exists /\ work[w].start = session.start /\ Scheduled = {}
  BY DEF IInv, TypeOK, BeginSchedule, RequestFrame, CalmOf, SessionAsRead, RowsAsRead, Scheduling
<1>2. \A k \in Kinds : Agrees(w, k) /\ Matches(w, k) /\ row[k].status # "scheduled"
  BY <1>1 DEF CalmOf, Scheduled
<1>3. CASE access # "lost" /\ due # {}
  <2> DEFINE record == [work[w] EXCEPT !.todo = todo]
  <2>1. record.todo = todo /\ record.start = work[w].start
    BY <1>1 DEF WorkersOK, WorkRecords
  <2>2. pc' = [pc EXCEPT ![w] = "lookup"] /\ work' = [work EXCEPT ![w] = record]
    BY <1>1, <1>3 DEF BeginSchedule, WorkersOK
  <2> HIDE DEF record
  <2>3. pc'[w] = "lookup" /\ work'[w].todo = todo /\ work'[w].start = session.start
    BY <1>1, <2>1, <2>2 DEF WorkersOK
  <2>4. ASSUME NEW k \in Kinds, Due(k, session.start) > now PROVE ToCreate(w, k)'
    BY <1>1, <2>3, <2>4 DEF ToCreate
  <2>5. ASSUME NEW k \in Kinds PROVE Agrees(w, k)' /\ Matches(w, k)'
    BY <1>1, <1>2, <2>3, <2>4 DEF Agrees, Matches, Exists
  <2>6. SessionAsRead(w)' /\ RowsAsRead(w)'
    BY <1>1, <2>3 DEF SessionAsRead, RowsAsRead, Exists, Replacing, Scheduling, Sweeping
  <2> QED BY <2>5, <2>6 DEF CalmOf
<1>4. CASE ~(access # "lost" /\ due # {})
  <2>1. Finish(w)
    BY <1>4 DEF BeginSchedule
  <2>2. access = "always" => \A k \in Kinds : ~(Due(k, session.start) > now)
    BY <1>1, <1>4
  <2> QED BY <1>1, <1>2, <2>1, <2>2, CalmFinish DEF Agrees, Matches, Exists
<1> QED BY <1>3, <1>4

LEMMA CalmLookup ==
  ASSUME IInv, NEW w \in Workers, CalmOf(w), NEW e \in work[w].todo, Lookup(w, e)
  PROVE  CalmOf(w)'
<1>1. /\ WorkersOK /\ DataOK /\ pc[w] = "lookup" /\ UNCHANGED <<now, session, row, access>>
      /\ Exists /\ work[w].start = session.start
      /\ \A x \in work[w].todo : x.id = 0
  BY DEF IInv, TypeOK, Lookup, RequestFrame, CalmOf, SessionAsRead, RowsAsRead, Scheduling
<1>2. \A k \in Kinds : Agrees(w, k) /\ Matches(w, k)
  BY DEF CalmOf
<1>3. e \in Entries /\ e.kind \in Kinds /\ e = [kind |-> e.kind, id |-> 0]
  BY <1>1 DEF WorkersOK, WorkRecords, Entries
<1>4. ASSUME NEW k \in Kinds, ToCreate(w, k)
      PROVE  [kind |-> k, id |-> 0] \in work[w].todo
  BY <1>1, <1>4 DEF ToCreate, Replacing
<1>5. CASE row[e.kind] = NoRow
  <2>1. /\ pc'[w] = "insert" /\ work'[w].todo = work[w].todo \ {e} /\ work'[w].at = e
        /\ work'[w].start = work[w].start
    BY <1>1, <1>5, TakeExact DEF Lookup
  <2>2. ASSUME NEW k \in Kinds, ToCreate(w, k) PROVE ToCreate(w, k)'
    BY <1>3, <1>4, <2>1, <2>2 DEF ToCreate
  <2>3. ASSUME NEW k \in Kinds PROVE Agrees(w, k)' /\ Matches(w, k)'
    BY <1>1, <1>2, <2>1, <2>2 DEF Agrees, Matches, Exists, Replacing
  <2>4. SessionAsRead(w)' /\ RowsAsRead(w)'
    BY <1>1, <1>5, <2>1 DEF SessionAsRead, RowsAsRead, Exists, Replacing, Scheduling, Sweeping
  <2> QED BY <2>3, <2>4 DEF CalmOf
<1>6. CASE row[e.kind] # NoRow
  <2>1. ASSUME Exists, session.status # "cancelled", access = "always"
        PROVE  row[e.kind].status \in {"scheduled", "dispatched"}
    BY <1>1, <1>2, <1>3, <1>6, <2>1 DEF Agrees, Matches, DataOK, Rows
  <2>2. CASE work[w].todo = {e}
    <3>1. Finish(w)
      BY <1>6, <2>2 DEF Lookup
    <3>2. \A k \in Kinds : ToCreate(w, k) => k = e.kind
      BY <1>3, <1>4, <2>2
    <3> QED BY <1>1, <1>2, <2>1, <3>1, <3>2, CalmFinish DEF Agrees, Matches, Exists, Replacing
  <2>3. CASE work[w].todo # {e}
    <3> DEFINE record == [work[w] EXCEPT !.todo = work[w].todo \ {e}]
    <3>1. record.todo = work[w].todo \ {e} /\ record.start = work[w].start
      BY <1>1 DEF WorkersOK, WorkRecords
    <3>2. pc' = pc /\ work' = [work EXCEPT ![w] = record]
      BY <1>1, <1>6, <2>3 DEF Lookup, WorkersOK
    <3> HIDE DEF record
    <3>3. pc'[w] = "lookup" /\ work'[w].todo = work[w].todo \ {e} /\ work'[w].start = work[w].start
      BY <1>1, <3>1, <3>2 DEF WorkersOK
    <3>4. ASSUME NEW k \in Kinds, ToCreate(w, k) PROVE k = e.kind \/ ToCreate(w, k)'
      BY <1>3, <1>4, <3>3, <3>4 DEF ToCreate
    <3>5. ASSUME NEW k \in Kinds PROVE Agrees(w, k)' /\ Matches(w, k)'
      BY <1>1, <1>2, <2>1, <3>3, <3>4 DEF Agrees, Matches, Exists, Replacing
    <3>6. SessionAsRead(w)' /\ RowsAsRead(w)'
      BY <1>1, <3>3 DEF SessionAsRead, RowsAsRead, Exists, Replacing, Scheduling, Sweeping
    <3> QED BY <3>5, <3>6 DEF CalmOf
  <2> QED BY <2>2, <2>3
<1> QED BY <1>5, <1>6

LEMMA CalmCreate ==
  ASSUME IInv, NEW w \in Workers, CalmOf(w), CreateReminder(w)
  PROVE  CalmOf(w)'
<1>a. PICK j : j = work[w].at.kind
  OBVIOUS
<1> DEFINE new == [id |-> nextId, status |-> "scheduled", start |-> work[w].start,
                   inapp |-> IF inAppOn THEN "queued" ELSE "skipped", enabled |-> inAppOn]
<1>1. /\ WorkersOK /\ DataOK /\ pc[w] = "insert" /\ UNCHANGED <<now, session, access>>
      /\ Exists /\ work[w].start = session.start /\ j \in Kinds /\ row[j] = NoRow
      /\ \A x \in work[w].todo : x.id = 0
  BY <1>a, AtReminder DEF IInv, TypeOK, CreateReminder, CalmOf, SessionAsRead, RowsAsRead, Scheduling, AtEntry
<1>2. \A k \in Kinds : Agrees(w, k) /\ Matches(w, k)
  BY DEF CalmOf
<1>3. /\ row' = [row EXCEPT ![j] = new] /\ Advance(w, "lookup", "idle")
  BY <1>1, <1>a DEF CreateReminder
<1>4. /\ new.status = "scheduled" /\ new.start = session.start
      /\ new.inapp = IF new.enabled THEN "queued" ELSE "skipped"
  BY <1>1
<1> HIDE DEF new
<1>5. row'[j] = new /\ \A k \in Kinds \ {j} : row'[k] = row[k]
  BY <1>1, <1>3 DEF DataOK
<1>6. /\ pc'[w] = IF work[w].todo = {} THEN "idle" ELSE "lookup"
      /\ work[w].todo # {} => work'[w].todo = work[w].todo /\ work'[w].start = work[w].start
  BY <1>1, <1>3, AdvanceExact
<1>7. ASSUME NEW k \in Kinds, ToCreate(w, k) PROVE k = j \/ ToCreate(w, k)'
  BY <1>1, <1>6, <1>7, <1>a DEF ToCreate, Replacing
<1>8. ASSUME NEW k \in Kinds PROVE Agrees(w, k)'
  BY <1>1, <1>2, <1>4, <1>5, <1>6 DEF Agrees
<1>9. ASSUME NEW k \in Kinds PROVE Matches(w, k)'
  <2>1. CASE k = j
    BY <1>1, <1>4, <1>5, <2>1 DEF Matches, Exists
  <2>2. CASE k # j
    BY <1>1, <1>2, <1>5, <1>6, <1>7, <2>2 DEF Matches, Exists, Replacing
  <2> QED BY <2>1, <2>2
<1>10. SessionAsRead(w)' /\ RowsAsRead(w)'
  BY <1>1, <1>6 DEF SessionAsRead, RowsAsRead, Exists, Replacing, Scheduling, Sweeping
<1> QED BY <1>8, <1>9, <1>10 DEF CalmOf

-----------------------------------------------------------------------------
(* A lone request edits, cancels, deletes or starts *)

LEMMA CalmEdit ==
  ASSUME IInv, NEW w \in Workers, CalmOf(w), CheckEdit(w) \/ SaveEdit(w) \/ ListStale(w)
  PROVE  CalmOf(w)'
<1>1. /\ WorkersOK /\ DataOK /\ work[w] \in WorkRecords /\ UNCHANGED <<now, row, access>>
      /\ \A k \in Kinds : Agrees(w, k) /\ Matches(w, k)
      /\ SessionAsRead(w)
  BY DEF IInv, TypeOK, WorkersOK, CheckEdit, SaveEdit, ListStale, RequestFrame, CalmOf
<1>2. CASE CheckEdit(w)
  <2>1. pc[w] = "edit_check" /\ session' = session
    BY <1>2 DEF CheckEdit
  <2>2. CASE Finish(w)
    BY <1>1, <2>1, <2>2, CalmFinish DEF Agrees, Matches, ToCreate, Replacing, Exists
  <2>3. CASE ~Finish(w)
    <3> DEFINE record == [work[w] EXCEPT !.old = session.start]
    <3>1. record.old = session.start /\ record.status = work[w].status
      BY <1>1 DEF WorkRecords
    <3>2. pc' = [pc EXCEPT ![w] = "edit_save"] /\ work' = [work EXCEPT ![w] = record]
      BY <1>1, <1>2, <2>3 DEF CheckEdit, WorkersOK
    <3> HIDE DEF record
    <3>3. pc'[w] = "edit_save" /\ work'[w].old = session.start /\ work'[w].status = work[w].status
      BY <1>1, <3>1, <3>2 DEF WorkersOK
    <3>4. ASSUME NEW k \in Kinds PROVE Agrees(w, k)' /\ Matches(w, k)'
      BY <1>1, <2>1, <3>3 DEF Agrees, Matches, Exists, ToCreate, Replacing
    <3>5. SessionAsRead(w)' /\ RowsAsRead(w)'
      BY <1>1, <2>1, <3>3 DEF SessionAsRead, RowsAsRead, Exists, Replacing, Scheduling, Sweeping
    <3> QED BY <3>4, <3>5 DEF CalmOf
  <2> QED BY <2>2, <2>3
<1>3. CASE SaveEdit(w)
  <2>1. /\ pc[w] = "edit_save" /\ Exists /\ work[w].status = session.status
        /\ work[w].old = session.start
        /\ session'.status = session.status /\ session'.start = work[w].start
    BY <1>1, <1>3 DEF SaveEdit, SessionAsRead
  <2>2. CASE Finish(w) /\ work[w].start = work[w].old
    BY <1>1, <2>1, <2>2, CalmFinish DEF Agrees, Matches, ToCreate, Replacing, Exists
  <2>3. CASE work[w].start # work[w].old
    <3> DEFINE record == [NoWork EXCEPT !.start = work[w].start]
    <3>1. record.start = work[w].start
      BY DEF NoWork
    <3>2. pc' = [pc EXCEPT ![w] = "delete_list"] /\ work' = [work EXCEPT ![w] = record]
      BY <1>3, <2>3 DEF SaveEdit
    <3> HIDE DEF record
    <3>3. pc'[w] = "delete_list" /\ work'[w].start = work[w].start
      BY <1>1, <3>1, <3>2 DEF WorkersOK
    <3>4. ASSUME NEW k \in Kinds PROVE Agrees(w, k)' /\ Matches(w, k)'
      BY <1>1, <2>1, <3>3 DEF Agrees, Matches, Exists, ToCreate, Replacing
    <3>5. SessionAsRead(w)' /\ RowsAsRead(w)'
      BY <1>1, <2>1, <3>3 DEF SessionAsRead, RowsAsRead, Exists, Replacing, Scheduling, Sweeping
    <3> QED BY <3>4, <3>5 DEF CalmOf
  <2> QED BY <1>3, <2>2, <2>3 DEF SaveEdit
<1>4. CASE ListStale(w)
  <2>1. /\ pc[w] = "delete_list" /\ session' = session /\ Exists /\ work[w].start = session.start
    BY <1>1, <1>4 DEF ListStale, SessionAsRead, Replacing
  <2> DEFINE record == [work[w] EXCEPT !.todo = EntriesOf(Scheduled)]
             step == IF Scheduled = {} THEN "schedule" ELSE "delete"
  <2>2. record.todo = EntriesOf(Scheduled) /\ record.start = work[w].start
    BY <1>1 DEF WorkRecords
  <2>3. pc' = [pc EXCEPT ![w] = step] /\ work' = [work EXCEPT ![w] = record]
    BY <1>1, <1>4 DEF ListStale, WorkersOK
  <2> HIDE DEF record
  <2>4. pc'[w] = step /\ work'[w].todo = EntriesOf(Scheduled) /\ work'[w].start = work[w].start
    BY <1>1, <2>2, <2>3 DEF WorkersOK
  <2>5. Scheduled' = Scheduled /\ EntriesOf(Scheduled)' = EntriesOf(Scheduled)
    BY <1>1 DEF Scheduled, EntriesOf
  <2>6. ASSUME NEW k \in Kinds PROVE Agrees(w, k)' /\ Matches(w, k)'
    <3>1. step = "schedule" => row[k].status # "scheduled"
      BY DEF Scheduled
    <3> QED BY <1>1, <2>1, <2>4, <3>1 DEF Agrees, Matches, Exists, ToCreate, Replacing
  <2>7. SessionAsRead(w)' /\ RowsAsRead(w)'
    BY <1>1, <2>1, <2>4, <2>5 DEF SessionAsRead, RowsAsRead, Exists, Replacing, Scheduling, Sweeping
  <2> QED BY <2>6, <2>7 DEF CalmOf
<1> QED BY <1>2, <1>3, <1>4

LEMMA CalmDelete ==
  ASSUME IInv, NEW w \in Workers, CalmOf(w),
         DeleteRow(w) \/ \E e \in work[w].todo : DeleteDeliveries(w, e)
  PROVE  CalmOf(w)'
<1>1. /\ WorkersOK /\ DataOK /\ UNCHANGED <<now, session, access>>
      /\ \A k \in Kinds : Agrees(w, k) /\ Matches(w, k)
      /\ SessionAsRead(w) /\ RowsAsRead(w)
  BY DEF IInv, TypeOK, DeleteRow, DeleteDeliveries, RequestFrame, CalmOf
<1>2. /\ Exists /\ work[w].start = session.start /\ pc[w] \in Replacing
      /\ work[w].todo \subseteq Entries /\ EntriesOf(Scheduled) \subseteq Entries
  BY <1>1, EntriesAreEntries DEF DeleteRow, DeleteDeliveries, SessionAsRead, Replacing, WorkersOK, WorkRecords
<1>3. CASE DeleteRow(w)
  <2> DEFINE e == work[w].at
             todo == work[w].todo
  <2>1. /\ pc[w] = "delete_row" /\ e \notin todo /\ todo \cup {e} = EntriesOf(Scheduled)
        /\ Advance(w, "delete", "schedule")
    BY <1>1, <1>3 DEF DeleteRow, RowsAsRead
  <2>2. PICK x, T : x = e /\ T = todo
    OBVIOUS
  <2>3. x \in Entries /\ x.kind \in Scheduled /\ Present(x) /\ x.kind \in Kinds
    BY <1>2, <2>1, <2>2, InEntries DEF Entries
  <2>4. row' = [row EXCEPT ![x.kind] = NoRow]
    BY <1>3, <2>2, <2>3 DEF DeleteRow
  <2>5. row'[x.kind] = NoRow /\ \A k \in Kinds \ {x.kind} : row'[k] = row[k]
    BY <1>1, <2>3, <2>4 DEF DataOK
  <2>6. /\ pc'[w] = IF T = {} THEN "schedule" ELSE "delete"
        /\ work'[w].todo = T /\ work'[w].start = work[w].start
    BY <1>1, <2>1, <2>2, AdvanceExact
  <2>7. NoRow.status = "none"
    BY DEF NoRow
  <2>8. Scheduled' = Scheduled \ {x.kind}
    BY <2>5, <2>7 DEF Scheduled
  <2>9. EntriesOf(Scheduled)' = T
    <3>1. EntriesOf(Scheduled)' \subseteq Entries
      <4>1. DataOK'
        <5>1. NoRow \in Rows
          BY DEF NoRow, Rows
        <5> QED BY <1>1, <1>3, <2>4, <2>3, <5>1 DEF DataOK, DeleteRow, RequestFrame
      <4> QED BY <4>1 DEF EntriesOf, Scheduled, Entries, DataOK, Rows
    <3>2. ASSUME NEW y \in Entries PROVE y \in EntriesOf(Scheduled)' <=> y \in T
      <4>1. y \in EntriesOf(Scheduled)' <=> y.kind \in Scheduled' /\ row'[y.kind].id = y.id
        BY InEntriesNext DEF Present
      <4>2. y \in EntriesOf(Scheduled) <=> y.kind \in Scheduled /\ row[y.kind].id = y.id
        BY InEntries DEF Present
      <4>3. y.kind = x.kind /\ row[y.kind].id = y.id => y = x
        BY <2>3, SameEntry DEF Present
      <4>4. y.kind \in Kinds
        BY DEF Entries
      <4> QED BY <2>1, <2>2, <2>3, <2>5, <2>8, <4>1, <4>2, <4>3, <4>4 DEF Present
    <3>3. T \subseteq Entries
      BY <1>2, <2>2
    <3> QED BY <3>1, <3>2, <3>3
  <2>10. T = {} => Scheduled' = {}
    BY <2>9 DEF EntriesOf
  <2>11. ASSUME NEW k \in Kinds PROVE Agrees(w, k)' /\ Matches(w, k)'
    <3>1. row'[k].status = "scheduled" => pc'[w] = "delete"
      BY <2>6, <2>10 DEF Scheduled
    <3>2. row'[k].status # "none" => row'[k] = row[k] /\ k # x.kind
      BY <2>5, <2>7
    <3>3. ToCreate(w, k)' /\ (pc'[w] = "delete" => pc'[w] \in Replacing)
      BY <2>6 DEF ToCreate, Replacing
    <3>4. Agrees(w, k)'
      BY <1>1, <2>1, <2>2, <2>5, <2>7, <3>2 DEF Agrees
    <3>5. Matches(w, k)'
      BY <1>1, <1>2, <2>5, <2>7, <3>1, <3>2, <3>3 DEF Matches, Exists
    <3> QED BY <3>4, <3>5
  <2>12. SessionAsRead(w)' /\ RowsAsRead(w)'
    BY <1>1, <1>2, <2>6, <2>9, <2>10 DEF SessionAsRead, RowsAsRead, Exists, Replacing, Scheduling, Sweeping
  <2> QED BY <2>11, <2>12 DEF CalmOf
<1>4. CASE \E e \in work[w].todo : DeleteDeliveries(w, e)
  <2>1. PICK e \in work[w].todo : DeleteDeliveries(w, e)
    BY <1>4
  <2>2. /\ pc[w] = "delete" /\ work[w].todo = EntriesOf(Scheduled) /\ Take(w, "delete_row", e)
    BY <1>1, <2>1 DEF DeleteDeliveries, RowsAsRead
  <2>3. e \in Entries /\ e.kind \in Scheduled /\ Present(e) /\ e.kind \in Kinds
    BY <1>2, <2>2, InEntries DEF Entries
  <2> DEFINE r == [row[e.kind] EXCEPT !.inapp = "none"]
  <2>4. r.id = row[e.kind].id /\ r.status = row[e.kind].status /\ r.start = row[e.kind].start
    BY <1>1, <2>3 DEF DataOK, Rows
  <2>5. row' = [row EXCEPT ![e.kind] = r]
    BY <2>1, <2>3 DEF DeleteDeliveries
  <2> HIDE DEF r
  <2>6. row'[e.kind] = r /\ \A k \in Kinds \ {e.kind} : row'[k] = row[k]
    BY <1>1, <2>3, <2>5 DEF DataOK
  <2>7. \A k \in Kinds : row'[k].id = row[k].id /\ row'[k].status = row[k].status /\ row'[k].start = row[k].start
    BY <2>4, <2>6
  <2>8. Scheduled' = Scheduled
    BY <2>7 DEF Scheduled
  <2>9. EntriesOf(Scheduled)' = EntriesOf(Scheduled)
    BY <2>7, <2>8 DEF EntriesOf, Scheduled
  <2>10. /\ pc'[w] = "delete_row" /\ work'[w].todo = work[w].todo \ {e} /\ work'[w].at = e
         /\ work'[w].start = work[w].start
    BY <1>1, <2>2, TakeExact
  <2>11. ASSUME NEW k \in Kinds PROVE Agrees(w, k)' /\ Matches(w, k)'
    <3>1. row[e.kind].status = "scheduled"
      BY <2>3 DEF Scheduled
    <3>2. Agrees(w, k)'
      BY <1>1, <2>2, <2>4, <2>6, <2>10, <3>1 DEF Agrees
    <3>3. ToCreate(w, k)' /\ pc'[w] \in Replacing
      BY <2>10 DEF ToCreate, Replacing
    <3>4. Matches(w, k)'
      BY <1>1, <1>2, <2>7, <3>3 DEF Matches, Exists
    <3> QED BY <3>2, <3>4
  <2>12. SessionAsRead(w)' /\ RowsAsRead(w)'
    BY <1>1, <1>2, <2>2, <2>9, <2>10 DEF SessionAsRead, RowsAsRead, Exists, Replacing, Scheduling, Sweeping
  <2> QED BY <2>11, <2>12 DEF CalmOf
<1> QED BY <1>3, <1>4

LEMMA CalmSession ==
  ASSUME IInv, NEW w \in Workers, CalmOf(w),
         SaveCancel(w) \/ FinishDestroy(w) \/ SaveStatus(w) \/ Admit(w)
  PROVE  CalmOf(w)'
<1>1. /\ WorkersOK /\ DataOK /\ UNCHANGED <<now, row, access>>
      /\ \A k \in Kinds : Agrees(w, k) /\ Matches(w, k)
      /\ SessionAsRead(w)
  BY DEF IInv, TypeOK, SaveCancel, FinishDestroy, SaveStatus, Admit, RequestFrame, CalmOf
<1>2. CASE SaveCancel(w)
  <2>1. /\ pc[w] = "cancel_save" /\ Exists /\ Goto(w, "cancel_list")
        /\ session' = [session EXCEPT !.status = "cancelled"]
    BY <1>1, <1>2 DEF SaveCancel, SessionAsRead
  <2>2. /\ session'.status = "cancelled" /\ session'.start = session.start
        /\ pc'[w] = "cancel_list"
    BY <1>1, <2>1 DEF Goto, WorkersOK, DataOK
  <2>3. ASSUME NEW k \in Kinds PROVE Agrees(w, k)' /\ Matches(w, k)'
    BY <1>1, <2>1, <2>2 DEF Agrees, Matches, Exists, Replacing
  <2>4. SessionAsRead(w)' /\ RowsAsRead(w)'
    BY <2>2 DEF SessionAsRead, RowsAsRead, Replacing, Scheduling, Sweeping
  <2> QED BY <2>3, <2>4 DEF CalmOf
<1>3. CASE FinishDestroy(w)
  <2>1. pc[w] = "destroy" /\ Finish(w) /\ session'.status = "deleted"
    BY <1>1, <1>3 DEF FinishDestroy, DataOK
  <2> QED BY <1>1, <2>1, CalmFinish DEF Agrees, Exists
<1>4. CASE SaveStatus(w)
  <2>1. /\ pc[w] = "refresh_save" /\ Exists /\ session.status # "cancelled" /\ Goto(w, "admit")
        /\ work[w].status \in {"scheduled", "live", "completed"}
        /\ session' = [session EXCEPT !.status = work[w].status]
    BY <1>1, <1>4 DEF SaveStatus, SessionAsRead
  <2>2. /\ session'.status = work[w].status /\ session'.start = session.start
        /\ pc'[w] = "admit"
    BY <1>1, <2>1 DEF Goto, WorkersOK, DataOK
  <2>3. ASSUME NEW k \in Kinds PROVE Agrees(w, k)' /\ Matches(w, k)'
    BY <1>1, <2>1, <2>2 DEF Agrees, Matches, Exists, ToCreate, Replacing
  <2>4. SessionAsRead(w)' /\ RowsAsRead(w)'
    BY <2>2 DEF SessionAsRead, RowsAsRead, Replacing, Scheduling, Sweeping
  <2> QED BY <2>3, <2>4 DEF CalmOf
<1>5. CASE Admit(w)
  <2>1. pc[w] = "admit" /\ Finish(w) /\ session' = session
    BY <1>5 DEF Admit
  <2> QED BY <1>1, <2>1, CalmFinish DEF Agrees, Matches, ToCreate, Replacing, Exists
<1> QED BY <1>2, <1>3, <1>4, <1>5

LEMMA CalmCancel ==
  ASSUME IInv, NEW w \in Workers, CalmOf(w),
         ListPending(w) \/ \E e \in work[w].todo : CancelRow(w, e)
  PROVE  CalmOf(w)'
<1>1. /\ WorkersOK /\ DataOK /\ work[w] \in WorkRecords /\ UNCHANGED <<now, session, access>>
      /\ \A k \in Kinds : Agrees(w, k) /\ Matches(w, k)
      /\ SessionAsRead(w) /\ RowsAsRead(w)
      /\ EntriesOf(Scheduled) \subseteq Entries
  BY EntriesAreEntries DEF IInv, TypeOK, WorkersOK, ListPending, CancelRow, RequestFrame, CalmOf
<1>2. session.status = "cancelled"
  BY <1>1 DEF SessionAsRead, ListPending, CancelRow
<1>3. CASE ListPending(w)
  <2>1. pc[w] = "cancel_list" /\ row' = row
    BY <1>3 DEF ListPending
  <2>2. CASE Finish(w)
    BY <1>1, <2>1, <2>2, CalmFinish DEF Agrees, Matches, ToCreate, Replacing, Exists
  <2>3. CASE ~Finish(w)
    <3> DEFINE record == [work[w] EXCEPT !.todo = EntriesOf(Scheduled)]
    <3>1. record.todo = EntriesOf(Scheduled)
      BY <1>1 DEF WorkRecords
    <3>2. pc' = [pc EXCEPT ![w] = "cancel"] /\ work' = [work EXCEPT ![w] = record]
      BY <1>1, <1>3, <2>3 DEF ListPending, WorkersOK
    <3> HIDE DEF record
    <3>3. pc'[w] = "cancel" /\ work'[w].todo = EntriesOf(Scheduled)
      BY <1>1, <3>1, <3>2 DEF WorkersOK
    <3>4. EntriesOf(Scheduled)' = EntriesOf(Scheduled)
      BY <2>1 DEF Scheduled, EntriesOf
    <3>5. ASSUME NEW k \in Kinds PROVE Agrees(w, k)' /\ Matches(w, k)'
      BY <1>1, <1>2, <2>1, <3>3 DEF Agrees, Matches, Exists, Replacing
    <3>6. SessionAsRead(w)' /\ RowsAsRead(w)'
      BY <1>1, <1>2, <3>3, <3>4 DEF SessionAsRead, RowsAsRead, Replacing, Scheduling, Sweeping
    <3> QED BY <3>5, <3>6 DEF CalmOf
  <2> QED BY <2>2, <2>3
<1>4. CASE \E e \in work[w].todo : CancelRow(w, e)
  <2>1. PICK e \in work[w].todo : CancelRow(w, e)
    BY <1>4
  <2>2. /\ pc[w] = "cancel" /\ work[w].todo \subseteq EntriesOf(Scheduled)
    BY <1>1, <2>1 DEF CancelRow, RowsAsRead
  <2>3. e \in Entries /\ e.kind \in Scheduled /\ Present(e) /\ e.kind \in Kinds
    BY <1>1, <2>2, InEntries DEF Entries
  <2> DEFINE r == [row[e.kind] EXCEPT !.status = "cancelled"]
  <2>4. /\ r.id = row[e.kind].id /\ r.status = "cancelled"
        /\ r.inapp = row[e.kind].inapp /\ r.enabled = row[e.kind].enabled
    BY <1>1, <2>3 DEF DataOK, Rows
  <2>5. row' = [row EXCEPT ![e.kind] = r] /\ Take(w, "cancel_skip", e)
    BY <2>1, <2>3 DEF CancelRow
  <2> HIDE DEF r
  <2>6. row'[e.kind] = r /\ \A k \in Kinds \ {e.kind} : row'[k] = row[k]
    BY <1>1, <2>3, <2>5 DEF DataOK
  <2>7. /\ pc'[w] = "cancel_skip" /\ work'[w].todo = work[w].todo \ {e} /\ work'[w].at = e
    BY <1>1, <2>5, TakeExact
  <2>8. row[e.kind].inapp = Made(e.kind)
    BY <1>1, <2>2, <2>3 DEF Agrees, Scheduled
  <2>9. work'[w].todo \subseteq EntriesOf(Scheduled)'
    <3> SUFFICES ASSUME NEW y \in work[w].todo, y # e PROVE y \in EntriesOf(Scheduled)'
      BY <2>7
    <3>1. y \in Entries /\ y.kind \in Scheduled /\ Present(y) /\ y.kind \in Kinds
      BY <1>1, <2>2, InEntries DEF Entries
    <3>2. y.kind # e.kind
      BY <2>3, <3>1, SameEntry DEF Present
    <3>3. y.kind \in Scheduled' /\ Present(y)'
      BY <2>6, <3>1, <3>2 DEF Scheduled, Present
    <3> QED BY <3>1, <3>3, InEntriesNext
  <2>10. ASSUME NEW k \in Kinds PROVE Agrees(w, k)' /\ Matches(w, k)'
    <3>1. Agrees(w, k)'
      BY <1>1, <2>2, <2>4, <2>6, <2>7 DEF Agrees
    <3>2. Matches(w, k)'
      BY <1>1, <1>2, <2>2, <2>4, <2>6, <2>7 DEF Matches, Exists, Replacing
    <3> QED BY <3>1, <3>2
  <2>11. Present(e)' /\ row'[e.kind].status = "cancelled" /\ row'[e.kind].inapp = Made(e.kind)'
    BY <2>3, <2>4, <2>6, <2>8 DEF Present
  <2>12. SessionAsRead(w)' /\ RowsAsRead(w)'
    BY <1>1, <1>2, <2>7, <2>9, <2>11 DEF SessionAsRead, RowsAsRead, Replacing, Scheduling, Sweeping, Present
  <2> QED BY <2>10, <2>12 DEF CalmOf
<1> QED BY <1>3, <1>4

\* The queued delivery of the reminder in hand is skipped, after a cancellation
\* or when a sweep finds the student without access.
LEMMA CalmSkip ==
  ASSUME IInv, NEW w \in Workers, CalmOf(w), SkipDeliveries(w) \/ SkipIneligible(w)
  PROVE  CalmOf(w)'
<1>a. PICK e : e = work[w].at
  OBVIOUS
<1>1. /\ WorkersOK /\ DataOK /\ UNCHANGED <<now, session, access>>
      /\ \A k \in Kinds : Agrees(w, k) /\ Matches(w, k)
      /\ SessionAsRead(w) /\ RowsAsRead(w)
      /\ EntriesOf(Scheduled) \subseteq Entries
      /\ pc[w] \in {"cancel_skip", "sweep_skip"} /\ e.kind \in Kinds
  BY <1>a, AtReminder, EntriesAreEntries
     DEF IInv, TypeOK, SkipDeliveries, SkipIneligible, RequestFrame, CalmOf, AtEntry, Sweeping
<1>2. PICK loop \in {"cancel", "sweep"} :
        /\ Advance(w, loop, "idle")
        /\ loop = "cancel" => pc[w] = "cancel_skip"
        /\ loop = "sweep" => pc[w] = "sweep_skip"
  BY DEF SkipDeliveries, SkipIneligible
<1>3. /\ Present(e) /\ row[e.kind].status = "cancelled" /\ row[e.kind].inapp = Made(e.kind)
      /\ work[w].todo \subseteq EntriesOf(Scheduled)
  BY <1>1, <1>a DEF RowsAsRead, Sweeping
<1>b. row[e.kind] \in Rows
  BY <1>1 DEF DataOK
<1>c. PICK r : /\ r.id = row[e.kind].id /\ r.status = "cancelled" /\ r.inapp = "skipped"
               /\ row' = [row EXCEPT ![e.kind] = r]
  <2>1. CASE row[e.kind].inapp = "queued"
    <3> DEFINE x == [row[e.kind] EXCEPT !.inapp = "skipped"]
    <3>1. x.id = row[e.kind].id /\ x.status = "cancelled" /\ x.inapp = "skipped"
      BY <1>3, <1>b DEF Rows
    <3>2. row' = [row EXCEPT ![e.kind] = x]
      BY <1>3, <1>a, <2>1 DEF SkipDeliveries, SkipIneligible, Skipped
    <3> QED BY <3>1, <3>2
  <2>2. CASE row[e.kind].inapp = "skipped"
    <3>1. row' = row
      BY <1>3, <1>a, <2>2 DEF SkipDeliveries, SkipIneligible, Skipped
    <3>2. row = [row EXCEPT ![e.kind] = row[e.kind]]
      BY <1>1 DEF DataOK
    <3> QED BY <1>3, <2>2, <3>1, <3>2
  <2> QED BY <1>3, <2>1, <2>2
<1>4. r.id = row[e.kind].id /\ r.status = "cancelled" /\ r.inapp = "skipped"
  BY <1>c
<1>5. row' = [row EXCEPT ![e.kind] = r]
  BY <1>c
<1>6. row'[e.kind] = r /\ \A k \in Kinds \ {e.kind} : row'[k] = row[k]
  BY <1>1, <1>5 DEF DataOK
<1>7. \A k \in Kinds : row'[k].id = row[k].id /\ row'[k].status = row[k].status
  BY <1>3, <1>4, <1>6
<1>8. EntriesOf(Scheduled)' = EntriesOf(Scheduled)
  BY <1>7 DEF EntriesOf, Scheduled
<1>9. /\ pc'[w] = IF work[w].todo = {} THEN "idle" ELSE loop
      /\ work[w].todo # {} => work'[w].todo = work[w].todo
  BY <1>1, <1>2, AdvanceExact
<1>10. ASSUME NEW k \in Kinds PROVE Agrees(w, k)' /\ Matches(w, k)'
  <2>1. Agrees(w, k)'
    BY <1>1, <1>3, <1>4, <1>6, <1>a DEF Agrees
  <2>2. ~ToCreate(w, k) /\ pc[w] \notin Replacing
    BY <1>1 DEF ToCreate, Replacing
  <2>3. k = e.kind => row[k] # NoRow
    BY <1>3 DEF NoRow
  <2>4. Matches(w, k)'
    BY <1>1, <1>3, <1>4, <1>6, <2>2, <2>3 DEF Matches, Exists
  <2> QED BY <2>1, <2>4
<1>11. SessionAsRead(w)' /\ RowsAsRead(w)'
  BY <1>1, <1>2, <1>3, <1>8, <1>9 DEF SessionAsRead, RowsAsRead, Replacing, Scheduling, Sweeping
<1> QED BY <1>10, <1>11 DEF CalmOf

\* A change to the row in hand leaves the rest of the list as it was.
LEMMA RestListed ==
  ASSUME NEW e \in Entries, NEW todo \in SUBSET Entries, Present(e), e \notin todo,
         todo \subseteq EntriesOf(Scheduled),
         \A k \in Kinds \ {e.kind} : row'[k] = row[k]
  PROVE  todo \subseteq EntriesOf(Scheduled)'
<1> SUFFICES ASSUME NEW y \in todo PROVE y \in EntriesOf(Scheduled)'
  OBVIOUS
<1>1. y \in Entries /\ y.kind \in Scheduled /\ Present(y) /\ y.kind \in Kinds
  BY InEntries DEF Entries
<1>2. y.kind # e.kind
  BY <1>1, SameEntry DEF Present
<1>3. y.kind \in Scheduled' /\ Present(y)'
  BY <1>1, <1>2 DEF Scheduled, Present
<1> QED BY <1>1, <1>3, InEntriesNext

\* The sweep takes up a reminder and reads its delivery: no row changes.
LEMMA CalmSweepReads ==
  ASSUME IInv, NEW w \in Workers, CalmOf(w),
         ReadDelivery(w) \/ \E e \in work[w].todo : Recheck(w, e)
  PROVE  CalmOf(w)'
<1>1. /\ WorkersOK /\ DataOK /\ UNCHANGED <<now, session, row, access>>
      /\ \A k \in Kinds : Agrees(w, k) /\ Matches(w, k)
      /\ SessionAsRead(w) /\ RowsAsRead(w)
      /\ EntriesOf(Scheduled) \subseteq Entries
  BY EntriesAreEntries DEF IInv, TypeOK, ReadDelivery, Recheck, RequestFrame, CalmOf
<1>2. EntriesOf(Scheduled)' = EntriesOf(Scheduled) /\ Scheduled' = Scheduled
  BY <1>1 DEF EntriesOf, Scheduled
<1>3. CASE ReadDelivery(w)
  <2>a. PICK e : e = work[w].at
    OBVIOUS
  <2>1. /\ pc[w] = "sweep_read" /\ e.kind \in Kinds
        /\ Present(e) /\ e.kind \in Scheduled
        /\ e \notin work[w].todo /\ work[w].todo \subseteq EntriesOf(Scheduled)
    BY <1>1, <1>3, <2>a DEF ReadDelivery, RowsAsRead, Sweeping, Scheduled
  <2>2. row[e.kind].inapp = Made(e.kind)
    BY <1>1, <2>1 DEF Agrees, Scheduled
  <2>3. /\ pc'[w] = IF row[e.kind].enabled THEN "sweep_deliver" ELSE "sweep_save"
        /\ work' = work
    BY <1>1, <1>3, <2>a, <2>1, <2>2 DEF ReadDelivery, Goto, WorkersOK
  <2>4. ASSUME NEW k \in Kinds PROVE Agrees(w, k)' /\ Matches(w, k)'
    <3>1. Agrees(w, k)'
      BY <1>1, <2>1, <2>3 DEF Agrees
    <3>2. ~ToCreate(w, k) /\ pc[w] \notin Replacing
      BY <2>1 DEF ToCreate, Replacing
    <3>3. Matches(w, k)'
      BY <1>1, <3>2 DEF Matches, Exists
    <3> QED BY <3>1, <3>3
  <2>5. SessionAsRead(w)' /\ RowsAsRead(w)'
    BY <1>1, <1>2, <2>a, <2>1, <2>2, <2>3 DEF SessionAsRead, RowsAsRead, Replacing, Scheduling, Sweeping, Present
  <2> QED BY <2>4, <2>5 DEF CalmOf
<1>4. CASE \E e \in work[w].todo : Recheck(w, e)
  <2>1. PICK e \in work[w].todo : Recheck(w, e)
    BY <1>4
  <2>2. pc[w] = "sweep" /\ work[w].todo \subseteq EntriesOf(Scheduled)
    BY <1>1, <2>1 DEF Recheck, RowsAsRead
  <2>3. e \in Entries /\ e.kind \in Scheduled /\ Present(e)
    BY <1>1, <2>2, InEntries
  <2>4. PICK step \in {"sweep_cancel", "sweep_read"} :
          Take(w, step, e) /\ (step = "sweep_cancel" => access # "always")
    BY <2>1 DEF Recheck
  <2>5. /\ pc'[w] = step /\ work'[w].todo = work[w].todo \ {e} /\ work'[w].at = e
    BY <1>1, <2>4, TakeExact
  <2>6. ASSUME NEW k \in Kinds PROVE Agrees(w, k)' /\ Matches(w, k)'
    BY <1>1, <2>2, <2>5 DEF Agrees, Matches, Exists, ToCreate, Replacing
  <2>7. SessionAsRead(w)' /\ RowsAsRead(w)'
    BY <1>1, <1>2, <2>2, <2>3, <2>4, <2>5
       DEF SessionAsRead, RowsAsRead, Replacing, Scheduling, Sweeping, Present
  <2> QED BY <2>6, <2>7 DEF CalmOf
<1> QED BY <1>3, <1>4

\* It delivers the reminder, and saves what has become of it.
LEMMA CalmSweepSaves ==
  ASSUME IInv, NEW w \in Workers, CalmOf(w),
         DeliverInApp(w) \/ SaveDispatched(w) \/ SaveIneligible(w)
  PROVE  CalmOf(w)'
<1>a. PICK e : e = work[w].at
  OBVIOUS
<1>b. PICK todo : todo = work[w].todo
  OBVIOUS
<1>1. /\ WorkersOK /\ DataOK /\ KeysUsedOnce /\ UNCHANGED <<now, session, access>>
      /\ \A k \in Kinds : Agrees(w, k) /\ Matches(w, k)
      /\ SessionAsRead(w) /\ RowsAsRead(w)
      /\ pc[w] \in {"sweep_deliver", "sweep_save", "sweep_cancel"}
  BY DEF IInv, TypeOK, DeliverInApp, SaveDispatched, SaveIneligible, SweepSave, RequestFrame, CalmOf
<1>2. e.kind \in Kinds /\ e \in Entries /\ todo \in SUBSET Entries /\ e \in Listed(w)
  <2>1. e.kind \in Kinds /\ e \in Entries
    BY <1>1, <1>a, AtReminder DEF AtEntry, Sweeping, IInv
  <2>2. todo \in SUBSET Entries
    BY <1>1, <1>b DEF WorkersOK, WorkRecords
  <2>3. e \in Listed(w)
    BY <1>1, <1>a DEF Listed, Sweeping
  <2> QED BY <2>1, <2>2, <2>3
<1>3. /\ Present(e) /\ e.kind \in Scheduled /\ row[e.kind].status = "scheduled"
      /\ e \notin todo /\ todo \subseteq EntriesOf(Scheduled)
  BY <1>1, <1>a, <1>b DEF RowsAsRead, Sweeping, Scheduled
<1>4. /\ pc[w] # "sweep_save" => row[e.kind].inapp = Made(e.kind)
      /\ pc[w] = "sweep_deliver" => row[e.kind].enabled
  BY <1>1, <1>2, <1>3, <1>a DEF Agrees, RowsAsRead
<1>5. ASSUME NEW r, row' = [row EXCEPT ![e.kind] = r], r.id = row[e.kind].id
      PROVE  /\ row'[e.kind] = r /\ \A k \in Kinds \ {e.kind} : row'[k] = row[k]
             /\ Present(e)' /\ todo \subseteq EntriesOf(Scheduled)'
  <2>1. row'[e.kind] = r /\ \A k \in Kinds \ {e.kind} : row'[k] = row[k]
    BY <1>1, <1>2, <1>5 DEF DataOK
  <2> QED BY <1>2, <1>3, <1>5, <2>1, RestListed DEF Present
<1>6. CASE DeliverInApp(w)
  <2> DEFINE r == [row[e.kind] EXCEPT !.inapp = "delivered"]
  <2>1. /\ r.id = row[e.kind].id /\ r.status = "scheduled" /\ r.inapp = "delivered"
        /\ r.start = row[e.kind].start /\ r.enabled = row[e.kind].enabled
    BY <1>1, <1>2, <1>3 DEF DataOK, Rows
  <2>2. pc[w] = "sweep_deliver" /\ row' = [row EXCEPT ![e.kind] = r] /\ Goto(w, "sweep_save")
    BY <1>3, <1>4, <1>6, <1>a DEF DeliverInApp
  <2>a. row[e.kind].enabled
    BY <1>4, <2>2
  <2> HIDE DEF r
  <2>3. /\ row'[e.kind] = r /\ \A k \in Kinds \ {e.kind} : row'[k] = row[k]
        /\ Present(e)' /\ todo \subseteq EntriesOf(Scheduled)'
    BY <1>5, <2>1, <2>2
  <2>4. pc'[w] = "sweep_save" /\ work' = work
    BY <1>1, <2>2 DEF Goto, WorkersOK
  <2>5. ASSUME NEW k \in Kinds PROVE Agrees(w, k)' /\ Matches(w, k)'
    <3>1. Agrees(w, k)'
      BY <1>1, <1>a, <2>1, <2>2, <2>3, <2>4 DEF Agrees
    <3>2. row[e.kind] # NoRow
      BY <1>3 DEF NoRow
    <3>3. Matches(w, k)'
      BY <1>1, <1>3, <2>1, <2>2, <2>3, <2>4, <3>2 DEF Matches, Exists, ToCreate, Replacing
    <3> QED BY <3>1, <3>3
  <2>6. e.kind \in Scheduled'
    BY <1>2, <2>1, <2>3 DEF Scheduled
  <2>7. SessionAsRead(w)' /\ RowsAsRead(w)'
    BY <1>1, <1>3, <1>a, <1>b, <2>a, <2>1, <2>3, <2>4, <2>6
       DEF SessionAsRead, RowsAsRead, Replacing, Scheduling, Sweeping
  <2> QED BY <2>5, <2>7 DEF CalmOf
<1>7. CASE SaveDispatched(w)
  <2> DEFINE r == [row[e.kind] EXCEPT !.status = "dispatched"]
  <2>1. /\ pc[w] = "sweep_save" /\ row' = [row EXCEPT ![e.kind] = r] /\ Advance(w, "sweep", "idle")
    BY <1>3, <1>7, <1>a DEF SaveDispatched, SweepSave
  <2>2. row[e.kind].inapp = Sent(e.kind)
    BY <1>1, <1>a, <2>1 DEF RowsAsRead
  <2>3. /\ r.id = row[e.kind].id /\ r.status = "dispatched"
        /\ r.inapp = IF r.enabled THEN "delivered" ELSE "skipped"
        /\ r.start = row[e.kind].start
    BY <1>1, <1>2, <2>2 DEF DataOK, Rows
  <2> HIDE DEF r
  <2>4. /\ row'[e.kind] = r /\ \A k \in Kinds \ {e.kind} : row'[k] = row[k]
        /\ Present(e)' /\ todo \subseteq EntriesOf(Scheduled)'
    BY <1>5, <2>1, <2>3
  <2>5. Due(e.kind, r.start) <= now
    BY <1>1, <1>2, <1>3, <2>3 DEF KeysUsedOnce
  <2>6. /\ pc'[w] = IF todo = {} THEN "idle" ELSE "sweep"
        /\ todo # {} => work'[w].todo = todo
    BY <1>1, <1>b, <2>1, AdvanceExact
  <2>7. ASSUME NEW k \in Kinds PROVE Agrees(w, k)' /\ Matches(w, k)'
    <3>1. CASE k = e.kind
      <4>1. row'[k] = r /\ row[k] # NoRow
        BY <1>3, <2>4, <3>1 DEF NoRow
      <4>2. Agrees(w, k)'
        BY <1>1, <2>3, <2>5, <3>1, <4>1 DEF Agrees, Due
      <4>3. Matches(w, k)'
        BY <1>1, <2>3, <4>1 DEF Matches, Exists
      <4> QED BY <4>2, <4>3
    <3>2. CASE k # e.kind
      <4>1. row'[k] = row[k]
        BY <2>4, <3>2
      <4>2. Agrees(w, k)'
        BY <1>1, <1>a, <2>1, <3>2, <4>1 DEF Agrees
      <4>3. Matches(w, k)'
        BY <1>1, <2>1, <4>1 DEF Matches, Exists, ToCreate, Replacing
      <4> QED BY <4>2, <4>3
    <3> QED BY <3>1, <3>2
  <2>8. SessionAsRead(w)' /\ RowsAsRead(w)'
    BY <2>4, <2>6 DEF SessionAsRead, RowsAsRead, Replacing, Scheduling, Sweeping
  <2> QED BY <2>7, <2>8 DEF CalmOf
<1>8. CASE SaveIneligible(w)
  <2> DEFINE r == [row[e.kind] EXCEPT !.status = "cancelled"]
  <2>1. pc[w] = "sweep_cancel" /\ row' = [row EXCEPT ![e.kind] = r] /\ Goto(w, "sweep_skip")
    BY <1>3, <1>8, <1>a DEF SaveIneligible, SweepSave
  <2>2. /\ r.id = row[e.kind].id /\ r.status = "cancelled"
        /\ r.inapp = IF r.enabled THEN "queued" ELSE "skipped"
    BY <1>1, <1>2, <1>4, <2>1 DEF DataOK, Rows
  <2> HIDE DEF r
  <2>3. /\ row'[e.kind] = r /\ \A k \in Kinds \ {e.kind} : row'[k] = row[k]
        /\ Present(e)' /\ todo \subseteq EntriesOf(Scheduled)'
    BY <1>5, <2>1, <2>2
  <2>4. pc'[w] = "sweep_skip" /\ work' = work /\ access # "always"
    BY <1>1, <2>1 DEF Goto, WorkersOK, RowsAsRead
  <2>5. ASSUME NEW k \in Kinds PROVE Agrees(w, k)' /\ Matches(w, k)'
    <3>1. Agrees(w, k)'
      BY <1>1, <1>a, <2>1, <2>2, <2>3, <2>4 DEF Agrees
    <3>2. row[e.kind] # NoRow
      BY <1>3 DEF NoRow
    <3>3. Matches(w, k)'
      BY <1>1, <1>3, <2>1, <2>2, <2>3, <2>4, <3>2 DEF Matches, Exists, Replacing
    <3> QED BY <3>1, <3>3
  <2>6. SessionAsRead(w)' /\ RowsAsRead(w)'
    BY <1>1, <1>3, <1>a, <1>b, <2>2, <2>3, <2>4
       DEF SessionAsRead, RowsAsRead, Replacing, Scheduling, Sweeping
  <2> QED BY <2>5, <2>6 DEF CalmOf
<1> QED BY <1>6, <1>7, <1>8

-----------------------------------------------------------------------------
(* A request begins: while the history is calm it is the only one *)

LEMMA CalmEnter ==
  ASSUME IInv, calm => CalmInv, NEW w \in Workers, NEW step \in Steps \ AtEntry,
         NEW record \in WorkRecords, Enter(w, step, record), calm'
  PROVE  /\ calm /\ Solo(w)' /\ pc[w] = "idle" /\ CalmOf(w)
         /\ pc'[w] = step /\ work'[w] = record
<1>1. WorkersOK /\ calm \in BOOLEAN
  BY DEF IInv, TypeOK, DataOK
<1>2. /\ pc[w] = "idle" /\ Others(w) /\ pc'[w] = step /\ work'[w] = record
      /\ calm' = (calm /\ Solo(w))
  BY <1>1, EnterMove DEF Enter, Solo
<1>3. calm /\ Solo(w) /\ Solo(w)'
  BY <1>2 DEF Solo, Others
<1> QED BY <1>2, <1>3, SoloMeans

LEMMA CalmReadOnly ==
  ASSUME IInv, calm => CalmInv, NEW w \in Workers, NEW step \in Steps \ AtEntry,
         NEW record \in WorkRecords, Enter(w, step, record), calm',
         UNCHANGED <<now, session, row, access>>,
         CalmOf(w) => SessionAsRead(w)' /\ RowsAsRead(w)'
  PROVE  CalmInv'
<1>1. /\ Solo(w)' /\ pc[w] = "idle" /\ CalmOf(w) /\ pc'[w] = step /\ work'[w] = record
  BY CalmEnter
<1>2. ASSUME NEW k \in Kinds PROVE Agrees(w, k)' /\ Matches(w, k)'
  <2>1. Agrees(w, k) /\ Matches(w, k) /\ ~ToCreate(w, k) /\ pc[w] \notin Replacing
    BY <1>1, IdleHolds DEF CalmOf
  <2>2. Agrees(w, k)'
    BY <1>1, <2>1 DEF Agrees
  <2>3. Matches(w, k)'
    BY <2>1 DEF Matches, Exists
  <2> QED BY <2>2, <2>3
<1>3. CalmOf(w)'
  BY <1>1, <1>2 DEF CalmOf
<1> QED BY <1>1, <1>3, SoloMeansNext

LEMMA CalmRequests ==
  ASSUME IInv, calm => CalmInv, NEW w \in Workers, calm',
         \/ BeginCancel(w) \/ BeginDestroy(w) \/ BeginStart(w)
         \/ \E start \in Starts : BeginEdit(w, start)
  PROVE  CalmInv'
<1>1. DataOK /\ WorkersOK
  BY DEF IInv, TypeOK
<1>2. CASE BeginCancel(w) \/ BeginDestroy(w)
  <2>1. PICK step \in {"cancel_save", "destroy"} : Request(w, step, NoWork) /\ Exists
    BY <1>2 DEF BeginCancel, BeginDestroy
  <2>2. /\ Enter(w, step, NoWork) /\ UNCHANGED <<now, session, row, access>>
        /\ step \in Steps \ AtEntry
    BY <2>1 DEF Request, Steps, AtEntry, Sweeping
  <2>3. pc'[w] = step
    BY <1>1, <2>2, NoWorkType, EnterMove DEF DataOK
  <2>4. SessionAsRead(w)' /\ RowsAsRead(w)'
    BY <2>1, <2>2, <2>3 DEF SessionAsRead, RowsAsRead, Exists, Replacing, Scheduling, Sweeping
  <2> QED BY <2>2, <2>4, NoWorkType, CalmReadOnly
<1>3. CASE BeginStart(w)
  <2> DEFINE step == IF EffectiveStatus = session.status THEN "admit" ELSE "refresh_save"
             record == [NoWork EXCEPT !.status = EffectiveStatus, !.start = session.start]
  <2>1. /\ Enter(w, step, record) /\ UNCHANGED <<now, session, row, access>> /\ Exists
        /\ step \in Steps \ AtEntry
        /\ step = "refresh_save" =>
             session.status # "cancelled" /\ EffectiveStatus \in {"scheduled", "live", "completed"}
    BY <1>3 DEF BeginStart, Request, Steps, AtEntry, Sweeping, EffectiveStatus
  <2>2. EffectiveStatus \in Statuses
    BY <1>1 DEF EffectiveStatus, Statuses
  <2>3. record \in WorkRecords /\ record.status = EffectiveStatus
    BY <1>1, <2>2, NoWorkType DEF WorkRecords, NoWork, DataOK
  <2> HIDE DEF step, record
  <2>4. pc'[w] = step /\ work'[w] = record
    BY <1>1, <2>1, <2>3, EnterMove DEF DataOK
  <2>5. step \in {"admit", "refresh_save"}
    BY DEF step
  <2>6. SessionAsRead(w)' /\ RowsAsRead(w)'
    BY <2>1, <2>3, <2>4, <2>5 DEF SessionAsRead, RowsAsRead, Exists, Replacing, Scheduling, Sweeping
  <2> QED BY <2>1, <2>3, <2>6, CalmReadOnly
<1>4. CASE \E start \in Starts : BeginEdit(w, start)
  <2>1. PICK start \in Starts : BeginEdit(w, start)
    BY <1>4
  <2> DEFINE record == [NoWork EXCEPT !.status = session.status, !.start = start]
  <2>2. /\ Enter(w, "edit_check", record) /\ UNCHANGED <<now, session, row, access>> /\ Exists
        /\ "edit_check" \in Steps \ AtEntry
    BY <2>1 DEF BeginEdit, Request, Steps, AtEntry, Sweeping
  <2>3. record \in WorkRecords /\ record.status = session.status
    BY <1>1, NoWorkType, ReminderAssumption DEF WorkRecords, NoWork, DataOK
  <2> HIDE DEF record
  <2>4. pc'[w] = "edit_check" /\ work'[w] = record
    BY <1>1, <2>2, <2>3, EnterMove DEF DataOK
  <2>5. SessionAsRead(w)' /\ RowsAsRead(w)'
    BY <2>2, <2>3, <2>4 DEF SessionAsRead, RowsAsRead, Exists, Replacing, Scheduling, Sweeping
  <2> QED BY <2>2, <2>3, <2>5, CalmReadOnly
<1> QED BY <1>2, <1>3, <1>4

LEMMA CalmBeginSweep ==
  ASSUME IInv, calm => CalmInv, NEW w \in Workers, calm', BeginSweep(w)
  PROVE  CalmInv'
<1> DEFINE due == {k \in Scheduled : Due(k, row[k].start) <= now}
           record == [NoWork EXCEPT !.todo = EntriesOf(due)]
<1>1. DataOK /\ WorkersOK
  BY DEF IInv, TypeOK
<1>2. /\ Enter(w, "sweep", record) /\ UNCHANGED <<now, session, row, access>>
      /\ "sweep" \in Steps \ AtEntry
  BY DEF BeginSweep, Steps, AtEntry, Sweeping
<1>3. EntriesOf(due) \subseteq EntriesOf(Scheduled) /\ EntriesOf(due) \subseteq Entries
  BY <1>1, EntriesAreEntries DEF EntriesOf
<1>4. record \in WorkRecords /\ record.todo = EntriesOf(due)
  BY <1>3, NoWorkType DEF WorkRecords, NoWork
<1>5. EntriesOf(Scheduled)' = EntriesOf(Scheduled)
  BY <1>2 DEF EntriesOf, Scheduled
<1> HIDE DEF due, record
<1>6. pc'[w] = "sweep" /\ work'[w] = record
  BY <1>1, <1>2, <1>4, EnterMove DEF DataOK
<1>7. SessionAsRead(w)' /\ RowsAsRead(w)'
  BY <1>3, <1>4, <1>5, <1>6 DEF SessionAsRead, RowsAsRead, Replacing, Scheduling, Sweeping
<1> QED BY <1>2, <1>4, <1>7, CalmReadOnly

\* A session is created once, and has no reminders before.
LEMMA CalmCreateSession ==
  ASSUME IInv, calm => CalmInv, NEW w \in Workers, calm', NEW start \in Starts,
         CreateSession(w, start)
  PROVE  CalmInv'
<1> DEFINE record == [NoWork EXCEPT !.start = start]
<1>1. /\ DataOK /\ WorkersOK /\ Enter(w, "schedule", record) /\ UNCHANGED <<now, row, access>>
      /\ session.status = "none" /\ session'.status = "scheduled" /\ session'.start = start
      /\ "schedule" \in Steps \ AtEntry
  BY DEF IInv, TypeOK, CreateSession, Steps, AtEntry, Sweeping
<1>2. record \in WorkRecords /\ record.start = start
  BY NoWorkType, ReminderAssumption DEF WorkRecords, NoWork
<1> HIDE DEF record
<1>3. /\ Solo(w)' /\ CalmOf(w) /\ pc'[w] = "schedule" /\ work'[w].start = start
  BY <1>1, <1>2, CalmEnter
<1>4. \A k \in Kinds : row'[k] = NoRow
  BY <1>1, <1>3 DEF CalmOf, Matches
<1>5. ASSUME NEW k \in Kinds PROVE Agrees(w, k)' /\ Matches(w, k)'
  BY <1>1, <1>3, <1>4 DEF Agrees, Matches, NoRow, ToCreate
<1>6. Scheduled' = {}
  BY <1>4 DEF Scheduled, NoRow
<1>7. SessionAsRead(w)' /\ RowsAsRead(w)'
  BY <1>1, <1>3, <1>6 DEF SessionAsRead, RowsAsRead, Exists, Replacing, Scheduling, Sweeping
<1>8. CalmOf(w)'
  BY <1>5, <1>7 DEF CalmOf
<1> QED BY <1>3, <1>8, SoloMeansNext

-----------------------------------------------------------------------------
(* Every step *)

LEMMA OnlyItsOwn ==
  ASSUME WorkersOK, NEW w \in Workers, Step(w)
  PROVE  pc[w] # "idle" /\ Others(w)
<1>1. /\ pc \in [Workers -> Steps] /\ work \in [Workers -> WorkRecords]
  BY DEF WorkersOK
<1>2. ASSUME \/ Finish(w) \/ (\E step : Goto(w, step)) \/ (\E step, e : Take(w, step, e))
             \/ (\E step, last : Advance(w, step, last))
      PROVE  Others(w)
  BY <1>1, <1>2 DEF Finish, Goto, Take, Advance, Others
<1>3. CASE BeginSchedule(w) \/ CheckEdit(w) \/ SaveEdit(w) \/ ListStale(w) \/ ListPending(w)
           \/ \E e \in work[w].todo : Lookup(w, e)
  <2>1. pc[w] # "idle"
    BY <1>3 DEF BeginSchedule, CheckEdit, SaveEdit, ListStale, ListPending, Lookup
  <2>2. Others(w)
    BY <1>1, <1>2, <1>3 DEF BeginSchedule, CheckEdit, SaveEdit, ListStale, ListPending, Lookup, Others
  <2> QED BY <2>1, <2>2
<1>4. CASE CreateReminder(w) \/ DeleteRow(w) \/ SaveCancel(w) \/ SkipDeliveries(w) \/ FinishDestroy(w)
           \/ SaveStatus(w) \/ Admit(w)
  <2>1. pc[w] # "idle"
    BY <1>4 DEF CreateReminder, DeleteRow, SaveCancel, SkipDeliveries, FinishDestroy, SaveStatus, Admit
  <2>2. Others(w)
    BY <1>2, <1>4 DEF CreateReminder, DeleteRow, SaveCancel, SkipDeliveries, FinishDestroy, SaveStatus, Admit
  <2> QED BY <2>1, <2>2
<1>5. CASE ReadDelivery(w) \/ DeliverInApp(w) \/ SaveDispatched(w) \/ SaveIneligible(w) \/ SkipIneligible(w)
  <2>1. pc[w] # "idle"
    BY <1>5 DEF ReadDelivery, DeliverInApp, SaveDispatched, SaveIneligible, SweepSave, SkipIneligible
  <2>2. Others(w)
    BY <1>2, <1>5 DEF ReadDelivery, DeliverInApp, SaveDispatched, SaveIneligible, SweepSave, SkipIneligible
  <2> QED BY <2>1, <2>2
<1>6. CASE \E e \in work[w].todo : DeleteDeliveries(w, e) \/ CancelRow(w, e) \/ Recheck(w, e)
  <2>1. pc[w] # "idle"
    BY <1>6 DEF DeleteDeliveries, CancelRow, Recheck
  <2>2. Others(w)
    BY <1>2, <1>6 DEF DeleteDeliveries, CancelRow, Recheck
  <2> QED BY <2>1, <2>2
<1> QED BY <1>3, <1>4, <1>5, <1>6 DEF Step

LEMMA LoneWorker ==
  ASSUME IInv, CalmInv, NEW w \in Workers, Step(w)
  PROVE  CalmInv'
<1>1. pc[w] # "idle" /\ Others(w)
  BY OnlyItsOwn DEF IInv, TypeOK
<1>2. Solo(w)
  BY <1>1 DEF CalmInv, OneAtATime, Solo
<1>3. CalmOf(w) => CalmOf(w)'
  BY CalmSchedule, CalmLookup, CalmCreate, CalmEdit, CalmDelete, CalmSession, CalmCancel, CalmSkip,
     CalmSweepReads, CalmSweepSaves DEF Step
<1> QED BY <1>1, <1>2, <1>3, SoloStep

\* The clock moves on, the student submits or gains or loses access.
LEMMA CalmOutside ==
  ASSUME IInv, CalmInv, Tick \/ ChangeAccess \/ ChangePreference \/ SubmitAttempt
  PROVE  CalmInv'
<1>1. /\ UNCHANGED <<session, row, pc, work>> /\ DataOK
      /\ now \in Nat /\ now' \in Nat /\ now' >= now
      /\ access' = access \/ access' # "always"
  BY DEF IInv, TypeOK, DataOK, Tick, ChangeAccess, ChangePreference, SubmitAttempt
<1>2. ASSUME NEW k \in Kinds PROVE RowAgrees(k)' /\ RowMatches(k)'
  <2>1. RowAgrees(k) /\ RowMatches(k)
    BY DEF CalmInv
  <2>2. Due(k, row[k].start) \in Int /\ Due(k, session.start) \in Int
    BY <1>1, ReminderAssumption DEF DataOK, Rows, Due
  <2>3. RowAgrees(k)'
    BY <1>1, <2>1, <2>2 DEF RowAgrees, InHand, Due
  <2>4. RowMatches(k)'
    BY <1>1, <2>1, <2>2 DEF RowMatches, ToCreate, Exists, Scheduled, Due
  <2> QED BY <2>3, <2>4
<1>3. ASSUME NEW w \in Workers PROVE SessionAsRead(w)' /\ RowsAsRead(w)'
  <2>1. SessionAsRead(w) /\ RowsAsRead(w)
    BY DEF CalmInv
  <2>2. SessionAsRead(w)'
    BY <1>1, <2>1 DEF SessionAsRead, Exists
  <2>3. RowsAsRead(w)'
    BY <1>1, <2>1 DEF RowsAsRead, EntriesOf, Scheduled, Present
  <2> QED BY <2>2, <2>3
<1>4. OneAtATime'
  BY <1>1 DEF CalmInv, OneAtATime
<1> QED BY <1>2, <1>3, <1>4 DEF CalmInv

LEMMA LoneInit == Init => LoneInv
<1> SUFFICES ASSUME Init PROVE CalmInv
  BY InitHolds DEF LoneInv
<1>1. \A w \in Workers : pc[w] = "idle"
  BY DEF Init
<1>2. \A w \in Workers : SessionAsRead(w) /\ RowsAsRead(w)
  BY <1>1, IdleHolds
<1>3. \A k \in Kinds : row[k] = NoRow /\ NoRow.status = "none"
  BY DEF Init, NoRow
<1>4. session.status = "none" /\ OneAtATime
  BY <1>1 DEF Init, OneAtATime
<1> QED BY <1>2, <1>3, <1>4 DEF CalmInv, RowAgrees, RowMatches, Exists, Scheduled

\* While no request overlaps another or dies, what a request has read of the
\* session and of its reminders still holds when it writes (ExamSessionViewSet,
\* exam_integration.py), for any reminders, start times and threads.
THEOREM LoneHolds == Spec => []LoneInv
<1>1. IInv /\ [Next]_vars => IInv'
  BY InvariantStep
<1>2. LoneInv /\ [Next]_vars => LoneInv'
  <2> SUFFICES ASSUME IInv, calm => CalmInv, [Next]_vars, calm' PROVE CalmInv'
    BY <1>1 DEF LoneInv
  <2>1. CASE UNCHANGED vars
    <3>1. calm /\ CalmInv /\ UNCHANGED <<now, session, row, access, pc, work>>
      BY <2>1 DEF vars
    <3> QED BY <3>1 DEF CalmInv, OneAtATime, RowAgrees, InHand, RowMatches, ToCreate, SessionAsRead, RowsAsRead,
                        Exists, Scheduled, EntriesOf, Present
  <2>2. CASE Tick \/ ChangeAccess \/ ChangePreference \/ SubmitAttempt
    <3>1. calm
      BY <2>2 DEF Tick, ChangeAccess, ChangePreference, SubmitAttempt
    <3> QED BY <2>2, <3>1, CalmOutside
  <2>3. CASE \E w \in Workers : Step(w)
    <3>1. PICK w \in Workers : Step(w)
      BY <2>3
    <3>2. calm
      BY <3>1 DEF Step, BeginSchedule, CreateReminder, CheckEdit, SaveEdit, ListStale, DeleteRow, SaveCancel,
                  ListPending, SkipDeliveries, FinishDestroy, SaveStatus, Admit, ReadDelivery, DeliverInApp,
                  SaveDispatched, SaveIneligible, SweepSave, SkipIneligible, Lookup, DeleteDeliveries,
                  CancelRow, Recheck, RequestFrame
    <3> QED BY <3>1, <3>2, LoneWorker
  <2>4. CASE \E w \in Workers : Crash(w)
    BY <2>4 DEF Crash
  <2>5. CASE \E w \in Workers : \/ BeginSweep(w) \/ BeginCancel(w) \/ BeginDestroy(w) \/ BeginStart(w)
                                \/ \E start \in Starts : CreateSession(w, start) \/ BeginEdit(w, start)
    BY <2>5, CalmRequests, CalmBeginSweep, CalmCreateSession
  <2> QED BY <2>1, <2>2, <2>3, <2>4, <2>5 DEF Next
<1> QED BY <1>2, LoneInit, PTL DEF Spec

LEMMA QuietMeans ==
  ASSUME LoneInv, Quiet
  PROVE  /\ CalmInv
         /\ \A w \in Workers : pc[w] \notin Replacing /\ \A k \in Kinds : ~ToCreate(w, k)
BY IdleHolds DEF LoneInv, Quiet

\* After requests that did not overlap, every reminder still to be sent is for
\* the time the session now has (perform_update, _resync_reminders).
THEOREM RemindersMatchHolds == Spec => []RemindersMatch
<1>1. LoneInv => RemindersMatch
  <2> SUFFICES ASSUME LoneInv, Quiet, Exists, NEW k \in Scheduled PROVE row[k].start = session.start
    BY DEF RemindersMatch
  <2>1. k \in Kinds
    BY DEF Scheduled
  <2> QED BY <2>1, QuietMeans DEF CalmInv, RowMatches
<1> QED BY <1>1, LoneHolds, PTL

\* And none is missing for a student who had access all along, but those of a
\* kind already sent (schedule_session_reminders).
THEOREM EveryReminderComesHolds == Spec => []EveryReminderComes
<1>1. LoneInv => EveryReminderComes
  <2> SUFFICES ASSUME LoneInv, Quiet, Exists, session.status # "cancelled", access = "always",
                      NEW k \in Kinds, Due(k, session.start) > now
               PROVE  \/ row[k].status = "scheduled" /\ row[k].start = session.start
                      \/ row[k].status = "dispatched" /\ Due(k, row[k].start) <= now
    BY DEF EveryReminderComes
  <2>1. row[k].status \in {"scheduled", "dispatched"}
    BY QuietMeans DEF CalmInv, RowMatches
  <2>2. row[k].status = "scheduled" => row[k].start = session.start
    BY QuietMeans DEF CalmInv, RowMatches, Scheduled
  <2>3. row[k].status = "dispatched" => Due(k, row[k].start) <= now
    BY QuietMeans DEF CalmInv, RowAgrees
  <2> QED BY <2>1, <2>2, <2>3
<1> QED BY <1>1, LoneHolds, PTL

\* After requests that did not overlap, the dispatched reminders and only they
\* were delivered (dispatch_due_notifications, cancel_notification).
THEOREM StatusTellsDeliveryHolds == Spec => []StatusTellsDelivery
<1>1. LoneInv => StatusTellsDelivery
  <2> SUFFICES ASSUME LoneInv, Quiet, NEW k \in Kinds
               PROVE  /\ row[k].status = "scheduled" => row[k].inapp = Made(k)
                      /\ row[k].status = "dispatched" => row[k].inapp = Sent(k)
                      /\ row[k].status = "cancelled" => row[k].inapp = "skipped"
    BY DEF StatusTellsDelivery
  <2>1. ~InHand(k, {"delete_row", "sweep_save"}) /\ ~InHand(k, {"cancel_skip", "sweep_skip"})
    BY DEF InHand, Quiet
  <2> QED BY <2>1, QuietMeans DEF CalmInv, RowAgrees
<1> QED BY <1>1, LoneHolds, PTL
=============================================================================
