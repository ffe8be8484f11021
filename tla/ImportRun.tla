------------------------------ MODULE ImportRun ------------------------------
(***************************************************************************)
(* The import of a bulk-question upload whose rows have been searched for  *)
(* duplicates (ImportSearch): the confirmation, the background run that    *)
(* makes one question of each row, and its claim; the two requests that    *)
(* make all questions at once in one transaction instead (create-test,     *)
(* create-questions); the rollback of a completed batch.  The run works    *)
(* without a transaction: a question first, then the row that points to    *)
(* it.  Cloud Tasks delivers the run at least once, and again after the    *)
(* process died or the handler answered 500.                               *)
(***************************************************************************)
EXTENDS ImportBatch

CONSTANTS
    Importers,      \* handlers of the task
    Clerks,         \* requests that create the questions directly
    NoRun,          \* the handler is idle
    NoCopy,         \* the request is idle
    NoRow,
    LongRuns        \* TRUE: a run may outlive its claim

ASSUME ImportAssumption ==
    /\ NoRow \notin Rows
    /\ LongRuns \in BOOLEAN

VARIABLES
    row,       \* row[r]: ImportRow.status, dedup_action, created_question set
    claim,     \* ImportBatch.processing_claimed_at: none, fresh or stale
    task,      \* the task of the batch: unnamed, queued or finished
    importer,  \* importer[w]: the run of handler w
    clerk,     \* clerk[c]: the rows as a direct request has read them
    made,      \* made[r]: questions in the bank that came from row r
    gone,      \* rows whose original question was deleted to replace it
    accidents  \* history: accidents[r] counts what befell row r

delivery == <<claim, task>>
vars == <<status, row, delivery, importer, clerk, made, gone, accidents, crashes, edits>>

RowStatus == {"valid", "error", "duplicate", "imported", "skipped", "removed"}
Actions == {"none", "skip", "replace", "keep_both"}
Settled == {"error", "imported", "skipped", "removed"}
Row == [status : RowStatus, action : Actions, created : BOOLEAN]

\* A run: the rows left, the rows as it read them, and the row whose question
\* it has created but not yet noted in the row.
Run == [todo : SUBSET Rows, read : [Rows -> Row], halfway : Rows \cup {NoRow}]

ASSUME IdleAssumption == NoRun \notin Run /\ NoCopy \notin [Rows -> Row]

Busy(w) == importer[w] # NoRun
Skips(copy, r) == copy[r].status = "duplicate" /\ copy[r].action = "skip"
Replaces(copy, r) == copy[r].status = "duplicate" /\ copy[r].action = "replace"
Undecided == \E r \in Rows : row[r].status = "duplicate" /\ row[r].action = "none"

\* Rows some run has yet to get to.
InRun == {r \in Rows : \E w \in Importers : Busy(w) /\ r \in importer[w].todo}

Befalls(S) == accidents' = [r \in Rows |-> accidents[r] + IF r \in S THEN 1 ELSE 0]
-----------------------------------------------------------------------------
Init ==
    /\ status = "ready"
    /\ row \in [Rows -> [status : {"valid", "error", "duplicate"}, action : {"none"},
                         created : {FALSE}]]
    /\ claim = "none" /\ task = "unnamed"
    /\ importer = [w \in Importers |-> NoRun]
    /\ clerk = [c \in Clerks |-> NoCopy]
    /\ made = [r \in Rows |-> 0] /\ gone = {}
    /\ accidents = [r \in Rows |-> 0]
    /\ crashes = 0 /\ edits = 0

\* The decision on a duplicate.
Decide(r, action) ==
    /\ Editable /\ row[r].status = "duplicate" /\ row[r].action = "none"
    /\ row' = [row EXCEPT ![r].action = action]
    /\ UNCHANGED <<status, delivery, importer, clerk, made, gone, accidents, crashes,
                   edits>>

\* A settled row is written over by somebody who has not seen that it is:
\* the PATCH of a row, which does not ask for the status of the batch, or
\* the last rows of a superseded search.
Overwrite(r, newStatus) ==
    /\ edits < MaxEdits /\ edits' = edits + 1
    /\ row[r].status \notin {"removed", newStatus}
    /\ row' = [row EXCEPT ![r].status = newStatus]
    /\ Befalls({r})
    /\ UNCHANGED <<status, delivery, importer, clerk, made, gone, crashes>>

EditRow(r, valid) ==
    /\ row[r].status # "duplicate"
    /\ Overwrite(r, IF valid THEN "valid" ELSE "error")

LateVerdict(r, verdict) == Overwrite(r, verdict)

\* A row is removed before the import, a duplicate also after a failed one.
RemoveRow(r) ==
    /\ edits < MaxEdits /\ edits' = edits + 1
    /\ row[r].status # "removed"
    /\ status = "ready" \/ (status = "failed" /\ row[r].status = "duplicate")
    /\ row' = [row EXCEPT ![r].status = "removed"]
    /\ UNCHANGED <<status, delivery, importer, clerk, made, gone, accidents, crashes>>

-----------------------------------------------------------------------------
(* The background run. *)

\* Once the search has completed (ImportSearch) and no duplicate is undecided
\* the task is made.  It carries the name of the batch, so a second one is not
\* created while Cloud Tasks remembers the first.  The status stays for now.
Confirm ==
    /\ Editable /\ ~Undecided
    /\ task = "unnamed" /\ task' = "queued"
    /\ UNCHANGED <<status, row, claim, importer, clerk, made, gone, accidents,
                   crashes, edits>>

TaskForgotten ==
    /\ task = "finished" /\ task' = "unnamed"
    /\ UNCHANGED <<status, row, claim, importer, clerk, made, gone, accidents,
                   crashes, edits>>

\* At least once: a task that was acknowledged comes again.
TaskRepeats ==
    /\ task = "finished" /\ task' = "queued"
    /\ UNCHANGED <<status, row, claim, importer, clerk, made, gone, accidents, crashes,
                   edits>>

\* Wrong: a claim is no obstacle.
ClaimAlwaysFree == TRUE

ClaimFree == claim \in {"none", "stale"}

\* Wrong: the rows that are imported already are done again.
AllRows == {r \in Rows : row[r].status \notin {"error", "skipped", "removed"}}

OpenRows == {r \in Rows : row[r].status \notin Settled}

\* The claim, then the status, then the rows to do are read.
StartRun(w) ==
    /\ task = "queued" /\ ~Busy(w)
    /\ ClaimFree /\ claim' = "fresh"
    /\ status' = "importing"
    /\ importer' = [importer EXCEPT ![w] = [todo |-> OpenRows, read |-> row, halfway |-> NoRow]]
    /\ UNCHANGED <<row, task, clerk, made, gone, accidents, crashes, edits>>

\* A delivery that finds the batch claimed is acknowledged.
DropTask ==
    /\ task = "queued" /\ ~ClaimFree
    /\ task' = "finished"
    /\ UNCHANGED <<status, row, claim, importer, clerk, made, gone, accidents,
                   crashes, edits>>

\* The row the run is at: the first of those it has left.
AtRow(w, r) ==
    Busy(w) /\ r \in importer[w].todo /\ \A other \in importer[w].todo : r <= other

\* A duplicate to be skipped, as the run read it.
SkipRow(w, r) ==
    /\ AtRow(w, r) /\ importer[w].halfway = NoRow
    /\ Skips(importer[w].read, r) /\ row[r].status # "removed"
    /\ row' = [row EXCEPT ![r].status = "skipped"]
    /\ importer' = [importer EXCEPT ![w].todo = @ \ {r}]
    /\ UNCHANGED <<status, delivery, clerk, made, gone, accidents, crashes, edits>>

\* The question is created; a duplicate's original is deleted first when it
\* is to be replaced and no test or answer refers to it.
CreateQuestion(w, r) ==
    /\ AtRow(w, r) /\ importer[w].halfway = NoRow
    /\ ~Skips(importer[w].read, r)
    /\ \/ Replaces(importer[w].read, r) /\ gone' = gone \cup {r}
       \/ UNCHANGED gone
    /\ made' = [made EXCEPT ![r] = @ + 1]
    /\ importer' = [importer EXCEPT ![w].halfway = r]
    /\ UNCHANGED <<status, row, delivery, clerk, accidents, crashes, edits>>

\* Wrong: the row does not keep the link to its question.
SaveRowUnlinked(w, r) ==
    /\ AtRow(w, r) /\ importer[w].halfway = r
    /\ row[r].status # "removed"
    /\ row' = [row EXCEPT ![r].status = "imported"]
    /\ importer' = [importer EXCEPT ![w].todo = @ \ {r}, ![w].halfway = NoRow]
    /\ UNCHANGED <<status, delivery, clerk, made, gone, accidents, crashes, edits>>

\* ... and then the row says so.
SaveRow(w, r) ==
    /\ AtRow(w, r) /\ importer[w].halfway = r
    /\ row[r].status # "removed"
    /\ row' = [row EXCEPT ![r].status = "imported", ![r].created = TRUE]
    /\ importer' = [importer EXCEPT ![w].todo = @ \ {r}, ![w].halfway = NoRow]
    /\ UNCHANGED <<status, delivery, clerk, made, gone, accidents, crashes, edits>>

\* An exception on one row, before its question exists or after it does (an
\* option or an image fails): the row is in error and the run goes on.
RowFails(w, r) ==
    /\ AtRow(w, r) /\ crashes < MaxCrashes
    /\ row[r].status # "removed"
    /\ row' = [row EXCEPT ![r].status = "error"]
    /\ importer' = [importer EXCEPT ![w].todo = @ \ {r}, ![w].halfway = NoRow]
    /\ Befalls({importer[w].halfway})
    /\ crashes' = crashes + 1
    /\ UNCHANGED <<status, delivery, clerk, made, gone, edits>>

FinishRun(w) ==
    /\ Busy(w) /\ importer[w].todo = {}
    /\ status' = "completed" /\ task' = "finished"
    /\ importer' = [importer EXCEPT ![w] = NoRun]
    /\ UNCHANGED <<row, claim, clerk, made, gone, accidents, crashes, edits>>

\* The run breaks off: an exception outside the rows leaves the batch failed
\* and is answered 500, the death of the process leaves it as it is.  The
\* claim stays, and so does the task.
BreakRun(w, newStatus) ==
    /\ Busy(w)
    /\ \/ crashes < MaxCrashes /\ crashes' = crashes + 1
       \/ /\ newStatus = "failed" /\ UNCHANGED crashes
          /\ \E r \in Rows : AtRow(w, r) /\ row[r].status = "removed"
    /\ status' = newStatus /\ task' = "queued"
    /\ Befalls({importer[w].halfway})
    /\ importer' = [importer EXCEPT ![w] = NoRun]
    /\ UNCHANGED <<row, claim, clerk, made, gone, edits>>

\* Half an hour after the claim.
ClaimAges ==
    /\ claim = "fresh"
    /\ LongRuns \/ \A w \in Importers : ~Busy(w)
    /\ claim' = "stale"
    /\ UNCHANGED <<status, row, task, importer, clerk, made, gone, accidents,
                   crashes, edits>>
-----------------------------------------------------------------------------
(* create-test and create-questions.  Status and decisions are looked at
   before the transaction begins, dedup_status is not, and nothing is locked. *)

BeginDirect(c) ==
    /\ clerk[c] = NoCopy
    /\ Editable /\ ~Undecided
    /\ clerk' = [clerk EXCEPT ![c] = row]
    /\ UNCHANGED <<status, row, delivery, importer, made, gone, accidents, crashes, edits>>

\* The request passes over rows in error and skips what is to be skipped.
Skipped(c) == {r \in Rows : Skips(clerk[c], r)}
Taken(c) == {r \in Rows : clerk[c][r].status \notin {"error", "removed"}} \ Skipped(c)

\* Rows that another writer has had since the request read them, or will
\* have, and rows that were dealt with before it read them.
Contested(c) ==
    InRun \cup {r \in Rows : row[r] # clerk[c][r]}
          \cup {r \in Taken(c) : clerk[c][r].status \in Settled}

CommitDirect(c) ==
    /\ clerk[c] # NoCopy
    /\ \A r \in Taken(c) \cup Skipped(c) : row[r].status # "removed"
    /\ row' = [r \in Rows |->
         IF r \in Skipped(c) THEN [row[r] EXCEPT !.status = "skipped"]
         ELSE IF r \in Taken(c) THEN [row[r] EXCEPT !.status = "imported", !.created = TRUE]
         ELSE row[r]]
    /\ made' = [r \in Rows |-> made[r] + IF r \in Taken(c) THEN 1 ELSE 0]
    /\ gone' \in {gone \cup replaced : replaced \in SUBSET {r \in Taken(c) : Replaces(clerk[c], r)}}
    /\ Befalls(Contested(c))
    /\ status' = "completed"
    /\ clerk' = [clerk EXCEPT ![c] = NoCopy]
    /\ UNCHANGED <<delivery, importer, crashes, edits>>

\* The transaction fails and leaves nothing behind; the row it failed at is
\* marked, the batch has failed.
FailDirect(c) ==
    /\ clerk[c] # NoCopy
    /\ crashes < MaxCrashes /\ crashes' = crashes + 1
    /\ \/ UNCHANGED row
       \/ \E r \in Taken(c) : row[r].status # "removed" /\ row' = [row EXCEPT ![r].status = "error"]
    /\ Befalls(Contested(c))
    /\ status' = "failed"
    /\ clerk' = [clerk EXCEPT ![c] = NoCopy]
    /\ UNCHANGED <<delivery, importer, made, gone, edits>>

Linked == {r \in Rows : row[r].status = "imported" /\ row[r].created}

\* The rollback of a batch none of whose questions is in use: the questions
\* its imported rows point to are deleted, the rows stay as they are.
Rollback ==
    /\ status = "completed" /\ status' = "rolled_back"
    /\ made' = [r \in Rows |-> made[r] - IF r \in Linked THEN 1 ELSE 0]
    /\ row' = [r \in Rows |-> [row[r] EXCEPT !.created = @ /\ r \notin Linked]]
    /\ UNCHANGED <<delivery, importer, clerk, gone, accidents, crashes, edits>>
-----------------------------------------------------------------------------
Rowwork(r) ==
    \/ \E action \in Actions \ {"none"} : Decide(r, action)
    \/ \E valid \in BOOLEAN : EditRow(r, valid)
    \/ \E verdict \in {"valid", "duplicate"} : LateVerdict(r, verdict)
    \/ RemoveRow(r)

Running(w) ==
    \/ StartRun(w) \/ FinishRun(w)
    \/ \E r \in Rows : SkipRow(w, r) \/ CreateQuestion(w, r) \/ SaveRow(w, r) \/ RowFails(w, r)
    \/ \E newStatus \in {"failed", status} : BreakRun(w, newStatus)

Next ==
    \/ \E r \in Rows : Rowwork(r)
    \/ Confirm \/ TaskForgotten \/ TaskRepeats \/ DropTask \/ ClaimAges
    \/ \E w \in Importers : Running(w)
    \/ \E c \in Clerks : BeginDirect(c) \/ CommitDirect(c) \/ FailDirect(c)
    \/ Rollback

Spec == Init /\ [][Next]_vars
-----------------------------------------------------------------------------
TypeOK ==
    /\ status \in {"ready", "importing", "completed", "failed", "rolled_back"}
    /\ row \in [Rows -> Row]
    /\ claim \in {"none", "fresh", "stale"}
    /\ task \in {"unnamed", "queued", "finished"}
    /\ importer \in [Importers -> Run \cup {NoRun}]
    /\ clerk \in [Clerks -> [Rows -> Row] \cup {NoCopy}]
    /\ made \in [Rows -> Int] /\ gone \subseteq Rows
    /\ accidents \in [Rows -> Nat]
    /\ crashes \in Nat /\ edits \in Nat

\* The claim keeps two runs of a batch apart, whatever the deliveries, the
\* deaths and the repeated confirmations, as long as no run outlives its
\* claim (_claim_batch).
OneRun == ~LongRuns => \A v, w \in Importers : Busy(v) /\ Busy(w) => v = w

\* However often the run is delivered, dies and resumes, a row becomes a
\* second question only by an accident of that row: a run that broke off
\* between the question and the row, an overwritten row, or a direct request
\* that crossed another writer (run_import: "never reprocesses a row that
\* already succeeded").
OneQuestionPerRow == \A r \in Rows : made[r] <= 1 + accidents[r]

\* A rollback leaves no question of the batch behind, save by an accident.
RollbackLeavesNone == status = "rolled_back" => \A r \in Rows : made[r] <= accidents[r]
-----------------------------------------------------------------------------
(* The inductive invariant behind them, for runs that end within their claim *)

Halfway(r) == \E w \in Importers : Busy(w) /\ importer[w].halfway = r

\* A run holds a fresh claim, and is halfway through its first row at most.
RunsClaimed ==
    /\ \A w \in Importers : Busy(w) =>
         /\ claim = "fresh"
         /\ importer[w].halfway \in importer[w].todo \cup {NoRow}
    /\ status = "ready" => \A w \in Importers : ~Busy(w)

\* No question but by accident, until the run is halfway through the row or
\* the row says so and points to it.
NotYetMade ==
    \A r \in Rows :
        /\ made[r] # 0 => status # "ready"
        /\ r \in InRun /\ ~Halfway(r) => made[r] <= accidents[r]
        /\ row[r].status # "imported" /\ ~Halfway(r) => made[r] <= accidents[r]
        /\ row[r].status = "imported" /\ ~row[r].created => made[r] <= accidents[r]

\* A run that a direct request has overtaken may make one more of each row it
\* has left; these rows had their accident.  Otherwise they are not imported.
Overtaken ==
    /\ status = "importing" => \A r \in InRun : row[r].status # "imported"
    /\ status = "rolled_back" => InRun \cap Linked = {}
    /\ status # "importing" =>
         \A r \in InRun :
            made[r] + (IF Halfway(r) THEN 0 ELSE 1) <= accidents[r] + (IF r \in Linked THEN 1 ELSE 0)

IInv ==
    /\ TypeOK /\ OneRun /\ RunsClaimed
    /\ NotYetMade /\ Overtaken
    /\ OneQuestionPerRow /\ RollbackLeavesNone
=============================================================================
