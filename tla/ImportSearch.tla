----------------------------- MODULE ImportSearch ----------------------------
(***************************************************************************)
(* The search for duplicates in a bulk-question upload (ImportBatch).      *)
(* Picking a subject starts a new generation: a task that flags the rows   *)
(* which duplicate questions of that subject.  The request reads the       *)
(* batch, saves the subject, saves the generation after the one it read    *)
(* and creates the task, four steps without a lock: two requests may save  *)
(* one generation.  Cloud Tasks delivers a task at least once and again    *)
(* after a failure, and refuses a second task of the same name.  A search  *)
(* works without locks: a claim column keeps a second one away until it is *)
(* half an hour old, and every CheckEvery rows the search looks whether    *)
(* the generation has changed.  Questions can be imported once the search  *)
(* has completed and every flagged row is decided.                         *)
(***************************************************************************)
EXTENDS ImportBatch

CONSTANTS
    Subjects,
    NoSubject,
    Matches,        \* Matches[s]: the rows that duplicate a question of s
    Patchers,       \* server threads for taxonomy requests
    NoPatch,
    Searchers,      \* handlers of the tasks
    NoSearch,
    CheckEvery,     \* _DEDUP_STALE_CHECK_EVERY
    LongSearches,   \* TRUE: a search may outlive its claim
    MaxRequests     \* bound: taxonomy requests

ASSUME SearchAssumption ==
    /\ NoSubject \notin Subjects
    /\ Matches \in [Subjects -> SUBSET Rows]
    /\ CheckEvery \in Nat \ {0}
    /\ LongSearches \in BOOLEAN
    /\ MaxRequests \in Nat

VARIABLES
    subject,     \* ImportBatch.subject
    generation,  \* ImportBatch.dedup_generation
    dedup,       \* ImportBatch.dedup_status
    dedupClaim,  \* ImportBatch.dedup_claimed_at: none, fresh or stale
    begun,       \* taxonomy requests so far
    patch,       \* patch[p]: the one that server thread p is busy with
    tasks,       \* generations whose task Cloud Tasks still holds
    named,       \* names of tasks Cloud Tasks knows, finished ones included
    search,      \* search[w]: the search handler w is busy with
    flag,        \* flag[r]: ImportRow.status
    decided,     \* flagged rows with a dedup_action
    given,       \* history: generations the batch has had
    doubled,     \* history: generations saved by more than one request
    unsent,      \* history: generations whose request broke off before the task
    broken,      \* history: generations a search of which died or failed
    unannounced, \* history: the subject has changed since the last new generation
    searchedFor  \* history: the subject of the search that completed last

batch == <<status, subject, generation, dedup, dedupClaim>>
queue == <<tasks, named>>
rows == <<flag, decided>>
requests == <<begun, patch, given, doubled, unsent, unannounced>>
searches == <<search, broken, searchedFor>>
searchVars == <<batch, queue, requests, searches, rows, crashes, edits>>

\* valid and warning are one; imported stands for every end of a row.
Flags == {"valid", "error", "duplicate", "imported", "removed"}

\* A taxonomy request: how far it is, the subject it asks for and the
\* generation it has read.  Only "asked" picked another subject than it read.
Request == [step : {"kept", "asked", "saved", "numbered"},
            to : Subjects \cup {NoSubject}, gen : Nat]

\* A search: its generation and subject, the rows left, those it read as
\* duplicates, how many it has passed, whether the next row is cleared for
\* writing, whether a generation was saved since it began, and how many rows
\* it has passed since then.
Search == [gen : Nat, of : Subjects \cup {NoSubject}, todo : SUBSET Rows,
           flagged : SUBSET Rows, passed : Nat, cleared : BOOLEAN,
           overtaken : BOOLEAN, late : Nat]

At(p, step) == patch[p] # NoPatch /\ patch[p].step = step

AtWork(w) == search[w] # NoSearch
First(S) == CHOOSE r \in S : \A other \in S : r <= other
OpenDuplicates == {r \in Rows : flag[r] = "duplicate"} \ decided
-----------------------------------------------------------------------------
\* ImportUploadView: the parser has read the file, some rows are in error.
SearchInit ==
    /\ status = "ready" /\ subject = NoSubject
    /\ generation = 0 /\ dedup = "none" /\ dedupClaim = "none"
    /\ begun = 0 /\ patch = [p \in Patchers |-> NoPatch]
    /\ tasks = {} /\ named = {} /\ search = [w \in Searchers |-> NoSearch]
    /\ flag \in [Rows -> {"valid", "error"}] /\ decided = {}
    /\ given = {0} /\ doubled = {} /\ unsent = {} /\ broken = {}
    /\ unannounced = FALSE /\ searchedFor = NoSubject
    /\ crashes = 0 /\ edits = 0
-----------------------------------------------------------------------------
(* The taxonomy request. *)

\* It reads the batch.  Picking a chapter or a course asks for the same subject.
ReadBatch(p, s) ==
    /\ patch[p] = NoPatch /\ Editable
    /\ begun < MaxRequests /\ begun' = begun + 1
    /\ patch' = [patch EXCEPT ![p] =
         [step |-> IF s = subject THEN "kept" ELSE "asked", to |-> s, gen |-> generation]]
    /\ UNCHANGED <<batch, queue, given, doubled, unsent, unannounced, searches, rows, crashes, edits>>

\* The subject is saved, changed or not.
SaveSubject(p) ==
    /\ At(p, "kept") \/ At(p, "asked")
    /\ subject' = patch[p].to
    /\ unannounced' = (unannounced \/ patch[p].to # subject)
    /\ patch' = IF At(p, "kept") THEN [patch EXCEPT ![p] = NoPatch]
                ELSE [patch EXCEPT ![p].step = "saved"]
    /\ UNCHANGED <<status, generation, dedup, dedupClaim, queue, begun, given, doubled, unsent, searches,
                   rows, crashes, edits>>

\* A change saves the generation after the one it read, whatever it is by now.
SaveGeneration(p) ==
    /\ At(p, "saved")
    /\ LET g == patch[p].gen + 1
       IN  /\ generation' = g
           /\ given' = given \cup {g}
           /\ doubled' = IF g \in given THEN doubled \cup {g} ELSE doubled
           /\ unannounced' = (unannounced /\ g \in given)
    /\ dedup' = "pending" /\ dedupClaim' = "none"
    /\ patch' = [patch EXCEPT ![p].step = "numbered"]
    /\ search' = [w \in Searchers |->
         IF AtWork(w) THEN [search[w] EXCEPT !.overtaken = TRUE] ELSE search[w]]
    /\ UNCHANGED <<status, subject, queue, begun, unsent, broken, searchedFor, rows, crashes, edits>>

\* Wrong: the name of the task leaves out the generation.
OldName(g) == 0

TaskName(g) == g

\* The task is created; AlreadyExists is taken for success.
SendTask(p) ==
    /\ At(p, "numbered")
    /\ LET g == patch[p].gen + 1
       IN  /\ tasks' = IF TaskName(g) \in named THEN tasks ELSE tasks \cup {g}
           /\ named' = named \cup {TaskName(g)}
    /\ patch' = [patch EXCEPT ![p] = NoPatch]
    /\ UNCHANGED <<batch, begun, given, doubled, unsent, unannounced, searches, rows, crashes, edits>>

\* The request breaks off: its process dies, or create_task fails otherwise.
BreakRequest(p) ==
    /\ At(p, "saved") \/ At(p, "numbered")
    /\ crashes < MaxCrashes /\ crashes' = crashes + 1
    /\ unsent' = IF At(p, "numbered") THEN unsent \cup {patch[p].gen + 1} ELSE unsent
    /\ patch' = [patch EXCEPT ![p] = NoPatch]
    /\ UNCHANGED <<batch, queue, begun, given, doubled, unannounced, searches, rows, edits>>

\* Cloud Tasks forgets the name of a finished task after a while.
ForgetName(g) ==
    /\ TaskName(g) \in named /\ \A other \in tasks : TaskName(other) # TaskName(g)
    /\ named' = named \ {TaskName(g)}
    /\ UNCHANGED <<batch, tasks, requests, searches, rows, crashes, edits>>
-----------------------------------------------------------------------------
(* The task (run_dedup_task). *)

\* Wrong: a claim holds nobody off.
ClaimableInProgress(g) == generation = g /\ dedup \in {"pending", "processing"}

Claimable(g) ==
    /\ generation = g
    /\ \/ dedup = "pending"
       \/ dedup = "processing" /\ dedupClaim = "stale"

\* The compare-and-set of the dedupClaim, then the batch and its rows are read.
\* Without a subject there is nothing to go through.
ClaimSearch(w, g) ==
    /\ g \in tasks /\ ~AtWork(w) /\ Claimable(g)
    /\ dedup' = "processing" /\ dedupClaim' = "fresh"
    /\ search' = [search EXCEPT ![w] =
         [gen |-> g, of |-> subject,
          todo |-> IF subject = NoSubject THEN {}
                   ELSE {r \in Rows : flag[r] \notin {"error", "removed"}},
          flagged |-> {r \in Rows : flag[r] = "duplicate"},
          passed |-> 0, cleared |-> FALSE, overtaken |-> FALSE, late |-> 0]]
    /\ UNCHANGED <<status, subject, generation, queue, requests, broken, searchedFor, rows,
                   crashes, edits>>

\* A delivery that finds nothing to claim is acknowledged.
DropSearch(g) ==
    /\ g \in tasks /\ ~Claimable(g)
    /\ tasks' = tasks \ {g}
    /\ UNCHANGED <<batch, named, requests, searches, rows, crashes, edits>>

Superseded(w) == generation # search[w].gen

\* Wrong: the search looks at the generation before its first row only.
ChecksOnce(w) == search[w].passed = 0

ChecksNow(w) == search[w].passed % CheckEvery = 0

EndSearch(w) ==
    /\ search' = [search EXCEPT ![w] = NoSearch]
    /\ tasks' = tasks \ {search[w].gen}
    /\ UNCHANGED named

\* Before a row: a superseded search stops, if this is a row it looks at.
ClearRow(w) ==
    /\ AtWork(w) /\ search[w].todo # {} /\ ~search[w].cleared
    /\ ~(ChecksNow(w) /\ Superseded(w))
    /\ search' = [search EXCEPT ![w].cleared = TRUE]
    /\ UNCHANGED <<batch, queue, requests, broken, searchedFor, rows, crashes, edits>>

StopSearch(w) ==
    /\ AtWork(w) /\ search[w].todo # {} /\ ~search[w].cleared
    /\ ChecksNow(w) /\ Superseded(w)
    /\ EndSearch(w)
    /\ UNCHANGED <<batch, requests, broken, searchedFor, rows, crashes, edits>>

\* The verdict on a row, written to the row as it is now but worked out from
\* the row as it was read: a match is flagged, whatever decision an earlier
\* subject left on it; a flag that no longer holds goes, and its decision.
Matching(w, r) == r \in Matches[search[w].of]
Writes(w, r) == Matching(w, r) \/ r \in search[w].flagged

SearchRow(w) ==
    /\ AtWork(w) /\ search[w].cleared
    /\ LET r == First(search[w].todo)
       IN  /\ Writes(w, r) => flag[r] # "removed"
           /\ flag' = IF Writes(w, r)
                      THEN [flag EXCEPT ![r] = IF Matching(w, r) THEN "duplicate" ELSE "valid"]
                      ELSE flag
           /\ decided' = IF Writes(w, r) /\ ~Matching(w, r) THEN decided \ {r} ELSE decided
           /\ search' = [search EXCEPT ![w].todo = @ \ {r}, ![w].passed = @ + 1,
                           ![w].cleared = FALSE,
                           ![w].late = IF search[w].overtaken THEN @ + 1 ELSE @]
    /\ UNCHANGED <<batch, queue, requests, broken, searchedFor, crashes, edits>>

\* Wrong: the last UPDATE does not look at the generation.
CompletesAlways(w) == TRUE

Completes(w) == ~Superseded(w)

FinishSearch(w) ==
    /\ AtWork(w) /\ search[w].todo = {}
    /\ dedup' = IF Completes(w) THEN "completed" ELSE dedup
    /\ searchedFor' = IF Completes(w) THEN search[w].of ELSE searchedFor
    /\ EndSearch(w)
    /\ UNCHANGED <<status, subject, generation, dedupClaim, requests, broken, rows, crashes, edits>>

\* The search breaks off; the task stays with Cloud Tasks, the claim as it is.
Break(w) ==
    /\ AtWork(w)
    /\ search' = [search EXCEPT ![w] = NoSearch]
    /\ broken' = broken \cup {search[w].gen}
    /\ UNCHANGED <<batch, queue, requests, searchedFor, rows, edits>>

\* The process dies.
Crash(w) ==
    /\ crashes < MaxCrashes /\ crashes' = crashes + 1
    /\ Break(w)

\* Saving a row that was removed fails, and the handler answers 500.
RowIsGone(w) ==
    /\ AtWork(w) /\ search[w].cleared
    /\ Writes(w, First(search[w].todo)) /\ flag[First(search[w].todo)] = "removed"
    /\ Break(w)
    /\ UNCHANGED crashes

\* Half an hour after the claim.
SearchClaimAges ==
    /\ dedupClaim = "fresh"
    /\ LongSearches \/ \A w \in Searchers : AtWork(w) => Superseded(w)
    /\ dedupClaim' = "stale"
    /\ UNCHANGED <<status, subject, generation, dedup, queue, requests, searches, rows, crashes, edits>>
-----------------------------------------------------------------------------
(* The admin's work on the rows, and the import. *)

\* PATCH of a row's data: whatever the status of the batch; a duplicate stays
\* one however the validation turns out.
PatchRow(r, valid) ==
    /\ flag[r] # "removed" /\ edits < MaxEdits
    /\ flag' = IF flag[r] = "duplicate" THEN flag
               ELSE [flag EXCEPT ![r] = IF valid THEN "valid" ELSE "error"]
    /\ edits' = edits + 1
    /\ UNCHANGED <<batch, queue, requests, searches, decided, crashes>>

\* dedup_action of a duplicate, by PATCH of the row or for many rows at once.
SetAction(r) ==
    /\ Editable /\ r \in OpenDuplicates
    /\ decided' = decided \cup {r}
    /\ UNCHANGED <<batch, queue, requests, searches, flag, crashes, edits>>

\* DELETE of a row of a ready batch; the bulk request also removes duplicates
\* from a failed one.
DeleteRow(r) ==
    /\ flag[r] # "removed" /\ edits < MaxEdits
    /\ status = "ready" \/ (status = "failed" /\ flag[r] = "duplicate")
    /\ flag' = [flag EXCEPT ![r] = "removed"]
    /\ edits' = edits + 1
    /\ UNCHANGED <<batch, queue, requests, searches, decided, crashes>>

\* ImportConfirmView and the run it leads to, in one step (ImportRun has
\* them in detail): the rows that are not in error are dealt with.
Import ==
    /\ Editable /\ subject # NoSubject
    /\ dedup = "completed" /\ OpenDuplicates = {}
    /\ flag' = [r \in Rows |-> IF flag[r] \in {"error", "removed"} THEN flag[r] ELSE "imported"]
    /\ status' \in {"completed", "failed"}
    /\ UNCHANGED <<subject, generation, dedup, dedupClaim, queue, requests, searches, decided,
                   crashes, edits>>
-----------------------------------------------------------------------------
Searching(w) ==
    \/ \E g \in tasks : ClaimSearch(w, g)
    \/ ClearRow(w) \/ StopSearch(w) \/ SearchRow(w) \/ FinishSearch(w)
    \/ Crash(w) \/ RowIsGone(w)

Patching(p) ==
    \/ \E s \in Subjects \cup {NoSubject} : ReadBatch(p, s)
    \/ SaveSubject(p) \/ SaveGeneration(p) \/ SendTask(p) \/ BreakRequest(p)

SearchNext ==
    \/ \E p \in Patchers : Patching(p)
    \/ \E g \in 1..MaxRequests : ForgetName(g)
    \/ \E w \in Searchers : Searching(w)
    \/ \E g \in tasks : DropSearch(g)
    \/ SearchClaimAges
    \/ \E r \in Rows : SetAction(r) \/ DeleteRow(r) \/ \E valid \in BOOLEAN : PatchRow(r, valid)
    \/ Import

SearchSpec == SearchInit /\ [][SearchNext]_searchVars

\* Cloud Tasks goes on delivering a task it holds, a handler goes on with its
\* search, and a taxonomy request that has saved the generation goes on.
SearchFairness ==
    /\ \A p \in Patchers : WF_searchVars(SendTask(p))
    /\ \A g \in 1..MaxRequests : SF_searchVars(\E w \in Searchers : ClaimSearch(w, g))
    /\ \A w \in Searchers :
         WF_searchVars(ClearRow(w) \/ StopSearch(w) \/ SearchRow(w) \/ FinishSearch(w) \/ RowIsGone(w))

SearchFairSpec == SearchSpec /\ SearchFairness
-----------------------------------------------------------------------------
SearchTypeOK ==
    /\ status \in {"ready", "completed", "failed"}
    /\ subject \in Subjects \cup {NoSubject}
    /\ generation \in Nat
    /\ dedup \in {"none", "pending", "processing", "completed"}
    /\ dedupClaim \in {"none", "fresh", "stale"}
    /\ begun \in Nat /\ patch \in [Patchers -> Request \cup {NoPatch}]
    /\ tasks \subseteq Nat
    /\ search \in [Searchers -> Search \cup {NoSearch}]
    /\ flag \in [Rows -> Flags] /\ decided \subseteq Rows
    /\ given \subseteq Nat /\ doubled \subseteq Nat /\ unsent \subseteq Nat /\ broken \subseteq Nat
    /\ unannounced \in BOOLEAN /\ searchedFor \in Subjects \cup {NoSubject}
    /\ crashes \in Nat /\ edits \in Nat

\* The duplicates on screen are those of the subject on screen: the search that
\* completed the batch was for its subject.  The two exceptions: the subject
\* was saved and no generation of its own followed (not yet, or its request
\* broke off, or a request that picked nothing new wrote an older subject
\* back), and two requests saved this generation (run_dedup_task,
\* ImportConfirmView).
CompletedByCurrent ==
    dedup = "completed" =>
        subject = searchedFor \/ unannounced \/ generation \in doubled

\* A search passes at most CheckEvery rows after another generation was saved
\* (_run_dedup; the comments there promise none, but it looks between rows
\* only), unless two requests saved its generation: then it sees no change.
StaleWindow ==
    \A w \in Searchers :
        AtWork(w) /\ search[w].gen \notin doubled => search[w].late <= CheckEvery

\* One search of a generation at a time, however often its task is delivered,
\* unless a search outlives its claim, or a second request that saved the
\* generation took the claim away (_claim_dedup).
OneSearch ==
    ~LongSearches =>
        \A v, w \in Searchers :
            /\ AtWork(v) /\ AtWork(w) /\ search[v].gen = search[w].gen
            /\ search[v].gen \notin doubled
            => v = w

(* The invariant that carries the three of them. *)

\* The batch and the searches are of generations the batch has had.
GenerationsGiven ==
    /\ generation \in given
    /\ \A w \in Searchers : AtWork(w) => search[w].gen \in given

\* The search passed its last look, at row number look, before it was overtaken.
Looked(w) ==
    \E look \in 0..search[w].passed :
        /\ look % CheckEvery = 0
        /\ look + search[w].late <= search[w].passed
        /\ search[w].passed <= look + CheckEvery
        /\ search[w].cleared => search[w].passed < look + CheckEvery

LooksOften ==
    \A w \in Searchers :
        AtWork(w) /\ search[w].gen \notin doubled =>
            /\ Looked(w)
            /\ IF search[w].overtaken THEN Superseded(w) ELSE search[w].late = 0

\* A search of the current generation is for the current subject ...
SearchesCurrent ==
    \A w \in Searchers :
        AtWork(w) /\ ~Superseded(w) =>
            search[w].of = subject \/ unannounced \/ generation \in doubled

\* ... and holds a claim that nobody can take.
ClaimHeld ==
    \A w \in Searchers :
        AtWork(w) /\ ~Superseded(w) /\ generation \notin doubled =>
            dedup = "processing" /\ dedupClaim = "fresh"

SearchInv ==
    /\ SearchTypeOK /\ GenerationsGiven /\ LooksOften /\ SearchesCurrent /\ CompletedByCurrent
    /\ ~LongSearches => ClaimHeld /\ OneSearch

\* The admin is not left waiting: a change of subject is followed by a
\* completed search, unless one of its searches broke off, its request broke
\* off before the task was created, or another request saved the same
\* generation (import-confirm refuses the batch until then).
SearchCompletes ==
    dedup = "pending" ~> dedup = "completed" \/ generation \in broken \cup unsent \cup doubled
=============================================================================
