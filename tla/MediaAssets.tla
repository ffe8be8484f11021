---------------------------- MODULE MediaAssets -----------------------------
(***************************************************************************)
(* The media library: one picture that is uploaded again and again, the    *)
(* rows that share its objects in the cloud, the task that makes its       *)
(* variants, and the administrators who delete rows.                       *)
(*                                                                         *)
(* Code: media_library/service.py (create_media_asset_from_file,           *)
(* delete_media_asset), media_library/tasks.py (process_media_asset), the  *)
(* three views of media_library/views.py, and the two imports of           *)
(* academics/import_views.py that upload the pictures of a whole batch in  *)
(* one transaction: their rows are seen by nobody else until the commit,   *)
(* while their objects and tasks are there at once, and stay when it is    *)
(* rolled back.  No other request is a transaction; nothing is locked.     *)
(* All uploads here have the same bytes and image type: pictures that      *)
(* differ in either never meet.                                            *)
(***************************************************************************)
EXTENDS Integers, FiniteSets, FiniteSetsExt

CONSTANTS
    Names,          \* the variants of one picture
    Original,       \* the name of the object that is the uploaded file
    Workers,        \* server threads
    MaxUploads,     \* uploads accepted (bound)
    MaxCrashes      \* threads that die (bound)

ASSUME MediaAssumption ==
    /\ IsFiniteSet(Names) /\ Names # {} /\ Original \notin Names
    /\ {MaxUploads, MaxCrashes} \subseteq Nat

Rows == 1..MaxUploads   \* MediaAsset rows, in the order of created_at
Keys == 1..MaxUploads   \* storage keys: the prefix of the objects of one upload

VARIABLES
    status, key, variants,  \* the rows
    task,           \* the row's processing task
    stored,         \* the objects in the buckets
    pc, target, source, left,       \* the request each worker is running
    importing,      \* the workers inside the transaction of an import
    uncommitted,    \* the rows each of them has inserted there
    uploads, crashes,
    condemned,      \* history: keys whose objects a deletion set out to remove
    spoilt,         \* history: rows copied too late, unseen by a deletion, or half deleted
    overtaken       \* history: rows whose task was answered before they were committed,
                    \* or before they were put back to processing

rows == <<status, key, variants>>
locals == <<target, source, left>>
transactions == <<importing, uncommitted>>
counts == <<uploads, crashes>>
history == <<condemned, spoilt, overtaken>>
mediaVars == <<rows, task, stored, pc, locals, transactions, counts, history>>

Existing == {r \in Rows : status[r] \notin {"none", "gone"}}
Visible(w) == {r \in Existing : \A v \in Workers \ {w} : r \notin uncommitted[v]}
NoSource == [key |-> 0, variants |-> {}]
CopyOf(r) == [key |-> key[r], variants |-> variants[r]]

-----------------------------------------------------------------------------
Goto(w, place) == pc' = [pc EXCEPT ![w] = place]

Rest(w, place) ==
    /\ Goto(w, place)
    /\ target' = [target EXCEPT ![w] = 0]
    /\ source' = [source EXCEPT ![w] = NoSource]
    /\ left' = [left EXCEPT ![w] = {}]

Finish(w) == Rest(w, "idle")

\* One picture is done: the import goes on with the next.
Uploaded(w) == Rest(w, IF w \in importing THEN "import" ELSE "idle")

\* save(update_fields): an UPDATE that finds no row raises DatabaseError.
Saved(r, new) == status' = [status EXCEPT ![r] = new]

\* objects.create: the next row, in the transaction if there is one.
Insert(w, r, s, vs, new) ==
    /\ r = 1 + Cardinality({x \in Rows : status[x] # "none"})
    /\ status' = [status EXCEPT ![r] = new]
    /\ key' = [key EXCEPT ![r] = s]
    /\ variants' = [variants EXCEPT ![r] = vs]
    /\ uncommitted' = IF w \in importing THEN [uncommitted EXCEPT ![w] = @ \cup {r}]
                      ELSE uncommitted

\* The transaction ends, if there is one; what it inserted never was.
RollBack(w) ==
    /\ status' = [r \in Rows |-> IF r \in uncommitted[w] THEN "gone" ELSE status[r]]
    /\ uncommitted' = [uncommitted EXCEPT ![w] = {}]
    /\ importing' = importing \ {w}
    /\ Finish(w)

-----------------------------------------------------------------------------
(* ImportBatchCreateTestView and ImportBatchCreateQuestionsView *)

BeginImport(w) ==
    /\ pc[w] = "idle"
    /\ Goto(w, "import")
    /\ importing' = importing \cup {w}
    /\ UNCHANGED <<rows, task, stored, locals, uncommitted, counts, history>>

Commit(w) ==
    /\ pc[w] = "import"
    /\ Finish(w)
    /\ importing' = importing \ {w}
    /\ uncommitted' = [uncommitted EXCEPT ![w] = {}]
    /\ UNCHANGED <<rows, task, stored, counts, history>>

\* A row of the batch cannot be imported, or the exam cannot be created.
ImportFails(w) ==
    /\ pc[w] = "import"
    /\ RollBack(w)
    /\ UNCHANGED <<key, variants, task, stored, counts, history>>

-----------------------------------------------------------------------------
(* create_media_asset_from_file *)

\* The rows whose objects can be used again, of which the latest counts.
Duplicates(w) == {r \in Visible(w) : status[r] = "ready"}

FindDuplicate(w) ==
    /\ pc[w] \in {"idle", "import"} /\ uploads < MaxUploads
    /\ uploads' = uploads + 1
    /\ Goto(w, IF Duplicates(w) = {} THEN "upload" ELSE "copy")
    /\ source' = [source EXCEPT ![w] =
                     IF Duplicates(w) = {} THEN [NoSource EXCEPT !.key = uploads']
                     ELSE CopyOf(Max(Duplicates(w)))]
    /\ UNCHANGED <<rows, task, stored, target, left, transactions, crashes, history>>

\* A row that points at the objects of the one found, which may be gone by now.
InsertCopy(w) ==
    /\ pc[w] = "copy"
    /\ \E r \in Rows :
         /\ Insert(w, r, source[w].key, source[w].variants, "ready")
         /\ spoilt' = IF source[w].key \in condemned THEN spoilt \cup {r} ELSE spoilt
    /\ Uploaded(w)
    /\ UNCHANGED <<task, stored, importing, counts, condemned, overtaken>>

\* Under a key of its own: a fresh uuid.
UploadOriginal(w) ==
    /\ pc[w] = "upload"
    /\ stored' = stored \cup {<<source[w].key, Original>>}
    /\ Goto(w, "insert")
    /\ UNCHANGED <<rows, task, locals, transactions, counts, history>>

InsertNew(w) ==
    /\ pc[w] = "insert"
    /\ \E r \in Rows :
         /\ Insert(w, r, source[w].key, {}, "uploading")
         /\ target' = [target EXCEPT ![w] = r]
    /\ Goto(w, "enqueue")
    /\ UNCHANGED <<task, stored, source, left, importing, counts, history>>

\* The task is there at once, also of a row that is not committed yet.
Enqueue(w) ==
    /\ pc[w] = "enqueue"
    /\ task' = [task EXCEPT ![target[w]] = "pending"]
    /\ Goto(w, "announce")
    /\ UNCHANGED <<rows, stored, locals, transactions, counts, history>>

\* The bucket or the queue fails: what was done so far stays, unless it is an
\* import.
UploadFails(w) ==
    /\ pc[w] \in {"upload", "enqueue"}
    /\ RollBack(w)
    /\ UNCHANGED <<key, variants, task, stored, counts, history>>

\* The last save, whatever the task has done meanwhile.
SaveAnnounced(w) ==
    /\ pc[w] = "announce"
    /\ IF target[w] \in Existing THEN Saved(target[w], "processing") ELSE UNCHANGED status
    /\ overtaken' = IF task[target[w]] = "done" THEN overtaken \cup {target[w]} ELSE overtaken
    /\ Uploaded(w)
    /\ UNCHANGED <<key, variants, task, stored, transactions, counts, condemned, spoilt>>

-----------------------------------------------------------------------------
(* process_media_asset, on a task that is delivered until it is answered *)

\* A row that is not found, gone or not committed yet, is nothing to do: the
\* task is answered.
Deliver(w, r) ==
    /\ pc[w] = "idle" /\ task[r] = "pending"
    /\ IF r \in Visible(w)
       THEN /\ Goto(w, "begin")
            /\ target' = [target EXCEPT ![w] = r]
            /\ UNCHANGED <<task, overtaken>>
       ELSE /\ task' = [task EXCEPT ![r] = "done"]
            /\ overtaken' = IF r \in Existing THEN overtaken \cup {r} ELSE overtaken
            /\ UNCHANGED <<pc, target>>
    /\ UNCHANGED <<rows, stored, source, left, transactions, counts, condemned, spoilt>>

\* The answer is 200 after the last save, 500 when a save finds no row.
AnswerTask(w, ok) ==
    /\ task' = IF ok THEN [task EXCEPT ![target[w]] = "done"] ELSE task
    /\ Finish(w)

MarkProcessing(w) ==
    /\ pc[w] = "begin"
    /\ IF target[w] \in Existing
       THEN Saved(target[w], "processing") /\ Goto(w, "download") /\ UNCHANGED <<task, locals>>
       ELSE AnswerTask(w, FALSE) /\ UNCHANGED status
    /\ UNCHANGED <<key, variants, stored, transactions, counts, history>>

Download(w) ==
    /\ pc[w] = "download" /\ <<key[target[w]], Original>> \in stored
    /\ Goto(w, "variants")
    /\ left' = [left EXCEPT ![w] = Names]
    /\ UNCHANGED <<rows, task, stored, target, source, transactions, counts, history>>

UploadVariant(w) ==
    /\ pc[w] = "variants"
    /\ \E n \in left[w] :
         /\ stored' = stored \cup {<<key[target[w]], n>>}
         /\ left' = [left EXCEPT ![w] = @ \ {n}]
    /\ UNCHANGED <<rows, task, pc, target, source, transactions, counts, history>>

\* Download, decoding or upload raises, or the last save found no row.
ProcessingFails(w) ==
    /\ \/ pc[w] \in {"download", "variants"} /\ (left[w] # {} \/ pc[w] = "download")
       \/ pc[w] = "variants" /\ left[w] = {} /\ target[w] \notin Existing
    /\ Goto(w, "failing")
    /\ UNCHANGED <<rows, task, stored, locals, transactions, counts, history>>

SaveReady(w) ==
    /\ pc[w] = "variants" /\ left[w] = {} /\ target[w] \in Existing
    /\ Saved(target[w], "ready")
    /\ variants' = [variants EXCEPT ![target[w]] = Names]
    /\ AnswerTask(w, TRUE)
    /\ overtaken' = overtaken \ {target[w]}
    /\ UNCHANGED <<key, stored, transactions, counts, condemned, spoilt>>

\* Wrong: the failure is answered and not recorded.
AnswerFailed(w) ==
    /\ pc[w] = "failing"
    /\ AnswerTask(w, TRUE)
    /\ UNCHANGED <<rows, stored, transactions, counts, history>>

SaveFailed(w) ==
    /\ pc[w] = "failing"
    /\ IF target[w] \in Existing THEN Saved(target[w], "failed") ELSE UNCHANGED status
    /\ AnswerTask(w, target[w] \in Existing)
    /\ overtaken' = overtaken \ {target[w]}
    /\ UNCHANGED <<key, variants, stored, transactions, counts, condemned, spoilt>>

\* The queue delivers at least once: again, after the answer.
RepeatTask(r) ==
    /\ task[r] = "done"
    /\ task' = [task EXCEPT ![r] = "pending"]
    /\ UNCHANGED <<rows, stored, pc, locals, transactions, counts, history>>

-----------------------------------------------------------------------------
(* delete_media_asset *)

BeginDelete(w, r) ==
    /\ pc[w] = "idle" /\ r \in Visible(w)
    /\ Goto(w, "shared")
    /\ target' = [target EXCEPT ![w] = r]
    /\ source' = [source EXCEPT ![w] = CopyOf(r)]
    /\ UNCHANGED <<rows, task, stored, left, transactions, counts, history>>

\* Wrong: only the row that uploaded the file counts.
SharedByUploader(w, r) == \E x \in Visible(w) \ {r} : key[x] = key[r] /\ task[x] # "none"

\* Another row points at the same objects.
Shared(w, r) == \E x \in Visible(w) \ {r} : key[x] = key[r]

\* A copy that is not committed yet is not seen.
CheckShared(w) ==
    /\ pc[w] = "shared"
    /\ IF Shared(w, target[w])
       THEN Goto(w, "drop") /\ UNCHANGED <<left, condemned, spoilt>>
       ELSE /\ Goto(w, "remove")
            /\ left' = [left EXCEPT ![w] = {Original} \cup source[w].variants]
            /\ condemned' = condemned \cup {source[w].key}
            /\ spoilt' = spoilt \cup {x \in Existing \ Visible(w) : key[x] = source[w].key}
    /\ UNCHANGED <<rows, task, stored, target, source, transactions, counts, overtaken>>

\* A failure to delete an object is swallowed.
RemoveObject(w) ==
    /\ pc[w] = "remove"
    /\ \E n \in IF Original \in left[w] THEN {Original} ELSE left[w] :
         /\ stored' \in {stored, stored \ {<<source[w].key, n>>}}
         /\ left' = [left EXCEPT ![w] = @ \ {n}]
    /\ UNCHANGED <<rows, task, pc, target, source, transactions, counts, history>>

DropRow(w) ==
    /\ pc[w] = "drop" \/ (pc[w] = "remove" /\ left[w] = {})
    /\ Saved(target[w], "gone")
    /\ Finish(w)
    /\ UNCHANGED <<key, variants, task, stored, transactions, counts, history>>

-----------------------------------------------------------------------------
Processing == {"begin", "download", "variants", "failing"}

\* The thread dies; what it has done stays, unless it is an import.
Crash(w) ==
    /\ pc[w] # "idle" /\ crashes < MaxCrashes
    /\ crashes' = crashes + 1
    /\ spoilt' = IF pc[w] = "remove" THEN spoilt \cup {target[w]} ELSE spoilt
    /\ overtaken' = IF pc[w] \in Processing /\ task[target[w]] = "done"
                    THEN overtaken \cup {target[w]} ELSE overtaken
    /\ RollBack(w)
    /\ UNCHANGED <<key, variants, task, stored, uploads, condemned>>

MediaInit ==
    /\ status = [r \in Rows |-> "none"]
    /\ key = [r \in Rows |-> 0]
    /\ variants = [r \in Rows |-> {}]
    /\ task = [r \in Rows |-> "none"]
    /\ stored = {}
    /\ pc = [w \in Workers |-> "idle"]
    /\ target = [w \in Workers |-> 0]
    /\ source = [w \in Workers |-> NoSource]
    /\ left = [w \in Workers |-> {}]
    /\ importing = {} /\ uncommitted = [w \in Workers |-> {}]
    /\ uploads = 0 /\ crashes = 0
    /\ condemned = {} /\ spoilt = {} /\ overtaken = {}

Upload(w) ==
    \/ InsertCopy(w) \/ UploadOriginal(w) \/ InsertNew(w) \/ Enqueue(w)
    \/ UploadFails(w) \/ SaveAnnounced(w)

Import(w) == BeginImport(w) \/ Commit(w) \/ ImportFails(w)

Process(w) ==
    \/ MarkProcessing(w) \/ Download(w) \/ UploadVariant(w)
    \/ ProcessingFails(w) \/ SaveReady(w) \/ SaveFailed(w)

Delete(w) == CheckShared(w) \/ RemoveObject(w) \/ DropRow(w)

Work(w) ==
    \/ FindDuplicate(w)
    \/ \E r \in Rows : Deliver(w, r) \/ BeginDelete(w, r)
    \/ Import(w) \/ Upload(w) \/ Process(w) \/ Delete(w) \/ Crash(w)

MediaNext ==
    \/ \E w \in Workers : Work(w)
    \/ \E r \in Rows : RepeatTask(r)

MediaSpec == MediaInit /\ [][MediaNext]_mediaVars

-----------------------------------------------------------------------------
(* Properties *)

Places == {"idle", "import", "copy", "upload", "insert", "enqueue", "announce", "begin", "download",
           "variants", "failing", "shared", "remove", "drop"}

MediaTypeOK ==
    /\ status \in [Rows -> {"none", "uploading", "processing", "ready", "failed", "gone"}]
    /\ key \in [Rows -> Keys \cup {0}]
    /\ variants \in [Rows -> SUBSET Names]
    /\ task \in [Rows -> {"none", "pending", "done"}]
    /\ stored \subseteq Keys \X (Names \cup {Original})
    /\ pc \in [Workers -> Places]
    /\ target \in [Workers -> Rows \cup {0}]
    /\ source \in [Workers -> [key : Keys \cup {0}, variants : SUBSET Names]]
    /\ left \in [Workers -> SUBSET (Names \cup {Original})]
    /\ importing \subseteq Workers /\ uncommitted \in [Workers -> SUBSET Rows]
    /\ uploads \in 0..MaxUploads /\ crashes \in 0..MaxCrashes
    /\ condemned \subseteq Keys /\ spoilt \subseteq Rows /\ overtaken \subseteq Rows

BeingRemoved(r) == \E w \in Workers : target[w] = r /\ pc[w] = "remove"

\* A ready row can be shown: every variant it lists is in the bucket and none is
\* missing from its list, whatever rows that share its objects are deleted,
\* uploaded, imported or processed again.  Not so for a row being deleted (the
\* objects go first), one whose deletion died halfway, one that was copied from
\* a row after the deletion of that row had begun, and one that an import had
\* not committed when a deletion looked who else uses its objects.
ReadyIsShown ==
    \A r \in Rows : status[r] = "ready" /\ r \notin spoilt /\ ~BeingRemoved(r) =>
        /\ variants[r] = Names
        /\ \A n \in Names : <<key[r], n>> \in stored

\* An answered task leaves its row ready, failed or deleted, however often it is
\* delivered and fails.  Not so for a row that the upload's own last save, or a
\* repeated delivery that died, put back to processing after the answer, and one
\* that an import committed after its task had found no row (until the task is
\* delivered again).
AnsweredIsSettled ==
    \A r \in Rows \ overtaken :
        task[r] = "done" /\ ~(\E w \in Workers : target[w] = r /\ pc[w] \in Processing) =>
            status[r] \in {"ready", "failed", "gone"}

(* The invariant that carries the two of them. *)

Made == {r \in Rows : status[r] # "none"}
Uploading == {"upload", "insert"}
Deleting == {"shared", "remove", "drop"}
Intact(k) == \A n \in Names : <<k, n>> \in stored

\* The rows come one after the other, each with a key that was handed out.
RowsInOrder ==
    /\ \A r \in Made : \A x \in 1..r : x \in Made
    /\ \A r \in Made : key[r] \in 1..uploads
    /\ \A r \in Rows : task[r] # "none" => r \in Made
    /\ condemned \subseteq {key[r] : r \in Made}
    /\ \A w \in Workers : uncommitted[w] \subseteq Made

\* The request of a worker is about a row there is, and an upload about a key
\* that nothing else has.
Attending(w) ==
    /\ pc[w] \in {"enqueue", "announce"} \cup Processing \cup Deleting => target[w] \in Made
    /\ pc[w] \in Deleting => source[w].key = key[target[w]]
    /\ pc[w] \in Uploading =>
         /\ source[w].key \in 1..uploads
         /\ \A r \in Made : key[r] # source[w].key
         /\ \A v \in Workers \ {w} : pc[v] \in Uploading => source[v].key # source[w].key
    /\ pc[w] = "copy" =>
         /\ \E r \in Made : key[r] = source[w].key
         /\ source[w].variants = Names
         /\ source[w].key \in condemned \/ Intact(source[w].key)
    /\ pc[w] = "variants" =>
         \/ key[target[w]] \in condemned
         \/ \A n \in Names \ left[w] : <<key[target[w]], n>> \in stored
    /\ pc[w] = "remove" => source[w].key \in condemned

\* Objects that were condemned belong to no row but the one being removed, and
\* the ones that were spoilt; all others are there.
ReadyIntact ==
    /\ \A r \in Rows : status[r] = "ready" =>
         variants[r] = Names /\ (key[r] \in condemned \/ Intact(key[r]))
    /\ \A r \in Existing : key[r] \in condemned => r \in spoilt \/ BeingRemoved(r)

MediaInv ==
    /\ MediaTypeOK /\ RowsInOrder /\ ReadyIntact /\ AnsweredIsSettled
    /\ \A w \in Workers : Attending(w)

=============================================================================
