------------------------------- MODULE Photos -------------------------------
(***************************************************************************)
(* The photos of one listing: the upload and delete endpoints              *)
(* (backend/apps/listings/views.py), the signal that queues a Celery task  *)
(* for every upload (signals.py) and the task that replaces the file by a  *)
(* WebP (tasks.py), over the object storage of config/settings/base.py.    *)
(*                                                                         *)
(* Nothing here is in a transaction, and storage is not in the database:   *)
(* every read or write of a row or of a file is a step of its own.  An     *)
(* upload, the deletion of its row and the task for it are three processes *)
(* named by the photo, and any of them may fail or be killed between two   *)
(* steps.  A row can also go without its file, with its listing or from    *)
(* the admin.  A file's content is the photo whose picture it is; the      *)
(* conversion keeps it, so that the picture of a WebP is its upload's.     *)
(***************************************************************************)
EXTENDS Integers, FiniteSets

CONSTANTS
    MaxPhotos,          \* BOUND: how many uploads there ever are
    MaxSuffix,          \* BOUND: how many suffixes storage ever makes up
    MAX_RETRIES         \* max_retries of the task

Photos == 1 .. MaxPhotos

ASSUME PhotosAssumption == {MaxPhotos, MaxSuffix, MAX_RETRIES} \subseteq Nat

\* Phones call every picture alike, so the names wanted differ by extension
\* only; storage adds a suffix to a name that is taken (0 is no suffix).
Names == [ext : {"jpg", "webp"}, suffix : 0 .. MaxSuffix]

NoName == [ext |-> "jpg", suffix |-> -1]

VARIABLES
    photo,      \* photo[p]: the upload and then the row of p
    removal,    \* removal[p]: the request that deletes p
    task,       \* task[p]: the resize task queued for p
    store,      \* store[f]: the photo whose picture file f is, 0 when there is no f
    given       \* history: given[f] is the set of photos that were told to use f

phvars == <<photo, removal, task, store, given>>

NoTask == [at |-> "none", name |-> NoName, bytes |-> 0, to |-> NoName, tries |-> 0]

Here(p) == photo[p].at = "here"

\* get_available_name with file_overwrite off.  The name is not reserved: two
\* callers that ask before either writes are told the same.
Fresh(wanted) == {s \in 1 .. MaxSuffix : given[[wanted EXCEPT !.suffix = s]] = {}}

Available(wanted) ==
    IF store[wanted] = 0 THEN wanted
    ELSE [wanted EXCEPT !.suffix = CHOOSE s \in Fresh(wanted) : TRUE]

\* BOUND: storage does not run out of suffixes.
Nameable(wanted) == store[wanted] = 0 \/ Fresh(wanted) # {}

Give(f, p) == given' = [given EXCEPT ![f] = @ \cup {p}]

---------------------------------------------------------------------------
(* ListingPhotoUploadView and _enqueue_photo_resize *)

UploadName(p) ==
    LET wanted == [ext |-> "jpg", suffix |-> 0]
        f == Available(wanted)
    IN
    /\ Nameable(wanted)
    /\ photo[p].at = "absent" /\ \A q \in 1 .. p - 1 : photo[q].at # "absent"
    /\ photo' = [photo EXCEPT ![p] = [at |-> "named", name |-> f]]
    /\ Give(f, p)
    /\ UNCHANGED <<removal, task, store>>

UploadStores(p) ==
    /\ photo[p].at = "named"
    /\ photo' = [photo EXCEPT ![p].at = "stored"]
    /\ store' = [store EXCEPT ![photo[p].name] = p]
    /\ UNCHANGED <<removal, task, given>>

\* The row is inserted and the task queued; with the broker down the request
\* fails after the insertion, and there is no task.
UploadInserts(p) ==
    /\ photo[p].at = "stored"
    /\ photo' = [photo EXCEPT ![p].at = "here"]
    /\ \E at \in {"queued", "none"} : task' = [task EXCEPT ![p].at = at]
    /\ UNCHANGED <<removal, store, given>>

\* Storage or the insertion fails (the listing may be gone), or the worker is
\* killed: a file that was stored stays.
UploadFails(p) ==
    /\ photo[p].at \in {"named", "stored"}
    /\ photo' = [photo EXCEPT ![p].at = "failed"]
    /\ UNCHANGED <<removal, task, store, given>>

\* The row goes with its listing, or is deleted in the admin: no code deletes
\* its file.
RowCascades(p) ==
    /\ Here(p)
    /\ photo' = [photo EXCEPT ![p].at = "cascaded"]
    /\ UNCHANGED <<removal, task, store, given>>

---------------------------------------------------------------------------
(* ListingPhotoDeleteView: read the row, delete the file it named, then the row *)

RemovalRead(p) ==
    /\ Here(p) /\ removal[p].at = "none"
    /\ removal' = [removal EXCEPT ![p] = [at |-> "read", name |-> photo[p].name]]
    /\ UNCHANGED <<photo, task, store, given>>

RemovalFile(p) ==
    /\ removal[p].at = "read"
    /\ removal' = [removal EXCEPT ![p].at = "emptied"]
    /\ store' = [store EXCEPT ![removal[p].name] = 0]
    /\ UNCHANGED <<photo, task, given>>

RemovalRow(p) ==
    /\ removal[p].at = "emptied"
    /\ removal' = [removal EXCEPT ![p].at = "done"]
    /\ photo' = IF Here(p) THEN [photo EXCEPT ![p].at = "gone"] ELSE photo
    /\ UNCHANGED <<task, store, given>>

---------------------------------------------------------------------------
(* resize_listing_photo *)

Move(p, from, next) == task[p].at = from /\ task' = [task EXCEPT ![p] = next]

\* self.retry: queued again, or failed for good after the last retry.
Retried(t) ==
    IF t.tries < MAX_RETRIES THEN [NoTask EXCEPT !.at = "queued", !.tries = t.tries + 1]
                             ELSE [t EXCEPT !.at = "failed"]

\* A photo that is gone or already WebP is skipped.
TaskGet(p) ==
    /\ Move(p, "queued", IF Here(p) /\ photo[p].name.ext = "jpg"
                         THEN [task[p] EXCEPT !.at = "got", !.name = photo[p].name]
                         ELSE [task[p] EXCEPT !.at = "done"])
    /\ UNCHANGED <<photo, removal, store, given>>

\* Reading a file that is not there is a failure like any other.
TaskRead(p) ==
    /\ Move(p, "got", IF store[task[p].name] = 0 THEN Retried(task[p])
                      ELSE [task[p] EXCEPT !.at = "read", !.bytes = store[task[p].name]])
    /\ UNCHANGED <<photo, removal, store, given>>

\* Mutant of TaskDeletesOriginal: the original is kept.
TaskDeletesOriginal_Kept(p) ==
    /\ Move(p, "read", [task[p] EXCEPT !.at = "deleted"])
    /\ UNCHANGED <<photo, removal, store, given>>

TaskDeletesOriginal(p) ==
    /\ Move(p, "read", [task[p] EXCEPT !.at = "deleted"])
    /\ store' = [store EXCEPT ![task[p].name] = 0]
    /\ UNCHANGED <<photo, removal, given>>

TaskName(p) ==
    LET wanted == [task[p].name EXCEPT !.ext = "webp"]
        f == Available(wanted)
    IN
    /\ Move(p, "deleted", [task[p] EXCEPT !.at = "named", !.to = f])
    /\ Nameable(wanted)
    /\ Give(f, p)
    /\ UNCHANGED <<photo, removal, store>>

TaskStores(p) ==
    /\ Move(p, "named", [task[p] EXCEPT !.at = "stored"])
    /\ store' = [store EXCEPT ![task[p].to] = task[p].bytes]
    /\ UNCHANGED <<photo, removal, given>>

\* Mutant of TaskSaves: image is left out of update_fields.
TaskSaves_NotImage(p) ==
    /\ Move(p, "stored", IF Here(p) THEN [task[p] EXCEPT !.at = "done"] ELSE Retried(task[p]))
    /\ UNCHANGED <<photo, removal, store, given>>

\* Saving the image column of a row that is gone is a failure too.
TaskSaves(p) ==
    /\ Move(p, "stored", IF Here(p) THEN [task[p] EXCEPT !.at = "done"] ELSE Retried(task[p]))
    /\ photo' = IF Here(p) THEN [photo EXCEPT ![p].name = task[p].to] ELSE photo
    /\ UNCHANGED <<removal, store, given>>

\* Any step may raise (storage, Pillow, the soft time limit) and be retried,
\* or the worker may be killed at the time limit, with no retry.
TaskFails(p) ==
    /\ task[p].at \in {"got", "read", "deleted", "named", "stored"}
    /\ \E t \in {Retried(task[p]), [task[p] EXCEPT !.at = "failed"]} :
           task' = [task EXCEPT ![p] = t]
    /\ UNCHANGED <<photo, removal, store, given>>

---------------------------------------------------------------------------

PhInit ==
    /\ photo = [p \in Photos |-> [at |-> "absent", name |-> NoName]]
    /\ removal = [p \in Photos |-> [at |-> "none", name |-> NoName]]
    /\ task = [p \in Photos |-> NoTask]
    /\ store = [f \in Names |-> 0]
    /\ given = [f \in Names |-> {}]

PhNext ==
    \E p \in Photos :
        \/ UploadName(p) \/ UploadStores(p) \/ UploadInserts(p) \/ UploadFails(p)
        \/ RowCascades(p)
        \/ RemovalRead(p) \/ RemovalFile(p) \/ RemovalRow(p)
        \/ TaskGet(p) \/ TaskRead(p) \/ TaskDeletesOriginal(p)
        \/ TaskName(p) \/ TaskStores(p) \/ TaskSaves(p) \/ TaskFails(p)

PhSpec == PhInit /\ [][PhNext]_phvars

---------------------------------------------------------------------------
(* Properties *)

\* The task of p has deleted the file p's row names, and the row does not name
\* another yet: the task is still at it, or gave up, or started over.
Torn(p) == task[p].at \in {"deleted", "named", "stored", "failed"} \/ task[p].tries > 0

\* A photo none of whose file names was given to another shows its own picture.
\* It shows none only while its row is being deleted, or when its own task is
\* between the two files or failed there; it never shows another's.
PhotosShowTheirOwn ==
    \A p \in Photos : Here(p) /\ (\A f \in Names : p \in given[f] => given[f] = {p}) =>
        LET shown == store[photo[p].name] IN
        \/ shown = p
        \/ shown = 0 /\ (Torn(p) \/ removal[p].at = "emptied")

\* Every stored file is some row's, unless the name was given twice, or it is
\* left over from: an upload between storage and row, or that failed there; a
\* row that went with its listing or from the admin; a task that has yet to save
\* the name, or failed; a deletion that had read another name.  A photo deleted
\* by its endpoint while it is not being converted leaves nothing in storage
\* ("so we never leak orphaned files").
LeaksAreExplained ==
    \A f \in Names : store[f] # 0 =>
        \/ \E p \in Photos : Here(p) /\ photo[p].name = f
        \/ Cardinality(given[f]) > 1
        \/ \E p \in given[f] :
               \/ photo[p].at \in {"stored", "failed", "cascaded"}
               \/ task[p].at \in {"stored", "failed"} \/ task[p].tries > 0
               \/ removal[p].at = "done" /\ removal[p].name # f
=============================================================================
