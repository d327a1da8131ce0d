------------------------------- MODULE FileStore -------------------------------
(***************************************************************************)
(* The files of one user: uploads, which write to S3 and then to the       *)
(* database; requests that read or delete a file; and the two arq tasks    *)
(* that take files.  An upload suspends at the put, at the insert and at   *)
(* the commit, and its worker may die at each.  S3 has no transactions:    *)
(* what was put stays.                                                     *)
(*                                                                         *)
(* get_session commits after the handler.  Whether the client has its 201  *)
(* by then depends on the version of FastAPI (from 0.118 on it has), so    *)
(* nothing here depends on which comes first.                              *)
(***************************************************************************)
EXTENDS Integers, FiniteSets

CONSTANTS
    Files,      \* file ids; each is given out once
    Uploads,    \* slots for concurrent uploads
    Readers,    \* slots for concurrent GET and DELETE requests
    Jobs,       \* slots for jobs in arq
    None        \* no file

ASSUME FilesAssumption == None \notin Files

VARIABLES
    given,    \* the file ids given out
    objects,  \* the files that have an object in S3
    rows,     \* the files that have a row, as committed
    up,       \* up[u]:   the file that upload u is storing, and where it is
    ask,      \* ask[q]:  what request q asks of which file, and its answer
    job,      \* job[j]:  the task, its file and job:<id>:status
    failed    \* history: the files whose upload failed or died

requests  == <<ask, job>>
filesVars == <<given, objects, rows, up, ask, job, failed>>

Upload  == [file : Files \union {None}, at : {"idle", "put", "insert", "commit"}]
Request == [kind : {"get", "delete"}, file : Files \union {None},
            answer : {"idle", "find", "sign", "link", "not_found", "error"}]
Job     == [task : {"process_file", "batch_transcribe"}, file : Files \union {None},
            status : {"none", "processing", "completed", "failed"}]

NoUpload  == [file |-> None, at |-> "idle"]
NoRequest == [kind |-> "get", file |-> None, answer |-> "idle"]
NoJob     == [task |-> "process_file", file |-> None, status |-> "none"]

FilesTypeOK ==
    /\ given \subseteq Files
    /\ objects \subseteq Files
    /\ rows \subseteq Files
    /\ up \in [Uploads -> Upload]
    /\ ask \in [Readers -> Request]
    /\ job \in [Jobs -> Job]
    /\ failed \subseteq Files

FilesInit ==
    /\ given = {}
    /\ objects = {}
    /\ rows = {}
    /\ up = [u \in Uploads |-> NoUpload]
    /\ ask = [q \in Readers |-> NoRequest]
    /\ job = [j \in Jobs |-> NoJob]
    /\ failed = {}

-----------------------------------------------------------------------------
UploadAt(u, where) == up' = [up EXCEPT ![u].at = where]

(* A file of a type and size that the route lets through gets an id. *)
Submit(u, f) ==
    /\ up[u].at = "idle"
    /\ f \notin given
    /\ given' = given \union {f}
    /\ up' = [up EXCEPT ![u] = [file |-> f, at |-> "put"]]
    /\ UNCHANGED <<objects, rows, failed, requests>>

Put(u) ==
    /\ up[u].at = "put"
    /\ objects' = objects \union {up[u].file}
    /\ UploadAt(u, "insert")
    /\ UNCHANGED <<given, rows, failed, requests>>

(* Mutant of PutFails: the upload goes on. *)
PutFailsPassed(u) ==
    /\ up[u].at = "put"
    /\ objects' \in {objects, objects \union {up[u].file}}
    /\ UploadAt(u, "insert")
    /\ UNCHANGED <<given, rows, failed, requests>>

(* The put raises, though S3 may have taken the object, or the worker dies *)
(* meanwhile.                                                              *)
PutFails(u) ==
    /\ up[u].at = "put"
    /\ objects' \in {objects, objects \union {up[u].file}}
    /\ failed' = failed \union {up[u].file}
    /\ up' = [up EXCEPT ![u] = NoUpload]
    /\ UNCHANGED <<given, rows, requests>>

(* The text is extracted, or is None where that fails; the row is flushed. *)
Insert(u) ==
    /\ up[u].at = "insert"
    /\ UploadAt(u, "commit")
    /\ UNCHANGED <<given, objects, rows, failed, requests>>

(* Mutant of Commit: the session is closed without it. *)
CommitForgotten(u) ==
    /\ up[u].at = "commit"
    /\ up' = [up EXCEPT ![u] = NoUpload]
    /\ UNCHANGED <<given, objects, rows, failed, requests>>

Commit(u) ==
    /\ up[u].at = "commit"
    /\ rows' = rows \union {up[u].file}
    /\ up' = [up EXCEPT ![u] = NoUpload]
    /\ UNCHANGED <<given, objects, failed, requests>>

(* The database takes no row (a name that is too long, a text with a NUL,  *)
(* no connection) or does not commit: rolled back.  Or the worker dies.    *)
(* The object is left as it is.                                            *)
Fail(u) ==
    /\ up[u].at \in {"insert", "commit"}
    /\ failed' = failed \union {up[u].file}
    /\ up' = [up EXCEPT ![u] = NoUpload]
    /\ UNCHANGED <<given, objects, rows, requests>>

-----------------------------------------------------------------------------
Answer(q, a) ==
    /\ ask' = [ask EXCEPT ![q].answer = a]
    /\ UNCHANGED <<given, objects, rows, up, job, failed>>

Arrive(q, kind, f) ==
    /\ ask[q].answer \notin {"find", "sign"}
    /\ ask' = [ask EXCEPT ![q] = [kind |-> kind, file |-> f, answer |-> "find"]]
    /\ UNCHANGED <<given, objects, rows, up, job, failed>>

NotFound(q) ==
    /\ ask[q].answer = "find"
    /\ ask[q].file \notin rows
    /\ Answer(q, "not_found")

Find(q) ==
    /\ ask[q].answer = "find" /\ ask[q].kind = "get"
    /\ ask[q].file \in rows
    /\ Answer(q, "sign")

(* A link is signed without asking whether there is an object behind it. *)
Sign(q) ==
    /\ ask[q].answer = "sign"
    /\ Answer(q, "link")

(* FileService has no delete: AttributeError. *)
Delete(q) ==
    /\ ask[q].answer = "find" /\ ask[q].kind = "delete"
    /\ ask[q].file \in rows
    /\ Answer(q, "error")

-----------------------------------------------------------------------------
Report(j, s) ==
    /\ job' = [job EXCEPT ![j].status = s]
    /\ UNCHANGED <<given, objects, rows, up, ask, failed>>

StartTask(j, task, f) ==
    /\ job[j].status # "processing"
    /\ job' = [job EXCEPT ![j] = [task |-> task, file |-> f, status |-> "processing"]]
    /\ UNCHANGED <<given, objects, rows, up, ask, failed>>

(* process_file looks for the row, and that is all; it fails where there   *)
(* is none, or where the database or Redis raises.                         *)
Processed(j) ==
    /\ job[j].task = "process_file" /\ job[j].status = "processing"
    /\ \/ job[j].file \in rows /\ Report(j, "completed")
       \/ Report(j, "failed")

(* batch_transcribe reads no file. *)
Transcribed(j) ==
    /\ job[j].task = "batch_transcribe" /\ job[j].status = "processing"
    /\ Report(j, "completed")

-----------------------------------------------------------------------------
FilesNext ==
    \/ \E u \in Uploads :
          \/ \E f \in Files : Submit(u, f)
          \/ Put(u) \/ PutFails(u) \/ Insert(u) \/ Commit(u) \/ Fail(u)
    \/ \E q \in Readers :
          \/ \E kind \in {"get", "delete"}, f \in Files : Arrive(q, kind, f)
          \/ NotFound(q) \/ Find(q) \/ Sign(q) \/ Delete(q)
    \/ \E j \in Jobs :
          \/ \E task \in {"process_file", "batch_transcribe"}, f \in Files : StartTask(j, task, f)
          \/ Processed(j) \/ Transcribed(j)

FilesSpec == FilesInit /\ [][FilesNext]_filesVars

-----------------------------------------------------------------------------
(* Where a file is said to be stored, by its row, by the link of a GET or  *)
(* by a process_file that is completed, its object is in S3: there is no   *)
(* moment in an upload, nor a failure of it, that leaves a row without     *)
(* one, and what was found remains.                                        *)
StoredIsThere ==
    /\ rows \subseteq objects
    /\ \A q \in Readers : ask[q].answer \in {"sign", "link"} => ask[q].file \in objects
    /\ \A j \in Jobs :
          job[j].task = "process_file" /\ job[j].status = "completed" => job[j].file \in objects

(* An object that no row leads to, which nothing will ever remove, belongs *)
(* to an upload under way or to one that has failed: there is at most one  *)
(* for each failure.                                                       *)
OrphansAreFailures ==
    \A f \in objects \ rows : f \in failed \/ \E u \in Uploads : up[u].file = f
=============================================================================
