----------------------------- MODULE Worker_proofs -----------------------------
(***************************************************************************)
(* Proofs about the tasks of worker.py: VideoJobs, for any number of       *)
(* starts, retries and polls, and FileStore, for any number of files,      *)
(* uploads, readers and jobs.  The two share no state; each has its own    *)
(* specification and invariant (Inv of VideoJobs, FilesInv of FileStore).  *)
(***************************************************************************)
EXTENDS VideoJobs, FileStore, TLAPS

(* Only a running job has a task at work, and only an ended one a verdict. *)
Control ==
    /\ pc # "idle" <=> queue = "running"
    /\ queue = "none" => tries = 0
    /\ queue = "running" => tries > 0
    /\ outcome # "none" => queue = "ended"
    /\ pc = "begin" => attempt = 0 /\ after = "none"
    /\ pc \in {"filter", "lookup"} => attempt = 0
    /\ pc = "filter" => after = "none"
    /\ after # "none" => who = "fal"
    /\ pc = "poll" => polls < MaxPolls
    /\ pc = "fetch" => prediction = "succeeded"

(* The task writes the status, and then what the adapter has made of the   *)
(* prediction.                                                             *)
Written ==
    /\ pc \in {"setResult", "close"} => status = "completed"
    /\ pc = "close" => result = output

(* The predictions that the starts before this one may have created, and   *)
(* what this one may have created by the candidate and the attempt it has  *)
(* come to.  (A candidate before Replicate may have been there or not.)    *)
Earlier(n) == n * 2 * (MaxRetries + 1)

Passed == IF who = "replicate" THEN MaxRetries + 1 ELSE 0

Allowance ==
    CASE pc = "idle"                 -> Earlier(tries)
      [] pc \in {"begin", "filter"}  -> Earlier(tries - 1)
      [] pc \in {"lookup", "create"} -> Earlier(tries - 1) + Passed + attempt
      [] OTHER                       -> Earlier(tries - 1) + Passed + attempt + 1

WithinAllowance == created =< Allowance

(* Wherever there is a URL, a prediction has succeeded.                    *)
Genuine ==
    /\ prediction = "succeeded" \/ output = "url" => succeeded
    /\ UrlIsReal

Inv == TypeOK /\ Control /\ Written /\ ReturnedMeansStored /\ Genuine

ArqStep  == Enqueue \/ Start \/ GiveUp \/ Cancel \/ WorkerStops
Choosing == Begin \/ Filter \/ Lookup
Asking   == \/ Create \/ CreateAnswered \/ CreateFails \/ Refused
            \/ Poll \/ PollFal \/ Fetch \/ PollFails
Telling  == SetCompleted \/ SetResult \/ Close \/ Break \/ SetFailed \/ SetError \/ Raise
Outside  == Predict \/ ReadStatus \/ ReadResult

LEMMA StepsAre == [Next]_vars <=> ArqStep \/ Choosing \/ Asking \/ Telling \/ Outside \/ UNCHANGED vars
BY DEF Next, ArqStep, Choosing, Asking, Telling, Outside

LEMMA InvInit == Init => Inv
<1> SUFFICES ASSUME Init
             PROVE  Inv
  OBVIOUS
<1>1. TypeOK
  <2>1. "absent" \in Statuses /\ "absent" \in Results
    BY DEF Statuses, Results
  <2>2. view \in [status : Statuses, result : Results]
    BY <2>1 DEF Init
  <2>3. tries \in 0 .. MaxTries /\ attempt \in 0 .. MaxRetries /\ polls \in 0 .. MaxPolls
    BY VideoJobsAssumption DEF Init
  <2>4. created \in Nat /\ succeeded \in BOOLEAN
    BY DEF Init
  <2> QED
    BY <2>1, <2>2, <2>3, <2>4, Zenon DEF Init, TypeOK
<1>2. Control /\ Written /\ ReturnedMeansStored /\ Genuine
  BY DEF Init, Control, Written, ReturnedMeansStored, Genuine, UrlIsReal
<1> QED
  BY <1>1, <1>2 DEF Inv

LEMMA InvStep == Inv /\ [Next]_vars => Inv'
<1> SUFFICES ASSUME Inv, [Next]_vars
             PROVE  Inv'
  OBVIOUS
<1> USE VideoJobsAssumption
    DEF Inv, TypeOK, Control, Written, ReturnedMeansStored, Genuine, UrlIsReal, Statuses, Results,
        choice, arq, task, provider, keys, poller, Goto, End
<1>1. CASE ArqStep
  BY <1>1 DEF ArqStep, Enqueue, Start, GiveUp, Cancel, WorkerStops
<1>2. CASE Choosing
  BY <1>2 DEF Choosing, Begin, Filter, Lookup
<1>3. CASE Asking
  <2>1. CASE Create
    <3>1. /\ pc' = "poll" /\ polls' = 0 /\ prediction' = "running" /\ created' = created + 1
          /\ UNCHANGED <<choice, attempt, output, arq, succeeded, keys, poller>>
          /\ pc = "create"
      BY <2>1 DEF Create
    <3>2. TypeOK'
      BY <3>1
    <3>3. Control' /\ Written' /\ ReturnedMeansStored' /\ Genuine'
      BY <3>1
    <3> QED
      BY <3>2, <3>3
  <2>2. CASE CreateAnswered
    <3>1. /\ pc' = "setCompleted" /\ created' = created + 1
          /\ UNCHANGED <<choice, attempt, polls, arq, prediction, keys, poller>>
          /\ pc = "create"
      BY <2>2, Zenon DEF CreateAnswered
    <3>2. /\ output' \in {"nothing", "url"}
          /\ succeeded' \in BOOLEAN
          /\ succeeded => succeeded'
          /\ output' = "url" => succeeded'
      BY <2>2, Zenon DEF CreateAnswered
    <3> QED
      BY <3>1, <3>2
  <2>3. CASE CreateFails
    <3>1. /\ UNCHANGED <<polls, output, arq, prediction, succeeded, keys, poller>>
          /\ pc = "create" /\ created' \in Nat
      BY <2>3 DEF CreateFails
    <3>2. /\ pc' \in {"create", "lookup", "setFailed"}
          /\ who' \in {"fal", "replicate"} /\ after' \in {"none", "replicate"}
          /\ attempt' \in 0 .. MaxRetries
          /\ pc' = "lookup" => attempt' = 0
          /\ after' # "none" => who' = "fal"
      BY <2>3 DEF CreateFails, Retry, FailOver
    <3> QED
      BY <3>1, <3>2
  <2>4. CASE Refused
    BY <2>4 DEF Refused, FailOver
  <2>5. CASE Poll
    BY <2>5 DEF Poll
  <2>6. CASE PollFal
    BY <2>6 DEF PollFal, Retry, FailOver
  <2>7. CASE Fetch
    BY <2>7 DEF Fetch
  <2>8. CASE PollFails
    BY <2>8 DEF PollFails, Retry, FailOver
  <2> QED
    BY <1>3, <2>1, <2>2, <2>3, <2>4, <2>5, <2>6, <2>7, <2>8 DEF Asking
<1>4. CASE Telling
  BY <1>4 DEF Telling, SetCompleted, SetResult, Close, Break, SetFailed, SetError, Raise
<1>5. CASE Outside
  <2>1. CASE Predict
    <3>1. UNCHANGED <<arq, task, created, keys, poller>>
      BY <2>1 DEF Predict
    <3>2. prediction = "running"
      BY <2>1 DEF Predict
    <3>3. /\ prediction' \in {"succeeded", "failed"}
          /\ succeeded' \in BOOLEAN
          /\ succeeded => succeeded'
          /\ prediction' = "succeeded" => succeeded'
      BY <2>1, Zenon DEF Predict
    <3> QED
      BY <3>1, <3>2, <3>3
  <2>2. CASE ReadStatus
    BY <2>2 DEF ReadStatus
  <2>3. CASE ReadResult
    <3>1. client \in Statuses /\ (IF client = "absent" THEN "absent" ELSE result) \in Results
      BY <2>3 DEF ReadResult
    <3> HIDE DEF Statuses, Results
    <3>2. view' \in [status : Statuses, result : Results] /\ view'.result \in {"absent", result}
      BY <2>3, <3>1 DEF ReadResult
    <3>3. UNCHANGED <<arq, task, provider, keys>> /\ client' = "idle"
      BY <2>3 DEF ReadResult
    <3>4. TypeOK'
      BY <3>2, <3>3, Zenon
    <3>5. Control' /\ Written' /\ ReturnedMeansStored' /\ Genuine'
      BY <3>2, <3>3
    <3> QED
      BY <3>4, <3>5
  <2> QED
    BY <1>5, <2>1, <2>2, <2>3 DEF Outside
<1>6. CASE UNCHANGED vars
  BY <1>6 DEF vars
<1> QED
  BY <1>1, <1>2, <1>3, <1>4, <1>5, <1>6, StepsAre

(* Types, for every value of the constants.                                *)
THEOREM TypeCorrect == Spec => []TypeOK
BY InvInit, InvStep, PTL DEF Spec, Inv

(* A job that arq counts as successful has left its verdict and the result *)
(* of its last run, whatever earlier runs had left.                        *)
THEOREM StoredOnReturn == Spec => []ReturnedMeansStored
BY InvInit, InvStep, PTL DEF Spec, Inv

(* No client is shown a video URL unless a prediction has succeeded.       *)
THEOREM RealUrl == Spec => []UrlIsReal
BY InvInit, InvStep, PTL DEF Spec, Inv, Genuine

-----------------------------------------------------------------------------
(* A start's allowance is what all its attempts may create. *)
LEMMA OneMoreStart ==
    ASSUME NEW n \in Int
    PROVE  Earlier(n) \in Int /\ Earlier(n) = Earlier(n - 1) + 2 * (MaxRetries + 1)
BY VideoJobsAssumption DEF Earlier

LEMMA AllowanceInit == Init => WithinAllowance
BY VideoJobsAssumption DEF Init, WithinAllowance, Allowance, Earlier

(* A job that ends or is queued again leaves no more than its starts allow *)
(* for; each attempt adds at most one.                                     *)
LEMMA AllowanceStep == Inv /\ WithinAllowance /\ [Next]_vars => WithinAllowance'
<1> SUFFICES ASSUME Inv, WithinAllowance, [Next]_vars
             PROVE  WithinAllowance'
  OBVIOUS
<1>1. /\ tries \in Nat /\ attempt \in 0 .. MaxRetries /\ created \in Nat
      /\ queue = "running" <=> pc # "idle"
      /\ who \in {"fal", "replicate"} /\ after \in {"none", "replicate"}
      /\ after # "none" => who = "fal"
      /\ pc \in {"begin", "filter", "lookup"} => attempt = 0
  BY DEF Inv, TypeOK, Control
<1>2. Earlier(tries) \in Int /\ Earlier(tries - 1) \in Int
      /\ Earlier(tries) = Earlier(tries - 1) + 2 * (MaxRetries + 1)
      /\ Earlier(tries + 1 - 1) = Earlier(tries)
  BY <1>1, OneMoreStart, tries - 1 \in Int, tries + 1 - 1 = tries
<1> USE VideoJobsAssumption, <1>1, <1>2
    DEF WithinAllowance, Allowance, Passed, choice, arq, task, provider, keys, poller, Goto, End
<1>3. CASE ArqStep
  BY <1>3 DEF ArqStep, Enqueue, Start, GiveUp, Cancel, WorkerStops
<1>4. CASE Choosing
  BY <1>4 DEF Choosing, Begin, Filter, Lookup
<1>5. CASE Asking
  <2>1. CASE Create
    BY <2>1 DEF Create
  <2>2. CASE CreateAnswered
    BY <2>2 DEF CreateAnswered
  <2>3. CASE CreateFails
    BY <2>3 DEF CreateFails, Retry, FailOver
  <2>4. CASE Refused
    BY <2>4 DEF Refused, FailOver
  <2>5. CASE Poll
    BY <2>5 DEF Poll
  <2>6. CASE PollFal
    BY <2>6 DEF PollFal, Retry, FailOver
  <2>7. CASE Fetch
    BY <2>7 DEF Fetch
  <2>8. CASE PollFails
    BY <2>8 DEF PollFails, Retry, FailOver
  <2> QED
    BY <1>5, <2>1, <2>2, <2>3, <2>4, <2>5, <2>6, <2>7, <2>8 DEF Asking
<1>6. CASE Telling
  BY <1>6 DEF Telling, SetCompleted, SetResult, Close, Break, SetFailed, SetError, Raise
<1>7. CASE Outside
  BY <1>7 DEF Outside, Predict, ReadStatus, ReadResult
<1>8. CASE UNCHANGED vars
  BY <1>8 DEF vars
<1> QED
  BY <1>3, <1>4, <1>5, <1>6, <1>7, <1>8, StepsAre

LEMMA AllowanceBounds == Inv /\ WithinAllowance => PredictionsBounded
<1> SUFFICES ASSUME Inv, WithinAllowance
             PROVE  created =< Earlier(tries)
  BY DEF PredictionsBounded, Earlier
<1>1. Earlier(tries) \in Int /\ Earlier(tries - 1) \in Int
      /\ Earlier(tries) = Earlier(tries - 1) + 2 * (MaxRetries + 1)
  BY OneMoreStart DEF Inv, TypeOK
<1> QED
  BY <1>1, VideoJobsAssumption DEF Inv, TypeOK, Control, WithinAllowance, Allowance, Passed

(* The restarts of arq, the router's two candidates and the attempts of    *)
(* with_retry multiply, and that is all: each attempt pays for at most one *)
(* prediction.                                                             *)
THEOREM BoundedPredictions == Spec => []PredictionsBounded
<1>1. Init => Inv /\ WithinAllowance
  BY InvInit, AllowanceInit
<1>2. Inv /\ WithinAllowance /\ [Next]_vars => (Inv /\ WithinAllowance)'
  BY InvStep, AllowanceStep
<1> QED
  BY <1>1, <1>2, AllowanceBounds, PTL DEF Spec

-----------------------------------------------------------------------------
(* FileStore.  That a row has an object needs PutFirst: an upload that has *)
(* come to the insert has put its object.                                  *)

(* An upload has a file as long as it is under way, and an object once the *)
(* put is over.                                                            *)
PutFirst ==
    \A u \in Uploads :
        /\ up[u].at = "idle" <=> up[u].file = None
        /\ up[u].at \in {"insert", "commit"} => up[u].file \in objects

(* What a request has found is still there, since no row is ever removed. *)
FoundStays ==
    /\ \A q \in Readers : ask[q].answer \in {"sign", "link"} => ask[q].file \in rows
    /\ \A j \in Jobs :
          job[j].task = "process_file" /\ job[j].status = "completed" => job[j].file \in rows

FilesInv == FilesTypeOK /\ PutFirst /\ FoundStays /\ rows \subseteq objects /\ OrphansAreFailures

LEMMA FilesInvInit == FilesInit => FilesInv
BY FilesAssumption
   DEF FilesInit, FilesInv, FilesTypeOK, PutFirst, FoundStays, OrphansAreFailures, NoUpload, NoRequest, NoJob,
       Upload, Request, Job

(* The steps of an upload change neither requests nor jobs. *)
LEMMA UploadKeeps ==
    ASSUME FilesInv, NEW u \in Uploads,
           \/ \E f \in Files : Submit(u, f)
           \/ Put(u) \/ PutFails(u) \/ Insert(u) \/ Commit(u) \/ Fail(u)
    PROVE  FilesInv'
<1> USE FilesAssumption DEF FilesInv, FilesTypeOK, PutFirst, UploadAt, NoUpload, Upload, requests
<1>1. /\ ask' = ask /\ job' = job
      /\ rows \subseteq rows' /\ objects \subseteq objects' /\ failed \subseteq failed'
  BY DEF Submit, Put, PutFails, Insert, Commit, Fail
<1>2. FoundStays'
  BY <1>1 DEF FoundStays
<1>3. FilesTypeOK' /\ PutFirst' /\ (rows \subseteq objects)'
  <2>1. CASE \E f \in Files : Submit(u, f)
    BY <2>1 DEF Submit
  <2>2. CASE Put(u)
    BY <2>2 DEF Put
  <2>3. CASE PutFails(u)
    BY <2>3 DEF PutFails
  <2>4. CASE Insert(u)
    BY <2>4 DEF Insert
  <2>5. CASE Commit(u)
    BY <2>5 DEF Commit
  <2>6. CASE Fail(u)
    BY <2>6 DEF Fail
  <2> QED
    BY <2>1, <2>2, <2>3, <2>4, <2>5, <2>6
<1>4. OrphansAreFailures'
  <2> SUFFICES ASSUME NEW f \in objects' \ rows', f \notin failed'
               PROVE  \E v \in Uploads : up'[v].file = f
    BY DEF OrphansAreFailures
  <2>1. CASE f \notin objects
    BY <2>1 DEF Submit, Put, PutFails, Insert, Commit, Fail
  <2>2. CASE f \in objects
    <3>1. PICK v \in Uploads : up[v].file = f
      BY <1>1, <2>2 DEF OrphansAreFailures
    <3>2. up'[v].file = f
      BY <1>1, <3>1 DEF Submit, Put, PutFails, Insert, Commit, Fail
    <3> QED
      BY <3>2
  <2> QED
    BY <2>1, <2>2
<1> QED
  BY <1>2, <1>3, <1>4

(* The steps of requests and jobs write neither to S3 nor to the database. *)
LEMMA RequestKeeps ==
    ASSUME FilesInv, NEW q \in Readers,
           \/ \E kind \in {"get", "delete"}, f \in Files : Arrive(q, kind, f)
           \/ NotFound(q) \/ Find(q) \/ Sign(q) \/ Delete(q)
    PROVE  FilesInv'
BY DEF FilesInv, FilesTypeOK, PutFirst, FoundStays, OrphansAreFailures, Request,
       Arrive, NotFound, Find, Sign, Delete, Answer

LEMMA JobKeeps ==
    ASSUME FilesInv, NEW j \in Jobs,
           \/ \E what \in {"process_file", "batch_transcribe"}, f \in Files : StartTask(j, what, f)
           \/ Processed(j) \/ Transcribed(j)
    PROVE  FilesInv'
BY DEF FilesInv, FilesTypeOK, PutFirst, FoundStays, OrphansAreFailures, Job,
       StartTask, Processed, Transcribed, Report

LEMMA FilesInvStep == FilesInv /\ [FilesNext]_filesVars => FilesInv'
<1>1. FilesInv /\ UNCHANGED filesVars => FilesInv'
  BY DEF FilesInv, FilesTypeOK, PutFirst, FoundStays, OrphansAreFailures, filesVars
<1> QED
  BY <1>1, UploadKeeps, RequestKeeps, JobKeeps DEF FilesNext

LEMMA FilesInvAlways == FilesSpec => []FilesInv
BY FilesInvInit, FilesInvStep, PTL DEF FilesSpec

(* The sets of files and the requests have their types. *)
THEOREM FilesTypeCorrect == FilesSpec => []FilesTypeOK
BY FilesInvAlways, PTL DEF FilesInv

(* No row, no link and no completed process_file without an object. *)
THEOREM StoredAlways == FilesSpec => []StoredIsThere
<1>1. FilesInv => StoredIsThere
  BY DEF FilesInv, FoundStays, StoredIsThere
<1> QED
  BY <1>1, FilesInvAlways, PTL

(* Every object without a row is of an upload under way or failed. *)
THEOREM OrphansAlways == FilesSpec => []OrphansAreFailures
BY FilesInvAlways, PTL DEF FilesInv
=============================================================================
