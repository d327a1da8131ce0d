------------------------------- MODULE VideoJobs -------------------------------
(***************************************************************************)
(* One video generation: the request that enqueues it, arq, the task       *)
(* generate_video with the router's loop over the two video adapters, each *)
(* under with_retry, and a client that polls.  Jobs share no key of Redis, *)
(* so one stands for each.                                                 *)
(*                                                                         *)
(* arq is modelled from how it is used (worker.py sets only the timeout    *)
(* and the number of slots): it starts a job again if its worker stopped,  *)
(* at most MaxTries times, gives it up afterwards, ends it when it returns *)
(* or raises, and cancels it when it has run for job_timeout; the          *)
(* CancelledError passes the task's `except Exception`.                    *)
(***************************************************************************)
EXTENDS Integers

CONSTANTS
    MaxTries,    \* how often arq starts a job
    MaxRetries,  \* max_retries of with_retry
    MaxPolls     \* polls of a prediction before the adapter stops waiting

ASSUME VideoJobsAssumption ==
    /\ MaxTries \in Nat \ {0}
    /\ MaxRetries \in Nat
    /\ MaxPolls \in Nat \ {0}

VARIABLES
    queue,       \* arq's view: "none", "queued", "running" or "ended"
    tries,       \* how often arq has started the job
    outcome,     \* how the job ended
    pc,          \* where the task is
    who,         \* the router's candidate
    after,       \* the candidate after it, or "none"
    attempt,     \* loop variable of with_retry
    prediction,  \* the prediction the adapter waits for, at the provider
    polls,       \* how often it has asked for it
    output,      \* what the adapter has made of it: "url" or "nothing"
    created,     \* history: predictions created at the provider
    succeeded,   \* history: one of them has succeeded
    status,      \* job:<id>:status
    result,      \* job:<id>:result
    client,      \* the poller: the status it has read, before it reads the result
    view         \* the last answer to the poller

arq      == <<queue, tries, outcome>>
choice   == <<who, after>>
task     == <<pc, choice, attempt, polls, output>>
provider == <<prediction, created, succeeded>>
keys     == <<status, result>>
poller   == <<client, view>>
vars     == <<queue, tries, outcome, pc, who, after, attempt, prediction, polls,
              output, created, succeeded, status, result, client, view>>

Statuses == {"absent", "processing", "completed", "failed"}
Results  == {"absent", "url", "nothing", "error"}

TypeOK ==
    /\ queue \in {"none", "queued", "running", "ended"}
    /\ tries \in 0 .. MaxTries
    /\ outcome \in {"none", "returned", "raised", "cancelled", "given_up"}
    /\ pc \in {"idle", "begin", "filter", "lookup", "create", "poll", "fetch",
               "setCompleted", "setResult", "close", "setFailed", "setError"}
    /\ who \in {"fal", "replicate"}
    /\ after \in {"none", "replicate"}
    /\ attempt \in 0 .. MaxRetries
    /\ prediction \in {"none", "running", "succeeded", "failed"}
    /\ polls \in 0 .. MaxPolls
    /\ output \in {"nothing", "url"}
    /\ created \in Nat
    /\ succeeded \in BOOLEAN
    /\ status \in Statuses
    /\ result \in Results
    /\ client \in Statuses \union {"idle"}
    /\ view \in [status : Statuses, result : Results]

Init ==
    /\ queue = "none" /\ tries = 0 /\ outcome = "none"
    /\ pc = "idle" /\ who = "fal" /\ after = "none"
    /\ attempt = 0 /\ polls = 0 /\ output = "nothing"
    /\ prediction = "none" /\ created = 0 /\ succeeded = FALSE
    /\ status = "absent" /\ result = "absent"
    /\ client = "idle"
    /\ view = [status |-> "absent", result |-> "absent"]

-----------------------------------------------------------------------------
(* arq *)

Enqueue ==
    /\ queue = "none"
    /\ queue' = "queued"
    /\ UNCHANGED <<tries, outcome, task, provider, keys, poller>>

(* Mutant of Start: the starts are not counted. *)
StartUncounted ==
    /\ queue = "queued"
    /\ queue' = "running"
    /\ pc' = "begin"
    /\ who' = "fal" /\ after' = "none"
    /\ attempt' = 0 /\ polls' = 0 /\ output' = "nothing"
    /\ UNCHANGED <<tries, outcome, provider, keys, poller>>

Start ==
    /\ queue = "queued"
    /\ tries < MaxTries
    /\ queue' = "running"
    /\ tries' = tries + 1
    /\ pc' = "begin"
    /\ who' = "fal" /\ after' = "none"
    /\ attempt' = 0 /\ polls' = 0 /\ output' = "nothing"
    /\ UNCHANGED <<outcome, provider, keys, poller>>

GiveUp ==
    /\ queue = "queued"
    /\ tries = MaxTries
    /\ queue' = "ended"
    /\ outcome' = "given_up"
    /\ UNCHANGED <<tries, task, provider, keys, poller>>

End(how) ==
    /\ queue' = "ended"
    /\ outcome' = how
    /\ pc' = "idle"
    /\ UNCHANGED <<tries, choice, attempt, polls, output>>

(* job_timeout *)
Cancel ==
    /\ queue = "running"
    /\ End("cancelled")
    /\ UNCHANGED <<provider, keys, poller>>

(* The worker stops or dies with the job. *)
WorkerStops ==
    /\ queue = "running"
    /\ queue' = "queued"
    /\ pc' = "idle"
    /\ UNCHANGED <<tries, outcome, choice, attempt, polls, output, provider, keys, poller>>

-----------------------------------------------------------------------------
(* The task, and what it calls. *)

Goto(where) ==
    /\ pc' = where
    /\ UNCHANGED <<choice, attempt, polls, output>>

Begin ==
    /\ pc = "begin"
    /\ status' = "processing"
    /\ Goto("filter")
    /\ UNCHANGED <<arq, provider, result, poller>>

(* route: Fal comes before Replicate in the capability map; the user's     *)
(* keys and preferences leave both, one or none (the router raises).       *)
Filter ==
    /\ pc = "filter"
    /\ \/ /\ who' = "fal" /\ after' \in {"none", "replicate"}
          /\ pc' = "lookup"
       \/ /\ who' = "replicate" /\ UNCHANGED after
          /\ pc' = "lookup"
       \/ pc' = "setFailed" /\ UNCHANGED choice
    /\ UNCHANGED <<attempt, polls, output, arq, provider, keys, poller>>

(* The candidate's key is found, or the key service raises, which ends the *)
(* loop.                                                                   *)
Lookup ==
    /\ pc = "lookup"
    /\ Goto("create") \/ Goto("setFailed")
    /\ UNCHANGED <<arq, provider, keys, poller>>

(* The adapter raises: on to the next candidate, or the router raises.     *)
FailOver ==
    \/ /\ after # "none"
       /\ who' = after /\ after' = "none"
       /\ attempt' = 0
       /\ pc' = "lookup"
    \/ /\ after = "none"
       /\ pc' = "setFailed"
       /\ UNCHANGED <<choice, attempt>>

(* Mutant of Retry: the attempt is not counted. *)
RetryUncounted ==
    /\ pc' = "create"
    /\ UNCHANGED <<choice, attempt>>

(* with_retry tries again or raises; what it calls again is the whole      *)
(* adapter method, which creates a new prediction.                         *)
Retry ==
    \/ /\ attempt < MaxRetries
       /\ attempt' = attempt + 1
       /\ pc' = "create"
       /\ UNCHANGED choice
    \/ /\ attempt = MaxRetries
       /\ FailOver

Create ==
    /\ pc = "create"
    /\ created' = created + 1
    /\ prediction' = "running"
    /\ pc' = "poll"
    /\ polls' = 0
    /\ UNCHANGED <<choice, attempt, output, arq, succeeded, keys, poller>>

(* Fal answers the POST with the video, or with something that is neither  *)
(* that nor a place in its queue.                                          *)
CreateAnswered ==
    /\ pc = "create" /\ who = "fal"
    /\ created' = created + 1
    /\ \/ output' = "url" /\ succeeded' = TRUE
       \/ output' = "nothing" /\ UNCHANGED succeeded
    /\ pc' = "setCompleted"
    /\ UNCHANGED <<choice, attempt, polls, arq, prediction, keys, poller>>

(* The POST fails, and may have created a prediction all the same. *)
CreateFails ==
    /\ pc = "create"
    /\ created' \in {created, created + 1}
    /\ Retry
    /\ UNCHANGED <<polls, output, arq, prediction, succeeded, keys, poller>>

(* Not tried again: a client error, or the breaker is open. *)
Refused ==
    /\ pc \in {"create", "poll", "fetch"}
    /\ FailOver
    /\ UNCHANGED <<polls, output, arq, provider, keys, poller>>

(* Mutant of Poll: whatever the last poll returns is taken for a video. *)
PollTrusts ==
    /\ pc = "poll" /\ who = "replicate"
    /\ polls' = polls + 1
    /\ IF prediction # "running" \/ polls + 1 = MaxPolls
         THEN output' = "url" /\ pc' = "setCompleted"
         ELSE UNCHANGED <<pc, output>>
    /\ UNCHANGED <<choice, attempt, arq, provider, keys, poller>>

(* Replicate: a prediction that has failed, or is still running at the     *)
(* last poll, is returned like one that has succeeded; its output is then  *)
(* empty.                                                                  *)
Poll ==
    /\ pc = "poll" /\ who = "replicate"
    /\ polls' = polls + 1
    /\ IF prediction # "running" \/ polls + 1 = MaxPolls
         THEN /\ output' = IF prediction = "succeeded" THEN "url" ELSE "nothing"
              /\ pc' = "setCompleted"
         ELSE UNCHANGED <<pc, output>>
    /\ UNCHANGED <<choice, attempt, arq, provider, keys, poller>>

(* Fal: a prediction that has failed, or is still running at the last      *)
(* poll, raises, and with_retry creates another; of one that is completed  *)
(* the result is fetched, where there may be no video.                     *)
PollFal ==
    /\ pc = "poll" /\ who = "fal"
    /\ polls' = polls + 1
    /\ \/ /\ prediction = "succeeded"
          /\ pc' = "fetch"
          /\ UNCHANGED <<choice, attempt>>
       \/ /\ prediction = "running" /\ polls + 1 < MaxPolls
          /\ UNCHANGED <<pc, choice, attempt>>
       \/ /\ prediction = "failed" \/ (prediction = "running" /\ polls + 1 = MaxPolls)
          /\ Retry
    /\ UNCHANGED <<output, arq, provider, keys, poller>>

Fetch ==
    /\ pc = "fetch"
    /\ output' \in {"url", "nothing"}
    /\ pc' = "setCompleted"
    /\ UNCHANGED <<choice, attempt, polls, arq, provider, keys, poller>>

PollFails ==
    /\ pc \in {"poll", "fetch"}
    /\ Retry
    /\ UNCHANGED <<polls, output, arq, provider, keys, poller>>

SetCompleted ==
    /\ pc = "setCompleted"
    /\ status' = "completed"
    /\ Goto("setResult")
    /\ UNCHANGED <<arq, provider, result, poller>>

SetResult ==
    /\ pc = "setResult"
    /\ result' = output
    /\ Goto("close")
    /\ UNCHANGED <<arq, provider, status, poller>>

(* The session and the HTTP clients are closed, and the task returns. *)
Close ==
    /\ pc = "close"
    /\ End("returned")
    /\ UNCHANGED <<provider, keys, poller>>

(* Mutant of Break: a failed write of the verdict is passed over. *)
BreakPassedOver ==
    /\ pc \in {"setCompleted", "setResult", "close"}
    /\ Goto("close")
    /\ UNCHANGED <<arq, provider, keys, poller>>

(* A Redis command or the closing raises inside the `try`. *)
Break ==
    /\ pc \in {"setCompleted", "setResult", "close"}
    /\ Goto("setFailed")
    /\ UNCHANGED <<arq, provider, keys, poller>>

SetFailed ==
    /\ pc = "setFailed"
    /\ status' = "failed"
    /\ Goto("setError")
    /\ UNCHANGED <<arq, provider, result, poller>>

SetError ==
    /\ pc = "setError"
    /\ result' = "error"
    /\ End("raised")
    /\ UNCHANGED <<provider, status, poller>>

(* A Redis command raises outside the `try`. *)
Raise ==
    /\ pc \in {"begin", "setFailed", "setError"}
    /\ End("raised")
    /\ UNCHANGED <<provider, keys, poller>>

-----------------------------------------------------------------------------
(* The provider, and the client. *)

Predict ==
    /\ prediction = "running"
    /\ \/ prediction' = "succeeded" /\ succeeded' = TRUE
       \/ prediction' = "failed" /\ UNCHANGED succeeded
    /\ UNCHANGED <<arq, task, created, keys, poller>>

(* GET /video/jobs/{id} reads the status, and then the result. *)
ReadStatus ==
    /\ client = "idle"
    /\ client' = status
    /\ UNCHANGED <<arq, task, provider, keys, view>>

ReadResult ==
    /\ client # "idle"
    /\ view' = [status |-> client,
                result |-> IF client = "absent" THEN "absent" ELSE result]
    /\ client' = "idle"
    /\ UNCHANGED <<arq, task, provider, keys>>

TaskStep ==
    \/ Begin \/ Filter \/ Lookup
    \/ Create \/ CreateAnswered \/ CreateFails \/ Refused
    \/ Poll \/ PollFal \/ Fetch \/ PollFails
    \/ SetCompleted \/ SetResult \/ Close \/ Break
    \/ SetFailed \/ SetError \/ Raise

Next ==
    \/ Enqueue \/ Start \/ GiveUp \/ Cancel \/ WorkerStops
    \/ Begin \/ Filter \/ Lookup
    \/ Create \/ CreateAnswered \/ CreateFails \/ Refused
    \/ Poll \/ PollFal \/ Fetch \/ PollFails
    \/ SetCompleted \/ SetResult \/ Close \/ Break
    \/ SetFailed \/ SetError \/ Raise
    \/ Predict
    \/ ReadStatus \/ ReadResult

Spec == Init /\ [][Next]_vars

(* Some worker takes jobs up, and a task's awaits return or raise. *)
FairSpec == Spec /\ WF_vars(Start) /\ WF_vars(GiveUp) /\ WF_vars(TaskStep)

-----------------------------------------------------------------------------
(* A job that arq counts as successful has left its verdict, and a result  *)
(* of its last run, whatever earlier runs and their retries had left.      *)
ReturnedMeansStored ==
    outcome = "returned" => status = "completed" /\ result = output

(* arq's restarts, the router's two candidates and with_retry's attempts   *)
(* multiply, for every attempt creates a prediction of its own: this many  *)
(* are paid for, and no more.                                              *)
PredictionsBounded == created =< tries * 2 * (MaxRetries + 1)

(* A client is only ever shown a video URL if a prediction has succeeded.  *)
UrlIsReal == (result = "url" \/ view.result = "url") => succeeded

(* Each job ends, however often its worker stops. *)
JobsEnd == queue = "queued" ~> queue = "ended"

(* video.py:219, on the job's status: "When completed, the `result` field  *)
(* contains the video download URL."  Said here of the jobs that Replicate *)
(* has answered; one that Fal has answered can lack its video as well.     *)
CompletedHasVideo ==
    outcome = "returned" /\ status = "completed" /\ who = "replicate" => result = "url"
=============================================================================
