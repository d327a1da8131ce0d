---------------------------- MODULE ProviderRetry ----------------------------
(***************************************************************************)
(* Calls to one provider, as every adapter makes them: wrapped in          *)
(* with_retry and gated by the circuit breaker of app/providers/retry.py.  *)
(*                                                                         *)
(* The breaker is the module-level object `circuit_breaker`.  Nothing ever *)
(* hands it a Redis client, so every worker process keeps its own counters *)
(* in memory.  A worker is a single-threaded event loop: the local breaker *)
(* operations contain no suspension point, therefore each is one step, and *)
(* the interleaving is that of the awaits in between (the HTTP request and *)
(* the back-off sleep).  A breaker entry is only ever touched under its    *)
(* provider's name, so one provider is modelled and stands for each.       *)
(***************************************************************************)
EXTENDS Integers

CONSTANTS
    Workers,          \* the processes, each with its own breaker
    Calls,            \* slots for concurrent calls; a slot is used again
    Threshold,        \* failure_threshold
    RecoveryTimeout,  \* recovery_timeout, in clock ticks
    MaxRetries,       \* max_retries of the decorator
    FailureBound,     \* bound of the model: no Disable takes a counter above it
    NoWorker          \* worker of a slot that has not been used

ASSUME RetryAssumption ==
    /\ Threshold \in Nat \ {0}
    /\ RecoveryTimeout \in Nat
    /\ MaxRetries \in Nat
    /\ FailureBound \in Nat
    /\ NoWorker \notin Workers

VARIABLES
    open,      \* the workers whose _open is True
    failures,  \* failures[w]: _failures of worker w
    age,       \* age[w]:      time since _last_failure, up to RecoveryTimeout + 1
    pc,        \* pc[c]:       where the call is
    worker,    \* worker[c]:   the process that runs it
    attempt,   \* attempt[c]:  loop variable of the retry loop
    answer     \* answer[c]:   what its caller has been told

breaker == <<open, failures, age>>
calls   == <<pc, worker, attempt, answer>>
vars    == <<open, failures, age, pc, worker, attempt, answer>>

InFlight == {"sending", "backoff"}
Answers  == {"none", "ok", "rejected", "exhausted", "unavailable", "cancelled"}

MaxAge == RecoveryTimeout + 1

TypeOK ==
    /\ open \subseteq Workers
    /\ failures \in [Workers -> Nat]
    /\ age \in [Workers -> 0 .. MaxAge]
    /\ pc \in [Calls -> InFlight \union {"idle", "done"}]
    /\ worker \in [Calls -> Workers \union {NoWorker}]
    /\ attempt \in [Calls -> 0 .. MaxRetries]
    /\ answer \in [Calls -> Answers]

Init ==
    /\ open = {}
    /\ failures = [w \in Workers |-> 0]
    /\ age = [w \in Workers |-> MaxAge]
    /\ pc = [c \in Calls |-> "idle"]
    /\ worker = [c \in Calls |-> NoWorker]
    /\ attempt = [c \in Calls |-> 0]
    /\ answer = [c \in Calls |-> "none"]

-----------------------------------------------------------------------------
(* The breaker of one worker. *)

Recovers(w) == w \in open /\ age[w] > RecoveryTimeout

(* Mutant of Refuses: the threshold is off by one. *)
RefusesBeyondThreshold(w) == w \in open /\ failures[w] > Threshold /\ ~Recovers(w)

(* is_open answers TRUE *)
Refuses(w) == w \in open /\ ~Recovers(w)

(* Mutant of IsOpen: a refusal counts as another failure in time. *)
IsOpenRestartsClock(w) ==
    /\ open' = IF Recovers(w) THEN open \ {w} ELSE open
    /\ failures' = [failures EXCEPT ![w] = IF Recovers(w) THEN 0 ELSE @]
    /\ age' = [age EXCEPT ![w] = IF Refuses(w) THEN 0 ELSE @]

(* What is_open does on the way: past the recovery timeout it closes the   *)
(* circuit for everybody; there is no half-open state in memory.           *)
IsOpen(w) ==
    /\ open' = IF Recovers(w) THEN open \ {w} ELSE open
    /\ failures' = [failures EXCEPT ![w] = IF Recovers(w) THEN 0 ELSE @]
    /\ UNCHANGED age

(* Mutant of RecordSuccess: the counter is not reset. *)
RecordSuccessKeepsCount(w) ==
    /\ open' = open \ {w}
    /\ UNCHANGED <<failures, age>>

RecordSuccess(w) ==
    /\ open' = open \ {w}
    /\ failures' = [failures EXCEPT ![w] = 0]
    /\ UNCHANGED age

(* n calls of record_failure in a row, with no suspension in between *)
RecordFailures(w, n) ==
    /\ failures' = [failures EXCEPT ![w] = @ + n]
    /\ open' = IF failures[w] + n >= Threshold THEN open \union {w} ELSE open
    /\ age' = [age EXCEPT ![w] = 0]

-----------------------------------------------------------------------------
(* One call through with_retry. *)

Goto(c, where) == pc' = [pc EXCEPT ![c] = where]

Finish(c, a) ==
    /\ Goto(c, "done")
    /\ answer' = [answer EXCEPT ![c] = a]

(* The call arrives at worker w.  is_open is asked once; between its       *)
(* answer and the first request there is no suspension.                    *)
Start(c, w) ==
    /\ pc[c] = "idle"
    /\ IsOpen(w)
    /\ worker' = [worker EXCEPT ![c] = w]
    /\ attempt' = [attempt EXCEPT ![c] = 0]
    /\ \/ /\ Refuses(w)
          /\ Finish(c, "unavailable")
       \/ /\ ~Refuses(w)
          /\ Goto(c, "sending")
          /\ UNCHANGED answer

Succeed(c) ==
    /\ pc[c] = "sending"
    /\ RecordSuccess(worker[c])
    /\ Finish(c, "ok")
    /\ UNCHANGED <<worker, attempt>>

(* A status outside RETRYABLE_STATUS: the breaker is not told. *)
Reject(c) ==
    /\ pc[c] = "sending"
    /\ Finish(c, "rejected")
    /\ UNCHANGED <<breaker, worker, attempt>>

(* Mutants of Fail: one retry too many; given up one attempt early. *)
FailOnceMore(c) ==
    /\ pc[c] = "sending"
    /\ RecordFailures(worker[c], 1)
    /\ IF attempt[c] =< MaxRetries
         THEN Goto(c, "backoff") /\ UNCHANGED answer
         ELSE Finish(c, "exhausted")
    /\ UNCHANGED <<worker, attempt>>

FailOnceLess(c) ==
    /\ pc[c] = "sending"
    /\ RecordFailures(worker[c], 1)
    /\ IF attempt[c] + 1 < MaxRetries
         THEN Goto(c, "backoff") /\ UNCHANGED answer
         ELSE Finish(c, "exhausted")
    /\ UNCHANGED <<worker, attempt>>

(* A retryable status, or any other exception. *)
Fail(c) ==
    /\ pc[c] = "sending"
    /\ RecordFailures(worker[c], 1)
    /\ \/ /\ attempt[c] < MaxRetries
          /\ Goto(c, "backoff")
          /\ UNCHANGED answer
       \/ /\ attempt[c] = MaxRetries
          /\ Finish(c, "exhausted")
    /\ UNCHANGED <<worker, attempt>>

(* Mutant of Resend: the attempt is not counted. *)
ResendUncounted(c) ==
    /\ pc[c] = "backoff"
    /\ Goto(c, "sending")
    /\ UNCHANGED <<breaker, worker, attempt, answer>>

(* The back-off sleep ends, after any time; the breaker is not asked again. *)
Resend(c) ==
    /\ pc[c] = "backoff"
    /\ Goto(c, "sending")
    /\ attempt' = [attempt EXCEPT ![c] = @ + 1]
    /\ UNCHANGED <<breaker, worker, answer>>

(* The task is cancelled at an await: CancelledError is not an Exception,  *)
(* so no handler of the loop runs.  arq does this when a job times out.    *)
Cancel(c) ==
    /\ pc[c] \in InFlight
    /\ Finish(c, "cancelled")
    /\ UNCHANGED <<breaker, worker, attempt>>

(* The slot is free for the next request. *)
Reuse(c) ==
    /\ pc[c] = "done"
    /\ Goto(c, "idle")
    /\ answer' = [answer EXCEPT ![c] = "none"]
    /\ worker' = [worker EXCEPT ![c] = NoWorker]
    /\ attempt' = [attempt EXCEPT ![c] = 0]
    /\ UNCHANGED breaker

-----------------------------------------------------------------------------
(* The administrator, time, and the process supervisor. *)

(* GET /admin/providers/health asks is_open, with its side effect. *)
Health(w) == IsOpen(w) /\ UNCHANGED calls

(* POST /admin/providers/{name}/disable *)
Disable(w) ==
    /\ failures[w] + Threshold + 1 =< FailureBound
    /\ RecordFailures(w, Threshold + 1)
    /\ UNCHANGED calls

(* POST /admin/providers/{name}/enable *)
Enable(w) == RecordSuccess(w) /\ UNCHANGED calls

Tick ==
    /\ age' = [w \in Workers |-> IF age[w] < MaxAge THEN age[w] + 1 ELSE MaxAge]
    /\ UNCHANGED <<open, failures, calls>>

(* Gunicorn replaces a worker: its breaker and its calls are gone. *)
Restart(w) ==
    /\ open' = open \ {w}
    /\ failures' = [failures EXCEPT ![w] = 0]
    /\ age' = [age EXCEPT ![w] = MaxAge]
    /\ LET lost(c) == worker[c] = w /\ pc[c] \in InFlight
       IN  /\ pc' = [c \in Calls |-> IF lost(c) THEN "done" ELSE pc[c]]
           /\ answer' = [c \in Calls |-> IF lost(c) THEN "cancelled" ELSE answer[c]]
    /\ UNCHANGED <<worker, attempt>>

Respond(c) == Succeed(c) \/ Reject(c) \/ Fail(c)

Next ==
    \/ \E c \in Calls :
          \/ \E w \in Workers : Start(c, w)
          \/ Succeed(c)
          \/ Reject(c)
          \/ Fail(c)
          \/ Resend(c)
          \/ Cancel(c)
          \/ Reuse(c)
    \/ \E w \in Workers : Health(w) \/ Disable(w) \/ Enable(w) \/ Restart(w)
    \/ Tick

Spec == Init /\ [][Next]_vars

(* Every HTTP request ends (the shared client has a timeout), every sleep  *)
(* ends, and time passes.  Nothing is assumed of callers or administrators. *)
FairSpec ==
    /\ Spec
    /\ \A c \in Calls : WF_vars(Respond(c)) /\ WF_vars(Resend(c))
    /\ WF_vars(Tick)

-----------------------------------------------------------------------------
(* The flag and the counter agree: a worker's circuit is open exactly when *)
(* its counter has reached the threshold, whatever mix of late successes,  *)
(* late failures, recoveries, admin requests and restarts led there        *)
(* (_local_is_open, _local_record_success, _local_record_failure).  If     *)
(* they parted, one more failure would trip a circuit that has recovered,  *)
(* or a provider beyond the threshold would keep receiving traffic.        *)
OpenIffThreshold == \A w \in Workers : w \in open <=> failures[w] >= Threshold

(* A call and its answer keep step: one that is running has a worker and   *)
(* no answer yet, and one that sleeps has a retry left, so the loop never  *)
(* sleeps after its last attempt nor runs an attempt too many.             *)
CallState ==
    \A c \in Calls :
        /\ answer[c] = "none" <=> pc[c] # "done"
        /\ pc[c] \in InFlight => worker[c] \in Workers
        /\ pc[c] = "backoff" => attempt[c] < MaxRetries
        /\ answer[c] = "exhausted" => attempt[c] = MaxRetries

(* The inductive invariant of the proofs. *)
Inv == TypeOK /\ CallState /\ OpenIffThreshold

(* How many requests call c may still cost the provider, this one included. *)
MaySend(c) ==
    CASE pc[c] = "sending" -> MaxRetries - attempt[c] + 1
      [] pc[c] = "backoff" -> MaxRetries - attempt[c]
      [] OTHER             -> 0

(* As long as a worker's circuit stays open, no call of that worker gains  *)
(* the right to send another request: the overrun of an open circuit is    *)
(* what the calls already in flight have left, and it only shrinks.        *)
OverrunShrinks ==
    [][\A w \in open \intersect open' :
          \A c \in Calls : worker'[c] = w => MaySend(c)' =< MaySend(c)]_vars

(* A call that has started is answered, however the provider behaves: the  *)
(* loop of with_retry cannot go round for ever.                            *)
CallsAreAnswered == \A c \in Calls : pc[c] \in InFlight ~> pc[c] = "done"

(* An open circuit gets to the point where the next is_open closes it.     *)
(* Late failures of calls still in flight push that point back, but there  *)
(* are finitely many of them, since nothing new is admitted meanwhile.     *)
(* FailureBound keeps Disable from being repeated for ever, which would    *)
(* push it back too.                                                       *)
CircuitRecovers == \A w \in Workers : w \in open ~> (w \notin open \/ Recovers(w))

(* README: the breaker is "Shared across workers via Redis". *)
SharedAcrossWorkers == open = {} \/ open = Workers

-----------------------------------------------------------------------------
(* What a caller is promised: see CallContract. *)
Sends(c) ==
    IF pc[c] = "idle" \/ answer[c] = "unavailable" THEN 0 ELSE attempt[c] + 1

Contract == INSTANCE CallContract
                WITH MaxSends <- MaxRetries + 1,
                     sends <- [c \in Calls |-> Sends(c)]

ImplementsContract == Contract!Spec
=============================================================================
