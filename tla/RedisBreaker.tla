----------------------------- MODULE RedisBreaker -----------------------------
(***************************************************************************)
(* The Redis implementation of the circuit breaker of retry.py, for one    *)
(* provider, shared by the callers of all workers.  (No code hands the     *)
(* breaker a Redis client today; the class offers it.)                     *)
(*                                                                         *)
(* Every Redis command is awaited, so each is a step of its own, done      *)
(* together with what its caller does with the reply up to its next await; *)
(* between two of them any other caller may run, a key may expire, and the *)
(* caller's worker may die.  A key with an expiry carries a countdown.     *)
(***************************************************************************)
EXTENDS Integers

CONSTANTS
    Callers,
    Threshold,        \* failure_threshold
    RecoveryTimeout,  \* recovery_timeout, in clock ticks
    LockTTL,          \* expiry of the probe lock, in clock ticks
    MaxRetries        \* retries of with_retry

ASSUME RedisBreakerAssumption ==
    /\ Threshold \in Nat \ {0}
    /\ RecoveryTimeout \in Nat \ {0}
    /\ LockTTL \in Nat \ {0}
    /\ MaxRetries \in Nat

VARIABLES
    state,     \* cb:state; an absent key reads as "closed"
    stateTTL,  \* its countdown, 0 when it has no expiry
    failures,  \* cb:failures, counted up to Threshold; 0 when absent
    failTTL,   \* its countdown, 0 when it has no expiry
    age,       \* time since cb:last_fail, up to RecoveryTimeout + 1, or Never
    lockTTL,   \* countdown of cb:probe_lock; 0 when absent
    pc,        \* pc[c]:    the next command of caller c
    seen,      \* seen[c]:  what its INCR returned
    tries      \* tries[c]: retries made

redis  == <<state, stateTTL, failures, failTTL, age, lockTTL>>
caller == <<pc, seen, tries>>
vars   == <<state, stateTTL, failures, failTTL, age, lockTTL, pc, seen, tries>>

OpenTTL  == 2 * RecoveryTimeout
CountTTL == 3 * RecoveryTimeout
MaxAge   == RecoveryTimeout + 1
Never    == RecoveryTimeout + 2

Recording == {"expire", "setLast", "delLock", "reread", "setOpen"}

TypeOK ==
    /\ state \in {"closed", "open", "half_open"}
    /\ stateTTL \in 0 .. OpenTTL
    /\ failures \in 0 .. Threshold
    /\ failTTL \in 0 .. CountTTL
    /\ age \in 0 .. Never
    /\ lockTTL \in 0 .. LockTTL
    /\ pc \in [Callers -> Recording \union
                  {"idle", "getLast", "setHalf", "tryLock", "sending", "backoff"}]
    /\ seen \in [Callers -> 0 .. Threshold]
    /\ tries \in [Callers -> 0 .. MaxRetries]

Init ==
    /\ state = "closed" /\ stateTTL = 0
    /\ failures = 0 /\ failTTL = 0
    /\ age = Never
    /\ lockTTL = 0
    /\ pc = [c \in Callers |-> "idle"]
    /\ seen = [c \in Callers |-> 0]
    /\ tries = [c \in Callers |-> 0]

-----------------------------------------------------------------------------
Goto(c, where) == pc' = [pc EXCEPT ![c] = where]

Leave(c) ==
    /\ Goto(c, "idle")
    /\ seen' = [seen EXCEPT ![c] = 0]
    /\ tries' = [tries EXCEPT ![c] = 0]

Admit(c) == Goto(c, "sending") /\ UNCHANGED <<seen, tries>>

(* _redis_is_open, first command *)
GetState(c) ==
    /\ pc[c] = "idle"
    /\ \/ state = "closed" /\ Admit(c)
       \/ state = "open" /\ Goto(c, "getLast") /\ UNCHANGED <<seen, tries>>
       \/ state = "half_open" /\ Goto(c, "tryLock") /\ UNCHANGED <<seen, tries>>
    /\ UNCHANGED redis

GetLast(c) ==
    /\ pc[c] = "getLast"
    /\ IF age > RecoveryTimeout
         THEN Goto(c, "setHalf") /\ UNCHANGED <<seen, tries>>
         ELSE Leave(c)
    /\ UNCHANGED redis

(* Mutant of SetHalfOpen: SET instead of SETEX. *)
SetHalfOpenForGood(c) ==
    /\ pc[c] = "setHalf"
    /\ state' = "half_open"
    /\ stateTTL' = 0
    /\ Admit(c)
    /\ UNCHANGED <<failures, failTTL, age, lockTTL>>

(* The circuit is made half-open, whatever has become of it meanwhile, and *)
(* the caller goes ahead without taking the probe lock.                    *)
SetHalfOpen(c) ==
    /\ pc[c] = "setHalf"
    /\ state' = "half_open"
    /\ stateTTL' = RecoveryTimeout
    /\ Admit(c)
    /\ UNCHANGED <<failures, failTTL, age, lockTTL>>

TryLock(c) ==
    /\ pc[c] = "tryLock"
    /\ \/ lockTTL = 0 /\ lockTTL' = LockTTL /\ Admit(c)
       \/ lockTTL > 0 /\ UNCHANGED lockTTL /\ Leave(c)
    /\ UNCHANGED <<state, stateTTL, failures, failTTL, age>>

(* _redis_record_success: one MULTI/EXEC *)
Close ==
    /\ failures' = 0
    /\ failTTL' = 0
    /\ state' = "closed"
    /\ stateTTL' = 0
    /\ lockTTL' = 0
    /\ UNCHANGED age

Succeed(c) == pc[c] = "sending" /\ Close /\ Leave(c)

(* The request ends with nothing recorded: a status that is not retryable, *)
(* or an administrator's health query, which only asks is_open.            *)
Unrecorded(c) == pc[c] = "sending" /\ Leave(c) /\ UNCHANGED redis

-----------------------------------------------------------------------------
(* _redis_record_failure, one command a step.  A success that cannot be    *)
(* recorded is caught by the same handler and recorded as a failure.       *)
Increment(c) ==
    /\ failures' = IF failures < Threshold THEN failures + 1 ELSE Threshold
    /\ seen' = [seen EXCEPT ![c] = failures']
    /\ Goto(c, "expire")
    /\ UNCHANGED <<state, stateTTL, failTTL, age, lockTTL>>

Fail(c) == pc[c] = "sending" /\ Increment(c) /\ UNCHANGED tries

(* POST disable records failures in a loop, without asking is_open.        *)
(* Any number of rounds is allowed; after the round it is not a retry.     *)
Disable(c) ==
    /\ pc[c] = "idle"
    /\ Increment(c)
    /\ tries' = [tries EXCEPT ![c] = MaxRetries]

(* POST enable *)
Enable == Close /\ UNCHANGED caller

Expire(c) ==
    /\ pc[c] = "expire"
    /\ failTTL' = IF failures > 0 THEN CountTTL ELSE 0
    /\ Goto(c, "setLast")
    /\ UNCHANGED <<state, stateTTL, failures, age, lockTTL, seen, tries>>

(* Mutant of SetLast: cb:last_fail is not written. *)
SetLastForgotten(c) ==
    /\ pc[c] = "setLast"
    /\ Goto(c, "delLock")
    /\ UNCHANGED <<redis, seen, tries>>

SetLast(c) ==
    /\ pc[c] = "setLast"
    /\ age' = 0
    /\ Goto(c, "delLock")
    /\ UNCHANGED <<state, stateTTL, failures, failTTL, lockTTL, seen, tries>>

DeleteLock(c) ==
    /\ pc[c] = "delLock"
    /\ lockTTL' = 0
    /\ Goto(c, "reread")
    /\ UNCHANGED <<state, stateTTL, failures, failTTL, age, seen, tries>>

(* Mutant of Recorded: one retry too many. *)
RecordedOnceMore(c) ==
    \/ /\ tries[c] =< MaxRetries
       /\ Goto(c, "backoff")
       /\ seen' = [seen EXCEPT ![c] = 0]
       /\ UNCHANGED tries
    \/ tries[c] > MaxRetries /\ Leave(c)

(* The failure is recorded; with_retry sleeps if it has a retry left. *)
Recorded(c) ==
    \/ /\ tries[c] < MaxRetries
       /\ Goto(c, "backoff")
       /\ seen' = [seen EXCEPT ![c] = 0]
       /\ UNCHANGED tries
    \/ tries[c] = MaxRetries /\ Leave(c)

Reread(c) ==
    /\ pc[c] = "reread"
    /\ IF state = "half_open" \/ seen[c] >= Threshold
         THEN Goto(c, "setOpen") /\ UNCHANGED <<seen, tries>>
         ELSE Recorded(c)
    /\ UNCHANGED redis

(* Mutant of SetOpen: SET instead of SETEX. *)
SetOpenForGood(c) ==
    /\ pc[c] = "setOpen"
    /\ state' = "open"
    /\ stateTTL' = 0
    /\ Recorded(c)
    /\ UNCHANGED <<failures, failTTL, age, lockTTL>>

SetOpen(c) ==
    /\ pc[c] = "setOpen"
    /\ state' = "open"
    /\ stateTTL' = OpenTTL
    /\ Recorded(c)
    /\ UNCHANGED <<failures, failTTL, age, lockTTL>>

(* The next attempt is sent; the breaker is not asked again. *)
Resend(c) ==
    /\ pc[c] = "backoff"
    /\ Goto(c, "sending")
    /\ tries' = [tries EXCEPT ![c] = @ + 1]
    /\ UNCHANGED <<redis, seen>>

(* The caller's task is cancelled, or its worker dies. *)
Crash(c) == pc[c] # "idle" /\ Leave(c) /\ UNCHANGED redis

-----------------------------------------------------------------------------
(* Time passes and keys expire: a countdown of 1 ends with its key. *)
Down(n) == IF n > 0 THEN n - 1 ELSE 0

(* Mutant of Tick: the keys of the breaker have no expiry. *)
TickWithoutExpiry ==
    /\ age' = IF age < MaxAge THEN age + 1 ELSE age
    /\ UNCHANGED <<state, stateTTL, failures, failTTL, lockTTL, caller>>

Tick ==
    /\ state' = IF stateTTL = 1 THEN "closed" ELSE state
    /\ stateTTL' = Down(stateTTL)
    /\ failures' = IF failTTL = 1 THEN 0 ELSE failures
    /\ failTTL' = Down(failTTL)
    /\ age' = IF age < MaxAge THEN age + 1 ELSE age
    /\ lockTTL' = Down(lockTTL)
    /\ UNCHANGED caller

Next ==
    \/ \E c \in Callers :
          \/ GetState(c) \/ GetLast(c) \/ SetHalfOpen(c) \/ TryLock(c)
          \/ Succeed(c) \/ Unrecorded(c)
          \/ Fail(c) \/ Disable(c)
          \/ Expire(c) \/ SetLast(c) \/ DeleteLock(c) \/ Reread(c) \/ SetOpen(c)
          \/ Resend(c) \/ Crash(c)
    \/ Enable
    \/ Tick

Spec == Init /\ [][Next]_vars

(* Only the passing of time is relied on: a caller may stall anywhere. *)
FairSpec == Spec /\ WF_vars(Tick)

-----------------------------------------------------------------------------
(* An open circuit has a last failure to count its recovery from.  Without *)
(* one, is_open reads `last_fail or 0` and lets the next caller through at *)
(* once.  It relies on the order of the writes of record_failure and on    *)
(* nothing ever deleting cb:last_fail.                                     *)
OpenHasLastFailure == state = "open" => age # Never

(* Both states that refuse requests carry an expiry, in every interleaving *)
(* with a success that stores "closed" without one: if all workers die in  *)
(* the middle of anything, the circuit still closes by itself.             *)
RefusalExpires == state = "closed" <=> stateTTL = 0

(* A caller is refused in these states. *)
Refusing ==
    \/ state = "open" /\ age =< RecoveryTimeout
    \/ state = "half_open" /\ lockTTL > 0

KeptDisabled == []<><<\E c \in Callers : Disable(c)>>_vars

(* Whatever callers do, stall or die, with the lock or in the middle of    *)
(* recording, the provider is not shut out for ever, unless an             *)
(* administrator disables it again and again.                              *)
AdmitsAgain == KeptDisabled \/ []<>~Refusing

(* A circuit leaves "open" and leaves "half_open", though failures of      *)
(* calls in flight may renew the expiry.                                   *)
PhasesEnd ==
    \/ KeptDisabled
    \/ /\ state = "open" ~> state # "open"
       /\ state = "half_open" ~> state # "half_open"
=============================================================================
