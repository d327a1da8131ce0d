------------------------------ MODULE Redis_proofs ------------------------------
(***************************************************************************)
(* Proofs about what the workers share in Redis: RedisBreaker, for any     *)
(* number of callers and any timeouts, and TokenBucket, for every bucket   *)
(* size, cost, expiry and delay that BucketAssumption admits, any number   *)
(* of concurrent calls and any length of time.  The two share no state;    *)
(* each has its own specification and invariant (Inv of RedisBreaker,      *)
(* BucketInv of TokenBucket).                                              *)
(***************************************************************************)
EXTENDS RedisBreaker, TokenBucket, TLAPS

(* record_failure writes cb:last_fail before it can come to open the       *)
(* circuit, and a circuit becomes half-open only on an answer "open".      *)
LastFailureKnown ==
    /\ state # "closed" => age # Never
    /\ \A c \in Callers :
          pc[c] \in {"getLast", "setHalf", "tryLock", "delLock", "reread", "setOpen"}
              => age # Never

(* A caller only sleeps when it has a retry left.                          *)
RetryLeft == \A c \in Callers : pc[c] = "backoff" => tries[c] < MaxRetries

Inv == TypeOK /\ RefusalExpires /\ LastFailureKnown /\ RetryLeft

(* Every step keeps the inductive invariant.                               *)
LEMMA InvStep == Inv /\ [Next]_vars => Inv'
<1> SUFFICES ASSUME Inv, [Next]_vars
             PROVE  Inv'
  OBVIOUS
<1> USE RedisBreakerAssumption
    DEF Inv, TypeOK, RefusalExpires, LastFailureKnown, RetryLeft, Recording, Goto,
        Leave, Admit, redis, caller, OpenTTL, CountTTL, MaxAge, Never
<1>1. ASSUME NEW c \in Callers,
             GetState(c) \/ GetLast(c) \/ SetHalfOpen(c) \/ TryLock(c)
      PROVE  Inv'
  BY <1>1 DEF GetState, GetLast, SetHalfOpen, TryLock
<1>2. ASSUME NEW c \in Callers, Succeed(c) \/ Unrecorded(c) \/ Crash(c)
      PROVE  Inv'
  BY <1>2 DEF Succeed, Unrecorded, Crash, Close
<1>3. ASSUME NEW c \in Callers, Fail(c) \/ Disable(c)
      PROVE  Inv'
  BY <1>3 DEF Fail, Disable, Increment
<1>4. ASSUME NEW c \in Callers, Expire(c) \/ SetLast(c) \/ DeleteLock(c)
      PROVE  Inv'
  BY <1>4 DEF Expire, SetLast, DeleteLock
<1>5. ASSUME NEW c \in Callers, Reread(c) \/ SetOpen(c)
      PROVE  Inv'
  BY <1>5 DEF Reread, SetOpen, Recorded
<1>6. ASSUME NEW c \in Callers, Resend(c)
      PROVE  Inv'
  BY <1>6 DEF Resend
<1>7. CASE Enable
  BY <1>7 DEF Enable, Close
<1>8. CASE Tick
  BY <1>8 DEF Tick, Down
<1>9. CASE UNCHANGED vars
  BY <1>9 DEF vars
<1> QED
  BY <1>1, <1>2, <1>3, <1>4, <1>5, <1>6, <1>7, <1>8, <1>9 DEF Next

LEMMA InvAlways == Spec => []Inv
<1>1. Init => Inv
  BY RedisBreakerAssumption
     DEF Init, Inv, TypeOK, RefusalExpires, LastFailureKnown, RetryLeft, Recording,
         OpenTTL, CountTTL, Never
<1> QED
  BY <1>1, InvStep, PTL DEF Spec

(* The variables stay in their types.                                      *)
THEOREM TypeCorrect == Spec => []TypeOK
<1>1. Inv => TypeOK
  BY DEF Inv
<1> QED
  BY <1>1, InvAlways, PTL

(* Whatever callers interleave and wherever they die, an open or half-open *)
(* circuit carries an expiry (retry.py:86-134).                            *)
THEOREM RefusalAlwaysExpires == Spec => []RefusalExpires
<1>1. Inv => RefusalExpires
  BY DEF Inv
<1> QED
  BY <1>1, InvAlways, PTL

(* An open circuit always has a last failure to time its recovery by.      *)
THEOREM RecoveryIsTimed == Spec => []OpenHasLastFailure
<1>1. Inv => OpenHasLastFailure
  BY DEF Inv, LastFailureKnown, OpenHasLastFailure, TypeOK
<1> QED
  BY <1>1, InvAlways, PTL

-----------------------------------------------------------------------------
(* TokenBucket.                                                            *)

(* What the script leaves in the bucket is at most what it found refilled. *)
LEMMA RefillBounds ==
    ASSUME BucketInv, NEW t \in Nat
    PROVE  /\ Refilled(t) \in Int
           /\ Refilled(t) =< Capacity
           /\ Present => Refilled(t) =< tokens + (t - last)
           /\ \/ Refilled(t) = Capacity
              \/ Present /\ Refilled(t) = tokens + (t - last)
BY BucketAssumption DEF BucketInv, BucketTypeOK, Refilled, Present

(* The script, run at any moment for any call, keeps the balance.          *)
LEMMA RunStep ==
    ASSUME BucketInv, NEW c \in Calls, NEW allowed \in BOOLEAN, Run(c, allowed)
    PROVE  BucketInv'
<1> DEFINE t == now[c]
           full == Refilled(t)
<1> USE BucketAssumption
<1>1. t \in Nat /\ phase[c] = "asked" /\ t =< clock /\ clock - t =< MaxDelay
  BY DEF BucketInv, BucketTypeOK, Balance, Run
<1>2. /\ full \in Int
      /\ full =< Capacity
      /\ Present => full =< tokens + (t - last)
      /\ full = Capacity \/ (Present /\ full = tokens + (t - last))
  BY <1>1, RefillBounds
<1>3. /\ last' = t /\ expiry' = clock + KeyTTL /\ clock' = clock /\ from' = from
      /\ \/ full >= Cost /\ tokens' = full - Cost /\ spent' = spent + Cost
         \/ full < Cost /\ tokens' = full /\ spent' = spent
  BY <1>1, <1>2 DEF Run
<1>4. /\ clock \in Nat /\ tokens \in Int /\ last \in Nat /\ expiry \in Nat
      /\ from \in Nat /\ spent \in Nat
  BY DEF BucketInv, BucketTypeOK
<1> HIDE DEF full, t
<1>5. BucketTypeOK'
  <2>1. phase' \in [Calls -> {"idle", "asked"}] /\ now' \in [Calls -> Nat]
    BY DEF BucketInv, BucketTypeOK, Run
  <2> QED
    BY <1>1, <1>2, <1>3, <1>4, <2>1 DEF BucketTypeOK
<1>6. tokens' >= last' - clock
  <2>1. CASE full >= Cost /\ tokens' = full - Cost
    BY <1>1, <1>2, <1>3, <1>4, <2>1
  <2>2. CASE tokens' = full
    <3>1. CASE full = Capacity
      BY <1>1, <1>2, <1>3, <1>4, <2>2, <3>1
    <3>2. CASE Present /\ full = tokens + (t - last)
      <4>1. tokens >= last - clock
        BY <1>4, <3>2 DEF BucketInv, Balance, Present
      <4> QED
        BY <1>1, <1>3, <1>4, <2>2, <3>2, <4>1
    <3> QED
      BY <1>2, <3>1, <3>2
  <2> QED
    BY <1>3, <2>1, <2>2
<1>7. spent' > 0 => spent' + tokens' - last' =< Capacity - from + MaxDelay
  <2>1. spent' + tokens' = spent + full
    BY <1>2, <1>3, <1>4
  <2>2. CASE spent = 0
    <3>1. from =< clock
      BY DEF BucketInv, Balance
    <3> QED
      BY <1>1, <1>2, <1>3, <1>4, <2>1, <2>2, <3>1
  <2>3. CASE spent > 0
    <3>1. /\ expiry > 0
          /\ spent + tokens - last =< Capacity - from + MaxDelay
          /\ tokens >= last - (expiry - KeyTTL)
      BY <1>4, <2>3 DEF BucketInv, Balance
    <3>2. CASE Present
      BY <1>1, <1>2, <1>3, <1>4, <2>1, <3>1, <3>2
    <3>3. CASE ~Present
      <4>1. clock >= expiry
        BY <1>4, <3>3 DEF Present
      <4>2. t >= Capacity + expiry - KeyTTL
        BY <1>1, <1>4, <4>1
      <4> QED
        BY <1>1, <1>2, <1>3, <1>4, <2>1, <3>1, <4>2
    <3> QED
      BY <3>2, <3>3
  <2> QED
    BY <1>4, <2>2, <2>3
<1>8. ASSUME NEW d \in Calls, phase'[d] = "asked"
      PROVE  now'[d] =< clock' /\ clock' - now'[d] =< MaxDelay
  BY <1>3, <1>8 DEF Run, BucketInv, BucketTypeOK, Balance
<1>9. from' =< clock'
  BY <1>3 DEF BucketInv, Balance
<1> QED
  BY <1>1, <1>3, <1>4, <1>5, <1>6, <1>7, <1>8, <1>9 DEF BucketInv, Balance

LEMMA BucketInvStep == BucketInv /\ [BucketNext]_bucketVars => BucketInv'
<1> SUFFICES ASSUME BucketInv, [BucketNext]_bucketVars
             PROVE  BucketInv'
  OBVIOUS
<1> USE BucketAssumption
<1>1. ASSUME NEW c \in Calls, Ask(c)
      PROVE  BucketInv'
  BY <1>1 DEF Ask, BucketInv, BucketTypeOK, Balance, bucket
<1>2. ASSUME NEW c \in Calls, Allow(c) \/ Refuse(c)
      PROVE  BucketInv'
  BY <1>2, RunStep DEF Allow, Refuse
<1>3. ASSUME NEW c \in Calls, Lose(c)
      PROVE  BucketInv'
  BY <1>3 DEF Lose, BucketInv, BucketTypeOK, Balance, bucket
<1>4. CASE ClockTick
  BY <1>4 DEF ClockTick, BucketInv, BucketTypeOK, Balance, bucket
<1>5. CASE Observe
  BY <1>5 DEF Observe, BucketInv, BucketTypeOK, Balance, bucket
<1>6. CASE UNCHANGED bucketVars
  BY <1>6 DEF bucketVars, BucketInv, BucketTypeOK, Balance
<1> QED
  BY <1>1, <1>2, <1>3, <1>4, <1>5, <1>6 DEF BucketNext

LEMMA BucketInvAlways == BucketSpec => []BucketInv
<1>1. BucketInit => BucketInv
  BY BucketAssumption DEF BucketInit, BucketInv, BucketTypeOK, Balance
<1> QED
  BY <1>1, BucketInvStep, PTL DEF BucketSpec

(* The variables stay in their types; time never sees a debt in `spent`.   *)
THEOREM BucketTypeCorrect == BucketSpec => []BucketTypeOK
<1>1. BucketInv => BucketTypeOK
  BY DEF BucketInv
<1> QED
  BY <1>1, BucketInvAlways, PTL

(* No window of time, however long and wherever it starts, has more        *)
(* requests allowed in it than a full bucket, the refill of the window and *)
(* the delay account for.                                                  *)
THEOREM RateIsBounded == BucketSpec => []RateBound
<1>1. BucketInv => RateBound
  BY BucketAssumption DEF BucketInv, BucketTypeOK, Balance, RateBound
<1> QED
  BY <1>1, BucketInvAlways, PTL

(* However late and in whatever order the scripts run, the bucket's debt   *)
(* stays within the delay.                                                 *)
THEOREM DebtIsBounded == BucketSpec => []DebtBound
<1>1. BucketInv => DebtBound
  BY BucketAssumption DEF BucketInv, BucketTypeOK, Balance, DebtBound
<1> QED
  BY <1>1, BucketInvAlways, PTL

(* The balance that the bounds rest on is kept by every script that runs   *)
(* and by every expiry.                                                    *)
THEOREM BalanceKept == BucketSpec => []Balance
<1>1. BucketInv => Balance
  BY DEF BucketInv
<1> QED
  BY <1>1, BucketInvAlways, PTL
=============================================================================
