------------------------------ MODULE TokenBucket ------------------------------
(***************************************************************************)
(* The rate limiter of app/core/ratelimit.py for one identifier.           *)
(*                                                                         *)
(* The Lua script is atomic in Redis, but the time it works with is an     *)
(* argument that the worker took before it awaited the call: scripts may   *)
(* run in another order than their clocks were read in, and the bucket may *)
(* be asked to go back in time.                                            *)
(*                                                                         *)
(* Tokens are counted in units of what a tick of the clock refills, so the *)
(* refill rate is 1, the bucket holds Capacity = max_tokens/refill_rate    *)
(* units and a request costs Cost = 1/refill_rate.                         *)
(***************************************************************************)
EXTENDS Integers

CONSTANTS
    Calls,     \* slots for concurrent calls of check; a slot is used again
    Capacity,
    Cost,
    KeyTTL,    \* expiry of the bucket's key, 120 s
    MaxDelay,  \* longest time between reading the clock and the script's run
    MaxTime    \* bound of the model: the clock stops there

(* The key outlives the time a bucket needs to fill up, with MaxDelay to   *)
(* spare: 120 s against 60 s, for every tier of ratelimit.py:17-21.        *)
ASSUME BucketAssumption ==
    /\ Cost \in Nat \ {0}
    /\ Capacity \in Nat /\ Capacity >= Cost
    /\ MaxDelay \in Nat
    /\ KeyTTL \in Nat /\ KeyTTL >= Capacity + MaxDelay
    /\ MaxTime \in Nat

VARIABLES
    clock,
    tokens,   \* the hash in Redis: tokens ...
    last,     \*   ... and last_refill
    expiry,   \* when its key expires; the key is absent from then on
    phase,    \* phase[c]: "idle", or "asked": the script is under way
    now,      \* now[c]: the time the call passes to the script
    from,     \* history: start of an observed window of time ...
    spent     \*   ... and the cost of the requests allowed since

bucket     == <<tokens, last, expiry>>
bucketVars == <<clock, tokens, last, expiry, phase, now, from, spent>>

BucketTypeOK ==
    /\ clock \in Nat
    /\ tokens \in Int /\ tokens =< Capacity
    /\ last \in Nat
    /\ expiry \in Nat
    /\ phase \in [Calls -> {"idle", "asked"}]
    /\ now \in [Calls -> Nat]
    /\ from \in Nat
    /\ spent \in Nat

BucketInit ==
    /\ clock = 0
    /\ tokens = 0 /\ last = 0 /\ expiry = 0
    /\ phase = [c \in Calls |-> "idle"]
    /\ now = [c \in Calls |-> 0]
    /\ from = 0 /\ spent = 0

-----------------------------------------------------------------------------
(* check reads the clock and awaits the script. *)
Ask(c) ==
    /\ phase[c] = "idle"
    /\ phase' = [phase EXCEPT ![c] = "asked"]
    /\ now' = [now EXCEPT ![c] = clock]
    /\ UNCHANGED <<clock, bucket, from, spent>>

Present == clock < expiry

(* Mutant of Refilled: the bucket overflows. *)
RefilledUncapped(t) == IF ~Present THEN Capacity ELSE tokens + (t - last)

(* What the script finds: a bucket that has never been used, or not for    *)
(* long, is full.  The time elapsed may be negative.                       *)
Refilled(t) ==
    IF ~Present \/ tokens + (t - last) > Capacity
      THEN Capacity
      ELSE tokens + (t - last)

(* Mutants of Run: last_refill is only stored when a request is allowed;   *)
(* a refused request is charged too.                                       *)
RunKeepsTime(c, allowed) ==
    /\ phase[c] = "asked"
    /\ allowed <=> Refilled(now[c]) >= Cost
    /\ tokens' = IF allowed THEN Refilled(now[c]) - Cost ELSE Refilled(now[c])
    /\ last' = IF allowed THEN now[c] ELSE last
    /\ expiry' = clock + KeyTTL
    /\ spent' = IF allowed THEN spent + Cost ELSE spent
    /\ phase' = [phase EXCEPT ![c] = "idle"]
    /\ now' = [now EXCEPT ![c] = 0]
    /\ UNCHANGED <<clock, from>>

RunChargesRefused(c, allowed) ==
    /\ phase[c] = "asked"
    /\ allowed <=> Refilled(now[c]) >= Cost
    /\ tokens' = Refilled(now[c]) - Cost
    /\ last' = now[c]
    /\ expiry' = clock + KeyTTL
    /\ spent' = IF allowed THEN spent + Cost ELSE spent
    /\ phase' = [phase EXCEPT ![c] = "idle"]
    /\ now' = [now EXCEPT ![c] = 0]
    /\ UNCHANGED <<clock, from>>

Run(c, allowed) ==
    /\ phase[c] = "asked"
    /\ allowed <=> Refilled(now[c]) >= Cost
    /\ tokens' = IF allowed THEN Refilled(now[c]) - Cost ELSE Refilled(now[c])
    /\ last' = now[c]
    /\ expiry' = clock + KeyTTL
    /\ spent' = IF allowed THEN spent + Cost ELSE spent
    /\ phase' = [phase EXCEPT ![c] = "idle"]
    /\ now' = [now EXCEPT ![c] = 0]
    /\ UNCHANGED <<clock, from>>

Allow(c)  == Run(c, TRUE)
Refuse(c) == Run(c, FALSE)

(* The call is lost before the script runs. *)
Lose(c) ==
    /\ phase[c] = "asked"
    /\ phase' = [phase EXCEPT ![c] = "idle"]
    /\ now' = [now EXCEPT ![c] = 0]
    /\ UNCHANGED <<clock, bucket, from, spent>>

ClockTick ==
    /\ clock < MaxTime
    /\ \A c \in Calls : phase[c] = "asked" => clock - now[c] < MaxDelay
    /\ clock' = clock + 1
    /\ UNCHANGED <<bucket, phase, now, from, spent>>

(* An observer starts to count. *)
Observe ==
    /\ from' = clock
    /\ spent' = 0
    /\ UNCHANGED <<clock, bucket, phase, now>>

BucketNext ==
    \/ \E c \in Calls : Ask(c) \/ Allow(c) \/ Refuse(c) \/ Lose(c)
    \/ ClockTick
    \/ Observe

BucketSpec == BucketInit /\ [][BucketNext]_bucketVars

-----------------------------------------------------------------------------
(* In any window of time, wherever it starts, the requests allowed cost no *)
(* more than a full bucket and what was refilled meanwhile, though scripts *)
(* run out of order, with times up to MaxDelay old, and the key expires.   *)
RateBound == spent =< Capacity + (clock - from) + MaxDelay

(* The debt of a bucket that was sent back in time is bounded: it is never *)
(* emptier than a delay can make it, so it allows a request again after    *)
(* Cost + MaxDelay at the latest.                                          *)
DebtBound == tokens >= 0 - MaxDelay

(* What the bounds rest on: what may still be spent out of the bucket and  *)
(* what has been spent in the window never exceed, together, a full bucket *)
(* and the refill up to `last`.  A script that runs keeps that balance, an *)
(* expiry as well because the bucket it replaces would have been full.     *)
(* expiry - KeyTTL is when the script last ran.                            *)
Balance ==
    /\ from =< clock
    /\ \A c \in Calls :
          phase[c] = "asked" => now[c] =< clock /\ clock - now[c] =< MaxDelay
    /\ \/ expiry = 0 /\ last = 0 /\ tokens = 0
       \/ LET ran == expiry - KeyTTL
          IN  /\ ran =< clock
              /\ last =< ran /\ ran - last =< MaxDelay
              /\ tokens >= last - ran
    /\ spent > 0 =>
          /\ expiry > 0
          /\ spent + tokens - last =< Capacity - from + MaxDelay

(* The inductive invariant of the proofs. *)
BucketInv == BucketTypeOK /\ Balance
==============================================================================
