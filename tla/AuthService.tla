------------------------------ MODULE AuthService ------------------------------
(***************************************************************************)
(* The authentication state kept in Redis: the counter of failed logins    *)
(* that locks an account, and the blacklist of revoked tokens              *)
(* (app/core/security.py, routes/auth.py, deps.py).  Every Redis command   *)
(* and database query is awaited, so requests for the same account and the *)
(* same token interleave, at one worker or at several.                     *)
(*                                                                         *)
(* One account and one token are modelled; each stands for all.  What      *)
(* presents a token does the same everywhere: decode it, ask the           *)
(* blacklist, and use it, or (/auth/refresh, /auth/logout) revoke it.  The *)
(* `exp` of a token is a whole number of seconds, and it is accepted during *)
(* the second `exp` as well (jose compares whole seconds).  The clock      *)
(* ticks SecondTicks times a second, so that the rounding shows.           *)
(***************************************************************************)
EXTENDS Integers, FiniteSets

CONSTANTS
    Requests,      \* slots for concurrent requests; a slot is used again
    MaxFailed,     \* MAX_FAILED_LOGIN_ATTEMPTS
    LockoutTTL,    \* ACCOUNT_LOCKOUT_SECONDS, in clock ticks
    SecondTicks,   \* clock ticks in a second
    Lifetime       \* lifetime of the token, in clock ticks

ASSUME AuthAssumption ==
    /\ IsFiniteSet(Requests)
    /\ MaxFailed \in Nat \ {0}
    /\ LockoutTTL \in Nat \ {0}
    /\ SecondTicks \in Nat \ {0}
    /\ Lifetime \in Nat

VARIABLES
    count,     \* failed_login:<email>; 0 when absent
    countTTL,  \* its countdown, 0 when it has no expiry
    life,      \* ticks until `exp`; -SecondTicks: the token is not accepted
    entry,     \* countdown of revoked:<jti>; 0 when absent
    uses,      \* how often the token has been revoked, each time for a new pair
    pc,        \* pc[r]:  what request r does next
    ttl        \* ttl[r]: remaining_ttl, in ticks, as request r computed it

lockout == <<count, countTTL>>
token   == <<life, entry, uses>>
vars    == <<count, countTTL, life, entry, uses, pc, ttl>>

(* Bound of the model: uses are counted up to one more than allowed. *)
UseLimit == Cardinality(Requests) + 1

LoginSteps == {"verify", "record", "expire", "clear"}

TypeOK ==
    /\ count \in Nat
    /\ countTTL \in 0 .. LockoutTTL
    /\ life \in (0 - SecondTicks) .. Lifetime
    /\ entry \in Nat
    /\ uses \in 0 .. UseLimit
    /\ pc \in [Requests -> LoginSteps \union {"idle", "ask", "revoke"}]
    /\ ttl \in [Requests -> Nat]

(* The token has just been issued; its `exp` is rounded down. *)
Init ==
    /\ count = 0
    /\ countTTL = 0
    /\ life \in (Lifetime - SecondTicks + 1) .. Lifetime
    /\ life >= 0
    /\ entry = 0
    /\ uses = 0
    /\ pc = [r \in Requests |-> "idle"]
    /\ ttl = [r \in Requests |-> 0]

Goto(r, where) == pc' = [pc EXCEPT ![r] = where] /\ UNCHANGED ttl

Done(r) ==
    /\ pc' = [pc EXCEPT ![r] = "idle"]
    /\ ttl' = [ttl EXCEPT ![r] = 0]

-----------------------------------------------------------------------------
(* POST /auth/login *)

(* Mutant of Locked: the threshold is off by one. *)
LockedBeyond == count > MaxFailed

Locked == count >= MaxFailed

(* Mutant of Check: a locked account's countdown starts again when tried. *)
CheckProlongs(r) ==
    /\ pc[r] = "idle"
    /\ Goto(r, IF Locked THEN "expire" ELSE "verify")
    /\ UNCHANGED <<lockout, token>>

(* is_account_locked; a locked account is answered 429. *)
Check(r) ==
    /\ pc[r] = "idle"
    /\ ~Locked
    /\ Goto(r, "verify")
    /\ UNCHANGED <<lockout, token>>

(* The user has been read and the password verified; an account that does  *)
(* not exist or is disabled is refused with nothing recorded.              *)
Verify(r) ==
    /\ pc[r] = "verify"
    /\ \E next \in {"record", "clear", "idle"} : Goto(r, next)
    /\ UNCHANGED <<lockout, token>>

(* record_failed_login: INCR, and then EXPIRE, which starts the countdown  *)
(* again if the key is still there. *)
Record(r) ==
    /\ pc[r] = "record"
    /\ count' = count + 1
    /\ Goto(r, "expire")
    /\ UNCHANGED <<countTTL, token>>

Expire(r) ==
    /\ pc[r] = "expire"
    /\ countTTL' = IF count > 0 THEN LockoutTTL ELSE 0
    /\ Done(r)
    /\ UNCHANGED <<count, token>>

(* Mutant of Clear: DECR instead of DEL. *)
ClearOne(r) ==
    /\ pc[r] = "clear"
    /\ count' = count - 1
    /\ Done(r)
    /\ UNCHANGED <<countTTL, token>>

(* clear_failed_logins; new tokens are returned. *)
Clear(r) ==
    /\ pc[r] = "clear"
    /\ count' = 0
    /\ countTTL' = 0
    /\ Done(r)
    /\ UNCHANGED token

-----------------------------------------------------------------------------
(* A request that presents the token. *)

Accepted == life > 0 - SecondTicks

(* decode_token *)
Decode(r) ==
    /\ pc[r] = "idle"
    /\ Accepted
    /\ Goto(r, "ask")
    /\ UNCHANGED <<lockout, token>>

(* Mutant of RemainingTTL: the smaller of the two instead of the greater. *)
RemainingTTLOrLess ==
    LET seconds == life \div SecondTicks
    IN  SecondTicks * (IF seconds > 1 \/ seconds < 0 THEN 1 ELSE seconds)

(* max(int(exp - now), 1) seconds *)
RemainingTTL ==
    LET seconds == life \div SecondTicks
    IN  SecondTicks * (IF seconds > 1 THEN seconds ELSE 1)

(* Mutant of Ask: the blacklist is not asked. *)
AskNobody(r) ==
    /\ pc[r] = "ask"
    /\ pc' = [pc EXCEPT ![r] = "revoke"]
    /\ ttl' = [ttl EXCEPT ![r] = RemainingTTL]
    /\ UNCHANGED <<lockout, token>>

(* is_token_revoked answers: 401, or the request goes on to revoke it. *)
Ask(r) ==
    /\ pc[r] = "ask"
    /\ \/ entry > 0 /\ Done(r)
       \/ /\ entry = 0
          /\ pc' = [pc EXCEPT ![r] = "revoke"]
          /\ ttl' = [ttl EXCEPT ![r] = RemainingTTL]
    /\ UNCHANGED <<lockout, token>>

(* revoke_token: SETEX; new tokens are returned. *)
Revoke(r) ==
    /\ pc[r] = "revoke"
    /\ entry' = ttl[r]
    /\ uses' = IF uses < UseLimit THEN uses + 1 ELSE uses
    /\ Done(r)
    /\ UNCHANGED <<lockout, life>>

-----------------------------------------------------------------------------
(* The worker dies, the client goes away, or Redis does not answer; or the *)
(* token was an access token, and it is not /auth/logout that has it.      *)
Leave(r) ==
    /\ pc[r] # "idle"
    /\ Done(r)
    /\ UNCHANGED <<lockout, token>>

Down(n) == IF n > 0 THEN n - 1 ELSE 0

Tick ==
    /\ count' = IF countTTL = 1 THEN 0 ELSE count
    /\ countTTL' = Down(countTTL)
    /\ life' = IF Accepted THEN life - 1 ELSE life
    /\ entry' = Down(entry)
    /\ UNCHANGED <<uses, pc, ttl>>

Next ==
    \/ \E r \in Requests :
          \/ Check(r) \/ Verify(r) \/ Record(r) \/ Expire(r) \/ Clear(r)
          \/ Decode(r) \/ Ask(r) \/ Revoke(r)
          \/ Leave(r)
    \/ Tick

Spec == Init /\ [][Next]_vars

(* Time passes, and Redis carries out an EXPIRE it has been sent. *)
FairSpec == Spec /\ WF_vars(Tick) /\ \A r \in Requests : WF_vars(Expire(r))

-----------------------------------------------------------------------------
(* The counter may run past the threshold, because logins read it long     *)
(* before they increment it, but only by the logins that were let in       *)
(* before the last failure allowed: with n concurrent ones, n - 1.         *)
OverrunBounded == count =< MaxFailed - 1 + Cardinality(Requests)

(* The counter was incremented and nobody is left to give it an expiry. *)
Stranded == count > 0 /\ countTTL = 0 /\ \A r \in Requests : pc[r] # "expire"

(* README:54, "automatic unlock": a locked account is unlocked by itself.  *)
(* Logins under way when it was locked may start the countdown again, but  *)
(* nobody else can.  One case is excepted, in which it stays locked for    *)
(* ever: every login that the counter has counted was lost between its     *)
(* INCR and its EXPIRE.                                                    *)
LockEnds == Locked ~> (~Locked \/ Stranded)

(* README:54, "automatic unlock", without the exception: false, since      *)
(* INCR and EXPIRE are two commands, and nothing removes a counter of      *)
(* which every login was cut short between the two.                        *)
UnlocksItself == Locked ~> ~Locked

(* A revoked token is on the blacklist until its last second, whichever of *)
(* several revocations wrote the entry last and however long before it had *)
(* computed its TTL.  The TTL is rounded down, while the token is accepted *)
(* to the end of the second `exp`: more than this is not true.             *)
RevocationHolds == uses > 0 => entry > life - SecondTicks

(* A refresh token can be used again by requests that pass the blacklist   *)
(* before the first of them writes to it: up to its last second the token  *)
(* grants new tokens at most once for each request that presents it at the *)
(* same time, and whoever comes when one of them has finished is refused.  *)
UsesBounded == life >= SecondTicks => uses =< Cardinality(Requests)

(* auth.py:107, "Revoke the old refresh token so it cannot be reused       *)
(* (rotation)", up to the last second, where the TTL is rounded.  False,   *)
(* since two requests pass the blacklist before either writes to it.       *)
RefreshedOnce == life >= SecondTicks => uses =< 1
=============================================================================
