---------------------------- MODULE CallContract ----------------------------
(***************************************************************************)
(* What with_retry promises the caller of an adapter method, with nothing  *)
(* said of breakers, workers or time: each call is answered at most once,  *)
(* costs the provider at most MaxSends requests, and its answer tells the  *)
(* caller how many were spent: none if the provider was unavailable, all   *)
(* of them if the call was given up as a transient failure.                *)
(***************************************************************************)
EXTENDS Integers

CONSTANTS Calls, MaxSends

VARIABLES
    sends,   \* sends[c]:  requests made so far on behalf of call c
    answer   \* answer[c]: "none" until the caller is answered

vars == <<sends, answer>>

Init ==
    /\ sends = [c \in Calls |-> 0]
    /\ answer = [c \in Calls |-> "none"]

Send(c) ==
    /\ answer[c] = "none"
    /\ sends[c] < MaxSends
    /\ sends' = [sends EXCEPT ![c] = @ + 1]
    /\ UNCHANGED answer

Refuse(c) ==
    /\ answer[c] = "none"
    /\ sends[c] = 0
    /\ answer' = [answer EXCEPT ![c] = "unavailable"]
    /\ UNCHANGED sends

(* The provider's own verdict, on the last request sent. *)
Settle(c) ==
    /\ answer[c] = "none"
    /\ sends[c] > 0
    /\ \E a \in {"ok", "rejected"} : answer' = [answer EXCEPT ![c] = a]
    /\ UNCHANGED sends

GiveUp(c) ==
    /\ answer[c] = "none"
    /\ sends[c] = MaxSends
    /\ answer' = [answer EXCEPT ![c] = "exhausted"]
    /\ UNCHANGED sends

(* Calls may be cut short together, when the process that ran them dies. *)
CutShort(S) ==
    /\ \A c \in S : answer[c] = "none" /\ sends[c] > 0
    /\ answer' = [c \in Calls |-> IF c \in S THEN "cancelled" ELSE answer[c]]
    /\ UNCHANGED sends

NewCall(c) ==
    /\ answer[c] # "none"
    /\ sends' = [sends EXCEPT ![c] = 0]
    /\ answer' = [answer EXCEPT ![c] = "none"]

Next ==
    \/ \E c \in Calls : Send(c) \/ Refuse(c) \/ Settle(c) \/ GiveUp(c) \/ NewCall(c)
    \/ \E S \in SUBSET Calls : CutShort(S)

Spec == Init /\ [][Next]_vars
=============================================================================
