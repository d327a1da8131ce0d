------------------------------ MODULE EventStream ------------------------------
(***************************************************************************)
(* What the client of a chat stream is promised, whoever the provider is:  *)
(* pieces of the answer, then one end marker and nothing more; and before  *)
(* the marker an error, if and only if the provider's answer broke.  A     *)
(* client that leaves is told no more.                                     *)
(***************************************************************************)
EXTENDS Integers, Sequences

CONSTANTS Streams, Chunks, Error, EndMarker

VARIABLES
    told,     \* told[s]:   the events sent to the client of stream s
    broken,   \* broken[s]: the provider's answer has broken
    over      \* over[s]:   "open", "ended" or "cut"

vars == <<told, broken, over>>

Init ==
    /\ told = [s \in Streams |-> <<>>]
    /\ broken = [s \in Streams |-> FALSE]
    /\ over = [s \in Streams |-> "open"]

(* The error has been told of. *)
Owned(s) == told[s] # <<>> /\ told[s][Len(told[s])] = Error

Tells(s, e) == told' = [told EXCEPT ![s] = Append(@, e)]

Say(s) ==
    /\ over[s] = "open" /\ ~broken[s]
    /\ \E c \in Chunks : Tells(s, c)
    /\ UNCHANGED <<broken, over>>

Break(s) ==
    /\ over[s] = "open" /\ ~broken[s]
    /\ broken' = [broken EXCEPT ![s] = TRUE]
    /\ UNCHANGED <<told, over>>

Own(s) ==
    /\ over[s] = "open" /\ broken[s] /\ ~Owned(s)
    /\ Tells(s, Error)
    /\ UNCHANGED <<broken, over>>

End(s) ==
    /\ over[s] = "open"
    /\ broken[s] <=> Owned(s)
    /\ Tells(s, EndMarker)
    /\ over' = [over EXCEPT ![s] = "ended"]
    /\ UNCHANGED broken

Cut(s) ==
    /\ over[s] = "open"
    /\ over' = [over EXCEPT ![s] = "cut"]
    /\ UNCHANGED <<told, broken>>

Renew(s) ==
    /\ over[s] # "open"
    /\ told' = [told EXCEPT ![s] = <<>>]
    /\ broken' = [broken EXCEPT ![s] = FALSE]
    /\ over' = [over EXCEPT ![s] = "open"]

Next == \E s \in Streams : Say(s) \/ Break(s) \/ Own(s) \/ End(s) \/ Cut(s) \/ Renew(s)

Spec == Init /\ [][Next]_vars
=============================================================================
