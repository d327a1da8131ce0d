-------------------------------- MODULE KeyStore --------------------------------
(***************************************************************************)
(* What the rest of the gateway is promised of one user's keys for one     *)
(* provider, with nothing said of transactions, requests or the age of a   *)
(* cache entry: a worker may go on using a key that has been deleted, but  *)
(* it only learns a key while that is stored, and is the user's only one.  *)
(***************************************************************************)
EXTENDS Integers

CONSTANTS Workers, Keys

VARIABLES
    stored,   \* the keys that the user has stored
    dropped,  \* those deleted
    known     \* known[w]: the keys that a lookup at worker w may return

vars == <<stored, dropped, known>>

Init ==
    /\ stored = {}
    /\ dropped = {}
    /\ known = [w \in Workers |-> {}]

Store(k) ==
    /\ k \notin stored \union dropped
    /\ stored' = stored \union {k}
    /\ UNCHANGED <<dropped, known>>

Drop(k) ==
    /\ k \in stored
    /\ stored' = stored \ {k}
    /\ dropped' = dropped \union {k}
    /\ UNCHANGED known

Learn(w, k) ==
    /\ stored = {k}
    /\ known' = [known EXCEPT ![w] = @ \union {k}]
    /\ UNCHANGED <<stored, dropped>>

(* Entries expire, are replaced or dropped, at several workers at once. *)
Forget ==
    /\ known' \in [Workers -> SUBSET Keys]
    /\ \A w \in Workers : known'[w] \subseteq known[w]
    /\ UNCHANGED <<stored, dropped>>

Next ==
    \/ \E k \in Keys : Store(k) \/ Drop(k)
    \/ \E w \in Workers, k \in Keys : Learn(w, k)
    \/ Forget

Spec == Init /\ [][Next]_vars

-----------------------------------------------------------------------------
(* A worker that has forgotten a deleted key does not come to know it      *)
(* again, and a deletion is for good.                                      *)
StaysForgotten ==
    \A k \in dropped :
        /\ k \in dropped' \ stored'
        /\ \A w \in Workers : k \notin known[w] => k \notin known'[w]

Forgotten == [][StaysForgotten]_vars
=============================================================================
