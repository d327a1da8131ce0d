-------------------------------- MODULE UserKeys --------------------------------
(***************************************************************************)
(* The keys that a user has stored, with the cache of decrypted keys of    *)
(* the worker that serves the request.                                     *)
(*                                                                         *)
(* The user's key requests run at any worker; their inner steps are        *)
(* KeyService's, here each takes effect at once.                           *)
(***************************************************************************)
EXTENDS Catalogue

CONSTANT MaxKeys    \* bound of the model: keys the user stores for one provider

ASSUME KeysAssumption == MaxKeys \in Nat \ {0}

VARIABLES
    keys,     \* keys[p]:  how many valid keys of the user for p the database has
    cached    \* providers whose decrypted key this worker has cached

keystore == <<keys, cached>>

KeysTypeOK ==
    /\ keys \in [Providers -> 0 .. MaxKeys]
    /\ cached \subseteq Providers

KeysInit ==
    /\ keys \in [Providers -> 0 .. 1]
    /\ cached = {}

-----------------------------------------------------------------------------
(* get_user_providers *)
Held == {p \in Providers : keys[p] > 0}

(* get_decrypted_key returns the cached key of p, or the stored one, which *)
(* it caches ...                                                           *)
CachedKey(p) == p \in cached /\ UNCHANGED keystore

StoredKey(p) ==
    /\ p \notin cached
    /\ keys[p] = 1
    /\ cached' = cached \union {p}
    /\ UNCHANGED keys

(* ... or raises: the key is gone (ProviderKeyMissing), or the query for   *)
(* one key finds two (MultipleResultsFound).                               *)
KeyMissing(p)   == p \notin cached /\ keys[p] = 0 /\ UNCHANGED keystore
KeyAmbiguous(p) == p \notin cached /\ keys[p] > 1 /\ UNCHANGED keystore

-----------------------------------------------------------------------------
(* The user's key requests, at this worker (`here`) or another. *)
AddKey(p, here) ==
    /\ keys[p] < MaxKeys
    /\ keys' = [keys EXCEPT ![p] = @ + 1]
    /\ cached' = IF here THEN cached \ {p} ELSE cached

DeleteKey(p, here) ==
    /\ keys[p] > 0
    /\ keys' = [keys EXCEPT ![p] = @ - 1]
    /\ cached' = IF here THEN {} ELSE cached

CacheExpires(p) ==
    /\ p \in cached
    /\ cached' = cached \ {p}
    /\ UNCHANGED keys

KeysNext ==
    \E p \in Providers :
        \/ \E here \in BOOLEAN : AddKey(p, here) \/ DeleteKey(p, here)
        \/ CacheExpires(p)
=============================================================================
