------------------------------ MODULE KeyService ------------------------------
(***************************************************************************)
(* One user's stored keys for one provider: the table api_keys, the cache  *)
(* of decrypted keys that every worker process keeps for CacheTTL (key_    *)
(* service.py:22-24), and the requests that add, delete and use keys.      *)
(*                                                                         *)
(* A request runs in one database transaction, committed when its handler  *)
(* has returned (session.py:26-33), at isolation READ COMMITTED.  A step   *)
(* is what a request does between two awaits.  The database answers a      *)
(* query in one step and the request takes the answer up in another, for   *)
(* other requests may run in between.                                      *)
(***************************************************************************)
EXTENDS Integers, FiniteSets

CONSTANTS
    Workers,
    Requests,   \* slots for concurrent requests; a slot is used again
    Keys,       \* the rows the user may ever store; each is stored once
    CacheTTL,   \* life of a cache entry, in clock ticks
    None

ASSUME KeyServiceAssumption ==
    /\ CacheTTL \in Nat \ {0}
    /\ None \notin Keys \union Workers

VARIABLES
    status,   \* status[k]: "unused", "pending" (inserted, not committed),
              \*   "stored", "deleting" (deleted, not committed) or "gone"
    cache,    \* cache[w]:  the key worker w has decrypted and cached, or None
    left,     \* left[w]:   ticks before that entry expires
    pc,       \* pc[r]:     where the request is
    home,     \* home[r]:   the worker that runs it
    key       \* key[r]:    the key it adds, deletes, has read or returns

database == <<status>>
caches   == <<cache, left>>
request  == <<pc, home, key>>
vars     == <<status, cache, left, pc, home, key>>

TypeOK ==
    /\ status \in [Keys -> {"unused", "pending", "stored", "deleting", "gone"}]
    /\ cache \in [Workers -> Keys \union {None}]
    /\ left \in [Workers -> 0 .. CacheTTL]
    /\ pc \in [Requests -> {"idle", "adding", "delete", "deleting",
                            "query", "read", "served", "failed"}]
    /\ home \in [Requests -> Workers \union {None}]
    /\ key \in [Requests -> Keys \union {None}]
    /\ \A r \in Requests :
          /\ pc[r] # "idle" => home[r] \in Workers
          /\ pc[r] \notin {"idle", "query", "failed"} => key[r] \in Keys

Init ==
    /\ status = [k \in Keys |-> "unused"]
    /\ cache = [w \in Workers |-> None]
    /\ left = [w \in Workers |-> 0]
    /\ pc = [r \in Requests |-> "idle"]
    /\ home = [r \in Requests |-> None]
    /\ key = [r \in Requests |-> None]

-----------------------------------------------------------------------------
(* The request goes on at `where`, running at w with key k in hand. *)
At(r, where, w, k) ==
    /\ pc' = [pc EXCEPT ![r] = where]
    /\ home' = [home EXCEPT ![r] = w]
    /\ key' = [key EXCEPT ![r] = k]

Done(r) == At(r, "idle", None, None)

Set(k, s) == status' = [status EXCEPT ![k] = s]

Evict(w) ==
    /\ cache' = [cache EXCEPT ![w] = None]
    /\ left' = [left EXCEPT ![w] = 0]

(* Mutant of Visible: uncommitted rows are read. *)
VisibleUncommitted == {k \in Keys : status[k] \in {"pending", "stored", "deleting"}}

(* What other transactions see. *)
Visible == {k \in Keys : status[k] \in {"stored", "deleting"}}

-----------------------------------------------------------------------------
(* Mutant of Add: the new key is cached in place of the old one. *)
AddCaches(r, w, k) ==
    /\ pc[r] = "idle"
    /\ status[k] = "unused"
    /\ Set(k, "pending")
    /\ cache' = [cache EXCEPT ![w] = k]
    /\ left' = [left EXCEPT ![w] = CacheTTL]
    /\ At(r, "adding", w, k)

(* POST /keys: insert and flush, then drop this worker's cached key. *)
Add(r, w, k) ==
    /\ pc[r] = "idle"
    /\ status[k] = "unused"
    /\ Set(k, "pending")
    /\ Evict(w)
    /\ At(r, "adding", w, k)

(* The handler has returned and get_session commits. *)
CommitAdd(r) ==
    /\ pc[r] = "adding"
    /\ Set(key[r], "stored")
    /\ Done(r)
    /\ UNCHANGED caches

(* DELETE /keys/{id}: the cache first, then the row. *)
Delete(r, w, k) ==
    /\ pc[r] = "idle"
    /\ status[k] = "stored"
    /\ Evict(w)
    /\ At(r, "delete", w, k)
    /\ UNCHANGED status

(* A row already deleted by another request is not found: 404, rolled back. *)
DeleteRow(r) ==
    /\ pc[r] = "delete"
    /\ \/ status[key[r]] = "stored" /\ Set(key[r], "deleting")
          /\ At(r, "deleting", home[r], key[r])
       \/ status[key[r]] = "gone" /\ Done(r) /\ UNCHANGED status
    /\ UNCHANGED caches

CommitDelete(r) ==
    /\ pc[r] = "deleting"
    /\ Set(key[r], "gone")
    /\ Done(r)
    /\ UNCHANGED caches

(* The commit fails, or the connection is lost before it. *)
Rollback(r) ==
    /\ \/ pc[r] = "adding" /\ Set(key[r], "unused")
       \/ pc[r] = "deleting" /\ Set(key[r], "stored")
    /\ Done(r)
    /\ UNCHANGED caches

(* Mutant of Get: a hit renews the entry. *)
GetRenews(r, w) ==
    /\ pc[r] = "idle"
    /\ IF cache[w] # None
         THEN At(r, "served", w, cache[w]) /\ left' = [left EXCEPT ![w] = CacheTTL]
         ELSE At(r, "query", w, None) /\ UNCHANGED left
    /\ UNCHANGED <<status, cache>>

(* get_decrypted_key: the cache answers, or the database is asked. *)
Get(r, w) ==
    /\ pc[r] = "idle"
    /\ IF cache[w] # None
         THEN At(r, "served", w, cache[w])
         ELSE At(r, "query", w, None)
    /\ UNCHANGED <<status, caches>>

(* scalar_one_or_none: no row, one, or more than one, which raises. *)
Query(r) ==
    /\ pc[r] = "query"
    /\ \/ \E k \in Keys : Visible = {k} /\ At(r, "read", home[r], k)
       \/ Cardinality(Visible) # 1 /\ At(r, "failed", home[r], None)
    /\ UNCHANGED <<status, caches>>

Fill(r) ==
    /\ pc[r] = "read"
    /\ cache' = [cache EXCEPT ![home[r]] = key[r]]
    /\ left' = [left EXCEPT ![home[r]] = CacheTTL]
    /\ At(r, "served", home[r], key[r])
    /\ UNCHANGED status

(* The key has been used, or its absence reported. *)
Leave(r) ==
    /\ pc[r] \in {"served", "failed"}
    /\ Done(r)
    /\ UNCHANGED <<status, caches>>

-----------------------------------------------------------------------------
(* Entries age and expire; reading one does not renew it. *)
Tick ==
    /\ left' = [w \in Workers |-> IF left[w] > 0 THEN left[w] - 1 ELSE 0]
    /\ cache' = [w \in Workers |-> IF left[w] > 1 THEN cache[w] ELSE None]
    /\ UNCHANGED <<status, request>>

(* The cache drops an entry for want of space. *)
Overflow(w) ==
    /\ cache[w] # None
    /\ Evict(w)
    /\ UNCHANGED <<status, request>>

(* Gunicorn replaces a worker: its cache is lost, and its requests with    *)
(* their transactions.                                                     *)
Restart(w) ==
    /\ Evict(w)
    /\ LET lost == {r \in Requests : home[r] = w}
           undone(s) == {key[r] : r \in {q \in lost : pc[q] = s}}
       IN  /\ status' = [k \in Keys |->
                CASE k \in undone("adding")   -> "unused"
                  [] k \in undone("deleting") -> "stored"
                  [] OTHER                    -> status[k]]
           /\ pc' = [r \in Requests |-> IF r \in lost THEN "idle" ELSE pc[r]]
           /\ home' = [r \in Requests |-> IF r \in lost THEN None ELSE home[r]]
           /\ key' = [r \in Requests |-> IF r \in lost THEN None ELSE key[r]]

Next ==
    \/ \E r \in Requests :
          \/ \E w \in Workers, k \in Keys : Add(r, w, k) \/ Delete(r, w, k)
          \/ \E w \in Workers : Get(r, w)
          \/ CommitAdd(r)
          \/ DeleteRow(r)
          \/ CommitDelete(r)
          \/ Rollback(r)
          \/ Query(r)
          \/ Fill(r)
          \/ Leave(r)
    \/ \E w \in Workers : Overflow(w) \/ Restart(w)
    \/ Tick

Spec == Init /\ [][Next]_vars

(* A lookup under way is finished, and time passes. *)
FairSpec ==
    /\ Spec
    /\ \A r \in Requests : WF_vars(Fill(r)) /\ WF_vars(Leave(r))
    /\ WF_vars(Tick)

-----------------------------------------------------------------------------
(* A key is only ever cached or used if its row was committed: a key whose *)
(* insertion is rolled back was never available, though it is visible to   *)
(* the transaction that inserted it and a lookup may run at any moment.    *)
OnlyCommittedKeys ==
    /\ \A w \in Workers :
          cache[w] # None => status[cache[w]] \in {"stored", "deleting", "gone"}
    /\ \A r \in Requests :
          pc[r] \in {"read", "served"} =>
              status[key[r]] \in {"stored", "deleting", "gone"}

(* The keys that worker w has cached, or that a request there has in hand. *)
KnownTo(w) ==
    {k \in Keys :
        \/ cache[w] = k
        \/ \E r \in Requests :
              home[r] = w /\ pc[r] \in {"read", "served"} /\ key[r] = k}

Remembered(k) == \E w \in Workers : k \in KnownTo(w)

(* A deleted key is forgotten for good by every worker, in the end: no     *)
(* lookup in flight when it was deleted can keep it in the caches, and     *)
(* using a cached key does not prolong its stay.                           *)
DeletedKeysAreForgotten ==
    \A k \in Keys : status[k] = "gone" ~> [](~Remembered(k))

-----------------------------------------------------------------------------
Promise == INSTANCE KeyStore
              WITH stored <- Visible, dropped <- {k \in Keys : status[k] = "gone"},
                   known <- [w \in Workers |-> KnownTo(w)]

(* What the workers know of the keys only ever grows by a key that the     *)
(* user has stored, and by no other of his: not by one whose insertion may *)
(* yet be rolled back, and never again by one that is deleted, though a    *)
(* lookup that has read its row may fill the cache later.                  *)
KeepsKeyStore == Promise!Spec
==============================================================================
