-------------------------- MODULE KeyService_proofs --------------------------
(***************************************************************************)
(* Proofs about KeyService, for any number of workers, requests and keys.  *)
(* That only committed keys are cached or used needs OneWriterPerRow: if a *)
(* row under insertion could be committed by one request and rolled back   *)
(* by another, a key already cached would turn out never to have existed.  *)
(* The same invariant shows that KeyService implements KeyStore.           *)
(***************************************************************************)
EXTENDS KeyService, TLAPS

(* A row being inserted or deleted belongs to one request, and its state   *)
(* says so.  (DeleteRow waits for the database's lock on the row.)         *)
OneWriterPerRow ==
    /\ \A r \in Requests :
          /\ pc[r] = "adding" => status[key[r]] = "pending"
          /\ pc[r] = "deleting" => status[key[r]] = "deleting"
    /\ \A k \in Keys :
          status[k] \in {"pending", "deleting"} =>
              \E r \in Requests : pc[r] \in {"adding", "deleting"} /\ key[r] = k
    /\ \A q, r \in Requests :
          /\ {pc[q], pc[r]} \subseteq {"adding", "deleting"}
          /\ key[q] = key[r]
          => q = r

Inv == TypeOK /\ OnlyCommittedKeys /\ OneWriterPerRow

(* Every step keeps the inductive invariant; each conjunct needs only the  *)
(* step's own assignments and the invariant before it.                     *)
LEMMA InvStep == Inv /\ [Next]_vars => Inv'
<1> SUFFICES ASSUME Inv, [Next]_vars
             PROVE  Inv'
  OBVIOUS
<1> USE KeyServiceAssumption
    DEF Inv, TypeOK, OnlyCommittedKeys, OneWriterPerRow, At, Done, Set, caches
<1>1. ASSUME NEW r \in Requests, NEW w \in Workers, NEW k \in Keys, Add(r, w, k)
      PROVE  Inv'
  <2>1. TypeOK'
    BY <1>1 DEF Add, Evict
  <2>2. OnlyCommittedKeys'
    BY <1>1 DEF Add, Evict
  <2>3. OneWriterPerRow'
    BY <1>1 DEF Add, Evict
  <2> QED
    BY <2>1, <2>2, <2>3
<1>2. ASSUME NEW r \in Requests, CommitAdd(r)
      PROVE  Inv'
  <2>1. TypeOK'
    BY <1>2 DEF CommitAdd
  <2>2. OnlyCommittedKeys'
    BY <1>2 DEF CommitAdd
  <2>3. OneWriterPerRow'
    BY <1>2 DEF CommitAdd
  <2> QED
    BY <2>1, <2>2, <2>3
<1>3. ASSUME NEW r \in Requests, NEW w \in Workers, NEW k \in Keys, Delete(r, w, k)
      PROVE  Inv'
  <2>1. TypeOK'
    BY <1>3 DEF Delete, Evict
  <2>2. OnlyCommittedKeys'
    BY <1>3 DEF Delete, Evict
  <2>3. OneWriterPerRow'
    BY <1>3 DEF Delete, Evict
  <2> QED
    BY <2>1, <2>2, <2>3
<1>4. ASSUME NEW r \in Requests, DeleteRow(r)
      PROVE  Inv'
  <2>1. TypeOK'
    BY <1>4 DEF DeleteRow
  <2>2. OnlyCommittedKeys'
    BY <1>4 DEF DeleteRow
  <2>3. OneWriterPerRow'
    BY <1>4 DEF DeleteRow
  <2> QED
    BY <2>1, <2>2, <2>3
<1>5. ASSUME NEW r \in Requests, CommitDelete(r)
      PROVE  Inv'
  <2>1. TypeOK'
    BY <1>5 DEF CommitDelete
  <2>2. OnlyCommittedKeys'
    BY <1>5 DEF CommitDelete
  <2>3. OneWriterPerRow'
    BY <1>5 DEF CommitDelete
  <2> QED
    BY <2>1, <2>2, <2>3
<1>6. ASSUME NEW r \in Requests, Rollback(r)
      PROVE  Inv'
  <2>1. TypeOK'
    BY <1>6 DEF Rollback
  <2>2. OnlyCommittedKeys'
    BY <1>6 DEF Rollback
  <2>3. OneWriterPerRow'
    BY <1>6 DEF Rollback
  <2> QED
    BY <2>1, <2>2, <2>3
<1>7. ASSUME NEW r \in Requests, NEW w \in Workers, Get(r, w)
      PROVE  Inv'
  <2>1. TypeOK'
    BY <1>7 DEF Get
  <2>2. OnlyCommittedKeys'
    BY <1>7 DEF Get
  <2>3. OneWriterPerRow'
    BY <1>7 DEF Get
  <2> QED
    BY <2>1, <2>2, <2>3
<1>8. ASSUME NEW r \in Requests, Query(r)
      PROVE  Inv'
  <2>1. TypeOK'
    BY <1>8 DEF Query, Visible
  <2>2. OnlyCommittedKeys'
    BY <1>8 DEF Query, Visible
  <2>3. OneWriterPerRow'
    BY <1>8 DEF Query, Visible
  <2> QED
    BY <2>1, <2>2, <2>3
<1>9. ASSUME NEW r \in Requests, Fill(r)
      PROVE  Inv'
  <2>1. TypeOK'
    BY <1>9 DEF Fill
  <2>2. OnlyCommittedKeys'
    BY <1>9 DEF Fill
  <2>3. OneWriterPerRow'
    BY <1>9 DEF Fill
  <2> QED
    BY <2>1, <2>2, <2>3
<1>10. ASSUME NEW r \in Requests, Leave(r)
      PROVE  Inv'
  <2>1. TypeOK'
    BY <1>10 DEF Leave
  <2>2. OnlyCommittedKeys'
    BY <1>10 DEF Leave
  <2>3. OneWriterPerRow'
    BY <1>10 DEF Leave
  <2> QED
    BY <2>1, <2>2, <2>3
<1>11. ASSUME Tick
      PROVE  Inv'
  <2>1. TypeOK'
    BY <1>11 DEF Tick, request
  <2>2. OnlyCommittedKeys'
    BY <1>11 DEF Tick, request
  <2>3. OneWriterPerRow'
    BY <1>11 DEF Tick, request
  <2> QED
    BY <2>1, <2>2, <2>3
<1>12. ASSUME NEW w \in Workers, Overflow(w)
      PROVE  Inv'
  <2>1. TypeOK'
    BY <1>12 DEF Overflow, Evict, request
  <2>2. OnlyCommittedKeys'
    BY <1>12 DEF Overflow, Evict, request
  <2>3. OneWriterPerRow'
    BY <1>12 DEF Overflow, Evict, request
  <2> QED
    BY <2>1, <2>2, <2>3
<1>13. ASSUME NEW w \in Workers, Restart(w)
      PROVE  Inv'
  <2>1. TypeOK'
    BY <1>13 DEF Restart, Evict
  <2>2. OnlyCommittedKeys'
    BY <1>13 DEF Restart, Evict
  <2>3. OneWriterPerRow'
    BY <1>13 DEF Restart, Evict
  <2> QED
    BY <2>1, <2>2, <2>3
<1>14. ASSUME UNCHANGED vars
      PROVE  Inv'
  <2>1. TypeOK'
    BY <1>14 DEF vars
  <2>2. OnlyCommittedKeys'
    BY <1>14 DEF vars
  <2>3. OneWriterPerRow'
    BY <1>14 DEF vars
  <2> QED
    BY <2>1, <2>2, <2>3
<1> QED
  BY <1>1, <1>2, <1>3, <1>4, <1>5, <1>6, <1>7, <1>8, <1>9, <1>10, <1>11, <1>12, <1>13, <1>14 DEF Next

LEMMA InvAlways == Spec => []Inv
<1>1. Init => Inv
  BY KeyServiceAssumption DEF Init, Inv, TypeOK, OnlyCommittedKeys, OneWriterPerRow
<1> QED
  BY <1>1, InvStep, PTL DEF Spec

(* The variables stay in their types, and a request that is under way has  *)
(* the worker and the key its next step uses.                              *)
THEOREM TypeCorrect == Spec => []TypeOK
<1>1. Inv => TypeOK
  BY DEF Inv
<1> QED
  BY <1>1, InvAlways, PTL

(* No worker ever caches, and no request ever uses, a key whose row has    *)
(* not been committed (key_service.py:65-84, session.py:26-33).            *)
THEOREM CachedKeysWereCommitted == Spec => []OnlyCommittedKeys
<1>1. Inv => OnlyCommittedKeys
  BY DEF Inv
<1> QED
  BY <1>1, InvAlways, PTL

-----------------------------------------------------------------------------
(* The keys that were deleted. *)
Gone == {k \in Keys : status[k] = "gone"}

(* A step that changes no committed row and teaches no worker a key. *)
LEMMA ForgetStep ==
    ASSUME Visible' = Visible, Gone' = Gone,
           \A w \in Workers : KnownTo(w)' \subseteq KnownTo(w)
    PROVE  Promise!Forget
<1>1. [w \in Workers |-> KnownTo(w)]' \in [Workers -> SUBSET Keys]
  BY DEF KnownTo
<1> QED
  BY <1>1 DEF Promise!Forget, Gone

(* Every step of KeyService is one of KeyStore: only a commit stores or     *)
(* drops a key, only the query of a lookup learns one.                     *)
LEMMA StoreStep ==
    ASSUME Inv, [Next]_vars
    PROVE  [Promise!Next]_(Promise!vars)
<1> USE KeyServiceAssumption DEF Inv, TypeOK, At, Done, Set, caches
<1>1. ASSUME NEW r \in Requests, NEW w \in Workers, NEW k \in Keys, Add(r, w, k)
      PROVE  Promise!Forget
  <2>1. Visible' = Visible /\ Gone' = Gone
    BY <1>1 DEF Add, Visible, Gone
  <2>2. \A v \in Workers : KnownTo(v)' \subseteq KnownTo(v)
    BY <1>1 DEF Add, Evict, KnownTo
  <2> QED
    BY <2>1, <2>2, ForgetStep
<1>2. ASSUME NEW r \in Requests, NEW k \in Keys, k = key[r], CommitAdd(r)
      PROVE  Promise!Store(k)
  <2>1. status[k] = "pending"
    BY <1>2 DEF CommitAdd, OneWriterPerRow
  <2>2. Visible' = Visible \union {k} /\ Gone' = Gone
    BY <1>2, <2>1 DEF CommitAdd, Visible, Gone
  <2>3. k \notin Visible \union Gone
    BY <2>1 DEF Visible, Gone
  <2>4. \A v \in Workers : KnownTo(v)' = KnownTo(v)
    BY <1>2 DEF CommitAdd, KnownTo
  <2> QED
    BY <2>2, <2>3, <2>4 DEF Promise!Store, Gone
<1>3. ASSUME NEW r \in Requests, NEW w \in Workers, NEW k \in Keys, Delete(r, w, k)
      PROVE  Promise!Forget
  <2>1. Visible' = Visible /\ Gone' = Gone
    BY <1>3 DEF Delete, Visible, Gone
  <2>2. \A v \in Workers : KnownTo(v)' \subseteq KnownTo(v)
    BY <1>3 DEF Delete, Evict, KnownTo
  <2> QED
    BY <2>1, <2>2, ForgetStep
<1>4. ASSUME NEW r \in Requests, DeleteRow(r)
      PROVE  Promise!Forget
  <2>1. Visible' = Visible /\ Gone' = Gone
    BY <1>4 DEF DeleteRow, Visible, Gone
  <2>2. \A v \in Workers : KnownTo(v)' \subseteq KnownTo(v)
    BY <1>4 DEF DeleteRow, KnownTo
  <2> QED
    BY <2>1, <2>2, ForgetStep
<1>5. ASSUME NEW r \in Requests, NEW k \in Keys, k = key[r], CommitDelete(r)
      PROVE  Promise!Drop(k)
  <2>1. status[k] = "deleting"
    BY <1>5 DEF CommitDelete, OneWriterPerRow
  <2>2. Visible' = Visible \ {k} /\ Gone' = Gone \union {k}
    BY <1>5, <2>1 DEF CommitDelete, Visible, Gone
  <2>3. k \in Visible
    BY <2>1 DEF Visible
  <2>4. \A v \in Workers : KnownTo(v)' = KnownTo(v)
    BY <1>5 DEF CommitDelete, KnownTo
  <2> QED
    BY <2>2, <2>3, <2>4 DEF Promise!Drop, Gone
<1>6. ASSUME NEW r \in Requests, Rollback(r)
      PROVE  Promise!Forget
  <2>1. /\ pc[r] = "adding" => status[key[r]] = "pending"
        /\ pc[r] = "deleting" => status[key[r]] = "deleting"
        /\ key[r] \in Keys
    BY <1>6 DEF Rollback, OneWriterPerRow
  <2>2. Visible' = Visible /\ Gone' = Gone
    BY <1>6, <2>1 DEF Rollback, Visible, Gone
  <2>3. \A v \in Workers : KnownTo(v)' \subseteq KnownTo(v)
    BY <1>6 DEF Rollback, KnownTo
  <2> QED
    BY <2>2, <2>3, ForgetStep
<1>7. ASSUME NEW r \in Requests, NEW w \in Workers, Get(r, w)
      PROVE  Promise!Forget
  <2>1. Visible' = Visible /\ Gone' = Gone
    BY <1>7 DEF Get, Visible, Gone
  <2>2. \A v \in Workers : KnownTo(v)' \subseteq KnownTo(v)
    BY <1>7 DEF Get, KnownTo
  <2> QED
    BY <2>1, <2>2, ForgetStep
<1>8. ASSUME NEW r \in Requests, Query(r)
      PROVE  Promise!Forget \/ \E w \in Workers, k \in Keys : Promise!Learn(w, k)
  <2>1. Visible' = Visible /\ Gone' = Gone
    BY <1>8 DEF Query, Visible, Gone
  <2>2. CASE \E k \in Keys : Visible = {k} /\ At(r, "read", home[r], k)
    <3>1. PICK k \in Keys : Visible = {k} /\ At(r, "read", home[r], k)
      BY <2>2
    <3>2. home[r] \in Workers /\ pc[r] = "query" /\ UNCHANGED cache
      BY <1>8 DEF Query
    <3>3. \A v \in Workers : KnownTo(v)' = IF v = home[r] THEN KnownTo(v) \union {k} ELSE KnownTo(v)
      BY <3>1, <3>2 DEF KnownTo
    <3>4. [w \in Workers |-> KnownTo(w)]' =
             [[w \in Workers |-> KnownTo(w)] EXCEPT ![home[r]] = @ \union {k}]
      BY <3>2, <3>3
    <3>5. Promise!Learn(home[r], k)
      BY <2>1, <3>1, <3>4 DEF Promise!Learn, Gone
    <3> QED
      BY <3>2, <3>5
  <2>3. CASE At(r, "failed", home[r], None)
    <3>1. \A v \in Workers : KnownTo(v)' \subseteq KnownTo(v)
      BY <1>8, <2>3 DEF Query, KnownTo
    <3> QED
      BY <2>1, <3>1, ForgetStep
  <2> QED
    BY <1>8, <2>2, <2>3 DEF Query
<1>9. ASSUME NEW r \in Requests, Fill(r)
      PROVE  Promise!Forget
  <2>1. Visible' = Visible /\ Gone' = Gone
    BY <1>9 DEF Fill, Visible, Gone
  <2>2. \A v \in Workers : KnownTo(v)' \subseteq KnownTo(v)
    BY <1>9 DEF Fill, KnownTo
  <2> QED
    BY <2>1, <2>2, ForgetStep
<1>10. ASSUME NEW r \in Requests, Leave(r)
      PROVE  Promise!Forget
  <2>1. Visible' = Visible /\ Gone' = Gone
    BY <1>10 DEF Leave, Visible, Gone
  <2>2. \A v \in Workers : KnownTo(v)' \subseteq KnownTo(v)
    BY <1>10 DEF Leave, KnownTo
  <2> QED
    BY <2>1, <2>2, ForgetStep
<1>11. ASSUME Tick
      PROVE  Promise!Forget
  <2>1. Visible' = Visible /\ Gone' = Gone
    BY <1>11 DEF Tick, Visible, Gone
  <2>2. \A v \in Workers : KnownTo(v)' \subseteq KnownTo(v)
    BY <1>11 DEF Tick, KnownTo, request
  <2> QED
    BY <2>1, <2>2, ForgetStep
<1>12. ASSUME NEW w \in Workers, Overflow(w)
      PROVE  Promise!Forget
  <2>1. Visible' = Visible /\ Gone' = Gone
    BY <1>12 DEF Overflow, Visible, Gone
  <2>2. \A v \in Workers : KnownTo(v)' \subseteq KnownTo(v)
    BY <1>12 DEF Overflow, Evict, KnownTo, request
  <2> QED
    BY <2>1, <2>2, ForgetStep
<1>13. ASSUME NEW w \in Workers, Restart(w)
      PROVE  Promise!Forget
  <2>1. \A k \in Keys :
          \/ status'[k] = status[k]
          \/ (status[k] = "pending" /\ status'[k] = "unused")
          \/ (status[k] = "deleting" /\ status'[k] = "stored")
    <3> DEFINE lost == {r \in Requests : home[r] = w}
               undone(s) == {key[r] : r \in {q \in lost : pc[q] = s}}
               A == undone("adding")
               B == undone("deleting")
    <3> TAKE k \in Keys
    <3>1. status'[k] = CASE k \in A -> "unused" [] k \in B -> "stored" [] OTHER -> status[k]
      BY <1>13 DEF Restart
    <3>2. k \in A => status[k] = "pending"
      BY DEF OneWriterPerRow
    <3>3. k \in B => status[k] = "deleting"
      BY DEF OneWriterPerRow
    <3> HIDE DEF A, B, Inv, TypeOK
    <3>4. CASE k \in A
      <4>1. k \notin B
        BY <3>2, <3>3, <3>4
      <4>2. status'[k] = "unused"
        BY <3>1, <3>4, <4>1, Zenon
      <4> QED
        BY <3>2, <3>4, <4>2, Zenon
    <3>5. CASE k \notin A /\ k \in B
      BY <3>1, <3>3, <3>5, Zenon
    <3>6. CASE k \notin A /\ k \notin B
      <4>1. status'[k] = status[k]
        BY <3>1, <3>6, Zenon
      <4> QED
        BY <4>1, Zenon
    <3> QED
      BY <3>4, <3>5, <3>6, Zenon
  <2>2. Visible' = Visible /\ Gone' = Gone
    BY <2>1 DEF Visible, Gone
  <2>3. \A v \in Workers : KnownTo(v)' \subseteq KnownTo(v)
    BY <1>13 DEF Restart, Evict, KnownTo
  <2> QED
    BY <2>2, <2>3, ForgetStep
<1>14. ASSUME UNCHANGED vars
      PROVE  Promise!Forget
  <2>1. Visible' = Visible /\ Gone' = Gone
    BY <1>14 DEF vars, Visible, Gone
  <2>2. \A v \in Workers : KnownTo(v)' \subseteq KnownTo(v)
    BY <1>14 DEF vars, KnownTo
  <2> QED
    BY <2>1, <2>2, ForgetStep
<1>15. CASE \E r \in Requests : CommitAdd(r) \/ CommitDelete(r)
  <2>1. PICK r \in Requests : CommitAdd(r) \/ CommitDelete(r)
    BY <1>15
  <2>2. PICK k \in Keys : k = key[r]
    BY <2>1 DEF CommitAdd, CommitDelete
  <2>3. Promise!Store(k) \/ Promise!Drop(k)
    BY <1>2, <1>5, <2>1, <2>2, Zenon
  <2> QED
    BY <2>3, Zenon DEF Promise!Next
<1>16. CASE Promise!Forget
  BY <1>16, Zenon DEF Promise!Next
<1>17. CASE \E w \in Workers, k \in Keys : Promise!Learn(w, k)
  BY <1>17, Zenon DEF Promise!Next
<1> QED
  <2> HIDE DEF Inv, TypeOK, At, Done, Set, caches
  <2> QED
    BY <1>1, <1>3, <1>4, <1>6, <1>7, <1>8, <1>9, <1>10, <1>11, <1>12, <1>13, <1>14,
       <1>15, <1>16, <1>17, Zenon DEF Next

(* The key service with its transactions and per-worker caches is the      *)
(* store of keys that the router relies on (key_service.py:65-84).         *)
THEOREM KeyStoreKept == Spec => KeepsKeyStore
<1>1. Init => Promise!Init
  BY KeyServiceAssumption DEF Init, Promise!Init, Visible, KnownTo
<1> QED
  BY <1>1, InvAlways, StoreStep, PTL DEF Spec, KeepsKeyStore, Promise!Spec

(* A worker that no longer remembers a deleted key never returns it again, *)
(* whatever lookups were in flight when it was deleted.                    *)
THEOREM DeletedStaysForgotten == Spec => Promise!Forgotten
<1> DEFINE K == [w \in Workers |-> KnownTo(w)]
<1>1. ASSUME NEW k \in Gone, [Promise!Next]_(Promise!vars)
      PROVE  /\ k \in Gone' \ Visible'
             /\ \A w \in Workers : k \notin K[w] => k \notin K'[w]
  <2> HIDE DEF K
  <2>0. k \notin Visible
    BY DEF Gone, Visible
  <2>1. CASE \E j \in Keys : Promise!Store(j) \/ Promise!Drop(j)
    BY <2>0, <2>1 DEF Promise!Store, Promise!Drop, Gone, K
  <2>2. CASE \E w \in Workers, j \in Keys : Promise!Learn(w, j)
    BY <2>0, <2>2 DEF Promise!Learn, Gone, K
  <2>3. CASE Promise!Forget
    BY <2>0, <2>3 DEF Promise!Forget, Gone, K
  <2>4. CASE UNCHANGED Promise!vars
    BY <2>0, <2>4 DEF Promise!vars, Gone, K
  <2> QED
    BY <1>1, <2>1, <2>2, <2>3, <2>4 DEF Promise!Next
<1>2. [Promise!Next]_(Promise!vars) => [Promise!StaysForgotten]_(Promise!vars)
  BY <1>1 DEF Promise!StaysForgotten, Gone
<1> QED
  BY <1>2, KeyStoreKept, PTL DEF KeepsKeyStore, Promise!Spec, Promise!Forgotten
=============================================================================
