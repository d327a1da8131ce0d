--------------------------- MODULE AuthService_proofs ---------------------------
(***************************************************************************)
(* Proofs about AuthService, for any number of concurrent requests and any *)
(* thresholds and lifetimes.  The three invariants are about disjoint      *)
(* parts of the state; each has its own strengthening.                     *)
(***************************************************************************)
EXTENDS AuthService, FiniteSetTheorems, TLAPS

LEMMA TypeInit == Init => TypeOK
BY AuthAssumption, FS_CardinalityType, Cardinality(Requests) \in Nat
   DEF Init, TypeOK, UseLimit

LEMMA TypeStep == TypeOK /\ [Next]_vars => TypeOK'
<1> SUFFICES ASSUME TypeOK, [Next]_vars
             PROVE  TypeOK'
  OBVIOUS
<1>1. Cardinality(Requests) \in Nat
  BY AuthAssumption, FS_CardinalityType
<1>2. life \in Int => life \div SecondTicks \in Int
  BY AuthAssumption
<1> USE AuthAssumption, <1>1 DEF TypeOK, LoginSteps, UseLimit, lockout, token, Goto, Done
<1>3. ASSUME NEW r \in Requests, Check(r) \/ Verify(r) \/ Record(r) \/ Expire(r) \/ Clear(r)
      PROVE  TypeOK'
  BY <1>3 DEF Check, Verify, Record, Expire, Clear
<1>4. ASSUME NEW r \in Requests, Decode(r) \/ Revoke(r) \/ Leave(r)
      PROVE  TypeOK'
  BY <1>4 DEF Decode, Revoke, Leave
<1>5. ASSUME NEW r \in Requests, Ask(r)
      PROVE  TypeOK'
  <2>1. RemainingTTL \in Nat
    BY <1>2 DEF RemainingTTL
  <2> QED
    BY <1>5, <2>1 DEF Ask
<1>6. CASE Tick
  BY <1>6 DEF Tick, Down, Accepted
<1>7. CASE UNCHANGED vars
  BY <1>7 DEF vars
<1> QED
  BY <1>3, <1>4, <1>5, <1>6, <1>7 DEF Next

(* Types, for every value of the constants. *)
THEOREM TypeCorrect == Spec => []TypeOK
BY TypeInit, TypeStep, PTL DEF Spec

-----------------------------------------------------------------------------
(* The login counter.  Each login that was let in may add one. *)
LetIn == {r \in Requests : pc[r] \in {"verify", "record"}}

CounterInv == count + Cardinality(LetIn) =< MaxFailed - 1 + Cardinality(Requests)

LEMMA LetInFinite ==
    /\ IsFiniteSet(LetIn)
    /\ Cardinality(Requests) \in Nat /\ Cardinality(LetIn) \in Nat
    /\ Cardinality(LetIn) =< Cardinality(Requests)
BY AuthAssumption, FS_Subset, FS_CardinalityType DEF LetIn

LEMMA CounterInit == Init => CounterInv
BY LetInFinite, AuthAssumption DEF Init, CounterInv

(* Whoever is let in finds the counter below the threshold; from there it  *)
(* grows by those who leave LetIn.                                         *)
LEMMA CounterStep == TypeOK /\ CounterInv /\ [Next]_vars => CounterInv'
<1> SUFFICES ASSUME TypeOK, CounterInv, [Next]_vars
             PROVE  CounterInv'
  OBVIOUS
<1>1. /\ IsFiniteSet(LetIn') /\ Cardinality(LetIn') \in Nat
      /\ Cardinality(LetIn') =< Cardinality(Requests)
  BY AuthAssumption, FS_Subset, FS_CardinalityType DEF LetIn
<1>2. count \in Nat /\ MaxFailed \in Nat \ {0}
  BY AuthAssumption DEF TypeOK
<1>3. CASE LetIn' \subseteq LetIn /\ count' \in Nat /\ count' =< count
  BY <1>1, <1>2, <1>3, LetInFinite, FS_Subset DEF CounterInv
<1>4. ASSUME NEW r \in Requests, Check(r)
      PROVE  CounterInv'
  BY <1>1, <1>2, <1>4, LetInFinite DEF Check, Locked, CounterInv, lockout
<1>5. ASSUME NEW r \in Requests, Record(r)
      PROVE  CounterInv'
  <2>1. r \in LetIn /\ LetIn' = LetIn \ {r} /\ count' = count + 1
    BY <1>5 DEF Record, LetIn, Goto, TypeOK
  <2>2. Cardinality(LetIn') = Cardinality(LetIn) - 1
    BY <2>1, LetInFinite, FS_RemoveElement
  <2> QED
    BY <1>2, <2>1, <2>2, LetInFinite DEF CounterInv
<1>6. ASSUME NEW r \in Requests,
             \/ Verify(r) \/ Expire(r) \/ Clear(r)
             \/ Decode(r) \/ Ask(r) \/ Revoke(r) \/ Leave(r)
      PROVE  LetIn' \subseteq LetIn /\ count' \in Nat /\ count' =< count
  BY <1>2, <1>6
     DEF Verify, Expire, Clear, Decode, Ask, Revoke, Leave, Goto, Done, LetIn, TypeOK, lockout
<1>7. Tick \/ UNCHANGED vars => LetIn' \subseteq LetIn /\ count' \in Nat /\ count' =< count
  BY <1>2 DEF Tick, LetIn, vars
<1> QED
  BY <1>3, <1>4, <1>5, <1>6, <1>7 DEF Next

(* The counter of failed logins passes its threshold by no more than the   *)
(* logins that were concurrent.                                            *)
THEOREM BoundedOverrun == Spec => []OverrunBounded
<1>1. Init => TypeOK /\ CounterInv
  BY TypeInit, CounterInit
<1>2. TypeOK /\ CounterInv /\ [Next]_vars => (TypeOK /\ CounterInv)'
  BY TypeStep, CounterStep
<1>3. TypeOK /\ CounterInv => OverrunBounded
  BY LetInFinite, AuthAssumption DEF TypeOK, CounterInv, OverrunBounded
<1> QED
  BY <1>1, <1>2, <1>3, PTL DEF Spec

-----------------------------------------------------------------------------
(* The blacklist.  A revocation under way has computed a TTL that is still *)
(* long enough: the token's life only gets shorter.                        *)
Revoking == {r \in Requests : pc[r] = "revoke"}

RevocationInv ==
    /\ RevocationHolds
    /\ \A r \in Revoking : ttl[r] > life - SecondTicks

(* Rounding down loses less than a second. *)
LEMMA RoundedDown ==
    ASSUME TypeOK
    PROVE  RemainingTTL \in Nat /\ RemainingTTL > life - SecondTicks
<1> DEFINE s == life \div SecondTicks
<1>1. life \in Int /\ SecondTicks \in Nat \ {0}
  BY AuthAssumption DEF TypeOK
<1>2. s \in Int /\ life < SecondTicks * s + SecondTicks
  BY <1>1
<1> QED
  BY <1>1, <1>2 DEF RemainingTTL

LEMMA RevocationInit == Init => RevocationInv
BY DEF Init, RevocationInv, RevocationHolds, Revoking

LEMMA RevocationStep == TypeOK /\ RevocationInv /\ [Next]_vars => RevocationInv'
<1> SUFFICES ASSUME TypeOK, RevocationInv, [Next]_vars
             PROVE  RevocationInv'
  OBVIOUS
<1> USE AuthAssumption DEF TypeOK, RevocationInv, RevocationHolds, Revoking, lockout, token, Goto, Done
<1>1. ASSUME NEW r \in Requests, Check(r) \/ Verify(r) \/ Record(r) \/ Expire(r) \/ Clear(r)
      PROVE  RevocationInv'
  BY <1>1 DEF Check, Verify, Record, Expire, Clear
<1>2. ASSUME NEW r \in Requests, Decode(r) \/ Leave(r)
      PROVE  RevocationInv'
  BY <1>2 DEF Decode, Leave
<1>3. ASSUME NEW r \in Requests, Ask(r)
      PROVE  RevocationInv'
  BY <1>3, RoundedDown DEF Ask
<1>4. ASSUME NEW r \in Requests, Revoke(r)
      PROVE  RevocationInv'
  BY <1>4 DEF Revoke
<1>5. CASE Tick
  BY <1>5 DEF Tick, Down, Accepted
<1>6. CASE UNCHANGED vars
  BY <1>6 DEF vars
<1> QED
  BY <1>1, <1>2, <1>3, <1>4, <1>5, <1>6 DEF Next

(* A revoked token stays on the blacklist until its last second, whichever *)
(* of several revocations wrote last.                                      *)
THEOREM RevocationLasts == Spec => []RevocationHolds
<1>1. Init => TypeOK /\ RevocationInv
  BY TypeInit, RevocationInit
<1>2. TypeOK /\ RevocationInv /\ [Next]_vars => (TypeOK /\ RevocationInv)'
  BY TypeStep, RevocationStep
<1> QED
  BY <1>1, <1>2, PTL DEF Spec, RevocationInv

-----------------------------------------------------------------------------
(* Uses.  Once the token is on the blacklist only those who are revoking   *)
(* it already can use it.                                                  *)
UsesInv ==
    life >= SecondTicks /\ uses > 0 => uses + Cardinality(Revoking) =< Cardinality(Requests)

LEMMA RevokingFinite ==
    /\ IsFiniteSet(Revoking)
    /\ Cardinality(Requests) \in Nat /\ Cardinality(Revoking) \in Nat
    /\ Cardinality(Revoking) =< Cardinality(Requests)
BY AuthAssumption, FS_Subset, FS_CardinalityType DEF Revoking

LEMMA UsesStep == TypeOK /\ RevocationInv /\ UsesInv /\ [Next]_vars => UsesInv'
<1> SUFFICES ASSUME TypeOK, RevocationInv, UsesInv, [Next]_vars,
                    life' >= SecondTicks, uses' > 0
             PROVE  uses' + Cardinality(Revoking') =< Cardinality(Requests)
  BY DEF UsesInv
<1>1. /\ life \in Int /\ uses \in Nat /\ entry \in Nat /\ SecondTicks \in Nat \ {0}
      /\ Cardinality(Requests) \in Nat
  BY AuthAssumption, RevokingFinite DEF TypeOK, UseLimit
<1>2. ASSUME life' = life, uses' = uses, Revoking' \subseteq Revoking
      PROVE  uses' + Cardinality(Revoking') =< Cardinality(Requests)
  <2>1. Cardinality(Revoking') \in Nat /\ Cardinality(Revoking') =< Cardinality(Revoking)
    BY <1>2, RevokingFinite, FS_Subset, FS_CardinalityType
  <2> QED
    BY <1>1, <1>2, <2>1, RevokingFinite DEF UsesInv
<1>3. ASSUME NEW r \in Requests,
             \/ Check(r) \/ Verify(r) \/ Record(r) \/ Expire(r) \/ Clear(r)
             \/ Decode(r) \/ Leave(r)
      PROVE  life' = life /\ uses' = uses /\ Revoking' \subseteq Revoking
  BY <1>3 DEF Check, Verify, Record, Expire, Clear, Decode, Leave, Goto, Done, token, Revoking, TypeOK
<1>4. ASSUME NEW r \in Requests, Ask(r)
      PROVE  life' = life /\ uses' = uses /\ Revoking' \subseteq Revoking
  <2>1. entry > 0
    BY <1>1, <1>4 DEF Ask, token, RevocationInv, RevocationHolds
  <2> QED
    BY <1>4, <2>1 DEF Ask, Done, token, Revoking, TypeOK
<1>5. ASSUME NEW r \in Requests, Revoke(r)
      PROVE  uses' + Cardinality(Revoking') =< Cardinality(Requests)
  <2>1. r \in Revoking /\ Revoking' = Revoking \ {r} /\ life' = life /\ uses' =< uses + 1 /\ uses' \in Nat
    BY <1>1, <1>5 DEF Revoke, Done, Revoking, TypeOK, lockout, UseLimit
  <2>2. Cardinality(Revoking') = Cardinality(Revoking) - 1
    BY <2>1, RevokingFinite, FS_RemoveElement
  <2> QED
    BY <1>1, <2>1, <2>2, RevokingFinite DEF UsesInv
<1>6. CASE Tick
  <2>1. uses' = uses /\ Revoking' = Revoking /\ life >= SecondTicks
    BY <1>1, <1>6 DEF Tick, Revoking, Accepted
  <2> QED
    BY <2>1 DEF UsesInv
<1>7. UNCHANGED vars => life' = life /\ uses' = uses /\ Revoking' \subseteq Revoking
  BY DEF vars, Revoking
<1> QED
  BY <1>2, <1>3, <1>4, <1>5, <1>6, <1>7 DEF Next

(* Up to its last second a refresh token grants new tokens at most once    *)
(* for each request that presents it at the same time.                     *)
THEOREM BoundedUses == Spec => []UsesBounded
<1>1. Init => TypeOK /\ RevocationInv /\ UsesInv
  BY TypeInit, RevocationInit DEF Init, UsesInv
<1>2. TypeOK /\ RevocationInv /\ UsesInv /\ [Next]_vars => (TypeOK /\ RevocationInv /\ UsesInv)'
  BY TypeStep, RevocationStep, UsesStep
<1>3. TypeOK /\ UsesInv => UsesBounded
  BY RevokingFinite DEF TypeOK, UsesInv, UsesBounded, UseLimit
<1> QED
  BY <1>1, <1>2, <1>3, PTL DEF Spec
=============================================================================
