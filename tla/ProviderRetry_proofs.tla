------------------------- MODULE ProviderRetry_proofs -------------------------
(***************************************************************************)
(* Proofs about ProviderRetry, for any number of workers and calls and any *)
(* value of the thresholds.  Inv is inductive: OpenIffThreshold needs the  *)
(* worker of a running call to be a worker (else a late answer could touch *)
(* one field of a breaker and not the other), the type of `attempt` needs  *)
(* a sleeping call to have a retry left.                                   *)
(***************************************************************************)
EXTENDS ProviderRetry, TLAPS

BreakerOK ==
    /\ open \subseteq Workers
    /\ failures \in [Workers -> Nat]
    /\ age \in [Workers -> 0 .. MaxAge]
    /\ OpenIffThreshold

CallsOK ==
    /\ pc \in [Calls -> InFlight \union {"idle", "done"}]
    /\ worker \in [Calls -> Workers \union {NoWorker}]
    /\ attempt \in [Calls -> 0 .. MaxRetries]
    /\ answer \in [Calls -> Answers]
    /\ CallState

LEMMA InvSplits == Inv <=> BreakerOK /\ CallsOK
BY DEF Inv, TypeOK, BreakerOK, CallsOK

-----------------------------------------------------------------------------
(* The breaker's operations keep flag and counter typed and in agreement:  *)
(* is_open (retry.py:138-147), record_success (149-151) and any number of  *)
(* record_failure in a row (153-162).                                      *)
LEMMA IsOpenKeeps ==
    ASSUME BreakerOK, NEW w \in Workers, IsOpen(w)
    PROVE  BreakerOK'
BY RetryAssumption DEF BreakerOK, OpenIffThreshold, IsOpen, Recovers, MaxAge

LEMMA SuccessKeeps ==
    ASSUME BreakerOK, NEW w \in Workers, RecordSuccess(w)
    PROVE  BreakerOK'
BY RetryAssumption DEF BreakerOK, OpenIffThreshold, RecordSuccess, MaxAge

LEMMA FailuresKeep ==
    ASSUME BreakerOK, NEW w \in Workers, NEW n \in Nat, RecordFailures(w, n)
    PROVE  BreakerOK'
BY RetryAssumption DEF BreakerOK, OpenIffThreshold, RecordFailures, MaxAge

LEMMA SameBreaker ==
    ASSUME BreakerOK, UNCHANGED breaker
    PROVE  BreakerOK'
BY DEF BreakerOK, OpenIffThreshold, breaker

LEMMA SameCalls ==
    ASSUME CallsOK, UNCHANGED calls
    PROVE  CallsOK'
BY DEF CallsOK, CallState, calls

-----------------------------------------------------------------------------
(* Every step keeps the inductive invariant. *)
LEMMA InvStep == Inv /\ [Next]_vars => Inv'
<1> SUFFICES ASSUME BreakerOK, CallsOK, [Next]_vars
             PROVE  BreakerOK' /\ CallsOK'
  BY InvSplits, PTL
<1> USE RetryAssumption
<1>1. ASSUME NEW c \in Calls, NEW w \in Workers, Start(c, w)
      PROVE  BreakerOK' /\ CallsOK'
  <2>1. BreakerOK'
    BY <1>1, IsOpenKeeps DEF Start
  <2>2. CallsOK'
    BY <1>1 DEF CallsOK, CallState, Start, Goto, Finish, InFlight, Answers
  <2> QED
    BY <2>1, <2>2
<1>2. ASSUME NEW c \in Calls, Succeed(c)
      PROVE  BreakerOK' /\ CallsOK'
  <2>1. worker[c] \in Workers
    BY <1>2 DEF CallsOK, CallState, Succeed, InFlight
  <2>2. BreakerOK'
    BY <1>2, <2>1, SuccessKeeps DEF Succeed
  <2>3. CallsOK'
    BY <1>2 DEF CallsOK, CallState, Succeed, Goto, Finish, InFlight, Answers
  <2> QED
    BY <2>2, <2>3
<1>3. ASSUME NEW c \in Calls, Reject(c)
      PROVE  BreakerOK' /\ CallsOK'
  <2>1. BreakerOK'
    BY <1>3, SameBreaker DEF Reject, breaker
  <2>2. CallsOK'
    BY <1>3 DEF CallsOK, CallState, Reject, Goto, Finish, InFlight, Answers
  <2> QED
    BY <2>1, <2>2
<1>4. ASSUME NEW c \in Calls, Fail(c)
      PROVE  BreakerOK' /\ CallsOK'
  <2>1. worker[c] \in Workers
    BY <1>4 DEF CallsOK, CallState, Fail, InFlight
  <2>2. BreakerOK'
    BY <1>4, <2>1, FailuresKeep DEF Fail
  <2>3. CallsOK'
    BY <1>4 DEF CallsOK, CallState, Fail, Goto, Finish, InFlight, Answers
  <2> QED
    BY <2>2, <2>3
<1>5. ASSUME NEW c \in Calls, Resend(c)
      PROVE  BreakerOK' /\ CallsOK'
  <2>1. BreakerOK'
    BY <1>5, SameBreaker DEF Resend, breaker
  <2>2. CallsOK'
    BY <1>5 DEF CallsOK, CallState, Resend, Goto, InFlight, Answers
  <2> QED
    BY <2>1, <2>2
<1>6. ASSUME NEW c \in Calls, Cancel(c)
      PROVE  BreakerOK' /\ CallsOK'
  <2>1. BreakerOK'
    BY <1>6, SameBreaker DEF Cancel, breaker
  <2>2. CallsOK'
    BY <1>6 DEF CallsOK, CallState, Cancel, Goto, Finish, InFlight, Answers
  <2> QED
    BY <2>1, <2>2
<1>7. ASSUME NEW c \in Calls, Reuse(c)
      PROVE  BreakerOK' /\ CallsOK'
  <2>1. BreakerOK'
    BY <1>7, SameBreaker DEF Reuse, breaker
  <2>2. CallsOK'
    BY <1>7 DEF CallsOK, CallState, Reuse, Goto, InFlight, Answers
  <2> QED
    BY <2>1, <2>2
<1>8. ASSUME NEW w \in Workers, Health(w)
      PROVE  BreakerOK' /\ CallsOK'
  BY <1>8, IsOpenKeeps, SameCalls DEF Health
<1>9. ASSUME NEW w \in Workers, Disable(w)
      PROVE  BreakerOK' /\ CallsOK'
  <2>1. Threshold + 1 \in Nat
    BY DEF RetryAssumption
  <2> QED
    BY <1>9, <2>1, FailuresKeep, SameCalls DEF Disable
<1>10. ASSUME NEW w \in Workers, Enable(w)
       PROVE  BreakerOK' /\ CallsOK'
  BY <1>10, SuccessKeeps, SameCalls DEF Enable
<1>11. ASSUME NEW w \in Workers, Restart(w)
       PROVE  BreakerOK' /\ CallsOK'
  <2>1. BreakerOK'
    BY <1>11 DEF BreakerOK, OpenIffThreshold, Restart, MaxAge, RetryAssumption
  <2>2. CallsOK'
    BY <1>11 DEF CallsOK, CallState, Restart, InFlight, Answers
  <2> QED
    BY <2>1, <2>2
<1>12. CASE Tick
  <2>1. BreakerOK'
    BY <1>12 DEF BreakerOK, OpenIffThreshold, Tick, MaxAge, RetryAssumption
  <2> QED
    BY <1>12, <2>1, SameCalls DEF Tick
<1>13. CASE UNCHANGED vars
  BY <1>13, SameBreaker, SameCalls DEF vars, breaker, calls
<1> QED
  BY <1>1, <1>2, <1>3, <1>4, <1>5, <1>6, <1>7, <1>8, <1>9, <1>10, <1>11,
     <1>12, <1>13 DEF Next

LEMMA InitInv == Init => Inv
BY RetryAssumption
   DEF Init, Inv, TypeOK, CallState, OpenIffThreshold, InFlight, Answers, MaxAge

LEMMA InvAlways == Spec => []Inv
BY InitInv, InvStep, PTL DEF Spec

(* The variables stay in their types. *)
THEOREM TypeCorrect == Spec => []TypeOK
<1>1. Inv => TypeOK
  BY DEF Inv
<1> QED
  BY <1>1, InvAlways, PTL

(* The breaker's flag and counter agree in every reachable state, whatever *)
(* the number of workers and of concurrent calls.                          *)
THEOREM FlagAgreesWithCounter == Spec => []OpenIffThreshold
<1>1. Inv => OpenIffThreshold
  BY DEF Inv
<1> QED
  BY <1>1, InvAlways, PTL

-----------------------------------------------------------------------------
(* While a worker's circuit stays open, no call of that worker gains the   *)
(* right to another request.  A call gains one only by starting, and Start *)
(* admits nothing at a worker whose circuit is open after its is_open.     *)
LEMMA OverrunStep ==
    ASSUME Inv, Next, NEW w \in open \intersect open',
           NEW c \in Calls, worker'[c] = w
    PROVE  MaySend(c)' =< MaySend(c)
<1> USE RetryAssumption DEF Inv, TypeOK, CallState, MaySend, InFlight, Answers
<1>1. ASSUME UNCHANGED <<pc, attempt>>
      PROVE  MaySend(c)' =< MaySend(c)
  BY <1>1
<1>2. ASSUME NEW d \in Calls, NEW v \in Workers, Start(d, v)
      PROVE  MaySend(c)' =< MaySend(c)
  <2>1. CASE d # c
    BY <1>2, <2>1 DEF Start, Goto, Finish
  <2>2. CASE d = c
    <3>1. v = w
      BY <1>2, <2>2 DEF Start
    <3>2. Refuses(v)
      BY <1>2, <3>1 DEF Start, IsOpen, Refuses
    <3> QED
      BY <1>2, <2>2, <3>2 DEF Start, Goto, Finish
  <2> QED
    BY <2>1, <2>2
<1>3. ASSUME NEW d \in Calls,
             Succeed(d) \/ Reject(d) \/ Cancel(d) \/ Reuse(d)
      PROVE  MaySend(c)' =< MaySend(c)
  BY <1>3 DEF Succeed, Reject, Cancel, Reuse, Goto, Finish
<1>4. ASSUME NEW d \in Calls, Fail(d)
      PROVE  MaySend(c)' =< MaySend(c)
  BY <1>4 DEF Fail, Goto, Finish
<1>5. ASSUME NEW d \in Calls, Resend(d)
      PROVE  MaySend(c)' =< MaySend(c)
  BY <1>5 DEF Resend, Goto
<1>6. ASSUME NEW v \in Workers, Restart(v)
      PROVE  MaySend(c)' =< MaySend(c)
  BY <1>6 DEF Restart
<1>7. ASSUME NEW v \in Workers, Health(v) \/ Disable(v) \/ Enable(v)
      PROVE  MaySend(c)' =< MaySend(c)
  BY <1>1, <1>7 DEF Health, Disable, Enable, calls
<1>8. CASE Tick
  BY <1>1, <1>8 DEF Tick, calls
<1> QED
  BY <1>2, <1>3, <1>4, <1>5, <1>6, <1>7, <1>8 DEF Next

THEOREM OverrunOnlyShrinks == Spec => OverrunShrinks
<1>1. Inv /\ [Next]_vars =>
        [\A w \in open \intersect open' :
            \A c \in Calls : worker'[c] = w => MaySend(c)' =< MaySend(c)]_vars
  BY OverrunStep
<1> QED
  BY <1>1, InvAlways, PTL DEF Spec, OverrunShrinks

-----------------------------------------------------------------------------
(* The retry loop implements the contract of a call. *)
LEMMA ContractStep ==
    ASSUME Inv, [Next]_vars
    PROVE  [Contract!Next]_(Contract!vars)
<1> DEFINE sent == [c \in Calls |-> Sends(c)]
<1> USE RetryAssumption
    DEF Inv, TypeOK, CallState, InFlight, Answers, Sends, Goto, Finish, Contract!vars
<1>1. ASSUME NEW c \in Calls, NEW w \in Workers, Start(c, w)
      PROVE  Contract!Send(c) \/ Contract!Refuse(c)
  <2>1. CASE Refuses(w)
    <3>1. answer[c] = "none" /\ sent[c] = 0
      BY <1>1 DEF Start
    <3>2. answer' = [answer EXCEPT ![c] = "unavailable"]
      BY <1>1, <2>1 DEF Start
    <3>3. \A d \in Calls : Sends(d)' = Sends(d)
      BY <1>1, <2>1 DEF Start
    <3>4. sent' = sent
      BY <3>3
    <3> QED
      BY <3>1, <3>2, <3>4 DEF Contract!Refuse
  <2>2. CASE ~Refuses(w)
    <3>1. answer[c] = "none" /\ sent[c] = 0 /\ answer' = answer
      BY <1>1, <2>2 DEF Start
    <3>2. \A d \in Calls : Sends(d)' = IF d = c THEN Sends(c) + 1 ELSE Sends(d)
      BY <1>1, <2>2 DEF Start
    <3>3. sent' = [sent EXCEPT ![c] = @ + 1]
      BY <3>2
    <3> QED
      BY <3>1, <3>3 DEF Contract!Send
  <2> QED
    BY <2>1, <2>2
<1>2. ASSUME NEW c \in Calls, Succeed(c) \/ Reject(c)
      PROVE  Contract!Settle(c)
  <2>1. \A d \in Calls : Sends(d)' = Sends(d)
    BY <1>2 DEF Succeed, Reject
  <2>2. sent' = sent
    BY <2>1
  <2> QED
    BY <1>2, <2>2 DEF Succeed, Reject, Contract!Settle
<1>3. ASSUME NEW c \in Calls, Fail(c)
      PROVE  Contract!GiveUp(c) \/ UNCHANGED Contract!vars
  <2>1. \A d \in Calls : Sends(d)' = Sends(d)
    BY <1>3 DEF Fail
  <2>2. sent' = sent
    BY <2>1
  <2> QED
    BY <1>3, <2>2 DEF Fail, Contract!GiveUp
<1>4. ASSUME NEW c \in Calls, Resend(c)
      PROVE  Contract!Send(c)
  <2>1. \A d \in Calls : Sends(d)' = IF d = c THEN Sends(c) + 1 ELSE Sends(d)
    BY <1>4 DEF Resend
  <2>2. sent' = [sent EXCEPT ![c] = @ + 1]
    BY <2>1
  <2>3. answer[c] = "none" /\ sent[c] < MaxRetries + 1 /\ answer' = answer
    BY <1>4 DEF Resend
  <2> QED
    BY <2>2, <2>3 DEF Contract!Send
<1>5. ASSUME NEW S \in SUBSET Calls,
             \A c \in S : pc[c] \in InFlight,
             answer' = [c \in Calls |-> IF c \in S THEN "cancelled" ELSE answer[c]],
             \A c \in Calls : pc'[c] = IF c \in S THEN "done" ELSE pc[c],
             UNCHANGED attempt
      PROVE  Contract!CutShort(S)
  <2>1. \A c \in Calls : Sends(c)' = Sends(c)
    BY <1>5
  <2>2. sent' = sent
    BY <2>1
  <2>3. \A c \in S : answer[c] = "none" /\ sent[c] > 0
    BY <1>5
  <2> QED
    BY <1>5, <2>2, <2>3 DEF Contract!CutShort
<1>6. ASSUME NEW c \in Calls, Cancel(c)
      PROVE  Contract!CutShort({c})
  <2>1. answer' = [d \in Calls |-> IF d \in {c} THEN "cancelled" ELSE answer[d]]
    BY <1>6 DEF Cancel
  <2>2. \A d \in Calls : pc'[d] = IF d \in {c} THEN "done" ELSE pc[d]
    BY <1>6 DEF Cancel
  <2> QED
    BY <1>6, <1>5, <2>1, <2>2 DEF Cancel
<1>7. ASSUME NEW w \in Workers, Restart(w)
      PROVE  Contract!CutShort({c \in Calls : worker[c] = w /\ pc[c] \in InFlight})
  <2> DEFINE S == {c \in Calls : worker[c] = w /\ pc[c] \in InFlight}
  <2>1. answer' = [c \in Calls |-> IF c \in S THEN "cancelled" ELSE answer[c]]
    BY <1>7 DEF Restart
  <2>2. \A c \in Calls : pc'[c] = IF c \in S THEN "done" ELSE pc[c]
    BY <1>7 DEF Restart
  <2> QED
    BY <1>7, <1>5, <2>1, <2>2 DEF Restart
<1>8. ASSUME NEW c \in Calls, Reuse(c)
      PROVE  Contract!NewCall(c)
  <2>1. \A d \in Calls : Sends(d)' = IF d = c THEN 0 ELSE Sends(d)
    BY <1>8 DEF Reuse
  <2>2. sent' = [sent EXCEPT ![c] = 0]
    BY <2>1
  <2> QED
    BY <1>8, <2>2 DEF Reuse, Contract!NewCall
<1>9. ASSUME UNCHANGED calls
      PROVE  UNCHANGED Contract!vars
  BY <1>9 DEF calls
<1> QED
  <2>1. ASSUME NEW w \in Workers, Health(w) \/ Disable(w) \/ Enable(w)
        PROVE  UNCHANGED Contract!vars
    BY <1>9, <2>1 DEF Health, Disable, Enable
  <2>2. ASSUME Tick \/ UNCHANGED vars
        PROVE  UNCHANGED Contract!vars
    BY <1>9, <2>2 DEF Tick, vars, calls
  <2> HIDE DEF sent, Inv, TypeOK, CallState, Sends, Contract!vars
  <2> QED
    BY <1>1, <1>2, <1>3, <1>4, <1>6, <1>7, <1>8, <2>1, <2>2
       DEF Next, Contract!Next

(* Every caller is answered at most once, after at most MaxRetries + 1     *)
(* requests, "unavailable" only when nothing was sent and "exhausted" only *)
(* when all of them were.                                                  *)
THEOREM ContractImplemented == Spec => ImplementsContract
<1>1. Init => Contract!Init
  BY DEF Init, Contract!Init, Sends
<1> QED
  BY <1>1, InvAlways, ContractStep, PTL DEF Spec, ImplementsContract, Contract!Spec
=============================================================================
