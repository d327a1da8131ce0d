--------------------------- MODULE ChatService_proofs ---------------------------
(***************************************************************************)
(* Proofs about ChatService, for any number of requests, targets and       *)
(* settings, any finite number of conversations, and any bound on the      *)
(* turns.                                                                  *)
(***************************************************************************)
EXTENDS ChatService, FiniteSetTheorems, TLAPS

(***************************************************************************)
(* The sum in UsageMatches.  MapThenSumSet takes an element out of the set *)
(* at a time; what that function is, that it is there at all, and what     *)
(* follows for a change at one conversation, is shown for the sets of at   *)
(* most n conversations, for one n after the other.                        *)
(***************************************************************************)
Total(m) == MapThenSumSet(LAMBDA c : m[c].assistant, Conversations)

AnyOf(S) == CHOOSE x \in S : TRUE

IsSum(g, m, D) ==
    g = [S \in D |-> IF S = {} THEN 0 ELSE m[AnyOf(S)].assistant + g[S \ {AnyOf(S)}]]

Smaller(n) == {S \in SUBSET Conversations : Cardinality(S) =< n}

(* Mathematical induction, for a set: the library has it for an operator. *)
LEMMA InductionOnSize ==
    ASSUME NEW N, 0 \in N, \A n \in Nat : n \in N => n + 1 \in N
    PROVE  Nat \subseteq N
<1> SUFFICES ASSUME Nat \ N # {}
             PROVE  FALSE
  OBVIOUS
<1>1. PICK n \in Nat \ N : \A k \in Nat \ N : ~ <<k, n>> \in OpToRel(<, Nat)
  BY NatLessThanWellFounded, WFMin
<1>2. n # 0 /\ n - 1 \in Nat /\ n - 1 < n
  OBVIOUS
<1>3. <<n - 1, n>> \in OpToRel(<, Nat)
  BY <1>2 DEF OpToRel
<1>4. n - 1 \in N
  BY <1>1, <1>2, <1>3
<1> QED
  BY <1>2, <1>4

(* The recursion descends from sets of n + 1 elements to sets of n. *)
LEMMA SmallerStep ==
    ASSUME NEW n \in Nat, NEW S \in Smaller(n + 1), S # {}
    PROVE  AnyOf(S) \in S /\ S \ {AnyOf(S)} \in Smaller(n)
<1>1. AnyOf(S) \in S
  BY DEF AnyOf
<1>2. IsFiniteSet(S)
  BY ChatAssumption, FS_Subset DEF Smaller
<1>3. Cardinality(S \ {AnyOf(S)}) = Cardinality(S) - 1 /\ Cardinality(S) \in Nat
  BY <1>1, <1>2, FS_RemoveElement, FS_CardinalityType
<1> QED
  BY <1>1, <1>3 DEF Smaller

LEMMA SmallerZero == Smaller(0) = {{}}
<1>1. \A S \in SUBSET Conversations : IsFiniteSet(S) /\ Cardinality(S) \in Nat
  BY ChatAssumption, FS_Subset, FS_CardinalityType
<1> QED
  BY <1>1, FS_EmptySet DEF Smaller

LEMMA AllSmaller ==
    /\ Cardinality(Conversations) \in Nat
    /\ SUBSET Conversations = Smaller(Cardinality(Conversations))
BY ChatAssumption, FS_Subset, FS_CardinalityType DEF Smaller

(* There is a function that the recursion describes. *)
LEMMA SumExists ==
    ASSUME NEW m
    PROVE  \E g : IsSum(g, m, SUBSET Conversations)
<1> DEFINE N == {n \in Nat : \E g : IsSum(g, m, Smaller(n))}
<1>1. 0 \in N
  <2>2. IsSum([S \in {{}} |-> 0], m, {{}})
    BY DEF IsSum
  <2> QED
    BY SmallerZero, <2>2
<1>2. ASSUME NEW n \in Nat, n \in N
      PROVE  n + 1 \in N
  <2>1. PICK g : IsSum(g, m, Smaller(n))
    BY <1>2
  <2> DEFINE h == [S \in Smaller(n + 1) |->
                      IF S = {} THEN 0 ELSE m[AnyOf(S)].assistant + g[S \ {AnyOf(S)}]]
  <2>2. \A S \in Smaller(n) : S \in Smaller(n + 1) /\ g[S] = h[S]
    <3>1. \A S \in Smaller(n) : S \in Smaller(n + 1)
      <4>1. \A S \in SUBSET Conversations : Cardinality(S) \in Nat
        BY ChatAssumption, FS_Subset, FS_CardinalityType
      <4> QED
        BY <4>1 DEF Smaller
    <3> QED
      BY <2>1, <3>1 DEF IsSum
  <2>3. IsSum(h, m, Smaller(n + 1))
    BY <2>2, SmallerStep DEF IsSum
  <2> QED
    BY <2>3
<1>4. Nat \subseteq N
  <2> HIDE DEF N
  <2> QED
    BY <1>1, <1>2, InductionOnSize
<1> QED
  BY <1>4, AllSmaller

SumOf(m) == CHOOSE g : IsSum(g, m, SUBSET Conversations)

(* It is the one that MapThenSumSet applies. *)
LEMMA SumOfIs ==
    ASSUME NEW m
    PROVE  /\ IsSum(SumOf(m), m, SUBSET Conversations)
           /\ Total(m) = SumOf(m)[Conversations]
<1>1. IsSum(SumOf(m), m, SUBSET Conversations)
  BY SumExists DEF SumOf
<1>2. Total(m) = SumOf(m)[Conversations]
  BY DEF Total, SumOf, IsSum, AnyOf, MapThenSumSet, MapThenFoldSet
<1> QED
  BY <1>1, <1>2

Counted == [Conversations -> [user : Nat, assistant : Nat]]

(* The total is a natural number, 0 where there is nothing to add. *)
LEMMA TotalType ==
    ASSUME NEW m \in Counted
    PROVE  /\ Total(m) \in Nat
           /\ (\A c \in Conversations : m[c].assistant = 0) => Total(m) = 0
<1> DEFINE g == SumOf(m)
           NoAnswers == \A c \in Conversations : m[c].assistant = 0
           N == {n \in Nat : \A S \in Smaller(n) : g[S] \in Nat /\ (NoAnswers => g[S] = 0)}
<1>1. IsSum(g, m, SUBSET Conversations) /\ Total(m) = g[Conversations]
  BY SumOfIs
<1> HIDE DEF g
<1>2. 0 \in N
  BY <1>1, SmallerZero DEF IsSum
<1>3. ASSUME NEW n \in Nat, n \in N
      PROVE  n + 1 \in N
  <2> SUFFICES ASSUME NEW S \in Smaller(n + 1)
               PROVE  g[S] \in Nat /\ (NoAnswers => g[S] = 0)
    OBVIOUS
  <2>1. CASE S = {}
    BY <1>1, <2>1 DEF IsSum
  <2>2. CASE S # {}
    <3> DEFINE x == AnyOf(S)
    <3>1. x \in S /\ S \ {x} \in Smaller(n) /\ S \in SUBSET Conversations
      BY <2>2, SmallerStep DEF Smaller
    <3>2. g[S] = m[x].assistant + g[S \ {x}]
      BY <1>1, <2>2, <3>1 DEF IsSum
    <3>3. /\ g[S \ {x}] \in Nat /\ m[x].assistant \in Nat
          /\ NoAnswers => g[S \ {x}] = 0 /\ m[x].assistant = 0
      BY <1>3, <3>1 DEF Counted
    <3> HIDE DEF x
    <3> QED
      BY <3>2, <3>3
  <2> QED
    BY <2>1, <2>2
<1>4. Nat \subseteq N
  <2> HIDE DEF N
  <2> QED
    BY <1>2, <1>3, InductionOnSize
<1> QED
  BY <1>1, <1>4, AllSmaller

(* It changes as its one summand does. *)
LEMMA TotalChanges ==
    ASSUME NEW m \in Counted, NEW mm \in Counted, NEW c \in Conversations,
           \A d \in Conversations \ {c} : mm[d] = m[d]
    PROVE  Total(mm) = Total(m) + mm[c].assistant - m[c].assistant
<1> DEFINE g == SumOf(m)
           h == SumOf(mm)
           Shift(S) == IF c \in S THEN mm[c].assistant - m[c].assistant ELSE 0
           N == {n \in Nat : \A S \in Smaller(n) : g[S] \in Nat /\ h[S] = g[S] + Shift(S)}
<1>1. /\ IsSum(g, m, SUBSET Conversations) /\ Total(m) = g[Conversations]
      /\ IsSum(h, mm, SUBSET Conversations) /\ Total(mm) = h[Conversations]
  BY SumOfIs
<1> HIDE DEF g, h
<1>2. 0 \in N
  BY <1>1, SmallerZero DEF IsSum
<1>3. ASSUME NEW n \in Nat, n \in N
      PROVE  n + 1 \in N
  <2> SUFFICES ASSUME NEW S \in Smaller(n + 1)
               PROVE  g[S] \in Nat /\ h[S] = g[S] + Shift(S)
    OBVIOUS
  <2>1. CASE S = {}
    BY <1>1, <2>1 DEF IsSum
  <2>2. CASE S # {}
    <3> DEFINE x == AnyOf(S)
               R == S \ {x}
    <3>1. x \in S /\ R \in Smaller(n) /\ S \in SUBSET Conversations
      BY <2>2, SmallerStep DEF Smaller
    <3>2. g[S] = m[x].assistant + g[R] /\ h[S] = mm[x].assistant + h[R]
      BY <1>1, <2>2, <3>1 DEF IsSum
    <3>3. g[R] \in Nat /\ h[R] = g[R] + Shift(R)
      BY <1>3, <3>1
    <3>4. m[x].assistant \in Nat /\ mm[x].assistant \in Nat
          /\ m[c].assistant \in Nat /\ mm[c].assistant \in Nat
      BY <3>1 DEF Counted
    <3>5. x # c => mm[x].assistant = m[x].assistant
      BY <3>1
    <3> HIDE DEF x
    <3> QED
      BY <3>1, <3>2, <3>3, <3>4, <3>5
  <2> QED
    BY <2>1, <2>2
<1>4. Nat \subseteq N
  <2> HIDE DEF N
  <2> QED
    BY <1>2, <1>3, InductionOnSize
<1> QED
  BY <1>1, <1>4, AllSmaller

-----------------------------------------------------------------------------
(* Where a request has a record, where an answer, and where rows.          *)
Asking == {"lookup", "store", "route", "record", "fill", "commit"}
Paid   == {"record", "fill", "commit"}
Stored == {"route"} \union Paid

Answering == {r \in Requests : pc[r] \in Paid}

Opens(r) == "conversation" \in flushed[r]

(* What the place a request has come to says of its record, of its answer  *)
(* and of the rows its transaction holds.                                  *)
RequestShape ==
    \A r \in Requests :
        /\ pc[r] \in Asking => req[r] \in Request
        /\ pc[r] \in Stored => req[r].conv \in Conversations
        /\ pc[r] \in Paid => answer[r].by \in Targets
        /\ answer[r].kind = "cached" => pc[r] = "done"

TransactionShape ==
    \A r \in Requests :
        /\ "question" \in flushed[r] <=> pc[r] \in Stored
        /\ Opens(r) => pc[r] \in Stored
        /\ "answer" \in flushed[r] <=> pc[r] \in {"fill", "commit"}
        /\ "usage" \in flushed[r] <=> pc[r] \in {"fill", "commit"}

(* The conversation a request writes to exists as long as the request may  *)
(* commit, or is its own.                                                  *)
Belongs ==
    /\ \A r \in Requests :
          pc[r] \in Stored => conv[req[r].conv] = IF Opens(r) THEN "unused" ELSE "live"
    /\ \A r, q \in Requests :
          Opens(r) /\ pc[q] \in Stored /\ req[r].conv = req[q].conv => q = r

CacheSays == \A t \in Targets : cache[t] # None => cache[t].by = t

(* An answer that is paid for is recorded, or on its way to be, or lost. *)
EachPaid ==
    /\ IsFiniteSet(Answering)
    /\ usage + Cardinality(Answering) =< paid

(* So the bound of the model on answers bounds what is committed, too.    *)
Bounded == \A c \in Conversations : messages[c].assistant =< usage

Inv ==
    /\ TypeOK /\ RequestShape /\ TransactionShape /\ Belongs /\ TurnsAreWhole
    /\ CacheSays /\ EachPaid /\ Bounded /\ NamedIsWhoAnswers

LEMMA InvInit == Init => Inv
<1> SUFFICES ASSUME Init
             PROVE  Inv
  OBVIOUS
<1>1. Answering = {}
  BY DEF Init, Answering, Paid
<1>2. EachPaid
  BY <1>1, FS_EmptySet DEF Init, EachPaid
<1>3. TypeOK
  BY ChatAssumption DEF Init, TypeOK, Answer, Unanswered
<1> QED
  BY <1>2, <1>3, ChatAssumption
     DEF Init, Inv, RequestShape, TransactionShape, Belongs, TurnsAreWhole, CacheSays, Bounded,
         NamedIsWhoAnswers, Asking, Paid, Stored, Opens, Unanswered

(* The answers under way, as a request comes to have one or is done with it. *)
LEMMA AnsweringChanges ==
    ASSUME NEW r \in Requests, IsFiniteSet(Answering), TypeOK, NEW where,
           pc' = [pc EXCEPT ![r] = where]
    PROVE  /\ IsFiniteSet(Answering')
           /\ Cardinality(Answering) \in Nat
           /\ Cardinality(Answering') =
                 Cardinality(Answering)
                    + (IF where \in Paid THEN 1 ELSE 0) - (IF pc[r] \in Paid THEN 1 ELSE 0)
<1>1. CASE where \in Paid
  <2>1. Answering' = Answering \union {r}
    BY <1>1 DEF Answering, TypeOK
  <2>2. r \in Answering <=> pc[r] \in Paid
    BY DEF Answering
  <2> QED
    BY <1>1, <2>1, <2>2, FS_AddElement, FS_CardinalityType
<1>2. CASE where \notin Paid
  <2>1. Answering' = Answering \ {r}
    BY <1>2 DEF Answering, TypeOK
  <2>2. r \in Answering <=> pc[r] \in Paid
    BY DEF Answering
  <2> QED
    BY <1>2, <2>1, <2>2, FS_RemoveElement, FS_CardinalityType
<1> QED
  BY <1>1, <1>2

-----------------------------------------------------------------------------
ChatStep(r) ==
    \/ \E asked \in Request : Arrive(r, asked)
    \/ Lookup(r) \/ StoreQuestion(r) \/ Route(r) \/ Fail(r)
    \/ StoreAnswer(r) \/ Fill(r) \/ Commit(r) \/ Reuse(r)

(* Only Route pays, and only Commit records. *)
LEMMA EachPaidStep ==
    ASSUME Inv, Next
    PROVE  EachPaid' /\ usage' \in 0 .. MaxTurns /\ paid' \in 0 .. MaxTurns
<1> USE DEF Inv, TypeOK, database
<1>1. ASSUME NEW r \in Requests, ChatStep(r)
      PROVE  /\ \E where : pc' = [pc EXCEPT ![r] = where]
             /\ \/ pc[r] \in Paid /\ usage' = usage /\ paid' = paid
                \/ pc[r] \notin Paid /\ pc'[r] \notin Paid /\ usage' = usage /\ paid' = paid
                \/ pc[r] \notin Paid /\ pc'[r] \in Paid /\ usage' = usage
                   /\ paid' = paid + 1 /\ paid < MaxTurns
                \/ pc[r] \in Paid /\ pc'[r] \notin Paid /\ usage' = usage + 1 /\ paid' = paid
  <2> USE DEF Goto, Finish, Paid
  <2>1. CASE \E asked \in Request : Arrive(r, asked)
    BY <2>1 DEF Arrive
  <2>2. CASE Lookup(r)
    BY <2>2 DEF Lookup
  <2>3. CASE StoreQuestion(r)
    BY <2>3 DEF StoreQuestion
  <2>4. CASE Route(r) \/ Fail(r) \/ StoreAnswer(r) \/ Fill(r) \/ Reuse(r)
    BY <2>4 DEF Route, Fail, StoreAnswer, Fill, Reuse
  <2>5. CASE Commit(r)
    BY <2>5 DEF Commit, Count, TransactionShape
  <2> QED
    BY <1>1, <2>1, <2>2, <2>3, <2>4, <2>5 DEF ChatStep
<1>2. ASSUME NEW r \in Requests, ChatStep(r)
      PROVE  EachPaid' /\ usage' \in 0 .. MaxTurns /\ paid' \in 0 .. MaxTurns
  <2>1. PICK where : pc' = [pc EXCEPT ![r] = where]
    BY <1>1, <1>2
  <2>2. pc'[r] = where
    BY <2>1
  <2>3. IsFiniteSet(Answering)
    BY DEF EachPaid
  <2>4. /\ IsFiniteSet(Answering')
        /\ Cardinality(Answering) \in Nat
        /\ Cardinality(Answering') \in Nat
        /\ Cardinality(Answering') =
              Cardinality(Answering)
                 + (IF where \in Paid THEN 1 ELSE 0) - (IF pc[r] \in Paid THEN 1 ELSE 0)
    BY <2>1, <2>3, AnsweringChanges, FS_CardinalityType
  <2> QED
    BY <1>1, <1>2, <2>2, <2>4, ChatAssumption DEF EachPaid
<1>3. CASE (\E c \in Conversations : Delete(c)) \/ (\E t \in Targets : CacheExpires(t))
  BY <1>3 DEF Delete, CacheExpires, EachPaid, Answering
<1> QED
  BY <1>2, <1>3 DEF Next, ChatStep

(* A step leaves its request in a place, with an answer and rows of their  *)
(* types.                                                                  *)
Places == {"idle", "lookup", "store", "route", "record", "fill", "commit", "done"}

LEMMA AnswerTypes ==
    /\ Unanswered \in Answer
    /\ \A a \in Answer, kind \in {"none", "ok", "cached", "blocked", "error"} :
          [a EXCEPT !.kind = kind] \in Answer
BY DEF Answer, Unanswered

LEMMA FinishType ==
    ASSUME TypeOK, NEW r \in Requests, NEW a \in Answer, Finish(r, a)
    PROVE  /\ pc' \in [Requests -> Places]
           /\ answer' \in [Requests -> Answer]
           /\ flushed' \in [Requests -> SUBSET Rows]
BY DEF TypeOK, Finish, Goto, Places

LEMMA FlushType ==
    ASSUME TypeOK, NEW r \in Requests, NEW rows \in SUBSET Rows, Flush(r, rows)
    PROVE  flushed' \in [Requests -> SUBSET Rows]
<1>1. flushed[r] \union rows \in SUBSET Rows
  BY DEF TypeOK
<1> QED
  BY <1>1 DEF TypeOK, Flush

(* Every step keeps the types; a commit stays within the bound because it *)
(* charges for what it adds.                                               *)
LEMMA TypeStep ==
    ASSUME Inv, Next
    PROVE  TypeOK'
<1>0. usage' \in 0 .. MaxTurns /\ paid' \in 0 .. MaxTurns
  BY EachPaidStep
<1> USE <1>0, ChatAssumption
    DEF Inv, TypeOK, Places, RequestShape, database, Request, Entry, Asking, Paid, Stored
<1>1. ASSUME NEW r \in Requests, ChatStep(r)
      PROVE  TypeOK'
  <2>1. CASE \E asked \in Request : Arrive(r, asked)
    <3>1. PICK asked \in Request : Arrive(r, asked)
      BY <2>1
    <3>2. req' = [req EXCEPT ![r] = asked] /\ UNCHANGED <<database, paid, cache>>
      BY <3>1 DEF Arrive
    <3>3. req' \in [Requests -> Request \union {None}]
      BY <3>2
    <3>4. CASE Finish(r, [Unanswered EXCEPT !.kind = "blocked"])
      BY <3>2, <3>3, <3>4, AnswerTypes, FinishType
    <3>5. CASE /\ Goto(r, IF asked.cacheable THEN "lookup" ELSE "store")
               /\ UNCHANGED <<flushed, answer>>
      BY <3>2, <3>3, <3>5 DEF Goto
    <3> QED
      BY <3>1, <3>4, <3>5 DEF Arrive
  <2>2. CASE Lookup(r)
    <3>1. CASE Hit(r)
      <4>1. req[r].names \in Targets /\ cache[req[r].names] \in Entry
        BY <2>2, <3>1 DEF Lookup, Hit
      <4> DEFINE e == cache[req[r].names]
                 a == [kind |-> "cached", by |-> e.by, settings |-> e.settings]
      <4>2. a \in Answer /\ Finish(r, a)
        BY <2>2, <3>1, <4>1 DEF Lookup, Answer
      <4> QED
        BY <2>2, <4>2, FinishType DEF Lookup
    <3>2. CASE ~ Hit(r)
      BY <2>2, <3>2 DEF Lookup, Goto
    <3> QED
      BY <3>1, <3>2
  <2>3. CASE StoreQuestion(r)
    <3>1. CASE req[r].conv = None
      <4>1. PICK c \in Conversations : req' = [req EXCEPT ![r].conv = c]
        BY <2>3, <3>1 DEF StoreQuestion
      <4>2. req[r] \in Request
        BY <2>3 DEF StoreQuestion
      <4>3. [req[r] EXCEPT !.conv = c] \in Request
        BY <4>2
      <4>4. req' \in [Requests -> Request \union {None}]
        BY <4>1, <4>3
      <4>5. flushed' \in [Requests -> SUBSET Rows]
        <5>1. Flush(r, {"conversation", "question"})
          BY <2>3, <3>1 DEF StoreQuestion
        <5> QED
          BY <5>1, FlushType DEF Rows
      <4> QED
        BY <2>3, <3>1, <4>4, <4>5 DEF StoreQuestion, Goto
    <3>2. CASE req[r].conv # None /\ conv[req[r].conv] = "live"
      <4>1. flushed' \in [Requests -> SUBSET Rows]
        <5>1. Flush(r, {"question"})
          BY <2>3, <3>2 DEF StoreQuestion
        <5> QED
          BY <5>1, FlushType DEF Rows
      <4> QED
        BY <2>3, <3>2, <4>1 DEF StoreQuestion, Goto
    <3>3. CASE req[r].conv # None /\ conv[req[r].conv] = "deleted"
      <4>1. Finish(r, Failed) /\ Failed \in Answer
        BY <2>3, <3>3, AnswerTypes DEF StoreQuestion, Failed
      <4> QED
        BY <2>3, <3>3, <4>1, FinishType DEF StoreQuestion
    <3> QED
      BY <2>3, <3>1, <3>2, <3>3 DEF StoreQuestion
  <2>4. CASE Route(r)
    <3>1. PICK t \in Targets :
             answer' = [answer EXCEPT ![r] = [Unanswered EXCEPT !.by = t,
                                                        !.settings = req[r].settings]]
      BY <2>4 DEF Route
    <3>2. req[r] \in Request
      BY <2>4 DEF Route
    <3>3. [Unanswered EXCEPT !.by = t, !.settings = req[r].settings] \in Answer
      BY <3>2 DEF Unanswered, Answer
    <3>4. answer' \in [Requests -> Answer]
      BY <3>1, <3>3
    <3> QED
      BY <2>4, <3>4 DEF Route, Goto
  <2>5. CASE Fail(r)
    BY <2>5, AnswerTypes, FinishType DEF Fail, Failed
  <2>6. CASE StoreAnswer(r)
    BY <2>6, FlushType DEF StoreAnswer, Goto, Rows
  <2>7. CASE Fill(r)
    BY <2>7 DEF Fill, Goto
  <2>8. CASE Commit(r)
    <3> DEFINE c == req[r].conv
    <3>1. /\ c \in Conversations /\ pc[r] = "commit"
          /\ "question" \in flushed[r] /\ "answer" \in flushed[r] /\ "usage" \in flushed[r]
      BY <2>8 DEF Commit, TransactionShape
    <3>2. /\ messages' = [messages EXCEPT ![c] = [user |-> messages[c].user + 1,
                                                 assistant |-> messages[c].assistant + 1]]
          /\ usage' = usage + 1
      BY <2>8, <3>1 DEF Commit, Count
    <3>3. messages[c].user + 1 =< MaxTurns
      BY <1>0, <3>1, <3>2 DEF Bounded, TurnsAreWhole
    <3>4. messages' \in [Conversations -> [user : 0 .. MaxTurns, assistant : 0 .. MaxTurns]]
      BY <3>1, <3>2, <3>3 DEF TurnsAreWhole
    <3>5. Finish(r, [answer[r] EXCEPT !.kind = "ok"]) /\ [answer[r] EXCEPT !.kind = "ok"] \in Answer
      BY <2>8, AnswerTypes DEF Commit
    <3>6. conv' \in [Conversations -> {"unused", "live", "deleted"}]
      BY <2>8 DEF Commit
    <3> QED
      BY <2>8, <3>4, <3>5, <3>6, FinishType DEF Commit
  <2>9. CASE Reuse(r)
    BY <2>9, AnswerTypes DEF Reuse, Goto
  <2> QED
    BY <1>1, <2>1, <2>2, <2>3, <2>4, <2>5, <2>6, <2>7, <2>8, <2>9 DEF ChatStep
<1>2. ASSUME NEW c \in Conversations, Delete(c)
      PROVE  TypeOK'
  BY <1>2 DEF Delete
<1>3. ASSUME NEW t \in Targets, CacheExpires(t)
      PROVE  TypeOK'
  BY <1>3 DEF CacheExpires
<1> QED
  BY <1>1, <1>2, <1>3 DEF Next, ChatStep

(* A record is there until its request is reused; an entry is read as it  *)
(* was filled, under the names of who answered.                            *)
LEMMA ShapeStep ==
    ASSUME Inv, Next
    PROVE  RequestShape' /\ CacheSays' /\ NamedIsWhoAnswers'
<1> USE ChatAssumption
    DEF Inv, TypeOK, RequestShape, CacheSays, NamedIsWhoAnswers, database, Goto, Flush, Finish,
        Failed, Unanswered, Request, Answer, Entry, Asking, Paid, Stored
<1>1. ASSUME NEW r \in Requests, ChatStep(r)
      PROVE  RequestShape' /\ CacheSays' /\ NamedIsWhoAnswers'
  <2>1. CASE \E asked \in Request : Arrive(r, asked)
    BY <2>1 DEF Arrive
  <2>2. CASE Lookup(r)
    <3>1. CASE Hit(r)
      <4>1. req[r].names \in Targets /\ cache[req[r].names] \in Entry
        BY <2>2, <3>1 DEF Lookup, Hit
      <4>2. answer'[r].kind = "cached" /\ answer'[r].by = req[r].names
        BY <2>2, <3>1, <4>1 DEF Lookup, Hit
      <4>3. /\ pc' = [pc EXCEPT ![r] = "done"]
            /\ \A q \in Requests \ {r} : answer'[q] = answer[q]
            /\ UNCHANGED <<cache, req>>
        BY <2>2, <3>1 DEF Lookup
      <4> QED
        BY <2>2, <4>2, <4>3
    <3>2. CASE ~ Hit(r)
      BY <2>2, <3>2 DEF Lookup
    <3> QED
      BY <3>1, <3>2
  <2>3. CASE StoreQuestion(r)
    <3>1. CASE req[r].conv = None
      <4>1. PICK c \in Conversations : req' = [req EXCEPT ![r].conv = c]
        BY <2>3, <3>1 DEF StoreQuestion
      <4>2. req[r] \in Request
        BY <2>3 DEF StoreQuestion
      <4>3. req'[r] \in Request /\ req'[r].conv = c
        BY <4>1, <4>2
      <4> QED
        BY <2>3, <3>1, <4>1, <4>3 DEF StoreQuestion
    <3>2. CASE req[r].conv # None
      BY <2>3, <3>2 DEF StoreQuestion
    <3> QED
      BY <3>1, <3>2
  <2>4. CASE Route(r)
    BY <2>4 DEF Route
  <2>5. CASE Fail(r)
    BY <2>5 DEF Fail
  <2>6. CASE StoreAnswer(r)
    BY <2>6 DEF StoreAnswer
  <2>7. CASE Fill(r)
    BY <2>7 DEF Fill
  <2>8. CASE Commit(r)
    BY <2>8 DEF Commit, Count
  <2>9. CASE Reuse(r)
    BY <2>9 DEF Reuse
  <2> QED
    BY <1>1, <2>1, <2>2, <2>3, <2>4, <2>5, <2>6, <2>7, <2>8, <2>9 DEF ChatStep
<1>2. ASSUME NEW c \in Conversations, Delete(c)
      PROVE  RequestShape' /\ CacheSays' /\ NamedIsWhoAnswers'
  BY <1>2 DEF Delete
<1>3. ASSUME NEW t \in Targets, CacheExpires(t)
      PROVE  RequestShape' /\ CacheSays' /\ NamedIsWhoAnswers'
  BY <1>3 DEF CacheExpires
<1> QED
  BY <1>1, <1>2, <1>3 DEF Next, ChatStep

(* Two requests never open one conversation, and none is deleted under a  *)
(* request that has stored a question in it.                               *)
LEMMA TransactionStep ==
    ASSUME Inv, Next
    PROVE  TransactionShape' /\ Belongs'
<1> USE ChatAssumption
    DEF Inv, TypeOK, RequestShape, TransactionShape, Belongs, Opens, database, Goto, Flush, Finish,
        Failed, Unanswered, Request, Asking, Paid, Stored
<1>1. ASSUME NEW r \in Requests, ChatStep(r)
      PROVE  TransactionShape' /\ Belongs'
  <2>1. CASE \E asked \in Request : Arrive(r, asked)
    BY <2>1 DEF Arrive
  <2>2. CASE Lookup(r)
    <3>1. /\ pc' \in {[pc EXCEPT ![r] = "done"], [pc EXCEPT ![r] = "store"]}
          /\ flushed' = flushed \/ flushed' = [flushed EXCEPT ![r] = {}]
          /\ UNCHANGED <<conv, req>>
      BY <2>2 DEF Lookup
    <3> QED
      BY <2>2, <3>1 DEF Lookup
  <2>3. CASE StoreQuestion(r)
    BY <2>3 DEF StoreQuestion, Claimed
  <2>4. CASE Route(r)
    BY <2>4 DEF Route
  <2>5. CASE Fail(r)
    BY <2>5 DEF Fail
  <2>6. CASE StoreAnswer(r)
    BY <2>6 DEF StoreAnswer
  <2>7. CASE Fill(r)
    BY <2>7 DEF Fill
  <2>8. CASE Commit(r)
    BY <2>8 DEF Commit, Count
  <2>9. CASE Reuse(r)
    BY <2>9 DEF Reuse
  <2> QED
    BY <1>1, <2>1, <2>2, <2>3, <2>4, <2>5, <2>6, <2>7, <2>8, <2>9 DEF ChatStep
<1>2. ASSUME NEW c \in Conversations, Delete(c)
      PROVE  TransactionShape' /\ Belongs'
  BY <1>2 DEF Delete
<1>3. ASSUME NEW t \in Targets, CacheExpires(t)
      PROVE  TransactionShape' /\ Belongs'
  BY <1>3 DEF CacheExpires
<1> QED
  BY <1>1, <1>2, <1>3 DEF Next, ChatStep

(* Question and answer are committed together, and deleted together.      *)
LEMMA HistoryStep ==
    ASSUME Inv, Next
    PROVE  TurnsAreWhole' /\ Bounded'
<1> USE ChatAssumption
    DEF Inv, TypeOK, RequestShape, TransactionShape, Belongs, Opens, TurnsAreWhole, Bounded,
        database, Goto, Finish, Paid, Stored
<1>1. ASSUME NEW r \in Requests, ChatStep(r)
      PROVE  TurnsAreWhole' /\ Bounded'
  <2>1. CASE \E asked \in Request : Arrive(r, asked)
    BY <2>1 DEF Arrive
  <2>2. CASE Lookup(r)
    BY <2>2 DEF Lookup, Hit
  <2>3. CASE StoreQuestion(r)
    BY <2>3 DEF StoreQuestion, Claimed
  <2>4. CASE Route(r)
    BY <2>4 DEF Route
  <2>5. CASE Fail(r)
    BY <2>5 DEF Fail
  <2>6. CASE StoreAnswer(r)
    BY <2>6 DEF StoreAnswer
  <2>7. CASE Fill(r)
    BY <2>7 DEF Fill
  <2>8. CASE Commit(r)
    BY <2>8 DEF Commit, Count
  <2>9. CASE Reuse(r)
    BY <2>9 DEF Reuse
  <2> QED
    BY <1>1, <2>1, <2>2, <2>3, <2>4, <2>5, <2>6, <2>7, <2>8, <2>9 DEF ChatStep
<1>2. ASSUME NEW c \in Conversations, Delete(c)
      PROVE  TurnsAreWhole' /\ Bounded'
  BY <1>2 DEF Delete
<1>3. ASSUME NEW t \in Targets, CacheExpires(t)
      PROVE  TurnsAreWhole' /\ Bounded'
  BY <1>3 DEF CacheExpires
<1> QED
  BY <1>1, <1>2, <1>3 DEF Next, ChatStep

LEMMA InvStep == Inv /\ [Next]_vars => Inv'
<1>1. ASSUME Inv, Next
      PROVE  Inv'
  BY <1>1, TypeStep, ShapeStep, TransactionStep, HistoryStep, EachPaidStep DEF Inv
<1>2. Inv /\ UNCHANGED vars => Inv'
  BY DEF Inv, TypeOK, RequestShape, TransactionShape, Belongs, Opens, TurnsAreWhole, CacheSays,
         EachPaid, Answering, Bounded, NamedIsWhoAnswers, vars, database
<1> QED
  BY <1>1, <1>2

LEMMA InvAlways == Spec => []Inv
BY InvInit, InvStep, PTL DEF Spec

(* The variables have their types; the counters stay within MaxTurns.      *)
THEOREM TypeCorrect == Spec => []TypeOK
BY InvAlways, PTL DEF Inv

(* A history holds whole turns, and only while its conversation exists.    *)
THEOREM WholeTurns == Spec => []TurnsAreWhole
BY InvAlways, PTL DEF Inv

(* A hit in the cache is an answer of the provider and model that the      *)
(* request has named.                                                      *)
THEOREM NamedAlways == Spec => []NamedIsWhoAnswers
BY InvAlways, PTL DEF Inv

(* No history has more answers than usage records. *)
Charged == Total(messages) =< usage

LEMMA ChargedStep == Inv /\ Charged /\ [Next]_vars => Charged'
<1> SUFFICES ASSUME Inv, Charged, [Next]_vars
             PROVE  Charged'
  OBVIOUS
<1>1. messages \in Counted /\ messages' \in Counted /\ Total(messages) \in Nat /\ usage \in Nat
  <2>1. TypeOK'
    BY InvStep DEF Inv
  <2>2. messages \in Counted /\ messages' \in Counted
    BY <2>1, ChatAssumption DEF Inv, TypeOK, Counted
  <2> QED
    BY <2>2, TotalType DEF Inv, TypeOK
<1>2. CASE messages' = messages /\ usage' = usage
  BY <1>2 DEF Charged, Total, MapThenSumSet, MapThenFoldSet
<1>3. ASSUME NEW r \in Requests, Commit(r)
      PROVE  Charged'
  <2> DEFINE c == req[r].conv
  <2>1. /\ c \in Conversations
        /\ messages' = [messages EXCEPT ![c] = [user |-> messages[c].user + 1,
                                               assistant |-> messages[c].assistant + 1]]
        /\ usage' = usage + 1
    BY <1>3 DEF Inv, TypeOK, RequestShape, TransactionShape, Stored, Paid, Commit, Count
  <2>2. messages'[c].assistant = messages[c].assistant + 1 /\ messages[c].assistant \in Nat
    BY <1>1, <2>1 DEF Counted
  <2>3. Total(messages') = Total(messages) + messages'[c].assistant - messages[c].assistant
    <3>1. \A d \in Conversations \ {c} : messages'[d] = messages[d]
      BY <1>1, <2>1 DEF Counted
    <3> QED
      BY <1>1, <2>1, <3>1, TotalChanges
  <2> QED
    BY <1>1, <2>1, <2>2, <2>3 DEF Charged
<1>4. ASSUME NEW c \in Conversations, Delete(c)
      PROVE  Charged'
  <2>1. messages'[c].assistant = 0 /\ messages[c].assistant \in Nat
    BY <1>1, <1>4 DEF Counted, Delete
  <2>2. Total(messages') = Total(messages) + messages'[c].assistant - messages[c].assistant
    <3>1. \A d \in Conversations \ {c} : messages'[d] = messages[d]
      BY <1>1, <1>4 DEF Counted, Delete
    <3> QED
      BY <1>1, <3>1, TotalChanges
  <2>3. usage' = usage
    BY <1>4 DEF Delete
  <2> QED
    BY <1>1, <2>1, <2>2, <2>3 DEF Charged
<1> QED
  BY <1>2, <1>3, <1>4
     DEF Next, vars, database, Arrive, Lookup, StoreQuestion, Route, Fail, StoreAnswer, Fill, Reuse,
         CacheExpires

(* Every answer in a history is charged, and nothing is charged that no    *)
(* provider has answered.                                                  *)
THEOREM UsageAlways == Spec => []UsageMatches
<1>1. Init => Charged
  BY TotalType DEF Init, Charged, Counted
<1>2. Inv /\ Charged => UsageMatches
  <2>1. Inv => usage =< paid
    BY FS_CardinalityType DEF Inv, EachPaid, TypeOK
  <2> QED
    BY <2>1 DEF Charged, Total, UsageMatches
<1> QED
  BY <1>1, <1>2, InvAlways, ChargedStep, PTL DEF Spec
=============================================================================
