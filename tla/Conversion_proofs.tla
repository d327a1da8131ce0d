--------------------------- MODULE Conversion_proofs ---------------------------
(***************************************************************************)
(* Proofs about the router and the conversions composed with it, for any   *)
(* capability map, any number of requests and however keys change.         *)
(*                                                                         *)
(* Three layers, each with its own invariant.  The lists: what Among,      *)
(* Narrow and Candidates leave of a list, by induction on its length.  The *)
(* router (RouterInv): for each request what was sent and what is left are *)
(* what was offered, with one lemma for each step of ModalityRouter, which *)
(* the service's steps cite.  The service (ConvInv): what has been paid    *)
(* for is a prefix of the plan that the stage determines.                  *)
(***************************************************************************)
EXTENDS Conversion, SequenceTheorems, WellFoundedInduction, TLAPS

(* Mathematical induction, for a set: the library has it for an operator. *)
LEMMA InductionOn ==
    ASSUME NEW N, 0 \in N, \A n \in Nat : n \in N => n + 1 \in N
    PROVE  Nat \subseteq N
<1> SUFFICES ASSUME Nat \ N # {}
             PROVE  FALSE
  OBVIOUS
<1>1. PICK n \in Nat \ N : \A k \in Nat \ N : ~ <<k, n>> \in OpToRel(<, Nat)
  BY NatLessThanWellFounded, WFMin
<1>2. n # 0 /\ n - 1 \in Nat /\ n - 1 < n
  OBVIOUS
<1>3. <<n - 1, n>> \in OpToRel(<, Nat)
  BY <1>2 DEF OpToRel
<1>4. n - 1 \in N
  BY <1>1, <1>2, <1>3
<1> QED
  BY <1>2, <1>4

(* g is the recursive function by which Among keeps of the first n of s    *)
(* those in X.                                                             *)
IsKept(g, s, X, n) ==
    g = [i \in 0 .. n |->
            IF i = 0 THEN <<>>
            ELSE IF s[i] \in X THEN Append(g[i - 1], s[i]) ELSE g[i - 1]]

(* There is such a function: the recursion of Among is well-founded. *)
LEMMA KeptExists ==
    ASSUME NEW s, NEW X, NEW n \in Nat
    PROVE  \E g : IsKept(g, s, X, n)
<1> DEFINE N == {k \in Nat : \E g : IsKept(g, s, X, k)}
<1>1. 0 \in N
  <2>1. IsKept([i \in 0 .. 0 |-> <<>>], s, X, 0)
    BY DEF IsKept
  <2> QED
    BY <2>1
<1>2. ASSUME NEW k \in Nat, k \in N
      PROVE  k + 1 \in N
  <2>1. PICK g : IsKept(g, s, X, k)
    BY <1>2
  <2> DEFINE h == [i \in 0 .. k + 1 |->
                      IF i = 0 THEN <<>>
                      ELSE IF s[i] \in X THEN Append(g[i - 1], s[i]) ELSE g[i - 1]]
  <2>2. \A i \in 0 .. k : h[i] = g[i]
    <3> TAKE i \in 0 .. k
    <3>1. i \in 0 .. k + 1
      OBVIOUS
    <3>2. h[i] = IF i = 0 THEN <<>>
                 ELSE IF s[i] \in X THEN Append(g[i - 1], s[i]) ELSE g[i - 1]
      BY <3>1
    <3>3. g[i] = IF i = 0 THEN <<>>
                 ELSE IF s[i] \in X THEN Append(g[i - 1], s[i]) ELSE g[i - 1]
      BY <2>1, Zenon DEF IsKept
    <3> QED
      BY <3>2, <3>3, Zenon
  <2>3. \A i \in 0 .. k + 1 : i # 0 => g[i - 1] = h[i - 1]
    <3> TAKE i \in 0 .. k + 1
    <3> HAVE i # 0
    <3>1. i - 1 \in 0 .. k
      OBVIOUS
    <3> QED
      BY <2>2, <3>1, Zenon
  <2>4. h = [i \in 0 .. k + 1 |->
               IF i = 0 THEN <<>>
               ELSE IF s[i] \in X THEN Append(h[i - 1], s[i]) ELSE h[i - 1]]
    BY <2>3, Zenon
  <2>5. IsKept(h, s, X, k + 1)
    BY <2>4, Zenon DEF IsKept
  <2> QED
    BY <2>5
<1>3. Nat \subseteq N
  <2> HIDE DEF N
  <2> QED
    BY <1>1, <1>2, InductionOn
<1> QED
  BY <1>3

(* ... which does what it says at every place ... *)
LEMMA KeptAt ==
    ASSUME NEW s, NEW X, NEW n, NEW g, IsKept(g, s, X, n), NEW i \in 0 .. n
    PROVE  g[i] = IF i = 0 THEN <<>>
                  ELSE IF s[i] \in X THEN Append(g[i - 1], s[i]) ELSE g[i - 1]
BY Zenon DEF IsKept

(* ... and Among is its last value. *)
LEMMA AmongIsKept ==
    ASSUME NEW s, NEW X, Len(s) \in Nat
    PROVE  \E g : IsKept(g, s, X, Len(s)) /\ Among(s, X) = g[Len(s)]
<1> DEFINE g == CHOOSE g : IsKept(g, s, X, Len(s))
<1>1. IsKept(g, s, X, Len(s))
  BY KeptExists
<1>2. Among(s, X) = g[Len(s)]
  BY DEF Among, IsKept
<1> QED
  BY <1>1, <1>2

(* Among keeps what is in X and nothing else. *)
LEMMA AmongKeeps ==
    ASSUME NEW S, NEW s \in Seq(S), NEW X
    PROVE  /\ Among(s, X) \in Seq(S) /\ Len(Among(s, X)) =< Len(s)
           /\ \A j \in DOMAIN Among(s, X) :
                 Among(s, X)[j] \in X /\ \E i \in DOMAIN s : Among(s, X)[j] = s[i]
           /\ \A i \in DOMAIN s : s[i] \in X => \E j \in DOMAIN Among(s, X) : Among(s, X)[j] = s[i]
<1>1. PICK g : IsKept(g, s, X, Len(s)) /\ Among(s, X) = g[Len(s)]
  BY AmongIsKept
<1> DEFINE P(n) == /\ g[n] \in Seq(S) /\ Len(g[n]) =< n
                   /\ \A j \in DOMAIN g[n] : g[n][j] \in X /\ \E i \in 1 .. n : g[n][j] = s[i]
                   /\ \A i \in 1 .. n : s[i] \in X => \E j \in DOMAIN g[n] : g[n][j] = s[i]
           N == {n \in Nat : n =< Len(s) => P(n)}
<1>2. 0 \in N
  BY <1>1 DEF IsKept
<1>3. ASSUME NEW n \in Nat, n \in N
      PROVE  n + 1 \in N
  <2> SUFFICES ASSUME n + 1 =< Len(s)
               PROVE  P(n + 1)
    OBVIOUS
  <2>1. P(n) /\ n + 1 \in DOMAIN s /\ s[n + 1] \in S
    BY <1>3
  <2>2. g[n + 1] = IF s[n + 1] \in X THEN Append(g[n], s[n + 1]) ELSE g[n]
    <3> DEFINE m == n + 1
    <3>1. m \in 0 .. Len(s) /\ m # 0 /\ m - 1 = n
      OBVIOUS
    <3>2. g[m] = IF m = 0 THEN <<>>
                 ELSE IF s[m] \in X THEN Append(g[m - 1], s[m]) ELSE g[m - 1]
      <4>1. IsKept(g, s, X, Len(s))
        BY <1>1
      <4> HIDE DEF m
      <4> QED
        BY <4>1, <3>1, KeptAt
    <3> QED
      BY <3>1, <3>2
  <2>3. CASE s[n + 1] \in X
    <3>1. /\ g[n + 1] \in Seq(S) /\ Len(g[n + 1]) = Len(g[n]) + 1
          /\ DOMAIN g[n + 1] = DOMAIN g[n] \union {Len(g[n]) + 1}
          /\ g[n + 1][Len(g[n]) + 1] = s[n + 1]
          /\ \A j \in DOMAIN g[n] : g[n + 1][j] = g[n][j]
      BY <2>1, <2>2, <2>3
    <3>2. \A j \in DOMAIN g[n + 1] :
             g[n + 1][j] \in X /\ \E i \in 1 .. n + 1 : g[n + 1][j] = s[i]
      <4> TAKE j \in DOMAIN g[n + 1]
      <4>1. CASE j \in DOMAIN g[n]
        <5>1. PICK i \in 1 .. n : g[n][j] = s[i]
          BY <2>1, <4>1
        <5>2. g[n + 1][j] = s[i] /\ g[n + 1][j] \in X /\ i \in 1 .. n + 1
          BY <2>1, <3>1, <4>1, <5>1
        <5> QED
          BY <5>2, Zenon
      <4>2. CASE j = Len(g[n]) + 1
        BY <2>3, <3>1, <4>2
      <4> QED
        BY <3>1, <4>1, <4>2
    <3>3. \A i \in 1 .. n : s[i] \in X => \E j \in DOMAIN g[n + 1] : g[n + 1][j] = s[i]
      BY <2>1, <3>1
    <3>4. \E j \in DOMAIN g[n + 1] : g[n + 1][j] = s[n + 1]
      BY <3>1
    <3>5. \A i \in 1 .. n + 1 : i \in 1 .. n \/ i = n + 1
      OBVIOUS
    <3>6. Len(g[n + 1]) =< n + 1
      BY <2>1, <3>1
    <3> QED
      BY <3>1, <3>2, <3>3, <3>4, <3>5, <3>6, Zenon
  <2>4. CASE s[n + 1] \notin X
    BY <2>1, <2>2, <2>4
  <2> QED
    BY <2>3, <2>4
<1>4. Nat \subseteq N
  <2> HIDE DEF N
  <2> QED
    BY <1>2, <1>3, InductionOn
<1>5. P(Len(s))
  <2>1. Len(s) \in N
    BY <1>4
  <2> HIDE DEF P
  <2> QED
    BY <2>1
<1>6. DOMAIN s = 1 .. Len(s)
  OBVIOUS
<1> QED
  BY <1>1, <1>5, <1>6, Zenon

(* A preference that somebody fits leaves only those who fit. *)
LEMMA NarrowKeeps ==
    ASSUME NEW S, NEW s \in Seq(S), NEW X
    PROVE  /\ Narrow(s, X) \in Seq(S) /\ Len(Narrow(s, X)) =< Len(s)
           /\ \A j \in DOMAIN Narrow(s, X) : \E i \in DOMAIN s : Narrow(s, X)[j] = s[i]
           /\ (\E i \in DOMAIN s : s[i] \in X) =>
                 /\ \A j \in DOMAIN Narrow(s, X) : Narrow(s, X)[j] \in X
                 /\ \A i \in DOMAIN s :
                       s[i] \in X => \E j \in DOMAIN Narrow(s, X) : Narrow(s, X)[j] = s[i]
<1> DEFINE f == Among(s, X)
<1>1. /\ f \in Seq(S) /\ Len(f) =< Len(s)
      /\ \A j \in DOMAIN f : f[j] \in X /\ \E i \in DOMAIN s : f[j] = s[i]
      /\ \A i \in DOMAIN s : s[i] \in X => \E j \in DOMAIN f : f[j] = s[i]
  BY AmongKeeps
<1>2. Narrow(s, X) = IF f = <<>> THEN s ELSE f
  BY DEF Narrow
<1> HIDE DEF f
<1>3. (\E i \in DOMAIN s : s[i] \in X) => f # <<>>
  BY <1>1
<1> QED
  BY <1>1, <1>2, <1>3

Pair == Providers \X Models

(* What the capability map lists are pairs of a provider and a model. *)
LEMMA CapableType ==
    ASSUME NEW io
    PROVE  /\ CapableOf(io) \in Seq(Pair)
           /\ \A i \in DOMAIN CapableOf(io) : CapableOf(io)[i] \in Listed
           /\ CapableOf(io) # <<>> => io \in DOMAIN Capable
<1>1. CASE io \in DOMAIN Capable
  <2>1. CapableOf(io) = Capable[io] /\ Capable[io] \in Seq(Pair)
    BY <1>1, CatalogueAssumption DEF CapableOf, Pair
  <2>2. \A i \in DOMAIN Capable[io] : Capable[io][i] \in Listed
    BY <1>1 DEF Listed, ToSet
  <2> QED
    BY <1>1, <2>1, <2>2
<1>2. CASE io \notin DOMAIN Capable
  BY <1>2 DEF CapableOf
<1> QED
  BY <1>1, <1>2

(* What the router is offered: capable ones, and those of the preferred    *)
(* provider alone if the user can use it and it is among them.             *)
LEMMA CandidatesAre ==
    ASSUME NEW io, NEW usableBy, NEW preference,
           NEW c, c = Candidates(CapableOf(io), usableBy, preference)
    PROVE  /\ c \in Seq(Pair) /\ Len(c) =< Len(CapableOf(io))
           /\ \A j \in DOMAIN c : \E i \in DOMAIN CapableOf(io) : c[j] = CapableOf(io)[i]
           /\ (/\ preference[1] \in usableBy
               /\ \E i \in DOMAIN CapableOf(io) : CapableOf(io)[i][1] = preference[1])
                 => \A j \in DOMAIN c : c[j][1] = preference[1]
<1> DEFINE full == CapableOf(io)
           usable == Among(full, OfProviders(usableBy))
           byProvider == Narrow(usable, OfProviders({preference[1]}))
<1>1. full \in Seq(Pair) /\ \A i \in DOMAIN full : full[i] \in Listed
  BY CapableType
<1>2. c = Narrow(byProvider, OfModel(preference[2]))
  BY DEF Candidates
<1>3. /\ usable \in Seq(Pair) /\ Len(usable) =< Len(full)
      /\ \A j \in DOMAIN usable : \E i \in DOMAIN full : usable[j] = full[i]
      /\ \A i \in DOMAIN full : full[i] \in OfProviders(usableBy) =>
            \E j \in DOMAIN usable : usable[j] = full[i]
  <2> HIDE DEF full
  <2> QED
    BY <1>1, AmongKeeps
<1> HIDE DEF full, usable
<1>4. /\ byProvider \in Seq(Pair) /\ Len(byProvider) =< Len(usable)
      /\ \A j \in DOMAIN byProvider : \E i \in DOMAIN usable : byProvider[j] = usable[i]
      /\ (\E i \in DOMAIN usable : usable[i] \in OfProviders({preference[1]})) =>
            \A j \in DOMAIN byProvider : byProvider[j] \in OfProviders({preference[1]})
  <2> DEFINE Y == OfProviders({preference[1]})
  <2> HIDE DEF Y
  <2>1. usable \in Seq(Pair)
    BY <1>3
  <2>2. /\ Narrow(usable, Y) \in Seq(Pair) /\ Len(Narrow(usable, Y)) =< Len(usable)
        /\ \A j \in DOMAIN Narrow(usable, Y) : \E i \in DOMAIN usable : Narrow(usable, Y)[j] = usable[i]
    BY <2>1, NarrowKeeps
  <2>3. ASSUME \E i \in DOMAIN usable : usable[i] \in Y,
               NEW j \in DOMAIN Narrow(usable, Y)
        PROVE  Narrow(usable, Y)[j] \in Y
    BY <2>1, <2>3, NarrowKeeps
  <2> QED
    BY <2>2, <2>3 DEF Y
<1> HIDE DEF byProvider
<1>5. /\ c \in Seq(Pair) /\ Len(c) =< Len(byProvider)
      /\ \A j \in DOMAIN c : \E i \in DOMAIN byProvider : c[j] = byProvider[i]
  BY <1>2, <1>4, NarrowKeeps
<1>6. \A j \in DOMAIN c : \E i \in DOMAIN full : c[j] = full[i]
  <2> TAKE j \in DOMAIN c
  <2>1. PICK k \in DOMAIN byProvider : c[j] = byProvider[k]
    BY <1>5
  <2>2. PICK m \in DOMAIN usable : byProvider[k] = usable[m]
    BY <1>4
  <2> QED
    BY <1>3, <2>1, <2>2
<1>7. ASSUME preference[1] \in usableBy, \E i \in DOMAIN full : full[i][1] = preference[1]
      PROVE  \A j \in DOMAIN c : c[j][1] = preference[1]
  <2>1. PICK i \in DOMAIN full : full[i][1] = preference[1]
    BY <1>7
  <2>2. full[i] \in OfProviders(usableBy) /\ full[i] \in OfProviders({preference[1]})
    BY <1>1, <1>7, <2>1, Zenon DEF OfProviders
  <2>3. \A j \in DOMAIN byProvider : byProvider[j] \in OfProviders({preference[1]})
    BY <1>3, <1>4, <2>2, Zenon
  <2> QED
    BY <1>5, <2>3, Zenon DEF OfProviders
<1>8. Len(c) =< Len(full)
  BY <1>1, <1>3, <1>4, <1>5
<1> QED
  BY <1>5, <1>6, <1>7, <1>8 DEF full

-----------------------------------------------------------------------------
NamePairs     == Names \X Names
MaybeProvider == Providers \union {None}
MaybeModel    == Models \union {None}

(* The invariant of the router: types first. *)
RouterTypes ==
    /\ KeysTypeOK
    /\ pc \in [Requests -> Locations]
    /\ pair \in [Requests -> NamePairs \union {None}]
    /\ wanted \in [Requests -> MaybeProvider \X MaybeModel]
    /\ model \in [Requests -> MaybeModel]
    /\ held \in [Requests -> SUBSET Providers]
    /\ offered \in [Requests -> Seq(Pair)]
    /\ cands \in [Requests -> Seq(Pair)]
    /\ sent \in [Requests -> Seq(Pair)]
    /\ answer \in [Requests -> Errors \union {None, "ok"}]

(* s was sent and c is left of the offered o. *)
InOrder(s, c, o) ==
    /\ Len(s) + Len(c) = Len(o)
    /\ \A i \in 1 .. Len(s) : s[i][1] = o[i][1]
    /\ \A j \in 1 .. Len(c) : c[j] = o[Len(s) + j]

(* The offered o are capable of io, and all of the preferred provider p if *)
(* it is both among the usable and capable.                                *)
OfferedFor(o, io, usable, p) ==
    /\ Len(o) =< Len(CapableOf(io))
    /\ \A j \in 1 .. Len(o) : \E i \in DOMAIN CapableOf(io) : o[j] = CapableOf(io)[i]
    /\ (p \in usable /\ \E i \in DOMAIN CapableOf(io) : CapableOf(io)[i][1] = p)
          => \A j \in 1 .. Len(o) : o[j][1] = p

(* A preferred model m is the request's, and the one sent.  Without one    *)
(* the request has none before the first dispatch, and the model of one of *)
(* the offered o from then on.                                             *)
Named(m, requested, s, o) ==
    /\ m # None => requested = m
    /\ m = None /\ s = <<>> => requested = None
    /\ \A i \in 1 .. Len(s) : s[i][2] = requested
    /\ m = None /\ s # <<>> => \E j \in 1 .. Len(o) : o[j][2] = requested

(* Where the request is tells what it has. *)
At(l, s, c, a) ==
    /\ l \in {"idle", "filter"} => s = <<>>
    /\ l = "lookup" => c # <<>>
    /\ l = "dispatched" => s # <<>>
    /\ l # "done" => a = None
    /\ a = "ok" => s # <<>>
    /\ a = "all_failed" => c = <<>>

(* The invariant of one request in the loop of route. *)
Loop(r) ==
    /\ InOrder(sent[r], cands[r], offered[r])
    /\ OfferedFor(offered[r], pair[r], held[r], wanted[r][1])
    /\ Named(wanted[r][2], model[r], sent[r], offered[r])
    /\ At(pc[r], sent[r], cands[r], answer[r])

RouterInv == RouterTypes /\ \A r \in Requests : Loop(r)

(* A step leaves the request q as it was ... *)
SameRequest(q) ==
    /\ pc'[q] = pc[q] /\ pair'[q] = pair[q] /\ wanted'[q] = wanted[q] /\ model'[q] = model[q]
    /\ held'[q] = held[q] /\ offered'[q] = offered[q] /\ cands'[q] = cands[q]
    /\ sent'[q] = sent[q] /\ answer'[q] = answer[q]

(* ... and with it what is invariant of q. *)
LEMMA SameLoop ==
    ASSUME NEW q, SameRequest(q), Loop(q)
    PROVE  Loop(q)'
BY Zenon DEF SameRequest, Loop

(* A step of r leaves the others alone. *)
LEMMA OthersSame ==
    ASSUME RouterInv, NEW r \in Requests, RouterTypes', Loop(r)',
           \A q \in Requests : q # r => SameRequest(q)
    PROVE  RouterInv'
<1>1. ASSUME NEW q \in Requests
      PROVE  Loop(q)'
  BY SameLoop, <1>1 DEF RouterInv
<1> QED
  BY <1>1 DEF RouterInv

(* Of a call that begins or is forgotten nothing is left. *)
LEMMA FreshLoop ==
    ASSUME NEW r, offered'[r] = <<>>, cands'[r] = <<>>, sent'[r] = <<>>,
           model'[r] = wanted'[r][2],
           pc'[r] \in Locations \ {"lookup", "dispatched"},
           answer'[r] \in Errors \union {None},
           pc'[r] # "done" => answer'[r] = None
    PROVE  Loop(r)'
<1>1. InOrder(<<>>, <<>>, <<>>)
  BY DEF InOrder
<1>2. \A io, usable, p : OfferedFor(<<>>, io, usable, p)
  <2>1. \A io : Len(CapableOf(io)) \in Nat
    BY CapableType
  <2> QED
    BY <2>1 DEF OfferedFor
<1>3. \A m : Named(m, m, <<>>, <<>>)
  BY DEF Named
<1>4. At(pc'[r], <<>>, <<>>, answer'[r])
  BY RouterAssumption DEF At, Errors
<1> QED
  BY <1>1, <1>2, <1>3, <1>4, Zenon DEF Loop

(* The steps of the router, one lemma for each: the invariant is kept, and *)
(* what the service needs to know of the step.                             *)
LEMMA CallKeeps ==
    ASSUME RouterInv, NEW r \in Requests, NEW io \in NamePairs,
           NEW preference \in MaybeProvider \X MaybeModel,
           Call(r, io, preference)
    PROVE  /\ RouterInv'
           /\ pair'[r] = io /\ sent'[r] = <<>> /\ answer'[r] # "ok"
           /\ pc'[r] \in {"filter", "done"}
           /\ \A q \in Requests : q # r => SameRequest(q)
<1> USE DEF RouterTypes
<1>0. RouterTypes
  BY DEF RouterInv
<1>1. /\ pc' \in [Requests -> Locations] /\ pc'[r] \in {"filter", "done"}
      /\ answer' \in [Requests -> Errors \union {None, "ok"}]
      /\ answer'[r] \in Errors \union {None} /\ (pc'[r] # "done" => answer'[r] = None)
      /\ \A q \in Requests : q # r => pc'[q] = pc[q] /\ answer'[q] = answer[q]
  BY <1>0 DEF Call, Finish, Locations, Errors
<1>2. RouterTypes'
  BY <1>0, <1>1 DEF Call, keystore, KeysTypeOK
<1>3. \A q \in Requests : q # r => SameRequest(q)
  BY <1>0, <1>1 DEF Call, SameRequest
<1>4. Loop(r)'
  <2>1. /\ offered'[r] = <<>> /\ cands'[r] = <<>> /\ sent'[r] = <<>>
        /\ model'[r] = wanted'[r][2]
    BY <1>0 DEF Call
  <2> QED
    BY <1>1, <2>1, FreshLoop DEF Locations
<1>5. pair'[r] = io /\ sent'[r] = <<>> /\ answer'[r] # "ok"
  BY <1>0, <1>1, RouterAssumption DEF Call, Errors
<1> QED
  BY <1>1, <1>2, <1>3, <1>4, <1>5, OthersSame

LEMMA ReuseKeeps ==
    ASSUME RouterInv, NEW r \in Requests, Reuse(r)
    PROVE  /\ RouterInv' /\ pc'[r] = "idle" /\ answer'[r] = None
           /\ \A q \in Requests : q # r => SameRequest(q)
<1> USE DEF RouterTypes
<1>0. RouterTypes
  BY DEF RouterInv
<1>1. RouterTypes'
  BY <1>0 DEF Reuse, keystore, KeysTypeOK, Locations, MaybeProvider, MaybeModel
<1>2. \A q \in Requests : q # r => SameRequest(q)
  BY <1>0 DEF Reuse, SameRequest
<1>3. /\ offered'[r] = <<>> /\ cands'[r] = <<>> /\ sent'[r] = <<>>
      /\ model'[r] = wanted'[r][2] /\ pc'[r] = "idle" /\ answer'[r] = None
  BY <1>0 DEF Reuse
<1>4. Loop(r)'
  BY <1>3, FreshLoop DEF Locations
<1> QED
  BY <1>1, <1>2, <1>3, <1>4, OthersSame

LEMMA FilterKeeps ==
    ASSUME RouterInv, NEW r \in Requests, Filter(r)
    PROVE  /\ RouterInv' /\ answer'[r] # "ok" /\ pc'[r] \notin {"idle"}
           /\ sent'[r] = <<>> /\ pair'[r] = pair[r]
           /\ \A q \in Requests : q # r => SameRequest(q)
<1> DEFINE found == Candidates(CapableOf(pair[r]), Held, wanted[r])
<1>0. RouterTypes
  BY DEF RouterInv
<1>1. /\ pc[r] = "filter" /\ held'[r] = Held /\ offered'[r] = found /\ cands'[r] = found
      /\ wanted'[r] = wanted[r] /\ model'[r] = model[r] /\ sent'[r] = sent[r]
      /\ pair'[r] = pair[r]
  BY <1>0 DEF Filter, RouterTypes
<1>2. /\ found \in Seq(Pair) /\ Len(found) =< Len(CapableOf(pair[r]))
      /\ \A j \in DOMAIN found : \E i \in DOMAIN CapableOf(pair[r]) : found[j] = CapableOf(pair[r])[i]
      /\ (/\ wanted[r][1] \in Held
          /\ \E i \in DOMAIN CapableOf(pair[r]) : CapableOf(pair[r])[i][1] = wanted[r][1])
            => \A j \in DOMAIN found : found[j][1] = wanted[r][1]
  BY CandidatesAre
<1>3. Loop(r) /\ sent[r] = <<>> /\ answer[r] = None
  BY <1>1 DEF RouterInv, Loop, At
<1>4. /\ IF found = <<>> THEN pc'[r] = "done" /\ answer'[r] = "no_provider"
                          ELSE pc'[r] = "lookup" /\ answer'[r] = None
      /\ pc' \in [Requests -> Locations]
      /\ answer' \in [Requests -> Errors \union {None, "ok"}]
      /\ \A q \in Requests : q # r => pc'[q] = pc[q] /\ answer'[q] = answer[q]
  <2>1. held'[r] = Held
    BY <1>1
  <2>2. IF found = <<>>
          THEN Finish(r, "no_provider")
          ELSE pc' = [pc EXCEPT ![r] = "lookup"] /\ UNCHANGED answer
    BY <2>1, Zenon DEF Filter
  <2> HIDE DEF found
  <2> QED
    BY <1>0, <1>3, <2>2 DEF Finish, Locations, Errors, RouterTypes
<1>5. RouterTypes'
  <2>1. Held \subseteq Providers
    BY DEF Held
  <2>2. /\ held' = [held EXCEPT ![r] = Held] /\ offered' = [offered EXCEPT ![r] = found]
        /\ cands' = [cands EXCEPT ![r] = found]
        /\ UNCHANGED <<keystore, pair, wanted, model, sent>>
    BY <1>1 DEF Filter
  <2> HIDE DEF found
  <2> QED
    BY <1>0, <1>2, <1>4, <2>1, <2>2 DEF RouterTypes, keystore, KeysTypeOK
<1>6. \A q \in Requests : q # r => SameRequest(q)
  BY <1>0, <1>4 DEF Filter, SameRequest, RouterTypes
<1>7. Loop(r)'
  <2> HIDE DEF found
  <2>1. InOrder(<<>>, found, found)
    BY <1>2 DEF InOrder
  <2>2. OfferedFor(found, pair[r], Held, wanted[r][1])
    BY <1>2 DEF OfferedFor
  <2>3. Named(wanted[r][2], model[r], <<>>, found)
    BY <1>3 DEF Loop, Named
  <2>4. At(pc'[r], <<>>, found, answer'[r])
    BY <1>4, RouterAssumption DEF At, Errors
  <2> QED
    BY <1>1, <1>3, <2>1, <2>2, <2>3, <2>4, Zenon DEF Loop
<1> QED
  <2>1. answer'[r] # "ok" /\ pc'[r] # "idle"
    <3> HIDE DEF found
    <3> QED
      BY <1>4, RouterAssumption
  <2> QED
    BY <1>1, <1>3, <1>5, <1>6, <1>7, <2>1, OthersSame

(* Consequences of the order, for lists. *)
LEMMA InOrderLens ==
    ASSUME NEW s \in Seq(Pair), NEW c \in Seq(Pair), NEW o \in Seq(Pair), InOrder(s, c, o)
    PROVE  /\ Len(s) \in Nat /\ Len(c) \in Nat /\ Len(o) \in Nat /\ Len(s) + Len(c) = Len(o)
           /\ Len(s) =< Len(o) /\ \A i \in 1 .. Len(s) : i \in 1 .. Len(o)
<1>1. Len(s) \in Nat /\ Len(c) \in Nat /\ Len(o) \in Nat /\ Len(s) + Len(c) = Len(o)
  BY DEF InOrder
<1> QED
  BY <1>1

LEMMA ProvidersOfType ==
    ASSUME NEW s \in Seq(Pair)
    PROVE  /\ ProvidersOf(s) \in Seq(Providers) /\ Len(ProvidersOf(s)) = Len(s)
           /\ \A i \in 1 .. Len(s) : ProvidersOf(s)[i] = s[i][1]
<1>1. \A i \in DOMAIN s : s[i][1] \in Providers
  BY DEF Pair
<1> QED
  BY <1>1 DEF ProvidersOf

LEMMA InOrderProviders ==
    ASSUME NEW s \in Seq(Pair), NEW c \in Seq(Pair), NEW o \in Seq(Pair), InOrder(s, c, o)
    PROVE  ProvidersOf(s) \o ProvidersOf(c) = ProvidersOf(o)
<1> DEFINE a == ProvidersOf(s)
           b == ProvidersOf(c)
           d == ProvidersOf(o)
<1>1. /\ a \in Seq(Providers) /\ Len(a) = Len(s) /\ \A i \in 1 .. Len(s) : a[i] = s[i][1]
      /\ b \in Seq(Providers) /\ Len(b) = Len(c) /\ \A i \in 1 .. Len(c) : b[i] = c[i][1]
      /\ d \in Seq(Providers) /\ Len(d) = Len(o) /\ \A i \in 1 .. Len(o) : d[i] = o[i][1]
  BY ProvidersOfType
<1> HIDE DEF a, b, d
<1>2. Len(s) \in Nat /\ Len(c) \in Nat /\ Len(o) \in Nat /\ Len(s) + Len(c) = Len(o)
  BY DEF InOrder
<1>3. \A i \in 1 .. Len(s) : a[i] = d[i]
  BY <1>1, <1>2 DEF InOrder
<1>4. \A j \in 1 .. Len(c) : b[j] = d[Len(s) + j]
  <2> TAKE j \in 1 .. Len(c)
  <2>1. Len(s) + j \in 1 .. Len(o)
    BY <1>2
  <2>2. c[j] = o[Len(s) + j]
    BY DEF InOrder
  <2> QED
    BY <1>1, <2>1, <2>2
<1>5. a \o b \in Seq(Providers) /\ Len(a \o b) = Len(d)
  BY <1>1, <1>2
<1>6. ASSUME NEW i \in 1 .. Len(d)
      PROVE  (a \o b)[i] = d[i]
  <2>1. CASE i \in 1 .. Len(a)
    BY <1>1, <1>2, <1>3, <2>1
  <2>2. CASE i \notin 1 .. Len(a)
    <3>1. i - Len(a) \in 1 .. Len(b) /\ Len(s) + (i - Len(a)) = i
      BY <1>1, <1>2, <2>2
    <3>2. (a \o b)[i] = b[i - Len(a)]
      BY <1>1, <1>2, <2>2
    <3>3. b[i - Len(a)] = d[Len(s) + (i - Len(a))]
      BY <1>1, <1>4, <3>1
    <3> QED
      BY <3>1, <3>2, <3>3
  <2> QED
    BY <2>1, <2>2
<1>7. a \o b = d
  BY <1>1, <1>5, <1>6, SeqEqual
<1> QED
  BY <1>7 DEF a, b, d

LEMMA InOrderSuffix ==
    ASSUME NEW s \in Seq(Pair), NEW c \in Seq(Pair), NEW o \in Seq(Pair), InOrder(s, c, o)
    PROVE  IsSuffix(c, o)
<1>1. Len(s) \in Nat /\ Len(c) \in Nat /\ Len(o) \in Nat /\ Len(s) + Len(c) = Len(o)
  BY DEF InOrder
<1> DEFINE rc == Reverse(c)
           ro == Reverse(o)
<1>2. /\ rc \in Seq(Pair) /\ Len(rc) = Len(c) /\ \A i \in 1 .. Len(c) : rc[i] = c[(Len(c) - i) + 1]
      /\ ro \in Seq(Pair) /\ Len(ro) = Len(o) /\ \A i \in 1 .. Len(o) : ro[i] = o[(Len(o) - i) + 1]
  <2>1. \A i \in 1 .. Len(c) : c[(Len(c) - i) + 1] \in Pair
    OBVIOUS
  <2>2. \A i \in 1 .. Len(o) : o[(Len(o) - i) + 1] \in Pair
    OBVIOUS
  <2> QED
    BY <2>1, <2>2 DEF Reverse
<1> HIDE DEF rc, ro
<1>3. ASSUME NEW i \in 1 .. Len(c)
      PROVE  rc[i] = ro[i]
  <2>1. (Len(c) - i) + 1 \in 1 .. Len(c) /\ i \in 1 .. Len(o)
        /\ Len(s) + ((Len(c) - i) + 1) = (Len(o) - i) + 1
    BY <1>1
  <2>2. c[(Len(c) - i) + 1] = o[Len(s) + ((Len(c) - i) + 1)]
    BY <2>1 DEF InOrder
  <2> QED
    BY <1>2, <2>1, <2>2
<1>4. Len(rc) =< Len(ro)
  BY <1>1, <1>2
<1>5. SubSeq(rc, 1, Len(rc)) = SubSeq(ro, 1, Len(rc))
  BY <1>1, <1>2, <1>3, <1>4
<1> QED
  BY <1>4, <1>5 DEF IsSuffix, IsPrefix, rc, ro

(* A dispatch takes the next candidate, and its model unless one is given. *)
LEMMA DispatchKeeps ==
    ASSUME NEW s \in Seq(Pair), NEW c \in Seq(Pair), NEW o \in Seq(Pair), c # <<>>,
           InOrder(s, c, o), NEW m
    PROVE  /\ InOrder(Append(s, <<Head(c)[1], m>>), Tail(c), o)
           /\ \E j \in 1 .. Len(o) : Head(c) = o[j]
<1>1. Len(c) \in Nat /\ Len(c) > 0 /\ Len(s) \in Nat /\ Head(c) = c[1]
  OBVIOUS
<1> DEFINE t == Append(s, <<Head(c)[1], m>>)
<1>2. /\ t \in Seq(Pair \union {<<Head(c)[1], m>>})
      /\ Len(t) = Len(s) + 1 /\ Len(Tail(c)) = Len(c) - 1
      /\ \A i \in 1 .. Len(s) : t[i] = s[i]
      /\ t[Len(s) + 1] = <<Head(c)[1], m>>
      /\ \A j \in 1 .. Len(Tail(c)) : Tail(c)[j] = c[j + 1]
  <2> DEFINE x == <<Head(c)[1], m>>
  <2>1. x \in Pair \union {x} /\ s \in Seq(Pair \union {x})
    OBVIOUS
  <2> HIDE DEF x
  <2> QED
    BY <1>1, <2>1 
<1>3. Head(c) = o[Len(s) + 1] /\ Len(s) + 1 \in 1 .. Len(o)
  BY <1>1 DEF InOrder
<1>4. <<Head(c)[1], m>>[1] = o[Len(s) + 1][1]
  BY <1>3
<1> HIDE DEF t
<1>5. \A i \in 1 .. Len(t) : t[i][1] = o[i][1]
  <2> TAKE i \in 1 .. Len(t)
  <2>1. CASE i \in 1 .. Len(s)
    <3>1. t[i] = s[i]
      BY <1>2, <2>1
    <3>2. s[i][1] = o[i][1]
      BY <2>1, Zenon DEF InOrder
    <3> QED
      BY <3>1, <3>2
  <2>2. CASE i = Len(s) + 1
    BY <1>2, <1>4, <2>2
  <2> QED
    BY <1>1, <1>2, <2>1, <2>2
<1>6. \A j \in 1 .. Len(Tail(c)) : Tail(c)[j] = o[Len(t) + j]
  <2> TAKE j \in 1 .. Len(Tail(c))
  <2>1. j + 1 \in 1 .. Len(c) /\ Len(s) + (j + 1) = Len(t) + j
    BY <1>1, <1>2
  <2> QED
    BY <1>2, <2>1 DEF InOrder
<1>7. Len(t) + Len(Tail(c)) = Len(o)
  BY <1>1, <1>2 DEF InOrder
<1> QED
  BY <1>3, <1>5, <1>6, <1>7 DEF InOrder, t

(* The candidate dispatched to is capable of the pair. *)
LEMMA KeyFoundKeeps ==
    ASSUME RouterInv, NEW r \in Requests, KeyFound(r)
    PROVE  /\ RouterInv'
           /\ pc'[r] = "dispatched" /\ answer'[r] # "ok" /\ pair'[r] = pair[r]
           /\ sent[r] \in Seq(Pair) /\ Len(sent'[r]) = Len(sent[r]) + 1
           /\ \E i \in DOMAIN CapableOf(pair[r]) :
                 CapableOf(pair[r])[i] = Head(cands[r])
           /\ \A q \in Requests : q # r => SameRequest(q)
<1> DEFINE pm == Head(cands[r])
           chosen == IF model[r] = None THEN pm[2] ELSE model[r]
<1>0. RouterTypes /\ Loop(r)
  BY DEF RouterInv
<1>1. /\ pc[r] = "lookup" /\ cands[r] # <<>> /\ answer[r] = None
      /\ cands[r] \in Seq(Pair) /\ sent[r] \in Seq(Pair) /\ offered[r] \in Seq(Pair)
  BY <1>0 DEF KeyFound, Loop, At, RouterTypes
<1>2. pm \in Pair /\ pm[1] \in Providers /\ pm[2] \in Models /\ chosen \in Models
  BY <1>0, <1>1 DEF RouterTypes, Pair, MaybeModel
<1>3. KeysTypeOK'
  BY <1>0, <1>2 DEF KeyFound, CachedKey, StoredKey, RouterTypes, KeysTypeOK, keystore
<1>4. /\ sent' = [sent EXCEPT ![r] = Append(@, <<pm[1], chosen>>)]
      /\ model' = [model EXCEPT ![r] = chosen]
      /\ cands' = [cands EXCEPT ![r] = Tail(@)]
      /\ pc' = [pc EXCEPT ![r] = "dispatched"]
      /\ UNCHANGED <<pair, wanted, held, offered, answer>>
  BY DEF KeyFound, Dispatch
<1>5. <<pm[1], chosen>> \in Pair
  BY <1>2 DEF Pair
<1>6. /\ InOrder(Append(sent[r], <<pm[1], chosen>>), Tail(cands[r]), offered[r])
      /\ \E j \in 1 .. Len(offered[r]) : pm = offered[r][j]
  BY <1>0, <1>1, DispatchKeeps, Zenon DEF Loop
<1>7. Named(wanted[r][2], chosen, Append(sent[r], <<pm[1], chosen>>), offered[r])
  <2>1. Named(wanted[r][2], model[r], sent[r], offered[r])
    BY <1>0 DEF Loop
  <2>2. /\ model[r] # None => chosen = model[r]
        /\ model[r] = None => chosen = pm[2]
    OBVIOUS
  <2>3. PICK j \in 1 .. Len(offered[r]) : pm = offered[r][j]
    BY <1>6
  <2> HIDE DEF pm, chosen
  <2> DEFINE s == Append(sent[r], <<pm[1], chosen>>)
  <2>4. /\ Len(s) = Len(sent[r]) + 1 /\ s # <<>> /\ s[Len(s)][2] = chosen
        /\ \A i \in 1 .. Len(sent[r]) : s[i] = sent[r][i]
    <3> DEFINE last == <<pm[1], chosen>>
    <3>1. last \in Pair /\ last[2] = chosen
      BY <1>5
    <3> HIDE DEF last
    <3>2. /\ Append(sent[r], last) \in Seq(Pair)
          /\ Len(Append(sent[r], last)) = Len(sent[r]) + 1
          /\ Append(sent[r], last)[Len(sent[r]) + 1] = last
          /\ \A i \in 1 .. Len(sent[r]) : Append(sent[r], last)[i] = sent[r][i]
      BY <1>1, <3>1
    <3>3. s = Append(sent[r], last)
      BY DEF last
    <3> HIDE DEF s
    <3>4. Len(s) = Len(sent[r]) + 1 /\ s[Len(s)] = last
      BY <3>2, <3>3
    <3>5. s # <<>>
      BY <1>1, <3>4
    <3>6. s[Len(s)][2] = chosen
      BY <3>1, <3>4
    <3>7. \A i \in 1 .. Len(sent[r]) : s[i] = sent[r][i]
      BY <3>2, <3>3
    <3> QED
      BY <3>4, <3>5, <3>6, <3>7
  <2>5. model[r] = None => sent[r] = <<>>
    <3>1. \A i \in 1 .. Len(sent[r]) : sent[r][i][2] \in Models
      BY <1>1 DEF Pair
    <3>2. sent[r] # <<>> => 1 \in 1 .. Len(sent[r])
      BY <1>1
    <3> QED
      BY <2>1, <3>1, <3>2, CatalogueAssumption DEF Named
  <2>6. \A i \in 1 .. Len(s) : s[i][2] = chosen
    <3>1. \A i \in 1 .. Len(sent[r]) : s[i][2] = chosen
      BY <2>1, <2>2, <2>4, <2>5 DEF Named
    <3>2. \A i \in 1 .. Len(s) : i \in 1 .. Len(sent[r]) \/ i = Len(s)
      BY <1>1, <2>4
    <3> QED
      BY <2>4, <3>1, <3>2
  <2> HIDE DEF s
  <2>7. wanted[r][2] # None => chosen = wanted[r][2]
    BY <2>1, <2>2 DEF Named
  <2>8. wanted[r][2] = None => \E i \in 1 .. Len(offered[r]) : offered[r][i][2] = chosen
    <3>1. CASE model[r] = None
      BY <2>2, <2>3, <3>1
    <3>2. CASE model[r] # None
      BY <2>1, <2>2, <3>2 DEF Named
    <3> QED
      BY <3>1, <3>2
  <2> QED
    BY <2>4, <2>6, <2>7, <2>8 DEF Named, s
<1> HIDE DEF pm, chosen
<1>8. RouterTypes'
  BY <1>0, <1>1, <1>2, <1>3, <1>4, <1>5 DEF RouterTypes, Locations, MaybeModel
<1>9. \A q \in Requests : q # r => SameRequest(q)
  BY <1>0, <1>4 DEF SameRequest, RouterTypes
<1>10. /\ sent'[r] = Append(sent[r], <<pm[1], chosen>>) /\ cands'[r] = Tail(cands[r])
       /\ offered'[r] = offered[r] /\ wanted'[r] = wanted[r] /\ model'[r] = chosen
       /\ pair'[r] = pair[r] /\ held'[r] = held[r] /\ pc'[r] = "dispatched"
       /\ answer'[r] = None
  BY <1>0, <1>1, <1>4 DEF RouterTypes
<1>11. Len(sent'[r]) = Len(sent[r]) + 1 /\ sent'[r] # <<>>
  BY <1>1, <1>5, <1>10
<1>12. At("dispatched", sent'[r], cands'[r], None)
  BY <1>11, RouterAssumption DEF At, Errors
<1>13. Loop(r)'
  BY <1>0, <1>6, <1>7, <1>10, <1>12, Zenon DEF Loop
<1>14. \E i \in DOMAIN CapableOf(pair[r]) : CapableOf(pair[r])[i] = pm
  BY <1>0, <1>6 DEF Loop, OfferedFor
<1>15. answer'[r] # "ok"
  BY <1>10, RouterAssumption
<1> QED
  BY <1>1, <1>8, <1>9, <1>10, <1>11, <1>13, <1>14, <1>15, OthersSame DEF pm

(* A step that ends the call, or sends it on to the next candidate. *)
LEMMA OnlyOutcome ==
    ASSUME RouterInv, NEW r \in Requests, KeysTypeOK',
           UNCHANGED <<pair, wanted, model, held, offered, cands, sent>>,
           NEW l \in Locations,
           pc' = [pc EXCEPT ![r] = l],
           NEW a \in Errors \union {None, "ok"},
           answer' = [answer EXCEPT ![r] = a],
           At(l, sent[r], cands[r], a)
    PROVE  /\ RouterInv' /\ pc'[r] = l /\ answer'[r] = a
           /\ pair'[r] = pair[r] /\ sent'[r] = sent[r]
           /\ \A q \in Requests : q # r => SameRequest(q)
<1>0. RouterTypes /\ Loop(r)
  BY DEF RouterInv
<1>1. RouterTypes'
  BY <1>0 DEF RouterTypes
<1>2. \A q \in Requests : q # r => SameRequest(q)
  BY <1>0 DEF SameRequest, RouterTypes
<1>3. pc'[r] = l /\ answer'[r] = a
  BY <1>0 DEF RouterTypes
<1>4. Loop(r)'
  BY <1>0, <1>3, Zenon DEF Loop
<1> QED
  BY <1>1, <1>2, <1>3, <1>4, OthersSame

LEMMA KeyErrorKeeps ==
    ASSUME RouterInv, NEW r \in Requests, KeyError(r)
    PROVE  /\ RouterInv' /\ pc'[r] = "done" /\ answer'[r] # "ok"
           /\ pair'[r] = pair[r] /\ sent'[r] = sent[r]
           /\ \A q \in Requests : q # r => SameRequest(q)
<1>0. RouterTypes
  BY DEF RouterInv
<1>1. KeysTypeOK'
  BY <1>0 DEF KeyError, KeyMissing, KeyAmbiguous, keystore, RouterTypes, KeysTypeOK
<1>2. PICK a \in {"key_missing", "internal"} : Finish(r, a)
  BY DEF KeyError
<1>3. UNCHANGED <<pair, wanted, model, held, offered, cands, sent>>
  BY DEF KeyError
<1>4. At("done", sent[r], cands[r], a)
  BY DEF At
<1>5. a \in Errors \union {None, "ok"} /\ "done" \in Locations
  BY DEF Errors, Locations
<1> QED
  BY <1>1, <1>2, <1>3, <1>4, <1>5, OnlyOutcome DEF Finish

LEMMA SucceedKeeps ==
    ASSUME RouterInv, NEW r \in Requests, Succeed(r)
    PROVE  /\ RouterInv' /\ pc'[r] = "done" /\ answer'[r] = "ok"
           /\ pair'[r] = pair[r] /\ sent'[r] = sent[r] /\ sent[r] # <<>>
           /\ \A q \in Requests : q # r => SameRequest(q)
<1>0. RouterTypes /\ Loop(r)
  BY DEF RouterInv
<1>1. KeysTypeOK' /\ UNCHANGED <<pair, wanted, model, held, offered, cands, sent>>
  BY <1>0 DEF Succeed, keystore, RouterTypes, KeysTypeOK
<1>2. sent[r] # <<>> /\ At("done", sent[r], cands[r], "ok")
  BY <1>0 DEF Succeed, Loop, At
<1>3. "ok" \in Errors \union {None, "ok"} /\ "done" \in Locations
  BY DEF Locations
<1> QED
  BY <1>1, <1>2, <1>3, OnlyOutcome DEF Succeed, Finish

LEMMA FailOverKeeps ==
    ASSUME RouterInv, NEW r \in Requests, FailOver(r)
    PROVE  /\ RouterInv' /\ answer'[r] # "ok" /\ pc'[r] # "idle"
           /\ pair'[r] = pair[r] /\ sent'[r] = sent[r]
           /\ \A q \in Requests : q # r => SameRequest(q)
<1>0. RouterTypes /\ Loop(r)
  BY DEF RouterInv
<1>1. KeysTypeOK' /\ UNCHANGED <<pair, wanted, model, held, offered, cands, sent>>
  BY <1>0 DEF FailOver, keystore, RouterTypes, KeysTypeOK
<1>2. pc[r] = "dispatched" /\ answer[r] = None
  BY <1>0 DEF FailOver, Loop, At
<1>3. CASE cands[r] = <<>>
  <2>1. At("done", sent[r], cands[r], "all_failed")
    BY <1>3 DEF At
  <2>2. "all_failed" \in Errors \union {None, "ok"} /\ "done" \in Locations
    BY DEF Errors, Locations
  <2> QED
    BY <1>1, <1>3, <2>1, <2>2, OnlyOutcome DEF FailOver, Finish
<1>4. CASE cands[r] # <<>>
  <2>1. pc' = [pc EXCEPT ![r] = "lookup"] /\ answer' = [answer EXCEPT ![r] = None]
    BY <1>0, <1>2, <1>4 DEF FailOver, RouterTypes
  <2>2. At("lookup", sent[r], cands[r], None)
    BY <1>4, RouterAssumption DEF At, Errors
  <2>3. None \in Errors \union {None, "ok"} /\ "lookup" \in Locations /\ None # "ok"
    BY RouterAssumption DEF Errors, Locations
  <2> QED
    BY <1>1, <2>1, <2>2, <2>3, OnlyOutcome
<1> QED
  BY <1>3, <1>4

(* Keys that come and go do not disturb a request. *)
LEMMA KeysKeep ==
    ASSUME RouterInv, KeysNext, UNCHANGED request
    PROVE  RouterInv'
<1>1. KeysTypeOK'
  <2>1. KeysTypeOK
    BY DEF RouterInv, RouterTypes
  <2>2. PICK p \in Providers :
           (\E here \in BOOLEAN : AddKey(p, here) \/ DeleteKey(p, here)) \/ CacheExpires(p)
    BY DEF KeysNext
  <2>3. keys' \in [Providers -> 0 .. MaxKeys]
    BY <2>1, <2>2, KeysAssumption DEF AddKey, DeleteKey, CacheExpires, KeysTypeOK
  <2>4. cached' \subseteq Providers
    BY <2>1, <2>2 DEF AddKey, DeleteKey, CacheExpires, KeysTypeOK
  <2> QED
    BY <2>3, <2>4 DEF KeysTypeOK
<1>2. RouterTypes'
  BY <1>1 DEF RouterInv, RouterTypes, request
<1>3. ASSUME NEW q \in Requests
      PROVE  Loop(q)'
  BY SameLoop, <1>3 DEF RouterInv, request, SameRequest
<1> QED
  BY <1>2, <1>3 DEF RouterInv

LEMMA RouterStays ==
    ASSUME RouterInv, UNCHANGED vars
    PROVE  RouterInv' /\ \A q \in Requests : SameRequest(q)
<1>1. UNCHANGED <<keys, cached, pc, pair, wanted, model, held, offered, cands, sent, answer>>
  BY DEF vars
<1>2. RouterTypes'
  BY <1>1 DEF RouterInv, RouterTypes, KeysTypeOK
<1>3. \A q \in Requests : SameRequest(q)
  BY <1>1 DEF SameRequest
<1> QED
  BY <1>2, <1>3, SameLoop DEF RouterInv

(* The router sends no more than there are candidates for the pair. *)
LEMMA SentIsBounded ==
    ASSUME RouterInv, NEW r \in Requests
    PROVE  Len(sent[r]) \in Nat /\ Len(sent[r]) =< Len(CapableOf(pair[r]))
<1>1. /\ sent[r] \in Seq(Pair) /\ cands[r] \in Seq(Pair) /\ offered[r] \in Seq(Pair)
      /\ InOrder(sent[r], cands[r], offered[r])
      /\ Len(offered[r]) =< Len(CapableOf(pair[r]))
  BY DEF RouterInv, RouterTypes, Loop, OfferedFor
<1>2. Len(sent[r]) \in Nat /\ Len(sent[r]) =< Len(offered[r]) /\ Len(offered[r]) \in Nat
  BY <1>1, InOrderLens
<1>3. Len(CapableOf(pair[r])) \in Nat
  BY CapableType
<1> QED
  BY <1>1, <1>2, <1>3

-----------------------------------------------------------------------------
(* What a method of io is like. *)
Fits(io, m) ==
    /\ m.yields \subseteq MaybeEmpty
    /\ io \in {ImageGen, Speech, Embed} => m.reads = "prompt"
    /\ io = Vision => m.reads = "url"
    /\ io = Transcribe => m.reads = "data"

AllFit(f) == \A io \in DOMAIN f : Fits(io, f[io])

(* A table has nothing but its rows. *)
LEMMA TableRows ==
    ASSUME NEW rows, NEW x \in DOMAIN Table(rows)
    PROVE  \E row \in rows : x = row[1] /\ Table(rows)[x] = row[2]
<1>1. PICK row \in rows : x = row[1]
  BY DEF Table
<1>2. Table(rows)[x] = (CHOOSE rw \in rows : rw[1] = x)[2]
  BY DEF Table
<1> QED
  BY <1>1, <1>2

LEMMA TableFits ==
    ASSUME NEW rows, \A row \in rows : Fits(row[1], row[2])
    PROVE  AllFit(Table(rows))
BY TableRows DEF AllFit

(* The methods of all thirteen adapters are alike in what they read. *)
LEMMA MethodsFit ==
    ASSUME NEW p \in Adapters
    PROVE  AllFit(Methods[p])
<1> USE DEF Chat, ImageGen, Vision, Speech, Transcribe, Embed, TextToVideo, ImageToVideo
<1>1. /\ Fits(Chat, Ask) /\ Fits(ImageGen, Ask) /\ Fits(TextToVideo, Ask)
      /\ Fits(Vision, Look) /\ Fits(ImageToVideo, Look) /\ Fits(Transcribe, Listen)
      /\ Fits(Embed, Measure) /\ Fits(Speech, Drop) /\ Fits(ImageGen, Drop)
      /\ Fits(ImageGen, Stringify) /\ Fits(TextToVideo, Stringify)
      /\ Fits(ImageToVideo, Method("url", {"full"}))
  BY DEF Fits, Ask, Look, Listen, Measure, Drop, Stringify, Method, MaybeEmpty
<1> USE <1>1, TableFits
<1> HIDE DEF Chat, ImageGen, Vision, Speech, Transcribe, Embed, TextToVideo, ImageToVideo
<1>2. AllFit(AnthropicMethods) /\ AllFit(CohereMethods) /\ AllFit(DeepSeekMethods)
  BY DEF AnthropicMethods, CohereMethods, DeepSeekMethods
<1>3. AllFit(ElevenLabsMethods) /\ AllFit(FalMethods) 
  BY DEF ElevenLabsMethods, FalMethods
<1>4. AllFit(GoogleMethods)
  BY DEF GoogleMethods
<1>5. AllFit(GroqMethods) /\ AllFit(MistralMethods) /\ AllFit(OllamaMethods)
  BY DEF GroqMethods, MistralMethods, OllamaMethods
<1>6. AllFit(OpenAIMethods)
  BY DEF OpenAIMethods
<1>7. AllFit(ReplicateMethods) /\ AllFit(StabilityMethods) /\ AllFit(XAIMethods)
  BY DEF ReplicateMethods, StabilityMethods, XAIMethods
<1> QED
  BY <1>2, <1>3, <1>4, <1>5, <1>6, <1>7 DEF Adapters, Capabilities, Methods

(* The steps known are none for a media route, and never no steps. *)
LEMMA RouteTable ==
    ASSUME NEW io \in DOMAIN PIPELINE_ROUTES
    PROVE  /\ PIPELINE_ROUTES[io] \in Seq(NamePairs) /\ PIPELINE_ROUTES[io] # <<>>
           /\ io \notin {ImageGen, Vision, Speech, Transcribe, Embed}
<1> USE DEF Chat, ImageGen, Vision, Speech, Transcribe, Embed, NamePairs
<1>1. PICK row \in {<<<<"audio", "audio">>, <<Transcribe, Chat, Speech>>>>,
           <<<<"image", "audio">>, <<Vision, Speech>>>>,
           <<<<"audio", "image">>, <<Transcribe, ImageGen>>>>,
           <<<<"image", "image">>, <<Vision, ImageGen>>>>,
           <<<<"video", "text">>,  <<<<"video", "text">>>>>>} :
         io = row[1] /\ PIPELINE_ROUTES[io] = row[2]
  <2> HIDE DEF Chat, ImageGen, Vision, Speech, Transcribe, Embed, NamePairs
  <2> QED
    BY TableRows, Zenon DEF PIPELINE_ROUTES
<1>2. row[2] \in Seq(NamePairs) /\ row[2] # <<>>
  <2>1. /\ Chat \in NamePairs /\ ImageGen \in NamePairs /\ Vision \in NamePairs
        /\ Speech \in NamePairs /\ Transcribe \in NamePairs /\ <<"video", "text">> \in NamePairs
    BY DEF Names, Modality
  <2>2. row[2] \in {<<Transcribe, Chat, Speech>>, <<Vision, Speech>>, <<Transcribe, ImageGen>>,
                    <<Vision, ImageGen>>, <<<<"video", "text">>>>}
    OBVIOUS
  <2> DEFINE video == <<"video", "text">>
  <2> HIDE DEF Chat, ImageGen, Vision, Speech, Transcribe, Embed, NamePairs, video
  <2>3. /\ <<Transcribe, Chat, Speech>> \in Seq(NamePairs) /\ <<Vision, Speech>> \in Seq(NamePairs)
        /\ <<Transcribe, ImageGen>> \in Seq(NamePairs) /\ <<Vision, ImageGen>> \in Seq(NamePairs)
    BY <2>1
  <2>4. video \in NamePairs => <<video>> \in Seq(NamePairs)
    OBVIOUS
  <2>5. /\ <<Transcribe, Chat, Speech>> # <<>> /\ <<Vision, Speech>> # <<>>
        /\ <<Transcribe, ImageGen>> # <<>> /\ <<Vision, ImageGen>> # <<>> /\ <<video>> # <<>>
    OBVIOUS
  <2>6. row[2] \in {<<Transcribe, Chat, Speech>>, <<Vision, Speech>>, <<Transcribe, ImageGen>>,
                    <<Vision, ImageGen>>, <<video>>} /\ video \in NamePairs
    BY <2>1, <2>2 DEF video
  <2> QED
    BY <2>3, <2>4, <2>5, <2>6
<1>3. row[1] \notin {ImageGen, Vision, Speech, Transcribe, Embed}
  BY <1>1
<1> QED
  BY <1>1, <1>2, <1>3

(* Each media route puts its input where the methods of its pair read it. *)
LEMMA EndpointTable ==
    ASSUME NEW e \in Endpoints
    PROVE  /\ e.pair \in NamePairs /\ e.fallsBack \in BOOLEAN
           /\ ~e.fallsBack =>
                /\ e.pair \in {ImageGen, Vision, Speech, Transcribe, Embed}
                /\ \/ e.pair \in {ImageGen, Speech, Embed} /\ e.field = "prompt"
                   \/ e.pair = Vision /\ e.field = "url"
                   \/ e.pair = Transcribe /\ e.field = "data"
<1>1. CASE e \in {ImagesGenerate, ImagesVision, ImagesVisionUpload, AudioTTS, AudioSTT, Embeddings}
  <2> DEFINE Is(io, field) == e.fallsBack = FALSE /\ e.pair = io /\ e.field = field
  <2>2. e = ImagesGenerate => Is(ImageGen, "prompt")
    BY DEF ImagesGenerate, Endpoint
  <2>3. e = ImagesVision => Is(Vision, "url")
    BY DEF ImagesVision, Endpoint
  <2>4. e = ImagesVisionUpload => Is(Vision, "url")
    BY DEF ImagesVisionUpload, Endpoint
  <2>5. e = AudioTTS => Is(Speech, "prompt")
    BY DEF AudioTTS, Endpoint
  <2>6. e = AudioSTT => Is(Transcribe, "data")
    BY DEF AudioSTT, Endpoint
  <2>7. e = Embeddings => Is(Embed, "prompt")
    BY DEF Embeddings, Endpoint
  <2>1. \/ Is(ImageGen, "prompt") \/ Is(Vision, "url") \/ Is(Speech, "prompt")
        \/ Is(Transcribe, "data") \/ Is(Embed, "prompt")
    <3> HIDE DEF Is
    <3> QED
      BY <1>1, <2>2, <2>3, <2>4, <2>5, <2>6, <2>7, Zenon
  <2>8. /\ e.fallsBack = FALSE /\ e.pair \in {ImageGen, Vision, Speech, Transcribe, Embed}
        /\ \/ e.pair = ImageGen /\ e.field = "prompt"
           \/ e.pair = Vision /\ e.field = "url"
           \/ e.pair = Speech /\ e.field = "prompt"
           \/ e.pair = Transcribe /\ e.field = "data"
           \/ e.pair = Embed /\ e.field = "prompt"
    BY <2>1
  <2>9. e.pair \in NamePairs
    BY <2>8 DEF ImageGen, Vision, Speech, Transcribe, Embed, NamePairs, Names, Modality
  <2> QED
    BY <2>8, <2>9, Zenon
<1>2. CASE \E io \in Modality \X Names : e = ConversionsOf(io)
  <2>1. PICK io \in Modality \X Names : e = ConversionsOf(io)
    BY <1>2
  <2>2. e.pair = io /\ e.fallsBack = TRUE
    BY <2>1 DEF ConversionsOf, Endpoint
  <2>3. io \in NamePairs
    BY DEF Modality, Names, NamePairs
  <2> QED
    BY <2>2, <2>3
<1> QED
  BY <1>1, <1>2 DEF Endpoints

(* g is the recursive function of CandidatesUpTo. *)
Most(g, plan) ==
    g = [i \in 0 .. Len(plan) |->
            IF i = 0 THEN 0 ELSE g[i - 1] + Len(CapableOf(plan[i]))]

(* It exists, as Among's does, and never decreases. *)
LEMMA MostExists ==
    ASSUME NEW plan, Len(plan) \in Nat
    PROVE  \E g : Most(g, plan)
<1> DEFINE size(i) == Len(CapableOf(plan[i]))
           Upto(g, n) == g = [i \in 0 .. n |-> IF i = 0 THEN 0 ELSE g[i - 1] + size(i)]
           N == {n \in Nat : \E g : Upto(g, n)}
<1> HIDE DEF size
<1>1. 0 \in N
  <2>1. Upto([i \in 0 .. 0 |-> 0], 0)
    OBVIOUS
  <2> QED
    BY <2>1
<1>2. ASSUME NEW k \in Nat, k \in N
      PROVE  k + 1 \in N
  <2>1. PICK g : Upto(g, k)
    BY <1>2
  <2> DEFINE h == [i \in 0 .. k + 1 |-> IF i = 0 THEN 0 ELSE g[i - 1] + size(i)]
  <2>2. \A i \in 0 .. k : h[i] = g[i]
    <3> TAKE i \in 0 .. k
    <3>1. i \in 0 .. k + 1
      OBVIOUS
    <3>2. h[i] = IF i = 0 THEN 0 ELSE g[i - 1] + size(i)
      BY <3>1
    <3>3. g[i] = IF i = 0 THEN 0 ELSE g[i - 1] + size(i)
      BY <2>1, Zenon
    <3> QED
      BY <3>2, <3>3, Zenon
  <2>3. \A i \in 0 .. k + 1 : i # 0 => g[i - 1] = h[i - 1]
    <3> TAKE i \in 0 .. k + 1
    <3> HAVE i # 0
    <3>1. i - 1 \in 0 .. k
      OBVIOUS
    <3> QED
      BY <2>2, <3>1, Zenon
  <2>4. Upto(h, k + 1)
    BY <2>3, Zenon
  <2> HIDE DEF h, Upto
  <2> QED
    BY <2>4
<1>3. Nat \subseteq N
  <2> HIDE DEF N
  <2> QED
    BY <1>1, <1>2, InductionOn
<1>4. \E g : Upto(g, Len(plan))
  BY <1>3
<1> QED
  BY <1>4 DEF Most, size

LEMMA UpToIs ==
    ASSUME NEW plan, Len(plan) \in Nat
    PROVE  \E g : Most(g, plan) /\ \A n : CandidatesUpTo(plan, n) = g[n]
<1> DEFINE g == CHOOSE g : Most(g, plan)
<1>1. Most(g, plan)
  BY MostExists
<1>2. \A n : CandidatesUpTo(plan, n) = g[n]
  BY DEF CandidatesUpTo, Most
<1> QED
  BY <1>1, <1>2

LEMMA UpToGrows ==
    ASSUME NEW plan, Len(plan) \in Nat
    PROVE  /\ CandidatesUpTo(plan, 0) = 0
           /\ \A n \in 0 .. Len(plan) : CandidatesUpTo(plan, n) \in Nat
           /\ \A n \in 1 .. Len(plan) :
                 CandidatesUpTo(plan, n) = CandidatesUpTo(plan, n - 1) + Len(CapableOf(plan[n]))
           /\ \A n \in 0 .. Len(plan) : CandidatesUpTo(plan, n) =< CandidatesUpTo(plan, Len(plan))
<1>1. PICK g : Most(g, plan) /\ \A n : CandidatesUpTo(plan, n) = g[n]
  BY UpToIs
<1>2. g[0] = 0 /\ \A n \in 1 .. Len(plan) : g[n] = g[n - 1] + Len(CapableOf(plan[n]))
  <2>1. \A n \in 0 .. Len(plan) :
          g[n] = IF n = 0 THEN 0 ELSE g[n - 1] + Len(CapableOf(plan[n]))
    BY <1>1, Zenon DEF Most
  <2>2. 0 \in 0 .. Len(plan) /\ \A n \in 1 .. Len(plan) : n \in 0 .. Len(plan) /\ n # 0
    OBVIOUS
  <2> QED
    BY <2>1, <2>2, Zenon
<1>3. \A io : Len(CapableOf(io)) \in Nat
  BY CapableType
<1> DEFINE Up(n) == g[n] \in Nat /\ \A k \in 0 .. n : g[k] \in Nat /\ g[k] =< g[n]
           N == {n \in Nat : n =< Len(plan) => Up(n)}
<1>4. 0 \in N
  BY <1>2
<1>5. ASSUME NEW n \in Nat, n \in N
      PROVE  n + 1 \in N
  <2> SUFFICES ASSUME n + 1 =< Len(plan)
               PROVE  Up(n + 1)
    OBVIOUS
  <2>1. Up(n)
    BY <1>5
  <2>2. g[n + 1] = g[n] + Len(CapableOf(plan[n + 1]))
    <3>1. n + 1 \in 1 .. Len(plan) /\ n + 1 - 1 = n
      OBVIOUS
    <3> QED
      BY <1>2, <3>1
  <2>3. g[n + 1] \in Nat /\ g[n] =< g[n + 1]
    BY <1>3, <2>1, <2>2
  <2>4. ASSUME NEW k \in 0 .. n + 1
        PROVE  g[k] \in Nat /\ g[k] =< g[n + 1]
    <3>1. CASE k \in 0 .. n
      BY <2>1, <2>3, <3>1
    <3>2. CASE k = n + 1
      BY <2>3, <3>2
    <3> QED
      BY <3>1, <3>2
  <2> QED
    BY <2>3, <2>4
<1>6. Up(Len(plan))
  <2>1. Len(plan) \in N
    <3> HIDE DEF N
    <3> QED
      BY <1>4, <1>5, InductionOn
  <2> HIDE DEF Up
  <2> QED
    BY <2>1
<1>7. \A n \in 0 .. Len(plan) : g[n] \in Nat /\ g[n] =< g[Len(plan)]
  BY <1>6
<1>8. CandidatesUpTo(plan, 0) = 0
  BY <1>1, <1>2, Zenon
<1>9. \A n \in 0 .. Len(plan) : CandidatesUpTo(plan, n) \in Nat
  BY <1>1, <1>7, Zenon
<1>10. \A n \in 1 .. Len(plan) :
          CandidatesUpTo(plan, n) = CandidatesUpTo(plan, n - 1) + Len(CapableOf(plan[n]))
  BY <1>1, <1>2, Zenon
<1>11. \A n \in 0 .. Len(plan) : CandidatesUpTo(plan, n) =< CandidatesUpTo(plan, Len(plan))
  <2> TAKE n \in 0 .. Len(plan)
  <2>1. g[n] =< g[Len(plan)]
    BY <1>7
  <2>2. CandidatesUpTo(plan, n) = g[n] /\ CandidatesUpTo(plan, Len(plan)) = g[Len(plan)]
    BY <1>1
  <2> QED
    BY <2>1, <2>2
<1> QED
  BY <1>8, <1>9, <1>10, <1>11, Zenon

-----------------------------------------------------------------------------
Working == {"media", "direct", "again", "hop"}
Input   == Nat \union {Missing}

(* The invariant of the service: types first. *)
ConvTypes ==
    /\ stage \in [Requests -> Stages]
    /\ ask \in [Requests -> Endpoints \union {None}]
    /\ wish \in [Requests -> Wishes \union {None}]
    /\ hops \in [Requests -> Seq(NamePairs)]
    /\ data \in [Requests -> Nat]
    /\ output \in [Requests -> MaybeEmpty \union {None}]
    /\ paid \in [Requests -> Seq(NamePairs)]
    /\ tries \in [Requests -> Nat]
    /\ read \in [Requests -> SUBSET Input]
    /\ verdict \in [Requests -> Errors \union {None, "ok", "refused"}]

(* The handler at st, the router's call at l. *)
Tracks(st, l) ==
    /\ st = "idle" => l = "idle"
    /\ st = "done" => l \in {"idle", "done"}
    /\ st \in Working => l # "idle"

(* It has the request e, the preference w and the verdict v. *)
Asks(st, e, w, v) ==
    /\ st = "idle" => e = None
    /\ st # "idle" => e \in Endpoints
    /\ st = "media" => ~e.fallsBack
    /\ st \in {"direct", "again", "hop"} => e.fallsBack
    /\ st \in Working => w \in Wishes
    /\ st # "done" => v = None

(* The pipeline has come to h of the steps known, with h[1] in the router. *)
Hopping(e, io, h) ==
    LET route == PIPELINE_ROUTES[e.pair]
    IN  /\ CapableOf(e.pair) = <<>> /\ e.pair \in DOMAIN PIPELINE_ROUTES
        /\ Len(h) \in 1 .. Len(route)
        /\ \A j \in 1 .. Len(h) : h[j] = route[Len(route) - Len(h) + j]
        /\ io = h[1]

(* The calls answered are the steps begun, without the one not answered. *)
Paid(st, e, io, h, got, a, v) ==
    /\ st = "idle" => got = <<>>
    /\ st \in {"media", "direct", "again"} =>
          /\ io = e.pair
          /\ a = "ok" => got = <<io>> /\ CapableOf(io) # <<>>
          /\ a # "ok" => got = <<>>
    /\ st = "again" => CapableOf(e.pair) # <<>>
    /\ st = "hop" =>
          LET route == PIPELINE_ROUTES[e.pair]
          IN  /\ Hopping(e, io, h)
              /\ Len(got) = Len(route) - Len(h) + (IF a = "ok" THEN 1 ELSE 0)
              /\ \A i \in 1 .. Len(got) : got[i] = route[i]
    /\ st = "done" => IsPrefix(got, Plan(e.pair)) /\ (v = "ok" => got = Plan(e.pair))

(* n dispatches, of which s are of the router's present call. *)
Tried(st, e, h, n, s) ==
    /\ st = "idle" => n = 0
    /\ st \in {"media", "direct"} => n =< s
    /\ st = "again" => n =< s + Len(CapableOf(e.pair))
    /\ st = "hop" =>
          n =< s + CandidatesUpTo(PIPELINE_ROUTES[e.pair], Len(PIPELINE_ROUTES[e.pair]) - Len(h))
    /\ st = "done" => n =< MostTries(e)

(* The adapters are given d, and have read rd. *)
Reads(st, e, d, got, rd) ==
    /\ d \in 0 .. Len(got)
    /\ rd \subseteq (0 .. Len(got)) \union {Missing}
    /\ st \in {"idle", "media", "direct", "again"} => d = 0
    /\ st = "idle" => rd = {}
    /\ st # "idle" /\ ~e.fallsBack => rd \subseteq {0}

(* The invariant of one request in the hands of its handler. *)
Handled(r) ==
    /\ Tracks(stage[r], pc[r])
    /\ Asks(stage[r], ask[r], wish[r], verdict[r])
    /\ Paid(stage[r], ask[r], pair[r], hops[r], paid[r], answer[r], verdict[r])
    /\ Tried(stage[r], ask[r], hops[r], tries[r], Len(sent[r]))
    /\ Reads(stage[r], ask[r], data[r], paid[r], read[r])

ConvInv == RouterInv /\ ConvTypes /\ \A r \in Requests : Handled(r)

(* A step of one handler leaves those of the others alone. *)
SameService(q) ==
    /\ stage'[q] = stage[q] /\ ask'[q] = ask[q] /\ wish'[q] = wish[q] /\ hops'[q] = hops[q]
    /\ data'[q] = data[q] /\ paid'[q] = paid[q] /\ tries'[q] = tries[q]
    /\ read'[q] = read[q] /\ verdict'[q] = verdict[q]

LEMMA SameHandled ==
    ASSUME NEW q, SameRequest(q), SameService(q), Handled(q)
    PROVE  Handled(q)'
BY Zenon DEF SameRequest, SameService, Handled

LEMMA OthersHandled ==
    ASSUME ConvInv, NEW r \in Requests, RouterInv', ConvTypes', Handled(r)',
           \A q \in Requests : q # r => SameRequest(q) /\ SameService(q)
    PROVE  ConvInv'
<1>1. ASSUME NEW q \in Requests
      PROVE  Handled(q)'
  BY SameHandled, <1>1 DEF ConvInv
<1> QED
  BY <1>1 DEF ConvInv

(* What the parts say where the properties need it. *)
LEMMA PlanOne ==
    ASSUME NEW io, CapableOf(io) # <<>>
    PROVE  Plan(io) = <<io>>
BY DEF Plan

LEMMA PlanRoute ==
    ASSUME NEW io, CapableOf(io) = <<>>, io \in DOMAIN PIPELINE_ROUTES
    PROVE  Plan(io) = PIPELINE_ROUTES[io]
BY Zenon DEF Plan

LEMMA PlanType ==
    ASSUME NEW io \in NamePairs
    PROVE  Plan(io) \in Seq(NamePairs) /\ Plan(io) # <<>>
<1>1. <<io>> \in Seq(NamePairs) /\ <<io>> # <<>>
  OBVIOUS
<1> QED
  BY <1>1, RouteTable DEF Plan

(* What is paid for is a prefix of the plan, and all of it at an "ok". *)
LEMMA PaidIsPrefix ==
    ASSUME NEW st \in Stages, NEW e \in Endpoints, NEW io, NEW h \in Seq(NamePairs),
           NEW got \in Seq(NamePairs), NEW a, NEW v,
           Paid(st, e, io, h, got, a, v)
    PROVE  /\ IsPrefix(got, Plan(e.pair))
           /\ (st \in {"media", "direct", "again"} \/ (st = "hop" /\ Len(h) = 1))
                => (a = "ok" => got = Plan(e.pair))
<1>1. Plan(e.pair) \in Seq(NamePairs)
  BY PlanType, EndpointTable
<1>2. CASE got = <<>> /\ st # "hop"
  BY <1>1, <1>2 DEF IsPrefix, Paid
<1>3. CASE st \in {"media", "direct", "again"} /\ a = "ok"
  <2>1. got = Plan(e.pair)
    BY <1>3, PlanOne DEF Paid
  <2> QED
    BY <1>1, <2>1 DEF IsPrefix
<1>4. CASE st = "hop"
  <2> DEFINE route == PIPELINE_ROUTES[e.pair]
  <2>1. /\ Hopping(e, io, h) /\ Len(got) = Len(route) - Len(h) + (IF a = "ok" THEN 1 ELSE 0)
        /\ \A i \in 1 .. Len(got) : got[i] = route[i]
    BY <1>4 DEF Paid
  <2>2. Plan(e.pair) = route
    BY <2>1, PlanRoute DEF Hopping
  <2>3. Len(h) \in 1 .. Len(route) /\ route \in Seq(NamePairs)
    BY <1>1, <2>1, <2>2 DEF Hopping
  <2> HIDE DEF route
  <2>4. Len(got) =< Len(route)
    BY <2>1, <2>3
  <2>5. SubSeq(got, 1, Len(got)) = SubSeq(route, 1, Len(got))
    BY <2>1, <2>3, <2>4
  <2>6. Len(h) = 1 /\ a = "ok" => got = route
    BY <2>1, <2>3
  <2> QED
    BY <1>4, <2>2, <2>4, <2>5, <2>6 DEF IsPrefix
<1>5. CASE st = "done"
  BY <1>5 DEF Paid
<1> QED
  BY <1>2, <1>3, <1>4, <1>5 DEF Paid, Stages

(* The dispatches of the present call, and of those before, are bounded. *)
LEMMA TriedIsBounded ==
    ASSUME NEW st \in Stages, NEW e \in Endpoints, NEW io, NEW h \in Seq(NamePairs),
           NEW got, NEW a, NEW v, NEW n \in Nat, NEW s \in Nat, s =< Len(CapableOf(io)),
           Paid(st, e, io, h, got, a, v), Tried(st, e, h, n, s),
           st = "again" => e.fallsBack
    PROVE  n =< MostTries(e)
<1> DEFINE plan == Plan(e.pair)
           once == CandidatesUpTo(plan, Len(plan))
<1>1. plan \in Seq(NamePairs) /\ plan # <<>> /\ Len(plan) \in Nat
  BY PlanType, EndpointTable
<1>2. once \in Nat /\ Len(CapableOf(e.pair)) \in Nat
  BY <1>1, UpToGrows, CapableType
<1>3. MostTries(e) = IF e.fallsBack /\ CapableOf(e.pair) # <<>> THEN 2 * once ELSE once
  BY DEF MostTries
<1>4. Len(CapableOf(e.pair)) =< once
  <2>1. CASE CapableOf(e.pair) # <<>>
    <3>1. plan = <<e.pair>> /\ Len(plan) = 1 /\ plan[1] = e.pair
      BY <2>1, PlanOne
    <3> HIDE DEF plan
    <3>2. /\ CandidatesUpTo(plan, 0) = 0
          /\ \A k \in 1 .. Len(plan) :
                CandidatesUpTo(plan, k) = CandidatesUpTo(plan, k - 1) + Len(CapableOf(plan[k]))
      BY <1>1, UpToGrows
    <3>3. once = CandidatesUpTo(plan, 1) /\ 1 \in 1 .. Len(plan) /\ 1 - 1 = 0
      BY <3>1
    <3> HIDE DEF once
    <3> QED
      BY <1>2, <3>1, <3>2, <3>3
  <2>2. CASE CapableOf(e.pair) = <<>>
    BY <1>2, <2>2
  <2> QED
    BY <2>1, <2>2
<1> HIDE DEF once
<1>5. CASE st = "idle" \/ st = "done"
  BY <1>2, <1>3, <1>5 DEF Tried
<1>6. CASE st \in {"media", "direct"}
  BY <1>2, <1>3, <1>4, <1>6 DEF Tried, Paid
<1>7. CASE st = "again"
  <2>1. MostTries(e) = 2 * once
    BY <1>3, <1>7 DEF Paid
  <2>2. n =< s + Len(CapableOf(e.pair)) /\ io = e.pair
    BY <1>7 DEF Tried, Paid
  <2> QED
    BY <1>2, <1>4, <2>1, <2>2
<1>8. CASE st = "hop"
  <2> DEFINE k == Len(plan) - Len(h)
  <2>1. Hopping(e, io, h) /\ plan = PIPELINE_ROUTES[e.pair]
    BY <1>8, PlanRoute DEF Paid, Hopping
  <2>2. k + 1 \in 1 .. Len(plan) /\ io = plan[k + 1] /\ k \in 0 .. Len(plan) /\ k + 1 - 1 = k
    <3>1. Len(h) \in 1 .. Len(plan) /\ io = h[1] /\ \A j \in 1 .. Len(h) : h[j] = plan[Len(plan) - Len(h) + j]
      BY <2>1, Zenon DEF Hopping
    <3> HIDE DEF plan
    <3> QED
      BY <1>1, <3>1
  <2> HIDE DEF plan
  <2>3. n =< s + CandidatesUpTo(plan, k)
    BY <1>8, <2>1 DEF Tried
  <2> HIDE DEF k
  <2>4. CandidatesUpTo(plan, k + 1) = CandidatesUpTo(plan, k) + Len(CapableOf(plan[k + 1]))
    BY <1>1, <2>2, UpToGrows
  <2>5. CandidatesUpTo(plan, k + 1) =< once /\ CandidatesUpTo(plan, k) \in Nat
    BY <1>1, <2>2, UpToGrows DEF once
  <2>6. Len(CapableOf(io)) \in Nat
    BY CapableType
  <2> QED
    BY <1>2, <1>3, <2>2, <2>3, <2>4, <2>5, <2>6
<1> QED
  BY <1>5, <1>6, <1>7, <1>8 DEF Stages

(* A preference is one with its model dropped, too. *)
LEMMA WishType ==
    ASSUME NEW w \in Wishes
    PROVE  w \in MaybeProvider \X MaybeModel /\ <<w[1], None>> \in MaybeProvider \X MaybeModel
<1>1. w \in MaybeProvider \X MaybeModel
  BY ConversionAssumption DEF MaybeProvider, MaybeModel
<1>2. w[1] \in MaybeProvider /\ None \in MaybeModel
  BY <1>1 DEF MaybeModel
<1> QED
  BY <1>1, <1>2

(* A request is in the hands of an adapter that has a method for it. *)
LEMMA AdapterHasMethod ==
    ASSUME NEW io, NEW i \in DOMAIN CapableOf(io)
    PROVE  LET p == CapableOf(io)[i][1]
           IN  p \in Adapters /\ io \in DOMAIN Methods[p] /\ Fits(io, Methods[p][io])
<1> DEFINE p == CapableOf(io)[i][1]
<1>1. /\ CapableOf(io) \in Seq(Pair) /\ CapableOf(io) # <<>>
      /\ io \in DOMAIN Capable /\ CapableOf(io) = Capable[io]
  <2>1. CapableOf(io) \in Seq(Pair)
    BY CapableType
  <2> QED
    BY <2>1, CapableType DEF CapableOf
<1>2. Capable[io][i] \in ToSet(Capable[io])
  BY <1>1 DEF ToSet
<1>3. p \in Adapters /\ io \in DOMAIN Capabilities[p]
  BY <1>1, <1>2, ConversionAssumption
<1>4. io \in DOMAIN Methods[p]
  BY <1>3, MethodsAssumption
<1> QED
  BY <1>3, <1>4, MethodsFit DEF AllFit

LEMMA MostTriesType ==
    ASSUME NEW e \in Endpoints
    PROVE  MostTries(e) \in Nat
<1> DEFINE plan == Plan(e.pair)
<1>1. plan \in Seq(NamePairs)
  BY PlanType, EndpointTable
<1>2. Len(plan) \in Nat /\ Len(plan) \in 0 .. Len(plan)
  BY <1>1
<1>3. CandidatesUpTo(plan, Len(plan)) \in Nat
  <2> HIDE DEF plan
  <2> QED
    BY <1>2, UpToGrows
<1> QED
  BY <1>3 DEF MostTries

(* One lemma for each step of the service. *)
LEMMA SubmitKeeps ==
    ASSUME ConvInv, NEW r \in Requests, NEW e \in Endpoints, NEW w \in Wishes, Submit(r, e, w)
    PROVE  ConvInv'
<1>0. RouterInv /\ ConvTypes /\ Handled(r)
  BY DEF ConvInv
<1>1. /\ RouterInv' /\ pair'[r] = e.pair /\ sent'[r] = <<>> /\ answer'[r] # "ok"
      /\ pc'[r] \in {"filter", "done"} /\ \A q \in Requests : q # r => SameRequest(q)
  BY <1>0, WishType, EndpointTable, CallKeeps DEF Submit
<1>2. /\ stage[r] = "idle"
      /\ stage' = [stage EXCEPT ![r] = IF e.fallsBack THEN "direct" ELSE "media"]
      /\ ask' = [ask EXCEPT ![r] = e] /\ wish' = [wish EXCEPT ![r] = w]
      /\ UNCHANGED <<hops, data, output, paid, tries, read, verdict>>
  BY DEF Submit, Enter
<1>3. ConvTypes'
  BY <1>0, <1>2 DEF ConvTypes, Stages
<1>4. \A q \in Requests : q # r => SameService(q)
  BY <1>0, <1>2 DEF ConvTypes, SameService
<1>5. /\ stage'[r] = (IF e.fallsBack THEN "direct" ELSE "media")
      /\ ask'[r] = e /\ wish'[r] = w /\ paid'[r] = paid[r] /\ tries'[r] = tries[r]
      /\ read'[r] = read[r] /\ data'[r] = data[r] /\ verdict'[r] = verdict[r] /\ hops'[r] = hops[r]
  BY <1>0, <1>2 DEF ConvTypes
<1>6. /\ paid[r] = <<>> /\ tries[r] = 0 /\ read[r] = {} /\ data[r] = 0 /\ verdict[r] = None
  BY <1>0, <1>2 DEF Handled, Asks, Paid, Tried, Reads
<1>7. stage'[r] \in {"direct", "media"}
  BY <1>5
<1>8. Tracks(stage'[r], pc'[r]) /\ Asks(stage'[r], e, w, None)
  BY <1>1, <1>5 DEF Tracks, Asks
<1>9. /\ Paid(stage'[r], e, e.pair, hops[r], <<>>, answer'[r], None)
      /\ Tried(stage'[r], e, hops[r], 0, Len(<<>>))
  <2>1. Paid(stage'[r], e, e.pair, hops[r], <<>>, answer'[r], None)
    BY <1>1, <1>7 DEF Paid
  <2>2. Tried(stage'[r], e, hops[r], 0, Len(<<>>))
    <3>1. 0 =< Len(<<>>)
      OBVIOUS
    <3> QED
      BY <1>7, <3>1 DEF Tried
  <2> QED
    BY <2>1, <2>2
<1>10. Reads(stage'[r], e, 0, <<>>, {})
  BY <1>7 DEF Reads
<1>11. Handled(r)'
  BY <1>1, <1>5, <1>6, <1>8, <1>9, <1>10, Zenon DEF Handled
<1> QED
  BY <1>1, <1>3, <1>4, <1>11, OthersHandled

LEMMA RefuseKeeps ==
    ASSUME ConvInv, NEW r \in Requests, NEW e \in Endpoints, Refuse(r, e)
    PROVE  ConvInv'
<1>0. RouterInv /\ ConvTypes /\ Handled(r)
  BY DEF ConvInv
<1>1. RouterInv' /\ \A q \in Requests : SameRequest(q)
  BY <1>0, RouterStays DEF Refuse
<1>2. /\ stage[r] = "idle"
      /\ stage' = [stage EXCEPT ![r] = "done"] /\ verdict' = [verdict EXCEPT ![r] = "refused"]
      /\ ask' = [ask EXCEPT ![r] = e]
      /\ UNCHANGED <<wish, hops, data, output, paid, tries, read>>
  BY DEF Refuse, Reply, Enter
<1>3. ConvTypes'
  BY <1>0, <1>2 DEF ConvTypes, Stages
<1>4. \A q \in Requests : q # r => SameService(q)
  BY <1>0, <1>2 DEF ConvTypes, SameService
<1>5. /\ stage'[r] = "done" /\ verdict'[r] = "refused" /\ ask'[r] = e
      /\ wish'[r] = wish[r] /\ paid'[r] = paid[r] /\ tries'[r] = tries[r]
      /\ read'[r] = read[r] /\ data'[r] = data[r] /\ hops'[r] = hops[r]
      /\ pc'[r] = pc[r] /\ pair'[r] = pair[r] /\ answer'[r] = answer[r] /\ sent'[r] = sent[r]
  BY <1>0, <1>1, <1>2 DEF ConvTypes, SameRequest
<1>6. /\ paid[r] = <<>> /\ tries[r] = 0 /\ read[r] = {} /\ data[r] = 0 /\ pc[r] = "idle"
  BY <1>0, <1>2 DEF Handled, Asks, Paid, Tried, Reads, Tracks
<1>7. Tracks("done", "idle") /\ Asks("done", e, wish[r], "refused")
  BY DEF Tracks, Asks, Working
<1>8. IsPrefix(<<>>, Plan(e.pair))
  BY PlanType, EndpointTable DEF IsPrefix
<1>9. Paid("done", e, pair[r], hops[r], <<>>, answer[r], "refused")
  BY <1>8 DEF Paid
<1>10. Tried("done", e, hops[r], 0, Len(sent[r]))
  <2>1. 0 =< MostTries(e)
    BY MostTriesType
  <2> QED
    BY <2>1 DEF Tried
<1>11. Reads("done", e, 0, <<>>, {})
  BY DEF Reads
<1>12. Handled(r)'
  BY <1>5, <1>6, <1>7, <1>9, <1>10, <1>11, Zenon DEF Handled
<1> QED
  BY <1>1, <1>3, <1>4, <1>12, OthersHandled

(* Where a request is when the router's call of it is out. *)
LEMMA WhileOut ==
    ASSUME ConvInv, NEW r \in Requests, pc[r] \notin {"idle", "done"}
    PROVE  /\ stage[r] \in Working /\ ask[r] \in Endpoints /\ pair[r] \in NamePairs
           /\ answer[r] = None
<1>1. ConvTypes /\ Handled(r) /\ Loop(r)
  BY DEF ConvInv, RouterInv
<1>2. stage[r] \in Working
  BY <1>1 DEF ConvTypes, Handled, Tracks, Stages, Working
<1>3. ask[r] \in Endpoints
  BY <1>1, <1>2 DEF Handled, Asks, Working
<1>4. CASE stage[r] = "hop"
  <2>1. /\ hops[r] \in Seq(NamePairs) /\ pair[r] = hops[r][1] /\ Len(hops[r]) >= 1
    <3>1. Hopping(ask[r], pair[r], hops[r])
      BY <1>1, <1>4 DEF Handled, Paid
    <3>2. PIPELINE_ROUTES[ask[r].pair] \in Seq(NamePairs)
      BY <3>1, RouteTable DEF Hopping
    <3> QED
      BY <1>1, <3>1, <3>2 DEF ConvTypes, Hopping
  <2> QED
    BY <1>1, <1>2, <1>3, <2>1 DEF Loop, At
<1>5. CASE stage[r] # "hop"
  <2>1. pair[r] = ask[r].pair
    BY <1>1, <1>2, <1>5 DEF Handled, Paid, Working
  <2> QED
    BY <1>1, <1>2, <1>3, <2>1, EndpointTable DEF Loop, At
<1> QED
  BY <1>4, <1>5

(* One dispatch more in the present call is one more in all. *)
LEMMA OneMoreTry ==
    ASSUME NEW st \in Working, NEW e, NEW h, NEW n \in Nat, NEW s \in Nat, Tried(st, e, h, n, s),
           Len(CapableOf(e.pair)) \in Nat,
           st = "hop" =>
             CandidatesUpTo(PIPELINE_ROUTES[e.pair], Len(PIPELINE_ROUTES[e.pair]) - Len(h)) \in Nat
    PROVE  Tried(st, e, h, n + 1, s + 1)
<1> DEFINE c == CandidatesUpTo(PIPELINE_ROUTES[e.pair], Len(PIPELINE_ROUTES[e.pair]) - Len(h))
           d == Len(CapableOf(e.pair))
<1> SUFFICES /\ st \in {"media", "direct"} => n + 1 =< s + 1
             /\ st = "again" => n + 1 =< s + 1 + d
             /\ st = "hop" => n + 1 =< s + 1 + c
  BY Zenon DEF Tried, Working
<1>1. /\ st \in {"media", "direct"} => n =< s
      /\ st = "again" => n =< s + d
      /\ st = "hop" => n =< s + c
  BY Zenon DEF Tried
<1> HIDE DEF c, d
<1> QED
  BY <1>1 DEF c, d

LEMMA SendsKeeps ==
    ASSUME ConvInv, NEW r \in Requests, Sends(r)
    PROVE  ConvInv'
<1> DEFINE p == Head(cands[r])[1]
           m == Medium(r, p)
<1>0. RouterInv /\ ConvTypes /\ Handled(r)
  BY DEF ConvInv
<1>1. /\ RouterInv' /\ pc'[r] = "dispatched" /\ answer'[r] # "ok" /\ pair'[r] = pair[r]
      /\ sent[r] \in Seq(Pair) /\ Len(sent'[r]) = Len(sent[r]) + 1
      /\ \E i \in DOMAIN CapableOf(pair[r]) : CapableOf(pair[r])[i] = Head(cands[r])
      /\ \A q \in Requests : q # r => SameRequest(q)
  BY <1>0, KeyFoundKeeps DEF Sends
<1>2. /\ read' = [read EXCEPT ![r] = @ \union {m}] /\ tries' = [tries EXCEPT ![r] = @ + 1]
      /\ UNCHANGED <<stage, ask, wish, hops, data, output, paid, verdict>>
  BY DEF Sends
<1>3. stage[r] \in Working /\ ask[r] \in Endpoints /\ answer[r] = None /\ None # "ok"
  BY WhileOut, RouterAssumption DEF Sends, KeyFound
<1>4. Fits(pair[r], Methods[p][pair[r]])
  BY <1>1, AdapterHasMethod
<1>5. m \in {data[r], Missing}
  BY DEF Medium
<1>6. stage[r] # "hop" /\ ~ask[r].fallsBack => m = 0
  <2>1. SUFFICES ASSUME stage[r] # "hop", ~ask[r].fallsBack
                 PROVE  m = 0
    OBVIOUS
  <2>2. pair[r] = ask[r].pair /\ data[r] = 0
    BY <1>0, <1>3, <2>1 DEF Handled, Paid, Reads, Working
  <2>3. Methods[p][pair[r]].reads = ask[r].field
    BY <1>3, <1>4, <2>1, <2>2, EndpointTable DEF Fits
  <2> QED
    BY <2>2, <2>3 DEF Medium
<1> HIDE DEF m
<1>7. ConvTypes'
  <2>1. m \in Input
    BY <1>0, <1>5 DEF ConvTypes, Input
  <2> QED
    BY <1>0, <1>2, <2>1 DEF ConvTypes
<1>8. \A q \in Requests : q # r => SameService(q)
  BY <1>0, <1>2 DEF ConvTypes, SameService
<1>9. /\ read'[r] = read[r] \union {m} /\ tries'[r] = tries[r] + 1 /\ tries[r] \in Nat
      /\ stage'[r] = stage[r] /\ ask'[r] = ask[r] /\ wish'[r] = wish[r] /\ hops'[r] = hops[r]
      /\ data'[r] = data[r] /\ paid'[r] = paid[r] /\ verdict'[r] = verdict[r]
  BY <1>0, <1>2 DEF ConvTypes
<1>10. Tracks(stage[r], "dispatched")
  BY <1>3 DEF Tracks, Working
<1>11. Paid(stage[r], ask[r], pair[r], hops[r], paid[r], answer'[r], verdict[r])
  BY <1>0, <1>1, <1>3 DEF Handled, Paid
<1>12. Tried(stage[r], ask[r], hops[r], tries[r] + 1, Len(sent[r]) + 1)
  <2>1. Tried(stage[r], ask[r], hops[r], tries[r], Len(sent[r])) /\ Len(sent[r]) \in Nat
    BY <1>0, <1>1 DEF Handled
  <2>2. Len(CapableOf(ask[r].pair)) \in Nat
    BY CapableType
  <2>3. stage[r] = "hop" =>
          CandidatesUpTo(PIPELINE_ROUTES[ask[r].pair],
                         Len(PIPELINE_ROUTES[ask[r].pair]) - Len(hops[r])) \in Nat
    <3> SUFFICES ASSUME stage[r] = "hop"
                 PROVE  CandidatesUpTo(PIPELINE_ROUTES[ask[r].pair],
                         Len(PIPELINE_ROUTES[ask[r].pair]) - Len(hops[r])) \in Nat
      OBVIOUS
    <3> DEFINE route == PIPELINE_ROUTES[ask[r].pair]
    <3>1. Hopping(ask[r], pair[r], hops[r])
      BY <1>0 DEF Handled, Paid
    <3>2. route \in Seq(NamePairs) /\ Len(hops[r]) \in 1 .. Len(route)
      BY <3>1, RouteTable DEF Hopping
    <3> HIDE DEF route
    <3>3. Len(route) - Len(hops[r]) \in 0 .. Len(route) /\ Len(route) \in Nat
      BY <3>2
    <3> QED
      BY <3>3, UpToGrows DEF route
  <2> QED
    BY <1>3, <1>9, <2>1, <2>2, <2>3, OneMoreTry
<1>13. Reads(stage[r], ask[r], data[r], paid[r], read[r] \union {m})
  <2>1. Reads(stage[r], ask[r], data[r], paid[r], read[r])
    BY <1>0 DEF Handled
  <2>2. stage[r] = "hop" => ask[r].fallsBack
    BY <1>0 DEF Handled, Asks
  <2> QED
    BY <1>3, <1>5, <1>6, <2>1, <2>2 DEF Reads, Working
<1>14. Handled(r)'
  <2>1. Asks(stage[r], ask[r], wish[r], verdict[r])
    BY <1>0 DEF Handled
  <2> QED
    BY <1>1, <1>9, <1>10, <1>11, <1>12, <1>13, <2>1, Zenon DEF Handled
<1> QED
  BY <1>1, <1>7, <1>8, <1>14, OthersHandled

LEMMA AnswersKeeps ==
    ASSUME ConvInv, NEW r \in Requests, Answers(r)
    PROVE  ConvInv'
<1>0. RouterInv /\ ConvTypes /\ Handled(r)
  BY DEF ConvInv
<1>1. /\ RouterInv' /\ pc'[r] = "done" /\ answer'[r] = "ok" /\ sent[r] # <<>>
      /\ pair'[r] = pair[r] /\ sent'[r] = sent[r] /\ \A q \in Requests : q # r => SameRequest(q)
  BY <1>0, SucceedKeeps DEF Answers
<1>2. /\ paid' = [paid EXCEPT ![r] = Append(@, pair[r])]
      /\ UNCHANGED <<stage, ask, wish, hops, data, tries, read, verdict>>
  BY DEF Answers
<1>3. /\ stage[r] \in Working /\ ask[r] \in Endpoints /\ pair[r] \in NamePairs
      /\ answer[r] = None /\ None # "ok"
  BY WhileOut, RouterAssumption DEF Answers, Succeed
<1>4. \E i \in DOMAIN CapableOf(pair[r]) : CapableOf(pair[r])[i][1] = Last(sent[r])[1]
  <2>1. Loop(r) /\ sent[r] \in Seq(Pair) /\ offered[r] \in Seq(Pair) /\ cands[r] \in Seq(Pair)
    BY <1>0 DEF RouterInv, RouterTypes
  <2>2. Len(sent[r]) \in 1 .. Len(sent[r]) /\ Len(sent[r]) \in 1 .. Len(offered[r])
    BY <1>1, <2>1, InOrderLens DEF Loop
  <2>3. sent[r][Len(sent[r])][1] = offered[r][Len(sent[r])][1]
    BY <2>1, <2>2, Zenon DEF Loop, InOrder
  <2>4. PICK i \in DOMAIN CapableOf(pair[r]) : offered[r][Len(sent[r])] = CapableOf(pair[r])[i]
    BY <2>1, <2>2, Zenon DEF Loop, OfferedFor
  <2> QED
    BY <2>3, <2>4 DEF Last
<1>5. PICK o \in MaybeEmpty : output' = [output EXCEPT ![r] = o]
  <2>1. PICK o \in Methods[Last(sent[r])[1]][pair[r]].yields : output' = [output EXCEPT ![r] = o]
    BY DEF Answers
  <2>2. Fits(pair[r], Methods[Last(sent[r])[1]][pair[r]])
    BY <1>4, AdapterHasMethod
  <2> QED
    BY <2>1, <2>2 DEF Fits
<1>6. ConvTypes'
  BY <1>0, <1>2, <1>3, <1>5 DEF ConvTypes
<1>7. \A q \in Requests : q # r => SameService(q)
  BY <1>0, <1>2 DEF ConvTypes, SameService
<1>8. /\ paid'[r] = Append(paid[r], pair[r]) /\ paid[r] \in Seq(NamePairs) /\ tries'[r] = tries[r]
      /\ stage'[r] = stage[r] /\ ask'[r] = ask[r] /\ wish'[r] = wish[r] /\ hops'[r] = hops[r]
      /\ data'[r] = data[r] /\ read'[r] = read[r] /\ verdict'[r] = verdict[r]
  BY <1>0, <1>2 DEF ConvTypes
<1>9. /\ Len(paid'[r]) = Len(paid[r]) + 1
      /\ \A i \in 1 .. Len(paid[r]) : paid'[r][i] = paid[r][i]
      /\ paid'[r][Len(paid[r]) + 1] = pair[r] /\ paid'[r] \in Seq(NamePairs)
  BY <1>3, <1>8
<1>10. Paid(stage[r], ask[r], pair[r], hops[r], paid'[r], "ok", verdict[r])
  <2>1. Paid(stage[r], ask[r], pair[r], hops[r], paid[r], answer[r], verdict[r])
    BY <1>0 DEF Handled
  <2>2. CASE stage[r] # "hop"
    <3>1. paid[r] = <<>> /\ pair[r] = ask[r].pair
      BY <1>3, <2>1, <2>2 DEF Paid, Working
    <3>2. paid'[r] = <<pair[r]>>
      BY <1>8, <3>1
    <3>3. CapableOf(pair[r]) # <<>>
      BY <1>4
    <3> QED
      BY <1>3, <2>1, <2>2, <3>1, <3>2, <3>3 DEF Paid, Working
  <2>3. CASE stage[r] = "hop"
    <3> DEFINE route == PIPELINE_ROUTES[ask[r].pair]
    <3>1. /\ Hopping(ask[r], pair[r], hops[r]) /\ Len(paid[r]) = Len(route) - Len(hops[r]) + 0
          /\ \A i \in 1 .. Len(paid[r]) : paid[r][i] = route[i]
      BY <1>3, <2>1, <2>3 DEF Paid
    <3>2. /\ Len(hops[r]) \in 1 .. Len(route) /\ route \in Seq(NamePairs)
          /\ pair[r] = route[Len(route) - Len(hops[r]) + 1]
      <4>1. /\ Len(hops[r]) \in 1 .. Len(route) /\ route \in Seq(NamePairs) /\ pair[r] = hops[r][1]
            /\ \A j \in 1 .. Len(hops[r]) : hops[r][j] = route[Len(route) - Len(hops[r]) + j]
        BY <3>1, RouteTable DEF Hopping
      <4> HIDE DEF route
      <4>2. 1 \in 1 .. Len(hops[r])
        BY <4>1
      <4> QED
        BY <4>1, <4>2
    <3> HIDE DEF route
    <3>3. Len(paid'[r]) = Len(route) - Len(hops[r]) + 1
      BY <1>8, <1>9, <3>1, <3>2
    <3>4. ASSUME NEW i \in 1 .. Len(paid'[r])
          PROVE  paid'[r][i] = route[i]
      <4>1. CASE i \in 1 .. Len(paid[r])
        BY <1>9, <3>1, <4>1
      <4>2. CASE i = Len(paid[r]) + 1
        <5>1. Len(paid[r]) + 1 = Len(route) - Len(hops[r]) + 1
          BY <3>1, <3>2
        <5> QED
          BY <1>9, <3>2, <4>2, <5>1
      <4> QED
        BY <1>8, <1>9, <4>1, <4>2
    <3> QED
      BY <2>3, <3>1, <3>3, <3>4 DEF Paid, route
  <2> QED
    BY <2>2, <2>3
<1>11. Tracks(stage[r], "done") /\ Asks(stage[r], ask[r], wish[r], verdict[r])
  BY <1>0, <1>3 DEF Tracks, Handled, Working
<1>12. Reads(stage[r], ask[r], data[r], paid'[r], read[r])
  <2>1. Reads(stage[r], ask[r], data[r], paid[r], read[r])
    BY <1>0 DEF Handled
  <2>2. 0 .. Len(paid[r]) \subseteq 0 .. Len(paid'[r])
    BY <1>8, <1>9
  <2> QED
    BY <2>1, <2>2 DEF Reads
<1>13. Handled(r)'
  <2>1. Tried(stage[r], ask[r], hops[r], tries[r], Len(sent[r]))
    BY <1>0 DEF Handled
  <2> QED
    BY <1>1, <1>8, <1>10, <1>11, <1>12, <2>1, Zenon DEF Handled
<1> QED
  BY <1>1, <1>6, <1>7, <1>13, OthersHandled

LEMMA RoutesKeeps ==
    ASSUME ConvInv, NEW r \in Requests, Routes(r)
    PROVE  ConvInv'
<1>0. RouterInv /\ ConvTypes /\ Handled(r)
  BY DEF ConvInv
<1>1. /\ stage[r] \in Working /\ answer[r] = None /\ None # "ok"
      /\ pc[r] \in {"filter", "lookup", "dispatched"}
  BY WhileOut, RouterAssumption DEF Routes, Filter, KeyError, FailOver
<1>2. /\ RouterInv' /\ answer'[r] # "ok" /\ pc'[r] # "idle" /\ pair'[r] = pair[r]
      /\ Len(sent'[r]) = Len(sent[r]) /\ \A q \in Requests : q # r => SameRequest(q)
  <2>1. CASE Filter(r)
    <3>1. sent[r] = <<>>
      BY <1>0, <2>1 DEF Filter, RouterInv, Loop, At
    <3> QED
      BY <1>0, <2>1, <3>1, FilterKeeps
  <2>2. CASE KeyError(r)
    BY <1>0, <2>2, KeyErrorKeeps
  <2>3. CASE FailOver(r)
    BY <1>0, <2>3, FailOverKeeps
  <2> QED
    BY <2>1, <2>2, <2>3 DEF Routes
<1>3. UNCHANGED <<stage, ask, wish, hops, data, output, paid, tries, read, verdict>>
  BY DEF Routes, service
<1>4. ConvTypes' /\ \A q \in Requests : SameService(q)
  BY <1>0, <1>3 DEF ConvTypes, SameService
<1>5. Tracks(stage[r], pc'[r])
  BY <1>1, <1>2 DEF Tracks, Working
<1>6. Paid(stage[r], ask[r], pair[r], hops[r], paid[r], answer'[r], verdict[r])
  BY <1>0, <1>1, <1>2 DEF Handled, Paid
<1>7. Handled(r)'
  BY <1>0, <1>2, <1>3, <1>5, <1>6, Zenon DEF Handled
<1> QED
  BY <1>2, <1>4, <1>7, OthersHandled

(* The handler's answer, from a working stage. *)
LEMMA ReplyKeeps ==
    ASSUME ConvInv, NEW r \in Requests, stage[r] \in Working, pc[r] = "done",
           NEW v \in Errors \union {None, "ok"},
           v = "ok" => /\ answer[r] = "ok"
                       /\ stage[r] = "hop" => Len(hops[r]) = 1,
           Reply(r, v), UNCHANGED <<vars, ask, wish, hops, data, output, paid, tries, read>>
    PROVE  ConvInv'
<1>0. RouterInv /\ ConvTypes /\ Handled(r)
  BY DEF ConvInv
<1>1. RouterInv' /\ \A q \in Requests : SameRequest(q)
  BY <1>0, RouterStays
<1>2. /\ stage' = [stage EXCEPT ![r] = "done"] /\ verdict' = [verdict EXCEPT ![r] = v]
      /\ UNCHANGED <<ask, wish, hops, data, output, paid, tries, read>>
  BY DEF Reply, Enter
<1>3. ConvTypes'
  BY <1>0, <1>2 DEF ConvTypes, Stages
<1>4. \A q \in Requests : q # r => SameService(q)
  BY <1>0, <1>2 DEF ConvTypes, SameService
<1>5. /\ stage'[r] = "done" /\ verdict'[r] = v /\ ask'[r] = ask[r] /\ wish'[r] = wish[r]
      /\ paid'[r] = paid[r] /\ tries'[r] = tries[r] /\ read'[r] = read[r]
      /\ data'[r] = data[r] /\ hops'[r] = hops[r]
      /\ pc'[r] = pc[r] /\ pair'[r] = pair[r] /\ answer'[r] = answer[r] /\ sent'[r] = sent[r]
  BY <1>0, <1>1, <1>2 DEF ConvTypes, SameRequest
<1>6. /\ ask[r] \in Endpoints /\ stage[r] \in Stages /\ hops[r] \in Seq(NamePairs)
      /\ paid[r] \in Seq(NamePairs) /\ tries[r] \in Nat
  BY <1>0 DEF Handled, Asks, ConvTypes, Working
<1>7. Tracks("done", "done") /\ Asks("done", ask[r], wish[r], v)
  BY <1>0, <1>6 DEF Tracks, Asks, Working
<1>8. Paid("done", ask[r], pair[r], hops[r], paid[r], answer[r], v)
  <2>1. Paid(stage[r], ask[r], pair[r], hops[r], paid[r], answer[r], verdict[r])
    BY <1>0 DEF Handled
  <2>2. /\ IsPrefix(paid[r], Plan(ask[r].pair))
        /\ (stage[r] \in {"media", "direct", "again"} \/ (stage[r] = "hop" /\ Len(hops[r]) = 1))
             => (answer[r] = "ok" => paid[r] = Plan(ask[r].pair))
    BY <1>6, <2>1, PaidIsPrefix
  <2>3. ASSUME v = "ok"
        PROVE  paid[r] = Plan(ask[r].pair)
    <3>1. \/ stage[r] \in {"media", "direct", "again"}
          \/ stage[r] = "hop" /\ Len(hops[r]) = 1
      BY <2>3 DEF Working
    <3>2. answer[r] = "ok"
      BY <2>3
    <3> QED
      BY <2>2, <3>1, <3>2, Zenon
  <2> QED
    BY <2>2, <2>3 DEF Paid
<1>9. Tried("done", ask[r], hops[r], tries[r], Len(sent[r]))
  <2>1. /\ Paid(stage[r], ask[r], pair[r], hops[r], paid[r], answer[r], verdict[r])
        /\ Tried(stage[r], ask[r], hops[r], tries[r], Len(sent[r]))
        /\ stage[r] = "again" => ask[r].fallsBack
    BY <1>0 DEF Handled, Asks
  <2>2. Len(sent[r]) \in Nat /\ Len(sent[r]) =< Len(CapableOf(pair[r]))
    BY <1>0, SentIsBounded
  <2>3. tries[r] =< MostTries(ask[r])
    BY <1>6, <2>1, <2>2, TriedIsBounded
  <2> QED
    BY <2>3 DEF Tried
<1>10. Reads("done", ask[r], data[r], paid[r], read[r])
  BY <1>0, <1>6 DEF Handled, Reads, Working
<1>11. Handled(r)'
  BY <1>5, <1>7, <1>8, <1>9, <1>10, Zenon DEF Handled
<1> QED
  BY <1>1, <1>3, <1>4, <1>11, OthersHandled

(* The handler calls the router again. *)
LEMMA AgainKeeps ==
    ASSUME ConvInv, NEW r \in Requests, stage[r] \in Working, pc[r] = "done",
           NEW io \in NamePairs, Call(r, io, <<wish[r][1], None>>),
           NEW st \in {"again", "hop"}, stage' = [stage EXCEPT ![r] = st],
           NEW h \in Seq(NamePairs), hops' = [hops EXCEPT ![r] = h],
           NEW d \in 0 .. Len(paid[r]), data' = [data EXCEPT ![r] = d],
           UNCHANGED <<ask, wish, output, paid, tries, read, verdict>>,
           ask[r].fallsBack,
           Paid(st, ask[r], io, h, paid[r], "internal", None),
           Tried(st, ask[r], h, tries[r], 0),
           st = "again" => d = 0
    PROVE  ConvInv'
<1>0. RouterInv /\ ConvTypes /\ Handled(r)
  BY DEF ConvInv
<1>1. ask[r] \in Endpoints /\ wish[r] \in Wishes /\ verdict[r] = None
  BY <1>0 DEF Handled, Asks, Working
<1>2. /\ RouterInv' /\ pair'[r] = io /\ sent'[r] = <<>> /\ answer'[r] # "ok"
      /\ pc'[r] \in {"filter", "done"} /\ \A q \in Requests : q # r => SameRequest(q)
  BY <1>0, <1>1, WishType, CallKeeps
<1>3. ConvTypes'
  BY <1>0 DEF ConvTypes, Stages
<1>4. \A q \in Requests : q # r => SameService(q)
  BY <1>0 DEF ConvTypes, SameService
<1>5. /\ stage'[r] = st /\ hops'[r] = h /\ data'[r] = d /\ ask'[r] = ask[r] /\ wish'[r] = wish[r]
      /\ paid'[r] = paid[r] /\ tries'[r] = tries[r] /\ read'[r] = read[r] /\ verdict'[r] = None
  BY <1>0, <1>1 DEF ConvTypes
<1>6. Tracks(st, pc'[r]) /\ Asks(st, ask[r], wish[r], None)
  BY <1>1, <1>2 DEF Tracks, Asks, Working
<1>7. Paid(st, ask[r], io, h, paid[r], answer'[r], None)
  BY <1>2 DEF Paid
<1>8. Reads(st, ask[r], d, paid[r], read[r])
  BY <1>0 DEF Handled, Reads
<1>9. Handled(r)'
  <2>1. Len(sent'[r]) = 0
    BY <1>2
  <2> QED
    BY <1>2, <1>5, <1>6, <1>7, <1>8, <2>1, Zenon DEF Handled
<1> QED
  BY <1>2, <1>3, <1>4, <1>9, OthersHandled

(* Respond and Abort are answers; FallBack and NextHop call again. *)
LEMMA RespondKeeps ==
    ASSUME ConvInv, NEW r \in Requests, Respond(r)
    PROVE  ConvInv'
BY ReplyKeeps DEF Respond, Returned, Working

LEMMA AbortKeeps ==
    ASSUME ConvInv, NEW r \in Requests, Abort(r)
    PROVE  ConvInv'
<1>1. answer[r] \in Errors \union {None, "ok"}
  BY DEF ConvInv, RouterInv, RouterTypes
<1> QED
  BY <1>1, ReplyKeeps DEF Abort, Raised, Working

LEMMA FallBackKeeps ==
    ASSUME ConvInv, NEW r \in Requests, FallBack(r)
    PROVE  ConvInv'
<1> DEFINE io == ask[r].pair
           route == PIPELINE_ROUTES[io]
<1>0. RouterInv /\ ConvTypes /\ Handled(r)
  BY DEF ConvInv
<1>1. /\ stage[r] = "direct" /\ pc[r] = "done" /\ answer[r] # "ok"
      /\ UNCHANGED <<ask, wish, data, output, paid, tries, read>>
      /\ answer[r] \in Errors \union {None, "ok"}
  BY <1>0 DEF FallBack, Raised, RouterInv, RouterTypes
<1>2. /\ ask[r] \in Endpoints /\ ask[r].fallsBack /\ io \in NamePairs
      /\ paid[r] = <<>> /\ pair[r] = io /\ data[r] = 0
      /\ tries[r] =< Len(sent[r]) /\ tries[r] \in Nat
  BY <1>0, <1>1, EndpointTable DEF Handled, Asks, Paid, Tried, Reads, ConvTypes
<1>3. /\ Len(sent[r]) \in Nat /\ Len(sent[r]) =< Len(CapableOf(io))
      /\ Len(CapableOf(io)) \in Nat
  BY <1>0, <1>2, SentIsBounded, CapableType
<1>4. data' = [data EXCEPT ![r] = 0]
  BY <1>0, <1>1, <1>2 DEF ConvTypes
<1>5. CASE /\ CapableOf(io) # <<>> /\ Call(r, io, <<wish[r][1], None>>)
           /\ Enter(r, "again") /\ UNCHANGED <<hops, verdict>>
  <2>1. stage' = [stage EXCEPT ![r] = "again"] /\ hops' = [hops EXCEPT ![r] = hops[r]]
        /\ hops[r] \in Seq(NamePairs)
    BY <1>0, <1>5 DEF Enter, ConvTypes
  <2>2. Paid("again", ask[r], io, hops[r], paid[r], "internal", None)
    BY <1>2, <1>5 DEF Paid
  <2>3. Tried("again", ask[r], hops[r], tries[r], 0)
    BY <1>2, <1>3 DEF Tried
  <2>4. 0 \in 0 .. Len(paid[r])
    BY <1>2
  <2> QED
    BY <1>1, <1>2, <1>4, <1>5, <2>1, <2>2, <2>3, <2>4, AgainKeeps DEF Working
<1>6. CASE /\ CapableOf(io) = <<>> /\ io \in DOMAIN PIPELINE_ROUTES
           /\ hops' = [hops EXCEPT ![r] = route]
           /\ Call(r, route[1], <<wish[r][1], None>>)
           /\ Enter(r, "hop") /\ UNCHANGED verdict
  <2>1. route \in Seq(NamePairs) /\ route # <<>>
    BY <1>6, RouteTable
  <2>2. /\ stage' = [stage EXCEPT ![r] = "hop"] /\ route[1] \in NamePairs
        /\ Len(route) \in 1 .. Len(route) /\ Len(route) - Len(route) = 0
    <3> HIDE DEF route
    <3> QED
      BY <1>6, <2>1 DEF Enter
  <2>3. Hopping(ask[r], route[1], route)
    <3>1. \A j \in 1 .. Len(route) : route[j] = route[Len(route) - Len(route) + j]
      <4> HIDE DEF route
      <4> QED
        BY <2>1
    <3> QED
      BY <1>6, <2>2, <3>1, Zenon DEF Hopping
  <2>4. Paid("hop", ask[r], route[1], route, paid[r], "internal", None)
    <3>1. Len(paid[r]) = 0
      BY <1>2
    <3>2. Len(paid[r]) = Len(route) - Len(route) + 0 /\ \A i \in 1 .. Len(paid[r]) : paid[r][i] = route[i]
      BY <2>2, <3>1
    <3> QED
      BY <2>3, <3>2 DEF Paid
  <2>5. Tried("hop", ask[r], route, tries[r], 0)
    <3>1. tries[r] = 0
      BY <1>2, <1>3, <1>6
    <3>2. CandidatesUpTo(route, 0) = 0
      BY <2>2, UpToGrows
    <3> QED
      BY <2>2, <3>1, <3>2 DEF Tried
  <2>6. 0 \in 0 .. Len(paid[r])
    BY <1>2
  <2> QED
    BY <1>1, <1>2, <1>4, <1>6, <2>1, <2>2, <2>4, <2>5, <2>6, AgainKeeps DEF Working
<1>7. CASE Reply(r, answer[r]) /\ UNCHANGED <<vars, hops>>
  BY <1>1, <1>7, ReplyKeeps DEF Working
<1> QED
  BY <1>5, <1>6, <1>7 DEF FallBack

LEMMA NextHopKeeps ==
    ASSUME ConvInv, NEW r \in Requests, NextHop(r)
    PROVE  ConvInv'
<1> DEFINE route == PIPELINE_ROUTES[ask[r].pair]
           h == Tail(hops[r])
           d == IF output[r] = "full" THEN Len(paid[r]) ELSE data[r]
<1>0. RouterInv /\ ConvTypes /\ Handled(r)
  BY DEF ConvInv
<1>1. /\ stage[r] = "hop" /\ pc[r] = "done" /\ answer[r] = "ok" /\ Len(hops[r]) > 1
      /\ data' = [data EXCEPT ![r] = d] /\ hops' = [hops EXCEPT ![r] = h]
      /\ Call(r, hops[r][2], <<wish[r][1], None>>)
      /\ UNCHANGED <<stage, ask, wish, output, paid, tries, read, verdict>>
  BY <1>0 DEF NextHop, Returned, ConvTypes
<1>2. /\ hops[r] \in Seq(NamePairs) /\ paid[r] \in Seq(NamePairs) /\ tries[r] \in Nat
      /\ ask[r] \in Endpoints /\ ask[r].fallsBack
      /\ data[r] \in 0 .. Len(paid[r])
  BY <1>0, <1>1 DEF Handled, Asks, Reads, ConvTypes
<1>3. /\ Hopping(ask[r], pair[r], hops[r])
      /\ Len(paid[r]) = Len(route) - Len(hops[r]) + 1
      /\ \A i \in 1 .. Len(paid[r]) : paid[r][i] = route[i]
      /\ tries[r] =< Len(sent[r]) + CandidatesUpTo(route, Len(route) - Len(hops[r]))
  BY <1>0, <1>1 DEF Handled, Paid, Tried
<1>4. /\ CapableOf(ask[r].pair) = <<>> /\ ask[r].pair \in DOMAIN PIPELINE_ROUTES
      /\ Len(hops[r]) \in 1 .. Len(route) /\ pair[r] = hops[r][1]
      /\ \A j \in 1 .. Len(hops[r]) : hops[r][j] = route[Len(route) - Len(hops[r]) + j]
  BY <1>3 DEF Hopping
<1>5. route \in Seq(NamePairs)
  BY <1>4, RouteTable
<1>6. /\ Len(h) = Len(hops[r]) - 1 /\ h \in Seq(NamePairs) /\ h[1] = hops[r][2]
      /\ \A j \in 1 .. Len(h) : h[j] = hops[r][j + 1]
      /\ hops[r][2] \in NamePairs
  BY <1>1, <1>2
<1> HIDE DEF route, h, d
<1>7. Len(h) \in 1 .. Len(route) /\ Len(route) - Len(h) = Len(route) - Len(hops[r]) + 1
  BY <1>1, <1>2, <1>4, <1>5, <1>6
<1>8. \A j \in 1 .. Len(h) : h[j] = route[Len(route) - Len(h) + j]
  <2> TAKE j \in 1 .. Len(h)
  <2>1. j + 1 \in 1 .. Len(hops[r])
    BY <1>2, <1>6
  <2>2. Len(route) - Len(hops[r]) + (j + 1) = Len(route) - Len(h) + j
    BY <1>2, <1>5, <1>6
  <2> QED
    BY <1>4, <1>6, <2>1, <2>2
<1>9. Hopping(ask[r], hops[r][2], h)
  BY <1>4, <1>6, <1>7, <1>8, Zenon DEF Hopping, route
<1>10. Paid("hop", ask[r], hops[r][2], h, paid[r], "internal", None)
  <2>1. Len(paid[r]) = Len(route) - Len(h) + 0
    BY <1>3, <1>5, <1>7
  <2> QED
    BY <1>3, <1>9, <2>1 DEF Paid, route
<1>11. Tried("hop", ask[r], h, tries[r], 0)
  <2> DEFINE k == Len(route) - Len(hops[r])
  <2>1. k \in 0 .. Len(route) /\ k + 1 \in 1 .. Len(route) /\ k + 1 - 1 = k /\ Len(route) - Len(h) = k + 1
        /\ Len(route) \in Nat
    BY <1>2, <1>4, <1>5, <1>7
  <2>2. pair[r] = route[k + 1]
    <3>1. 1 \in 1 .. Len(hops[r])
      BY <1>1, <1>2
    <3> QED
      BY <1>4, <3>1
  <2>3. tries[r] =< Len(sent[r]) + CandidatesUpTo(route, k)
    BY <1>3
  <2>4. /\ Len(sent[r]) \in Nat /\ Len(sent[r]) =< Len(CapableOf(pair[r]))
        /\ Len(CapableOf(pair[r])) \in Nat
    BY <1>0, SentIsBounded, CapableType
  <2> HIDE DEF k
  <2>5. /\ CandidatesUpTo(route, k + 1) = CandidatesUpTo(route, k) + Len(CapableOf(route[k + 1]))
        /\ CandidatesUpTo(route, k) \in Nat
    <3>1. /\ \A n \in 0 .. Len(route) : CandidatesUpTo(route, n) \in Nat
          /\ \A n \in 1 .. Len(route) :
                CandidatesUpTo(route, n) = CandidatesUpTo(route, n - 1) + Len(CapableOf(route[n]))
      BY <2>1, UpToGrows
    <3> QED
      BY <2>1, <3>1
  <2>6. tries[r] =< 0 + CandidatesUpTo(route, Len(route) - Len(h))
    BY <1>2, <2>1, <2>2, <2>3, <2>4, <2>5
  <2> QED
    BY <2>6 DEF Tried, route
<1>12. d \in 0 .. Len(paid[r])
  BY <1>2 DEF d
<1>13. stage' = [stage EXCEPT ![r] = "hop"]
  BY <1>0, <1>1 DEF ConvTypes
<1> QED
  BY <1>1, <1>2, <1>6, <1>10, <1>11, <1>12, <1>13, AgainKeeps DEF Working

LEMMA ClearKeeps ==
    ASSUME ConvInv, NEW r \in Requests, Clear(r)
    PROVE  ConvInv'
<1>0. RouterInv /\ ConvTypes /\ Handled(r)
  BY DEF ConvInv
<1>1. /\ stage[r] = "done"
      /\ stage' = [stage EXCEPT ![r] = "idle"] /\ ask' = [ask EXCEPT ![r] = None]
      /\ wish' = [wish EXCEPT ![r] = None] /\ hops' = [hops EXCEPT ![r] = <<>>]
      /\ data' = [data EXCEPT ![r] = 0] /\ output' = [output EXCEPT ![r] = None]
      /\ paid' = [paid EXCEPT ![r] = <<>>] /\ tries' = [tries EXCEPT ![r] = 0]
      /\ read' = [read EXCEPT ![r] = {}] /\ verdict' = [verdict EXCEPT ![r] = None]
  BY DEF Clear, Enter
<1>2. RouterInv' /\ pc'[r] = "idle" /\ \A q \in Requests : q # r => SameRequest(q)
  <2>1. CASE pc[r] = "done"
    BY <1>0, <2>1, ReuseKeeps DEF Clear
  <2>2. CASE pc[r] # "done"
    BY <1>0, <1>1, <2>2, RouterStays DEF Clear, Handled, Tracks, SameRequest
  <2> QED
    BY <2>1, <2>2
<1>3. ConvTypes'
  BY <1>0, <1>1 DEF ConvTypes, Stages, Input
<1>4. \A q \in Requests : q # r => SameService(q)
  BY <1>0, <1>1 DEF ConvTypes, SameService
<1>5. /\ stage'[r] = "idle" /\ ask'[r] = None /\ wish'[r] = None /\ hops'[r] = <<>>
      /\ data'[r] = 0 /\ paid'[r] = <<>> /\ tries'[r] = 0 /\ read'[r] = {} /\ verdict'[r] = None
  BY <1>0, <1>1 DEF ConvTypes
<1>6. /\ Tracks("idle", "idle") /\ Asks("idle", None, None, None)
      /\ Tried("idle", None, <<>>, 0, Len(sent'[r])) /\ Reads("idle", None, 0, <<>>, {})
  BY DEF Tracks, Asks, Tried, Reads, Working
<1>7. Paid("idle", None, pair'[r], <<>>, <<>>, answer'[r], None)
  BY DEF Paid
<1>8. Handled(r)'
  BY <1>2, <1>5, <1>6, <1>7, Zenon DEF Handled
<1> QED
  BY <1>2, <1>3, <1>4, <1>8, OthersHandled

LEMMA ConvStays ==
    ASSUME ConvInv, RouterInv', UNCHANGED service, \A q \in Requests : SameRequest(q)
    PROVE  ConvInv'
<1>1. ConvTypes' /\ \A q \in Requests : SameService(q)
  BY DEF ConvInv, ConvTypes, service, SameService
<1> QED
  BY <1>1, SameHandled DEF ConvInv

(* The invariant holds initially, and every step keeps it. *)
LEMMA ConvInvInit == ConvInit => ConvInv
<1> SUFFICES ASSUME ConvInit
             PROVE  ConvInv
  OBVIOUS
<1>1. RouterTypes
  BY KeysAssumption DEF ConvInit, Init, KeysInit, RouterTypes, KeysTypeOK, Locations, MaybeProvider, MaybeModel
<1>2. ConvTypes
  BY DEF ConvInit, ConvTypes, Stages
<1>3. ASSUME NEW r \in Requests
      PROVE  Loop(r) /\ Handled(r)
  <2>1. InOrder(<<>>, <<>>, <<>>)
    BY DEF InOrder
  <2>2. OfferedFor(<<>>, None, {}, None)
    <3>1. Len(CapableOf(None)) \in Nat
      BY CapableType
    <3> QED
      BY <3>1 DEF OfferedFor
  <2>3. Named(None, None, <<>>, <<>>) /\ At("idle", <<>>, <<>>, None)
    BY RouterAssumption DEF Named, At, Errors
  <2>4. Loop(r)
    <3>1. <<None, None>>[1] = None /\ <<None, None>>[2] = None
      OBVIOUS
    <3> QED
      BY <2>1, <2>2, <2>3, <3>1 DEF ConvInit, Init, Loop
  <2>5. /\ Tracks("idle", "idle") /\ Asks("idle", None, None, None)
        /\ Tried("idle", None, <<>>, 0, Len(<<>>)) /\ Reads("idle", None, 0, <<>>, {})
        /\ Paid("idle", None, None, <<>>, <<>>, None, None)
    BY DEF Tracks, Asks, Tried, Reads, Paid, Working
  <2>6. Handled(r)
    BY <2>5 DEF ConvInit, Init, Handled
  <2> QED
    BY <2>4, <2>6
<1> QED
  BY <1>1, <1>2, <1>3 DEF ConvInv, RouterInv

LEMMA ConvInvNext == ConvInv /\ [ConvNext]_convVars => ConvInv'
<1> SUFFICES ASSUME ConvInv, [ConvNext]_convVars
             PROVE  ConvInv'
  OBVIOUS
<1>1. ASSUME NEW r \in Requests, NEW e \in Endpoints, NEW w \in Wishes, Submit(r, e, w)
      PROVE  ConvInv'
  BY <1>1, SubmitKeeps
<1>2. ASSUME NEW r \in Requests, NEW e \in Endpoints, Refuse(r, e)
      PROVE  ConvInv'
  BY <1>2, RefuseKeeps
<1>3. ASSUME NEW r \in Requests, Sends(r) \/ Answers(r) \/ Routes(r)
      PROVE  ConvInv'
  BY <1>3, SendsKeeps, AnswersKeeps, RoutesKeeps
<1>4. ASSUME NEW r \in Requests, Respond(r) \/ Abort(r) \/ FallBack(r) \/ NextHop(r) \/ Clear(r)
      PROVE  ConvInv'
  BY <1>4, RespondKeeps, AbortKeeps, FallBackKeeps, NextHopKeeps, ClearKeeps
<1>5. CASE KeysNext /\ UNCHANGED <<request, service>>
  <2>1. RouterInv' /\ \A q \in Requests : SameRequest(q)
    BY <1>5, KeysKeep DEF ConvInv, request, SameRequest
  <2> QED
    BY <1>5, <2>1, ConvStays
<1>6. CASE UNCHANGED convVars
  <2>1. UNCHANGED vars /\ UNCHANGED service
    BY <1>6 DEF convVars
  <2>2. RouterInv' /\ \A q \in Requests : SameRequest(q)
    BY <2>1, RouterStays DEF ConvInv
  <2> QED
    BY <2>1, <2>2, ConvStays
<1> QED
  BY <1>1, <1>2, <1>3, <1>4, <1>5, <1>6, Zenon DEF ConvNext

LEMMA ConvInvAlways == ConvSpec => []ConvInv
BY ConvInvInit, ConvInvNext, PTL DEF ConvSpec

-----------------------------------------------------------------------------
(* Every variable has its type; what is left of the candidates is a suffix *)
(* of what was offered, which the capability map lists for the pair.       *)
THEOREM ConvTypeCorrect == ConvSpec => []TypeInv
<1>1. ASSUME ConvInv
      PROVE  TypeInv
  <2>1. RouterTypes /\ ConvTypes
    BY <1>1 DEF ConvInv, RouterInv
  <2>2. ASSUME NEW r \in Requests
        PROVE  /\ pair[r] # None => ToSet(offered[r]) \subseteq ToSet(CapableOf(pair[r]))
               /\ IsSuffix(cands[r], offered[r])
               /\ ToSet(sent[r]) \subseteq Providers \X Models
    <3>1. /\ sent[r] \in Seq(Pair) /\ cands[r] \in Seq(Pair) /\ offered[r] \in Seq(Pair)
          /\ InOrder(sent[r], cands[r], offered[r])
          /\ \A j \in 1 .. Len(offered[r]) : \E i \in DOMAIN CapableOf(pair[r]) :
                offered[r][j] = CapableOf(pair[r])[i]
      BY <1>1, <2>1 DEF ConvInv, RouterInv, RouterTypes, Loop, OfferedFor
    <3>2. ToSet(sent[r]) \subseteq Pair
      BY <3>1 DEF ToSet
    <3>3. ToSet(offered[r]) \subseteq ToSet(CapableOf(pair[r]))
      BY <3>1 DEF ToSet
    <3> QED
      BY <3>1, <3>2, <3>3, InOrderSuffix DEF Pair
  <2>3. TypeOK
    BY <2>1, <2>2 DEF TypeOK, RouterTypes, NamePairs, MaybeProvider, MaybeModel
  <2>4. ASSUME NEW r \in Requests
        PROVE  /\ data[r] \in 0 .. Len(paid[r])
               /\ read[r] \subseteq 0 .. Len(paid[r]) \union {Missing}
               /\ tries[r] \in Nat
    BY <1>1, <2>1 DEF ConvInv, ConvTypes, Handled, Reads
  <2> QED
    BY <2>1, <2>3, <2>4 DEF TypeInv, ConvTypes
<1> QED
  BY <1>1, ConvInvAlways, PTL

(* Dispatches follow the candidates in order, and "all providers failed"   *)
(* comes after the last of them: failover of ModalityRouter.route, however *)
(* keys come and go and however often the service calls the router.        *)
THEOREM FailsOverInOrder == ConvSpec => []TriedInOrder
<1>1. ASSUME ConvInv
      PROVE  TriedInOrder
  <2> SUFFICES ASSUME NEW r \in Requests
               PROVE  /\ ProvidersOf(sent[r]) \o ProvidersOf(cands[r]) = ProvidersOf(offered[r])
                      /\ answer[r] = "all_failed" => cands[r] = <<>>
    BY DEF TriedInOrder
  <2>1. /\ sent[r] \in Seq(Pair) /\ cands[r] \in Seq(Pair) /\ offered[r] \in Seq(Pair)
        /\ InOrder(sent[r], cands[r], offered[r])
        /\ answer[r] = "all_failed" => cands[r] = <<>>
    BY <1>1 DEF ConvInv, RouterInv, RouterTypes, Loop, At
  <2> QED
    BY <2>1, InOrderProviders
<1> QED
  BY <1>1, ConvInvAlways, PTL

(* A preferred provider that is capable and that the user held a key for   *)
(* gets every dispatch: route's two preferences never cancel each other.   *)
THEOREM PreferenceAlways == ConvSpec => []PreferenceKept
<1>1. ASSUME ConvInv
      PROVE  PreferenceKept
  <2> SUFFICES ASSUME NEW r \in Requests, wanted[r][1] \in held[r],
                      wanted[r][1] \in ToSet(ProvidersOf(CapableOf(pair[r])))
               PROVE  ToSet(ProvidersOf(sent[r])) \subseteq {wanted[r][1]}
    BY DEF PreferenceKept
  <2>1. /\ sent[r] \in Seq(Pair) /\ cands[r] \in Seq(Pair) /\ offered[r] \in Seq(Pair)
        /\ InOrder(sent[r], cands[r], offered[r])
        /\ OfferedFor(offered[r], pair[r], held[r], wanted[r][1])
    BY <1>1 DEF ConvInv, RouterInv, RouterTypes, Loop
  <2>2. \E i \in DOMAIN CapableOf(pair[r]) : CapableOf(pair[r])[i][1] = wanted[r][1]
    BY DEF ToSet, ProvidersOf
  <2>3. \A j \in 1 .. Len(offered[r]) : offered[r][j][1] = wanted[r][1]
    BY <2>1, <2>2, Zenon DEF OfferedFor
  <2>4. \A i \in 1 .. Len(sent[r]) : i \in 1 .. Len(offered[r])
    BY <2>1, InOrderLens
  <2>5. \A i \in 1 .. Len(sent[r]) : sent[r][i][1] = wanted[r][1]
    <3> TAKE i \in 1 .. Len(sent[r])
    <3>1. sent[r][i][1] = offered[r][i][1]
      BY <2>1, Zenon DEF InOrder
    <3>2. offered[r][i][1] = wanted[r][1]
      BY <2>3, <2>4
    <3> QED
      BY <3>1, <3>2
  <2>6. /\ ProvidersOf(sent[r]) \in Seq(Providers) /\ Len(ProvidersOf(sent[r])) = Len(sent[r])
        /\ \A i \in 1 .. Len(sent[r]) : ProvidersOf(sent[r])[i] = sent[r][i][1]
    BY <2>1, ProvidersOfType
  <2> QED
    BY <2>5, <2>6 DEF ToSet
<1> QED
  BY <1>1, ConvInvAlways, PTL

(* An adapter that asks for a model of its own lists that one. *)
LEMMA ListedIsAsked ==
    ASSUME NEW io, NEW k \in DOMAIN CapableOf(io)
    PROVE  AskedModel(CapableOf(io)[k][1], io, CapableOf(io)[k][2]) = CapableOf(io)[k][2]
<1>1. io \in DOMAIN Capable /\ CapableOf(io) = Capable[io]
  BY DEF CapableOf
<1>2. CapableOf(io)[k] \in ToSet(Capable[io])
  BY <1>1 DEF ToSet
<1> QED
  BY <1>1, <1>2, ConversionAssumption, Zenon

(* What the service prefers in its call of the router: what the caller     *)
(* does, on the way the request asks for, and no model from the fallback   *)
(* on.                                                                     *)
Prefers(r) ==
    /\ stage[r] \in {"media", "direct"} => wanted[r] = wish[r]
    /\ stage[r] \in {"again", "hop"} => wanted[r][2] = None

Preferring == \A r \in Requests : Prefers(r)

(* It stays so: Submit and the fallback call the router with just that.    *)
LEMMA PrefersInit == ConvInit => Preferring
BY DEF ConvInit, Preferring, Prefers

LEMMA PrefersStep ==
    ASSUME ConvInv, Preferring, [ConvNext]_convVars
    PROVE  Preferring'
<1> USE DEF Preferring
<1>0. /\ wanted \in [Requests -> MaybeProvider \X MaybeModel]
      /\ stage \in [Requests -> Stages] /\ wish \in [Requests -> Wishes \union {None}]
  BY DEF ConvInv, RouterInv, RouterTypes, ConvTypes
<1>1. ASSUME NEW r \in Requests, NEW e \in Endpoints, NEW w \in Wishes, Submit(r, e, w)
      PROVE  \A q \in Requests : Prefers(q)'
  <2>1. /\ wish' = [wish EXCEPT ![r] = w] /\ wanted' = [wanted EXCEPT ![r] = w]
        /\ stage' = [stage EXCEPT ![r] = IF e.fallsBack THEN "direct" ELSE "media"]
    BY <1>1 DEF Submit, Call, Enter
  <2> QED
    BY <1>0, <2>1 DEF Prefers
<1>2. ASSUME NEW r \in Requests, NEW e \in Endpoints, Refuse(r, e)
      PROVE  \A q \in Requests : Prefers(q)'
  BY <1>0, <1>2 DEF Refuse, Reply, Enter, Prefers, vars
<1>3. ASSUME NEW r \in Requests, Sends(r)
      PROVE  \A q \in Requests : Prefers(q)'
  BY <1>3 DEF Sends, KeyFound, Dispatch, Prefers
<1>4. ASSUME NEW r \in Requests, Answers(r)
      PROVE  \A q \in Requests : Prefers(q)'
  BY <1>4 DEF Answers, Succeed, Prefers
<1>5. ASSUME NEW r \in Requests, Routes(r)
      PROVE  \A q \in Requests : Prefers(q)'
  BY <1>5 DEF Routes, Filter, KeyError, FailOver, service, Prefers
<1>6. ASSUME NEW r \in Requests, Respond(r) \/ Abort(r)
      PROVE  \A q \in Requests : Prefers(q)'
  BY <1>0, <1>6 DEF Respond, Abort, Reply, Enter, Prefers, vars
<1>7. ASSUME NEW r \in Requests, FallBack(r)
      PROVE  \A q \in Requests : Prefers(q)'
  <2>1. \/ /\ wanted' = [wanted EXCEPT ![r] = <<wish[r][1], None>>]
           /\ stage' = [stage EXCEPT ![r] = "again"] \/ stage' = [stage EXCEPT ![r] = "hop"]
        \/ /\ UNCHANGED wanted
           /\ stage' = [stage EXCEPT ![r] = "done"]
    BY <1>7 DEF FallBack, Call, Enter, Reply, vars
  <2>2. UNCHANGED wish
    BY <1>7 DEF FallBack
  <2> QED
    BY <1>0, <2>1, <2>2 DEF Prefers
<1>8. ASSUME NEW r \in Requests, NextHop(r)
      PROVE  \A q \in Requests : Prefers(q)'
  <2>1. /\ stage[r] = "hop" /\ UNCHANGED <<stage, wish>>
        /\ wanted' = [wanted EXCEPT ![r] = <<wish[r][1], None>>]
    BY <1>8 DEF NextHop, Call
  <2> QED
    BY <1>0, <2>1 DEF Prefers
<1>9. ASSUME NEW r \in Requests, Clear(r)
      PROVE  \A q \in Requests : Prefers(q)'
  <2>1. /\ stage' = [stage EXCEPT ![r] = "idle"] /\ wish' = [wish EXCEPT ![r] = None]
        /\ \A q \in Requests : q # r => wanted'[q] = wanted[q]
    BY <1>0, <1>9 DEF Clear, Enter, Reuse, vars
  <2> QED
    BY <1>0, <2>1 DEF Prefers
<1>10. CASE UNCHANGED <<request, service>>
  BY <1>10 DEF request, service, Prefers
<1>11. CASE UNCHANGED convVars
  BY <1>11 DEF convVars, vars, service, Prefers
<1> QED
  BY <1>1, <1>2, <1>3, <1>4, <1>5, <1>6, <1>7, <1>8, <1>9, <1>10, <1>11 DEF ConvNext

LEMMA PrefersAlways == ConvSpec => [](ConvInv /\ Preferring)
BY ConvInvInit, ConvInvNext, PrefersInit, PrefersStep, PTL DEF ConvSpec

(* A model that the caller names is the one that every provider is asked   *)
(* for while the request is on its own route: route overwrites req.model   *)
(* only where it is None, and the adapters pass it on, but for OpenAI's    *)
(* speech_to_text.                                                         *)
THEOREM NamedModelReaches == ConvSpec => []NamedModelAsked
<1>1. ASSUME ConvInv, Preferring
      PROVE  NamedModelAsked
  <2> SUFFICES ASSUME NEW r \in Requests, stage[r] \in {"media", "direct"},
                      wish[r][2] # None, NEW i \in DOMAIN sent[r]
               PROVE  \/ Asked(r, i) = wish[r][2]
                      \/ sent[r][i][1] = "openai" /\ pair[r] = Transcribe
    BY DEF NamedModelAsked
  <2>1. sent[r] \in Seq(Pair) /\ Named(wanted[r][2], model[r], sent[r], offered[r])
    BY <1>1 DEF ConvInv, RouterInv, RouterTypes, Loop
  <2>2. wanted[r] = wish[r]
    BY <1>1 DEF Preferring, Prefers
  <2>3. sent[r][i][2] = wish[r][2]
    BY <2>1, <2>2 DEF Named
  <2> QED
    BY <2>3 DEF Asked, AskedModel
<1> QED
  BY <1>1, PrefersAlways, PTL

(* From the fallback on, every provider is asked for a model listed for    *)
(* the step's conversion: each step has a request object of its own, whose *)
(* model is that of a candidate of this step, and an adapter that names    *)
(* its own lists that one.                                                 *)
THEOREM StepsStartAfresh == ConvSpec => []StepsAskListedModel
<1>1. ASSUME ConvInv, Preferring
      PROVE  StepsAskListedModel
  <2> DEFINE capable(r) == CapableOf(pair[r])
  <2> SUFFICES ASSUME NEW r \in Requests, stage[r] \in {"again", "hop"},
                      NEW i \in DOMAIN sent[r]
               PROVE  \E j \in DOMAIN capable(r) : capable(r)[j][2] = Asked(r, i)
    BY DEF StepsAskListedModel
  <2>1. /\ sent[r] \in Seq(Pair) /\ cands[r] \in Seq(Pair) /\ offered[r] \in Seq(Pair)
        /\ InOrder(sent[r], cands[r], offered[r])
        /\ \A j \in 1 .. Len(offered[r]) : \E k \in DOMAIN capable(r) : offered[r][j] = capable(r)[k]
        /\ Named(wanted[r][2], model[r], sent[r], offered[r])
    BY <1>1 DEF ConvInv, RouterInv, RouterTypes, Loop, OfferedFor
  <2>2. wanted[r][2] = None /\ sent[r] # <<>> /\ i \in 1 .. Len(sent[r])
    BY <1>1, <2>1 DEF Preferring, Prefers
  <2>3. i \in 1 .. Len(offered[r]) /\ sent[r][i][1] = offered[r][i][1]
    BY <2>1, <2>2, InOrderLens DEF InOrder
  <2>4. PICK k \in DOMAIN capable(r) : offered[r][i] = capable(r)[k]
    BY <2>1, <2>3
  <2>5. PICK j \in 1 .. Len(offered[r]) : offered[r][j][2] = sent[r][i][2]
    BY <2>1, <2>2 DEF Named
  <2>6. PICK l \in DOMAIN capable(r) : offered[r][j] = capable(r)[l]
    BY <2>1
  <2>7. AskedModel(capable(r)[k][1], pair[r], capable(r)[k][2]) = capable(r)[k][2]
    BY <2>4, ListedIsAsked
  <2>8. sent[r][i][1] = capable(r)[k][1] /\ sent[r][i][2] = capable(r)[l][2]
    BY <2>3, <2>4, <2>5, <2>6
  <2> HIDE DEF capable
  <2>9. CASE sent[r][i][1] = "openai" /\ pair[r] = Transcribe
    BY <2>7, <2>8, <2>9 DEF Asked, AskedModel
  <2>10. CASE ~(sent[r][i][1] = "openai" /\ pair[r] = Transcribe)
    BY <2>8, <2>10 DEF Asked, AskedModel
  <2> QED
    BY <2>9, <2>10
<1> QED
  BY <1>1, PrefersAlways, PTL

(* What the caller sends to a media route is what the adapter reads: the   *)
(* routes and the methods of the thirteen adapters agree on the field.     *)
THEOREM MediaAlwaysReaches == ConvSpec => []MediaReachesProvider
<1>1. ASSUME ConvInv
      PROVE  MediaReachesProvider
  <2>1. ASSUME NEW r \in Requests, ask[r] # None, ~ask[r].fallsBack
        PROVE  read[r] \subseteq {0}
    BY <1>1, <2>1 DEF ConvInv, Handled, Asks, Reads
  <2> QED
    BY <2>1 DEF MediaReachesProvider
<1> QED
  BY <1>1, ConvInvAlways, PTL

(* No step of a conversion is answered twice, and "ok" has them all,       *)
(* though ConversionService and Pipeline call the router again and again.  *)
THEOREM StepsAlwaysOnce == ConvSpec => []StepsAnsweredOnce
<1>1. ASSUME ConvInv
      PROVE  StepsAnsweredOnce
  <2> SUFFICES ASSUME NEW r \in Requests, ask[r] # None
               PROVE  /\ IsPrefix(paid[r], Plan(ask[r].pair))
                      /\ verdict[r] = "ok" => paid[r] = Plan(ask[r].pair)
    BY DEF StepsAnsweredOnce
  <2>1. ConvTypes /\ Handled(r) /\ stage[r] # "idle" /\ ask[r] \in Endpoints
    BY <1>1 DEF ConvInv, Handled, Asks
  <2>2. /\ Paid(stage[r], ask[r], pair[r], hops[r], paid[r], answer[r], verdict[r])
        /\ hops[r] \in Seq(NamePairs) /\ paid[r] \in Seq(NamePairs) /\ stage[r] \in Stages
    BY <2>1 DEF ConvTypes, Handled
  <2>3. IsPrefix(paid[r], Plan(ask[r].pair))
    BY <2>1, <2>2, PaidIsPrefix
  <2>4. verdict[r] = "ok" => stage[r] = "done"
    BY <2>1, RouterAssumption DEF Handled, Asks
  <2> QED
    BY <2>2, <2>3, <2>4 DEF Paid
<1> QED
  BY <1>1, ConvInvAlways, PTL

(* Failover is bounded, whatever the capability map holds: a request makes *)
(* no more dispatches than its plan has candidates, or twice as many.      *)
THEOREM TriesAlwaysBounded == ConvSpec => []TriesBounded
<1>1. ASSUME ConvInv
      PROVE  TriesBounded
  <2> SUFFICES ASSUME NEW r \in Requests, ask[r] # None
               PROVE  tries[r] =< MostTries(ask[r])
    BY DEF TriesBounded
  <2>1. RouterInv /\ ConvTypes /\ Handled(r) /\ ask[r] \in Endpoints
        /\ (stage[r] = "again" => ask[r].fallsBack)
    BY <1>1 DEF ConvInv, Handled, Asks
  <2>2. /\ Paid(stage[r], ask[r], pair[r], hops[r], paid[r], answer[r], verdict[r])
        /\ Tried(stage[r], ask[r], hops[r], tries[r], Len(sent[r]))
        /\ hops[r] \in Seq(NamePairs) /\ stage[r] \in Stages /\ tries[r] \in Nat
    BY <2>1 DEF ConvTypes, Handled
  <2>3. Len(sent[r]) \in Nat /\ Len(sent[r]) =< Len(CapableOf(pair[r]))
    BY <2>1, SentIsBounded
  <2> QED
    BY <2>1, <2>2, <2>3, TriedIsBounded
<1> QED
  BY <1>1, ConvInvAlways, PTL
=============================================================================
