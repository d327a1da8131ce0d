---------------------------- MODULE Streaming_proofs ----------------------------
(***************************************************************************)
(* Proofs for Streaming, for any number of streams, any catalogue and any  *)
(* number of lines: the types, that a client gets what EventStream         *)
(* promises, and that a finish means that the text is whole.  The          *)
(* invariant of the second (Standing) says where an error can be: a stream *)
(* that goes on has not raised and holds chunks only, one that has raised  *)
(* and told ends with the error.  That of the third (Texts) looks at what  *)
(* is told and what is due as one sequence, which sending leaves alone.    *)
(***************************************************************************)
EXTENDS Streaming, TLAPS, SequenceTheorems

(* What a stream has told at each place of the code. *)
Standing ==
    \A s \in Streams :
        /\ pc[s] \in {"idle", "filter", "lookup", "refused"} => ~raised[s] /\ events[s] = <<>>
        /\ pc[s] \in {"opening", "reading", "sending", "ending"} =>
              ~raised[s] /\ events[s] \in Seq(Chunks)
        /\ pc[s] = "failed" => raised[s] /\ events[s] \in Seq(Chunks)
        /\ pc[s] = "told" =>
              raised[s] /\ events[s] # <<>> /\ events[s][Len(events[s])] = Error
        /\ pc[s] = "sending" <=> due[s] # <<>>
        /\ pc[s] \in Running \union {"lookup"} => who[s] \in DOMAIN Dialect

Inv == TypeOK /\ Standing

(* A line's effect: chunks of the kinds there are, after which the stream  *)
(* goes on.                                                                *)
Effect(e) ==
    /\ e.chunks \in Seq(ChunkKinds)
    /\ e.next \in {"reading", "ending", "failed"}
    /\ e.chunks # <<>> => e.next = "reading"

Sound(f) == \A k \in DOMAIN f : Effect(f[k])

LEMMA Effects ==
    /\ Effect(Skip) /\ Effect(Stop) /\ Effect(Fail)
    /\ Effect(Give(<<"text">>)) /\ Effect(Give(<<"finish">>)) /\ Effect(Give(<<"last">>))
    /\ Effect(Give(<<"text", "finish">>))
BY DEF Effect, Skip, Stop, Fail, Give, Does, ChunkKinds

LEMMA DialectsSound == \A p \in DOMAIN Dialect : Sound(Dialect[p])
<1>1. Sound(OpenAIStream)
  BY Effects DEF Sound, OpenAIStream
<1>2. Sound(OllamaStream)
  BY Effects DEF Sound, OllamaStream
<1>3. Sound(XAIStream)
  BY Effects DEF Sound, XAIStream
<1>4. Sound(AnthropicStream)
  BY Effects DEF Sound, AnthropicStream
<1>5. Sound(CohereStream)
  BY Effects DEF Sound, CohereStream
<1>6. Sound(GoogleStream)
  BY Effects DEF Sound, GoogleStream
<1> QED
  BY <1>1, <1>2, <1>3, <1>4, <1>5, <1>6
     DEF Dialect, GroqStream, MistralStream, DeepSeekStream

-----------------------------------------------------------------------------
LEMMA LastAppended ==
    ASSUME NEW S, NEW q \in Seq(S), NEW e \in S
    PROVE  Append(q, e) # <<>> /\ Append(q, e)[Len(Append(q, e))] = e
OBVIOUS

LEMMA InvInit == Init => Inv
BY DEF Init, Inv, TypeOK, Standing, Preparing, Running, Over

LEMMA ReadKeeps ==
    ASSUME Inv, NEW s \in Streams, NEW k \in LineKinds, Read(s, k)
    PROVE  Inv'
<1> DEFINE does == Dialect[who[s]][k]
           n    == Len(lines[s]) + 1
           d    == [i \in DOMAIN does.chunks |-> <<does.chunks[i], n>>]
<1>1. who[s] \in DOMAIN Dialect
  BY DEF Read, Inv, TypeOK, Standing, Running
<1>2. Effect(does)
  BY <1>1, DialectsSound DEF Read, Sound
<1>3. n \in 1 .. MaxLines
  BY StreamAssumption DEF Read, Inv, TypeOK
<1>4. d \in Seq(Chunks) /\ (d # <<>> <=> does.chunks # <<>>)
  BY <1>2, <1>3 DEF Effect, Chunks
<1>5. /\ pc[s] = "reading"
      /\ lines' = [lines EXCEPT ![s] = Append(@, k)]
      /\ due' = [due EXCEPT ![s] = d]
      /\ pc' = [pc EXCEPT ![s] = IF does.chunks = <<>> THEN does.next ELSE "sending"]
      /\ raised' = [raised EXCEPT ![s] = does.next = "failed"]
      /\ UNCHANGED <<wish, who, events>>
  BY DEF Read, Goto
<1> HIDE DEF does, n, d
<1>6. TypeOK'
  BY <1>2, <1>4, <1>5 DEF Inv, TypeOK, Effect, Preparing, Running, Over
<1>7. Standing'
  BY <1>1, <1>2, <1>4, <1>5 DEF Inv, TypeOK, Standing, Effect, Running
<1> QED
  BY <1>6, <1>7 DEF Inv

LEMMA InvStep == Inv /\ [Next]_vars => Inv'
<1> SUFFICES ASSUME Inv, [Next]_vars
             PROVE  Inv'
  OBVIOUS
<1> USE DEF Inv, TypeOK, Standing, Goto, Yield, Preparing, Running, Over
<1>1. ASSUME NEW s \in Streams, NEW w \in Wishes, Arrive(s, w)
      PROVE  Inv'
  BY <1>1 DEF Arrive
<1>2. ASSUME NEW s \in Streams, NEW held \in SUBSET Providers, Choose(s, held)
      PROVE  Inv'
  <2>1. \A pm \in ToSet(CapableOf(Chat)) : pm[1] \in DOMAIN Dialect
    BY StreamAssumption DEF ToSet
  <2> QED
    BY <1>2, <2>1 DEF Choose
<1>3. ASSUME NEW s \in Streams, NEW k \in LineKinds, Read(s, k)
      PROVE  Inv'
  BY <1>3, ReadKeeps
<1>4. ASSUME NEW s \in Streams, Lookup(s) \/ Open(s) \/ Exhaust(s)
      PROVE  Inv'
  BY <1>4 DEF Lookup, Open, Exhaust
<1>5. ASSUME NEW s \in Streams, Raise(s)
      PROVE  Inv'
  BY <1>5 DEF Raise
<1>6. ASSUME NEW s \in Streams, Send(s)
      PROVE  Inv'
  BY <1>6 DEF Send
<1>7. ASSUME NEW s \in Streams, Tell(s)
      PROVE  Inv'
  <2>1. events'[s] # <<>> /\ events'[s][Len(events'[s])] = Error
    <3>1. events[s] \in Seq(Chunks \union {Error, EndMarker}) /\ events'[s] = Append(events[s], Error)
      BY <1>7 DEF Tell
    <3> HIDE DEF Inv
    <3>2. Error \in Chunks \union {Error, EndMarker}
      OBVIOUS
    <3> QED
      BY <3>1, <3>2, LastAppended, Zenon
  <2>2. events' \in [Streams -> Seq(Chunks \union {Error, EndMarker})]
    BY <1>7 DEF Tell
  <2> QED
    BY <1>7, <2>1, <2>2 DEF Tell
<1>8. ASSUME NEW s \in Streams, End(s)
      PROVE  Inv'
  <2>1. events' \in [Streams -> Seq(Chunks \union {Error, EndMarker})]
    BY <1>8 DEF End
  <2> QED
    BY <1>8, <2>1 DEF End
<1>9. ASSUME NEW s \in Streams, Disconnect(s) \/ Collect(s) \/ Reuse(s)
      PROVE  Inv'
  <2>1. CASE Disconnect(s)
    BY <2>1 DEF Disconnect
  <2>2. CASE Collect(s)
    BY <2>2 DEF Collect
  <2>3. CASE Reuse(s)
    BY <2>3 DEF Reuse
  <2> QED
    BY <1>9, <2>1, <2>2, <2>3
<1>10. CASE UNCHANGED vars
  BY <1>10 DEF vars
<1> QED
  BY <1>1, <1>2, <1>3, <1>4, <1>5, <1>6, <1>7, <1>8, <1>9, <1>10, Zenon DEF Next

LEMMA InvAlways == Spec => []Inv
BY InvInit, InvStep, PTL DEF Spec

(* Every stream's place, lines and events have their types: among others,  *)
(* the provider chosen has a dialect, so "does not support chat" is never  *)
(* told.                                                                   *)
THEOREM TypeCorrect == Spec => []TypeOK
BY InvAlways, PTL DEF Inv

-----------------------------------------------------------------------------
(* A step that leaves a stream's place open for its client and sends       *)
(* nothing is none of the promise's.                                       *)
LEMMA PromiseStep ==
    ASSUME Inv, [Next]_vars
    PROVE  [Promise!Next]_(Promise!vars)
<1> DEFINE over == [s \in Streams |-> Fate(s)]
<1> USE DEF Inv, TypeOK, Standing, Goto, Yield, Preparing, Running, Over, Fate, Promise!vars
<1>1. ASSUME NEW s \in Streams,
             \/ \E w \in Wishes : Arrive(s, w)
             \/ \E held \in SUBSET Providers : Choose(s, held)
             \/ Lookup(s) \/ Open(s) \/ Exhaust(s) \/ Collect(s)
      PROVE  UNCHANGED Promise!vars
  <2>1. \A t \in Streams : Fate(t)' = Fate(t)
    BY <1>1 DEF Arrive, Choose, Lookup, Open, Exhaust, Collect
  <2> QED
    BY <1>1, <2>1 DEF Arrive, Choose, Lookup, Open, Exhaust, Collect
<1>2. ASSUME NEW s \in Streams, Raise(s)
      PROVE  Promise!Break(s)
  <2>1. \A t \in Streams : Fate(t)' = Fate(t)
    BY <1>2 DEF Raise
  <2> QED
    BY <1>2, <2>1 DEF Raise, Promise!Break
<1>3. ASSUME NEW s \in Streams, NEW k \in LineKinds, Read(s, k)
      PROVE  Promise!Break(s) \/ UNCHANGED Promise!vars
  <2> DEFINE does == Dialect[who[s]][k]
  <2>1. Effect(does)
    <3>1. who[s] \in DOMAIN Dialect /\ k \in DOMAIN Dialect[who[s]]
      BY <1>3 DEF Read
    <3> QED
      BY <3>1, DialectsSound DEF Sound
  <2>2. /\ pc[s] = "reading" /\ events' = events
        /\ pc' = [pc EXCEPT ![s] = IF does.chunks = <<>> THEN does.next ELSE "sending"]
        /\ raised' = [raised EXCEPT ![s] = does.next = "failed"]
    BY <1>3 DEF Read
  <2> HIDE DEF does
  <2>3. \A t \in Streams : Fate(t)' = Fate(t)
    BY <2>1, <2>2 DEF Effect
  <2>4. CASE does.next = "failed"
    BY <2>2, <2>3, <2>4 DEF Promise!Break
  <2>5. CASE does.next # "failed"
    <3>1. raised' = raised
      BY <2>2, <2>5
    <3> QED
      BY <2>2, <2>3, <3>1
  <2> QED
    BY <2>4, <2>5
<1>4. ASSUME NEW s \in Streams, Send(s)
      PROVE  Promise!Say(s)
  <2>1. \A t \in Streams : Fate(t)' = Fate(t)
    BY <1>4 DEF Send
  <2>2. Head(due[s]) \in Chunks
    BY <1>4 DEF Send
  <2> QED
    BY <1>4, <2>1, <2>2 DEF Send, Promise!Say, Promise!Tells
<1>5. ASSUME NEW s \in Streams, Tell(s)
      PROVE  Promise!Own(s)
  <2>1. \A t \in Streams : Fate(t)' = Fate(t)
    BY <1>5 DEF Tell
  <2>2. ~Promise!Owned(s)
    BY <1>5 DEF Tell, Promise!Owned, Error, Chunks
  <2> QED
    BY <1>5, <2>1, <2>2 DEF Tell, Promise!Own, Promise!Tells
<1>6. ASSUME NEW s \in Streams, End(s)
      PROVE  Promise!End(s)
  <2>1. \A t \in Streams : Fate(t)' = IF t = s THEN "ended" ELSE Fate(t)
    BY <1>6 DEF End
  <2>2. over' = [over EXCEPT ![s] = "ended"]
    BY <2>1
  <2>3. raised[s] <=> Promise!Owned(s)
    BY <1>6 DEF End, Promise!Owned, Error, Chunks
  <2> QED
    BY <1>6, <2>2, <2>3 DEF End, Promise!End, Promise!Tells
<1>7. ASSUME NEW s \in Streams, Disconnect(s)
      PROVE  Promise!Cut(s)
  <2>1. \A t \in Streams : Fate(t)' = IF t = s THEN "cut" ELSE Fate(t)
    BY <1>7 DEF Disconnect
  <2>2. over' = [over EXCEPT ![s] = "cut"]
    BY <2>1
  <2> QED
    BY <1>7, <2>2 DEF Disconnect, Promise!Cut
<1>8. ASSUME NEW s \in Streams, Reuse(s)
      PROVE  Promise!Renew(s) \/ UNCHANGED Promise!vars
  <2>1. \A t \in Streams : Fate(t)' = IF t = s THEN "open" ELSE Fate(t)
    BY <1>8 DEF Reuse
  <2>2. over' = [over EXCEPT ![s] = "open"]
    BY <2>1
  <2>3. CASE pc[s] = "refused"
    <3>1. events' = events /\ raised' = raised
      BY <1>8, <2>3 DEF Reuse
    <3>2. over' = over
      BY <2>2, <2>3
    <3> QED
      BY <3>1, <3>2
  <2>4. CASE pc[s] # "refused"
    BY <1>8, <2>2, <2>4 DEF Reuse, Promise!Renew
  <2> QED
    BY <2>3, <2>4
<1>9. CASE UNCHANGED vars
  BY <1>9 DEF vars
<1> QED
  <2> HIDE DEF Inv, TypeOK, Standing, Fate, Promise!vars
  <2> QED
    BY <1>1, <1>2, <1>3, <1>4, <1>5, <1>6, <1>7, <1>8, <1>9 DEF Next, Promise!Next

(* The client of any stream, from any provider, is promised the same.      *)
THEOREM PromiseKept == Spec => KeepsPromise
<1>1. Init => Promise!Init
  BY DEF Init, Promise!Init, Fate
<1> QED
  BY <1>1, InvAlways, PromiseStep, PTL DEF Spec, KeepsPromise, Promise!Spec

-----------------------------------------------------------------------------
(* What a line gives the client: its text in one chunk, if it has any, and *)
(* a finish not before the text.                                           *)
Spoken(k, c) ==
    /\ HasText(k) => \E i \in DOMAIN c : HasText(c[i])
    /\ \A i \in DOMAIN c : HasText(c[i]) => HasText(k) /\ \A h \in DOMAIN c : HasText(c[h]) => h = i
    /\ \A j \in DOMAIN c : c[j] \in {"finish", "last"} /\ HasText(k) =>
          \E i \in 1 .. j : HasText(c[i])

SpokenBy(f) == \A k \in DOMAIN f : Spoken(k, f[k].chunks)

LEMMA DialectsSpeak == \A p \in DOMAIN Dialect : SpokenBy(Dialect[p])
<1> USE DEF SpokenBy, Spoken, HasText, Give, Skip, Stop, Fail, Does
<1>1. SpokenBy(OpenAIStream)
  BY DEF OpenAIStream
<1>2. SpokenBy(OllamaStream)
  BY DEF OllamaStream
<1>3. SpokenBy(XAIStream)
  BY DEF XAIStream
<1>4. SpokenBy(AnthropicStream)
  BY DEF AnthropicStream
<1>5. SpokenBy(CohereStream)
  BY DEF CohereStream
<1>6. SpokenBy(GoogleStream)
  BY DEF GoogleStream
<1> HIDE DEF SpokenBy
<1> QED
  BY <1>1, <1>2, <1>3, <1>4, <1>5, <1>6
     DEF Dialect, GroqStream, MistralStream, DeepSeekStream

(* The events come from lines that were read; the lines' text has come.    *)
Placed(told, read) == \A j \in DOMAIN told : told[j][2] \in 0 .. Len(read)

Covered(told, read) ==
    \A n \in DOMAIN read : HasText(read[n]) =>
        \E i \in DOMAIN told : HasText(told[i][1]) /\ told[i][2] = n

(* What is whole with more to come is whole without it: the client may     *)
(* leave at any event.                                                     *)
LEMMA WholeBefore ==
    ASSUME NEW S, NEW told \in Seq(S), NEW more \in Seq(S), NEW read \in Seq(LineKinds),
           Placed(told \o more, read), Whole(told \o more, read)
    PROVE  Placed(told, read) /\ Whole(told, read)
<1> DEFINE all == told \o more
<1>1. /\ DOMAIN told = 1 .. Len(told) /\ DOMAIN told \subseteq DOMAIN all
      /\ \A i \in DOMAIN told : all[i] = told[i]
  BY DEF all
<1>2. Placed(all, read) /\ Whole(all, read)
  OBVIOUS
<1>3. Len(told) \in Nat
  OBVIOUS
<1> HIDE DEF all
<1>4. Placed(told, read)
  BY <1>1, <1>2 DEF Placed
<1>5. ASSUME NEW j \in DOMAIN told
      PROVE  \A i \in 1 .. j : i \in DOMAIN told /\ all[i] = told[i]
  BY <1>1, <1>3
<1>6. ASSUME NEW j \in DOMAIN told
      PROVE  \A i \in 1 .. j - 1 : i \in DOMAIN told /\ all[i] = told[i]
  BY <1>1, <1>3
<1>7. \A j \in DOMAIN told : j \in DOMAIN all /\ all[j] = told[j]
  BY <1>1
<1>8. Whole(told, read)
  <2> SUFFICES ASSUME NEW j \in DOMAIN told
               PROVE  Stands(told, read, j)
    BY DEF Whole
  <2>1. Stands(all, read, j)
    BY <1>2, <1>7 DEF Whole
  <2> QED
    BY <2>1, <1>5, <1>6, <1>7 DEF Stands
<1> QED
  BY <1>4, <1>8

(* ... and with an error or the marker after it. *)
LEMMA WholeMarked ==
    ASSUME NEW S, NEW told \in Seq(S), NEW e \in S, NEW read \in Seq(LineKinds),
           e[1] \notin {"text", "finish", "last"}, e[2] = 0,
           Placed(told, read), Whole(told, read)
    PROVE  Placed(Append(told, e), read) /\ Whole(Append(told, e), read)
<1> DEFINE all == Append(told, e)
           m   == Len(told)
<1>1. /\ DOMAIN told = 1 .. m /\ DOMAIN all = 1 .. m + 1 /\ m \in Nat /\ Len(read) \in Nat
      /\ \A i \in 1 .. m : all[i] = told[i]
      /\ all[m + 1] = e
  OBVIOUS
<1> HIDE DEF all, m
<1>2. \A j \in DOMAIN all : j \in DOMAIN told \/ j = m + 1
  BY <1>1
<1>3. Placed(all, read)
  BY <1>1, <1>2 DEF Placed
<1>4. \A j \in DOMAIN told : \A i \in 1 .. j : all[i] = told[i]
  BY <1>1
<1>5. \A j \in DOMAIN told : \A i \in 1 .. j - 1 : all[i] = told[i]
  BY <1>1
<1>6. \A j \in DOMAIN told : all[j] = told[j]
  BY <1>1
<1>7. ~HasText(all[m + 1][1]) /\ all[m + 1][1] \notin {"finish", "last"}
  BY <1>1 DEF HasText
<1>8. Whole(all, read)
  <2> SUFFICES ASSUME NEW j \in DOMAIN all
               PROVE  Stands(all, read, j)
    BY DEF Whole
  <2>1. CASE j \in DOMAIN told
    <3>1. Stands(told, read, j)
      BY <2>1 DEF Whole
    <3> QED
      BY <2>1, <3>1, <1>4, <1>5, <1>6 DEF Stands
  <2>2. CASE j = m + 1
    BY <2>2, <1>7 DEF Stands
  <2> QED
    BY <2>1, <2>2, <1>2
<1> QED
  BY <1>3, <1>8 DEF all

(* A line read while all the text before it is told or due. *)
LEMMA WholeGrows ==
    ASSUME NEW S, NEW told \in Seq(S), NEW read \in Seq(LineKinds), NEW k \in LineKinds,
           NEW c \in Seq(ChunkKinds), NEW d \in Seq(S), Spoken(k, c),
           d = [i \in DOMAIN c |-> <<c[i], Len(read) + 1>>],
           Placed(told, read), Whole(told, read), Covered(told, read)
    PROVE  /\ Placed(told \o d, Append(read, k))
           /\ Whole(told \o d, Append(read, k))
           /\ Covered(told \o d, Append(read, k))
<1> DEFINE all == told \o d
           m   == Len(told)
           n   == Len(read)
           rd  == Append(read, k)
           q   == Len(c)
<1>1. /\ DOMAIN told = 1 .. m /\ DOMAIN all = 1 .. m + q /\ DOMAIN c = 1 .. q
      /\ DOMAIN read = 1 .. n /\ DOMAIN rd = 1 .. n + 1 /\ Len(rd) = n + 1
      /\ m \in Nat /\ n \in Nat /\ q \in Nat
  <2>1. DOMAIN c = 1 .. q /\ q \in Nat /\ m \in Nat /\ n \in Nat
    OBVIOUS
  <2>2. Len(d) = q
    <3>1. DOMAIN d = 1 .. q
      BY <2>1
    <3> QED
      <4>1. Len(d) \in Nat /\ DOMAIN d = 1 .. Len(d)
        BY LenProperties
      <4>2. ASSUME NEW a \in Nat, NEW b \in Nat, 1 .. a = 1 .. b
            PROVE  a = b
        <5>1. (a \in 1 .. a <=> a \in 1 .. b) /\ (b \in 1 .. a <=> b \in 1 .. b)
          BY <4>2
        <5> QED
          BY <5>1
      <4>3. 1 .. Len(d) = 1 .. q
        BY <3>1, <4>1
      <4> QED
        BY <2>1, <4>1, <4>2, <4>3
  <2>3. DOMAIN told = 1 .. m /\ DOMAIN read = 1 .. n
    OBVIOUS
  <2>4. DOMAIN rd = 1 .. n + 1 /\ Len(rd) = n + 1
    OBVIOUS
  <2>5. DOMAIN all = 1 .. m + q
    <3>1. Len(told \o d) = Len(told) + Len(d) /\ DOMAIN (told \o d) = 1 .. Len(told \o d)
      BY ConcatProperties, LenProperties
    <3> QED
      BY <2>2, <3>1
  <2> QED
    BY <2>1, <2>3, <2>4, <2>5
<1>2. \A i \in 1 .. m : all[i] = told[i]
  OBVIOUS
<1>3. \A i \in 1 .. q : all[m + i] = <<c[i], n + 1>>
  OBVIOUS
<1>4. /\ \A x \in 1 .. n : rd[x] = read[x]
      /\ rd[n + 1] = k
  OBVIOUS
<1>5. Placed(told, read) /\ Whole(told, read) /\ Covered(told, read) /\ Spoken(k, c)
  OBVIOUS
<1> HIDE DEF all, m, n, rd, q
<1>6. \A j \in DOMAIN all : j \in 1 .. m \/ \E i \in 1 .. q : j = m + i
  <2> SUFFICES ASSUME NEW j \in DOMAIN all, j \notin 1 .. m
               PROVE  \E i \in 1 .. q : j = m + i
    OBVIOUS
  <2>1. j - m \in 1 .. q /\ j = m + (j - m)
    BY <1>1
  <2> QED
    BY <2>1
<1>7. \A j \in 1 .. m : told[j][2] \in 0 .. n
  BY <1>1, <1>5 DEF Placed, n
<1>8. Placed(all, rd)
  <2> SUFFICES ASSUME NEW j \in DOMAIN all
               PROVE  all[j][2] \in 0 .. n + 1
    BY <1>1 DEF Placed
  <2>1. CASE j \in 1 .. m
    BY <2>1, <1>1, <1>2, <1>7
  <2>2. CASE j \notin 1 .. m
    <3>1. PICK i \in 1 .. q : j = m + i
      BY <2>2, <1>6
    <3>2. all[j][2] = n + 1
      BY <3>1, <1>3
    <3> QED
      BY <3>2, <1>1
  <2> QED
    BY <2>1, <2>2
<1>9. Covered(all, rd)
  <2> SUFFICES ASSUME NEW x \in 1 .. n + 1, HasText(rd[x])
               PROVE  \E i \in DOMAIN all : HasText(all[i][1]) /\ all[i][2] = x
    BY <1>1 DEF Covered
  <2>1. CASE x \in 1 .. n
    <3>1. PICK i \in 1 .. m : HasText(told[i][1]) /\ told[i][2] = x
      BY <2>1, <1>1, <1>4, <1>5 DEF Covered
    <3>2. i \in DOMAIN all /\ all[i] = told[i]
      BY <1>1, <1>2
    <3> QED
      BY <3>1, <3>2
  <2>2. CASE x = n + 1
    <3>1. PICK i \in 1 .. q : HasText(c[i])
      BY <2>2, <1>1, <1>4, <1>5 DEF Spoken
    <3>2. m + i \in DOMAIN all /\ all[m + i][1] = c[i] /\ all[m + i][2] = n + 1
      BY <1>1, <1>3
    <3> QED
      BY <3>1, <3>2, <2>2
  <2> QED
    BY <2>1, <2>2, <1>1
<1>10. Whole(all, rd)
  <2> SUFFICES ASSUME NEW j \in DOMAIN all
               PROVE  Stands(all, rd, j)
    BY DEF Whole
  <2>1. CASE j \in 1 .. m
    <3>1. all[j] = told[j] /\ told[j][2] \in 0 .. n
      BY <2>1, <1>2, <1>7
    <3>2. ASSUME HasText(told[j][1])
          PROVE  /\ told[j][2] \in DOMAIN rd /\ HasText(rd[told[j][2]])
                 /\ \A i \in 1 .. j - 1 : HasText(all[i][1]) => all[i][2] < told[j][2]
      <4>1. /\ told[j][2] \in 1 .. n /\ HasText(read[told[j][2]])
            /\ \A i \in 1 .. j - 1 : HasText(told[i][1]) => told[i][2] < told[j][2]
        BY <2>1, <3>2, <1>1, <1>5 DEF Whole, Stands
      <4>2. \A i \in 1 .. j - 1 : all[i] = told[i]
        BY <2>1, <1>1, <1>2
      <4>3. told[j][2] \in DOMAIN rd /\ rd[told[j][2]] = read[told[j][2]]
        BY <4>1, <1>1, <1>4
      <4> QED
        BY <4>1, <4>2, <4>3
    <3>3. ASSUME told[j][1] \in {"finish", "last"}, NEW x \in 1 .. told[j][2], HasText(rd[x])
          PROVE  \E i \in 1 .. j : HasText(all[i][1]) /\ all[i][2] = x
      <4>1. x \in 1 .. n
        BY <3>1, <1>1
      <4>2. HasText(read[x])
        BY <4>1, <3>3, <1>4
      <4>3. PICK i \in 1 .. j : HasText(told[i][1]) /\ told[i][2] = x
        BY <2>1, <3>3, <4>2, <1>1, <1>5 DEF Whole, Stands
      <4>4. all[i] = told[i]
        BY <2>1, <1>1, <1>2
      <4> QED
        BY <4>3, <4>4
    <3> QED
      BY <3>1, <3>2, <3>3 DEF Stands
  <2>2. CASE j \notin 1 .. m
    <3>1. PICK h \in 1 .. q : j = m + h
      BY <2>2, <1>6
    <3>2. all[j][1] = c[h] /\ all[j][2] = n + 1
      BY <3>1, <1>3
    <3>3. ASSUME HasText(c[h])
          PROVE  /\ n + 1 \in DOMAIN rd /\ HasText(rd[n + 1])
                 /\ \A i \in 1 .. j - 1 : HasText(all[i][1]) => all[i][2] < n + 1
      <4>1. HasText(k) /\ \A i \in 1 .. q : HasText(c[i]) => i = h
        BY <3>3, <1>1, <1>5 DEF Spoken
      <4>2. ASSUME NEW i \in 1 .. j - 1, HasText(all[i][1])
            PROVE  all[i][2] < n + 1
        <5>1. CASE i \in 1 .. m
          BY <5>1, <1>1, <1>2, <1>7
        <5>2. CASE i \notin 1 .. m
          <6>1. i \in DOMAIN all
            BY <1>1
          <6>2. PICK g \in 1 .. q : i = m + g
            BY <5>2, <6>1, <1>6
          <6>3. all[i][1] = c[g]
            BY <6>2, <1>3
          <6>4. g = h
            BY <4>1, <4>2, <6>3
          <6> QED
            BY <6>2, <6>4, <3>1, <1>1
        <5> QED
          BY <5>1, <5>2
      <4> QED
        BY <4>1, <4>2, <1>1, <1>4
    <3>4. ASSUME c[h] \in {"finish", "last"}, NEW x \in 1 .. n + 1, HasText(rd[x])
          PROVE  \E i \in 1 .. j : HasText(all[i][1]) /\ all[i][2] = x
      <4>1. CASE x \in 1 .. n
        <5>1. PICK i \in 1 .. m : HasText(told[i][1]) /\ told[i][2] = x
          BY <4>1, <3>4, <1>1, <1>4, <1>5 DEF Covered
        <5>2. i \in 1 .. j /\ all[i] = told[i]
          BY <3>1, <1>1, <1>2
        <5> QED
          BY <5>1, <5>2
      <4>2. CASE x = n + 1
        <5>1. HasText(k)
          BY <4>2, <3>4, <1>4
        <5>2. PICK i \in 1 .. h : HasText(c[i])
          BY <5>1, <3>4, <1>1, <1>5 DEF Spoken
        <5>3. i \in 1 .. q /\ m + i \in 1 .. j
          BY <3>1, <1>1
        <5>4. all[m + i][1] = c[i] /\ all[m + i][2] = n + 1
          BY <5>3, <1>3
        <5> QED
          BY <5>2, <5>3, <5>4, <4>2
      <4> QED
        BY <4>1, <4>2, <1>1
    <3> QED
      BY <3>2, <3>3, <3>4 DEF Stands
  <2> QED
    BY <2>1, <2>2
<1> QED
  BY <1>8, <1>9, <1>10 DEF all, rd

(* What is told and what is due together hold all the text read so far, as *)
(* long as the stream is read.                                             *)
Unread == {"idle", "filter", "lookup", "refused", "opening"}

TextOf(at, told, more, read) ==
    /\ Placed(told \o more, read)
    /\ Whole(told \o more, read)
    /\ at \in {"reading", "sending"} => Covered(told \o more, read)
    /\ at \in Unread => read = <<>>

Texts == \A s \in Streams : TextOf(pc[s], events[s], due[s], lines[s])

Events == Chunks \union {Error, EndMarker}

LEMMA EventSeqs == Inv => \A s \in Streams : /\ events[s] \in Seq(Events) /\ due[s] \in Seq(Events)
                                 /\ lines[s] \in Seq(LineKinds)
<1> SUFFICES ASSUME Inv, NEW s \in Streams
             PROVE  events[s] \in Seq(Events) /\ due[s] \in Seq(Events) /\ lines[s] \in Seq(LineKinds)
  OBVIOUS
<1>1. Chunks \subseteq Events
  BY DEF Events
<1>2. Seq(Chunks) \subseteq Seq(Events)
  BY <1>1
<1> QED
  BY <1>2 DEF Inv, TypeOK, Events

LEMMA NoneTold ==
    ASSUME NEW at
    PROVE TextOf(at, <<>>, <<>>, <<>>)
BY DEF TextOf, Placed, Whole, Covered

LEMMA ConcatNone ==
    ASSUME NEW S, NEW q \in Seq(S)
    PROVE  q \o <<>> = q
OBVIOUS

(* A chunk due that is sent leaves the two together as they are. *)
LEMMA HeadTold ==
    ASSUME NEW S, NEW q \in Seq(S), NEW r \in Seq(S), r # <<>>
    PROVE  Append(q, Head(r)) \o Tail(r) = q \o r
<1>1. Head(r) \in S /\ Tail(r) \in Seq(S) /\ Len(Tail(r)) = Len(r) - 1 /\ Len(r) \in Nat \ {0}
  OBVIOUS
<1>2. Append(q, Head(r)) \in Seq(S) /\ Len(Append(q, Head(r))) = Len(q) + 1
  BY <1>1
<1> DEFINE a == Append(q, Head(r)) \o Tail(r)
           b == q \o r
<1>3. a \in Seq(S) /\ b \in Seq(S) /\ Len(a) = Len(b)
  BY <1>1, <1>2
<1>4. ASSUME NEW i \in 1 .. Len(a)
      PROVE  a[i] = b[i]
  <2>1. CASE i <= Len(q)
    BY <2>1, <1>1, <1>2
  <2>2. CASE i = Len(q) + 1
    BY <2>2, <1>1, <1>2
  <2>3. CASE i > Len(q) + 1
    BY <2>3, <1>1, <1>2
  <2> QED
    BY <2>1, <2>2, <2>3
<1> HIDE DEF a, b
<1>5. a = b
  BY <1>3, <1>4, SeqEqual
<1> QED
  BY <1>5 DEF a, b

LEMMA TextsInit == Init => Texts
BY NoneTold DEF Init, Texts

-----------------------------------------------------------------------------
LEMMA TextsStep == Inv /\ Texts /\ [Next]_vars => Texts'
<1> SUFFICES ASSUME Inv, Texts, [Next]_vars
             PROVE  Texts'
  OBVIOUS
<1> DEFINE T(s) == TextOf(pc[s], events[s], due[s], lines[s])
<1>now. /\ \A s \in Streams : T(s)
      /\ \A s \in Streams : /\ events[s] \in Seq(Events) /\ due[s] \in Seq(Events)
                            /\ lines[s] \in Seq(LineKinds)
  BY EventSeqs DEF Texts
<1>typed. /\ pc \in [Streams -> {"idle"} \union Preparing \union Running \union Over]
       /\ DOMAIN lines = Streams /\ DOMAIN events = Streams /\ DOMAIN due = Streams
       /\ \A s \in Streams : pc[s] = "sending" <=> due[s] # <<>>
  BY DEF Inv, TypeOK, Standing
<1> USE DEF Goto, Yield
(* It is enough to look at the stream that moves. *)
<1>1. ASSUME NEW s \in Streams,
             \A t \in Streams \ {s} : /\ pc'[t] = pc[t] /\ events'[t] = events[t]
                                      /\ due'[t] = due[t] /\ lines'[t] = lines[t],
             TextOf(pc'[s], events'[s], due'[s], lines'[s])
      PROVE  Texts'
  <2>1. ASSUME NEW t \in Streams
        PROVE  TextOf(pc'[t], events'[t], due'[t], lines'[t])
    <3>1. CASE t = s
      BY <3>1, <1>1
    <3>2. CASE t # s
      <4>1. pc'[t] = pc[t] /\ events'[t] = events[t] /\ due'[t] = due[t] /\ lines'[t] = lines[t]
        BY <3>2, <1>1
      <4>2. TextOf(pc[t], events[t], due[t], lines[t])
        BY <1>now
      <4> QED
        BY <4>1, <4>2
    <3> QED
      BY <3>1, <3>2
  <2> QED
    BY <2>1 DEF Texts
<1>2. ASSUME NEW s \in Streams,
             \/ \E w \in Wishes : Arrive(s, w)
             \/ \E held \in SUBSET Providers : Choose(s, held)
             \/ Lookup(s) \/ Open(s) \/ Exhaust(s) \/ Raise(s) \/ Collect(s)
      PROVE  Texts'
  <2>1. UNCHANGED <<lines, due, events>>
    BY <1>2 DEF Arrive, Choose, Lookup, Open, Exhaust, Raise, Collect
  <2>2. \A t \in Streams \ {s} : pc'[t] = pc[t]
    BY <1>2, <1>typed DEF Arrive, Choose, Lookup, Open, Exhaust, Raise, Collect
  <2>3. /\ pc'[s] \in {"reading", "sending"} => pc[s] = "opening"
        /\ pc'[s] \in Unread => pc[s] \in Unread
    BY <1>2, <1>typed DEF Arrive, Choose, Lookup, Open, Exhaust, Raise, Collect, Unread
  <2>4. TextOf(pc'[s], events[s], due[s], lines[s])
    <3>1. T(s)
      BY <1>now
    <3>2. Covered(events[s] \o due[s], <<>>)
      BY DEF Covered
    <3> QED
      BY <2>3, <3>1, <3>2 DEF TextOf, Unread
  <2>5. TextOf(pc'[s], events'[s], due'[s], lines'[s])
    BY <2>1, <2>4
  <2> QED
    BY <2>1, <2>2, <2>5, <1>1
<1>3. ASSUME NEW s \in Streams, NEW k \in LineKinds, Read(s, k)
      PROVE  Texts'
  <2> DEFINE c == Dialect[who[s]][k].chunks
             d == [i \in DOMAIN c |-> <<c[i], Len(lines[s]) + 1>>]
  <2>1. /\ pc[s] = "reading" /\ who[s] \in DOMAIN Dialect /\ k \in DOMAIN Dialect[who[s]]
        /\ lines' = [lines EXCEPT ![s] = Append(@, k)]
        /\ due' = [due EXCEPT ![s] = d]
        /\ pc' = [pc EXCEPT ![s] = IF c = <<>> THEN Dialect[who[s]][k].next ELSE "sending"]
        /\ events' = events
    BY <1>3 DEF Read, Inv, Standing, Running
  <2>2. Effect(Dialect[who[s]][k]) /\ Spoken(k, c)
    BY <2>1, DialectsSound, DialectsSpeak DEF Sound, SpokenBy
  <2>3. c \in Seq(ChunkKinds) /\ due[s] = <<>>
    BY <2>1, <2>2, <1>typed DEF Effect
  <2>4. d \in Seq(Events)
    <3>1. TypeOK'
      BY <1>3, ReadKeeps DEF Inv
    <3>2. due'[s] \in Seq(Chunks) /\ due'[s] = d
      BY <3>1, <2>1, <1>typed DEF TypeOK
    <3>3. Seq(Chunks) \subseteq Seq(Events)
      <4>1. Chunks \subseteq Events
        BY DEF Events
      <4> QED
        BY <4>1
    <3> QED
      BY <3>2, <3>3
  <2>5. /\ Placed(events[s], lines[s]) /\ Whole(events[s], lines[s])
        /\ Covered(events[s], lines[s])
    <3>1. events[s] \o due[s] = events[s]
      BY <2>3, <1>now, ConcatNone
    <3>2. T(s)
      BY <1>now
    <3> QED
      BY <2>1, <3>1, <3>2 DEF TextOf
  <2>6. /\ Placed(events[s] \o d, Append(lines[s], k))
        /\ Whole(events[s] \o d, Append(lines[s], k))
        /\ Covered(events[s] \o d, Append(lines[s], k))
    <3>1. events[s] \in Seq(Events) /\ lines[s] \in Seq(LineKinds)
      BY <1>now
    <3>2. d = [i \in DOMAIN c |-> <<c[i], Len(lines[s]) + 1>>]
      OBVIOUS
    <3> HIDE DEF c, d
    <3> QED
      BY <3>1, <3>2, <2>2, <2>3, <2>4, <2>5, WholeGrows
  <2>7. pc'[s] \notin Unread
    BY <2>1, <2>2, <1>typed DEF Effect, Unread
  <2>8. events'[s] = events[s] /\ due'[s] = d /\ lines'[s] = Append(lines[s], k)
    BY <2>1, <1>typed
  <2>9. \A t \in Streams \ {s} : /\ pc'[t] = pc[t] /\ events'[t] = events[t]
                                 /\ due'[t] = due[t] /\ lines'[t] = lines[t]
    BY <2>1, <1>typed
  <2> HIDE DEF c, d
  <2>10. TextOf(pc'[s], events'[s], due'[s], lines'[s])
    BY <2>6, <2>7, <2>8 DEF TextOf, Unread
  <2> QED
    BY <2>9, <2>10, <1>1
<1>4. ASSUME NEW s \in Streams, Send(s)
      PROVE  Texts'
  <2>1. /\ pc[s] = "sending" /\ lines' = lines
        /\ events' = [events EXCEPT ![s] = Append(@, Head(due[s]))]
        /\ due' = [due EXCEPT ![s] = Tail(@)]
        /\ pc' = [pc EXCEPT ![s] = IF Tail(due[s]) = <<>> THEN "reading" ELSE "sending"]
    BY <1>4 DEF Send
  <2>2. events'[s] \o due'[s] = events[s] \o due[s]
    <3>1. due[s] # <<>> /\ due[s] \in Seq(Events) /\ events[s] \in Seq(Events)
      BY <2>1, <1>now, <1>typed
    <3>2. events'[s] = Append(events[s], Head(due[s])) /\ due'[s] = Tail(due[s])
      BY <2>1, <1>typed
    <3> QED
      BY <3>1, <3>2, HeadTold
  <2>3. pc'[s] \notin Unread
    BY <2>1, <1>typed DEF Unread
  <2>4. \A t \in Streams \ {s} : /\ pc'[t] = pc[t] /\ events'[t] = events[t]
                                 /\ due'[t] = due[t] /\ lines'[t] = lines[t]
    BY <2>1, <1>typed
  <2>5. TextOf(pc'[s], events'[s], due'[s], lines'[s])
    <3>1. T(s)
      BY <1>now
    <3>2. lines'[s] = lines[s]
      BY <2>1
    <3> QED
      BY <2>1, <2>2, <2>3, <3>1, <3>2 DEF TextOf, Unread
  <2> QED
    BY <2>4, <2>5, <1>1
<1>5. ASSUME NEW s \in Streams, NEW e \in {Error, EndMarker}, pc[s] \in {"failed", "ending", "told"},
             Yield(s, e), pc' = [pc EXCEPT ![s] = IF e = Error THEN "told" ELSE "closed"],
             UNCHANGED <<lines, due>>
      PROVE  Texts'
  <2>1. due[s] = <<>>
    BY <1>5, <1>typed
  <2>2. Placed(events[s], lines[s]) /\ Whole(events[s], lines[s])
    <3>1. events[s] \o due[s] = events[s]
      BY <2>1, <1>now, ConcatNone
    <3>2. T(s)
      BY <1>now
    <3> QED
      BY <3>1, <3>2 DEF TextOf
  <2>3. e \in Events /\ e[1] \notin {"text", "finish", "last"} /\ e[2] = 0
    BY <1>5 DEF Events, Error, EndMarker
  <2>4. Placed(Append(events[s], e), lines[s]) /\ Whole(Append(events[s], e), lines[s])
    BY <2>2, <2>3, <1>now, WholeMarked
  <2>5. events'[s] = Append(events[s], e) /\ due'[s] = <<>> /\ lines'[s] = lines[s]
    BY <1>5, <2>1, <1>typed
  <2>6. events'[s] \o due'[s] = Append(events[s], e)
    <3>1. Append(events[s], e) \in Seq(Events)
      BY <2>3, <1>now
    <3> QED
      BY <3>1, <2>5, ConcatNone
  <2>7. pc'[s] \notin Unread /\ pc'[s] \notin {"reading", "sending"}
    BY <1>5, <1>typed DEF Unread
  <2>8. TextOf(pc'[s], events'[s], due'[s], lines'[s])
    BY <2>4, <2>5, <2>6, <2>7 DEF TextOf, Unread
  <2>9. \A t \in Streams \ {s} : /\ pc'[t] = pc[t] /\ events'[t] = events[t]
                                 /\ due'[t] = due[t] /\ lines'[t] = lines[t]
    BY <1>5, <1>typed
  <2> QED
    BY <2>8, <2>9, <1>1
<1>6. ASSUME NEW s \in Streams, Tell(s)
      PROVE  Texts'
  BY <1>6, <1>5 DEF Tell
<1>7. ASSUME NEW s \in Streams, End(s)
      PROVE  Texts'
  <2>1. EndMarker # Error
    BY DEF EndMarker, Error
  <2> QED
    BY <1>7, <2>1, <1>5 DEF End
<1>8. ASSUME NEW s \in Streams, Disconnect(s)
      PROVE  Texts'
  <2>1. /\ UNCHANGED <<lines, events>> /\ due' = [due EXCEPT ![s] = <<>>]
        /\ pc' = [pc EXCEPT ![s] = IF pc[s] = "sending" THEN "abandoned" ELSE "gone"]
    BY <1>8 DEF Disconnect
  <2>2. Placed(events[s], lines[s]) /\ Whole(events[s], lines[s])
    <3>1. T(s) /\ events[s] \in Seq(Events) /\ due[s] \in Seq(Events) /\ lines[s] \in Seq(LineKinds)
      BY <1>now
    <3> QED
      BY <3>1, WholeBefore DEF TextOf
  <2>3. events'[s] \o due'[s] = events[s]
    <3>1. events'[s] = events[s] /\ due'[s] = <<>> /\ events[s] \in Seq(Events)
      BY <2>1, <1>now, <1>typed
    <3> QED
      BY <3>1, ConcatNone
  <2>4. pc'[s] \notin Unread /\ pc'[s] \notin {"reading", "sending"} /\ lines'[s] = lines[s]
    BY <2>1, <1>typed DEF Unread
  <2>5. TextOf(pc'[s], events'[s], due'[s], lines'[s])
    BY <2>2, <2>3, <2>4 DEF TextOf, Unread
  <2>6. \A t \in Streams \ {s} : /\ pc'[t] = pc[t] /\ events'[t] = events[t]
                                 /\ due'[t] = due[t] /\ lines'[t] = lines[t]
    BY <2>1, <1>typed
  <2> QED
    BY <2>5, <2>6, <1>1
<1>9. ASSUME NEW s \in Streams, Reuse(s)
      PROVE  Texts'
  <2>1. /\ pc[s] \in Over /\ due' = due
        /\ lines' = [lines EXCEPT ![s] = <<>>] /\ events' = [events EXCEPT ![s] = <<>>]
        /\ pc' = [pc EXCEPT ![s] = "idle"]
    BY <1>9 DEF Reuse
  <2>2. events'[s] = <<>> /\ due'[s] = <<>> /\ lines'[s] = <<>>
    BY <2>1, <1>typed DEF Over
  <2>3. TextOf(pc'[s], events'[s], due'[s], lines'[s])
    BY <2>2, NoneTold
  <2>4. \A t \in Streams \ {s} : /\ pc'[t] = pc[t] /\ events'[t] = events[t]
                                 /\ due'[t] = due[t] /\ lines'[t] = lines[t]
    BY <2>1, <1>typed
  <2> QED
    BY <2>3, <2>4, <1>1
<1>10. CASE UNCHANGED vars
  BY <1>10 DEF vars, Texts
<1> QED
  BY <1>2, <1>3, <1>4, <1>6, <1>7, <1>8, <1>9, <1>10 DEF Next

(* Whatever the provider's dialect, and wherever the client or the provider *)
(* breaks the stream off, a finish that the client sees comes after all the *)
(* text that was sent up to it, and no text twice or out of order.          *)
THEOREM FinishAlwaysWhole == Spec => []FinishMeansWhole
<1>1. Inv /\ Texts => FinishMeansWhole
  <2> SUFFICES ASSUME Inv, Texts, NEW s \in Streams
               PROVE  Whole(events[s], lines[s])
    BY DEF FinishMeansWhole
  <2>1. /\ TextOf(pc[s], events[s], due[s], lines[s])
        /\ events[s] \in Seq(Events) /\ due[s] \in Seq(Events) /\ lines[s] \in Seq(LineKinds)
    BY EventSeqs DEF Texts
  <2> QED
    BY <2>1, WholeBefore DEF TextOf
<1>2. Spec => []Texts
  BY InvAlways, TextsInit, TextsStep, PTL DEF Spec
<1> QED
  BY <1>1, <1>2, InvAlways, PTL
=============================================================================
