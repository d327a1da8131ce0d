------------------------------- MODULE Conversion -------------------------------
(***************************************************************************)
(* The routes that convert media, composed with the router, the key store  *)
(* and the adapters: images, audio and embeddings go straight to the       *)
(* router; POST /conversions goes through ConversionService and Pipeline,  *)
(* which call the router again and again.                                  *)
(*                                                                         *)
(* The service's own code has no await but the router's: it runs when the  *)
(* router's call of the same slot is done.  Content is abstracted to where *)
(* it comes from: 0 is what the caller sent, n the output of the n-th call *)
(* a provider has answered, Missing a field of the request left None.      *)
(***************************************************************************)
EXTENDS ModalityRouter, Adapters

CONSTANTS
    Wishes,     \* the preferences <<provider, model>> that callers have
    Missing

ASSUME ConversionAssumption ==
    /\ Wishes \subseteq (Providers \union {None}) \X (Models \union {None})
    /\ Missing \notin Nat
    /\ \A io \in DOMAIN Capable : \A pm \in ToSet(Capable[io]) :
          /\ pm[1] \in Adapters /\ io \in DOMAIN Capabilities[pm[1]]
          /\ AskedModel(pm[1], io, pm[2]) = pm[2]

VARIABLES
    stage,    \* stage[r]:  where the handler is
    ask,      \* ask[r]:    the endpoint's request
    wish,     \* wish[r]:   its provider and model
    hops,     \* hops[r]:   the pipeline's steps from the current one on
    data,     \* data[r]:   prompt, input_url or input_data of the router's call
    output,   \* output[r]: the result of the last call answered
    paid,     \* history: paid[r], the conversions that providers have answered
    tries,    \* history: tries[r], the dispatches
    read,     \* history: read[r], what adapters took their medium from
    verdict   \* verdict[r]: what the caller is told

service  == <<stage, ask, wish, hops, data, output, paid, tries, read, verdict>>
convVars == <<vars, service>>

Stages == {"idle", "media", "direct", "again", "hop", "done"}

-----------------------------------------------------------------------------
(* Endpoints: the conversion, the field that carries the caller's input,   *)
(* what it is refused for before the router is called.                     *)

Endpoint(io, field, refuses, falls) ==
    [pair |-> io, field |-> field, refuses |-> refuses, fallsBack |-> falls]

ImagesGenerate     == Endpoint(ImageGen, "prompt", {}, FALSE)

ImagesVision       == Endpoint(Vision, "url", {}, FALSE)
ImagesVisionUpload == Endpoint(Vision, "url", {"type", "size"}, FALSE)
AudioTTS           == Endpoint(Speech, "prompt", {"voice", "format"}, FALSE)
AudioSTT           == Endpoint(Transcribe, "data", {"type", "size", "empty"}, FALSE)

(* Of a list of texts only the first is embedded. *)
Embeddings         == Endpoint(Embed, "prompt", {"batch", "empty"}, FALSE)

(* POST /conversions: any pair, and modalities that are none. *)
ConversionsOf(io)  == Endpoint(io, "prompt", {}, TRUE)

Endpoints ==
    {ImagesGenerate, ImagesVision, ImagesVisionUpload, AudioTTS, AudioSTT, Embeddings}
      \union {ConversionsOf(io) : io \in Modality \X Names}

PIPELINE_ROUTES ==
    Table({<<<<"audio", "audio">>, <<Transcribe, Chat, Speech>>>>,
           <<<<"image", "audio">>, <<Vision, Speech>>>>,
           <<<<"audio", "image">>, <<Transcribe, ImageGen>>>>,
           <<<<"image", "image">>, <<Vision, ImageGen>>>>,
           <<<<"video", "text">>,  <<<<"video", "text">>>>>>})

TypeInv ==
    /\ TypeOK
    /\ stage \in [Requests -> Stages]
    /\ ask \in [Requests -> Endpoints \union {None}]
    /\ wish \in [Requests -> Wishes \union {None}]
    /\ output \in [Requests -> MaybeEmpty \union {None}]
    /\ verdict \in [Requests -> Errors \union {None, "ok", "refused"}]
    /\ \A r \in Requests :
          /\ data[r] \in 0 .. Len(paid[r])
          /\ read[r] \subseteq 0 .. Len(paid[r]) \union {Missing}
          /\ tries[r] \in Nat

ConvInit ==
    /\ Init
    /\ stage = [r \in Requests |-> "idle"]
    /\ ask = [r \in Requests |-> None]
    /\ wish = [r \in Requests |-> None]
    /\ hops = [r \in Requests |-> <<>>]
    /\ data = [r \in Requests |-> 0]
    /\ output = [r \in Requests |-> None]
    /\ paid = [r \in Requests |-> <<>>]
    /\ tries = [r \in Requests |-> 0]
    /\ read = [r \in Requests |-> {}]
    /\ verdict = [r \in Requests |-> None]

-----------------------------------------------------------------------------
Enter(r, where) == stage' = [stage EXCEPT ![r] = where]

Reply(r, v) ==
    /\ Enter(r, "done")
    /\ verdict' = [verdict EXCEPT ![r] = v]

(* A request comes in.  It is refused by a check of its endpoint, with 422 *)
(* or 413, or the router is called for the conversion it asks for.         *)
Submit(r, e, w) ==
    /\ stage[r] = "idle"
    /\ ask' = [ask EXCEPT ![r] = e]
    /\ wish' = [wish EXCEPT ![r] = w]
    /\ Enter(r, IF e.fallsBack THEN "direct" ELSE "media")
    /\ Call(r, e.pair, w)
    /\ UNCHANGED <<hops, data, output, paid, tries, read, verdict>>

Refuse(r, e) ==
    /\ stage[r] = "idle"
    /\ e.refuses # {}
    /\ ask' = [ask EXCEPT ![r] = e]
    /\ Reply(r, "refused")
    /\ UNCHANGED <<vars, wish, hops, data, output, paid, tries, read>>

(* What the adapter of provider p takes for its medium from the request. *)
Medium(r, p) ==
    IF Methods[p][pair[r]].reads = ask[r].field THEN data[r] ELSE Missing

(* The router's steps: as it dispatches, the adapter reads the request. *)
Sends(r) ==
    /\ KeyFound(r)
    /\ read' = [read EXCEPT ![r] = @ \union {Medium(r, Head(cands[r])[1])}]
    /\ tries' = [tries EXCEPT ![r] = @ + 1]
    /\ UNCHANGED <<stage, ask, wish, hops, data, output, paid, verdict>>

(* A provider answers, and says something or nothing.  httpx cannot send a *)
(* file that is None, so a transcription of it never comes to an answer.   *)
Answers(r) ==
    /\ Succeed(r)
    /\ LET p == Last(sent[r])[1]
       IN  /\ Methods[p][pair[r]].reads = "data" => Medium(r, p) # Missing
           /\ \E o \in Methods[p][pair[r]].yields : output' = [output EXCEPT ![r] = o]
    /\ paid' = [paid EXCEPT ![r] = Append(@, pair[r])]
    /\ UNCHANGED <<stage, ask, wish, hops, data, tries, read, verdict>>

Routes(r) ==
    /\ Filter(r) \/ KeyError(r) \/ FailOver(r)
    /\ UNCHANGED service

-----------------------------------------------------------------------------
(* The handler goes on when the router's call has returned or raised. *)

Returned(r) == pc[r] = "done" /\ answer[r] = "ok"
Raised(r)   == pc[r] = "done" /\ answer[r] # "ok"

(* The answer of a direct call, or of the pipeline's last step. *)
Respond(r) ==
    /\ Returned(r)
    /\ stage[r] \in {"media", "direct", "again", "hop"}
    /\ stage[r] = "hop" => Len(hops[r]) = 1
    /\ Reply(r, "ok")
    /\ UNCHANGED <<vars, ask, wish, hops, data, output, paid, tries, read>>

(* Mutant of Abort: an exception of a pipeline's step is passed over. *)
AbortNoStep(r) ==
    /\ Raised(r)
    /\ stage[r] \in {"media", "again"}
    /\ Reply(r, answer[r])
    /\ UNCHANGED <<vars, ask, wish, hops, data, output, paid, tries, read>>

(* An exception of a media route's call, or of the pipeline's. *)
Abort(r) ==
    /\ Raised(r)
    /\ stage[r] \in {"media", "again", "hop"}
    /\ Reply(r, answer[r])
    /\ UNCHANGED <<vars, ask, wish, hops, data, output, paid, tries, read>>

(* Mutant of FallBack: it drops the first of the known steps. *)
FallBackLate(r) ==
    /\ Raised(r)
    /\ stage[r] = "direct"
    /\ LET io == ask[r].pair
       IN  \/ /\ CapableOf(io) = <<>>
              /\ io \in DOMAIN PIPELINE_ROUTES
              /\ Len(PIPELINE_ROUTES[io]) > 1
              /\ hops' = [hops EXCEPT ![r] = Tail(PIPELINE_ROUTES[io])]
              /\ Call(r, PIPELINE_ROUTES[io][2], <<wish[r][1], None>>)
              /\ Enter(r, "hop")
              /\ UNCHANGED verdict
           \/ /\ Reply(r, answer[r])
              /\ UNCHANGED <<vars, hops>>
    /\ UNCHANGED <<ask, wish, data, output, paid, tries, read>>

(* Pipeline.execute, on whatever the direct route raised: the same route   *)
(* without the model preference if any provider lists the pair, else the   *)
(* known steps; the provider preference stays.                             *)
FallBack(r) ==
    /\ Raised(r)
    /\ stage[r] = "direct"
    /\ LET io == ask[r].pair
       IN  \/ /\ CapableOf(io) # <<>>
              /\ Call(r, io, <<wish[r][1], None>>)
              /\ Enter(r, "again")
              /\ UNCHANGED <<hops, verdict>>
           \/ /\ CapableOf(io) = <<>>
              /\ io \in DOMAIN PIPELINE_ROUTES
              /\ hops' = [hops EXCEPT ![r] = PIPELINE_ROUTES[io]]
              /\ Call(r, PIPELINE_ROUTES[io][1], <<wish[r][1], None>>)
              /\ Enter(r, "hop")
              /\ UNCHANGED verdict
           \/ /\ CapableOf(io) = <<>>
              /\ io \notin DOMAIN PIPELINE_ROUTES
              /\ Reply(r, answer[r])
              /\ UNCHANGED <<vars, hops>>
    /\ UNCHANGED <<ask, wish, data, output, paid, tries, read>>

(* The next step is given the result of this one, unless that is empty:    *)
(* then it is given what this one was given.                               *)
NextHop(r) ==
    /\ Returned(r)
    /\ stage[r] = "hop" /\ Len(hops[r]) > 1
    /\ data' = [data EXCEPT ![r] = IF output[r] = "full" THEN Len(paid[r]) ELSE @]
    /\ hops' = [hops EXCEPT ![r] = Tail(@)]
    /\ Call(r, hops[r][2], <<wish[r][1], None>>)
    /\ UNCHANGED <<stage, ask, wish, output, paid, tries, read, verdict>>

Clear(r) ==
    /\ stage[r] = "done"
    /\ Enter(r, "idle")
    /\ ask' = [ask EXCEPT ![r] = None]
    /\ wish' = [wish EXCEPT ![r] = None]
    /\ hops' = [hops EXCEPT ![r] = <<>>]
    /\ data' = [data EXCEPT ![r] = 0]
    /\ output' = [output EXCEPT ![r] = None]
    /\ paid' = [paid EXCEPT ![r] = <<>>]
    /\ tries' = [tries EXCEPT ![r] = 0]
    /\ read' = [read EXCEPT ![r] = {}]
    /\ verdict' = [verdict EXCEPT ![r] = None]
    /\ IF pc[r] = "done" THEN Reuse(r) ELSE UNCHANGED vars

-----------------------------------------------------------------------------
HandlerStep(r) ==
    \/ Sends(r) \/ Answers(r) \/ Routes(r)
    \/ Respond(r) \/ Abort(r) \/ FallBack(r) \/ NextHop(r)

ConvNext ==
    \/ \E r \in Requests :
          \/ \E e \in Endpoints : Refuse(r, e) \/ \E w \in Wishes : Submit(r, e, w)
          \/ Sends(r) \/ Answers(r) \/ Routes(r)
          \/ Respond(r) \/ Abort(r) \/ FallBack(r) \/ NextHop(r)
          \/ Clear(r)
    \/ KeysNext /\ UNCHANGED <<request, service>>

ConvSpec == ConvInit /\ [][ConvNext]_convVars

(* A handler that has begun is carried on: its awaits all return or raise. *)
ConvFairSpec == ConvSpec /\ \A r \in Requests : WF_convVars(HandlerStep(r))

-----------------------------------------------------------------------------
(* What a caller sends to the images, audio and embeddings routes is what  *)
(* every adapter reads, whichever one failover ends at: the routes and the *)
(* adapters of all providers agree about the field that carries it.        *)
MediaReachesProvider ==
    \A r \in Requests :
        ask[r] # None /\ ~ask[r].fallsBack => read[r] \subseteq {0}

(* The model that the provider of the i-th dispatch is asked for. *)
Asked(r, i) == AskedModel(sent[r][i][1], pair[r], sent[r][i][2])

(* A model that the caller names is the one that every provider is asked   *)
(* for, those of a failover too, while the request is on its own route:    *)
(* nothing the loop writes takes its place, and a provider that does not   *)
(* list it is asked for it all the same.  One adapter is excepted: OpenAI  *)
(* transcribes with whisper-1, whatever is named.                          *)
NamedModelAsked ==
    \A r \in Requests :
        stage[r] \in {"media", "direct"} /\ wish[r][2] # None =>
            \A i \in DOMAIN sent[r] :
                \/ Asked(r, i) = wish[r][2]
                \/ sent[r][i][1] = "openai" /\ pair[r] = Transcribe

(* From the fallback on, the model that the caller named for the whole of  *)
(* the conversion is dropped, and each step begins with no model: all the  *)
(* providers of the step, those of a failover too, are asked for a model   *)
(* listed for what this step converts.  Neither the caller's model nor one *)
(* that the loop has written into the request of a step before gets there. *)
StepsAskListedModel ==
    \A r \in Requests :
        stage[r] \in {"again", "hop"} =>
            \A i \in DOMAIN sent[r] :
                \E j \in DOMAIN CapableOf(pair[r]) : CapableOf(pair[r])[j][2] = Asked(r, i)

(* The steps a conversion takes: itself, or those of the pipeline. *)
Plan(io) ==
    IF CapableOf(io) # <<>> \/ io \notin DOMAIN PIPELINE_ROUTES
      THEN <<io>> ELSE PIPELINE_ROUTES[io]

(* Each step is answered at most once, and in order, though the direct     *)
(* route is tried first and the whole begun again when it raises: nobody   *)
(* pays for an answer twice, and "ok" means that every step has its one.   *)
StepsAnsweredOnce ==
    \A r \in Requests : ask[r] # None =>
        /\ IsPrefix(paid[r], Plan(ask[r].pair))
        /\ verdict[r] = "ok" => paid[r] = Plan(ask[r].pair)

(* The candidates there can be for the first n steps of a plan. *)
CandidatesUpTo(plan, n) ==
    LET most[i \in 0 .. Len(plan)] ==
            IF i = 0 THEN 0 ELSE most[i - 1] + Len(CapableOf(plan[i]))
    IN  most[n]

(* The greatest number of dispatches an endpoint's request can lead to:    *)
(* each candidate once for each step, and twice where the pipeline repeats *)
(* the direct route.  Each may be sent several times more by with_retry.   *)
MostTries(e) ==
    LET once == CandidatesUpTo(Plan(e.pair), Len(Plan(e.pair)))
    IN  IF e.fallsBack /\ CapableOf(e.pair) # <<>> THEN 2 * once ELSE once

(* However keys come and go between filter and lookup, between the direct  *)
(* route and the pipeline, and between its steps, failover is bounded.     *)
TriesBounded ==
    \A r \in Requests : ask[r] # None => tries[r] =< MostTries(ask[r])

(* Every request is answered, whatever raises and however keys change.     *)
ConversionsAreAnswered ==
    \A r \in Requests : stage[r] \notin {"idle", "done"} ~> stage[r] = "done"

(* conversions.py:25: image -> text: {"input": "<file_id>", ...}.  So an *)
(* adapter is given what the caller sent, or what a step before has made   *)
(* of it, whatever the modality.                                           *)
ConversionReadsInput ==
    \A r \in Requests : Missing \notin read[r]
=============================================================================
