---------------------------- MODULE ModalityRouter ----------------------------
(***************************************************************************)
(* ModalityRouter.route of app/services/router.py: the requests of one     *)
(* user at one worker, while the same user's keys are being added and      *)
(* deleted at any worker.                                                  *)
(*                                                                         *)
(* A request suspends when it reads the user's providers, when it looks up *)
(* the key of the next candidate and while the adapter's call is out; each *)
(* of the stretches in between is one step.  The adapter's call itself is  *)
(* ProviderRetry; here it ends well or with an exception.  The router has  *)
(* no ranker (deps.py:101-106 passes none), so the candidates keep the     *)
(* order of the capability map.                                            *)
(***************************************************************************)
EXTENDS UserKeys

CONSTANT Requests   \* slots for concurrent requests; a slot is used again

Errors  == {"unsupported", "no_provider", "key_missing", "internal", "all_failed"}

(* What callers take for a modality: "smell" is any string that names none. *)
Names   == Modality \union {"smell"}

ASSUME RouterAssumption == None \notin Errors \union {"ok"}

VARIABLES
    pc,       \* pc[r]:    where the request is
    pair,     \* pair[r]:  the <<input, output>> modalities it is to convert
    wanted,   \* wanted[r]: the preferred <<provider, model>>
    model,    \* model[r]: req.model, which the router writes too
    held,     \* held[r]:  user_providers, those the user had a key for
    offered,  \* offered[r]: the candidates after filter and preferences
    cands,    \* cands[r]: those the loop has not come to
    sent,     \* sent[r]:  the dispatches so far, <<provider, req.model>> as the
              \*           adapter is handed them (see Adapters!AskedModel)
    answer    \* answer[r]: what the caller is told

request  == <<pc, pair, wanted, model, held, offered, cands, sent, answer>>
vars     == <<keys, cached, pc, pair, wanted, model, held, offered, cands, sent, answer>>

Locations == {"idle", "filter", "lookup", "dispatched", "done"}

TypeOK ==
    /\ KeysTypeOK
    /\ pc \in [Requests -> Locations]
    /\ \A r \in Requests : pair[r] # None => pair[r] \in Names \X Names
    /\ wanted \in [Requests -> (Providers \union {None}) \X (Models \union {None})]
    /\ model \in [Requests -> Models \union {None}]
    /\ held \in [Requests -> SUBSET Providers]
    /\ answer \in [Requests -> Errors \union {None, "ok"}]
    /\ \A r \in Requests :
          /\ pair[r] # None => ToSet(offered[r]) \subseteq ToSet(CapableOf(pair[r]))
          /\ IsSuffix(cands[r], offered[r])
          /\ ToSet(sent[r]) \subseteq Providers \X Models

Init ==
    /\ KeysInit
    /\ pc = [r \in Requests |-> "idle"]
    /\ pair = [r \in Requests |-> None]
    /\ wanted = [r \in Requests |-> <<None, None>>]
    /\ model = [r \in Requests |-> None]
    /\ held = [r \in Requests |-> {}]
    /\ offered = [r \in Requests |-> <<>>]
    /\ cands = [r \in Requests |-> <<>>]
    /\ sent = [r \in Requests |-> <<>>]
    /\ answer = [r \in Requests |-> None]

-----------------------------------------------------------------------------
Finish(r, a) ==
    /\ pc' = [pc EXCEPT ![r] = "done"]
    /\ answer' = [answer EXCEPT ![r] = a]

(* Mutant of Call: the request object of the call before is used again,    *)
(* with the model that the loop has written into it.                       *)
CallReusesRequest(r, io, preference) ==
    /\ pair' = [pair EXCEPT ![r] = io]
    /\ wanted' = [wanted EXCEPT ![r] = preference]
    /\ model' = [model EXCEPT ![r] = IF preference[2] = None THEN @ ELSE preference[2]]
    /\ held' = [held EXCEPT ![r] = {}]
    /\ offered' = [offered EXCEPT ![r] = <<>>]
    /\ cands' = [cands EXCEPT ![r] = <<>>]
    /\ sent' = [sent EXCEPT ![r] = <<>>]
    /\ \/ /\ io \notin Modality \X Modality
          /\ Finish(r, "internal")
       \/ /\ io \in Modality \X Modality
          /\ CapableOf(io) = <<>>
          /\ Finish(r, "unsupported")
       \/ /\ CapableOf(io) # <<>>
          /\ pc' = [pc EXCEPT ![r] = "filter"]
          /\ answer' = [answer EXCEPT ![r] = None]
    /\ UNCHANGED keystore

(* route is called with a new request object: what this request had of an  *)
(* earlier call is gone.  Modality() raises for the name of no modality.   *)
Call(r, io, preference) ==
    /\ pair' = [pair EXCEPT ![r] = io]
    /\ wanted' = [wanted EXCEPT ![r] = preference]
    /\ model' = [model EXCEPT ![r] = preference[2]]
    /\ held' = [held EXCEPT ![r] = {}]
    /\ offered' = [offered EXCEPT ![r] = <<>>]
    /\ cands' = [cands EXCEPT ![r] = <<>>]
    /\ sent' = [sent EXCEPT ![r] = <<>>]
    /\ \/ /\ io \notin Modality \X Modality
          /\ Finish(r, "internal")
       \/ /\ io \in Modality \X Modality
          /\ CapableOf(io) = <<>>
          /\ Finish(r, "unsupported")
       \/ /\ CapableOf(io) # <<>>
          /\ pc' = [pc EXCEPT ![r] = "filter"]
          /\ answer' = [answer EXCEPT ![r] = None]
    /\ UNCHANGED keystore

Arrive(r, io, preference) == pc[r] = "idle" /\ Call(r, io, preference)

(* Mutant of Filter: the loop runs over the unfiltered list. *)
FilterUnused(r) ==
    /\ pc[r] = "filter"
    /\ held' = [held EXCEPT ![r] = Held]
    /\ LET found == Candidates(CapableOf(pair[r]), held'[r], wanted[r])
       IN  /\ offered' = [offered EXCEPT ![r] = found]
           /\ cands' = [cands EXCEPT ![r] = CapableOf(pair[r])]
           /\ IF found = <<>>
                THEN Finish(r, "no_provider")
                ELSE pc' = [pc EXCEPT ![r] = "lookup"] /\ UNCHANGED answer
    /\ UNCHANGED <<keystore, pair, wanted, model, sent>>

(* get_user_providers reads the database; preferences are applied. *)
Filter(r) ==
    /\ pc[r] = "filter"
    /\ held' = [held EXCEPT ![r] = Held]
    /\ LET found == Candidates(CapableOf(pair[r]), held'[r], wanted[r])
       IN  /\ offered' = [offered EXCEPT ![r] = found]
           /\ cands' = [cands EXCEPT ![r] = found]
           /\ IF found = <<>>
                THEN Finish(r, "no_provider")
                ELSE pc' = [pc EXCEPT ![r] = "lookup"] /\ UNCHANGED answer
    /\ UNCHANGED <<keystore, pair, wanted, model, sent>>

(* Mutant of Dispatch: the candidate's model always wins. *)
DispatchListedModel(r) ==
    LET pm == Head(cands[r])
    IN  /\ model' = [model EXCEPT ![r] = pm[2]]
        /\ sent' = [sent EXCEPT ![r] = Append(@, pm)]
        /\ cands' = [cands EXCEPT ![r] = Tail(@)]
        /\ pc' = [pc EXCEPT ![r] = "dispatched"]
        /\ UNCHANGED <<pair, wanted, held, offered, answer>>

(* get_decrypted_key found a key: the request takes the candidate's model  *)
(* unless it has one already, be it a model that no candidate lists, and   *)
(* is handed to the provider's adapter.                                    *)
Dispatch(r) ==
    LET provider == Head(cands[r])[1]
        chosen   == IF model[r] = None THEN Head(cands[r])[2] ELSE model[r]
    IN  /\ model' = [model EXCEPT ![r] = chosen]
        /\ sent' = [sent EXCEPT ![r] = Append(@, <<provider, chosen>>)]
        /\ cands' = [cands EXCEPT ![r] = Tail(@)]
        /\ pc' = [pc EXCEPT ![r] = "dispatched"]
        /\ UNCHANGED <<pair, wanted, held, offered, answer>>

KeyFound(r) ==
    /\ pc[r] = "lookup"
    /\ LET p == Head(cands[r])[1] IN CachedKey(p) \/ StoredKey(p)
    /\ Dispatch(r)

(* The lookup stands outside the try, so its exception leaves the loop. *)
KeyError(r) ==
    /\ pc[r] = "lookup"
    /\ LET p == Head(cands[r])[1]
       IN  \/ KeyMissing(p) /\ Finish(r, "key_missing")
           \/ KeyAmbiguous(p) /\ Finish(r, "internal")
    /\ UNCHANGED <<pair, wanted, model, held, offered, cands, sent>>

Succeed(r) ==
    /\ pc[r] = "dispatched"
    /\ Finish(r, "ok")
    /\ UNCHANGED <<keystore, pair, wanted, model, held, offered, cands, sent>>

(* Mutants of FailOver: a candidate is skipped; the loop starts again. *)
FailOverSkips(r) ==
    /\ pc[r] = "dispatched"
    /\ IF Len(cands[r]) < 2
         THEN Finish(r, "all_failed") /\ UNCHANGED cands
         ELSE /\ pc' = [pc EXCEPT ![r] = "lookup"]
              /\ cands' = [cands EXCEPT ![r] = Tail(@)]
              /\ UNCHANGED answer
    /\ UNCHANGED <<keystore, pair, wanted, model, held, offered, sent>>

FailOverStartsAgain(r) ==
    /\ pc[r] = "dispatched"
    /\ pc' = [pc EXCEPT ![r] = "lookup"]
    /\ cands' = [cands EXCEPT ![r] = offered[r]]
    /\ sent' = [sent EXCEPT ![r] = <<>>]
    /\ UNCHANGED <<keystore, pair, wanted, model, held, offered, answer>>

(* Whatever the adapter raised, the loop goes on to the next candidate. *)
FailOver(r) ==
    /\ pc[r] = "dispatched"
    /\ IF cands[r] = <<>>
         THEN Finish(r, "all_failed")
         ELSE pc' = [pc EXCEPT ![r] = "lookup"] /\ UNCHANGED answer
    /\ UNCHANGED <<keystore, pair, wanted, model, held, offered, cands, sent>>

Reuse(r) ==
    /\ pc[r] = "done"
    /\ pc' = [pc EXCEPT ![r] = "idle"]
    /\ answer' = [answer EXCEPT ![r] = None]
    /\ pair' = [pair EXCEPT ![r] = None]
    /\ wanted' = [wanted EXCEPT ![r] = <<None, None>>]
    /\ model' = [model EXCEPT ![r] = None]
    /\ held' = [held EXCEPT ![r] = {}]
    /\ offered' = [offered EXCEPT ![r] = <<>>]
    /\ cands' = [cands EXCEPT ![r] = <<>>]
    /\ sent' = [sent EXCEPT ![r] = <<>>]
    /\ UNCHANGED keystore

-----------------------------------------------------------------------------
Step(r) ==
    Filter(r) \/ KeyFound(r) \/ KeyError(r) \/ Succeed(r) \/ FailOver(r)

Next ==
    \/ \E r \in Requests :
          \/ \E io \in DOMAIN Capable,
                preference \in (Providers \union {None}) \X (Models \union {None}) :
                Arrive(r, io, preference)
          \/ Filter(r)
          \/ KeyFound(r)
          \/ KeyError(r)
          \/ Succeed(r)
          \/ FailOver(r)
          \/ Reuse(r)
    \/ KeysNext /\ UNCHANGED request

Spec == Init /\ [][Next]_vars

(* A request that has arrived is carried on: the loop's awaits all return. *)
FairSpec == Spec /\ \A r \in Requests : WF_vars(Step(r))

-----------------------------------------------------------------------------
ProvidersOf(s) == [i \in DOMAIN s |-> s[i][1]]

(* Dispatches follow the candidates in order, none skipped and none tried  *)
(* twice: what was sent and what is left are together what was offered,    *)
(* though keys come and go between any two of them.  So "all providers     *)
(* failed" is the answer only when every candidate has been tried.         *)
TriedInOrder ==
    \A r \in Requests :
        /\ ProvidersOf(sent[r]) \o ProvidersOf(cands[r]) = ProvidersOf(offered[r])
        /\ answer[r] = "all_failed" => cands[r] = <<>>

(* A preferred provider that converts the pair and that the user had a key *)
(* for when the request was filtered gets every dispatch of it: failover   *)
(* never leaves it, whatever model was preferred as well.                  *)
PreferenceKept ==
    \A r \in Requests :
        LET p == wanted[r][1]
        IN  p \in held[r] /\ p \in ToSet(ProvidersOf(CapableOf(pair[r])))
              => ToSet(ProvidersOf(sent[r])) \subseteq {p}

(* Every request is answered, however the keys change under it. *)
RequestsAreAnswered ==
    \A r \in Requests : pc[r] \notin {"idle", "done"} ~> pc[r] = "done"

(* router.py:4, README:220: capable (provider, model) pairs are looked up  *)
(* and tried in turn.  So a request that names no model is handed to each  *)
(* adapter with a model of its provider.                                   *)
FailoverSendsListedPair ==
    \A r \in Requests :
        wanted[r][2] = None => ToSet(sent[r]) \subseteq ToSet(CapableOf(pair[r]))
=============================================================================
