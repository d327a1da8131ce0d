------------------------------- MODULE Catalogue -------------------------------
(***************************************************************************)
(* The capability map of ProviderRegistry, and how the router and the chat *)
(* stream choose from it, each with a copy of the same code.               *)
(***************************************************************************)
EXTENDS Integers, SequencesExt

CONSTANTS
    Capable,    \* capability_map: for each pair <<input, output>> that some
                \* provider lists, the sequence of its <<provider, model>>
    None        \* no preference, no model, no answer, no pair of modalities

Modality == {"text", "image", "audio", "video", "vector"}

Listed    == UNION {ToSet(Capable[io]) : io \in DOMAIN Capable}
Providers == {pm[1] : pm \in Listed}
Models    == {pm[2] : pm \in Listed}

ASSUME CatalogueAssumption ==
    /\ DOMAIN Capable \subseteq Modality \X Modality
    /\ \A io \in DOMAIN Capable :
          Capable[io] \in Seq(Providers \X Models) /\ IsInjective(Capable[io])
    /\ None \notin Providers \union Models

(* get_capable_providers *)
CapableOf(io) == IF io \in DOMAIN Capable THEN Capable[io] ELSE <<>>

(* Those of s that are in X, in their order. *)
Among(s, X) ==
    LET kept[i \in 0 .. Len(s)] ==
            IF i = 0 THEN <<>>
            ELSE IF s[i] \in X THEN Append(kept[i - 1], s[i]) ELSE kept[i - 1]
    IN  kept[Len(s)]

(* What is left of s by a preference: nothing is dropped if none fits. *)
Narrow(s, X) ==
    LET fitting == Among(s, X) IN IF fitting = <<>> THEN s ELSE fitting

OfProviders(P) == {pm \in Listed : pm[1] \in P}
OfModel(m)     == {pm \in Listed : pm[2] = m}

(* Mutant of Candidates: the model preference overrides the provider's. *)
CandidatesByModel(capable, usableBy, preference) ==
    LET usable == Among(capable, OfProviders(usableBy))
        byProvider == Narrow(usable, OfProviders({preference[1]}))
        byModel == Among(usable, OfModel(preference[2]))
    IN  IF byModel = <<>> THEN byProvider ELSE byModel

(* The capable ones at the providers given, in their order. *)
Candidates(capable, usableBy, preference) ==
    LET usable == Among(capable, OfProviders(usableBy))
        byProvider == Narrow(usable, OfProviders({preference[1]}))
    IN  Narrow(byProvider, OfModel(preference[2]))
=============================================================================
