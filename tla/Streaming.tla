------------------------------- MODULE Streaming -------------------------------
(***************************************************************************)
(* POST /chat/stream: get_streaming_context chooses a provider, sse_stream *)
(* passes on what its stream_chat yields, chunk by chunk, and an end       *)
(* marker.  Nothing of it goes through the router, with_retry, the breaker *)
(* or the database.                                                        *)
(*                                                                         *)
(* A stream suspends at the two reads of the user's keys, between which    *)
(* the user may add and delete any of them, so each read finds any keys;   *)
(* while it waits for its provider; and at each yield, until the client    *)
(* has taken the event or has left.                                        *)
(***************************************************************************)
EXTENDS Catalogue, Dialects

CONSTANTS
    Streams,    \* slots for concurrent streams; a slot is used again
    Wishes,     \* the preferences <<provider, model>> that callers have
    MaxLines    \* bound of the model: lines of a provider's answer

ASSUME StreamAssumption ==
    /\ Wishes \subseteq (Providers \union {None}) \X (Models \union {None})
    /\ \A i \in DOMAIN CapableOf(Chat) : CapableOf(Chat)[i][1] \in DOMAIN Dialect
    /\ MaxLines \in Nat

VARIABLES
    pc,       \* pc[s]:     where the stream is
    wish,     \* wish[s]:   the provider and model it is asked to come from
    who,      \* who[s]:    the provider it comes from
    lines,    \* lines[s]:  the lines read from the provider
    due,      \* due[s]:    the chunks of the last of them not yet sent
    raised,   \* raised[s]: stream_chat has raised
    events    \* events[s]: what the client has been sent

vars == <<pc, wish, who, lines, due, raised, events>>

Error     == <<"error", 0>>
EndMarker == <<"[DONE]", 0>>
Chunks    == ChunkKinds \X (1 .. MaxLines)

Preparing == {"filter", "lookup"}
Running   == {"opening", "reading", "sending", "failed", "told", "ending", "abandoned"}
Over      == {"refused", "closed", "gone"}

TypeOK ==
    /\ pc \in [Streams -> {"idle"} \union Preparing \union Running \union Over]
    /\ wish \in [Streams -> Wishes \union {None}]
    /\ who \in [Streams -> DOMAIN Dialect \union {None}]
    /\ lines \in [Streams -> Seq(LineKinds)]
    /\ due \in [Streams -> Seq(Chunks)]
    /\ raised \in [Streams -> BOOLEAN]
    /\ events \in [Streams -> Seq(Chunks \union {Error, EndMarker})]

Init ==
    /\ pc = [s \in Streams |-> "idle"]
    /\ wish = [s \in Streams |-> None]
    /\ who = [s \in Streams |-> None]
    /\ lines = [s \in Streams |-> <<>>]
    /\ due = [s \in Streams |-> <<>>]
    /\ raised = [s \in Streams |-> FALSE]
    /\ events = [s \in Streams |-> <<>>]

-----------------------------------------------------------------------------
Goto(s, where) == pc' = [pc EXCEPT ![s] = where]

Yield(s, e) == events' = [events EXCEPT ![s] = Append(@, e)]

Arrive(s, w) ==
    /\ pc[s] = "idle"
    /\ wish' = [wish EXCEPT ![s] = w]
    /\ Goto(s, "filter")
    /\ UNCHANGED <<who, lines, due, raised, events>>

(* The first of the candidates; with none, available[0] raises IndexError. *)
Choose(s, held) ==
    /\ pc[s] = "filter"
    /\ LET available == Candidates(CapableOf(Chat), held, wish[s])
       IN  \/ /\ available = <<>>
              /\ Goto(s, "refused")
              /\ UNCHANGED who
           \/ /\ \E pm \in ToSet(CapableOf(Chat)) :
                    /\ IsPrefix(<<pm>>, available)
                    /\ who' = [who EXCEPT ![s] = pm[1]]
              /\ Goto(s, "lookup")
    /\ UNCHANGED <<wish, lines, due, raised, events>>

(* The key is found, and the response begins with status 200; or the       *)
(* lookup raises.                                                          *)
Lookup(s) ==
    /\ pc[s] = "lookup"
    /\ Goto(s, "opening") \/ Goto(s, "refused")
    /\ UNCHANGED <<wish, who, lines, due, raised, events>>

-----------------------------------------------------------------------------
(* The provider answers with a status that is none of an error. *)
Open(s) ==
    /\ pc[s] = "opening"
    /\ Goto(s, "reading")
    /\ UNCHANGED <<wish, who, lines, due, raised, events>>

(* stream_chat reads a line. *)
Read(s, k) ==
    /\ pc[s] = "reading"
    /\ Len(lines[s]) < MaxLines
    /\ k \in DOMAIN Dialect[who[s]]
    /\ lines' = [lines EXCEPT ![s] = Append(@, k)]
    /\ LET does == Dialect[who[s]][k]
           n    == Len(lines[s]) + 1
       IN  /\ due' = [due EXCEPT ![s] = [i \in DOMAIN does.chunks |-> <<does.chunks[i], n>>]]
           /\ Goto(s, IF does.chunks = <<>> THEN does.next ELSE "sending")
           /\ raised' = [raised EXCEPT ![s] = does.next = "failed"]
    /\ UNCHANGED <<wish, who, events>>

(* The provider's answer ends. *)
Exhaust(s) ==
    /\ pc[s] = "reading"
    /\ Goto(s, "ending")
    /\ UNCHANGED <<wish, who, lines, due, raised, events>>

(* Mutants of Raise: the request is made again; the answer is taken to end *)
(* here.                                                                   *)
RaiseRetries(s) ==
    /\ pc[s] \in {"opening", "reading"}
    /\ Goto(s, "opening")
    /\ UNCHANGED <<wish, who, lines, due, raised, events>>

RaiseUntold(s) ==
    /\ pc[s] \in {"opening", "reading"}
    /\ raised' = [raised EXCEPT ![s] = TRUE]
    /\ Goto(s, "ending")
    /\ UNCHANGED <<wish, who, lines, due, events>>

(* No connection, an error's status, a timeout of the read, a connection   *)
(* that breaks, a line that is no JSON.                                    *)
Raise(s) ==
    /\ pc[s] \in {"opening", "reading"}
    /\ raised' = [raised EXCEPT ![s] = TRUE]
    /\ Goto(s, "failed")
    /\ UNCHANGED <<wish, who, lines, due, events>>

-----------------------------------------------------------------------------
(* The client takes an event. *)
Send(s) ==
    /\ pc[s] = "sending"
    /\ Yield(s, Head(due[s]))
    /\ due' = [due EXCEPT ![s] = Tail(@)]
    /\ Goto(s, IF Tail(due[s]) = <<>> THEN "reading" ELSE "sending")
    /\ UNCHANGED <<wish, who, lines, raised>>

(* except Exception *)
Tell(s) ==
    /\ pc[s] = "failed"
    /\ Yield(s, Error)
    /\ Goto(s, "told")
    /\ UNCHANGED <<wish, who, lines, due, raised>>

(* finally *)
End(s) ==
    /\ pc[s] \in {"ending", "told"}
    /\ Yield(s, EndMarker)
    /\ Goto(s, "closed")
    /\ UNCHANGED <<wish, who, lines, due, raised>>

(* The client leaves, and the task that runs the stream is cancelled.      *)
(* Where it waits for the provider the cancellation closes the provider's  *)
(* response on its way out, and the marker of the finally block is yielded *)
(* to nobody.  At a yield within stream_chat's loop nothing of the stream  *)
(* is told: the generators are dropped as they are.                        *)
Disconnect(s) ==
    /\ pc[s] \in Running \ {"abandoned"}
    /\ Goto(s, IF pc[s] = "sending" THEN "abandoned" ELSE "gone")
    /\ due' = [due EXCEPT ![s] = <<>>]
    /\ UNCHANGED <<wish, who, lines, raised, events>>

(* The event loop closes the generators it finds dropped.  The marker      *)
(* yielded then raises RuntimeError in a task of its own; stream_chat is   *)
(* closed after that, and the provider's response with it.                 *)
Collect(s) ==
    /\ pc[s] = "abandoned"
    /\ Goto(s, "gone")
    /\ UNCHANGED <<wish, who, lines, due, raised, events>>

Reuse(s) ==
    /\ pc[s] \in Over
    /\ Goto(s, "idle")
    /\ wish' = [wish EXCEPT ![s] = None]
    /\ who' = [who EXCEPT ![s] = None]
    /\ lines' = [lines EXCEPT ![s] = <<>>]
    /\ raised' = [raised EXCEPT ![s] = FALSE]
    /\ events' = [events EXCEPT ![s] = <<>>]
    /\ UNCHANGED due

-----------------------------------------------------------------------------
Step(s) ==
    \/ \E held \in SUBSET Providers : Choose(s, held)
    \/ \E k \in LineKinds : Read(s, k)
    \/ Lookup(s) \/ Open(s) \/ Exhaust(s) \/ Raise(s)
    \/ Send(s) \/ Tell(s) \/ End(s) \/ Collect(s)

Next ==
    \E s \in Streams :
        \/ \E w \in Wishes : Arrive(s, w)
        \/ \E held \in SUBSET Providers : Choose(s, held)
        \/ \E k \in LineKinds : Read(s, k)
        \/ Lookup(s) \/ Open(s) \/ Exhaust(s) \/ Raise(s)
        \/ Send(s) \/ Tell(s) \/ End(s)
        \/ Disconnect(s) \/ Collect(s)
        \/ Reuse(s)

Spec == Init /\ [][Next]_vars

(* The awaits of a stream return: httpx has timeouts, a client takes what  *)
(* it is sent or leaves, and a provider's answer is finite.                *)
FairSpec == Spec /\ \A s \in Streams : WF_vars(Step(s))

-----------------------------------------------------------------------------
HasText(kind) == kind \in {"text", "last"}

(* Text is told from a line that holds some, after the text of the lines   *)
(* before; a finish, after all the text up to its line.                    *)
Stands(told, read, j) ==
    LET n == told[j][2]
    IN  /\ HasText(told[j][1]) =>
              /\ n \in DOMAIN read /\ HasText(read[n])
              /\ \A i \in 1 .. j - 1 : HasText(told[i][1]) => told[i][2] < n
        /\ told[j][1] \in {"finish", "last"} =>
              \A m \in 1 .. n : HasText(read[m]) =>
                  \E i \in 1 .. j : HasText(told[i][1]) /\ told[i][2] = m

Whole(told, read) == \A j \in DOMAIN told : Stands(told, read, j)

(* The client gets the pieces of text that the provider sent, each once    *)
(* and in their order, whatever the provider's dialect and wherever the    *)
(* stream is cut; and if it is told that the answer is finished, it has    *)
(* all the text that was sent up to there.  (That no error is told does    *)
(* not mean as much: five dialects skip an error's line.)                  *)
FinishMeansWhole == \A s \in Streams : Whole(events[s], lines[s])

(* Every stream that is asked for is refused, ended or left, and then      *)
(* holds no connection to its provider any more.                           *)
StreamsEnd ==
    \A s \in Streams : pc[s] \in Preparing \union Running ~> pc[s] \in Over

-----------------------------------------------------------------------------
(* What a client is promised: see EventStream. *)
Fate(s) ==
    CASE pc[s] = "closed"                -> "ended"
      [] pc[s] \in {"abandoned", "gone"} -> "cut"
      [] OTHER                           -> "open"

Promise == INSTANCE EventStream
               WITH told <- events, broken <- raised, over <- [s \in Streams |-> Fate(s)]

(* A client that stays gets the promised stream, from any provider: the    *)
(* error before the marker whenever stream_chat raised, the marker last.   *)
KeepsPromise == Promise!Spec
=============================================================================
