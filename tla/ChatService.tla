------------------------------ MODULE ChatService ------------------------------
(***************************************************************************)
(* ChatService.chat: a chat request looks into the response cache, stores  *)
(* its question, has it answered by the router, stores usage and answer,   *)
(* fills the cache, and commits.  All it writes to the database is one     *)
(* transaction, committed by get_session when the handler has returned and *)
(* rolled back on any exception; what it writes to Redis is seen at once.  *)
(* The requests of one user run concurrently; one list of messages is      *)
(* modelled, and stands for all, since it is part of the cache key.  It    *)
(* has a last message, the question: without one no question is stored.    *)
(***************************************************************************)
EXTENDS Integers, FiniteSetsExt

CONSTANTS
    Requests,       \* slots for concurrent requests; a slot is used again
    Conversations,
    Targets,        \* the (provider, model) pairs that may answer
    Settings,       \* values of max_tokens, tools and tool_choice
    None,           \* no provider and model named; no entry; no answer
    MaxTurns        \* bound of the model: provider answers

ASSUME ChatAssumption ==
    /\ IsFiniteSet(Conversations)
    /\ None \notin Targets \union Settings
    /\ MaxTurns \in Nat

VARIABLES
    conv,      \* conv[c]: "unused", "live" or "deleted", as committed
    messages,  \* messages[c]: how many there are of each role, as committed
    usage,     \* usage records committed
    paid,      \* history: answers obtained from providers
    cache,     \* cache[t]: the entry stored under the names t, or None
    pc,        \* pc[r]:      where the request is
    req,       \* req[r]:     what it asks
    flushed,   \* flushed[r]: the rows its transaction holds
    answer     \* answer[r]:  who answered it and how

database == <<conv, messages, usage>>
vars     == <<conv, messages, usage, paid, cache, pc, req, flushed, answer>>

Entry   == [by : Targets, settings : Settings]
Request == [names : Targets \union {None}, settings : Settings,
            cacheable : BOOLEAN, conv : Conversations \union {None}]
Answer  == [kind : {"none", "ok", "cached", "blocked", "error"},
            by : Targets \union {None}, settings : Settings \union {None}]
Rows    == {"conversation", "question", "usage", "answer"}

Unanswered == [kind |-> "none", by |-> None, settings |-> None]

TypeOK ==
    /\ conv \in [Conversations -> {"unused", "live", "deleted"}]
    /\ messages \in [Conversations -> [user : 0 .. MaxTurns, assistant : 0 .. MaxTurns]]
    /\ usage \in 0 .. MaxTurns
    /\ paid \in 0 .. MaxTurns
    /\ cache \in [Targets -> Entry \union {None}]
    /\ pc \in [Requests -> {"idle", "lookup", "store", "route", "record",
                            "fill", "commit", "done"}]
    /\ req \in [Requests -> Request \union {None}]
    /\ flushed \in [Requests -> SUBSET Rows]
    /\ answer \in [Requests -> Answer]

Init ==
    /\ conv = [c \in Conversations |-> "unused"]
    /\ messages = [c \in Conversations |-> [user |-> 0, assistant |-> 0]]
    /\ usage = 0
    /\ paid = 0
    /\ cache = [t \in Targets |-> None]
    /\ pc = [r \in Requests |-> "idle"]
    /\ req = [r \in Requests |-> None]
    /\ flushed = [r \in Requests |-> {}]
    /\ answer = [r \in Requests |-> Unanswered]

-----------------------------------------------------------------------------
Goto(r, where) == pc' = [pc EXCEPT ![r] = where]

Flush(r, rows) == flushed' = [flushed EXCEPT ![r] = @ \union rows]

(* The handler is left; whatever the transaction still holds is rolled back. *)
Finish(r, a) ==
    /\ Goto(r, "done")
    /\ answer' = [answer EXCEPT ![r] = a]
    /\ flushed' = [flushed EXCEPT ![r] = {}]

Failed == [Unanswered EXCEPT !.kind = "error"]

(* The conversations other transactions have created and not committed. *)
Claimed == {req[q].conv : q \in {p \in Requests : "conversation" \in flushed[p]}}

(* The input guardrail blocks the request, or it goes on. *)
Arrive(r, asked) ==
    /\ pc[r] = "idle"
    /\ asked.conv # None => conv[asked.conv] # "unused"
    /\ req' = [req EXCEPT ![r] = asked]
    /\ \/ Finish(r, [Unanswered EXCEPT !.kind = "blocked"])
       \/ /\ Goto(r, IF asked.cacheable THEN "lookup" ELSE "store")
          /\ UNCHANGED <<flushed, answer>>
    /\ UNCHANGED <<database, paid, cache>>

(* The key is made of the names in the request, "" for one that is not     *)
(* given.  A request that does not give both is taken to match no entry,   *)
(* for an entry is stored under the names of who answered.  (Left out: an  *)
(* answer that does not tell its model is stored under "" for it.)         *)
Hit(r)  == req[r].names # None /\ cache[req[r].names] # None

Lookup(r) ==
    /\ pc[r] = "lookup"
    /\ IF Hit(r)
         THEN LET e == cache[req[r].names]
              IN  Finish(r, [kind |-> "cached", by |-> e.by, settings |-> e.settings])
         ELSE Goto(r, "store") /\ UNCHANGED <<flushed, answer>>
    /\ UNCHANGED <<database, paid, cache, req>>

(* A new conversation, or one named by the client, which must exist; and   *)
(* the user's message. *)
StoreQuestion(r) ==
    /\ pc[r] = "store"
    /\ \/ /\ req[r].conv = None
          /\ \E c \in Conversations \ Claimed :
                /\ conv[c] = "unused"
                /\ req' = [req EXCEPT ![r].conv = c]
          /\ Flush(r, {"conversation", "question"})
          /\ Goto(r, "route")
          /\ UNCHANGED answer
       \/ /\ req[r].conv # None
          /\ conv[req[r].conv] = "live"
          /\ Flush(r, {"question"})
          /\ Goto(r, "route")
          /\ UNCHANGED <<req, answer>>
       \/ /\ req[r].conv # None
          /\ conv[req[r].conv] = "deleted"
          /\ Finish(r, Failed)
          /\ UNCHANGED req
    /\ UNCHANGED <<database, paid, cache>>

(* The router answers through any provider the user has a key for, also    *)
(* when another one is named.                                              *)
Route(r) ==
    /\ pc[r] = "route"
    /\ paid < MaxTurns
    /\ paid' = paid + 1
    /\ \E t \in Targets :
          answer' = [answer EXCEPT ![r] = [Unanswered EXCEPT !.by = t,
                                                     !.settings = req[r].settings]]
    /\ Goto(r, "record")
    /\ UNCHANGED <<database, cache, req, flushed>>

(* Mutant of Fail: what has been flushed to a conversation stays. *)
FailKeepsQuestion(r) ==
    /\ pc[r] \in {"store", "route", "record", "fill", "commit"}
    /\ Finish(r, Failed)
    /\ messages' = IF flushed[r] = {"question"}
                     THEN [messages EXCEPT ![req[r].conv].user = @ + 1]
                     ELSE messages
    /\ UNCHANGED <<conv, usage, paid, cache, req>>

(* Any exception from here on, of the router, the database or Redis, or a  *)
(* commit that fails: rolled back.                                         *)
Fail(r) ==
    /\ pc[r] \in {"store", "route", "record", "fill", "commit"}
    /\ Finish(r, Failed)
    /\ UNCHANGED <<database, paid, cache, req>>

(* Mutant of StoreAnswer: the usage is not recorded. *)
StoreAnswerUncharged(r) ==
    /\ pc[r] = "record"
    /\ Flush(r, {"answer"})
    /\ \/ req[r].cacheable /\ Goto(r, "fill")
       \/ Goto(r, "commit")
    /\ UNCHANGED <<database, paid, cache, req, answer>>

StoreAnswer(r) ==
    /\ pc[r] = "record"
    /\ Flush(r, {"usage", "answer"})
    /\ \/ req[r].cacheable /\ Goto(r, "fill")
       \/ Goto(r, "commit")      \* not cacheable, or an empty answer
    /\ UNCHANGED <<database, paid, cache, req, answer>>

(* Mutant of Fill: the key is made of the names in the request.            *)
FillAsAsked(r) ==
    /\ pc[r] = "fill"
    /\ cache' = [cache EXCEPT ![req[r].names] =
                     [by |-> answer[r].by, settings |-> req[r].settings]]
    /\ Goto(r, "commit")
    /\ UNCHANGED <<database, paid, req, flushed, answer>>

Fill(r) ==
    /\ pc[r] = "fill"
    /\ LET by == answer[r].by
       IN  cache' = [cache EXCEPT ![by] = [by |-> by, settings |-> req[r].settings]]
    /\ Goto(r, "commit")
    /\ UNCHANGED <<database, paid, req, flushed, answer>>

Count(r, row) == IF row \in flushed[r] THEN 1 ELSE 0

Commit(r) ==
    /\ pc[r] = "commit"
    /\ LET c == req[r].conv
       IN  /\ conv' = [conv EXCEPT ![c] = IF "conversation" \in flushed[r] THEN "live" ELSE @]
           /\ messages' = [messages EXCEPT
                 ![c].user = @ + Count(r, "question"),
                 ![c].assistant = @ + Count(r, "answer")]
    /\ usage' = usage + Count(r, "usage")
    /\ Finish(r, [answer[r] EXCEPT !.kind = "ok"])
    /\ UNCHANGED <<paid, cache, req>>

Reuse(r) ==
    /\ pc[r] = "done"
    /\ Goto(r, "idle")
    /\ req' = [req EXCEPT ![r] = None]
    /\ answer' = [answer EXCEPT ![r] = Unanswered]
    /\ UNCHANGED <<database, paid, cache, flushed>>

-----------------------------------------------------------------------------
(* DELETE /conversations/{id}: its messages go with it.  The foreign key of *)
(* a message that is not committed yet holds the deletion up.              *)
Delete(c) ==
    /\ conv[c] = "live"
    /\ \A r \in Requests : "question" \in flushed[r] => req[r].conv # c
    /\ conv' = [conv EXCEPT ![c] = "deleted"]
    /\ messages' = [messages EXCEPT ![c] = [user |-> 0, assistant |-> 0]]
    /\ UNCHANGED <<usage, paid, cache, pc, req, flushed, answer>>

CacheExpires(t) ==
    /\ cache[t] # None
    /\ cache' = [cache EXCEPT ![t] = None]
    /\ UNCHANGED <<database, paid, pc, req, flushed, answer>>

Next ==
    \/ \E r \in Requests :
          \/ \E asked \in Request : Arrive(r, asked)
          \/ Lookup(r) \/ StoreQuestion(r) \/ Route(r) \/ Fail(r)
          \/ StoreAnswer(r) \/ Fill(r) \/ Commit(r)
          \/ Reuse(r)
    \/ \E c \in Conversations : Delete(c)
    \/ \E t \in Targets : CacheExpires(t)

Spec == Init /\ [][Next]_vars

-----------------------------------------------------------------------------
(* A conversation holds whole turns, a question and its answer each, and   *)
(* only while it exists: however a request ends, and whatever is deleted   *)
(* while it runs, it leaves neither a question without an answer nor a     *)
(* message without a conversation.                                         *)
TurnsAreWhole ==
    \A c \in Conversations :
        /\ messages[c].user = messages[c].assistant
        /\ messages[c].user > 0 => conv[c] = "live"

(* Each answer in a history has its usage record, also when requests fail  *)
(* next to it, and nothing is charged that no provider has answered.       *)
UsageMatches ==
    /\ MapThenSumSet(LAMBDA c : messages[c].assistant, Conversations) =< usage
    /\ usage =< paid

(* A request that names a provider and a model is never answered out of    *)
(* the cache with what another provider or model has said, though an entry *)
(* may come from a request that named someone else, or no one.             *)
NamedIsWhoAnswers ==
    \A r \in Requests : answer[r].kind = "cached" => answer[r].by = req[r].names

(* README:42 "exact-match cache", cache.py:3 "hash the request": an answer *)
(* out of the cache was given to the same request.                         *)
CacheIsExact ==
    \A r \in Requests :
        answer[r].kind = "cached" => answer[r].settings = req[r].settings
=============================================================================
