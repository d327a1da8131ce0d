-------------------------------- MODULE Dialects --------------------------------
(***************************************************************************)
(* stream_chat of the adapters: what each makes of a line that its         *)
(* provider sends, by the kind of the line.  Lines that do not start with  *)
(* "data: " are passed over by all and left out; a line that is no JSON    *)
(* raises in all (Streaming!Raise).                                        *)
(*                                                                         *)
(*   text    a piece of the answer's text                                  *)
(*   finish  the reason why the answer ends                                *)
(*   last    both in one                                                   *)
(*   blank   neither: a role, a tool call, a thought, a ping               *)
(*   usage   a count of tokens, with an empty list of choices              *)
(*   error   an error object in place of a piece of the answer             *)
(*   done    [DONE]                                                        *)
(***************************************************************************)
EXTENDS Adapters

Does(chunks, next) == [chunks |-> chunks, next |-> next]

Give(chunks) == Does(chunks, "reading")
Skip         == Give(<<>>)
Stop         == Does(<<>>, "ending")
Fail         == Does(<<>>, "failed")

(* from_stream_chunk skips whatever has no choices, also an error.         *)
OpenAIStream ==
    [text |-> Give(<<"text">>), finish |-> Give(<<"finish">>), last |-> Give(<<"last">>),
     blank |-> Skip, usage |-> Skip, error |-> Skip, done |-> Stop]

OllamaStream ==
    [text |-> Give(<<"text">>), finish |-> Give(<<"finish">>), last |-> Give(<<"last">>),
     blank |-> Skip, usage |-> Skip, error |-> Skip, done |-> Stop]

(* data["choices"][0] raises where there are none. *)
XAIStream ==
    [text |-> Give(<<"text">>), finish |-> Give(<<"finish">>), last |-> Give(<<"last">>),
     blank |-> Skip, usage |-> Fail, error |-> Fail, done |-> Stop]

GroqStream     == XAIStream
MistralStream  == XAIStream
DeepSeekStream == XAIStream

(* Events are told apart by their type; those not known are skipped, and   *)
(* the stream is read to its end.                                          *)
AnthropicStream ==
    [text |-> Give(<<"text">>), finish |-> Give(<<"finish">>),
     blank |-> Skip, usage |-> Skip, error |-> Skip, done |-> Fail]

CohereStream ==
    [text |-> Give(<<"text">>), finish |-> Give(<<"finish">>),
     blank |-> Skip, error |-> Skip, done |-> Fail]

(* Mutant of GoogleStream: the reason is looked at before the parts. *)
GoogleStreamReasonFirst ==
    [text |-> Give(<<"text">>), finish |-> Give(<<"finish">>), last |-> Give(<<"finish", "text">>),
     blank |-> Skip, usage |-> Skip, error |-> Skip, done |-> Fail]

(* Text and reason of one line become two chunks.  A line may hold several *)
(* parts, each a chunk of its own; one after the other, they stand as one. *)
GoogleStream ==
    [text |-> Give(<<"text">>), finish |-> Give(<<"finish">>), last |-> Give(<<"text", "finish">>),
     blank |-> Skip, usage |-> Skip, error |-> Skip, done |-> Fail]

(* The adapters that list text -> text all have stream_chat. *)
Dialect ==
    [openai |-> OpenAIStream, ollama |-> OllamaStream, xai |-> XAIStream,
     groq |-> GroqStream, mistral |-> MistralStream, deepseek |-> DeepSeekStream,
     anthropic |-> AnthropicStream, cohere |-> CohereStream, google |-> GoogleStream]

LineKinds  == {"text", "finish", "last", "blank", "usage", "error", "done"}
ChunkKinds == {"text", "finish", "last"}

ASSUME DialectAssumption ==
    DOMAIN Dialect = {p \in Adapters : Chat \in DOMAIN Capabilities[p]}
=============================================================================
