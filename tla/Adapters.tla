-------------------------------- MODULE Adapters --------------------------------
(***************************************************************************)
(* The adapters of app/providers as tables: the conversions each lists in  *)
(* get_capabilities, the conversions it has a method for, which field of   *)
(* the UnifiedRequest that method takes its medium from, what model it     *)
(* asks for, and what it can put into its result.  The lists of models are cut to the first, or two  *)
(* where a model serves several conversions or a provider has several.     *)
(***************************************************************************)
EXTENDS SequencesExt

Chat         == <<"text", "text">>
ImageGen     == <<"text", "image">>
Vision       == <<"image", "text">>
Speech       == <<"text", "audio">>
Transcribe   == <<"audio", "text">>
Embed        == <<"text", "vector">>
TextToVideo  == <<"text", "video">>
ImageToVideo == <<"image", "video">>

(* The function with these rows, <<argument, value>> each. *)
Table(rows) ==
    [x \in {row[1] : row \in rows} |-> (CHOOSE row \in rows : row[1] = x)[2]]

-----------------------------------------------------------------------------
(* get_capabilities *)

AnthropicCapabilities  == Chat :> <<"claude-sonnet-4">> @@ Vision :> <<"claude-sonnet-4">>
CohereCapabilities     == Chat :> <<"command-r-plus">> @@ Embed :> <<"embed-v4.0">>
DeepSeekCapabilities   == Chat :> <<"deepseek-chat">>
ElevenLabsCapabilities == Speech :> <<"eleven_multilingual_v2">> @@ Transcribe :> <<"scribe_v1">>
FalCapabilities        ==
    ImageGen :> <<"flux/dev">> @@ TextToVideo :> <<"kling/text">> @@ ImageToVideo :> <<"kling/image">>
GoogleCapabilities     ==
    Chat :> <<"gemini-2.5-pro">> @@ ImageGen :> <<"imagen-4">> @@
    Vision :> <<"gemini-2.5-pro">> @@ Embed :> <<"text-embedding-004">>
GroqCapabilities       == Chat :> <<"llama-3.3">> @@ Transcribe :> <<"whisper-large-v3">>
MistralCapabilities    == Chat :> <<"mistral-large">> @@ Embed :> <<"mistral-embed">>
OllamaCapabilities     ==
    Chat :> <<"llama3.2">> @@ Vision :> <<"llava">> @@ Embed :> <<"nomic-embed-text">>
OpenAICapabilities     ==
    Chat :> <<"gpt-4o", "gpt-4.1">> @@ ImageGen :> <<"gpt-image-1">> @@ Vision :> <<"gpt-4o">> @@
    Speech :> <<"tts-1">> @@ Transcribe :> <<"whisper-1">> @@ Embed :> <<"text-embedding-3">>
ReplicateCapabilities  ==
    ImageGen :> <<"flux-1.1-pro">> @@ TextToVideo :> <<"video-01">> @@ ImageToVideo :> <<"video-01">>
StabilityCapabilities  == ImageGen :> <<"sd3.5-large">>
XAICapabilities        == Chat :> <<"grok-3">> @@ Vision :> <<"grok-3">>

Capabilities ==
    [anthropic |-> AnthropicCapabilities, cohere |-> CohereCapabilities,
     deepseek |-> DeepSeekCapabilities, elevenlabs |-> ElevenLabsCapabilities,
     fal |-> FalCapabilities, google |-> GoogleCapabilities, groq |-> GroqCapabilities,
     mistral |-> MistralCapabilities, ollama |-> OllamaCapabilities,
     openai |-> OpenAICapabilities, replicate |-> ReplicateCapabilities,
     stability |-> StabilityCapabilities, xai |-> XAICapabilities]

Adapters == DOMAIN Capabilities

(* build_capability_map over the adapters loaded, in the order of loading. *)
CapabilityMap(loaded) ==
    LET listed(p, io) ==
            IF io \in DOMAIN Capabilities[p]
              THEN [j \in DOMAIN Capabilities[p][io] |-> <<p, Capabilities[p][io][j]>>]
              ELSE <<>>
    IN  [io \in UNION {DOMAIN Capabilities[p] : p \in ToSet(loaded)} |->
            FlattenSeq([i \in DOMAIN loaded |-> listed(loaded[i], io)])]

-----------------------------------------------------------------------------
(* The methods.  A result's content or file_url is empty or not. *)

Method(reads, yields) == [reads |-> reads, yields |-> yields]

MaybeEmpty == {"full", "empty"}

Ask       == Method("prompt", MaybeEmpty)  \* a text or a link is asked of the provider for
                                           \* the prompt, and may come back empty
Look      == Method("url", MaybeEmpty)
Listen    == Method("data", MaybeEmpty)
Measure   == Method("prompt", {"full"})    \* a vector, as JSON
Drop      == Method("prompt", {"empty"})   \* what the provider made is not passed on
Stringify == Method("prompt", {"full"})    \* str() of the output, also of none

AnthropicMethods  == Table({<<Chat, Ask>>, <<Vision, Look>>})
CohereMethods     == Table({<<Chat, Ask>>, <<Embed, Measure>>})
DeepSeekMethods   == Table({<<Chat, Ask>>})
ElevenLabsMethods == Table({<<Speech, Drop>>, <<Transcribe, Listen>>})
FalMethods        == Table({<<ImageGen, Ask>>, <<TextToVideo, Ask>>, <<ImageToVideo, Look>>})
GoogleMethods     ==
    Table({<<Chat, Ask>>, <<ImageGen, Drop>>, <<Vision, Look>>, <<Embed, Measure>>})
GroqMethods       == Table({<<Chat, Ask>>, <<Transcribe, Listen>>})
MistralMethods    == Table({<<Chat, Ask>>, <<Embed, Measure>>})
OllamaMethods     == Table({<<Chat, Ask>>, <<Vision, Look>>, <<Embed, Measure>>})

(* Mutant of OpenAIMethods: vision takes the picture from the raw data. *)
OpenAIMethodsRaw ==
    Table({<<Chat, Ask>>, <<ImageGen, Ask>>, <<Vision, Listen>>,
           <<Speech, Drop>>, <<Transcribe, Listen>>, <<Embed, Measure>>})

OpenAIMethods     ==
    Table({<<Chat, Ask>>, <<ImageGen, Ask>>, <<Vision, Look>>,
           <<Speech, Drop>>, <<Transcribe, Listen>>, <<Embed, Measure>>})
ReplicateMethods  ==
    Table({<<ImageGen, Stringify>>, <<TextToVideo, Stringify>>,
           <<ImageToVideo, Method("url", {"full"})>>})
StabilityMethods  == Table({<<ImageGen, Ask>>})
XAIMethods        == Table({<<Chat, Ask>>, <<Vision, Look>>})

Methods ==
    [anthropic |-> AnthropicMethods, cohere |-> CohereMethods,
     deepseek |-> DeepSeekMethods, elevenlabs |-> ElevenLabsMethods,
     fal |-> FalMethods, google |-> GoogleMethods, groq |-> GroqMethods,
     mistral |-> MistralMethods, ollama |-> OllamaMethods,
     openai |-> OpenAIMethods, replicate |-> ReplicateMethods,
     stability |-> StabilityMethods, xai |-> XAIMethods]

(* The model that the method of p for io asks its provider for, given      *)
(* req.model, which the router has always set: that one, except that       *)
(* OpenAI's speech_to_text names its own.                                  *)
AskedModel(p, io, requested) ==
    IF p = "openai" /\ io = Transcribe THEN "whisper-1" ELSE requested

(* _dispatch finds a method for every conversion an adapter lists, so it   *)
(* never raises CapabilityNotSupported itself.                             *)
ASSUME MethodsAssumption ==
    \A p \in Adapters : DOMAIN Capabilities[p] \subseteq DOMAIN Methods[p]
=============================================================================
