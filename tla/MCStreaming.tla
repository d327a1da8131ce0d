------------------------------- MODULE MCStreaming -------------------------------
(* Instance of Streaming for TLC: one provider of each dialect. *)
EXTENDS Streaming

MCCapable == CapabilityMap(<<"openai", "groq", "anthropic", "cohere", "google">>)

MCWishes == {<<None, None>>, <<"google", None>>, <<"anthropic", "gpt-4o">>}
=============================================================================
