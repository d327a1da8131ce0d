------------------------------ MODULE MCConversion ------------------------------
(* Instance of Conversion for TLC: two real adapters, of which one lists   *)
(* four conversions and the other all that are not video.                  *)
EXTENDS Conversion

MCCapable == CapabilityMap(<<"google", "openai">>)

MCWishes == {<<None, None>>, <<None, "gpt-4o">>, <<"google", "gpt-4o">>}
=============================================================================
