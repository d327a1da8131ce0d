---------------------------- MODULE MCTokenBucket ----------------------------
(* Instance of TokenBucket for TLC: the calls are interchangeable. *)
EXTENDS TokenBucket, TLC

Symmetry == Permutations(Calls)
=============================================================================
