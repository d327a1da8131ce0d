--------------------------- MODULE MCModalityRouter ---------------------------
(* Instance of ModalityRouter for TLC: one pair of modalities and two      *)
(* providers for it, one of them with two models.                          *)
EXTENDS ModalityRouter

CONSTANTS p1, p2, m1, m2, m3

MCCapable == [io \in {<<"text", "image">>} |-> <<<<p1, m1>>, <<p1, m2>>, <<p2, m3>>>>]
=============================================================================
