----------------------------- MODULE MCChatService -----------------------------
(* Instance of ChatService for TLC: requests, conversations, targets and    *)
(* settings are each interchangeable.                                       *)
EXTENDS ChatService, TLC

Symmetry ==
    Permutations(Requests) \union Permutations(Conversations)
        \union Permutations(Targets) \union Permutations(Settings)
=============================================================================
