------------------------ MODULE MCChatConversations ------------------------
(* Small instances of ChatConversations. *)
EXTENDS ChatConversations, TLC

CONSTANTS a, b, c1, c2, q1, q2

Two == {a, b}
TwoConvs == {c1, c2}
TwoSlots == {q1, q2}

Interchangeable == Permutations(Slots) \cup Permutations(Convs)
=============================================================================
