-------------------------- MODULE MCCommentThreads --------------------------
(* Small instances of CommentThreads: the owner, and a guest or two. *)
EXTENDS CommentThreads, TLC

CONSTANTS owner, guest, other, q1, q2

OwnerAndGuest == {owner, guest}
OneSlot == {q1}
TwoSlots == {q1, q2}

=============================================================================
