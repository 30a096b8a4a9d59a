--------------------------- MODULE MCShareAccess ---------------------------
(***************************************************************************)
(* Small instances of ShareAccess.  Each user owns one document, so that a  *)
(* link to one document can be tried on the other.                          *)
(***************************************************************************)
EXTENDS ShareAccess, TLC

CONSTANTS d1, d2, u1, u2, s1, s2, g1, g2, q1, q2

OneDoc == {d1}
TwoDocs == {d1, d2}
OneUser == {u1}
TwoUsers == {u1, u2}
OneShare == {s1}
OneGuest == {g1}
OneSlot == {q1}
TwoSlots == {q1, q2}

Owners == [d \in Docs |-> IF d = d1 THEN u1 ELSE u2]

ViewOrComment == {{"VIEW"}, {"VIEW", "COMMENT"}}
CommentOnly == {{"VIEW", "COMMENT"}}

OneHour == {1}

=============================================================================
