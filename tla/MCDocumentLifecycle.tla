------------------------ MODULE MCDocumentLifecycle ------------------------
(***************************************************************************)
(* Small instances of DocumentLifecycle.  d1 and r1 run on worker w1, r2 on *)
(* w2, so that a crash of one worker spares the other's work.               *)
(***************************************************************************)
EXTENDS DocumentLifecycle, TLC

CONSTANTS w1, w2, d1, r1, r2

OneDoc == {d1}
OneDeleter == {r1}
TwoDeleters == {r1, r2}
BothWorkers == {w1, w2}

Placement == [x \in Docs \cup Deleters |-> IF x \in {d1, r1} THEN w1 ELSE w2]

\* Every failure the environment knows.
AllFaults == {"crash", "error", "lostReply", "storage", "ai"}

ErrorsOnly == {"error"}
=============================================================================
