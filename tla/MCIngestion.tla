---------------------------- MODULE MCIngestion ----------------------------
(***************************************************************************)
(* Small instances of Ingestion: documents of up to five paragraphs of one   *)
(* sentence, below, at and over the limits, and of up to two paragraphs of   *)
(* up to three sentences.                                                    *)
(***************************************************************************)
EXTENDS Ingestion

Lengths == {1, 4, 5, 8}

LinesUpTo(n) == UNION {[1..k -> {<<l>> : l \in Lengths}] : k \in 0..n}

ProseUpTo(n) == UNION {[1..k -> UNION {[1..j -> Lengths] : j \in 1..3}] : k \in 1..n}

SmallDocuments == LinesUpTo(5) \cup ProseUpTo(2)

ShortNotes == {1, 3}
=============================================================================
