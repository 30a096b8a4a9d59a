----------------------------- MODULE RankFusion -----------------------------
(***************************************************************************)
(* Reciprocal rank fusion: two rankings of the same things are merged by     *)
(* adding up 1 / (RRF_K + rank) over the rankings that have the thing.       *)
(*                                                                          *)
(* A ranking maps what a retriever found to its ranks, 1, 2, 3...  Scores    *)
(* are exact fractions here, where the code adds floating-point numbers.     *)
(***************************************************************************)
EXTENDS Naturals, FiniteSets

CONSTANT RRF_K      \* the damping, _RRF_K

ASSUME FusionAssumption == RRF_K \in Nat

\* A ranking of at most n of the things in S.
IsRanking(r, S, n) ==
    /\ DOMAIN r \subseteq S
    /\ Cardinality(DOMAIN r) <= n
    /\ r \in [DOMAIN r -> 1..Cardinality(DOMAIN r)]
    /\ \A x, y \in DOMAIN r : r[x] = r[y] => x = y

\* The rankings a query limited to n results can give of the things in S.
Rankings(S, n) ==
    UNION {{r \in [found -> 1..Cardinality(found)] : IsRanking(r, S, n)} :
           found \in {T \in SUBSET S : Cardinality(T) <= n}}

\* What a ranking contributes to the score of x, a fraction.
Share(ranking, x) ==
    IF x \in DOMAIN ranking THEN <<1, RRF_K + ranking[x]>> ELSE <<0, 1>>

Plus(p, q) == <<p[1] * q[2] + q[1] * p[2], p[2] * q[2]>>

Exceeds(p, q) == p[1] * q[2] > q[1] * p[2]

\* Variant with a bug: what is found twice scores no more than its better rank.
Best_Score(first, second, x) ==
    LET p == Share(first, x)
        q == Share(second, x)
    IN IF Exceeds(q, p) THEN q ELSE p

Score(first, second, x) == Plus(Share(first, x), Share(second, x))

\* The order in which the scores were entered: the first ranking, then the rest
\* of the second.
Earlier(first, second, x, y) ==
    IF x \in DOMAIN first
    THEN y \in DOMAIN first => first[x] < first[y]
    ELSE y \notin DOMAIN first /\ second[x] < second[y]

\* The sort by falling score is stable.
Precedes(first, second, x, y) ==
    LET p == Score(first, second, x)
        q == Score(first, second, y)
    IN Exceeds(p, q) \/ (~Exceeds(q, p) /\ Earlier(first, second, x, y))

Entered(first, second) == DOMAIN first \cup DOMAIN second

Place(first, second, x) ==
    1 + Cardinality({y \in Entered(first, second) : Precedes(first, second, y, x)})

\* The fused ranking, of which no more than the first n are kept.
Fused(first, second, n) ==
    [x \in {y \in Entered(first, second) : Place(first, second, y) <= n} |->
        Place(first, second, x)]
=============================================================================
