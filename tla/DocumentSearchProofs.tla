------------------------ MODULE DocumentSearchProofs ------------------------
(***************************************************************************)
(* What reciprocal rank fusion does to any two rankings: it is a strict       *)
(* order, it respects what is better in both, and it puts what is in both     *)
(* before what is in one as long as the rankings are short enough.            *)
(*                                                                          *)
(* And what a search therefore does: it shows the searcher's own documents,  *)
(* each for a reason and what is clearly better first, agreement outranks,    *)
(* and words are found without embeddings, for any documents, any limits and  *)
(* any answers of the database.                                               *)
(***************************************************************************)
EXTENDS DocumentSearch, FiniteSetTheorems, TLAPS

-----------------------------------------------------------------------------
(* Fractions *)

Positive == Nat \ {0}

Fraction == Nat \X Positive

\* A larger factor makes a larger product, and the other way round.
LEMMA TimesMore ==
    ASSUME NEW x \in Nat, NEW y \in Nat, NEW z \in Positive
    PROVE  x > y <=> x * z > y * z
BY DEF Positive

\* p > q >= r makes p > r, and p >= q > r does.
LEMMA ExceedsTransitive ==
    ASSUME NEW p \in Fraction, NEW q \in Fraction, NEW r \in Fraction
    PROVE  /\ Exceeds(p, q) /\ ~Exceeds(r, q) => Exceeds(p, r)
           /\ ~Exceeds(q, p) /\ Exceeds(q, r) => Exceeds(p, r)
           /\ ~Exceeds(q, p) /\ ~Exceeds(r, q) => ~Exceeds(r, p)
<1> DEFINE a == p[1]  b == p[2]  c == q[1]  d == q[2]  e == r[1]  f == r[2]
<1>1. /\ a \in Nat /\ c \in Nat /\ e \in Nat
      /\ b \in Positive /\ d \in Positive /\ f \in Positive
  BY DEF Fraction
<1>2. /\ Exceeds(p, q) <=> a * d > c * b
      /\ Exceeds(q, p) <=> c * b > a * d
      /\ Exceeds(q, r) <=> c * f > e * d
      /\ Exceeds(r, q) <=> e * d > c * f
      /\ Exceeds(p, r) <=> a * f > e * b
      /\ Exceeds(r, p) <=> e * b > a * f
  BY DEF Exceeds
<1> HIDE DEF a, b, c, d, e, f
<1> DEFINE u == a * d  v == c * b  w == c * f  x == e * d  y == a * f  z == e * b
<1>3. /\ u \in Nat /\ v \in Nat /\ w \in Nat /\ x \in Nat /\ y \in Nat /\ z \in Nat
  BY <1>1 DEF Positive
<1>4. u * f = y * d /\ v * f = w * b /\ x * b = z * d
  BY <1>1 DEF Positive
<1>5. /\ u > v <=> y * d > w * b
      /\ v > u <=> w * b > y * d
      /\ w > x <=> w * b > z * d
      /\ x > w <=> z * d > w * b
      /\ y > z <=> y * d > z * d
      /\ z > y <=> z * d > y * d
  BY <1>1, <1>3, <1>4, TimesMore
<1>6. y * d \in Nat /\ w * b \in Nat /\ z * d \in Nat
  BY <1>1, <1>3 DEF Positive
<1> HIDE DEF u, v, w, x, y, z
<1>7. /\ u > v /\ ~(x > w) => y > z
      /\ ~(v > u) /\ w > x => y > z
      /\ ~(v > u) /\ ~(x > w) => ~(z > y)
  BY <1>5, <1>6
<1> QED  BY <1>2, <1>7 DEF u, v, w, x, y, z

\* Sums of fractions keep what holds of both terms.
LEMMA PlusMonotone ==
    ASSUME NEW p \in Fraction, NEW q \in Fraction,
           NEW r \in Fraction, NEW s \in Fraction,
           ~Exceeds(r, p), ~Exceeds(s, q), Exceeds(p, r) \/ Exceeds(q, s)
    PROVE  Exceeds(Plus(p, q), Plus(r, s))
<1> DEFINE a == p[1]  b == p[2]  c == q[1]  d == q[2]
           e == r[1]  f == r[2]  g == s[1]  h == s[2]
<1>1. /\ a \in Nat /\ c \in Nat /\ e \in Nat /\ g \in Nat
      /\ b \in Positive /\ d \in Positive /\ f \in Positive /\ h \in Positive
  BY DEF Fraction
<1>2. /\ a * f >= e * b /\ c * h >= g * d
      /\ a * f > e * b \/ c * h > g * d
  BY <1>1 DEF Exceeds, Positive
<1>3. Exceeds(Plus(p, q), Plus(r, s)) <=>
         (a * d + c * b) * (f * h) > (e * h + g * f) * (b * d)
  BY DEF Exceeds, Plus
<1> HIDE DEF a, b, c, d, e, f, g, h
<1> DEFINE x == a * f  y == e * b  z == c * h  w == g * d  m == d * h  n == b * f
<1>4. /\ x \in Nat /\ y \in Nat /\ z \in Nat /\ w \in Nat
      /\ m \in Positive /\ n \in Positive
  <2>1. x \in Nat /\ y \in Nat /\ z \in Nat /\ w \in Nat /\ m \in Nat /\ n \in Nat
    BY <1>1 DEF Positive
  <2>2. m # 0 /\ n # 0  BY <1>1 DEF Positive
  <2> QED  BY <2>1, <2>2 DEF Positive
<1>5. /\ (a * d + c * b) * (f * h) = x * m + z * n
      /\ (e * h + g * f) * (b * d) = y * m + w * n
  <2>1. (a * d + c * b) * (f * h) = x * m + z * n  BY <1>1 DEF Positive
  <2>2. (e * h + g * f) * (b * d) = y * m + w * n  BY <1>1 DEF Positive
  <2> QED  BY <2>1, <2>2
<1>6. x >= y /\ z >= w /\ (x > y \/ z > w)  BY <1>2
<1> HIDE DEF x, y, z, w, m, n
<1>7. x * m \in Nat /\ z * n \in Nat /\ y * m \in Nat /\ w * n \in Nat
  BY <1>4 DEF Positive
<1>8. /\ x > y <=> x * m > y * m
      /\ y > x <=> y * m > x * m
      /\ z > w <=> z * n > w * n
      /\ w > z <=> w * n > z * n
  BY <1>4, TimesMore
<1>9. x * m + z * n > y * m + w * n
  BY <1>4, <1>6, <1>7, <1>8
<1> QED  BY <1>3, <1>5, <1>9

-----------------------------------------------------------------------------
(* Scores *)

\* What the proofs need of a ranking: its ranks begin at 1.
Ranked(r) == r \in [DOMAIN r -> Positive]

LEMMA ShareIsFraction ==
    ASSUME NEW r, Ranked(r), NEW x
    PROVE  Share(r, x) \in Fraction
<1>1. CASE x \in DOMAIN r
  <2>1. r[x] \in Positive  BY <1>1 DEF Ranked
  <2>2. RRF_K + r[x] \in Positive  BY <2>1, FusionAssumption DEF Positive
  <2> QED  BY <1>1, <2>2 DEF Share, Fraction
<1>2. CASE x \notin DOMAIN r
  BY <1>2 DEF Share, Fraction, Positive
<1> QED  BY <1>1, <1>2

LEMMA ScoreIsFraction ==
    ASSUME NEW r, Ranked(r), NEW s, Ranked(s), NEW x
    PROVE  Score(r, s, x) \in Fraction
<1> DEFINE p == Share(r, x)  q == Share(s, x)
<1>1. p \in Fraction /\ q \in Fraction  BY ShareIsFraction
<1> HIDE DEF p, q
<1>2. /\ p[1] \in Nat /\ q[1] \in Nat /\ p[2] \in Nat /\ q[2] \in Nat
      /\ p[2] # 0 /\ q[2] # 0
  BY <1>1 DEF Fraction, Positive
<1>3. /\ p[1] * q[2] \in Nat /\ q[1] * p[2] \in Nat
      /\ p[2] * q[2] \in Nat /\ p[2] * q[2] # 0
  BY <1>2
<1>4. Plus(p, q) \in Fraction  BY <1>3 DEF Plus, Fraction, Positive
<1> QED  BY <1>4 DEF Score, p, q

\* The better rank contributes more, and any rank more than none.
LEMMA BetterRankMore ==
    ASSUME NEW r, Ranked(r), NEW x, NEW y,
           y \in DOMAIN r => x \in DOMAIN r /\ r[x] < r[y]
    PROVE  /\ ~Exceeds(Share(r, y), Share(r, x))
           /\ y \in DOMAIN r => Exceeds(Share(r, x), Share(r, y))
<1>1. CASE y \in DOMAIN r
  <2>1. r[x] \in Nat /\ r[y] \in Nat /\ r[x] < r[y]  BY <1>1 DEF Ranked, Positive
  <2>2. Share(r, x) = <<1, RRF_K + r[x]>> /\ Share(r, y) = <<1, RRF_K + r[y]>>
    BY <1>1 DEF Share
  <2> QED  BY <2>1, <2>2, FusionAssumption DEF Exceeds
<1>2. CASE y \notin DOMAIN r
  <2>1. Share(r, y) = <<0, 1>>  BY <1>2 DEF Share
  <2>2. Share(r, x)[1] \in Nat /\ Share(r, x)[2] \in Nat
    BY ShareIsFraction DEF Fraction, Positive
  <2> QED  BY <1>2, <2>1, <2>2 DEF Exceeds
<1> QED  BY <1>1, <1>2

\* What is better in every ranking that has the other scores more.
LEMMA BetterInBothScoresMore ==
    ASSUME NEW r, Ranked(r), NEW s, Ranked(s), NEW x, NEW y,
           y \in DOMAIN r => x \in DOMAIN r /\ r[x] < r[y],
           y \in DOMAIN s => x \in DOMAIN s /\ s[x] < s[y],
           y \in Entered(r, s)
    PROVE  Precedes(r, s, x, y)
<1>1. /\ ~Exceeds(Share(r, y), Share(r, x)) /\ ~Exceeds(Share(s, y), Share(s, x))
      /\ Exceeds(Share(r, x), Share(r, y)) \/ Exceeds(Share(s, x), Share(s, y))
  BY BetterRankMore DEF Entered
<1>2. /\ Share(r, x) \in Fraction /\ Share(r, y) \in Fraction
      /\ Share(s, x) \in Fraction /\ Share(s, y) \in Fraction
  BY ShareIsFraction
<1>3. Exceeds(Score(r, s, x), Score(r, s, y))
  BY <1>1, <1>2, PlusMonotone DEF Score
<1> QED  BY <1>3 DEF Precedes

\* Two ranks up to RRF_K + 1 outweigh any one rank.
LEMMA TwoRanksOutweighOne ==
    ASSUME NEW k \in Nat, NEW a \in Positive, NEW b \in Positive, NEW c \in Positive,
           a <= k + 1, b <= k + 1
    PROVE  (k + b + (k + a)) * (k + c) > (k + a) * (k + b)
<1> DEFINE A == k + a  B == k + b  C == k + c  D == k + 1  E == 2 * k + 1
<1>1. /\ A \in Nat /\ B \in Nat /\ C \in Nat /\ D \in Nat /\ E \in Nat
      /\ A > 0 /\ B > 0 /\ A <= E /\ B <= E /\ C >= D /\ 2 * D = E + 1
  BY DEF Positive
<1> HIDE DEF A, B, C, D, E
<1>2. A * B <= A * E /\ B * A <= B * E /\ A * B = B * A
  BY <1>1
<1>3. (B + A) * (2 * D) = A * E + B * E + A + B
  BY <1>1
<1>4. 2 * (A * B) < (B + A) * (2 * D)
  <2>1. A * B \in Nat /\ A * E \in Nat /\ B * E \in Nat  BY <1>1
  <2> QED  BY <1>1, <1>2, <1>3, <2>1
<1>5. (B + A) * (2 * D) = 2 * ((B + A) * D)  BY <1>1
<1>6. (B + A) * C >= (B + A) * D  BY <1>1
<1>7. /\ A * B \in Nat /\ (B + A) * C \in Nat /\ (B + A) * D \in Nat
  BY <1>1
<1>8. (B + A) * C > A * B  BY <1>4, <1>5, <1>6, <1>7
<1> QED  BY <1>8 DEF A, B, C

\* Agreement outranks: what both rankings have within their first RRF_K + 1 comes
\* before what only one of them has, wherever that is.
LEMMA BothPrecedesOne ==
    ASSUME NEW r, Ranked(r), NEW s, Ranked(s), NEW x, NEW y,
           x \in DOMAIN r, x \in DOMAIN s, r[x] <= RRF_K + 1, s[x] <= RRF_K + 1,
           y \in Entered(r, s), ~(y \in DOMAIN r /\ y \in DOMAIN s)
    PROVE  Precedes(r, s, x, y)
<1> DEFINE a == r[x]  b == s[x]
<1>1. a \in Positive /\ b \in Positive  BY DEF Ranked
<1>2. Score(r, s, x) = <<1 * (RRF_K + b) + 1 * (RRF_K + a), (RRF_K + a) * (RRF_K + b)>>
  BY DEF Score, Share, Plus
<1>3. \E c \in Positive : \/ Score(r, s, y) = <<1 * 1 + 0 * (RRF_K + c), (RRF_K + c) * 1>>
                          \/ Score(r, s, y) = <<0 * (RRF_K + c) + 1 * 1, 1 * (RRF_K + c)>>
  <2>1. CASE y \in DOMAIN r
    <3>1. y \notin DOMAIN s /\ r[y] \in Positive  BY <2>1 DEF Ranked
    <3>2. Score(r, s, y) = <<1 * 1 + 0 * (RRF_K + r[y]), (RRF_K + r[y]) * 1>>
      BY <2>1, <3>1 DEF Score, Share, Plus
    <3> QED  BY <3>1, <3>2
  <2>2. CASE y \notin DOMAIN r
    <3>1. y \in DOMAIN s /\ s[y] \in Positive  BY <2>2 DEF Ranked, Entered
    <3>2. Score(r, s, y) = <<0 * (RRF_K + s[y]) + 1 * 1, 1 * (RRF_K + s[y])>>
      BY <2>2, <3>1 DEF Score, Share, Plus
    <3> QED  BY <3>1, <3>2
  <2> QED  BY <2>1, <2>2
<1>4. PICK c \in Positive :
         \/ Score(r, s, y) = <<1 * 1 + 0 * (RRF_K + c), (RRF_K + c) * 1>>
         \/ Score(r, s, y) = <<0 * (RRF_K + c) + 1 * 1, 1 * (RRF_K + c)>>
  BY <1>3
<1>5. Score(r, s, y) = <<1, RRF_K + c>>
  BY <1>4, FusionAssumption DEF Positive
<1>6. (RRF_K + b + (RRF_K + a)) * (RRF_K + c) > (RRF_K + a) * (RRF_K + b)
  BY <1>1, FusionAssumption, TwoRanksOutweighOne
<1> DEFINE u == (RRF_K + a) * (RRF_K + b)  v == RRF_K + b + (RRF_K + a)
<1>7. Score(r, s, x) = <<v, u>>
  BY <1>1, <1>2, FusionAssumption DEF Positive
<1>8. u \in Nat /\ v * (RRF_K + c) > u
  BY <1>1, <1>6, FusionAssumption DEF Positive
<1> HIDE DEF u, v
<1>9. Exceeds(<<v, u>>, <<1, RRF_K + c>>)
  BY <1>8 DEF Exceeds
<1> QED  BY <1>5, <1>7, <1>9 DEF Precedes

-----------------------------------------------------------------------------
(* The fused order *)

LEMMA EarlierTransitive ==
    ASSUME NEW r, Ranked(r), NEW s, Ranked(s),
           NEW x \in Entered(r, s), NEW y \in Entered(r, s), NEW z \in Entered(r, s),
           Earlier(r, s, x, y), Earlier(r, s, y, z)
    PROVE  Earlier(r, s, x, z)
<1>1. \A w \in DOMAIN r : r[w] \in Nat  BY DEF Ranked, Positive
<1>2. \A w \in DOMAIN s : s[w] \in Nat  BY DEF Ranked, Positive
<1> QED  BY <1>1, <1>2 DEF Earlier, Entered

LEMMA PrecedesTransitive ==
    ASSUME NEW r, Ranked(r), NEW s, Ranked(s),
           NEW x \in Entered(r, s), NEW y \in Entered(r, s), NEW z \in Entered(r, s),
           Precedes(r, s, x, y), Precedes(r, s, y, z)
    PROVE  Precedes(r, s, x, z)
<1> DEFINE p == Score(r, s, x)  q == Score(r, s, y)  t == Score(r, s, z)
<1>1. p \in Fraction /\ q \in Fraction /\ t \in Fraction  BY ScoreIsFraction
<1>2. /\ Exceeds(p, q) \/ (~Exceeds(q, p) /\ Earlier(r, s, x, y))
      /\ Exceeds(q, t) \/ (~Exceeds(t, q) /\ Earlier(r, s, y, z))
  BY DEF Precedes
<1> HIDE DEF p, q, t
<1>3. Exceeds(p, q) => ~Exceeds(q, p)
  BY <1>1 DEF Exceeds, Fraction, Positive
<1>4. Exceeds(q, t) => ~Exceeds(t, q)
  BY <1>1 DEF Exceeds, Fraction, Positive
<1>5. Exceeds(p, t) \/ (~Exceeds(t, p) /\ Earlier(r, s, x, z))
  BY <1>1, <1>2, <1>3, <1>4, ExceedsTransitive, EarlierTransitive
<1> QED  BY <1>5 DEF Precedes, p, t

LEMMA PrecedesIrreflexive ==
    ASSUME NEW r, Ranked(r), NEW s, Ranked(s), NEW x \in Entered(r, s)
    PROVE  ~Precedes(r, s, x, x)
<1> DEFINE p == Score(r, s, x)
<1>1. p \in Fraction  BY ScoreIsFraction
<1> HIDE DEF p
<1>2. ~Exceeds(p, p)  BY <1>1 DEF Exceeds, Fraction, Positive
<1>3. ~Earlier(r, s, x, x)
  <2>1. \A w \in DOMAIN r : r[w] \in Nat  BY DEF Ranked, Positive
  <2>2. \A w \in DOMAIN s : s[w] \in Nat  BY DEF Ranked, Positive
  <2> QED  BY <2>1, <2>2 DEF Earlier, Entered
<1> QED  BY <1>2, <1>3 DEF Precedes, p

\* Places are natural numbers, and what precedes has the smaller one.
LEMMA PlaceIsNatural ==
    ASSUME NEW r, NEW s, IsFiniteSet(Entered(r, s)), NEW x
    PROVE  Place(r, s, x) \in Positive
<1> DEFINE Before == {y \in Entered(r, s) : Precedes(r, s, y, x)}
<1>1. IsFiniteSet(Before)  BY FS_Subset
<1>2. Cardinality(Before) \in Nat  BY <1>1, FS_CardinalityType
<1> HIDE DEF Before
<1>3. 1 + Cardinality(Before) \in Positive  BY <1>2 DEF Positive
<1> QED  BY <1>3 DEF Place, Before

LEMMA PlaceMonotone ==
    ASSUME NEW r, Ranked(r), NEW s, Ranked(s), IsFiniteSet(Entered(r, s)),
           NEW x \in Entered(r, s), NEW y \in Entered(r, s), Precedes(r, s, x, y)
    PROVE  Place(r, s, x) < Place(r, s, y)
<1> DEFINE BeforeX == {w \in Entered(r, s) : Precedes(r, s, w, x)}
           BeforeY == {w \in Entered(r, s) : Precedes(r, s, w, y)}
<1>1. IsFiniteSet(BeforeY)  BY FS_Subset
<1>2. BeforeX \in SUBSET BeforeY  BY PrecedesTransitive
<1>3. x \in BeforeY /\ x \notin BeforeX  BY PrecedesIrreflexive
<1>4. /\ Cardinality(BeforeX) \in Nat /\ Cardinality(BeforeY) \in Nat
  BY <1>1, <1>2, FS_Subset, FS_CardinalityType
<1>5. Cardinality(BeforeX) <= Cardinality(BeforeY) /\ Cardinality(BeforeX) # Cardinality(BeforeY)
  BY <1>1, <1>2, <1>3, FS_Subset
<1> HIDE DEF BeforeX, BeforeY
<1>6. 1 + Cardinality(BeforeX) < 1 + Cardinality(BeforeY)  BY <1>4, <1>5
<1> QED  BY <1>6 DEF Place, BeforeX, BeforeY

-----------------------------------------------------------------------------
(* Minima *)

\* Any set of natural numbers that is not empty has a least one.
LEMMA LeastExists ==
    ASSUME NEW T \in SUBSET Nat, T # {}
    PROVE  \E i \in T : \A j \in T : i <= j
<1> DEFINE R == {ss \in Nat \X Nat : ss[1] < ss[2]}
<1>1. IsWellFoundedOn(R, Nat)  BY NatLessThanWellFounded, Zenon DEF OpToRel
<1>2. \E x \in T : \A y \in T : ~(<<y, x>> \in R)  BY <1>1, WFMin
<1>3. PICK i \in T : \A j \in T : ~(<<j, i>> \in R)  BY <1>2
<1>4. ASSUME NEW j \in T PROVE i <= j
  <2>1. ~(<<j, i>> \in R)  BY <1>3
  <2>2. j \in Nat /\ i \in Nat  OBVIOUS
  <2>3. ~(j < i)  BY <2>1, <2>2
  <2> QED  BY <2>2, <2>3
<1> QED  BY <1>4

-----------------------------------------------------------------------------
(* The inductive invariant *)

\* A request that has not begun holds nothing.
IdleInv == stage = "idle" =>
    names = Nothing /\ lexical = Nothing /\ dense = Nothing /\ strong = 0
    /\ answer = Nothing /\ passages = {}

\* Both retrievers keep to the scope, and the listing to the owner.
ScopeInv ==
    /\ \A c \in DOMAIN lexical \cup DOMAIN dense : c[1] \in scope
    /\ \A d \in owned : Owner[d] = Searcher

\* What is shown is what the lists amount to.
AnswerInv == Searched => answer = Results

IInv == TypeOK /\ IdleInv /\ ScopeInv /\ AnswerInv /\ OwnDocumentsOnly

-----------------------------------------------------------------------------
(* Finite sets *)

LEMMA DocsFinite == IsFiniteSet(Docs)
BY FS_Interval, SearchAssumption DEF Docs

LEMMA ChunksFinite == IsFiniteSet(Chunks)
<1> DEFINE Of(d) == {<<d, i>> : i \in 1..Length[d]}
           All == {Of(d) : d \in Docs}
<1>1. ASSUME NEW d \in Docs PROVE IsFiniteSet(Of(d))
  <2> DEFINE f == [i \in 1..Length[d] |-> <<d, i>>]
  <2>1. Length[d] \in Nat  BY SearchAssumption
  <2>2. IsFiniteSet(1..Length[d])  BY <2>1, FS_Interval
  <2>3. f \in Surjection(1..Length[d], Of(d))  BY DEF Surjection
  <2> QED  BY <2>2, <2>3, FS_Surjection
<1>2. IsFiniteSet(All)
  <2> DEFINE f == [d \in Docs |-> Of(d)]
  <2>1. f \in Surjection(Docs, All)  BY DEF Surjection
  <2> QED  BY <2>1, DocsFinite, FS_Surjection
<1>3. \A T \in All : IsFiniteSet(T)  BY <1>1
<1>4. IsFiniteSet(UNION All)  BY <1>2, <1>3, FS_UNION
<1> QED  BY <1>4 DEF Chunks

LEMMA ChunkOfDocument ==
    ASSUME NEW c \in Chunks PROVE c[1] \in Docs
BY DEF Chunks

-----------------------------------------------------------------------------
(* Rankings *)

LEMMA RankingOfFinite ==
    ASSUME NEW S, IsFiniteSet(S), NEW n, NEW r, IsRanking(r, S, n)
    PROVE  Ranked(r) /\ DOMAIN r \subseteq S /\ Cardinality(DOMAIN r) \in Nat
<1>1. DOMAIN r \subseteq S  BY DEF IsRanking
<1>2. Cardinality(DOMAIN r) \in Nat  BY <1>1, FS_Subset, FS_CardinalityType
<1>3. r \in [DOMAIN r -> 1..Cardinality(DOMAIN r)]  BY DEF IsRanking
<1>4. 1..Cardinality(DOMAIN r) \subseteq Positive  BY <1>2 DEF Positive
<1> QED  BY <1>1, <1>2, <1>3, <1>4 DEF Ranked

LEMMA RankingsRank ==
    ASSUME NEW S, NEW n, NEW r \in Rankings(S, n)
    PROVE  IsRanking(r, S, n)
BY DEF Rankings

LEMMA RankingOfMore ==
    ASSUME NEW S, NEW T, S \subseteq T, NEW n, NEW r, IsRanking(r, S, n)
    PROVE  IsRanking(r, T, n)
BY DEF IsRanking

LEMMA NothingRanks ==
    ASSUME NEW S, NEW n \in Nat
    PROVE  IsRanking(Nothing, S, n)
<1>1. DOMAIN Nothing = {}  BY DEF Nothing
<1>2. Cardinality({}) = 0  BY FS_EmptySet
<1>3. Nothing \in [{} -> 1..0]  BY DEF Nothing
<1> QED  BY <1>1, <1>2, <1>3 DEF IsRanking

LEMMA NumbersOfCandidates ==
    ASSUME task \in {"none", "search", "chat"}
    PROVE  Top \in Nat /\ Candidates \in Nat /\ Limit * Multiplier \in Nat
<1>1. /\ Limit \in Nat /\ TopK \in Nat /\ Multiplier \in Nat  BY SearchAssumption
<1>2. Limit * Multiplier \in Nat  BY <1>1
<1>3. Top \in Nat  BY <1>1, <1>2 DEF Top
<1> QED  BY <1>1, <1>2, <1>3 DEF Candidates

\* The lists of a request are rankings of finite sets.
LEMMA HitsRanked ==
    ASSUME TypeOK
    PROVE  /\ Ranked(names) /\ Ranked(lexical) /\ Ranked(dense)
           /\ DOMAIN names \subseteq Docs
           /\ Entered(dense, lexical) \subseteq Chunks
           /\ IsFiniteSet(Entered(dense, lexical))
<1>1. Ranked(names) /\ DOMAIN names \subseteq Docs
  BY DocsFinite, RankingOfFinite DEF TypeOK
<1>2. Ranked(lexical) /\ DOMAIN lexical \subseteq Chunks
  BY ChunksFinite, RankingOfFinite DEF TypeOK
<1>3. Ranked(dense) /\ DOMAIN dense \subseteq Chunks
  BY ChunksFinite, RankingOfFinite DEF TypeOK
<1>4. Entered(dense, lexical) \subseteq Chunks  BY <1>2, <1>3 DEF Entered
<1>5. IsFiniteSet(Entered(dense, lexical))  BY <1>4, ChunksFinite, FS_Subset
<1> QED  BY <1>1, <1>2, <1>3, <1>4, <1>5

-----------------------------------------------------------------------------
(* What retrieval returns *)

LEMMA RetrievedType ==
    ASSUME TypeOK
    PROVE  /\ DOMAIN Retrieved \subseteq Entered(dense, lexical)
           /\ \A c \in DOMAIN Retrieved :
                 Retrieved[c] \in Positive /\ Retrieved[c] = Place(dense, lexical, c)
           /\ \A c \in Entered(dense, lexical) :
                 Place(dense, lexical, c) <= Top => c \in DOMAIN Retrieved
<1>1. \A c : Place(dense, lexical, c) \in Positive
  BY HitsRanked, PlaceIsNatural
<1> QED  BY <1>1 DEF Retrieved, Fused

\* A document that keeps a chunk has a best one.
LEMMA PassageIsBest ==
    ASSUME TypeOK, NEW d, KeptOf(d) # {}
    PROVE  /\ Passage(d) \in KeptOf(d)
           /\ \A e \in KeptOf(d) : Retrieved[Passage(d)] <= Retrieved[e]
<1> DEFINE Places == {Retrieved[c] : c \in KeptOf(d)}
<1>1. \A c \in KeptOf(d) : c \in DOMAIN Retrieved  BY DEF KeptOf, Kept
<1>2. Places \in SUBSET Nat  BY <1>1, RetrievedType DEF Positive
<1>3. Places # {}  OBVIOUS
<1>4. PICK i \in Places : \A j \in Places : i <= j  BY <1>2, <1>3, LeastExists
<1>5. PICK c \in KeptOf(d) : i = Retrieved[c]  OBVIOUS
<1>6. \A e \in KeptOf(d) : Retrieved[c] <= Retrieved[e]  BY <1>4, <1>5
<1> QED  BY <1>6, Zenon DEF Passage

LEMMA ContentRanked ==
    ASSUME TypeOK
    PROVE  /\ Ranked(Content)
           /\ DOMAIN Content \subseteq Docs
           /\ \A d \in DOMAIN Content :
                 KeptOf(d) # {} /\ Content[d] = Retrieved[Passage(d)]
<1>1. DOMAIN Content = {c[1] : c \in Kept}  BY DEF Content
<1>2. Kept \subseteq Chunks  BY RetrievedType, HitsRanked DEF Kept
<1>3. DOMAIN Content \subseteq Docs  BY <1>1, <1>2, ChunkOfDocument
<1>4. ASSUME NEW d \in DOMAIN Content
      PROVE  /\ KeptOf(d) # {} /\ Content[d] = Retrieved[Passage(d)]
             /\ Content[d] \in Positive
  <2>1. KeptOf(d) # {}  BY <1>1 DEF KeptOf
  <2>2. Content[d] = Retrieved[Passage(d)]  BY DEF Content
  <2>3. Passage(d) \in DOMAIN Retrieved
    BY <2>1, PassageIsBest DEF KeptOf, Kept
  <2> QED  BY <2>1, <2>2, <2>3, RetrievedType
<1>5. Content \in [DOMAIN Content -> Positive]
  <2>1. Content = [d \in DOMAIN Content |-> Content[d]]  BY DEF Content
  <2> HIDE DEF Content
  <2> QED  BY <1>4, <2>1
<1> QED  BY <1>3, <1>4, <1>5 DEF Ranked

LEMMA DocumentsFinite ==
    ASSUME TypeOK
    PROVE  Entered(names, Content) \subseteq Docs /\ IsFiniteSet(Entered(names, Content))
<1>1. Entered(names, Content) \subseteq Docs
  BY HitsRanked, ContentRanked DEF Entered
<1> QED  BY <1>1, DocsFinite, FS_Subset

-----------------------------------------------------------------------------
(* What a search shows *)

LEMMA ResultsType ==
    ASSUME TypeOK
    PROVE  /\ DOMAIN Results \subseteq owned \cap Entered(names, Content)
           /\ \A d \in DOMAIN Results :
                 /\ Results[d] \in [place : 1..Limit, excerpt : Chunks \cup {None}]
                 /\ Results[d].place = Place(names, Content, d)
                 /\ Results[d].excerpt # None => Results[d].excerpt[1] = d
           /\ \A d \in owned \cap Entered(names, Content) :
                 Place(names, Content, d) <= Limit => d \in DOMAIN Results
<1> DEFINE ranked == Fused(names, Content, Limit)
<1>1. /\ DOMAIN ranked = {d \in Entered(names, Content) : Place(names, Content, d) <= Limit}
      /\ \A d \in DOMAIN ranked : ranked[d] = Place(names, Content, d)
  BY DEF Fused
<1>2. \A d : Place(names, Content, d) \in Positive
  BY DocumentsFinite, PlaceIsNatural
<1> DEFINE shown(d) == IF KeptOf(d) = {} THEN None ELSE Passage(d)
<1>3. ASSUME NEW d PROVE shown(d) \in Chunks \cup {None} /\ (shown(d) # None => shown(d)[1] = d)
  <2>1. CASE KeptOf(d) = {}  BY <2>1
  <2>2. CASE KeptOf(d) # {}
    <3>1. Passage(d) \in KeptOf(d)  BY <2>2, PassageIsBest
    <3>2. Passage(d) \in DOMAIN Retrieved /\ Passage(d)[1] = d  BY <3>1 DEF KeptOf, Kept
    <3>3. Passage(d) \in Chunks  BY <3>2, RetrievedType, HitsRanked
    <3> QED  BY <2>2, <3>2, <3>3
  <2> QED  BY <2>1, <2>2
<1> HIDE DEF ranked, shown
<1>4. Results = [d \in DOMAIN ranked \cap owned |-> [place |-> ranked[d], excerpt |-> shown(d)]]
  BY DEF Results, ranked, shown
<1>5. Limit \in Nat  BY SearchAssumption
<1>6. ASSUME NEW d \in DOMAIN Results
      PROVE  /\ Results[d] \in [place : 1..Limit, excerpt : Chunks \cup {None}]
             /\ Results[d].place = Place(names, Content, d)
             /\ Results[d].excerpt # None => Results[d].excerpt[1] = d
  <2>1. d \in DOMAIN ranked /\ Results[d] = [place |-> ranked[d], excerpt |-> shown(d)]
    BY <1>4
  <2>2. ranked[d] \in 1..Limit /\ ranked[d] = Place(names, Content, d)
    BY <1>1, <1>2, <1>5, <2>1 DEF Positive
  <2> QED  BY <1>3, <2>1, <2>2
<1> QED  BY <1>1, <1>4, <1>6

\* Agreement outranks follows from what fusion does to two lists no longer than
\* the candidates asked for.
LEMMA AgreementHolds == TypeOK => AgreementOutranks
<1> SUFFICES ASSUME TypeOK, stage \in {"retrieved", "answered"}, Candidates <= RRF_K + 1,
                    NEW b \in Chunks, NEW c \in DOMAIN Retrieved,
                    FoundByBoth(b), ~FoundByBoth(c)
             PROVE  b \in DOMAIN Retrieved /\ Retrieved[b] < Retrieved[c]
  BY DEF AgreementOutranks
<1>1. Candidates \in Nat  BY NumbersOfCandidates DEF TypeOK
<1>2. dense[b] <= RRF_K + 1 /\ lexical[b] <= RRF_K + 1
  <2>1. b \in DOMAIN dense /\ b \in DOMAIN lexical  BY DEF FoundByBoth
  <2>2. Cardinality(DOMAIN dense) \in Nat /\ Cardinality(DOMAIN lexical) \in Nat
    BY ChunksFinite, RankingOfFinite DEF TypeOK
  <2>3. /\ dense[b] \in 1..Cardinality(DOMAIN dense) /\ Cardinality(DOMAIN dense) <= Candidates
        /\ lexical[b] \in 1..Cardinality(DOMAIN lexical)
        /\ Cardinality(DOMAIN lexical) <= Candidates
    BY <2>1 DEF TypeOK, IsRanking
  <2> QED  BY <1>1, <2>2, <2>3, FusionAssumption
<1>3. c \in Entered(dense, lexical) /\ b \in Entered(dense, lexical)
  BY RetrievedType DEF FoundByBoth, Entered
<1>4. Precedes(dense, lexical, b, c)
  BY <1>2, <1>3, HitsRanked, BothPrecedesOne DEF FoundByBoth
<1>5. Place(dense, lexical, b) < Place(dense, lexical, c)
  BY <1>3, <1>4, HitsRanked, PlaceMonotone
<1>6. Place(dense, lexical, c) <= Top
  BY DEF Retrieved, Fused
<1>7. /\ Place(dense, lexical, b) \in Nat /\ Place(dense, lexical, c) \in Nat /\ Top \in Nat
  BY HitsRanked, PlaceIsNatural, NumbersOfCandidates DEF TypeOK, Positive
<1>8. b \in DOMAIN Retrieved  BY <1>3, <1>5, <1>6, <1>7, RetrievedType
<1> QED  BY <1>5, <1>8, RetrievedType

LEMMA BetterHolds == TypeOK /\ AnswerInv => ClearlyBetterFirst
<1> SUFFICES ASSUME TypeOK, AnswerInv, Searched,
                    NEW d \in owned, NEW e \in DOMAIN answer,
                    d # e, BetterName(d, e), BetterPassage(d, e)
             PROVE  d \in DOMAIN answer /\ answer[d].place < answer[e].place
  BY DEF ClearlyBetterFirst
<1>1. answer = Results  BY DEF AnswerInv
<1>2. e \in Entered(names, Content)  BY <1>1, ResultsType
<1>3. e \in DOMAIN names => d \in DOMAIN names /\ names[d] < names[e]
  BY DEF BetterName
<1>4. e \in DOMAIN Content => d \in DOMAIN Content /\ Content[d] < Content[e]
  <2> SUFFICES ASSUME e \in DOMAIN Content
               PROVE  d \in DOMAIN Content /\ Content[d] < Content[e]
    OBVIOUS
  <2>1. Passage(e) \in KeptOf(e) /\ Content[e] = Retrieved[Passage(e)]
    BY ContentRanked, PassageIsBest
  <2>2. PICK b \in KeptOf(d) : Retrieved[b] < Retrieved[Passage(e)]
    BY <2>1 DEF BetterPassage
  <2>3. /\ Passage(d) \in KeptOf(d) /\ Retrieved[Passage(d)] <= Retrieved[b]
    BY <2>2, PassageIsBest
  <2>4. d \in DOMAIN Content
    BY <2>2 DEF Content, KeptOf
  <2>5. Content[d] = Retrieved[Passage(d)]  BY <2>4, ContentRanked
  <2>6. \A c \in KeptOf(d) \cup KeptOf(e) : Retrieved[c] \in Nat
    BY RetrievedType DEF KeptOf, Kept, Positive
  <2> QED  BY <2>1, <2>2, <2>3, <2>4, <2>5, <2>6
<1>5. d \in Entered(names, Content)  BY <1>2, <1>3, <1>4 DEF Entered
<1>6. Precedes(names, Content, d, e)
  BY <1>2, <1>3, <1>4, HitsRanked, ContentRanked, BetterInBothScoresMore
<1>7. Place(names, Content, d) < Place(names, Content, e)
  BY <1>2, <1>5, <1>6, HitsRanked, ContentRanked, DocumentsFinite, PlaceMonotone
<1>8. Place(names, Content, d) \in Nat /\ Place(names, Content, e) \in Nat
  BY DocumentsFinite, PlaceIsNatural DEF Positive
<1>9. answer[e].place = Place(names, Content, e) /\ answer[e].place \in 1..Limit
  BY <1>1, ResultsType
<1>10. d \in DOMAIN Results
  BY <1>5, <1>7, <1>8, <1>9, ResultsType, SearchAssumption
<1> QED  BY <1>1, <1>7, <1>9, <1>10, ResultsType

LEMMA WarrantedHolds == TypeOK /\ AnswerInv => Warranted
<1> SUFFICES ASSUME TypeOK, AnswerInv, Searched, NEW d \in DOMAIN answer
             PROVE  \/ d \in DOMAIN names
                    \/ \E c \in DOMAIN lexical : c[1] = d
                    \/ \E c \in DOMAIN dense : c[1] = d /\ dense[c] <= strong
  BY DEF Warranted
<1>1. d \in Entered(names, Content)  BY ResultsType DEF AnswerInv
<1>2. CASE d \in DOMAIN names  BY <1>2
<1>3. CASE d \in DOMAIN Content
  <2>1. PICK c \in Kept : c[1] = d  BY <1>3 DEF Content
  <2>2. c \in DOMAIN dense \/ c \in DOMAIN lexical
    BY RetrievedType DEF Kept, Entered
  <2> QED  BY <2>1, <2>2 DEF Kept
<1> QED  BY <1>1, <1>2, <1>3 DEF Entered

\* With the embeddings out, the words' ranking is what retrieval returns.
LEMMA WordsAlone ==
    ASSUME TypeOK, dense = Nothing
    PROVE  /\ Entered(dense, lexical) = DOMAIN lexical
           /\ \A c \in DOMAIN lexical : lexical[c] \in Nat /\ Place(dense, lexical, c) = lexical[c]
           /\ \A b, c \in DOMAIN lexical : lexical[b] = lexical[c] => b = c
<1> DEFINE n == Cardinality(DOMAIN lexical)
<1>1. DOMAIN dense = {} /\ Entered(dense, lexical) = DOMAIN lexical
  BY DEF Nothing, Entered
<1>2. /\ Ranked(dense) /\ Ranked(lexical) /\ IsFiniteSet(DOMAIN lexical)
  BY <1>1, HitsRanked
<1>3. n \in Nat
  BY <1>2, FS_CardinalityType
<1>4. /\ lexical \in [DOMAIN lexical -> 1..n]
      /\ \A b, c \in DOMAIN lexical : lexical[b] = lexical[c] => b = c
  BY DEF TypeOK, IsRanking
<1> HIDE DEF n
<1>5. lexical \in Surjection(DOMAIN lexical, 1..n)
  <2>1. lexical \in Injection(DOMAIN lexical, 1..n)
    BY <1>4 DEF Injection, IsInjective
  <2>2. IsFiniteSet(1..n) /\ Cardinality(1..n) = n
    BY <1>3, FS_Interval
  <2> QED  BY <2>1, <2>2, FS_Injection DEF n
<1>6. ASSUME NEW b \in DOMAIN lexical, NEW c \in DOMAIN lexical
      PROVE  Precedes(dense, lexical, b, c) <=> lexical[b] < lexical[c]
  <2>1. lexical[b] \in Nat /\ lexical[c] \in Nat
    BY <1>3, <1>4
  <2>2. CASE lexical[b] < lexical[c]
    BY <1>1, <1>2, <2>2, BetterInBothScoresMore
  <2>3. CASE b = c
    BY <1>1, <1>2, <2>1, <2>3, PrecedesIrreflexive
  <2>4. CASE lexical[c] < lexical[b]
    <3>1. Precedes(dense, lexical, c, b)
      BY <1>1, <1>2, <2>4, BetterInBothScoresMore
    <3>2. ~Precedes(dense, lexical, b, c)
      BY <1>1, <1>2, <3>1, PrecedesTransitive, PrecedesIrreflexive
    <3> QED  BY <2>1, <2>4, <3>2
  <2> QED  BY <1>4, <2>1, <2>2, <2>3, <2>4
<1>7. ASSUME NEW c \in DOMAIN lexical PROVE Place(dense, lexical, c) = lexical[c]
  <2> DEFINE before == {b \in DOMAIN lexical : Precedes(dense, lexical, b, c)}
             rank == [b \in before |-> lexical[b]]
  <2>1. lexical[c] \in 1..n /\ lexical[c] \in Nat
    BY <1>3, <1>4
  <2>2. \A b \in before : b \in DOMAIN lexical /\ lexical[b] \in 1..(lexical[c] - 1)
    BY <1>3, <1>4, <1>6, <2>1
  <2>3. rank \in Injection(before, 1..(lexical[c] - 1))
    <3>1. rank \in [before -> 1..(lexical[c] - 1)]
      BY <2>2
    <3>2. IsInjective(rank)
      BY <1>4, <2>2 DEF IsInjective
    <3> QED  BY <3>1, <3>2 DEF Injection
  <2>4. \A k \in 1..(lexical[c] - 1) : \E b \in before : rank[b] = k
    <3> SUFFICES ASSUME NEW k \in 1..(lexical[c] - 1) PROVE \E b \in before : lexical[b] = k
      OBVIOUS
    <3>1. k \in 1..n
      BY <1>3, <2>1
    <3>2. PICK b \in DOMAIN lexical : lexical[b] = k
      BY <1>5, <3>1 DEF Surjection
    <3> QED  BY <1>6, <2>1, <3>2
  <2>5. Place(dense, lexical, c) = 1 + Cardinality(before)
    BY <1>1 DEF Place
  <2> HIDE DEF before, rank
  <2>6. PICK m \in Nat : m = lexical[c] - 1
    BY <1>3, <2>1
  <2>7. rank \in Injection(before, 1..m) /\ rank \in Surjection(before, 1..m)
    BY <2>3, <2>4, <2>6 DEF Surjection, Injection
  <2>8. IsFiniteSet(1..m) /\ Cardinality(1..m) = m
    BY FS_Interval
  <2>9. Cardinality(before) = m
    BY <2>7, <2>8, FS_Injection
  <2> QED  BY <2>1, <2>5, <2>6, <2>9
<1>8. \A c \in DOMAIN lexical : lexical[c] \in Nat
  BY <1>3, <1>4
<1> QED  BY <1>1, <1>4, <1>7, <1>8

\* What precedes a document in the fused order beats it in one of the rankings.
LEMMA KeywordsHold == TypeOK /\ AnswerInv => KeywordsSurvive
<1> DEFINE word(d) == {c \in DOMAIN lexical : c[1] = d /\ lexical[c] <= Top}
           beats(e, d) ==
              \/ e \in DOMAIN names /\ (d \in DOMAIN names => names[e] < names[d])
              \/ \E b \in word(e) : \A c \in word(d) : lexical[b] < lexical[c]
<1> SUFFICES ASSUME TypeOK, AnswerInv, Searched, dense = Nothing,
                    NEW d \in owned \ DOMAIN answer, d \in DOMAIN names \/ word(d) # {}
             PROVE  Cardinality({e \in Docs \ {d} : beats(e, d)}) >= Limit
  BY DEF KeywordsSurvive
<1> DEFINE rivals == {e \in Docs \ {d} : beats(e, d)}
           ahead == {e \in Entered(names, Content) : Precedes(names, Content, e, d)}
<1>1. answer = Results  BY DEF AnswerInv
<1>2. /\ Entered(dense, lexical) = DOMAIN lexical
      /\ \A c \in DOMAIN lexical : lexical[c] \in Nat /\ Place(dense, lexical, c) = lexical[c]
      /\ \A b, c \in DOMAIN lexical : lexical[b] = lexical[c] => b = c
  BY WordsAlone
<1>3. \A c : c \in DOMAIN Retrieved <=> c \in DOMAIN lexical /\ lexical[c] <= Top
  BY <1>2 DEF Retrieved, Fused
<1>4. \A c \in DOMAIN Retrieved : Retrieved[c] = lexical[c]
  BY <1>2, <1>3, RetrievedType
<1>5. \A e : KeptOf(e) = word(e)
  BY <1>3 DEF KeptOf, Kept
<1>6. \A e : e \in DOMAIN Content <=> word(e) # {}
  <2>1. DOMAIN Content = {c[1] : c \in Kept}  BY DEF Content
  <2> QED  BY <1>5, <2>1 DEF KeptOf
<1>7. d \in Entered(names, Content)
  BY <1>6 DEF Entered
<1>8. Ranked(names) /\ Ranked(Content)
  BY HitsRanked, ContentRanked
<1>9. ASSUME NEW e \in ahead PROVE e \in rivals
  <2>1. e \in Entered(names, Content) /\ Precedes(names, Content, e, d)
    OBVIOUS
  <2>2. ~Precedes(names, Content, d, e) /\ e # d
    BY <1>7, <1>8, <2>1, PrecedesTransitive, PrecedesIrreflexive
  <2>3. e \in Docs
    BY <2>1, DocumentsFinite
  <2>4. SUFFICES ASSUME ~beats(e, d) PROVE FALSE
    BY <2>2, <2>3
  <2>5. e \in DOMAIN names => d \in DOMAIN names /\ names[d] < names[e]
    <3> SUFFICES ASSUME e \in DOMAIN names PROVE d \in DOMAIN names /\ names[d] < names[e]
      OBVIOUS
    <3>1. d \in DOMAIN names /\ ~(names[e] < names[d])
      BY <2>4
    <3>2. names[d] # names[e]
      BY <2>2, <3>1 DEF TypeOK, IsRanking
    <3>3. names[d] \in Nat /\ names[e] \in Nat
      BY <1>8, <3>1 DEF Ranked, Positive
    <3> QED  BY <3>1, <3>2, <3>3
  <2>6. e \in DOMAIN Content => d \in DOMAIN Content /\ Content[d] < Content[e]
    <3> SUFFICES ASSUME e \in DOMAIN Content
                 PROVE  d \in DOMAIN Content /\ Content[d] < Content[e]
      OBVIOUS
    <3>1. /\ Passage(e) \in word(e) /\ Content[e] = Retrieved[Passage(e)]
          /\ Passage(e) \in DOMAIN Retrieved
      <4>1. KeptOf(e) # {} /\ Content[e] = Retrieved[Passage(e)]
        BY ContentRanked
      <4>2. Passage(e) \in KeptOf(e)
        BY <4>1, PassageIsBest
      <4>3. Passage(e) \in word(e)
        BY <1>5, <4>2
      <4> QED  BY <1>3, <4>1, <4>3
    <3>2. PICK c \in word(d) : ~(lexical[Passage(e)] < lexical[c])
      BY <2>4, <3>1
    <3>3. c \in DOMAIN Retrieved /\ c # Passage(e)
      BY <1>3, <2>2, <3>1, <3>2
    <3>4. lexical[c] < lexical[Passage(e)]
      BY <1>2, <1>3, <3>1, <3>2, <3>3
    <3>5. d \in DOMAIN Content
      BY <1>6, <3>2
    <3>6. /\ Content[d] = Retrieved[Passage(d)] /\ Passage(d) \in DOMAIN Retrieved
          /\ Retrieved[Passage(d)] <= Retrieved[c]
      BY <1>5, <3>2, <3>5, ContentRanked, PassageIsBest DEF KeptOf, Kept
    <3>7. lexical[Passage(d)] \in Nat /\ lexical[Passage(e)] \in Nat /\ lexical[c] \in Nat
      BY <1>2, <1>3, <3>1, <3>3, <3>6
    <3> QED  BY <1>4, <3>1, <3>3, <3>4, <3>5, <3>6, <3>7
  <2> QED
    BY <1>8, <2>1, <2>2, <2>5, <2>6, BetterInBothScoresMore
<1>10. IsFiniteSet(rivals) /\ IsFiniteSet(ahead)
  BY DocsFinite, DocumentsFinite, FS_Subset
<1>11. Cardinality(ahead) >= Limit
  <2>1. ~(Place(names, Content, d) <= Limit)
    BY <1>1, <1>7, ResultsType
  <2>2. Place(names, Content, d) = 1 + Cardinality(ahead)
    BY DEF Place
  <2> HIDE DEF ahead
  <2>3. Cardinality(ahead) \in Nat /\ Limit \in Nat
    BY <1>10, FS_CardinalityType, SearchAssumption
  <2> QED  BY <2>1, <2>2, <2>3
<1>12. ahead \in SUBSET rivals  BY <1>9
<1> HIDE DEF ahead, rivals
<1>13. Cardinality(ahead) <= Cardinality(rivals)
  BY <1>10, <1>12, FS_Subset
<1>14. Cardinality(ahead) \in Nat /\ Cardinality(rivals) \in Nat /\ Limit \in Nat
  BY <1>10, FS_CardinalityType, SearchAssumption
<1> QED  BY <1>11, <1>13, <1>14 DEF rivals

-----------------------------------------------------------------------------
(* The steps *)

LEMMA InitInv == Init => IInv
<1> SUFFICES ASSUME Init PROVE IInv
  OBVIOUS
<1>1. TypeOK
  <2>1. IsRanking(names, Docs, Limit * Multiplier) /\ IsRanking(lexical, Chunks, Candidates)
        /\ IsRanking(dense, Chunks, Candidates)
    BY NothingRanks, NumbersOfCandidates DEF Init
  <2>2. DOMAIN answer = {} /\ DOMAIN dense = {}  BY DEF Init, Nothing
  <2>3. created \in 0..MaxDocs  BY SearchAssumption DEF Init
  <2>4. strong \in 0..Cardinality(DOMAIN dense)  BY <2>2, FS_EmptySet DEF Init
  <2> QED  BY <2>1, <2>2, <2>3, <2>4 DEF Init, TypeOK, Stage
<1>2. IdleInv /\ ScopeInv /\ AnswerInv /\ OwnDocumentsOnly
  BY DEF Init, IdleInv, ScopeInv, AnswerInv, OwnDocumentsOnly, Searched, Nothing
<1> QED  BY <1>1, <1>2 DEF IInv

\* What is shown depends on the lists alone.
LEMMA ResultsSame ==
    ASSUME UNCHANGED <<task, owned, names, lexical, dense, strong>>
    PROVE  Results' = Results
<1>1. Top' = Top  BY DEF Top
<1>2. Retrieved' = Retrieved  BY <1>1 DEF Retrieved
<1>3. Kept' = Kept  BY <1>2 DEF Kept
<1>4. \A d : KeptOf(d)' = KeptOf(d)  BY <1>3 DEF KeptOf
<1>5. \A d : Passage(d)' = Passage(d)  BY <1>2, <1>4, Zenon DEF Passage
<1>6. Content' = Content  BY <1>2, <1>3, <1>5, Zenon DEF Content
<1> QED  BY <1>4, <1>5, <1>6, Zenon DEF Results

\* Whatever happens to the documents, a request keeps what it has.
LEMMA ElsewhereInv ==
    ASSUME IInv, Elsewhere, created' \in 0..MaxDocs, live' \subseteq 1..created',
           ready' \subseteq live'
    PROVE  IInv'
<1> USE DEF IInv, Elsewhere, hits
<1>1. TypeOK'  BY DEF TypeOK, Top, Candidates
<1>2. Results' = Results  BY ResultsSame
<1>3. IdleInv' /\ ScopeInv' /\ OwnDocumentsOnly'
  BY DEF IdleInv, ScopeInv, OwnDocumentsOnly
<1>4. AnswerInv'  BY <1>2 DEF AnswerInv, Searched
<1> QED  BY <1>1, <1>3, <1>4

\* A step of the request that leaves its lists as they are and answers nothing yet.
LEMMA GotoInv ==
    ASSUME IInv, stage # "idle", stage' \in Stage \ {"idle", "answered"},
           aborted' \in BOOLEAN, UNCHANGED <<library, task, owned, scope, hits, answer, passages>>
    PROVE  IInv'
<1> USE DEF IInv, hits, library
<1>1. TypeOK'  BY DEF TypeOK, Top, Candidates
<1>2. IdleInv' /\ ScopeInv' /\ OwnDocumentsOnly' /\ AnswerInv'
  BY DEF IdleInv, ScopeInv, OwnDocumentsOnly, AnswerInv, Searched
<1> QED  BY <1>1, <1>2

LEMMA ListInv == IInv /\ List => IInv'
<1> SUFFICES ASSUME IInv, List PROVE IInv'
  OBVIOUS
<1> USE DEF IInv, List, Goto, library, hits
<1>1. names = Nothing /\ lexical = Nothing /\ dense = Nothing /\ strong = 0
      /\ answer = Nothing /\ passages = {}
  BY DEF IdleInv
<1>2. Listed \subseteq Docs /\ \A d \in Listed : Owner[d] = Searcher
  <2>1. \A d \in Listed : d \in live /\ Owner[d] = Searcher  BY DEF Listed
  <2>2. live \subseteq Docs  BY SearchAssumption DEF TypeOK, Docs
  <2> QED  BY <2>1, <2>2
<1>3. Candidates' \in Nat
  <2>1. Limit \in Nat /\ Multiplier \in Nat  BY SearchAssumption
  <2>2. Limit * Multiplier \in Nat  BY <2>1
  <2>3. (Limit * Multiplier) * Multiplier \in Nat  BY <2>1, <2>2
  <2>4. Candidates' = (Limit * Multiplier) * Multiplier  BY DEF Candidates, Top
  <2> QED  BY <2>3, <2>4
<1>4. IsRanking(lexical', Chunks, Candidates') /\ IsRanking(dense', Chunks, Candidates')
  BY <1>1, <1>3, NothingRanks
<1>5. DOMAIN Nothing = {}  BY DEF Nothing
<1>6. TypeOK'
  BY <1>1, <1>2, <1>4, <1>5 DEF TypeOK, Stage
<1>7. IdleInv' /\ ScopeInv' /\ OwnDocumentsOnly' /\ AnswerInv'
  BY <1>1, <1>2, <1>5 DEF IdleInv, ScopeInv, OwnDocumentsOnly, AnswerInv, Searched
<1> QED  BY <1>6, <1>7

LEMMA AskInv == ASSUME NEW d \in Docs, IInv, Ask(d) PROVE IInv'
<1> USE DEF IInv, Ask, Goto, library, hits
<1>1. names = Nothing /\ lexical = Nothing /\ dense = Nothing /\ strong = 0
      /\ answer = Nothing /\ passages = {}
  BY DEF IdleInv
<1>2. Candidates' \in Nat
  <2>1. TopK \in Nat /\ Multiplier \in Nat  BY SearchAssumption
  <2>2. Top' = TopK  BY DEF Top
  <2> QED  BY <2>1, <2>2 DEF Candidates
<1>3. IsRanking(lexical', Chunks, Candidates') /\ IsRanking(dense', Chunks, Candidates')
  BY <1>1, <1>2, NothingRanks
<1>4. DOMAIN Nothing = {}  BY DEF Nothing
<1>5. TypeOK'
  BY <1>1, <1>3, <1>4 DEF TypeOK, Stage
<1>6. IdleInv' /\ ScopeInv' /\ OwnDocumentsOnly' /\ AnswerInv'
  BY <1>1, <1>4 DEF IdleInv, ScopeInv, OwnDocumentsOnly, AnswerInv, Searched
<1> QED  BY <1>5, <1>6

LEMMA SearchFilenamesInv == IInv /\ SearchFilenames => IInv'
<1> SUFFICES ASSUME IInv, SearchFilenames PROVE IInv'
  OBVIOUS
<1> USE DEF IInv, SearchFilenames, Goto, library
<1>1. IsRanking(names', Docs, Limit * Multiplier)
  <2>1. live \subseteq Docs  BY SearchAssumption DEF TypeOK, Docs
  <2> QED  BY <2>1, RankingsRank, RankingOfMore
<1>2. TypeOK'  BY <1>1 DEF TypeOK, Stage, Top, Candidates
<1>3. IdleInv' /\ ScopeInv' /\ OwnDocumentsOnly' /\ AnswerInv'
  BY DEF IdleInv, ScopeInv, OwnDocumentsOnly, AnswerInv, Searched
<1> QED  BY <1>2, <1>3

LEMMA VisibleChunks == Visible \subseteq Chunks /\ \A c \in Visible : c[1] \in scope
BY DEF Visible

LEMMA SearchLexicalInv == IInv /\ SearchLexical => IInv'
<1> SUFFICES ASSUME IInv, SearchLexical PROVE IInv'
  OBVIOUS
<1> USE DEF IInv, SearchLexical, Goto, library
<1>1. IsRanking(lexical', Visible, Candidates)  BY RankingsRank
<1>2. IsRanking(lexical', Chunks, Candidates)  BY <1>1, VisibleChunks, RankingOfMore
<1>3. \A c \in DOMAIN lexical' : c[1] \in scope  BY <1>1, VisibleChunks DEF IsRanking
<1>4. TypeOK'  BY <1>2 DEF TypeOK, Stage, Top, Candidates
<1>5. IdleInv' /\ ScopeInv' /\ OwnDocumentsOnly' /\ AnswerInv'
  BY <1>3 DEF IdleInv, ScopeInv, OwnDocumentsOnly, AnswerInv, Searched
<1> QED  BY <1>4, <1>5

LEMMA SearchDenseInv == IInv /\ SearchDense => IInv'
<1> SUFFICES ASSUME IInv, SearchDense PROVE IInv'
  OBVIOUS
<1> USE DEF IInv, SearchDense, Goto, library
<1>1. IsRanking(dense', Visible, Candidates)  BY RankingsRank
<1>2. IsRanking(dense', Chunks, Candidates)  BY <1>1, VisibleChunks, RankingOfMore
<1>3. \A c \in DOMAIN dense' : c[1] \in scope  BY <1>1, VisibleChunks DEF IsRanking
<1>4. TypeOK'  BY <1>2 DEF TypeOK, Stage, Top, Candidates
<1>5. IdleInv' /\ ScopeInv' /\ OwnDocumentsOnly' /\ AnswerInv'
  BY <1>3 DEF IdleInv, ScopeInv, OwnDocumentsOnly, AnswerInv, Searched
<1> QED  BY <1>4, <1>5

LEMMA AnswerSearchInv == IInv /\ AnswerSearch => IInv'
<1> SUFFICES ASSUME IInv, AnswerSearch PROVE IInv'
  OBVIOUS
<1> USE DEF IInv, AnswerSearch, Goto, library, hits
<1>1. TypeOK'
  <2>1. /\ DOMAIN answer' \subseteq owned'
        /\ \A d \in DOMAIN answer' :
              answer'[d] \in [place : 1..Limit, excerpt : Chunks \cup {None}]
    BY ResultsType
  <2> QED  BY <2>1 DEF TypeOK, Stage, Top, Candidates
<1>2. OwnDocumentsOnly'
  BY ResultsType DEF OwnDocumentsOnly, ScopeInv
<1>3. Results' = Results  BY ResultsSame
<1>4. IdleInv' /\ ScopeInv' /\ AnswerInv'
  BY <1>3 DEF IdleInv, ScopeInv, AnswerInv
<1> QED  BY <1>1, <1>2, <1>4

LEMMA AnswerQuestionInv == IInv /\ AnswerQuestion => IInv'
<1> SUFFICES ASSUME IInv, AnswerQuestion PROVE IInv'
  OBVIOUS
<1> USE DEF IInv, AnswerQuestion, Goto, library, hits
<1>1. /\ DOMAIN Retrieved \subseteq Chunks
      /\ \A c \in DOMAIN Retrieved : c[1] \in scope
  BY RetrievedType, HitsRanked DEF ScopeInv, Entered
<1>2. TypeOK'  BY <1>1 DEF TypeOK, Stage, Top, Candidates
<1>3. OwnDocumentsOnly'  BY <1>1 DEF OwnDocumentsOnly
<1>4. IdleInv' /\ ScopeInv' /\ AnswerInv'
  BY DEF IdleInv, ScopeInv, AnswerInv, Searched
<1> QED  BY <1>2, <1>3, <1>4

LEMMA DoneInv == IInv /\ Done => IInv'
<1> SUFFICES ASSUME IInv, Done PROVE IInv'
  OBVIOUS
<1> USE DEF IInv, Done, library
<1>1. DOMAIN Nothing = {}  BY DEF Nothing
<1>2. Candidates' \in Nat /\ Limit * Multiplier \in Nat
  <2>1. TopK \in Nat /\ Multiplier \in Nat /\ Limit \in Nat  BY SearchAssumption
  <2>2. Top' = TopK  BY DEF Top
  <2> QED  BY <2>1, <2>2 DEF Candidates
<1>3. /\ IsRanking(names', Docs, Limit * Multiplier)
      /\ IsRanking(lexical', Chunks, Candidates')
      /\ IsRanking(dense', Chunks, Candidates')
  BY <1>2, NothingRanks
<1>4. TypeOK'
  <2>1. strong' \in 0..Cardinality(DOMAIN dense')
    <3>1. Cardinality(DOMAIN dense') = 0  BY <1>1, FS_EmptySet
    <3> QED  BY <3>1
  <2>2. created' \in 0..MaxDocs /\ live' \subseteq 1..created' /\ ready' \subseteq live'
    BY DEF TypeOK
  <2> QED  BY <1>1, <1>3, <2>1, <2>2 DEF TypeOK, Stage
<1>5. IdleInv' /\ ScopeInv' /\ OwnDocumentsOnly' /\ AnswerInv'
  BY <1>1 DEF IdleInv, ScopeInv, OwnDocumentsOnly, AnswerInv, Searched
<1> QED  BY <1>4, <1>5

LEMMA NextInv == IInv /\ [Next]_vars => IInv'
<1> SUFFICES ASSUME IInv, [Next]_vars PROVE IInv'
  OBVIOUS
<1> USE DEF IInv
<1>1. CASE Upload
  <2>1. created' \in 0..MaxDocs /\ live' \subseteq 1..created' /\ ready' \subseteq live'
    BY <1>1, SearchAssumption DEF Upload, TypeOK
  <2> QED  BY <1>1, <2>1, ElsewhereInv DEF Upload
<1>2. ASSUME NEW d \in Docs, Process(d) PROVE IInv'
  <2>1. created' \in 0..MaxDocs /\ live' \subseteq 1..created' /\ ready' \subseteq live'
    BY <1>2 DEF Process, TypeOK
  <2> QED  BY <1>2, <2>1, ElsewhereInv DEF Process
<1>3. ASSUME NEW d \in Docs, Delete(d) PROVE IInv'
  <2>1. created' \in 0..MaxDocs /\ live' \subseteq 1..created' /\ ready' \subseteq live'
    BY <1>3 DEF Delete, TypeOK
  <2> QED  BY <1>3, <2>1, ElsewhereInv DEF Delete
<1>4. ASSUME NEW d \in Docs, Ask(d) PROVE IInv'
  BY <1>4, AskInv
<1>5. CASE List  BY <1>5, ListInv
<1>6. CASE SearchFilenames  BY <1>6, SearchFilenamesInv
<1>7. CASE ListingFails
  BY <1>7, GotoInv DEF ListingFails, Goto, Stage
<1>8. CASE SearchLexical  BY <1>8, SearchLexicalInv
<1>9. CASE LexicalFails
  BY <1>9, GotoInv DEF LexicalFails, Goto, Stage
<1>10. CASE Embed
  <2>1. aborted' \in BOOLEAN  BY <1>10 DEF Embed, TypeOK
  <2> QED  BY <1>10, <2>1, GotoInv DEF Embed, Goto, Stage
<1>11. CASE SearchDense  BY <1>11, SearchDenseInv
<1>12. CASE DenseFails
  BY <1>12, GotoInv DEF DenseFails, Goto, Stage
<1>13. CASE AnswerSearch  BY <1>13, AnswerSearchInv
<1>14. CASE AnswerQuestion  BY <1>14, AnswerQuestionInv
<1>15. CASE Done  BY <1>15, DoneInv
<1>16. CASE UNCHANGED vars
  <2>1. Elsewhere  BY <1>16 DEF vars, Elsewhere, hits
  <2>2. created' \in 0..MaxDocs /\ live' \subseteq 1..created' /\ ready' \subseteq live'
    BY <1>16 DEF vars, TypeOK
  <2> QED  BY <2>1, <2>2, ElsewhereInv
<1> QED
  BY <1>1, <1>2, <1>3, <1>4, <1>5, <1>6, <1>7, <1>8, <1>9, <1>10, <1>11, <1>12,
     <1>13, <1>14, <1>15, <1>16 DEF Next

LEMMA Inductive == Spec => []IInv
BY InitInv, NextInv, PTL DEF Spec

-----------------------------------------------------------------------------
(* The theorems *)

\* Every variable keeps its type, whatever the database answers.
THEOREM TypeCorrect == Spec => []TypeOK
BY Inductive, PTL DEF IInv

\* Nobody is shown, and no model is given, what the request is not about.
THEOREM OwnDocuments == Spec => []OwnDocumentsOnly
BY Inductive, PTL DEF IInv

\* What is listed is listed for a reason.
THEOREM ResultsWarranted == Spec => []Warranted
<1>1. IInv => Warranted  BY WarrantedHolds DEF IInv
<1> QED  BY Inductive, <1>1, PTL

\* What is better in every ranking that has the other comes first, for any
\* damping, any limits and any number of documents.
THEOREM BetterFirst == Spec => []ClearlyBetterFirst
<1>1. IInv => ClearlyBetterFirst  BY BetterHolds DEF IInv
<1> QED  BY Inductive, <1>1, PTL

\* Agreement of the two retrievers outranks one retriever's favourite, for every
\* RRF_K and every number of candidates up to RRF_K + 1.
THEOREM AgreementFirst == Spec => []AgreementOutranks
<1>1. IInv => AgreementOutranks  BY AgreementHolds DEF IInv
<1> QED  BY Inductive, <1>1, PTL

\* With the embeddings out, what the words or the name found is missing only
\* when as many as were asked for beat it, whatever the rankings.
THEOREM WordsSuffice == Spec => []KeywordsSurvive
<1>1. IInv => KeywordsSurvive  BY KeywordsHold DEF IInv
<1> QED  BY Inductive, <1>1, PTL
=============================================================================
