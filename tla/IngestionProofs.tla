-------------------------- MODULE IngestionProofs --------------------------
(***************************************************************************)
(* What the pipeline makes of a text, for any text, any limits and any notes: *)
(* chunking loses nothing and keeps its budget, every chunk is stored with    *)
(* its own vector, and a summary is made of the whole document.               *)
(***************************************************************************)
EXTENDS Ingestion, SequenceTheorems, NaturalsInduction, WellFoundedInduction, TLAPS

-----------------------------------------------------------------------------
(* Counting *)

Positive == Nat \ {0}

\* Any set of natural numbers that is not empty has a least one.
LEMMA LeastExists ==
    ASSUME NEW T \in SUBSET Nat, T # {}
    PROVE  \E i \in T : \A j \in T : i <= j
<1> DEFINE R == {ss \in Nat \X Nat : ss[1] < ss[2]}
<1>1. IsWellFoundedOn(R, Nat)  BY NatLessThanWellFounded, Zenon DEF OpToRel
<1>2. \E x \in T : \A y \in T : ~(<<y, x>> \in R)  BY <1>1, WFMin
<1>3. PICK i \in T : \A j \in T : ~(<<j, i>> \in R)  BY <1>2
<1>4. ASSUME NEW j \in T PROVE i <= j
  <2>1. ~(<<j, i>> \in R)  BY <1>3
  <2>2. j \in Nat /\ i \in Nat  OBVIOUS
  <2>3. ~(j < i)  BY <2>1, <2>2
  <2> QED  BY <2>2, <2>3
<1> QED  BY <1>4

\* A loop of n turns that keeps to T as long as it has begins and ends in T.
LEMMA EveryTurn ==
    ASSUME NEW n \in Nat, NEW T, 0 \in T,
           \A i \in 1..n : i - 1 \in T => i \in T
    PROVE  \A i \in 0..n : i \in T
<1> SUFFICES ASSUME NEW k \in 0..n, k \notin T PROVE FALSE  OBVIOUS
<1> DEFINE Out == {i \in 0..n : i \notin T}
<1>1. Out \in SUBSET Nat /\ Out # {}  OBVIOUS
<1>2. PICK i \in Out : \A j \in Out : i <= j  BY <1>1, LeastExists
<1>3. i # 0 /\ i \in 1..n  OBVIOUS
<1>4. i - 1 \in 0..n /\ ~(i <= i - 1)  BY <1>3
<1>5. i - 1 \notin Out  BY <1>2, <1>4
<1>6. i - 1 \in T  BY <1>4, <1>5
<1> QED  BY <1>3, <1>6

\* The values of a loop of n turns that computes each from the one before.
Loops(S, base, n, step) == {f \in [0..n -> S] :
    /\ f[0] = base
    /\ \A i \in 1..n : f[i] = step[<<f[i - 1], i>>]}

LEMMA LoopExists ==
    ASSUME NEW S, NEW base \in S, NEW n \in Nat,
           NEW step \in [S \X (1..n) -> S]
    PROVE  Loops(S, base, n, step) # {}
<1> DEFINE Loop(k) == Loops(S, base, k, step)
<1> DEFINE T == {k \in 0..n : Loop(k) # {}}
<1>1. 0 \in T
  <2> DEFINE f == [i \in 0..0 |-> base]
  <2>1. f \in Loop(0)  BY DEF Loops
  <2> QED  BY <2>1
<1>2. ASSUME NEW k \in 1..n, k - 1 \in T PROVE k \in T
  <2>1. PICK m \in 0..n : m = k - 1  BY <1>2
  <2>2. PICK f \in Loop(m) : TRUE  BY <1>2, <2>1
  <2> DEFINE g == [i \in 0..k |-> IF i = k THEN step[<<f[m], k>>] ELSE f[i]]
  <2>3. f \in [0..m -> S] /\ f[0] = base /\ \A i \in 1..m : f[i] = step[<<f[i - 1], i>>]
    BY <2>2 DEF Loops
  <2>4. k = m + 1 /\ m \in Nat  BY <2>1
  <2>5. f[m] \in S  BY <2>3, <2>4
  <2>6. step[<<f[m], k>>] \in S  BY <2>5
  <2>7. g \in [0..k -> S]
    <3>1. ASSUME NEW i \in 0..k PROVE g[i] \in S
      <4>1. i # k => i \in 0..m  BY <2>4
      <4> QED  BY <4>1, <2>6, <2>3
    <3> QED  BY <3>1
  <2>8. g[0] = base  BY <2>3, <2>4
  <2>9. ASSUME NEW i \in 1..k PROVE g[i] = step[<<g[i - 1], i>>]
    <3>1. i - 1 \in 0..k /\ i - 1 # k  BY <2>4
    <3>2. g[i - 1] = f[i - 1]  BY <3>1
    <3>3. CASE i = k
      <4>1. i - 1 = m  BY <3>3, <2>4
      <4>2. g[i] = step[<<f[m], k>>]  BY <3>3
      <4>3. g[i - 1] = f[m]  BY <3>2, <4>1
      <4> HIDE DEF g
      <4> QED  BY <3>3, <4>2, <4>3
    <3>4. CASE i # k
      <4>1. i \in 1..m  BY <3>4, <2>4
      <4>2. g[i] = f[i]  BY <3>4
      <4> QED  BY <2>3, <3>2, <4>1, <4>2
    <3> QED  BY <3>3, <3>4
  <2>10. g \in Loop(k)  BY <2>7, <2>8, <2>9 DEF Loops
  <2> HIDE DEF g, Loop
  <2> QED  BY <2>10
<1>3. \A k \in 1..n : k - 1 \in T => k \in T  BY <1>2
<1> HIDE DEF T
<1>4. \A k \in 0..n : k \in T  BY <1>1, <1>3, EveryTurn
<1>5. n \in T  BY <1>4
<1> QED  BY <1>5 DEF T

\* A function on the first n numbers is a sequence of n.
LEMMA FunctionIsSeq ==
    ASSUME NEW S, NEW n \in Nat, NEW f \in [1..n -> S]
    PROVE  f \in Seq(S) /\ Len(f) = n
BY SeqDef

-----------------------------------------------------------------------------
(* Sums *)

\* The partial sums of a sequence.
Partial(w) == CHOOSE sum : sum =
    [i \in 0..Len(w) |-> IF i = 0 THEN 0 ELSE sum[i - 1] + w[i]]

LEMMA PartialSums ==
    ASSUME NEW w \in Seq(Nat)
    PROVE  /\ Partial(w) \in [0..Len(w) -> Nat]
           /\ Partial(w)[0] = 0
           /\ \A i \in 1..Len(w) : Partial(w)[i] = Partial(w)[i - 1] + w[i]
           /\ Sum(w) = Partial(w)[Len(w)]
<1> DEFINE n == Len(w)
           step == [x \in Nat \X (1..n) |-> x[1] + w[x[2]]]
<1>1. n \in Nat /\ \A i \in 1..n : w[i] \in Nat  OBVIOUS
<1>2. step \in [Nat \X (1..n) -> Nat]  BY <1>1
<1> HIDE DEF n, step
<1>3. PICK f \in [0..n -> Nat] :
         f[0] = 0 /\ \A i \in 1..n : f[i] = step[<<f[i - 1], i>>]
  <2>1. Loops(Nat, 0, n, step) # {}  BY <1>1, <1>2, LoopExists
  <2> QED  BY <2>1 DEF Loops
<1>4. ASSUME NEW i \in 1..n PROVE f[i] = f[i - 1] + w[i]
  <2>1. i - 1 \in 0..n /\ i \in 1..n  BY <1>1
  <2>2. f[i - 1] \in Nat  BY <1>3, <2>1
  <2>3. f[i] = step[<<f[i - 1], i>>]  BY <1>3
  <2> QED  BY <2>1, <2>2, <2>3 DEF step
<1>5. f = [i \in 0..n |-> IF i = 0 THEN 0 ELSE f[i - 1] + w[i]]
  BY <1>1, <1>3, <1>4
<1> DEFINE P == Partial(w)
<1>6. P = [i \in 0..n |-> IF i = 0 THEN 0 ELSE P[i - 1] + w[i]]
  BY <1>5 DEF Partial, n
<1>7. Sum(w) = P[n]  BY DEF Sum, Partial, n
<1> HIDE DEF P
<1>8. P[0] = 0 /\ \A i \in 1..n : P[i] = P[i - 1] + w[i]  BY <1>1, <1>6
<1> DEFINE T == {i \in 0..n : P[i] \in Nat}
<1>9. 0 \in T  BY <1>1, <1>8
<1>10. ASSUME NEW i \in 1..n, i - 1 \in T PROVE i \in T
  <2>1. P[i - 1] \in Nat /\ w[i] \in Nat /\ i \in 0..n  BY <1>1, <1>10
  <2> QED  BY <1>8, <2>1
<1>11. \A i \in 1..n : i - 1 \in T => i \in T  BY <1>10
<1> HIDE DEF T
<1>12. \A i \in 0..n : i \in T  BY <1>1, <1>9, <1>11, EveryTurn
<1>13. P \in [0..n -> Nat]  BY <1>6, <1>12 DEF T
<1> QED  BY <1>7, <1>8, <1>13 DEF n, P

LEMMA SumType ==
    ASSUME NEW w \in Seq(Nat)
    PROVE  Sum(w) \in Nat
BY PartialSums

LEMMA SumOfNothing == Sum(<<>>) = 0
<1>1. <<>> \in Seq(Nat) /\ Len(<<>>) = 0  OBVIOUS
<1> QED  BY <1>1, PartialSums

\* Sums of sequences that agree on their first n elements agree on them.
LEMMA PartialAgree ==
    ASSUME NEW v \in Seq(Nat), NEW w \in Seq(Nat), NEW n \in Nat,
           n <= Len(v), n <= Len(w), \A i \in 1..n : v[i] = w[i]
    PROVE  Partial(v)[n] = Partial(w)[n]
<1> DEFINE T == {i \in 0..n : Partial(v)[i] = Partial(w)[i]}
<1>0. Len(v) \in Nat /\ Len(w) \in Nat  OBVIOUS
<1>1. 0 \in T  BY PartialSums
<1>2. ASSUME NEW i \in 1..n, i - 1 \in T PROVE i \in T
  <2>1. i \in 1..Len(v) /\ i \in 1..Len(w)  BY <1>0
  <2>2. /\ Partial(v)[i] = Partial(v)[i - 1] + v[i]
        /\ Partial(w)[i] = Partial(w)[i - 1] + w[i]
    BY <2>1, PartialSums
  <2> QED  BY <1>2, <2>2
<1>3. \A i \in 1..n : i - 1 \in T => i \in T  BY <1>2
<1> HIDE DEF T
<1>4. \A i \in 0..n : i \in T  BY <1>1, <1>3, EveryTurn
<1> QED  BY <1>4 DEF T

\* The sum of a sequence is that of its elements but the last, and the last.
LEMMA SumOfLonger ==
    ASSUME NEW v \in Seq(Nat), NEW w \in Seq(Nat), Len(w) = Len(v) + 1,
           \A i \in 1..Len(v) : v[i] = w[i]
    PROVE  Sum(w) = Sum(v) + w[Len(w)]
<1> DEFINE n == Len(v)
<1>1. n \in Nat /\ Len(w) \in 1..Len(w) /\ Len(w) - 1 = n  OBVIOUS
<1>2. Partial(v)[n] = Partial(w)[n]
  <2>1. n <= Len(v) /\ n <= Len(w)  BY <1>1
  <2> HIDE DEF n
  <2> QED  BY <1>1, <2>1, PartialAgree DEF n
<1>3. Partial(w)[Len(w)] = Partial(w)[Len(w) - 1] + w[Len(w)]  BY <1>1, PartialSums
<1>4. Sum(w) = Partial(w)[Len(w)] /\ Sum(v) = Partial(v)[n]  BY PartialSums
<1> QED  BY <1>1, <1>2, <1>3, <1>4

-----------------------------------------------------------------------------
(* Blocks *)

\* Every text weighs something.
LEMMA EstimateType ==
    ASSUME NEW length \in Nat
    PROVE  estimate_tokens(length) \in Positive
<1>1. CharsPerToken \in Positive  BY IngestionAssumption DEF Positive
<1>2. CASE length < CharsPerToken  BY <1>2 DEF estimate_tokens, Positive
<1>3. CASE ~(length < CharsPerToken)
  <2>1. length \div CharsPerToken \in Nat  BY <1>1 DEF Positive
  <2>2. length \div CharsPerToken # 0  BY <1>1, <1>3 DEF Positive
  <2> QED  BY <1>3, <2>1, <2>2 DEF estimate_tokens, Positive
<1> QED  BY <1>2, <1>3

Buffers == [parts : Seq(Nat), buffer : Nat]

\* The buffers of _split_oversized after each sentence.
Sentence(so, sentence) ==
    LET candidate == Joined(so.buffer, sentence)
    IN IF estimate_tokens(candidate) > Target /\ so.buffer > 0
       THEN [parts |-> Append(so.parts, so.buffer), buffer |-> sentence]
       ELSE [parts |-> so.parts, buffer |-> candidate]

Cuts(paragraph) == CHOOSE cut : cut =
    [i \in 0..Len(paragraph) |->
        IF i = 0 THEN [parts |-> <<>>, buffer |-> 0]
        ELSE Sentence(cut[i - 1], paragraph[i])]

LEMMA SentenceType ==
    ASSUME NEW so \in Buffers, NEW sentence \in Nat
    PROVE  Sentence(so, sentence) \in Buffers
<1>1. so.parts \in Seq(Nat) /\ so.buffer \in Nat  BY DEF Buffers
<1>2. Joined(so.buffer, sentence) \in Nat  BY <1>1 DEF Joined
<1>3. Append(so.parts, so.buffer) \in Seq(Nat)  BY <1>1
<1> QED  BY <1>1, <1>2, <1>3 DEF Sentence, Buffers

LEMMA CutsType ==
    ASSUME NEW paragraph \in Seq(Nat)
    PROVE  Cuts(paragraph)[Len(paragraph)] \in Buffers
<1> DEFINE n == Len(paragraph)
           base == [parts |-> <<>>, buffer |-> 0]
           step == [x \in Buffers \X (1..n) |-> Sentence(x[1], paragraph[x[2]])]
<1>1. n \in Nat /\ \A i \in 1..n : paragraph[i] \in Nat  OBVIOUS
<1>2. base \in Buffers  BY DEF Buffers
<1>3. step \in [Buffers \X (1..n) -> Buffers]  BY <1>1, SentenceType
<1> HIDE DEF n, base, step
<1>4. PICK f \in [0..n -> Buffers] :
         f[0] = base /\ \A i \in 1..n : f[i] = step[<<f[i - 1], i>>]
  <2>1. Loops(Buffers, base, n, step) # {}  BY <1>1, <1>2, <1>3, LoopExists
  <2> QED  BY <2>1 DEF Loops
<1>5. ASSUME NEW i \in 1..n PROVE f[i] = Sentence(f[i - 1], paragraph[i])
  <2>1. i - 1 \in 0..n  BY <1>1
  <2>2. f[i - 1] \in Buffers  BY <1>4, <2>1
  <2>3. f[i] = step[<<f[i - 1], i>>]  BY <1>4
  <2> QED  BY <2>2, <2>3 DEF step
<1>6. f = [i \in 0..n |-> IF i = 0 THEN base ELSE Sentence(f[i - 1], paragraph[i])]
  BY <1>1, <1>4, <1>5
<1> DEFINE C == Cuts(paragraph)
<1>7. C = [i \in 0..n |-> IF i = 0 THEN base ELSE Sentence(C[i - 1], paragraph[i])]
  BY <1>6 DEF Cuts, n, base
<1> HIDE DEF C
<1> DEFINE T == {i \in 0..n : C[i] \in Buffers}
<1>8. 0 \in T  BY <1>1, <1>2, <1>7
<1>9. ASSUME NEW i \in 1..n, i - 1 \in T PROVE i \in T
  <2>1. C[i - 1] \in Buffers /\ paragraph[i] \in Nat /\ i \in 0..n /\ i # 0
    BY <1>1, <1>9
  <2>2. C[i] = Sentence(C[i - 1], paragraph[i])  BY <1>7, <2>1
  <2> QED  BY <2>1, <2>2, SentenceType
<1>10. \A i \in 1..n : i - 1 \in T => i \in T  BY <1>9
<1> HIDE DEF T
<1>11. \A i \in 0..n : i \in T  BY <1>1, <1>8, <1>10, EveryTurn
<1> QED  BY <1>1, <1>11 DEF T, n, C

LEMMA SplitType ==
    ASSUME NEW paragraph \in Seq(Nat)
    PROVE  SplitOversized(paragraph) \in Seq(Nat)
<1> DEFINE all == Cuts(paragraph)[Len(paragraph)]
<1>1. all.parts \in Seq(Nat) /\ all.buffer \in Nat  BY CutsType DEF Buffers
<1>2. Length(paragraph) \in Nat
  <2>1. paragraph # <<>> => Len(paragraph) - 1 \in Nat  OBVIOUS
  <2> QED  BY <2>1, SumType DEF Length
<1>3. SplitOversized(paragraph) =
         IF estimate_tokens(Length(paragraph)) <= Target THEN <<Length(paragraph)>>
         ELSE Append(all.parts, all.buffer)
  BY Zenon DEF SplitOversized, Cuts, Sentence
<1> HIDE DEF all
<1> QED  BY <1>1, <1>2, <1>3

\* The lengths of _to_blocks after each paragraph.
Paragraph(lengths, paragraph) == lengths \o SplitOversized(paragraph)

Extended(document) == CHOOSE lengths : lengths =
    [i \in 0..Len(document) |->
        IF i = 0 THEN <<>> ELSE Paragraph(lengths[i - 1], document[i])]

LEMMA ParagraphType ==
    ASSUME NEW lengths \in Seq(Nat), NEW paragraph \in Seq(Nat)
    PROVE  Paragraph(lengths, paragraph) \in Seq(Nat)
BY SplitType DEF Paragraph

LEMMA ExtendedType ==
    ASSUME NEW document \in Seq(Seq(Nat))
    PROVE  Extended(document)[Len(document)] \in Seq(Nat)
<1> DEFINE n == Len(document)
           S == Seq(Nat)
           step == [x \in S \X (1..n) |-> Paragraph(x[1], document[x[2]])]
<1>1. n \in Nat /\ \A i \in 1..n : document[i] \in Seq(Nat)  OBVIOUS
<1>2. <<>> \in S  OBVIOUS
<1>3. step \in [S \X (1..n) -> S]
  <2>1. ASSUME NEW x \in S \X (1..n) PROVE Paragraph(x[1], document[x[2]]) \in S
    BY <1>1, ParagraphType
  <2> QED  BY <2>1
<1> HIDE DEF n, step
<1>4. PICK f \in [0..n -> S] :
         f[0] = <<>> /\ \A i \in 1..n : f[i] = step[<<f[i - 1], i>>]
  <2>1. Loops(S, <<>>, n, step) # {}  BY <1>1, <1>2, <1>3, LoopExists
  <2> QED  BY <2>1 DEF Loops
<1>5. ASSUME NEW i \in 1..n PROVE f[i] = Paragraph(f[i - 1], document[i])
  <2>1. i - 1 \in 0..n  BY <1>1
  <2>2. f[i - 1] \in S  BY <1>4, <2>1
  <2>3. f[i] = step[<<f[i - 1], i>>]  BY <1>4
  <2> QED  BY <2>2, <2>3 DEF step
<1>6. f = [i \in 0..n |-> IF i = 0 THEN <<>> ELSE Paragraph(f[i - 1], document[i])]
  <2> HIDE DEF S
  <2> QED  BY <1>1, <1>4, <1>5
<1> DEFINE C == Extended(document)
<1>7. C = [i \in 0..n |-> IF i = 0 THEN <<>> ELSE Paragraph(C[i - 1], document[i])]
  BY <1>6 DEF Extended, n
<1> HIDE DEF C
<1> DEFINE T == {i \in 0..n : C[i] \in S}
<1>8. 0 \in T  BY <1>1, <1>2, <1>7
<1>9. ASSUME NEW i \in 1..n, i - 1 \in T PROVE i \in T
  <2>1. C[i - 1] \in S /\ document[i] \in Seq(Nat) /\ i \in 0..n /\ i # 0
    BY <1>1, <1>9
  <2>2. C[i] = Paragraph(C[i - 1], document[i])  BY <1>7, <2>1
  <2> QED  BY <2>1, <2>2, ParagraphType
<1>10. \A i \in 1..n : i - 1 \in T => i \in T  BY <1>9
<1> HIDE DEF T
<1>11. \A i \in 0..n : i \in T  BY <1>1, <1>8, <1>10, EveryTurn
<1> QED  BY <1>1, <1>11 DEF T, n, C

\* Every block weighs something.
LEMMA BlocksType ==
    ASSUME NEW document \in Documents
    PROVE  ToBlocks(document) \in Seq(Nat \ {0})
<1> DEFINE all == Extended(document)[Len(document)]
<1>1. document \in Seq(Seq(Nat))
  <2>1. document \in Seq(Seq(Positive))  BY IngestionAssumption DEF Positive
  <2>2. Seq(Positive) \subseteq Seq(Nat)  BY SeqMonotonic DEF Positive
  <2> QED  BY <2>1, <2>2, SeqMonotonic
<1>2. all \in Seq(Nat)  BY <1>1, ExtendedType
<1>3. ToBlocks(document) = [i \in DOMAIN all |-> estimate_tokens(all[i])]
  BY Zenon DEF ToBlocks, Extended, Paragraph
<1> HIDE DEF all
<1>4. Len(all) \in Nat /\ DOMAIN all = 1..Len(all) /\ \A i \in 1..Len(all) : all[i] \in Nat
  BY <1>2
<1>5. ToBlocks(document) \in [1..Len(all) -> Nat \ {0}]
  BY <1>3, <1>4, EstimateType DEF Positive
<1> QED  BY <1>4, <1>5, FunctionIsSeq

-----------------------------------------------------------------------------
(* Chunks *)

Weights(bs, chunk) == [i \in DOMAIN chunk |-> bs[chunk[i]]]

TokensIn(bs, chunk) == Sum(Weights(bs, chunk))

LEMMA WeightsType ==
    ASSUME NEW bs \in Seq(Positive), NEW chunk \in Seq(1..Len(bs))
    PROVE  /\ Weights(bs, chunk) \in Seq(Nat) /\ Len(Weights(bs, chunk)) = Len(chunk)
           /\ \A i \in 1..Len(chunk) : Weights(bs, chunk)[i] = bs[chunk[i]]
           /\ TokensIn(bs, chunk) \in Nat
<1> DEFINE w == Weights(bs, chunk)
<1>1. Len(chunk) \in Nat /\ DOMAIN chunk = 1..Len(chunk)  OBVIOUS
<1>2. \A i \in 1..Len(chunk) : bs[chunk[i]] \in Nat  BY DEF Positive
<1>3. w \in [1..Len(chunk) -> Nat]  BY <1>1, <1>2 DEF Weights
<1>4. \A i \in 1..Len(chunk) : w[i] = bs[chunk[i]]  BY <1>1 DEF Weights
<1> HIDE DEF w
<1>5. w \in Seq(Nat) /\ Len(w) = Len(chunk)  BY <1>1, <1>3, FunctionIsSeq
<1>6. Sum(w) \in Nat  BY <1>5, SumType
<1> QED  BY <1>4, <1>5, <1>6 DEF w, TokensIn

LEMMA TokensOfNothing ==
    ASSUME NEW bs \in Seq(Positive)
    PROVE  TokensIn(bs, <<>>) = 0
<1>1. Weights(bs, <<>>) = <<>>  BY DEF Weights
<1> QED  BY <1>1, SumOfNothing DEF TokensIn

\* A chunk with another block weighs that block more.
LEMMA TokensOfLonger ==
    ASSUME NEW bs \in Seq(Positive), NEW chunk \in Seq(1..Len(bs)), NEW b \in 1..Len(bs)
    PROVE  /\ Append(chunk, b) \in Seq(1..Len(bs))
           /\ TokensIn(bs, Append(chunk, b)) = TokensIn(bs, chunk) + bs[b]
<1> DEFINE longer == Append(chunk, b)
           v == Weights(bs, chunk)
           w == Weights(bs, longer)
<1>1. /\ longer \in Seq(1..Len(bs)) /\ Len(longer) = Len(chunk) + 1
      /\ \A i \in 1..Len(chunk) : longer[i] = chunk[i]
      /\ longer[Len(chunk) + 1] = b
  BY AppendProperties
<1> HIDE DEF longer
<1>2. /\ v \in Seq(Nat) /\ Len(v) = Len(chunk)
      /\ \A i \in 1..Len(chunk) : v[i] = bs[chunk[i]]
  BY WeightsType
<1>3. /\ w \in Seq(Nat) /\ Len(w) = Len(longer)
      /\ \A i \in 1..Len(longer) : w[i] = bs[longer[i]]
  BY <1>1, WeightsType
<1>4. Len(chunk) \in Nat /\ Len(longer) \in 1..Len(longer)  BY <1>1
<1> HIDE DEF v, w
<1>5. \A i \in 1..Len(v) : v[i] = w[i]  BY <1>1, <1>2, <1>3, <1>4
<1>6. Sum(w) = Sum(v) + w[Len(w)]  BY <1>1, <1>2, <1>3, <1>5, SumOfLonger
<1>7. w[Len(w)] = bs[b]  BY <1>1, <1>3, <1>4
<1> QED  BY <1>1, <1>6, <1>7 DEF TokensIn, v, w, longer

\* What is carried over is nothing or the end of the chunk, within the overlap.
LEMMA CarryIsTail ==
    ASSUME blocks \in Seq(Positive), NEW chunk \in Seq(1..Len(blocks))
    PROVE  /\ \/ Carry(chunk) = <<>>
              \/ \E s \in 1..Len(chunk) : Carry(chunk) = SubSeq(chunk, s, Len(chunk))
           /\ TokensIn(blocks, Carry(chunk)) <= Overlap
<1> DEFINE TailOf(s) == SubSeq(chunk, s, Len(chunk))
           fits == {s \in 1..Len(chunk) : Tokens(TailOf(s)) <= Overlap}
           least == CHOOSE s \in fits : \A o \in fits : s <= o
<1>1. Carry(chunk) = IF fits = {} THEN <<>> ELSE TailOf(least)  BY DEF Carry
<1>2. CASE fits = {}
  <2>1. Overlap \in Nat  BY IngestionAssumption
  <2> QED  BY <1>1, <1>2, <2>1, TokensOfNothing
<1>3. CASE fits # {}
  <2>1. fits \in SUBSET Nat  OBVIOUS
  <2> HIDE DEF fits
  <2>2. \E s \in fits : \A o \in fits : s <= o  BY <1>3, <2>1, LeastExists
  <2>3. least \in fits  BY <2>2
  <2> HIDE DEF least
  <2>4. least \in 1..Len(chunk) /\ Tokens(TailOf(least)) <= Overlap  BY <2>3 DEF fits
  <2>5. Carry(chunk) = TailOf(least)  BY <1>1, <1>3
  <2>6. TokensIn(blocks, Carry(chunk)) <= Overlap
    BY <2>4, <2>5, Zenon DEF Tokens, TokensIn, Weights
  <2> QED  BY <2>4, <2>5, <2>6
<1> QED  BY <1>2, <1>3

-----------------------------------------------------------------------------
(* The inductive invariant *)

\* The last block of the first i chunks.
EndOf(cs, i) == IF i = 0 THEN 0 ELSE cs[i][Len(cs[i])]

\* A chunk goes on where the one before ended, within its budget.
GoesOn(bs, chunk, end) ==
    /\ chunk \in Seq(1..Len(bs)) /\ chunk # <<>>
    /\ Consecutive(chunk)
    /\ chunk[1] \in 1..(end + 1)
    /\ chunk[Len(chunk)] > end
    /\ \/ TokensIn(bs, chunk) <= Target
       \/ chunk[Len(chunk)] = end + 1 /\ TokensIn(bs, chunk) <= Overlap + bs[end + 1]

ChunksInv == \A i \in 1..Len(chunks) : GoesOn(blocks, chunks[i], EndOf(chunks, i - 1))

\* The chunk being packed goes on too, and holds all blocks so far.
CurrentInv == phase = "packing" =>
    \/ current = <<>> /\ chunks = <<>> /\ next = 1
    \/ /\ GoesOn(blocks, current, EndOf(chunks, Len(chunks)))
       /\ current[Len(current)] = next - 1

PackedInv == Packed => chunks # <<>> /\ EndOf(chunks, Len(chunks)) = Len(blocks)

\* The first n of anything.
Counted(n) == [i \in 1..n |-> i]

\* Vectors and chunks read are those of the first chunks, in their order.
InOrderInv ==
    /\ Len(vectors) <= Len(chunks) /\ vectors = Counted(Len(vectors))
    /\ Len(read) <= Len(chunks) /\ read = Counted(Len(read))

\* Nothing of a later stage is there before it begins.
StagesInv ==
    /\ phase \in {"packing", "NO_EXTRACTABLE_TEXT"} => vectors = <<>>
    /\ phase \in {"packing", "embedding"} =>
          stored = <<>> /\ read = <<>> /\ notes = <<>>
    /\ phase # "ready" => summary = Unwritten

IInv ==
    /\ TypeOK
    /\ ChunksInv /\ CurrentInv /\ PackedInv
    /\ InOrderInv /\ StagesInv
    /\ OwnVectors /\ SummaryOfAll

-----------------------------------------------------------------------------
(* Packing *)

\* A run of blocks with the block after its last is a run of blocks.
LEMMA RunGrows ==
    ASSUME NEW n \in Nat, NEW b \in 1..n, NEW chunk \in Seq(1..n), Consecutive(chunk),
           chunk = <<>> \/ chunk[Len(chunk)] = b - 1
    PROVE  /\ Append(chunk, b) \in Seq(1..n) /\ Append(chunk, b) # <<>>
           /\ Consecutive(Append(chunk, b))
           /\ Append(chunk, b)[1] = IF chunk = <<>> THEN b ELSE chunk[1]
           /\ Append(chunk, b)[Len(Append(chunk, b))] = b
<1> DEFINE longer == Append(chunk, b)
           l == Len(chunk)
<1>1. /\ longer \in Seq(1..n) /\ longer # <<>> /\ Len(longer) = l + 1
      /\ \A i \in 1..l : longer[i] = chunk[i]
      /\ longer[l + 1] = b
  BY AppendProperties
<1>2. /\ l \in Nat
      /\ chunk # <<>> => l >= 1
      /\ chunk = <<>> => l = 0
  OBVIOUS
<1>3. \A i \in 1..l : chunk[i] \in Nat  OBVIOUS
<1>4. \A i \in 1..(l - 1) : chunk[i + 1] = chunk[i] + 1  BY DEF Consecutive
<1> HIDE DEF longer, l
<1>5. l >= 1 => chunk[l] = b - 1  BY <1>2 DEF l
<1>6. ASSUME NEW i \in 1..(Len(longer) - 1) PROVE longer[i + 1] = longer[i] + 1
  <2>1. i \in 1..l /\ longer[i] = chunk[i]  BY <1>1, <1>2
  <2>2. CASE i = l  BY <1>1, <1>2, <1>5, <2>1, <2>2
  <2>3. CASE i # l
    <3>1. i \in 1..(l - 1) /\ i + 1 \in 1..l  BY <1>2, <2>1, <2>3
    <3> QED  BY <1>1, <1>4, <2>1, <3>1
  <2> QED  BY <2>2, <2>3
<1>7. Consecutive(longer)  BY <1>6 DEF Consecutive
<1>8. longer[1] = IF chunk = <<>> THEN b ELSE chunk[1]  BY <1>1, <1>2
<1> QED  BY <1>1, <1>2, <1>7, <1>8 DEF longer

\* The first block is a chunk of its own.
LEMMA FirstBlock ==
    ASSUME NEW bs \in Seq(Positive), Len(bs) >= 1
    PROVE  GoesOn(bs, Append(<<>>, 1), 0)
<1> DEFINE first == Append(<<>>, 1)
<1>1. 1 \in 1..Len(bs) /\ Len(bs) \in Nat /\ <<>> \in Seq(1..Len(bs))  OBVIOUS
<1>2. Consecutive(<<>>)  BY DEF Consecutive
<1>3. /\ first \in Seq(1..Len(bs)) /\ first # <<>> /\ Consecutive(first)
      /\ first[1] = 1 /\ first[Len(first)] = 1
  BY <1>1, <1>2, RunGrows
<1>4. TokensIn(bs, first) = bs[1]
  <2>1. TokensIn(bs, first) = TokensIn(bs, <<>>) + bs[1]  BY <1>1, TokensOfLonger
  <2>2. bs[1] \in Nat  BY <1>1 DEF Positive
  <2> QED  BY <2>1, <2>2, TokensOfNothing
<1>5. Overlap \in Nat /\ bs[1] \in Nat  BY <1>1, IngestionAssumption DEF Positive
<1> HIDE DEF first
<1>6. 0 \in Nat /\ first[1] \in 1..(0 + 1) /\ first[Len(first)] > 0 /\ first[Len(first)] = 0 + 1
  BY <1>3
<1>7. TokensIn(bs, first) <= Overlap + bs[0 + 1]  BY <1>4, <1>5
<1> QED  BY <1>3, <1>6, <1>7 DEF GoesOn, first

\* A block that fits is the next of the chunk.
LEMMA PackedGoesOn ==
    ASSUME NEW bs \in Seq(Positive), NEW chunk, NEW end \in Nat, NEW b \in 1..Len(bs),
           GoesOn(bs, chunk, end), chunk[Len(chunk)] = b - 1,
           TokensIn(bs, chunk) + bs[b] <= Target
    PROVE  /\ GoesOn(bs, Append(chunk, b), end)
           /\ Append(chunk, b)[Len(Append(chunk, b))] = b
<1> DEFINE longer == Append(chunk, b)
<1>1. /\ chunk \in Seq(1..Len(bs)) /\ chunk # <<>> /\ Consecutive(chunk)
      /\ chunk[1] \in 1..(end + 1) /\ chunk[Len(chunk)] > end
  BY DEF GoesOn
<1>2. /\ longer \in Seq(1..Len(bs)) /\ longer # <<>> /\ Consecutive(longer)
      /\ longer[1] = chunk[1] /\ longer[Len(longer)] = b
  <2>1. Len(bs) \in Nat  OBVIOUS
  <2> QED  BY <1>1, <2>1, RunGrows
<1>3. TokensIn(bs, longer) <= Target  BY <1>1, TokensOfLonger
<1>4. b > end  BY <1>1
<1> HIDE DEF longer
<1> QED  BY <1>1, <1>2, <1>3, <1>4 DEF GoesOn, longer

\* The block that did not fit begins a chunk behind what is carried over.
LEMMA CarriedGoesOn ==
    ASSUME blocks \in Seq(Positive), NEW chunk, NEW end \in Nat, NEW b \in 1..Len(blocks),
           GoesOn(blocks, chunk, end), chunk[Len(chunk)] = b - 1
    PROVE  LET fresh == Append(Carry(chunk), b)
           IN GoesOn(blocks, fresh, b - 1) /\ fresh[Len(fresh)] = b
<1> DEFINE fresh == Append(Carry(chunk), b)
           carry == Carry(chunk)
           n == Len(blocks)
<1>1. /\ chunk \in Seq(1..n) /\ chunk # <<>> /\ Consecutive(chunk)
      /\ n \in Nat
  BY DEF GoesOn
<1>2. /\ carry = <<>> \/ \E s \in 1..Len(chunk) : carry = SubSeq(chunk, s, Len(chunk))
      /\ TokensIn(blocks, carry) <= Overlap
  BY <1>1, CarryIsTail
<1> HIDE DEF carry
<1>3. /\ carry \in Seq(1..n) /\ Consecutive(carry)
      /\ carry = <<>> \/ (carry[Len(carry)] = b - 1 /\ carry[1] \in 1..(b - 1))
  <2>1. CASE carry = <<>>  BY <2>1 DEF Consecutive
  <2>2. ASSUME NEW s \in 1..Len(chunk), carry = SubSeq(chunk, s, Len(chunk))
        PROVE  /\ carry \in Seq(1..n) /\ Consecutive(carry)
               /\ carry[Len(carry)] = b - 1 /\ carry[1] \in 1..(b - 1)
    <3> DEFINE l == Len(chunk)
    <3>1. /\ l \in Nat /\ s \in Int /\ l \in Int /\ s <= l
          /\ \A i \in s..l : chunk[i] \in 1..n
      BY <1>1
    <3> HIDE DEF l
    <3>2. /\ carry \in Seq(1..n) /\ Len(carry) = l - s + 1
          /\ \A i \in 1..(l - s + 1) : carry[i] = chunk[s + i - 1]
      BY <2>2, <3>1, SubSeqProperties DEF l
    <3>3. carry[Len(carry)] = b - 1  BY <3>1, <3>2 DEF l
    <3>4. \A i \in 1..(l - 1) : chunk[i + 1] = chunk[i] + 1  BY <1>1 DEF Consecutive, l
    <3>5. Consecutive(carry)
      <4>1. ASSUME NEW i \in 1..(Len(carry) - 1) PROVE carry[i + 1] = carry[i] + 1
        <5>1. s + i - 1 \in 1..(l - 1) /\ i \in 1..(l - s + 1) /\ i + 1 \in 1..(l - s + 1)
          BY <3>1, <3>2
        <5>2. carry[i] = chunk[s + i - 1] /\ carry[i + 1] = chunk[s + i]
          BY <3>1, <3>2, <5>1
        <5> QED  BY <3>4, <5>1, <5>2
      <4> QED  BY <4>1 DEF Consecutive
    <3>6. carry[1] \in 1..(b - 1)
      <4>1. Len(carry) \in Nat /\ Len(carry) >= 1  BY <3>1, <3>2
      <4> DEFINE T == {i \in 0..(Len(carry) - 1) : carry[i + 1] = carry[1] + i}
      <4>2. carry[1] \in 1..n  BY <3>2, <4>1
      <4>3. 0 \in T  BY <4>1, <4>2
      <4>4. ASSUME NEW i \in 1..(Len(carry) - 1), i - 1 \in T PROVE i \in T
        <5>1. carry[i] = carry[1] + (i - 1)  BY <4>4
        <5>2. carry[i + 1] = carry[i] + 1  BY <3>5 DEF Consecutive
        <5> QED  BY <4>1, <4>2, <5>1, <5>2
      <4>5. \A i \in 1..(Len(carry) - 1) : i - 1 \in T => i \in T  BY <4>4
      <4>6. Len(carry) - 1 \in Nat  BY <4>1
      <4> HIDE DEF T
      <4>7. \A i \in 0..(Len(carry) - 1) : i \in T  BY <4>3, <4>5, <4>6, EveryTurn
      <4>8. Len(carry) - 1 \in T  BY <4>1, <4>7
      <4>9. carry[Len(carry)] = carry[1] + (Len(carry) - 1)  BY <4>1, <4>8 DEF T
      <4> QED  BY <3>3, <4>1, <4>2, <4>9
    <3> QED  BY <3>2, <3>3, <3>5, <3>6
  <2> QED  BY <1>2, <2>1, <2>2
<1>4. /\ fresh \in Seq(1..n) /\ fresh # <<>> /\ Consecutive(fresh)
      /\ fresh[1] = IF carry = <<>> THEN b ELSE carry[1]
      /\ fresh[Len(fresh)] = b
  <2>1. fresh = Append(carry, b)  BY DEF carry
  <2>2. b \in 1..n /\ (carry = <<>> \/ carry[Len(carry)] = b - 1)  BY <1>3
  <2> HIDE DEF fresh, n
  <2>3. /\ Append(carry, b) \in Seq(1..n) /\ Append(carry, b) # <<>>
        /\ Consecutive(Append(carry, b))
        /\ Append(carry, b)[1] = IF carry = <<>> THEN b ELSE carry[1]
        /\ Append(carry, b)[Len(Append(carry, b))] = b
    <3>1. n \in Nat /\ carry \in Seq(1..n) /\ Consecutive(carry)  BY <1>1, <1>3
    <3> QED  BY <2>2, <3>1, RunGrows
  <2> QED  BY <2>1, <2>3
<1>5. TokensIn(blocks, fresh) <= Overlap + blocks[b]
  <2>1. TokensIn(blocks, fresh) = TokensIn(blocks, carry) + blocks[b]
    BY <1>3, TokensOfLonger DEF carry
  <2>2. TokensIn(blocks, carry) \in Nat  BY <1>3, WeightsType
  <2>3. blocks[b] \in Nat /\ Overlap \in Nat  BY IngestionAssumption DEF Positive
  <2> QED  BY <1>2, <2>1, <2>2, <2>3
<1>6. (b - 1) + 1 = b /\ b > b - 1 /\ b \in 1..b  BY <1>1
<1>7. fresh[1] \in 1..b  BY <1>1, <1>3, <1>4
<1> HIDE DEF fresh
<1> QED  BY <1>4, <1>5, <1>6, <1>7 DEF GoesOn, fresh

-----------------------------------------------------------------------------
(* Batches and sections *)

LEMMA CountedType ==
    ASSUME NEW n \in Nat
    PROVE  Counted(n) \in Seq(1..n) /\ Len(Counted(n)) = n
<1>1. Counted(n) \in [1..n -> 1..n]  BY DEF Counted
<1> QED  BY <1>1, FunctionIsSeq

\* The next batch, or section, of all chunks after the first ones.
LEMMA CountedGoesOn ==
    ASSUME Len(chunks) \in Nat, NEW start \in 0..Len(chunks), NEW size \in Positive
    PROVE  /\ Upto(start + size) \in start..Len(chunks)
           /\ Counted(start) \o From(start, size) = Counted(Upto(start + size))
<1> DEFINE to == Upto(start + size)
           next_ == From(start, size)
<1>1. to \in start..Len(chunks)  BY DEF Upto, Positive
<1>2. next_ = [i \in 1..(to - start) |-> start + i]  BY DEF From
<1> HIDE DEF to, next_
<1>3. PICK k \in Nat : to = start + k  BY <1>1
<1>4. next_ \in [1..k -> Nat]  BY <1>2, <1>3
<1>5. next_ \in Seq(Nat) /\ Len(next_) = k  BY <1>4, FunctionIsSeq
<1>6. /\ Counted(start) \in Seq(Nat) /\ Len(Counted(start)) = start
      /\ Counted(to) \in Seq(Nat) /\ Len(Counted(to)) = to
  <2>1. to \in Nat /\ 1..start \subseteq Nat /\ 1..to \subseteq Nat  BY <1>1
  <2> QED  BY <2>1, CountedType, SeqMonotonic
<1> DEFINE first == Counted(start)
           both == first \o next_
<1>7. /\ both \in Seq(Nat) /\ Len(both) = to
      /\ \A i \in 1..to : both[i] = IF i <= start THEN first[i] ELSE next_[i - start]
  <2> HIDE DEF first
  <2>1. first \in Seq(Nat) /\ Len(first) = start  BY <1>6 DEF first
  <2>2. /\ both \in Seq(Nat) /\ Len(both) = Len(first) + Len(next_)
        /\ \A i \in 1..(Len(first) + Len(next_)) :
              both[i] = IF i <= Len(first) THEN first[i] ELSE next_[i - Len(first)]
    BY <1>5, <2>1, ConcatProperties
  <2> HIDE DEF both
  <2> QED  BY <1>3, <1>5, <2>1, <2>2
<1> HIDE DEF both
<1>8. ASSUME NEW i \in 1..to PROVE both[i] = Counted(to)[i]
  <2>1. CASE i <= start
    <3>1. both[i] = Counted(start)[i] /\ i \in 1..start  BY <1>7, <2>1
    <3> QED  BY <3>1 DEF Counted
  <2>2. CASE ~(i <= start)
    <3>1. i - start \in 1..k /\ both[i] = next_[i - start]  BY <1>3, <1>7, <2>2
    <3> QED  BY <1>2, <1>3, <3>1 DEF Counted
  <2> QED  BY <2>1, <2>2
<1>9. both = Counted(to)  BY <1>6, <1>7, <1>8, SeqEqual
<1> QED  BY <1>1, <1>9 DEF both, to, next_

LEMMA FromBeginning ==
    ASSUME Len(chunks) \in Nat
    PROVE  /\ From(0, Len(chunks)) = Counted(Len(chunks))
           /\ Upto(SectionSize) \in 0..Len(chunks)
           /\ From(0, SectionSize) = Counted(Upto(SectionSize))
<1>1. SectionSize \in Nat  BY IngestionAssumption
<1>2. ASSUME NEW n \in Nat PROVE Upto(n) \in 0..Len(chunks) /\ From(0, n) = Counted(Upto(n))
  <2>1. Upto(n) \in 0..Len(chunks)  BY DEF Upto
  <2>2. From(0, n) = [i \in 1..(Upto(0 + n) - 0) |-> 0 + i]  BY DEF From
  <2>3. 0 + n = n /\ Upto(n) - 0 = Upto(n)  BY <2>1
  <2>4. \A i \in 1..Upto(n) : 0 + i = i  OBVIOUS
  <2> QED  BY <2>1, <2>2, <2>3, <2>4 DEF Counted
<1>3. Upto(Len(chunks)) = Len(chunks)  BY DEF Upto
<1> QED  BY <1>1, <1>2, <1>3

LEMMA PrefixByElements ==
    ASSUME NEW S, NEW s \in Seq(S), NEW t \in Seq(S), Len(s) <= Len(t),
           \A i \in 1..Len(s) : s[i] = t[i]
    PROVE  IsPrefix(s, t)
<1> DEFINE n == Len(s)
           u == SubSeq(t, 1, n)
<1>1. n \in Nat /\ Len(t) \in Nat /\ \A i \in 1..n : t[i] \in S  OBVIOUS
<1>2. 1 \in Int /\ n \in Int  BY <1>1
<1>3. u \in Seq(S) /\ Len(u) = n /\ \A i \in 1..n : u[i] = t[i]
  <2> HIDE DEF n
  <2> QED  BY <1>1, <1>2, SubSeqProperties
<1> HIDE DEF u
<1>4. u = s  BY <1>3, SeqEqual
<1>5. SubSeq(s, 1, n) = s  BY SubSeqFull
<1> QED  BY <1>4, <1>5 DEF IsPrefix, u

LEMMA CountedPrefix ==
    ASSUME NEW m \in Nat, NEW n \in Nat, m <= n
    PROVE  IsPrefix(Counted(m), Counted(n))
<1>1. /\ Counted(m) \in Seq(Nat) /\ Len(Counted(m)) = m
      /\ Counted(n) \in Seq(Nat) /\ Len(Counted(n)) = n
  <2>1. 1..m \subseteq Nat /\ 1..n \subseteq Nat  OBVIOUS
  <2> QED  BY <2>1, CountedType, SeqMonotonic
<1>2. \A i \in 1..m : Counted(m)[i] = Counted(n)[i]  BY DEF Counted
<1> QED  BY <1>1, <1>2, PrefixByElements

-----------------------------------------------------------------------------
(* Notes *)

Notes == [section : Nat \ {0}, size : NoteSizes]

Sizes(some) == [i \in DOMAIN some |-> some[i].size]

LEMMA SizesType ==
    ASSUME NEW some \in Seq(Notes)
    PROVE  /\ Sizes(some) \in Seq(Nat) /\ Len(Sizes(some)) = Len(some)
           /\ \A i \in 1..Len(some) : Sizes(some)[i] = some[i].size /\ some[i].size \in Positive
           /\ SizeOf(some) = Sum(Sizes(some)) /\ SizeOf(some) \in Nat
<1> DEFINE w == Sizes(some)
<1>1. Len(some) \in Nat /\ DOMAIN some = 1..Len(some)  OBVIOUS
<1>2. ASSUME NEW i \in 1..Len(some) PROVE some[i].size \in Positive
  <2>1. some[i] \in Notes  BY ElementOfSeq
  <2>2. some[i].size \in NoteSizes  BY <2>1 DEF Notes
  <2> QED  BY <2>2, IngestionAssumption DEF Positive
<1>3. \A i \in 1..Len(some) : w[i] = some[i].size  BY <1>1 DEF Sizes
<1>4. w \in [1..Len(some) -> Nat]  BY <1>1, <1>2 DEF Sizes, Positive
<1> HIDE DEF w
<1>5. w \in Seq(Nat) /\ Len(w) = Len(some)  BY <1>1, <1>4, FunctionIsSeq
<1>6. SizeOf(some) = Sum(w)  BY DEF SizeOf, Sizes, w
<1>7. Sum(w) \in Nat  BY <1>5, SumType
<1> QED  BY <1>2, <1>3, <1>5, <1>6, <1>7 DEF w

\* The notes that are sent begin with the first, and they are all there are
\* unless those are over the budget.
LEMMA ForemostIsHead ==
    ASSUME NEW some \in Seq(Notes), some # <<>>
    PROVE  \E m \in 1..Len(some) :
              /\ Foremost(some) = SubSeq(some, 1, m)
              /\ m < Len(some) => SizeOf(some) > PassBudget
<1> DEFINE l == Len(some)
           HeadOf(k) == SubSeq(some, 1, k - 1)
           within == {k \in DOMAIN some : SizeOf(HeadOf(k)) < PassBudget}
           most == Max(within)
           left == {l - k : k \in within}
<1>1. l \in Nat /\ l >= 1 /\ DOMAIN some = 1..l  OBVIOUS
<1>2. PassBudget \in Nat /\ PassBudget > 0  BY IngestionAssumption
<1>3. 1 \in within
  <2>1. HeadOf(1) = <<>>
    <3>1. 1 \in Int /\ 0 \in Int /\ 0 < 1 /\ 1 - 1 = 0  OBVIOUS
    <3> QED  BY <3>1, SubSeqEmpty
  <2>2. SizeOf(<<>>) = 0
    <3>1. [i \in DOMAIN <<>> |-> <<>>[i].size] = <<>>  OBVIOUS
    <3> QED  BY <3>1, SumOfNothing DEF SizeOf
  <2>3. SizeOf(HeadOf(1)) = 0  BY <2>1, <2>2
  <2> HIDE DEF HeadOf
  <2> QED  BY <1>1, <1>2, <2>3
<1>4. within \subseteq 1..l  BY <1>1
<1> HIDE DEF within
<1>5. left \in SUBSET Nat /\ left # {}  BY <1>1, <1>3, <1>4
<1>6. PICK x \in left : \A y \in left : x <= y  BY <1>5, LeastExists
<1>7. PICK m \in within : x = l - m  BY <1>6
<1>8. \A k \in within : m >= k
  <2> TAKE k \in within
  <2>1. l - m <= l - k  BY <1>6, <1>7
  <2>2. m \in 1..l /\ k \in 1..l  BY <1>4
  <2> QED  BY <1>1, <2>1, <2>2
<1>9. most \in within /\ \A k \in within : most >= k  BY <1>8 DEF Max
<1> HIDE DEF most
<1>10. most \in 1..l  BY <1>4, <1>9
<1>11. ASSUME most < l PROVE SizeOf(some) > PassBudget
  <2>1. l \notin within
    <3>1. ~(most >= l)  BY <1>1, <1>10, <1>11
    <3> QED  BY <1>9, <3>1
  <2>2. ~(SizeOf(HeadOf(l)) < PassBudget)
    <3>1. l \in DOMAIN some  BY <1>1
    <3> HIDE DEF HeadOf
    <3> QED  BY <2>1, <3>1 DEF within
  <2> DEFINE head == HeadOf(l)
  <2>3. PICK n \in Nat : l = n + 1
    <3>1. l - 1 \in Nat /\ l = (l - 1) + 1  BY <1>1
    <3> HIDE DEF l
    <3> QED  BY <3>1
  <2>4. head \in Seq(Notes) /\ Len(head) = n /\ \A i \in 1..n : head[i] = some[i]
    <3>1. \A i \in 1..n : some[i] \in Notes  BY <1>1, <2>3
    <3>2. head = SubSeq(some, 1, n) /\ 1 \in Int /\ n \in Int  BY <1>1, <2>3
    <3> HIDE DEF head, l
    <3> QED  BY <3>1, <3>2, SubSeqProperties
  <2> DEFINE v == Sizes(head)
             w == Sizes(some)
  <2>5. /\ v \in Seq(Nat) /\ Len(v) = n /\ \A i \in 1..n : v[i] = head[i].size
        /\ SizeOf(head) = Sum(v) /\ SizeOf(head) \in Nat
    <3> HIDE DEF head
    <3> QED  BY <2>4, SizesType
  <2>6. /\ w \in Seq(Nat) /\ Len(w) = l
        /\ \A i \in 1..l : w[i] = some[i].size /\ some[i].size \in Positive
        /\ SizeOf(some) = Sum(w)
    BY SizesType
  <2> HIDE DEF v, w, head
  <2>7. \A i \in 1..Len(v) : v[i] = w[i]
    <3> TAKE i \in 1..Len(v)
    <3>1. i \in 1..n /\ i \in 1..l  BY <1>1, <2>3, <2>5
    <3> QED  BY <2>4, <2>5, <2>6, <3>1
  <2>8. Sum(w) = Sum(v) + w[Len(w)]  BY <2>3, <2>5, <2>6, <2>7, SumOfLonger
  <2>9. w[Len(w)] \in Nat /\ w[Len(w)] >= 1  BY <1>1, <2>6 DEF Positive
  <2> QED  BY <1>2, <2>2, <2>5, <2>6, <2>8, <2>9 DEF head
<1>12. Foremost(some) = SubSeq(some, 1, most)  BY Zenon DEF Foremost, most, within
<1> QED  BY <1>10, <1>11, <1>12

-----------------------------------------------------------------------------
(* The invariant in two parts: packing, and what comes after it *)

PackingType ==
    /\ blocks \in Seq(Nat \ {0})
    /\ next \in 1..(Len(blocks) + 1)
    /\ current \in Seq(1..Len(blocks))
    /\ chunks \in Seq(Seq(1..Len(blocks)))

LaterType ==
    /\ vectors \in Seq(1..Len(chunks))
    /\ stored \in Seq([chunk : 1..Len(chunks), vector : 1..Len(chunks)])
    /\ read \in Seq(1..Len(chunks))
    /\ notes \in Seq(Notes)
    /\ summary \in [from : {"none", "chunks", "notes"}, parts : Seq(Nat \ {0})]
    /\ phase \in {"packing", "embedding", "summarising", "ready",
                  "NO_EXTRACTABLE_TEXT", "EMBEDDING_FAILED", "SUMMARY_FAILED"}

PackingInv == PackingType /\ ChunksInv /\ CurrentInv /\ PackedInv

LaterInv == LaterType /\ InOrderInv /\ StagesInv /\ OwnVectors /\ SummaryOfAll

LEMMA IInvParts ==
    /\ PackingInv /\ LaterInv => IInv
    /\ PackingInv' /\ LaterInv' => IInv'
BY DEF IInv, PackingInv, LaterInv, TypeOK, PackingType, LaterType, Notes

\* Ends are block numbers.
LEMMA EndType ==
    ASSUME PackingType, ChunksInv, NEW i \in 0..Len(chunks)
    PROVE  EndOf(chunks, i) \in Nat
<1>1. CASE i = 0  BY <1>1 DEF EndOf
<1>2. CASE i # 0
  <2>1. i \in 1..Len(chunks)  BY <1>2
  <2>2. chunks[i] \in Seq(1..Len(blocks)) /\ chunks[i] # <<>>
    BY <2>1 DEF ChunksInv, GoesOn
  <2> DEFINE c == chunks[i]
  <2> HIDE DEF c
  <2>3. c \in Seq(1..Len(blocks)) /\ c # <<>>  BY <2>2 DEF c
  <2>4. Len(c) \in 1..Len(c)  BY <2>3
  <2>5. c[Len(c)] \in 1..Len(blocks)  BY <2>3, <2>4
  <2> QED  BY <1>2, <2>5 DEF EndOf, c
<1> QED  BY <1>1, <1>2

\* A chunk that goes on may be added.
LEMMA ChunksGrow ==
    ASSUME PackingType, ChunksInv, blocks' = blocks, chunks' = Append(chunks, current),
           GoesOn(blocks, current, EndOf(chunks, Len(chunks)))
    PROVE  /\ chunks' \in Seq(Seq(1..Len(blocks))) /\ chunks' # <<>>
           /\ Len(chunks') = Len(chunks) + 1
           /\ ChunksInv'
           /\ EndOf(chunks', Len(chunks')) = current[Len(current)]
<1> DEFINE n == Len(chunks)
<1>1. n \in Nat /\ chunks \in Seq(Seq(1..Len(blocks))) /\ current \in Seq(1..Len(blocks))
  BY DEF PackingType
<1>2. /\ chunks' \in Seq(Seq(1..Len(blocks))) /\ chunks' # <<>>
      /\ Len(chunks') = n + 1
      /\ \A i \in 1..n : chunks'[i] = chunks[i]
      /\ chunks'[n + 1] = current
  BY <1>1, AppendProperties
<1> HIDE DEF n
<1>3. \A i \in 0..n : EndOf(chunks', i) = EndOf(chunks, i)  BY <1>1, <1>2 DEF EndOf
<1>4. ASSUME NEW i \in 1..(n + 1)
      PROVE  GoesOn(blocks, chunks'[i], EndOf(chunks', i - 1))
  <2>1. i - 1 \in 0..n  BY <1>1
  <2>2. EndOf(chunks', i - 1) = EndOf(chunks, i - 1)  BY <1>3, <2>1
  <2>3. CASE i \in 1..n
    <3>1. GoesOn(blocks, chunks[i], EndOf(chunks, i - 1))  BY <2>3 DEF ChunksInv, n
    <3> QED  BY <1>2, <2>2, <2>3, <3>1
  <2>4. CASE i = n + 1
    <3>1. i - 1 = n  BY <1>1, <2>4
    <3> QED  BY <1>2, <2>2, <2>4, <3>1 DEF n
  <2>5. i \in 1..n \/ i = n + 1  BY <1>1
  <2> QED  BY <2>3, <2>4, <2>5
<1>5. ChunksInv'  BY <1>2, <1>4 DEF ChunksInv
<1>6. EndOf(chunks', n + 1) = current[Len(current)]  BY <1>1, <1>2 DEF EndOf
<1> QED  BY <1>2, <1>5, <1>6 DEF n

\* While packing, nothing of the later stages is there, and it stays so.
LEMMA LaterUntouched ==
    ASSUME IInv, phase = "packing", UNCHANGED <<embedding, summarising>>,
           phase' \in {"packing", "embedding", "NO_EXTRACTABLE_TEXT"},
           Len(chunks') \in Nat
    PROVE  LaterInv'
<1>1. /\ vectors' = <<>> /\ stored' = <<>> /\ read' = <<>> /\ notes' = <<>>
      /\ summary' = Unwritten
  BY DEF IInv, StagesInv, embedding, summarising
<1>2. Unwritten \in [from : {"none", "chunks", "notes"}, parts : Seq(Nat \ {0})]
  <2>1. <<>> \in Seq(Nat \ {0})  OBVIOUS
  <2> QED  BY <2>1 DEF Unwritten
<1>3. LaterType'  BY <1>1, <1>2 DEF LaterType
<1>4. Counted(0) = <<>>
  <2>1. /\ Counted(0) \in Seq(1..0) /\ Len(Counted(0)) = 0  BY CountedType
  <2> QED  BY <2>1
<1>5. InOrderInv'
  <2>1. Len(<<>>) = 0 /\ 0 <= Len(chunks')  OBVIOUS
  <2> QED  BY <1>1, <1>4, <2>1 DEF InOrderInv
<1>6. StagesInv'  BY <1>1 DEF StagesInv
<1>7. OwnVectors' /\ SummaryOfAll'  BY <1>1 DEF OwnVectors, SummaryOfAll
<1> QED  BY <1>3, <1>5, <1>6, <1>7 DEF LaterInv

\* After packing its result stays as it is.
LEMMA PackingUntouched ==
    ASSUME IInv, UNCHANGED <<blocks, packing>>, phase' # "packing", Packed' => Packed
    PROVE  PackingInv'
<1>1. blocks' = blocks /\ next' = next /\ current' = current /\ chunks' = chunks
  BY DEF packing
<1>2. PackingType'  BY <1>1 DEF IInv, TypeOK, PackingType
<1>3. ChunksInv'  BY <1>1 DEF IInv, ChunksInv
<1>4. CurrentInv'  BY DEF CurrentInv
<1>5. PackedInv'  BY <1>1 DEF IInv, PackedInv
<1> QED  BY <1>2, <1>3, <1>4, <1>5 DEF PackingInv

-----------------------------------------------------------------------------
(* chunk_document *)

LEMMA InitIInv == Init => IInv
<1> SUFFICES ASSUME Init PROVE IInv  OBVIOUS
<1>1. blocks \in Seq(Nat \ {0})  BY BlocksType DEF Init
<1>2. PackingType  BY <1>1 DEF Init, PackingType
<1>3. ChunksInv /\ CurrentInv /\ PackedInv
  BY DEF Init, ChunksInv, CurrentInv, PackedInv, Packed
<1>4. LaterType
  <2>1. Unwritten \in [from : {"none", "chunks", "notes"}, parts : Seq(Nat \ {0})]
    <3>1. <<>> \in Seq(Nat \ {0})  OBVIOUS
    <3> QED  BY <3>1 DEF Unwritten
  <2> QED  BY <2>1 DEF Init, LaterType
<1>5. InOrderInv
  <2>1. Counted(0) = <<>>
    <3>1. /\ Counted(0) \in Seq(1..0) /\ Len(Counted(0)) = 0  BY CountedType
    <3> QED  BY <3>1
  <2>2. Len(<<>>) = 0 /\ 0 <= 0  OBVIOUS
  <2> QED  BY <2>1, <2>2 DEF Init, InOrderInv
<1>6. StagesInv /\ OwnVectors /\ SummaryOfAll
  BY DEF Init, StagesInv, OwnVectors, SummaryOfAll
<1> QED  BY <1>2, <1>3, <1>4, <1>5, <1>6, IInvParts DEF PackingInv, LaterInv

LEMMA PackIInv ==
    ASSUME IInv, Pack
    PROVE  IInv'
<1>1. /\ blocks \in Seq(Positive) /\ Len(blocks) \in Nat
      /\ current \in Seq(1..Len(blocks))
      /\ next \in 1..Len(blocks)
      /\ blocks' = blocks /\ chunks' = chunks
      /\ current' = Append(current, next) /\ next' = next + 1
      /\ phase = "packing" /\ phase' = "packing"
      /\ ~Full
      /\ PackingType /\ ChunksInv
  BY DEF IInv, TypeOK, Pack, Positive, PackingType
<1>2. PackingType'
  <2>1. current' \in Seq(1..Len(blocks))  BY <1>1
  <2>2. next' \in 1..(Len(blocks) + 1)  BY <1>1
  <2> QED  BY <1>1, <2>1, <2>2 DEF PackingType
<1>3. ChunksInv'  BY <1>1 DEF ChunksInv
<1>4. CurrentInv'
  <2>1. SUFFICES /\ GoesOn(blocks, current', EndOf(chunks, Len(chunks)))
                 /\ current'[Len(current')] = next' - 1
    BY <1>1 DEF CurrentInv
  <2>2. next' - 1 = next  BY <1>1
  <2>3. CASE current = <<>>
    <3>1. chunks = <<>> /\ next = 1  BY <1>1, <2>3 DEF IInv, CurrentInv, GoesOn
    <3>2. EndOf(chunks, Len(chunks)) = 0  BY <3>1 DEF EndOf
    <3>3. GoesOn(blocks, Append(<<>>, 1), 0)  BY <1>1, <3>1, FirstBlock
    <3>4. Append(<<>>, 1)[Len(Append(<<>>, 1))] = 1  OBVIOUS
    <3> QED  BY <1>1, <2>2, <2>3, <3>1, <3>2, <3>3, <3>4
  <2>4. CASE current # <<>>
    <3>1. /\ GoesOn(blocks, current, EndOf(chunks, Len(chunks)))
          /\ current[Len(current)] = next - 1
      BY <1>1, <2>4 DEF IInv, CurrentInv
    <3>2. EndOf(chunks, Len(chunks)) \in Nat
      <4>1. Len(chunks) \in 0..Len(chunks)  BY <1>1 DEF PackingType
      <4> QED  BY <1>1, <4>1, EndType
    <3>3. TokensIn(blocks, current) + blocks[next] <= Target
      <4>1. ~(Tokens(current) + blocks[next] > Target)  BY <1>1, <2>4 DEF Full
      <4>2. Tokens(current) = TokensIn(blocks, current)  BY Zenon DEF Tokens, TokensIn, Weights
      <4>3. TokensIn(blocks, current) \in Nat  BY <1>1, WeightsType
      <4>4. blocks[next] \in Nat /\ Target \in Nat
        BY <1>1, IngestionAssumption DEF Positive
      <4> QED  BY <4>1, <4>2, <4>3, <4>4
    <3> QED  BY <1>1, <2>2, <3>1, <3>2, <3>3, PackedGoesOn
  <2> QED  BY <2>3, <2>4
<1>5. PackedInv'  BY <1>1 DEF PackedInv, Packed
<1>6. LaterInv'
  <2>1. Len(chunks') \in Nat  BY <1>1 DEF PackingType
  <2> QED  BY <1>1, <2>1, LaterUntouched DEF Pack
<1> QED  BY <1>2, <1>3, <1>4, <1>5, <1>6, IInvParts DEF PackingInv, LaterInv

LEMMA FlushIInv ==
    ASSUME IInv, Flush
    PROVE  IInv'
<1> DEFINE fresh == Append(Carry(current), next)
<1>1. /\ blocks \in Seq(Positive) /\ Len(blocks) \in Nat
      /\ next \in 1..Len(blocks)
      /\ blocks' = blocks /\ chunks' = Append(chunks, current)
      /\ current' = fresh /\ next' = next + 1
      /\ phase = "packing" /\ phase' = "packing"
      /\ current # <<>>
      /\ PackingType /\ ChunksInv
  BY DEF IInv, TypeOK, Flush, Full, Positive, PackingType
<1>2. /\ GoesOn(blocks, current, EndOf(chunks, Len(chunks)))
      /\ current[Len(current)] = next - 1
  BY <1>1 DEF IInv, CurrentInv
<1>3. EndOf(chunks, Len(chunks)) \in Nat
  <2>1. Len(chunks) \in 0..Len(chunks)  BY <1>1 DEF PackingType
  <2> QED  BY <1>1, <2>1, EndType
<1>4. /\ chunks' \in Seq(Seq(1..Len(blocks))) /\ ChunksInv'
      /\ EndOf(chunks', Len(chunks')) = next - 1
  BY <1>1, <1>2, ChunksGrow
<1>5. GoesOn(blocks, fresh, next - 1) /\ fresh[Len(fresh)] = next
  BY <1>1, <1>2, <1>3, CarriedGoesOn
<1> HIDE DEF fresh
<1>6. PackingType'
  <2>1. current' \in Seq(1..Len(blocks))  BY <1>1, <1>5 DEF GoesOn
  <2>2. next' \in 1..(Len(blocks) + 1)  BY <1>1
  <2> QED  BY <1>1, <1>4, <2>1, <2>2 DEF PackingType
<1>7. CurrentInv'
  <2>1. next' - 1 = next  BY <1>1
  <2> QED  BY <1>1, <1>4, <1>5, <2>1 DEF CurrentInv
<1>8. PackedInv'  BY <1>1 DEF PackedInv, Packed
<1>9. LaterInv'
  <2>1. Len(chunks') \in Nat  BY <1>4
  <2> QED  BY <1>1, <2>1, LaterUntouched DEF Flush
<1> QED  BY <1>4, <1>6, <1>7, <1>8, <1>9, IInvParts DEF PackingInv, LaterInv

LEMMA LastFlushIInv ==
    ASSUME IInv, LastFlush
    PROVE  IInv'
<1>1. /\ blocks \in Seq(Positive) /\ Len(blocks) \in Nat
      /\ next = Len(blocks) + 1
      /\ blocks' = blocks /\ current' = current /\ next' = next
      /\ phase = "packing"
      /\ PackingType /\ ChunksInv
  <2>1. PackingType /\ ChunksInv  BY DEF IInv, TypeOK, PackingType
  <2>2. /\ phase = "packing" /\ next > Len(blocks)
        /\ blocks' = blocks /\ current' = current /\ next' = next
    BY DEF LastFlush
  <2>3. blocks \in Seq(Positive) /\ next \in 1..(Len(blocks) + 1)
    BY <2>1 DEF PackingType, Positive
  <2>4. Len(blocks) \in Nat  BY <2>3
  <2>5. next = Len(blocks) + 1  BY <2>2, <2>3, <2>4
  <2> QED  BY <2>1, <2>2, <2>3, <2>4, <2>5
<1>2. CASE current # <<>>
  <2>1. chunks' = Append(chunks, current) /\ phase' = "embedding"  BY <1>2 DEF LastFlush
  <2>2. /\ GoesOn(blocks, current, EndOf(chunks, Len(chunks)))
        /\ current[Len(current)] = next - 1
    BY <1>1, <1>2 DEF IInv, CurrentInv
  <2>3. /\ chunks' \in Seq(Seq(1..Len(blocks))) /\ chunks' # <<>> /\ ChunksInv'
        /\ EndOf(chunks', Len(chunks')) = next - 1
    BY <1>1, <2>1, <2>2, ChunksGrow
  <2>4. PackingType'  BY <1>1, <2>3 DEF PackingType
  <2>5. CurrentInv'  BY <2>1 DEF CurrentInv
  <2>6. PackedInv'  BY <1>1, <2>3 DEF PackedInv
  <2>7. LaterInv'
    <3>1. Len(chunks') \in Nat  BY <2>3
    <3> QED  BY <1>1, <2>1, <3>1, LaterUntouched DEF LastFlush
  <2> QED  BY <2>3, <2>4, <2>5, <2>6, <2>7, IInvParts DEF PackingInv, LaterInv
<1>3. CASE current = <<>>
  <2>1. chunks' = chunks /\ phase' = "NO_EXTRACTABLE_TEXT"  BY <1>3 DEF LastFlush
  <2>2. UNCHANGED <<blocks, packing>>  BY <1>1, <2>1 DEF packing
  <2>3. ~Packed'  BY <2>1 DEF Packed
  <2>4. PackingInv'  BY <2>1, <2>2, <2>3, PackingUntouched
  <2>5. LaterInv'
    <3>1. Len(chunks') \in Nat  BY <1>1, <2>1 DEF PackingType
    <3> QED  BY <1>1, <2>1, <3>1, LaterUntouched DEF LastFlush
  <2> QED  BY <2>4, <2>5, IInvParts
<1> QED  BY <1>2, <1>3

-----------------------------------------------------------------------------
(* embed_and_store *)

\* What the later steps begin with.
LEMMA AfterPacking ==
    ASSUME IInv
    PROVE  /\ Len(chunks) \in Nat /\ DOMAIN chunks = 1..Len(chunks)
           /\ LaterType /\ InOrderInv /\ StagesInv
           /\ Len(vectors) \in 0..Len(chunks) /\ Len(read) \in 0..Len(chunks)
<1>1. chunks \in Seq(Seq(1..Len(blocks))) /\ LaterType /\ InOrderInv /\ StagesInv
  BY DEF IInv, TypeOK, LaterType, Notes
<1>2. Len(chunks) \in Nat /\ DOMAIN chunks = 1..Len(chunks)  BY <1>1
<1>3. vectors \in Seq(1..Len(chunks)) /\ read \in Seq(1..Len(chunks))  BY <1>1 DEF LaterType
<1>4. Len(vectors) \in Nat /\ Len(read) \in Nat  BY <1>3
<1>5. Len(vectors) <= Len(chunks) /\ Len(read) <= Len(chunks)  BY <1>1 DEF InOrderInv
<1> QED  BY <1>1, <1>2, <1>4, <1>5

\* The first chunks, with the next of them behind, are the first chunks.
LEMMA NextOnes ==
    ASSUME Len(chunks) \in Nat, NEW done, NEW size \in Positive,
           Len(done) \in 0..Len(chunks), done = Counted(Len(done))
    PROVE  LET more == done \o From(Len(done), size)
           IN /\ more \in Seq(1..Len(chunks))
              /\ Len(more) \in 0..Len(chunks) /\ more = Counted(Len(more))
<1> DEFINE to == Upto(Len(done) + size)
           more == done \o From(Len(done), size)
<1>1. to \in Len(done)..Len(chunks) /\ Counted(Len(done)) \o From(Len(done), size) = Counted(to)
  BY CountedGoesOn
<1>2. more = Counted(to)  BY <1>1
<1> HIDE DEF to, more
<1>3. to \in Nat /\ to <= Len(chunks)  BY <1>1
<1>4. Counted(to) \in Seq(1..to) /\ Len(Counted(to)) = to  BY <1>3, CountedType
<1>5. 1..to \subseteq 1..Len(chunks)  BY <1>3
<1>6. Counted(to) \in Seq(1..Len(chunks))  BY <1>4, <1>5, SeqMonotonic
<1> QED  BY <1>2, <1>3, <1>4, <1>6 DEF more

LEMMA EmbedBatchIInv ==
    ASSUME IInv, EmbedBatch
    PROVE  IInv'
<1>1. /\ phase = "embedding" /\ phase' = "embedding"
      /\ vectors' = vectors \o From(Len(vectors), BatchSize)
      /\ chunks' = chunks /\ stored' = stored
      /\ read' = read /\ notes' = notes /\ summary' = summary
      /\ UNCHANGED <<blocks, packing>>
  BY DEF EmbedBatch, packing, summarising
<1>2. PackingInv'  BY <1>1, PackingUntouched DEF Packed
<1>3. /\ Len(chunks) \in Nat /\ Len(vectors) \in 0..Len(chunks)
      /\ LaterType /\ InOrderInv /\ StagesInv
  BY AfterPacking
<1>4. /\ vectors' \in Seq(1..Len(chunks))
      /\ Len(vectors') \in 0..Len(chunks) /\ vectors' = Counted(Len(vectors'))
  <2>1. BatchSize \in Positive  BY IngestionAssumption DEF Positive
  <2>2. vectors = Counted(Len(vectors))  BY <1>3 DEF InOrderInv
  <2> QED  BY <1>1, <1>3, <2>1, <2>2, NextOnes
<1>5. LaterType'  BY <1>1, <1>3, <1>4 DEF LaterType
<1>6. InOrderInv'  BY <1>1, <1>3, <1>4 DEF InOrderInv
<1>7. StagesInv'  BY <1>1, <1>3 DEF StagesInv
<1>8. OwnVectors' /\ SummaryOfAll'
  <2>1. stored = <<>>  BY <1>1, <1>3 DEF StagesInv
  <2> QED  BY <1>1, <2>1 DEF OwnVectors, SummaryOfAll
<1> QED  BY <1>2, <1>5, <1>6, <1>7, <1>8, IInvParts DEF LaterInv

LEMMA StoreIInv ==
    ASSUME IInv, Store
    PROVE  IInv'
<1>1. /\ phase = "embedding" /\ phase' = "summarising"
      /\ Len(vectors) = Len(chunks)
      /\ stored' = [i \in DOMAIN chunks |-> [chunk |-> i, vector |-> vectors[i]]]
      /\ vectors' = vectors /\ chunks' = chunks
      /\ read' = read /\ notes' = notes /\ summary' = summary
      /\ UNCHANGED <<blocks, packing>>
  BY DEF Store, packing, summarising
<1>2. PackingInv'  BY <1>1, PackingUntouched DEF Packed
<1>3. /\ Len(chunks) \in Nat /\ DOMAIN chunks = 1..Len(chunks)
      /\ LaterType /\ InOrderInv /\ StagesInv
  BY AfterPacking
<1>4. stored' = [i \in DOMAIN chunks |-> [chunk |-> i, vector |-> i]]
  <2>1. vectors = Counted(Len(chunks))  BY <1>1, <1>3 DEF InOrderInv
  <2>2. \A i \in 1..Len(chunks) : vectors[i] = i  BY <2>1 DEF Counted
  <2> QED  BY <1>1, <1>3, <2>2
<1>5. stored' \in Seq([chunk : 1..Len(chunks), vector : 1..Len(chunks)])
  <2> DEFINE S == [chunk : 1..Len(chunks), vector : 1..Len(chunks)]
             n == Len(chunks)
  <2>1. stored' \in [1..n -> S]  BY <1>3, <1>4
  <2> HIDE DEF S, n
  <2>2. n \in Nat  BY <1>3 DEF n
  <2>3. stored' \in Seq(S)  BY <2>1, <2>2, FunctionIsSeq
  <2> QED  BY <2>3 DEF S
<1>6. LaterType'  BY <1>1, <1>3, <1>5 DEF LaterType
<1>7. InOrderInv'  BY <1>1, <1>3 DEF InOrderInv
<1>8. StagesInv'  BY <1>1, <1>3 DEF StagesInv
<1>9. OwnVectors' /\ SummaryOfAll'
  BY <1>1, <1>4 DEF OwnVectors, SummaryOfAll
<1> QED  BY <1>2, <1>6, <1>7, <1>8, <1>9, IInvParts DEF LaterInv

LEMMA FailIInv ==
    ASSUME IInv, NEW from \in {"embedding", "summarising"},
           NEW reason \in {"EMBEDDING_FAILED", "SUMMARY_FAILED"},
           Fail(from, reason)
    PROVE  IInv'
<1>1. /\ phase = from /\ phase' = reason
      /\ vectors' = vectors /\ stored' = stored /\ chunks' = chunks
      /\ read' = read /\ notes' = notes /\ summary' = summary
      /\ UNCHANGED <<blocks, packing>>
  BY DEF Fail, packing, embedding, summarising
<1>2. PackingInv'  BY <1>1, PackingUntouched DEF Packed
<1>3. LaterType /\ InOrderInv /\ StagesInv  BY AfterPacking
<1>4. LaterType' /\ InOrderInv'  BY <1>1, <1>3 DEF LaterType, InOrderInv
<1>5. StagesInv'  BY <1>1, <1>3 DEF StagesInv
<1>6. OwnVectors' /\ SummaryOfAll'
  BY <1>1 DEF IInv, OwnVectors, SummaryOfAll
<1> QED  BY <1>2, <1>4, <1>5, <1>6, IInvParts DEF LaterInv

-----------------------------------------------------------------------------
(* summarize *)

LEMMA TakeNotesIInv ==
    ASSUME IInv, TakeNotes
    PROVE  IInv'
<1>1. /\ phase = "summarising" /\ phase' = "summarising"
      /\ read' = read \o From(Len(read), SectionSize)
      /\ \/ \E size \in NoteSizes :
               notes' = Append(notes, [section |-> Len(read) + 1, size |-> size])
         \/ notes' = notes
      /\ vectors' = vectors /\ stored' = stored /\ chunks' = chunks
      /\ summary' = summary
      /\ UNCHANGED <<blocks, packing>>
  BY DEF TakeNotes, packing, embedding
<1>2. PackingInv'  BY <1>1, PackingUntouched DEF Packed
<1>3. /\ Len(chunks) \in Nat /\ Len(read) \in 0..Len(chunks)
      /\ LaterType /\ InOrderInv /\ StagesInv
  BY AfterPacking
<1>4. /\ read' \in Seq(1..Len(chunks))
      /\ Len(read') \in 0..Len(chunks) /\ read' = Counted(Len(read'))
  <2>1. SectionSize \in Positive  BY IngestionAssumption DEF Positive
  <2>2. read = Counted(Len(read))  BY <1>3 DEF InOrderInv
  <2> QED  BY <1>1, <1>3, <2>1, <2>2, NextOnes
<1>5. notes' \in Seq(Notes)
  <2>1. notes \in Seq(Notes)  BY <1>3 DEF LaterType
  <2>2. ASSUME NEW size \in NoteSizes
        PROVE  Append(notes, [section |-> Len(read) + 1, size |-> size]) \in Seq(Notes)
    <3>1. Len(read) + 1 \in Nat \ {0}  BY <1>3
    <3>2. [section |-> Len(read) + 1, size |-> size] \in Notes  BY <3>1 DEF Notes
    <3> QED  BY <2>1, <3>2, AppendProperties
  <2> QED  BY <1>1, <2>1, <2>2
<1>6. LaterType'  BY <1>1, <1>3, <1>4, <1>5 DEF LaterType
<1>7. InOrderInv'  BY <1>1, <1>3, <1>4 DEF InOrderInv
<1>8. StagesInv'  BY <1>1, <1>3 DEF StagesInv
<1>9. OwnVectors' /\ SummaryOfAll'
  BY <1>1 DEF IInv, OwnVectors, SummaryOfAll
<1> QED  BY <1>2, <1>6, <1>7, <1>8, <1>9, IInvParts DEF LaterInv

\* What a summary must be made of, for SummaryOfAll to hold when it is written.
MadeOfAll(from, parts) ==
    LET all == From(0, Len(chunks))
        sections == [i \in DOMAIN notes |-> notes[i].section]
    IN \/ from = "chunks" /\ parts = all
       \/ /\ read = all
          /\ \/ from = "notes" /\ parts = sections
             \/ from = "notes" /\ IsPrefix(parts, sections) /\ SizeOf(notes) > PassBudget
             \/ from = "chunks" /\ notes = <<>> /\ IsPrefix(parts, all)

LEMMA WriteIInv ==
    ASSUME IInv, phase = "summarising",
           NEW from \in {"chunks", "notes"}, NEW parts \in Seq(Nat \ {0}),
           Write(from, parts), MadeOfAll(from, parts)
    PROVE  IInv'
<1>1. /\ phase' = "ready"
      /\ summary' = [from |-> from, parts |-> parts]
      /\ vectors' = vectors /\ stored' = stored /\ chunks' = chunks
      /\ read' = read /\ notes' = notes
      /\ UNCHANGED <<blocks, packing>>
  BY DEF Write, packing, embedding
<1>2. PackingInv'  BY <1>1, PackingUntouched DEF Packed
<1>3. LaterType /\ InOrderInv /\ StagesInv  BY AfterPacking
<1>4. LaterType'  BY <1>1, <1>3 DEF LaterType
<1>5. InOrderInv'  BY <1>1, <1>3 DEF InOrderInv
<1>6. StagesInv'  BY <1>1, <1>3 DEF StagesInv
<1>7. OwnVectors'  BY <1>1 DEF IInv, OwnVectors
<1>8. SummaryOfAll'
  <2>1. summary'.from = from /\ summary'.parts = parts  BY <1>1
  <2>2. From(0, Len(chunks))' = From(0, Len(chunks)) /\ SizeOf(notes)' = SizeOf(notes)
    BY <1>1 DEF From, Upto, SizeOf
  <2>3. (SummaryOfAll)' <=> MadeOfAll(from, parts)
    BY <1>1, <2>1, <2>2, Zenon DEF SummaryOfAll, MadeOfAll
  <2> QED  BY <2>3
<1> QED  BY <1>2, <1>4, <1>5, <1>6, <1>7, <1>8, IInvParts DEF LaterInv

\* Every chunk was read once there is no other section.
LEMMA AllRead ==
    ASSUME IInv, ~Unread
    PROVE  read = From(0, Len(chunks))
<1>1. Len(chunks) \in Nat /\ Len(read) \in 0..Len(chunks) /\ InOrderInv  BY AfterPacking
<1>2. Len(read) = Len(chunks)  BY <1>1 DEF Unread
<1>3. read = Counted(Len(chunks))  BY <1>1, <1>2 DEF InOrderInv
<1> QED  BY <1>1, <1>3, FromBeginning

LEMMA CountedParts ==
    ASSUME NEW n \in Nat
    PROVE  Counted(n) \in Seq(Nat \ {0})
<1>1. 1..n \subseteq Nat \ {0}  OBVIOUS
<1> QED  BY <1>1, CountedType, SeqMonotonic

LEMMA SinglePassIInv ==
    ASSUME IInv, SinglePass
    PROVE  IInv'
<1>1. Len(chunks) \in Nat  BY AfterPacking
<1>2. From(0, Len(chunks)) \in Seq(Nat \ {0})  BY <1>1, FromBeginning, CountedParts
<1>3. MadeOfAll("chunks", From(0, Len(chunks)))  BY DEF MadeOfAll
<1>4. phase = "summarising" /\ Write("chunks", From(0, Len(chunks)))  BY DEF SinglePass
<1> QED  BY <1>2, <1>3, <1>4, WriteIInv

LEMMA FallBackIInv ==
    ASSUME IInv, FallBack
    PROVE  IInv'
<1>1. Len(chunks) \in Nat  BY AfterPacking
<1>2. /\ Upto(SectionSize) \in 0..Len(chunks)
      /\ From(0, SectionSize) = Counted(Upto(SectionSize))
      /\ From(0, Len(chunks)) = Counted(Len(chunks))
  BY <1>1, FromBeginning
<1> DEFINE k == Upto(SectionSize)
<1> HIDE DEF k
<1>3. k \in Nat /\ k <= Len(chunks)  BY <1>1, <1>2 DEF k
<1>4. From(0, SectionSize) \in Seq(Nat \ {0})  BY <1>2, <1>3, CountedParts DEF k
<1>5. IsPrefix(From(0, SectionSize), From(0, Len(chunks)))
  <2>1. IsPrefix(Counted(k), Counted(Len(chunks)))  BY <1>1, <1>3, CountedPrefix
  <2> QED  BY <1>2, <2>1 DEF k
<1>6. /\ phase = "summarising" /\ notes = <<>> /\ ~Unread
      /\ Write("chunks", From(0, SectionSize))
  BY DEF FallBack
<1>7. read = From(0, Len(chunks))  BY <1>6, AllRead
<1>8. MadeOfAll("chunks", From(0, SectionSize))  BY <1>5, <1>6, <1>7 DEF MadeOfAll
<1> QED  BY <1>4, <1>6, <1>8, WriteIInv

LEMMA ReduceIInv ==
    ASSUME IInv, Reduce
    PROVE  IInv'
<1> DEFINE sent == Foremost(notes)
           parts == [i \in DOMAIN sent |-> sent[i].section]
           sections == [i \in DOMAIN notes |-> notes[i].section]
           l == Len(notes)
<1>1. phase = "summarising" /\ notes # <<>> /\ ~Unread /\ Write("notes", parts)
  BY DEF Reduce
<1>2. notes \in Seq(Notes)  BY AfterPacking DEF LaterType
<1>3. l \in Nat /\ DOMAIN notes = 1..l /\ \A i \in 1..l : notes[i] \in Notes
  BY <1>2, ElementOfSeq
<1>4. PICK m \in 1..l :
         /\ sent = SubSeq(notes, 1, m)
         /\ m < l => SizeOf(notes) > PassBudget
  BY <1>1, <1>2, ForemostIsHead
<1> HIDE DEF l, sent
<1>5. m \in Nat /\ m <= l /\ m \in Int /\ 1 \in Int /\ m >= 1  BY <1>3, <1>4
<1>6. sent \in Seq(Notes) /\ Len(sent) = m /\ \A i \in 1..m : sent[i] = notes[i]
  <2>1. \A i \in 1..m : notes[i] \in Notes  BY <1>3, <1>5
  <2> QED  BY <1>4, <1>5, <2>1, SubSeqProperties
<1>7. /\ sections \in [1..l -> Nat \ {0}]
      /\ parts \in [1..m -> Nat \ {0}]
      /\ \A i \in 1..m : parts[i] = sections[i]
  <2>1. DOMAIN sent = 1..m  BY <1>6
  <2>2. \A i \in 1..l : notes[i].section \in Nat \ {0}  BY <1>3 DEF Notes
  <2> QED  BY <1>3, <1>5, <1>6, <2>1, <2>2
<1> HIDE DEF sections, parts
<1>8. /\ sections \in Seq(Nat \ {0}) /\ Len(sections) = l
      /\ parts \in Seq(Nat \ {0}) /\ Len(parts) = m
  BY <1>3, <1>5, <1>7, FunctionIsSeq
<1>9. read = From(0, Len(chunks))  BY <1>1, AllRead
<1>10. parts = sections \/ (IsPrefix(parts, sections) /\ SizeOf(notes) > PassBudget)
  <2>1. CASE m = l  BY <1>7, <1>8, <2>1, SeqEqual
  <2>2. CASE m # l
    <3>1. m < l  BY <1>3, <1>5, <2>2
    <3>2. IsPrefix(parts, sections)  BY <1>5, <1>7, <1>8, PrefixByElements
    <3> QED  BY <1>4, <3>1, <3>2
  <2> QED  BY <2>1, <2>2
<1>11. MadeOfAll("notes", parts)  BY <1>9, <1>10, Zenon DEF MadeOfAll, sections
<1> QED  BY <1>1, <1>8, <1>11, WriteIInv

-----------------------------------------------------------------------------
(* Theorems *)

LEMMA StepIInv == IInv /\ [Next]_vars => IInv'
<1> SUFFICES ASSUME IInv, [Next]_vars PROVE IInv'  OBVIOUS
<1>1. CASE Pack  BY <1>1, PackIInv
<1>2. CASE Flush  BY <1>2, FlushIInv
<1>3. CASE LastFlush  BY <1>3, LastFlushIInv
<1>4. CASE EmbedBatch  BY <1>4, EmbedBatchIInv
<1>5. CASE Store  BY <1>5, StoreIInv
<1>6. CASE Fail("embedding", "EMBEDDING_FAILED")  BY <1>6, FailIInv
<1>7. CASE SinglePass  BY <1>7, SinglePassIInv
<1>8. CASE TakeNotes  BY <1>8, TakeNotesIInv
<1>9. CASE Reduce  BY <1>9, ReduceIInv
<1>10. CASE FallBack  BY <1>10, FallBackIInv
<1>11. CASE Fail("summarising", "SUMMARY_FAILED")  BY <1>11, FailIInv
<1>12. CASE UNCHANGED vars
  BY <1>12 DEF vars, packing, embedding, summarising,
     IInv, TypeOK, ChunksInv, CurrentInv, PackedInv, Packed, InOrderInv, StagesInv,
     OwnVectors, SummaryOfAll, From, Upto, SizeOf
<1> QED
  BY <1>1, <1>2, <1>3, <1>4, <1>5, <1>6, <1>7, <1>8, <1>9, <1>10, <1>11, <1>12
     DEF Next, Finished

LEMMA Invariant == Spec => []IInv
BY InitIInv, StepIInv, PTL DEF Spec

\* What the pipeline has made of a text is always well formed, for any text,
\* any limits and any notes: chunks are blocks of the text, vectors and notes
\* those of chunks.
THEOREM TypeCorrect == Spec => []TypeOK
<1>1. IInv => TypeOK  BY DEF IInv
<1> QED  BY <1>1, Invariant, PTL

LEMMA EveryChunkGoesOn ==
    ASSUME IInv, NEW i \in DOMAIN chunks
    PROVE  GoesOn(blocks, chunks[i], Before(i))
<1>1. i \in 1..Len(chunks)  BY AfterPacking
<1>2. Len(chunks) \in Nat  BY AfterPacking
<1>3. EndOf(chunks, i - 1) = Before(i)
  <2>1. i - 1 = 0 <=> i = 1  BY <1>1, <1>2
  <2> QED  BY <2>1 DEF EndOf, Before, Last
<1>4. GoesOn(blocks, chunks[i], EndOf(chunks, i - 1))  BY <1>1 DEF IInv, ChunksInv
<1> QED  BY <1>3, <1>4

\* chunk_document loses nothing of any text and puts nothing out of order,
\* whatever is carried from a chunk into the next.
THEOREM TextIsKept == Spec => []NothingLost
<1>1. ASSUME IInv, Packed
      PROVE  /\ chunks # <<>> /\ Last(Last(chunks)) = Len(blocks)
             /\ \A i \in DOMAIN chunks :
                   /\ Consecutive(chunks[i])
                   /\ chunks[i][1] \in 1..(Before(i) + 1) /\ Last(chunks[i]) > Before(i)
  <2>1. chunks # <<>> /\ EndOf(chunks, Len(chunks)) = Len(blocks)
    BY <1>1 DEF IInv, PackedInv
  <2>2. Len(chunks) # 0  BY <1>1, <2>1 DEF IInv, TypeOK
  <2>3. Last(Last(chunks)) = Len(blocks)  BY <2>1, <2>2 DEF EndOf, Last
  <2>4. \A i \in DOMAIN chunks : GoesOn(blocks, chunks[i], Before(i))
    BY <1>1, EveryChunkGoesOn
  <2> QED  BY <2>1, <2>3, <2>4 DEF GoesOn, Last
<1>2. IInv => NothingLost  BY <1>1 DEF NothingLost
<1> QED  BY <1>2, Invariant, PTL

\* A chunk is over the target by no more than the overlap and one block, for
\* any target and any overlap below it.
THEOREM BudgetIsKept == Spec => []ChunkBudget
<1>1. ASSUME IInv, NEW i \in DOMAIN chunks
      PROVE  \/ Tokens(chunks[i]) <= Target
             \/ /\ Last(chunks[i]) = Before(i) + 1
                /\ Tokens(chunks[i]) <= Overlap + blocks[Last(chunks[i])]
  <2>1. GoesOn(blocks, chunks[i], Before(i))  BY <1>1, EveryChunkGoesOn
  <2>2. Tokens(chunks[i]) = TokensIn(blocks, chunks[i])
    BY Zenon DEF Tokens, TokensIn, Weights
  <2> QED  BY <2>1, <2>2 DEF GoesOn, Last
<1>2. IInv => ChunkBudget  BY <1>1 DEF ChunkBudget
<1> QED  BY <1>2, Invariant, PTL

\* embed_and_store keeps each chunk with its own vector, for any batch size
\* and any number of chunks, or stores none.
THEOREM VectorsAreOwn == Spec => []OwnVectors
<1>1. IInv => OwnVectors  BY DEF IInv
<1> QED  BY <1>1, Invariant, PTL

\* A summary is made of the whole document, for any section size and budget:
\* of all chunks, or of all notes on all chunks, or of the head of those when
\* they are too many, or of the head of the document when there are none.
THEOREM SummaryIsOfAll == Spec => []SummaryOfAll
<1>1. IInv => SummaryOfAll  BY DEF IInv
<1> QED  BY <1>1, Invariant, PTL

=============================================================================
