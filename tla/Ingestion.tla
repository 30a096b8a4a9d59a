----------------------------- MODULE Ingestion -----------------------------
(***************************************************************************)
(* What the pipeline makes of one document's text: chunks, a vector for      *)
(* each of them, and a summary.  One step per turn of a loop or call of the  *)
(* provider.                                                                 *)
(*                                                                          *)
(* A sentence is its length in characters, a block its estimated tokens, a   *)
(* chunk the numbers of its blocks, a vector or a text the number of what it *)
(* was made of.  Every call is made once: the adapter converts an error      *)
(* before its retry policy sees it, and only opening a stream is retried.    *)
(* Loops that only compute are functions of the turn, for the proofs' sake.  *)
(***************************************************************************)
EXTENDS Naturals, SequencesExt

CONSTANTS
    Documents,        \* texts: sequences of paragraphs, each of sentences
    CharsPerToken,
    Target, Overlap,  \* tokens of a chunk, and of what it shares with the next
    BatchSize,        \* texts to a call of the embedding model
    SectionSize,      \* chunks to a section
    PassBudget,       \* tokens summarised in a single pass
    NoteSizes         \* tokens of the notes on a section

ASSUME IngestionAssumption ==
    /\ Documents \subseteq Seq(Seq(Nat \ {0}))
    /\ {CharsPerToken, Target, BatchSize, SectionSize, PassBudget} \subseteq Nat \ {0}
    /\ Overlap \in Nat
    /\ NoteSizes \subseteq Nat \ {0}

VARIABLES
    blocks,    \* the tokens of each block
    next,      \* the block to be packed next
    current,   \* the chunk being packed
    chunks,
    vectors,   \* so far from the provider
    stored,    \* the chunks and vectors of the document, as flushed
    read,      \* chunks read for section notes
    notes,     \* the notes that had content
    summary,
    phase

packing == <<next, current, chunks>>
embedding == <<vectors, stored>>
summarising == <<read, notes, summary>>

vars == <<blocks, packing, embedding, summarising, phase>>

-----------------------------------------------------------------------------
(* Blocks *)

Sum(w) ==
    LET sum[i \in 0..Len(w)] == IF i = 0 THEN 0 ELSE sum[i - 1] + w[i]
    IN sum[Len(w)]

\* Variant with a bug: a short text weighs nothing.
Weightless_estimate_tokens(length) == length \div CharsPerToken

estimate_tokens(length) == IF length < CharsPerToken THEN 1 ELSE length \div CharsPerToken

\* Two texts with a space between them; no text has no length.
Joined(a, b) == IF a = 0 THEN b ELSE a + 1 + b

Length(paragraph) ==
    IF paragraph = <<>> THEN 0 ELSE Sum(paragraph) + Len(paragraph) - 1

\* A paragraph over the limit is cut between sentences, never within one.
SplitOversized(paragraph) ==
    LET cut[i \in 0..Len(paragraph)] ==
            IF i = 0 THEN [parts |-> <<>>, buffer |-> 0]
            ELSE LET so == cut[i - 1]
                     candidate == Joined(so.buffer, paragraph[i])
                 IN IF estimate_tokens(candidate) > Target /\ so.buffer > 0
                    THEN [parts |-> Append(so.parts, so.buffer), buffer |-> paragraph[i]]
                    ELSE [parts |-> so.parts, buffer |-> candidate]
        all == cut[Len(paragraph)]
    IN IF estimate_tokens(Length(paragraph)) <= Target THEN <<Length(paragraph)>>
       ELSE Append(all.parts, all.buffer)

ToBlocks(document) ==
    LET lengths[i \in 0..Len(document)] ==
            IF i = 0 THEN <<>> ELSE lengths[i - 1] \o SplitOversized(document[i])
        all == lengths[Len(document)]
    IN [i \in DOMAIN all |-> estimate_tokens(all[i])]

Tokens(chunk) == Sum([i \in DOMAIN chunk |-> blocks[chunk[i]]])

\* Variant with a bug: the last block is carried whatever its size.
Unbounded_Carry(chunk) == <<chunk[Len(chunk)]>>

\* _overlap_tail: the most of a chunk's last blocks that fit.
Carry(chunk) ==
    LET fits == {s \in 1..Len(chunk) : Tokens(SubSeq(chunk, s, Len(chunk))) <= Overlap}
    IN IF fits = {} THEN <<>>
       ELSE SubSeq(chunk, CHOOSE s \in fits : \A o \in fits : s <= o, Len(chunk))

-----------------------------------------------------------------------------
(* State *)

Unwritten == [from |-> "none", parts |-> <<>>]

TypeOK ==
    /\ blocks \in Seq(Nat \ {0})
    /\ next \in 1..(Len(blocks) + 1)
    /\ current \in Seq(1..Len(blocks))
    /\ chunks \in Seq(Seq(1..Len(blocks)))
    /\ vectors \in Seq(1..Len(chunks))
    /\ stored \in Seq([chunk : 1..Len(chunks), vector : 1..Len(chunks)])
    /\ read \in Seq(1..Len(chunks))
    /\ notes \in Seq([section : Nat \ {0}, size : NoteSizes])
    /\ summary \in [from : {"none", "chunks", "notes"}, parts : Seq(Nat \ {0})]
    /\ phase \in {"packing", "embedding", "summarising", "ready",
                  "NO_EXTRACTABLE_TEXT", "EMBEDDING_FAILED", "SUMMARY_FAILED"}

Init ==
    /\ \E document \in Documents : blocks = ToBlocks(document)
    /\ next = 1 /\ current = <<>> /\ chunks = <<>>
    /\ vectors = <<>> /\ stored = <<>>
    /\ read = <<>> /\ notes = <<>> /\ summary = Unwritten
    /\ phase = "packing"

-----------------------------------------------------------------------------
(* chunk_document *)

Full == current # <<>> /\ Tokens(current) + blocks[next] > Target

Pack ==
    /\ phase = "packing" /\ next <= Len(blocks) /\ ~Full
    /\ current' = Append(current, next)
    /\ next' = next + 1
    /\ UNCHANGED <<blocks, chunks, embedding, summarising, phase>>

\* Variant with a bug: the block that did not fit is forgotten.
Dropping_Flush ==
    /\ phase = "packing" /\ next <= Len(blocks) /\ Full
    /\ chunks' = Append(chunks, current)
    /\ current' = Carry(current)
    /\ next' = next + 1
    /\ UNCHANGED <<blocks, embedding, summarising, phase>>

\* flush, then the block that did not fit, which is not weighed again.
Flush ==
    /\ phase = "packing" /\ next <= Len(blocks) /\ Full
    /\ chunks' = Append(chunks, current)
    /\ current' = Append(Carry(current), next)
    /\ next' = next + 1
    /\ UNCHANGED <<blocks, embedding, summarising, phase>>

\* A document without blocks fails in ProcessingService.process.
LastFlush ==
    /\ phase = "packing" /\ next > Len(blocks)
    /\ \/ /\ current # <<>>
          /\ chunks' = Append(chunks, current)
          /\ phase' = "embedding"
       \/ /\ current = <<>>
          /\ phase' = "NO_EXTRACTABLE_TEXT"
          /\ UNCHANGED chunks
    /\ UNCHANGED <<blocks, next, current, embedding, summarising>>

-----------------------------------------------------------------------------
(* embed_and_store *)

\* An error of the provider, or of a check on what it returned.
Fail(from, reason) ==
    /\ phase = from
    /\ phase' = reason
    /\ UNCHANGED <<blocks, packing, embedding, summarising>>

Upto(n) == IF n <= Len(chunks) THEN n ELSE Len(chunks)

From(start, size) == [i \in 1..(Upto(start + size) - start) |-> start + i]

\* Variant with a bug: two batches are sent at once and come back in any order.
FannedOut_EmbedBatch ==
    /\ phase = "embedding" /\ Len(vectors) < Len(chunks)
    /\ LET done == Len(vectors)
           first == From(done, BatchSize)
           second == From(Upto(done + BatchSize), BatchSize)
       IN vectors' \in {vectors \o first \o second, vectors \o second \o first}
    /\ UNCHANGED <<blocks, packing, stored, summarising, phase>>

\* The next batch, answered with a vector for each text.
EmbedBatch ==
    /\ phase = "embedding" /\ Len(vectors) < Len(chunks)
    /\ vectors' = vectors \o From(Len(vectors), BatchSize)
    /\ UNCHANGED <<blocks, packing, stored, summarising, phase>>

\* All of them are stored, or none.
Store ==
    /\ phase = "embedding" /\ Len(vectors) = Len(chunks)
    /\ stored' = [i \in DOMAIN chunks |-> [chunk |-> i, vector |-> vectors[i]]]
    /\ phase' = "summarising"
    /\ UNCHANGED <<blocks, packing, vectors, summarising>>

-----------------------------------------------------------------------------
(* summarize *)

Total == Sum([i \in DOMAIN chunks |-> Tokens(chunks[i])])

\* Variant with a bug: what does not fill a section is not read.
Whole_Unread == Len(read) + SectionSize <= Len(chunks)

\* There is another section.
Unread == Len(read) < Len(chunks)

Write(from, parts) ==
    /\ summary' = [from |-> from, parts |-> parts]
    /\ phase' = "ready"
    /\ UNCHANGED <<blocks, packing, embedding, read, notes>>

SinglePass ==
    /\ phase = "summarising" /\ Total <= PassBudget
    /\ Write("chunks", From(0, Len(chunks)))

\* The notes on the next section, named by its first chunk, or NO_CONTENT.
TakeNotes ==
    /\ phase = "summarising" /\ Total > PassBudget /\ Unread
    /\ read' = read \o From(Len(read), SectionSize)
    /\ \/ \E size \in NoteSizes :
             notes' = Append(notes, [section |-> Len(read) + 1, size |-> size])
       \/ UNCHANGED notes
    /\ UNCHANGED <<blocks, packing, embedding, summary, phase>>

SizeOf(some) == Sum([i \in DOMAIN some |-> some[i].size])

\* The notes that are sent: all, or those that begin within the budget.
Foremost(some) ==
    SubSeq(some, 1, Max({k \in DOMAIN some : SizeOf(SubSeq(some, 1, k - 1)) < PassBudget}))

Reduce ==
    /\ phase = "summarising" /\ Total > PassBudget /\ ~Unread
    /\ notes # <<>>
    /\ LET sent == Foremost(notes) IN
       Write("notes", [i \in DOMAIN sent |-> sent[i].section])

\* Nothing but NO_CONTENT: the head of the document is summarised instead.
FallBack ==
    /\ phase = "summarising" /\ Total > PassBudget /\ ~Unread
    /\ notes = <<>>
    /\ Write("chunks", From(0, SectionSize))

-----------------------------------------------------------------------------
(* Specification *)

Finished == phase \notin {"packing", "embedding", "summarising"} /\ UNCHANGED vars

Next ==
    \/ Pack \/ Flush \/ LastFlush
    \/ EmbedBatch \/ Store \/ Fail("embedding", "EMBEDDING_FAILED")
    \/ SinglePass \/ TakeNotes \/ Reduce \/ FallBack
    \/ Fail("summarising", "SUMMARY_FAILED")
    \/ Finished

Spec == Init /\ [][Next]_vars

-----------------------------------------------------------------------------
(* Properties *)

Packed == phase \notin {"packing", "NO_EXTRACTABLE_TEXT"}

\* The last block of the chunk before a given one.
Before(i) == IF i = 1 THEN 0 ELSE Last(chunks[i - 1])

Consecutive(chunk) == \A i \in 1..(Len(chunk) - 1) : chunk[i + 1] = chunk[i] + 1

\* Nothing of the text is lost, put out of order or stored for nothing: a chunk
\* is a run of blocks that begins right after the one before, or within it, and
\* goes on beyond it, and the last one ends with the document.
NothingLost == Packed =>
    /\ chunks # <<>> /\ Last(Last(chunks)) = Len(blocks)
    /\ \A i \in DOMAIN chunks :
         /\ Consecutive(chunks[i])
         /\ chunks[i][1] \in 1..(Before(i) + 1) /\ Last(chunks[i]) > Before(i)

\* A chunk is over the target only by what was carried into it, or by a block
\* that is over the target itself: it then has one new block, and no more than
\* the overlap besides.
ChunkBudget == \A i \in DOMAIN chunks :
    \/ Tokens(chunks[i]) <= Target
    \/ /\ Last(chunks[i]) = Before(i) + 1
       /\ Tokens(chunks[i]) <= Overlap + blocks[Last(chunks[i])]

\* Each chunk is stored once and with its own vector, across batches, or none is.
OwnVectors == stored # <<>> =>
    stored = [i \in DOMAIN chunks |-> [chunk |-> i, vector |-> i]]

\* A summary never silently leaves out the end of a document: in one pass it is
\* made of every chunk, else every chunk was read for notes exactly once and it
\* is made of all notes there are, or, when those are too many, of their head;
\* of the head of the document only if no section had any content.
SummaryOfAll == phase = "ready" =>
    LET all == From(0, Len(chunks))
        sections == [i \in DOMAIN notes |-> notes[i].section]
    IN \/ summary.from = "chunks" /\ summary.parts = all
       \/ /\ read = all
          /\ \/ summary.from = "notes" /\ summary.parts = sections
             \/ /\ summary.from = "notes" /\ IsPrefix(summary.parts, sections)
                /\ SizeOf(notes) > PassBudget
             \/ summary.from = "chunks" /\ notes = <<>> /\ IsPrefix(summary.parts, all)
=============================================================================
