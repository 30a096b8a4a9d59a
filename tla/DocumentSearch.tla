--------------------------- MODULE DocumentSearch ---------------------------
(***************************************************************************)
(* One request that retrieves: a search of the dashboard over the filenames  *)
(* and the contents of an owner's documents, or the passages for a question  *)
(* put to one document.  Each of its queries sees the rows committed by      *)
(* then, while documents are uploaded, processed and deleted around it.      *)
(*                                                                          *)
(* The n-th document created is the number n; <<n, i>> is its chunk i, in    *)
(* the database as long as the document is READY.  Which rows match, and in  *)
(* which order, is up to the database: any ranking of visible rows, for the  *)
(* dense side also one that misses some, as the index is approximate.        *)
(***************************************************************************)
EXTENDS RankFusion

CONSTANTS
    MaxDocs,        \* bound on the documents ever created
    Created,        \* how many there are before the first request
    Owner, Searcher,
    Length,         \* how many chunks each document has
    ListLimit,      \* the 500 documents a search lists
    Limit,          \* the results asked for
    TopK,           \* retrieval_top_k
    Multiplier,     \* _CANDIDATE_MULTIPLIER
    None

Docs == 1..MaxDocs

Chunks == UNION {{<<d, i>> : i \in 1..Length[d]} : d \in Docs}

ASSUME SearchAssumption ==
    /\ MaxDocs \in Nat /\ Created \in 0..MaxDocs
    /\ Length \in [Docs -> Nat]
    /\ Searcher \in {Owner[d] : d \in Docs}
    /\ ListLimit \in Nat /\ Limit \in Nat \ {0} /\ TopK \in Nat /\ Multiplier \in Nat
    /\ None \notin Chunks

VARIABLES
    created,     \* how many documents have been created
    live, ready, \* those still there; those that are READY
    task, stage, \* what the request does, and how far it has got
    owned,       \* by_id: the documents listed
    scope,       \* the documents whose chunks are searched
    names,       \* filename_hits
    lexical, dense,
    strong,      \* how many of the dense hits reach search_min_similarity
    aborted,     \* the transaction is: a statement failed, and nothing rolled back
    answer,      \* a search's results: the place and the excerpt of each
    passages     \* the passages given to the model

library == <<created, live, ready>>
hits == <<names, lexical, dense, strong>>

vars == <<created, live, ready, task, stage, owned, scope, names, lexical, dense,
          strong, aborted, answer, passages>>

Nothing == [x \in {} |-> 0]

\* How many chunks retrieval returns, and how many each retriever is asked for.
Top == IF task = "search" THEN Limit * Multiplier ELSE TopK
Candidates == Top * Multiplier

Stage == {"idle", "listed", "named", "worded", "embedded", "retrieved", "answered", "failed"}

TypeOK ==
    /\ created \in 0..MaxDocs
    /\ live \subseteq 1..created /\ ready \subseteq live
    /\ task \in {"none", "search", "chat"}
    /\ stage \in Stage
    /\ owned \subseteq Docs /\ scope \subseteq Docs
    /\ IsRanking(names, Docs, Limit * Multiplier)
    /\ IsRanking(lexical, Chunks, Candidates)
    /\ IsRanking(dense, Chunks, Candidates)
    /\ strong \in 0..Cardinality(DOMAIN dense)
    /\ aborted \in BOOLEAN
    /\ DOMAIN answer \subseteq owned
    /\ \A d \in DOMAIN answer :
          answer[d] \in [place : 1..Limit, excerpt : Chunks \cup {None}]
    /\ passages \subseteq Chunks

Init ==
    /\ created = Created
    /\ live = 1..created
    /\ ready = live
    /\ task = "none" /\ stage = "idle" /\ owned = {} /\ scope = {}
    /\ names = Nothing /\ lexical = Nothing /\ dense = Nothing /\ strong = 0
    /\ aborted = FALSE /\ answer = Nothing /\ passages = {}

-----------------------------------------------------------------------------
(* What happens to the documents meanwhile *)

Elsewhere == UNCHANGED <<task, stage, owned, scope, hits, aborted, answer, passages>>

Upload ==
    /\ created < MaxDocs
    /\ created' = created + 1
    /\ live' = live \cup {created'}
    /\ UNCHANGED ready /\ Elsewhere

Process(d) ==
    /\ d \in live \ ready
    /\ ready' = ready \cup {d}
    /\ UNCHANGED <<created, live>> /\ Elsewhere

Delete(d) ==
    /\ d \in live
    /\ live' = live \ {d}
    /\ ready' = ready \ {d}
    /\ UNCHANGED created /\ Elsewhere

-----------------------------------------------------------------------------
(* The dashboard's search *)

Goto(next) == stage' = next

\* Variant with a bug: the listing is not scoped to the owner.
Unscoped_Listed ==
    {d \in live : Cardinality({e \in live : e > d}) < ListLimit}

\* list_for_owner(limit=500), newest first.
Listed ==
    LET mine == {d \in live : Owner[d] = Searcher}
    IN {d \in mine : Cardinality({e \in mine : e > d}) < ListLimit}

List ==
    /\ stage = "idle"
    /\ task' = "search"
    /\ owned' = Listed
    /\ scope' = Listed \cap ready
    /\ Goto("listed")
    /\ UNCHANGED <<library, hits, aborted, answer, passages>>

\* A query of the filenames, which sees what was uploaded since.
SearchFilenames ==
    /\ stage = "listed"
    /\ names' \in Rankings({d \in live : Owner[d] = Searcher}, Limit * Multiplier)
    /\ Goto(IF scope = {} THEN "retrieved" ELSE "named")
    /\ UNCHANGED <<library, task, owned, scope, lexical, dense, strong, aborted, answer,
                   passages>>

\* The database fails where nothing catches it.
ListingFails ==
    /\ stage = "listed"
    /\ Goto("failed") /\ aborted' = TRUE
    /\ UNCHANGED <<library, task, owned, scope, hits, answer, passages>>

-----------------------------------------------------------------------------
(* A question put to a document that was READY when the request loaded it *)

Ask(d) ==
    /\ stage = "idle"
    /\ d \in ready
    /\ task' = "chat"
    /\ scope' = {d}
    /\ Goto("named")
    /\ UNCHANGED <<library, owned, hits, aborted, answer, passages>>

-----------------------------------------------------------------------------
(* Retrieval: search_documents and retrieve_for_document *)

Visible == {c \in Chunks : c[1] \in scope \cap ready}

SearchLexical ==
    /\ stage = "named"
    /\ lexical' \in Rankings(Visible, Candidates)
    /\ Goto("worded")
    /\ UNCHANGED <<library, task, owned, scope, names, dense, strong, aborted, answer,
                   passages>>

\* A search goes on without contents, a question fails.
LexicalFails ==
    /\ stage = "named"
    /\ aborted' = TRUE
    /\ Goto(IF task = "search" THEN "retrieved" ELSE "failed")
    /\ UNCHANGED <<library, task, owned, scope, hits, answer, passages>>

\* The provider's vector of the query, or its failure, which is swallowed.
Embed ==
    /\ stage = "worded"
    /\ Goto("embedded") \/ Goto("retrieved")
    /\ UNCHANGED <<library, task, owned, scope, hits, aborted, answer, passages>>

\* Hits below _MIN_SIMILARITY are dropped; those that are left are most similar first.
SearchDense ==
    /\ stage = "embedded"
    /\ dense' \in Rankings(Visible, Candidates)
    /\ strong' \in 0..Cardinality(DOMAIN dense')
    /\ Goto("retrieved")
    /\ UNCHANGED <<library, task, owned, scope, names, lexical, aborted, answer, passages>>

\* Swallowed as well, without a rollback.
DenseFails ==
    /\ stage = "embedded"
    /\ Goto("retrieved")
    /\ aborted' = TRUE
    /\ UNCHANGED <<library, task, owned, scope, hits, answer, passages>>

\* Variant with a bug: without the dense side nothing is returned.
Undegraded_Retrieved == IF dense = Nothing THEN Nothing ELSE Fused(dense, lexical, Top)

Retrieved == Fused(dense, lexical, Top)

-----------------------------------------------------------------------------
(* The answers *)

\* Variant with a bug: every hit counts, however weak.
Any_Kept == DOMAIN Retrieved

\* A hit of the embeddings alone has to be a strong one.
Kept == {c \in DOMAIN Retrieved : c \notin DOMAIN lexical => dense[c] <= strong}

KeptOf(d) == {c \in Kept : c[1] = d}

\* Variant with a bug: a document's last hit overwrites its first.
Last_Passage(d) ==
    CHOOSE c \in KeptOf(d) : \A e \in KeptOf(d) : Retrieved[e] <= Retrieved[c]

\* Only the first hit of a document counts, and is its excerpt.
Passage(d) ==
    CHOOSE c \in KeptOf(d) : \A e \in KeptOf(d) : Retrieved[c] <= Retrieved[e]

Content == [d \in {c[1] : c \in Kept} |-> Retrieved[Passage(d)]]

\* The cut comes first, then what was not listed is dropped.
Results ==
    LET ranked == Fused(names, Content, Limit)
    IN [d \in DOMAIN ranked \cap owned |->
           [place |-> ranked[d],
            excerpt |-> IF KeptOf(d) = {} THEN None ELSE Passage(d)]]

AnswerSearch ==
    /\ stage = "retrieved" /\ task = "search"
    /\ answer' = Results
    /\ Goto("answered")
    /\ UNCHANGED <<library, task, owned, scope, hits, aborted, passages>>

\* The history is read next, in the same transaction; the passages are put in
\* the order of the document.
AnswerQuestion ==
    /\ stage = "retrieved" /\ task = "chat"
    /\ \/ aborted /\ Goto("failed") /\ UNCHANGED passages
       \/ ~aborted /\ Goto("answered") /\ passages' = DOMAIN Retrieved
    /\ UNCHANGED <<library, task, owned, scope, hits, aborted, answer>>

Done ==
    /\ stage \in {"answered", "failed"}
    /\ task' = "none" /\ stage' = "idle" /\ owned' = {} /\ scope' = {}
    /\ names' = Nothing /\ lexical' = Nothing /\ dense' = Nothing /\ strong' = 0
    /\ aborted' = FALSE /\ answer' = Nothing /\ passages' = {}
    /\ UNCHANGED library

-----------------------------------------------------------------------------
(* Specification *)

Next ==
    \/ Upload
    \/ \E d \in Docs : Process(d) \/ Delete(d) \/ Ask(d)
    \/ List \/ SearchFilenames \/ ListingFails
    \/ SearchLexical \/ LexicalFails \/ Embed \/ SearchDense \/ DenseFails
    \/ AnswerSearch \/ AnswerQuestion \/ Done

Spec == Init /\ [][Next]_vars

-----------------------------------------------------------------------------
(* Properties *)

Searched == task = "search" /\ stage = "answered"

\* A search shows the searcher's own documents, each with a passage of its own,
\* and the model is given passages of the document it is asked about: neither
\* retriever reaches beyond what the request is about.
OwnDocumentsOnly ==
    /\ \A d \in DOMAIN answer :
          /\ Owner[d] = Searcher
          /\ answer[d].excerpt # None => answer[d].excerpt[1] = d
    /\ \A c \in passages : c[1] \in scope

\* Whatever is listed has a reason: its name, a word in it, or a passage that
\* is really similar (a listed result reads as an assertion of relevance).
Warranted == Searched =>
    \A d \in DOMAIN answer :
       \/ d \in DOMAIN names
       \/ \E c \in DOMAIN lexical : c[1] = d
       \/ \E c \in DOMAIN dense : c[1] = d /\ dense[c] <= strong

\* A document with the better name or as good as none, and a better passage or
\* none needed, comes first: its length, or where its other passages rank, does
\* not decide.
BetterName(d, e) == e \in DOMAIN names => d \in DOMAIN names /\ names[d] < names[e]

BetterPassage(d, e) ==
    \A c \in KeptOf(e) : \E b \in KeptOf(d) : Retrieved[b] < Retrieved[c]

ClearlyBetterFirst == Searched =>
    \A d \in owned, e \in DOMAIN answer :
       d # e /\ BetterName(d, e) /\ BetterPassage(d, e) =>
          d \in DOMAIN answer /\ answer[d].place < answer[e].place

\* With the embeddings out, a document whose name or words were found is missing
\* only if as many as were asked for beat it in one of the two rankings.
KeywordsSurvive ==
    LET word(d) == {c \in DOMAIN lexical : c[1] = d /\ lexical[c] <= Top}
        beats(e, d) ==
            \/ e \in DOMAIN names /\ (d \in DOMAIN names => names[e] < names[d])
            \/ \E b \in word(e) : \A c \in word(d) : lexical[b] < lexical[c]
    IN Searched /\ dense = Nothing =>
          \A d \in owned \ DOMAIN answer :
             d \in DOMAIN names \/ word(d) # {} =>
                Cardinality({e \in Docs \ {d} : beats(e, d)}) >= Limit

\* A chunk that both retrievers found outranks every chunk that only one of them
\* did, as long as no more candidates are asked for than RRF_K + 1.
FoundByBoth(c) == c \in DOMAIN dense /\ c \in DOMAIN lexical

AgreementOutranks ==
    stage \in {"retrieved", "answered"} /\ Candidates <= RRF_K + 1 =>
       \A b \in Chunks, c \in DOMAIN Retrieved :
          FoundByBoth(b) /\ ~FoundByBoth(c) =>
             b \in DOMAIN Retrieved /\ Retrieved[b] < Retrieved[c]
=============================================================================
