# Verification of the document service

TLA+ models of the FastAPI back end under `src/`: a service where users upload
PDFs, a background pipeline embeds and summarises them, and owners share them
with guests who read, comment and chat. The models are checked with TLC on
small instances; the theorems in the `*Proofs` modules are proved with TLAPS
for every value of the constants.

All source paths below are relative to `src/app/` unless they say otherwise.

## 1. The system

| Component | State | Operations | Talks to |
|---|---|---|---|
| **Document lifecycle** (`services/document_service.py`, `services/processing_service.py`, `jobs/`, `controllers/document_controller.py`) | `documents`, `document_chunks`, one blob per document, the job in memory | upload, background job, delete | PostgreSQL, blob store, AI provider |
| **Share links and authorization** (`services/authorization_service.py`, `services/sharing_service.py`, `api/deps.py`, `storage/signed_links.py`) | `shares`, `guest_sessions`, signed tokens outside the database | resolve a principal, authorize, create, revoke, join, mint a download link | every route |
| **Accounts and password reset** (`services/auth_service.py`) | `users`, `password_reset_tokens` | signup, login (may rehash), forgot, reset | mail sender |
| **Chat** (`services/chat_service.py`, `controllers/chat_controller.py`) | `conversations`, `messages` | history, ask, ask as a stream | retrieval, AI provider |
| **Comments** (`services/comment_service.py`) | `comments` | create, edit, soft delete, list as a thread | authorization |
| **AI provider adapter** (`ai/gemini_provider.py`) | the batches of a call, its attempts | generate, stream, embed in batches, retry | Gemini |
| **Chunking, extraction, summarisation** (`ai/chunking.py`, `ai/extraction.py`, `ai/summarization.py`) | none: pure functions over the text | | lifecycle |
| **Retrieval and search** (`ai/retrieval.py`, `services/document_service.py`) | none: rankings over query results | fuse vector, keyword and filename rankings | pgvector, pg_trgm |
| **Database engine** (`core/database.py`) | the connection pool of a worker process | check out, return, time out | everybody |
| **Blob storage** (`storage/`) | files | upload, download, delete | lifecycle, downloads |
| **Shell** (`main.py`, `core/middleware.py`, `schemas/`, `email/`, migrations, scripts) | none | | |

How they interact. Every request and every job has a database session of its
own (`core/database.py`). Repositories only flush; the *controller* commits,
once per request. So the state two actors share is what has been committed,
plus the row locks PostgreSQL keeps for what has been flushed, plus whatever
lives outside the transaction: blobs, signed tokens, mail, the in-memory job
queue. Jobs and requests are never redelivered; the one thing that is tried again
is opening a stream of the AI provider.

What makes the system hard is in `PROJECT.json` under `hazards`, each at its
line. The groups are:

- *two sessions on one row*: a job and a delete, two deletes, a revocation and
  a join, two redemptions of one reset token, two first chat questions;
- *a check and its use apart*: authorization reads the share, later statements
  rely on it; a handler works on an object loaded before an `await`;
- *outside the transaction*: a blob unlinked before the commit that removes its
  row, mail sent before a commit, tokens that outlive what they stand for;
- *failure half way*: a commit that fails or whose reply is lost, a storage or
  AI error in the middle of the pipeline, a worker that dies with its jobs;
- *termination*: somebody polls a status, somebody waits for a lock or for a
  connection of the pool;
- *limits*: a pool of few connections that callers of a slow provider keep, a
  budget of tokens, a cut of a ranking.

What correctness means per component: a document's status tells the truth about
its chunks and its file, outcomes are final and deletion is for good
(lifecycle); nobody acts after the link he depends on has lapsed or beyond what
it grants, and nothing outlives its document (sharing); nobody redeems a reset
link that had lapsed when he asked, the newest request voids the earlier ones
and the password last chosen opens the account (accounts); a conversation of
one's own with a transcript in order, and nothing said to be saved that is not
(chat); one level of threading, nothing missing from a thread and no edit of a
deleted comment (comments); nothing lost between the text of a document and
its chunks, vectors and summary (ingestion); results that are the searcher's
own, each with a reason to be there, in an order that the rankings they were
fused from justify (search); every connection accounted for and given back, no
text of two attempts in one answer, and no job or stream that ends without
saying how (worker process).

## 2. Modules

| Module | Models | Role |
|---|---|---|
| `DocumentContract` | what the lifecycle promises to readers | abstract specification |
| `DocumentLifecycle` | upload, job, delete, crash | detailed specification, implements `DocumentContract` |
| `DocumentLifecycleProofs` | | TLAPS |
| `ShareAccess` | requests of owners and guests, links, deletion | specification |
| `ShareAccessProofs` | | TLAPS |
| `Accounts` | signup, login, forgotten passwords, mail | specification |
| `AccountsProofs` | | TLAPS |
| `TranscriptContract` | what the chat promises to readers of transcripts | abstract specification |
| `ChatConversations` | history, ask, ask as a stream | detailed specification, implements `TranscriptContract` |
| `ChatConversationsProofs` | | TLAPS |
| `CommentThreads` | posting, editing, deleting and listing comments | specification |
| `CommentThreadsProofs` | | TLAPS |
| `Ingestion` | chunking, embedding and summarising one text | specification |
| `IngestionProofs` | | TLAPS |
| `RankFusion` | reciprocal rank fusion of two rankings | operators |
| `DocumentSearch` | the dashboard's search and the retrieval for a question, while documents come and go; extends `RankFusion` | specification |
| `DocumentSearchProofs` | | TLAPS |
| `WorkerProcess` | the connection pool and the provider as callers of one process share them | specification |
| `WorkerProcessProofs` | | TLAPS |
| `MC*` + `*.cfg` | instances of the specification they are named after | TLC |

The specifications share no variables. They meet in five places, which each
models as far as it matters to it: deleting a document (`DeleteBlob` and the commit
after it in `ShareAccess` and `DocumentLifecycle`, one step of the database in
`ChatConversations` and `CommentThreads`, where only its cascade is observable);
who may do what (`ShareAccess` alone; in the chat and comment modules everybody
is let in, except that ownership of a comment is theirs to check); the
outcome of processing (`Ingestion` follows one text with no faults but the
provider's, `DocumentLifecycle` takes its result as a choice and adds the
transactions, crashes and deletes around it); retrieval (`DocumentSearch`; to
`ChatConversations` it is part of a call that may fail); and the call of the
provider, which every module but `WorkerProcess` takes as one step that succeeds
or fails.

Each module that carries mutants (`Variant with a bug: ...`) defines them just
before the operator they vary; no behaviour of the specification uses them.
They show that each property can fail.

### DocumentLifecycle

| Variable | In the code |
|---|---|
| `row`, `chunks` | committed `documents` row (status, failure_reason, chunk_count) and number of committed `document_chunks` |
| `blob` | the PDF under the row's `blob_key` |
| `pc` | the statement the upload request, and after it `process_document_job`, has reached |
| `image`, `staged`, `parsed` | that session's uncommitted row, its uncommitted chunks, the local `chunks` list |
| `dpc`, `target` | the statement a delete request has reached and its document |

One action per statement that reads or writes shared state, from
`DocumentService.create` to the recovery handler of the job. A call that raises
is `Raise(d)` or `DRaise(r)`, which say for each stage what is around it, unless
the code catches that very error (storage, AI), which is a disjunct of the
action of the call. A flush takes the row's lock until
the session ends (`Locked`); an `UPDATE` of a row deleted meanwhile raises
`StaleDataError`, a `DELETE` of one is only a warning. `Crash(w)` ends
everything on one gunicorn worker and rolls its sessions back.

Abstractions: a chunk is counted, not represented; text, summary and page count
are left out; extraction and chunking are one choice, since nothing else can
observe them; the upload's bytes are valid (`validate_upload` refuses before
anything is stored).

### ShareAccess

| Variable | In the code |
|---|---|
| `docs`, `share`, `guest`, `comments` | committed rows; `share[s]` holds document, permissions, `expires_at`, `revoked_at` set or not |
| `blobs`, `orphans` | PDFs in the store; those whose deletion failed and was logged |
| `token`, `links` | expiry of the JWT a guest holds; download links handed out |
| `now` | the clock all expiry checks read |
| `stage`, `ask`, `principal`, `draft` | per request in progress: how far it is, what it asks, its `Principal`, the row it is about to insert |
| `used`, `timely` | history: ids already issued; whether the request's link and document were good when it arrived |

A request takes the steps the code takes: `get_principal` reads guest session
and share, `authorize_document` reads the document, then the handler flushes
and commits. Steps of different requests interleave freely. The foreign keys
act through locks: an insert holds its parents, a delete holds the document and
all that hangs on it. `Abandon` is any exception, a client that disconnects or
a worker that dies. `chat` is left out because its routes ask for CHAT exactly
as the comment routes ask for COMMENT; routes that only read (preview,
list_shares) take the same two steps and then change nothing.

### Accounts

| Variable | In the code |
|---|---|
| `account` | committed `users`: address, the password the hash opens to, whether the hash is under older Argon2 parameters, `is_active` |
| `reset` | committed `password_reset_tokens`: user, expiry, `used_at` set or not |
| `mail` | tokens whose link has been mailed, which is before their commit |
| `now` | the clock |
| `stage`, `ask`, `session` | per request in progress: how far it is, what it asks, the user and tokens its session has read and may write |
| `timely`, `before`, `issued`, `chosen` | history: whether a reset's token was good when it arrived; what was committed when a token was asked for; ids in use; the password last chosen |
| `overtaken` | history: accounts reset while a login was upgrading their hash |

Signup checks `email_exists` and inserts; the unique index answers the race.
Login verifies, and rewrites the hash when its parameters are old. A forgotten
password voids the tokens it can see, inserts one, mails it and commits; a
reset reads the token, sets the password, burns the token, voids the rest and
commits. Only what was mailed can be redeemed. A hash is represented by the
password it opens to, a digest by the token; an address is normalised already.
`overtaken` remembers the accounts for which a login was between verifying and
writing the upgraded hash when a reset committed: there the old password comes
back (section 6), and `ChosenPasswordOpens` says that it does so nowhere else.

### ChatConversations

| Variable | In the code |
|---|---|
| `conv` | committed `conversations`: the principal each belongs to |
| `turn` | committed `messages`, as turns: conversation, whether answered, and which of the two random ids is the greater |
| `gone` | whether the document was deleted, with all that hangs on it |
| `begun`, `issued` | turns and conversation ids in use |
| `stage`, `ask`, `session` | per request in progress: how far it is, what it asks, the conversation and messages its session has flushed and the transcript it was given |
| `told` | what the client of each turn was told last |
| `before` | history: the conversations there were when one was begun |

One request is one transaction, whose `now()` stamps both messages of a turn.
Every request finds or creates the conversation of its principal; no unique
constraint forbids a second. The provider's call is a step between the two
flushes. A streamed answer reaches the client before its commit; a deleted
document makes the flush or commit after it fail. Retrieval, passages and
citations are left out: they read, and their failure is a failure of the call.

`get_or_create_conversation` reads and then inserts, so two first requests that
overlap leave two conversations (section 6). `NoNeedlessConversation` states what
does hold, and does not assume the race away.

### CommentThreads

| Variable | In the code |
|---|---|
| `comment` | committed `comments`: parent, author, whose text the body is, `deleted_at` set or not |
| `gone` | whether the document was deleted |
| `begun` | comments begun, which numbers them in the order of `created_at` |
| `stage`, `ask`, `image` | per request in progress: how far it is, what it asks, the row its session holds and is about to write |

A create flushes its insert, which holds the parent and the document; edit and
soft delete only change the object their session has read, and the `UPDATE` goes
out with the commit, carrying the column they changed and no other. `Thread` is
`CommentService.list_thread`: roots in order, a deleted root only if it has
replies, deleted ones included.

### Ingestion

| Variable | In the code |
|---|---|
| `blocks` | `_to_blocks`: the estimated tokens of each block of the text |
| `next`, `current`, `chunks` | the loop of `chunk_document`: where it is, the chunk being packed, the chunks flushed; a chunk is the numbers of its blocks |
| `vectors`, `stored` | what `GeminiProvider.embed` has gathered batch by batch; the rows of `embed_and_store` |
| `read`, `notes`, `summary` | the map-reduce loop: chunks sent for notes, notes with content, what the summary was made of |
| `phase` | which call of `ProcessingService.process` is under way, or how it ended |

A sentence is its length in characters, so the token estimate and its rounding
are the code's. Page ranges and wording are left out. The model sends each call
once: see the note on the retry policy in section 6.

### RankFusion and DocumentSearch

| Variable | In the code |
|---|---|
| `created`, `live`, `ready` | committed `documents`: ever created, still there, READY |
| `task`, `stage` | what the request does and which query it has come to |
| `owned`, `scope` | `by_id` of `search`; the `document_ids` whose chunks are searched |
| `names`, `lexical`, `dense` | the three rankings the database has answered with, each a function from what was found to its rank |
| `strong` | how many of the dense hits reach `search_min_similarity` |
| `aborted` | a statement of this transaction failed and nothing rolled it back |
| `answer`, `passages` | the results of a search; the passages of a question |

What matches and how well is up to PostgreSQL and the embeddings, so a query
answers with *any* ranking of rows it can see then; the dense one may miss some,
as its HNSW index is approximate. What is translated is what the code makes of
the answers: scopes, candidate limits, the fusion with its stable sort, the
similarity filter, one hit per document, the cut, the order in which cut and
lookup happen, and which failures are swallowed. Each query sees what is
committed by then. Scores are exact fractions; passages are a set, as they are
put in document order afterwards; relevance and `matched_on` are left out.

### WorkerProcess

| Variable | In the code |
|---|---|
| `out` | connections the pool has given out |
| `stranded` | those of them whose session will only be found by the garbage collector |
| `pc`, `kind` | per caller: where it waits or works, and which kind of request it is |
| `outcomes` | how the attempts of its last provider call ended |
| `shown` | of each piece of text streamed, the attempt it came from |
| `owed` | after the response: a stream still owes its last event, a job its document's status |
| `exposed` | history: what failed was outside every handler |

A session takes a connection with its first statement and gives it back when it
ends, so a caller holds one throughout its calls of the provider. A request's
session is closed before its response is sent (FastAPI closes dependencies with
`yield` first), so the body of a stream and the job of an upload take one anew.
A wait ends with a connection or, after `pool_timeout`, with an error. A reader
who hangs up cancels the stream's generator past both of its handlers, which
leaves the connection to the garbage collector. The retry policy is modelled
where the code applies it, on the error as it arrives there: `generate` and
`_embed_batch` have turned it into an `AIProviderError` by then. Left out: the
waits between attempts, `pool_pre_ping`, what is asked and answered.

## 3. Runs

| Run | Instance | Shows |
|---|---|---|
| `lifecycle_safety` | 1 document, 2 deletes, 2 workers, at most 2 chunks, all faults, fair | statuses are honest; a missing PDF is a delete's doing; implements `DocumentContract`; polling, and every upload, job and delete, ends unless the provider hangs |
| `access_scope` | 2 documents of 2 owners, 1 link, 1 guest, requests one after the other | effects stay within what the actor holds; a download works no longer than the document exists |
| `access_races` | 1 document, 1 link, 1 guest, 2 requests at a time, time passing, fair | no late grant; nothing outlives its document; every request but a delete ends |
| `accounts` | start 1: an account with an old hash, 2 reset tokens; start 2: that account, a deactivated one, 2 more ids and 3 addresses; 2 passwords, 2 requests at a time, time passing, fair | one account per address; no late redemption; a committed request voids those before it; the password chosen last opens; every request ends |
| `chat_safety` | 2 principals, 2 conversations, 3 turns, window of 2 messages, 2 requests at a time | transcripts are one's own and in order; an answer reported saved is; no needless conversation; implements `TranscriptContract` |
| `comments_safety` | owner and guest, 3 comments, 2 requests at a time | no comment missing that is not deleted; texts are their authors'; deletion is final |
| `ingestion` | texts of up to 5 one-sentence paragraphs, or 2 of up to 3 sentences, of lengths 1, 4, 5, 8 against a target of 6 characters | nothing lost; chunk budget; own vectors; summary of all |
| `search` | 2 documents of two owners and a third to come, 2 chunks in one; listing cut at 2, 1 result, 3 and 9 candidates | own documents only; every result warranted; the clearly better first; the words survive without embeddings; what both retrievers found outranks what one did |
| `worker` | 3 callers of any kind, 2 connections, 3 attempts, 1 piece of text, fair | connections accounted for; no text of two attempts; no silent end but the known ones; waits end and the pool recovers |
| `lifecycle_broken_document`, `comments_empty_thread`, `provider_retry` | smallest that shows it | what a comment or the documentation says and the code does not do (section 6) |

Why the bounds are enough. Documents share no row, no lock and no blob, only the
worker that may crash, and the proofs of section 4, which cover any number of
them, need no fact that relates two; so one suffices for the liveness properties,
and its two deletes run on different workers. A row is contended by its job and
by deletes, and two deletes show a delete waiting for a delete while the job runs,
and a job caught between them. One chunk tells "some" from "none"; two show that
`chunk_count` is a count.

The type invariants of `DocumentLifecycle`, `ChatConversations`, `CommentThreads`,
`DocumentSearch` and `WorkerProcess`, and `SingleWriter`, `OutcomeFinal`,
`NoResurrection`, `OneLevel` and `NoFutileRetry`, are in no run: section 4 proves
them for every instance.

Where requests have slots, an actor interacts with one other at a time through
a lock or a committed row, which two slots show, and a slot is used again as
often as ids last, so histories such as create, join, comment, revoke, comment
again are all there. `access_scope` gives that up for a second document,
owner and set of permissions, since what an actor may reach is decided within
one request. `Horizon` 1 puts every expiry both in the past and in the future;
the runs about permissions and addresses freeze the clock, as neither depends
on it. `MaxLinks` keeps the set of links small: a link is never consumed, so
one suffices, and none where only deadlines of shares matter. Two tokens are
the least for one to void the other. Three turns and a window of two make a
transcript that is cut; three comments make two replies under a root and a
reply to a reply. The lengths in `Ingestion` are 1, 2, 2 and 4 tokens against a
target of 3 and an overlap of 2, rounding included; five blocks fill two batches
and sections and begin a third.

In `search` two chunks of one document compete with one of another, both
retrievers and the filenames can disagree on all of them, and with one result
every rank matters to the cut; nine candidates are within `RRF_K + 1`, as they
are for chat. In `worker` the third caller finds the pool exhausted by the other
two; three attempts are the code's number; a piece before the break is enough to
tell two attempts apart.

Deadlock is checked in every run. `AllQuiet` and `Finished` are stuttering steps
of states in which everything has ended.

### Fairness

In `DocumentLifecycle`, `WF(Proceed(d))` and `WF(DProceed(r))`: PostgreSQL and the
blob store answer (a local disk, or Azure's client with its default timeouts), and
the event loop resumes the coroutine that awaits the answer. A lock that is held
is no answer: the steps that need it are not enabled. Failures are no part of what
is fair, so no wait ends because something is bound to fail. Nothing is assumed of
the AI provider, as `ai/gemini_provider.py:87` builds its client without a timeout:
its two calls (`AskProvider`) are in no fairness condition, and the liveness
properties name what follows. `Hung(d)` is a job inside a provider call for ever.
`EverythingSettles` promises an end to every upload and job unless the job itself
is hung, and to every delete unless the job of its document is: the delete waits
for that job's row lock, and for nothing else without end. `PollingEnds` holds
under all faults with two excuses, `Hung(d)` and a job that has stopped:
its worker died, its upload's commit lost its reply before it was queued, or its
first read or its recovery raised. Then the document stays UPLOADED, as nothing
resumes a job (`src/README.md:529-531` admits it for a restart).

In `ShareAccess` and `Accounts`, `WF(Proceed(q))`: PostgreSQL and the store answer,
and the mail sender does or gives up (`email/senders.py:15`, 10 seconds).
`SF(AwaitLock(q))`: a statement that sleeps on a
row's lock is first in the queue when the lock is released, so a sequence of
others that all roll back cannot starve it. Nothing of the kind is assumed of a
delete of a document: inserts share the lock among themselves and may overtake
it, which is why `EveryRequestEnds` of `ShareAccess` excludes deletes (in
`DocumentLifecycle` every rival of a delete is finite, and weak fairness is
enough). Clients, crashes, faults and the clock are never fair.

In `WorkerProcess` a wait for a connection is fair because `pool_timeout` ends
it (`CheckOut \/ Refuse`), the process's own steps are, and so is the garbage
collector. Nothing is assumed of the provider: the SDK is given no timeout. So
`PoolRecovers` promises the end of every wait unconditionally and that an
exhausted pool recovers only if the provider keeps nobody for ever.

## 4. Proofs

`DocumentLifecycleProofs` proves, for any sets of documents, deletes and
workers, any placement, any bound on chunks and any set of faults:

- `TypeCorrect`, `LocksExclude`, `StatusHonest`, `BlobBeforeRow`,
  `ImplementsContract`: the safety properties of `lifecycle_safety`, and
  `SingleWriter`. The contract lets READY be taken back (`Amend`) only where a
  commit can lose its reply, since the job's handler does so then;
- `DeletedForGood`: `NoResurrection`, which the contract contains;
- `FinalOutcome`: `OutcomeFinal`, assuming `"lostReply" \notin Faults`; it is what
  the contract loses with `Amend`.

None of the safety properties is inductive. `ChunksMatchStatus` speaks of
committed rows, and a commit publishes whatever the session holds; so the
invariant `IInv` says, for each stage, what the session's row image and staged
chunks may be and what the committed row still is (`RowByStage`), that only a
session at a locking stage differs from the committed row, and how far a delete
has got when a row has lost its blob. `IInv` is TypeOK, one such conjunct per
document (`DocInv`), one per delete (`DeleteInv`) and `BlobBehindRow`. The proof
that steps preserve it goes action by action; `DocFrame` and `DocInvFrame`
reduce each action to the one document it touches. The refinement follows from
`IInv`: outside the commits `published` does not change, and the commits of an
upload, a job and a delete are Create, Publish and Remove; that of the job's
handler is Publish or, after a lost reply, Amend, for which `IInv` says that the
handler holds the chunks as they are published.

`CommentThreadsProofs` proves, for any principals, any number of requests at a
time and any number of comments, the properties of `comments_safety` and
`OneLevel`: `TypeCorrect`, `ThreadHasOneLevel`, `NothingIsMissing`,
`TextStaysAuthors`, `DeletedStaysDeleted`. A thread has one level because a reply
to a reply was refused when its parent was *read*; so `IInv` adds to the
committed rows what each session holds: the row it is about to write agrees with
the committed one in everything an edit or a delete leaves alone, an insert's
parent is a root that is there as long as the insert is flushed, and no two
sessions insert the same id. `CommitFrame`, `SessionFrame` and `ChangeRow` reduce
a step to the row it commits and the session it advances.

`DocumentSearchProofs` begins with the arithmetic: scores are fractions, `Exceeds` is
transitive on them, `Precedes` is a strict order, and

- `BetterInBothScoresMore`: what ranks better in one list and no worse in the
  other precedes;
- `BothPrecedesOne`: with ranks up to `RRF_K + 1` two appearances outweigh one,
  since 2 / (2 RRF_K + 1) > 1 / (RRF_K + 1); the bound is where it ends.

From it follow, for any damping constant, limits, owners and lengths:
`OwnDocuments`, `ResultsWarranted`, `BetterFirst`, `AgreementFirst`, `WordsSuffice`.
`IInv` ties each stage to the scope (`ScopeInv`: chunks found are of listed
documents of the searcher, or of the document asked about) and an answer to
`Results` (`AnswerInv`); the rest follows from the rankings being rankings, which
is why the type invariant says so.

`WorkerProcessProofs` proves, for any number of callers, any limit of the pool
and any number of attempts: `PoolAccounted`, `TextOfOneAttempt`,
`SilenceExplained` and `RetriesBounded` (`NoFutileRetry`: what cannot clear is not
tried again, and nothing more often than the limit). `NoLeak` counts, so its steps
go by how the set of callers at work changes (`OneLess`, `OneMore`, `AsMany`);
`Tries` and `Text` add what is true of a call *in progress*, which the
properties about ended ones need; `Debts` that nothing is owed before the response.

`ShareAccessProofs` proves every invariant of `access_scope` and `access_races`,
for any documents, owners, links, guests, requests at a time and any horizon:
`LapsedLinkStopsRequest` (`NoLateGrant`), `CascadeIsComplete`
(`NothingOutlivesDocument`), `GrantsBoundEffects` (`EffectsWithinGrants`),
`LinksDieWithDocument` (`BytesGoWithDocument`). What a handler may do was decided
when the principal was resolved, and rows have changed since. `IInv` therefore
says of each request what the decision still rests on: `Faithful` that a guest's
principal is what his link grants as long as the document is there, `Entitled`
that the handler's actor has the permission for it, `Held` that what has been
flushed refers to rows that are there, and `Prompt` that a refusal due at arrival
does not become a grant. `Exclusion` has what two requests owe to locks and ids:
whoever deletes a document is alone on it.

`AccountsProofs` proves the invariants of `accounts`, for any tables to start
with: `EmailsAreUnique`, `LapsedLinkRedeemsNothing`, `OlderLinksAreVoid`,
`LastChosenPasswordOpens`. An address is looked for long before it is inserted, so
`Joining` and `Apart` say that an address that is inserted and not committed is
nobody's, committed or inserted (the unique index). `OlderLinksAreVoid` needs,
while a request for a link is under way, that every link of its account that it
will not void is used already (`Asking`), and of the rows that a committed link
has voided its elders (`RowsInv`). `Entering` says that a verified password is the
one chosen until a reset overtakes the login, which is where the code goes wrong
and the property stops.

`ChatConversationsProofs` proves the invariants of `chat_safety`, for any
principals, any number of turns, any window and any requests at a time:
`HistoryOfOnesOwn`, `HistoryIsChronological`, `ConversationsAreReused`,
`AnswersAreSaved`. `recent_messages` is an order by two columns, a limit and a
reversal: `OlderOrder` shows the order strict, `NewerFewer` that the younger of two
messages has fewer before it, `WindowRanks` that those within the window are
numbered without a gap (an injection between sets of one size is onto), and
`RecentMessages` what follows for the list returned. `IInv` has, per request, that
its turn is its own and unsaved (`Shape`), that its conversation is its
principal's or new and unknown to anybody else (`Own`), what it has added and when
(`Added`), and that the history it holds is of turns begun earlier whose rows, if
they are still there, lie in its conversation (`Read`); `StepInv` and `SlotStays`
reduce a step to the one request that takes it. `ImplementsTranscript` is the
refinement of `TranscriptContract`, whose variables are the committed tables
(`conv`, `turn`, `gone`): a commit is a `Speak`, since by `IInv` its turn is unsaved,
its conversation its own to open or still there, and the document too, if the
session has flushed anything (`CommitSpeaks`); a delete is a `Close`; all else,
failures and rollbacks included, is a stutter (`RequestStutter`).

`IngestionProofs` proves every property of `ingestion`, for any texts, limits,
batches, sections and notes: `TextIsKept` (`NothingLost`), `BudgetIsKept`
(`ChunkBudget`), `VectorsAreOwn`, `SummaryIsOfAll`. The loops that only compute are
recursive functions, and what they return for any input is an induction over its
length: `LeastExists` (a set of naturals has a least element) gives `EveryTurn`, an
induction over a *set* of turns, and `LoopExists`, that such a function exists at
all. From these come sums (`PartialSums`, `SumOfLonger`) and the type of
`ToBlocks`. `IInv` says of each chunk that it goes on where the one before ended
(`GoesOn`), and of the chunk being packed that it does too and ends with the
last block read; what is carried over is a tail of a chunk (`CarryIsTail`), hence
begins no later than the block that did not fit. Vectors and sections read are
the first ones in order (`InOrderInv`); the notes sent are a head of them, and
the head of all unless they are over the budget (`ForemostIsHead`).

The assumptions are the modules' own (`LifecycleAssumption`, `AccessAssumption`,
`AccountsAssumption`, `ChatAssumption`, `CommentsAssumption`, `FusionAssumption`,
`IngestionAssumption`, `SearchAssumption`, `WorkerAssumption`): placements are total,
bounds and times are naturals, what a share may grant and faults are of the known
kinds, tables to start with have unique addresses, the owner is a principal, `None`
is no id, account or row, the callers are finitely many and sentences are not empty.

Every invariant and action property of a passing run, and the refinements of
`DocumentContract` and `TranscriptContract`, is a theorem. Only model-checked: liveness (`EverythingSettles`,
`PollingEnds`, `EveryRequestEnds`, `PoolRecovers`), which is out of the prover's
reach.

## 5. Plan

Done: every component of section 1 but the shell has its module, its runs and its
proofs, and the lifecycle and the chat their abstract specifications. Left: an
abstract account (one address, one password, at most one link that opens it),
implemented by `Accounts` as far as the logins and resets that section 6 is about
allow.

## 6. Where the documentation and the code disagree

With a run that shows it:

- `services/document_service.py:121-123` wants the blob deleted after the row so
  that no live row loses its PDF, but the unlink precedes the *commit*
  (`lifecycle_broken_document`).
- `ai/gemini_provider.py:34` and `39-41` retry what clears on its own; `generate`
  and `_embed_batch` convert the error inside the retried function (lines 134-136
  and 189-191), so the retry never applies to them and one 503 during ingestion
  marks the document FAILED (`provider_retry`).
- `services/comment_service.py:113` says that a deleted root "with no surviving
  replies carries no information"; the filter below it asks whether the root has
  replies, deleted ones included, so a thread in which nothing is left to read is
  still listed (`comments_empty_thread`). `NothingMissing` is silent about deleted
  comments: it asks only that what is not deleted be shown.

Read in the code while modelling. The behaviours are in the models where these
are modelled at all, but no run is about them:

- `src/README.md:529-531` says a restart leaves a document in PROCESSING; that
  status is flushed but never committed, so it stays UPLOADED.
- `jobs/document_processor.py:5-6` says any unexpected failure is recorded on
  the row; the first read and the handler itself can fail unrecorded.
- `services/processing_service.py:82-83` says chat works after a failed summary;
  `services/chat_service.py:71-75` refuses FAILED documents.
- `models/password_reset_token.py:19` and `src/README.md:451-453` call a link
  single-use; two overlapping redemptions both pass the check.
- `email/base.py:29-32` and `src/README.md:544-545` say mail follows what it
  announces; a reset link is mailed before its token is committed.
- `api/v1/routers/auth.py:72-73` says redeeming a link voids the others; one
  that is being asked for at that moment stays.
- `repositories/conversation_repository.py:42` promises chronological order; the
  two messages of a turn share a timestamp and are then ordered by random ids.
- `services/chat_service.py:142-143` keeps a question whose answer failed; the
  request's rollback removes it.
- `controllers/chat_controller.py:92` ends every stream with an event; what is
  awaited before its `try` can still break it off.
- `services/chat_service.py:45` and `repositories/conversation_repository.py:23`
  say one conversation per document and principal; two first requests that
  overlap create two (the table has no unique constraint), and from then on
  `scalar_one_or_none` raises for every request of that principal.
- `services/auth_service.py:71-72` writes a hash of the password it verified
  without looking whether the stored one is still the one verified; a reset that
  commits in between is undone.
- `controllers/chat_controller.py:65`: a stream whose reader hangs up is cancelled
  past both handlers; its connection comes back when the garbage collector finds
  the session.
- `ai/retrieval.py:143-152` swallows a failing dense query without a rollback, so
  PostgreSQL refuses the next statement of the transaction: the search answers,
  as it has no further query, and the chat question fails after all.
- `services/document_service.py:231-240` cuts the fused list before it drops what
  was not listed (a document uploaded since, or beyond the 500), so a search can
  return fewer results than there are.
- `src/README.md:394` describes the lexical query as `websearch_to_tsquery`; the
  code builds prefixes for `to_tsquery` and keeps the former for queries without
  a word (`repositories/chunk_repository.py:103-106`).
- `jobs/queue.py:4-7` says the API holds no connection for the length of a
  pipeline; the HTTP one ends, but each job keeps one of the database pool of the
  same process throughout, provider calls included.
- `ai/chunking.py:54-56` splits a paragraph "so it still fits"; a sentence over
  the limit is kept whole, and the overlap comes on top of the target
  (`ChunkBudget` states what does hold).
- `ai/retrieval.py:76-78` and `src/README.md:387-389` say a passage found by both
  retrievers outranks a favourite of one; with the damping constant 60 that holds
  up to rank 61 (`AgreementOutranks`), and a search of the dashboard asks for 180
  candidates at its default of 20 results. Chat stays within the bound.

## 7. Not modelled

Wording and layout (prompts, mail templates, schemas), HTTP plumbing, settings,
logging, migrations and scripts have no state of their own. Parsing PDF bytes,
computing embeddings and scoring similarity are done by libraries and services.
`azure_blob.py` enters through the storage interface only; its SAS URLs are not
called. Of the database engine, pre-ping and recycling of connections are left
out, and of the provider the waits between attempts.
