---------------------------- MODULE WorkerProcess ----------------------------
(***************************************************************************)
(* What the callers in one worker process share: the pool of database        *)
(* connections, which they take and give back, and the AI provider, which    *)
(* they call while they hold one.                                            *)
(*                                                                          *)
(* A session checks a connection out with its first statement and gives it   *)
(* back when it is committed, rolled back or closed; it waits for one for    *)
(* pool_timeout at most.  FastAPI closes the session of a request before the *)
(* response is sent, so the body of a stream and the job of an upload check  *)
(* a connection out anew.                                                    *)
(*                                                                          *)
(* A call of the provider makes up to MaxAttempts attempts.  The waits       *)
(* between them are left out, and so is what is asked and answered.          *)
(***************************************************************************)
EXTENDS Naturals, Sequences, FiniteSets

CONSTANTS
    Callers,        \* requests, each with its stream or job, at the same time
    Limit,          \* db_pool_size + db_max_overflow
    MaxAttempts,    \* stop_after_attempt
    MaxPieces       \* bound: pieces of text in a streamed answer

ASSUME WorkerAssumption ==
    /\ IsFiniteSet(Callers)
    /\ Limit \in Nat \ {0} /\ MaxAttempts \in Nat \ {0} /\ MaxPieces \in Nat

VARIABLES
    out,        \* connections checked out of the pool
    stranded,   \* those of them whose session nobody will ever close
    pc,         \* where each caller is
    kind,       \* what it does
    outcomes,   \* how the attempts of its last call of the provider ended
    shown,      \* of each piece of text it has streamed, the attempt it is from
    owed,       \* after the response, a stream still owes its reader a last
                \* event, or a job its document a status
    exposed     \* history: what failed was outside every handler

pool == <<out, stranded>>
vars == <<out, stranded, pc, kind, outcomes, shown, owed, exposed>>

-----------------------------------------------------------------------------
(* Callers *)

Kinds == {"plain", "search", "ask", "stream", "upload"}

\* Where a session waits for its connection, and where it goes on with it: the
\* request, the body of a stream, the job of an upload and its recovery.
Entry == [request |-> "serve", reopen |-> "seek", job |-> "embed", recover |-> "mark"]

\* Calls of the provider that retry as a whole.
Calls == {"embed", "generate", "open"}

AtWork == Calls \cup {"serve", "seek", "flow", "record", "abort", "mark"}

Waiting(c) == pc[c] \in DOMAIN Entry

Holders == {c \in Callers : pc[c] \in AtWork}

Errors == {"transient", "permanent", "unusable"}

TypeOK ==
    /\ out \in Nat /\ stranded \in Nat
    /\ pc \in [Callers -> {"idle"} \cup DOMAIN Entry \cup AtWork]
    /\ kind \in [Callers -> Kinds]
    /\ outcomes \in [Callers -> Seq(Errors \cup {"ok"})]
    /\ shown \in [Callers -> Seq(Nat)]
    /\ owed \in [Callers -> BOOLEAN]
    /\ exposed \in [Callers -> BOOLEAN]

Init ==
    /\ out = 0 /\ stranded = 0
    /\ pc = [c \in Callers |-> "idle"]
    /\ kind = [c \in Callers |-> "plain"]
    /\ outcomes = [c \in Callers |-> <<>>]
    /\ shown = [c \in Callers |-> <<>>]
    /\ owed = [c \in Callers |-> FALSE]
    /\ exposed = [c \in Callers |-> FALSE]

Goto(c, next) == pc' = [pc EXCEPT ![c] = next]

\* A call begins with no attempt made.
Call(c, next) == Goto(c, next) /\ outcomes' = [outcomes EXCEPT ![c] = <<>>]

\* The caller is done; what it leaves behind stays to be seen.
Leave(c) ==
    /\ Goto(c, "idle")
    /\ kind' = [kind EXCEPT ![c] = "plain"]
    /\ outcomes' = [outcomes EXCEPT ![c] = <<>>]
    /\ shown' = [shown EXCEPT ![c] = <<>>]

Owe(c, yes) == owed' = [owed EXCEPT ![c] = yes]

-----------------------------------------------------------------------------
(* The pool *)

Release == out' = out - 1 /\ UNCHANGED stranded

Arrive(c) ==
    /\ pc[c] = "idle"
    /\ Goto(c, "request")
    /\ \E k \in Kinds : kind' = [kind EXCEPT ![c] = k]
    /\ Owe(c, FALSE)
    /\ exposed' = [exposed EXCEPT ![c] = FALSE]
    /\ UNCHANGED <<pool, outcomes, shown>>

\* QueuePool: a connection is idle, or another may be opened.
Free == out < Limit

\* Whoever asks while a connection is free gets it, be others waiting or not.
CheckOut(c) ==
    /\ Waiting(c) /\ Free
    /\ out' = out + 1
    /\ Call(c, Entry[pc[c]])
    /\ UNCHANGED <<stranded, kind, shown, owed, exposed>>

\* The wait times out while the pool is exhausted, or the database is away.
Refused(c) == Waiting(c)

\* A request is answered with an error, a stream breaks off, the job or its
\* recovery is dropped.
Refuse(c) ==
    /\ Refused(c)
    /\ Leave(c)
    /\ exposed' = [exposed EXCEPT ![c] = pc[c] # "request"]
    /\ UNCHANGED <<pool, owed>>

-----------------------------------------------------------------------------
(* Requests, streams and jobs *)

\* Variant with a bug: the job runs on the session of its request.
Shared_Respond(c) ==
    /\ pc[c] = "serve" /\ kind[c] = "upload"
    /\ Goto(c, "job")
    /\ Owe(c, TRUE)
    /\ UNCHANGED <<pool, kind, outcomes, shown, exposed>>

\* The session of the request is closed and the response begins; the body of a
\* stream, or the job, is still to come.  An upload has been committed.
Respond(c) ==
    /\ pc[c] = "serve"
    /\ Release
    /\ \/ kind[c] = "plain" /\ Leave(c) /\ UNCHANGED owed
       \/ /\ \/ kind[c] = "stream" /\ Goto(c, "reopen")
             \/ kind[c] = "upload" /\ Goto(c, "job")
          /\ Owe(c, TRUE)
          /\ UNCHANGED <<kind, outcomes, shown>>
    /\ UNCHANGED exposed

\* A search or a question goes to retrieval first, in the same session; in the
\* body of a stream the conversation has been found before.
Consult(c) ==
    /\ pc[c] = "seek" \/ (pc[c] = "serve" /\ kind[c] \in {"search", "ask"})
    /\ Call(c, "embed")
    /\ UNCHANGED <<pool, kind, shown, owed, exposed>>

\* Where a caller goes on when its query, question or chunks are embedded.
AfterEmbedding(c) ==
    CASE kind[c] = "search" -> "record"
      [] kind[c] = "stream" -> "open"
      [] OTHER -> "generate"

-----------------------------------------------------------------------------
(* The provider *)

Attempted(c, outcome) == outcomes' = [outcomes EXCEPT ![c] = Append(@, outcome)]

\* An attempt succeeds, and with it the call.  Of a document, many batches of
\* chunks are embedded and many sections summarised, by a call each.
Answer(c) ==
    /\ \/ pc[c] = "embed" /\ Call(c, AfterEmbedding(c))
       \/ pc[c] = "generate" /\ Call(c, "record")
       \/ pc[c] \in {"embed", "generate"} /\ kind[c] = "upload" /\ Call(c, pc[c])
       \/ pc[c] = "open" /\ Goto(c, "flow") /\ Attempted(c, "ok")
    /\ UNCHANGED <<pool, kind, shown, owed, exposed>>

\* What leaves the function that is retried: generate and _embed_batch turn
\* every error into an AIProviderError first, _open_stream none.
Raised(c, error) == IF pc[c] = "open" THEN error ELSE "AIProviderError"

\* _is_transient
Transient(exception) == exception = "transient"

Retried(c, error) ==
    Transient(Raised(c, error)) /\ Len(outcomes[c]) + 1 < MaxAttempts

\* The call fails.  A search or a question makes do without embeddings, a
\* document is marked FAILED, an answer is given up.
GiveUp(c) ==
    CASE pc[c] = "embed" /\ kind[c] # "upload" -> AfterEmbedding(c)
      [] kind[c] = "upload" -> "record"
      [] OTHER -> "abort"

\* An attempt fails: at once, after long, or because what came is of no use.
FailAttempt(c, error) ==
    /\ pc[c] \in Calls
    /\ error = "unusable" => pc[c] # "open"
    /\ IF Retried(c, error) THEN Attempted(c, error) /\ UNCHANGED pc
       ELSE IF GiveUp(c) \in Calls THEN Call(c, GiveUp(c))
       ELSE Attempted(c, error) /\ Goto(c, GiveUp(c))
    /\ UNCHANGED <<pool, kind, shown, owed, exposed>>

Piece(c) ==
    /\ pc[c] = "flow" /\ Len(shown[c]) < MaxPieces
    /\ shown' = [shown EXCEPT ![c] = Append(@, Len(outcomes[c]))]
    /\ UNCHANGED <<pool, pc, kind, outcomes, owed, exposed>>

LastPiece(c) ==
    /\ pc[c] = "flow"
    /\ Goto(c, "record")
    /\ UNCHANGED <<pool, kind, outcomes, shown, owed, exposed>>

\* Variant with a bug: a stream that breaks off is opened again.
Reopened_BreakOff(c) ==
    /\ pc[c] = "flow"
    /\ Call(c, "open")
    /\ UNCHANGED <<pool, kind, shown, owed, exposed>>

\* The stream fails while text is flowing.
BreakOff(c) ==
    /\ pc[c] = "flow"
    /\ Goto(c, "abort")
    /\ UNCHANGED <<pool, kind, outcomes, shown, owed, exposed>>

-----------------------------------------------------------------------------
(* How a session ends *)

\* The commit, and the response or the last event; a search has nothing to
\* commit.  What a job commits is the status its document ends in.
Record(c) ==
    /\ pc[c] = "record"
    /\ Release
    /\ Leave(c) /\ Owe(c, FALSE)
    /\ UNCHANGED exposed

\* A statement, the commit or the code raises.
Raise(c) ==
    /\ pc[c] \in AtWork \ {"seek", "abort", "mark"}
    /\ Goto(c, "abort")
    /\ UNCHANGED <<pool, kind, outcomes, shown, owed, exposed>>

\* The conversation cannot be found or begun, before ask_stream is prepared for
\* errors: the stream ends and its session stays as it is.
SeekFails(c) ==
    /\ pc[c] = "seek"
    /\ stranded' = stranded + 1
    /\ Leave(c)
    /\ exposed' = [exposed EXCEPT ![c] = TRUE]
    /\ UNCHANGED <<out, owed>>

\* The task is a job: its request has been answered.
InJob(c) == kind[c] = "upload" /\ owed[c]

\* Variant with a bug: what is wrong with a job is logged and no more.
Logged_RollBack(c) ==
    /\ pc[c] = "abort"
    /\ Release
    /\ Leave(c)
    /\ UNCHANGED <<owed, exposed>>

\* The session is rolled back.  A job starts another transaction to record its
\* failure, the reader of a stream is sent an error event.
RollBack(c) ==
    /\ pc[c] = "abort"
    /\ Release
    /\ IF InJob(c) THEN Goto(c, "recover") /\ UNCHANGED <<kind, outcomes, shown, owed>>
                   ELSE Leave(c) /\ Owe(c, FALSE)
    /\ UNCHANGED exposed

\* The recovery of a job commits, or fails as well.
Mark(c) ==
    /\ pc[c] = "mark"
    /\ Release
    /\ Leave(c)
    /\ \/ Owe(c, FALSE) /\ UNCHANGED exposed
       \/ UNCHANGED owed /\ exposed' = [exposed EXCEPT ![c] = TRUE]

\* The reader of a stream goes away and the generator is cancelled, which no
\* handler catches: the session is neither rolled back nor closed.
HangUp(c) ==
    /\ kind[c] = "stream" /\ owed[c]
    /\ stranded' = IF pc[c] \in AtWork THEN stranded + 1 ELSE stranded
    /\ Leave(c) /\ Owe(c, FALSE)
    /\ UNCHANGED <<out, exposed>>

\* Variant with a bug: something keeps a reference to every session.
Referenced_Collect == FALSE

\* The garbage collector finds the session; the pool drops its connection.
Collect ==
    /\ stranded > 0
    /\ stranded' = stranded - 1
    /\ out' = out - 1
    /\ UNCHANGED <<pc, kind, outcomes, shown, owed, exposed>>

-----------------------------------------------------------------------------
(* Specification *)

\* What the process does of itself.
Own(c) == Respond(c) \/ Consult(c) \/ Record(c) \/ RollBack(c) \/ Mark(c)

Provider(c) ==
    \/ Answer(c) \/ Piece(c) \/ LastPiece(c) \/ BreakOff(c)
    \/ \E error \in Errors : FailAttempt(c, error)

Next ==
    \/ \E c \in Callers :
          \/ Arrive(c) \/ CheckOut(c) \/ Refuse(c)
          \/ Own(c) \/ Provider(c) \/ Raise(c) \/ SeekFails(c) \/ HangUp(c)
    \/ Collect

Spec == Init /\ [][Next]_vars

\* Waits are bounded, handlers run on and garbage is collected.  Nothing is
\* assumed of the clients nor, the SDK setting no timeout, of the provider.
FairSpec ==
    /\ Spec
    /\ \A c \in Callers : WF_vars(CheckOut(c) \/ Refuse(c)) /\ WF_vars(Own(c))
    /\ WF_vars(Collect)

-----------------------------------------------------------------------------
(* Properties *)

\* The pool's count is right: what is checked out is in use by a caller that is
\* at work, never by one that is itself waiting, or will be collected; and the
\* limit holds whoever comes and goes.
NoLeak == out = Cardinality(Holders) + stranded /\ out <= Limit

\* What cannot clear by itself is not tried again, and nothing more often than
\* the limit says.
NoFutileRetry == \A c \in Callers :
    /\ Len(outcomes[c]) <= MaxAttempts
    /\ \A i \in 1 .. Len(outcomes[c]) - 1 : outcomes[c][i] = "transient"

\* The reader of a stream sees the text of one attempt, not of two in a row.
OneVoice == \A c \in Callers : \A i \in DOMAIN shown[c] :
    shown[c][i] = Len(outcomes[c])

\* Whatever becomes of the provider or of a statement, a job ends with the
\* status of its document recorded and a stream with a last event, unless it
\* failed in its first statement or in the recovery itself.
NeverSilent == \A c \in Callers :
    pc[c] = "idle" /\ owed[c] => exposed[c]

\* gemini_provider.py: a transient failure is retried, and is reported only
\* when every attempt has failed.
TransientRetried == \A c \in Callers :
    pc[c] \notin Calls /\ outcomes[c] # <<>> /\ outcomes[c][Len(outcomes[c])] = "transient" =>
        Len(outcomes[c]) = MaxAttempts

\* The provider keeps nobody for ever.
ProviderResponds ==
    \A c \in Callers : []<>(pc[c] \notin Calls \cup {"flow"})

\* Nobody waits for a connection for ever, even when the provider hangs and all
\* connections are held by callers that wait for it; and if the provider keeps
\* nobody for ever, an exhausted pool recovers: readers who hang up and jobs
\* that fail do not wear it down.
PoolRecovers ==
    /\ \A c \in Callers : Waiting(c) ~> ~Waiting(c)
    /\ ProviderResponds => ((out = Limit) ~> (out < Limit))
=============================================================================
