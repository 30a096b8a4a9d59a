------------------------- MODULE ChatConversations -------------------------
(***************************************************************************)
(* Chat about one document.  A principal has a conversation with it, found   *)
(* or created by every request; a request that asks something adds a turn,   *)
(* the question and then the answer, in one transaction around the call of   *)
(* the provider.  Answers are returned whole or streamed.                    *)
(*                                                                          *)
(* Turns are numbered in the order their transactions began, which is what   *)
(* created_at (now() of the database) records: both messages of a turn carry *)
(* the same timestamp, those of different turns different ones.  Passages    *)
(* and citations are left out; retrieval is a call that may fail.            *)
(***************************************************************************)
EXTENDS Naturals, FiniteSets, Sequences

CONSTANTS
    Principals,     \* users and guest sessions
    Convs, None,    \* conversation ids
    Slots,          \* requests in progress at the same time
    MaxTurns,       \* bound: questions asked altogether
    Window          \* chat_history_turns * 2, in messages

\* later: whether the answer's random id is the greater of the two.
TurnRow == [conv : Convs, answered : BOOLEAN, later : BOOLEAN]

ASSUME ChatAssumption ==
    /\ None \notin Principals \cup Convs
    /\ None \notin TurnRow
    /\ {MaxTurns, Window} \subseteq Nat

VARIABLES
    conv,      \* committed conversations: the principal each belongs to
    turn,      \* committed turns
    gone,      \* the document has been deleted
    begun,     \* turns begun so far
    stage,     \* how far the request in each slot has got
    ask,       \* what it asks for
    session,   \* the rows it works on
    told,      \* how the request of each turn ended for the client
    before,    \* history: the conversations there were when this one was begun
    issued     \* conversation ids already used

database == <<conv, turn, gone>>
ghosts == <<before, issued>>

vars == <<conv, turn, gone, begun, stage, ask, session, told, before, issued>>

-----------------------------------------------------------------------------
(* Rows, requests, transcripts *)

Turns == 1..MaxTurns

Message == [turn : Turns, role : {"user", "assistant"}]

Request == [op : {"history", "ask", "stream"}, who : Principals, turn : 0..MaxTurns,
            ready : BOOLEAN, known : SUBSET Convs]

NoRequest == [op |-> "none", who |-> None, turn |-> 0, ready |-> FALSE, known |-> {}]

Session == [conv : Convs \cup {None}, new : BOOLEAN,
            added : SUBSET {"user", "assistant"}, history : Seq(Message)]

NoSession == [conv |-> None, new |-> FALSE, added |-> {}, history |-> <<>>]

Stage == {"idle", "arrived", "open", "built", "asked", "answered"}

TypeOK ==
    /\ conv \in [Convs -> Principals \cup {None}]
    /\ turn \in [Turns -> TurnRow \cup {None}]
    /\ gone \in BOOLEAN
    /\ begun \in 0..MaxTurns
    /\ stage \in [Slots -> Stage]
    /\ ask \in [Slots -> Request \cup {NoRequest}]
    /\ session \in [Slots -> Session]
    /\ told \in [Turns -> {"nothing", "answer", "error"}]
    /\ before \in [Convs -> SUBSET Convs]
    /\ issued \subseteq Convs

Init ==
    /\ conv = [c \in Convs |-> None]
    /\ turn = [t \in Turns |-> None]
    /\ gone = FALSE
    /\ begun = 0
    /\ stage = [q \in Slots |-> "idle"]
    /\ ask = [q \in Slots |-> NoRequest]
    /\ session = [q \in Slots |-> NoSession]
    /\ told = [t \in Turns |-> "nothing"]
    /\ before = [c \in Convs |-> {}]
    /\ issued = {}

Of(who) == {c \in Convs : conv[c] = who}

Transcript(c) == {m \in Message :
    /\ turn[m.turn] # None /\ turn[m.turn].conv = c
    /\ m.role = "assistant" => turn[m.turn].answered}

\* By created_at, and then by id.
Older(m, o) ==
    \/ m.turn < o.turn
    \/ m.turn = o.turn /\ m.role # o.role /\ (m.role = "user" <=> turn[m.turn].later)

\* How many messages come before this one in the query's order.
Newer(m, c) == Cardinality({o \in Transcript(c) : Older(m, o)})

\* Variant with a bug: the newest first, as the query returns them.
NewestFirst_Recent(c) ==
    LET recent == {m \in Transcript(c) : Newer(m, c) < Window}
    IN [i \in 1..Cardinality(recent) |-> CHOOSE m \in recent : Newer(m, c) = i - 1]

\* recent_messages: the newest Window messages, oldest first.
Recent(c) ==
    LET recent == {m \in Transcript(c) : Newer(m, c) < Window}
        size == Cardinality(recent)
    IN [i \in 1..size |-> CHOOSE m \in recent : Newer(m, c) = size - i]

-----------------------------------------------------------------------------
(* The life of a request *)

Goto(q, next) == stage' = [stage EXCEPT ![q] = next]

\* The session is rolled back or has been committed: the slot is free again.
End(q) ==
    /\ Goto(q, "idle")
    /\ ask' = [ask EXCEPT ![q] = NoRequest]
    /\ session' = [session EXCEPT ![q] = NoSession]

Tell(q, what) == told' = [t \in Turns |-> IF t = ask[q].turn THEN what ELSE told[t]]

\* A call raises: an error response, an error event of a stream, or a stream
\* that is cut short; no answer in any case.
Fail(q) ==
    /\ Tell(q, "error")
    /\ End(q)
    /\ UNCHANGED <<database, begun, ghosts>>

\* Any call of the database, of retrieval or of the provider may raise.
Raise(q) == stage[q] # "idle" /\ Fail(q)

\* The client goes away, or the worker dies: nobody is told anything.
Abandon(q) ==
    /\ stage[q] # "idle"
    /\ End(q)
    /\ UNCHANGED <<database, begun, told, ghosts>>

Arrive(q) ==
    /\ stage[q] = "idle" /\ ~gone
    /\ \E a \in Request :
          /\ a.known = Of(a.who)
          /\ \/ a.op = "history" /\ a.turn = 0 /\ a.ready /\ UNCHANGED begun
             \/ /\ a.op # "history" /\ begun < MaxTurns
                /\ a.turn = begun + 1 /\ begun' = begun + 1
          /\ ask' = [ask EXCEPT ![q] = a]
    /\ Goto(q, "arrived")
    /\ UNCHANGED <<database, session, told, ghosts>>

-----------------------------------------------------------------------------
(* Handlers *)

\* Variant with a bug: only a conversation that has messages is found.
NonEmpty_Found(q) == {c \in Of(ask[q].who) : \E t \in Turns :
                         turn[t] # None /\ turn[t].conv = c}

\* Variant with a bug: guests of the same link are not told apart.
Shared_Found(q) == {c \in Convs : conv[c] # None}

\* get_for_principal
Found(q) == Of(ask[q].who)

\* get_or_create_conversation: scalar_one_or_none raises on a second row, the
\* insert when the document has been deleted.
GetConversation(q) ==
    /\ stage[q] = "arrived"
    /\ \/ \E c \in Convs :
             /\ Found(q) = {c}
             /\ session' = [session EXCEPT ![q].conv = c]
             /\ Goto(q, "open")
             /\ UNCHANGED <<database, begun, ask, told, ghosts>>
       \/ /\ Found(q) = {} /\ ~gone
          /\ \E c \in Convs \ issued :
                /\ session' = [session EXCEPT ![q].conv = c, ![q].new = TRUE]
                /\ issued' = issued \cup {c}
                /\ before' = [before EXCEPT ![c] = ask[q].known]
          /\ Goto(q, "open")
          /\ UNCHANGED <<database, begun, ask, told>>
       \/ Found(q) = {} /\ gone /\ Fail(q)
       \/ (\A c \in Convs : Found(q) # {c}) /\ Found(q) # {} /\ Fail(q)

\* _build_request: the document's status as it was when it was loaded, then
\* retrieval, then the history.
BuildRequest(q) ==
    /\ stage[q] = "open" /\ ask[q].op # "history"
    /\ \/ /\ ask[q].ready
          /\ session' = [session EXCEPT ![q].history = Recent(session[q].conv)]
          /\ Goto(q, "built")
          /\ UNCHANGED <<database, begun, ask, told, ghosts>>
       \/ ~ask[q].ready /\ Fail(q)

\* Variant with a bug: the question needs no conversation.
Loose_There(q) == TRUE

There(q) == session[q].new \/ conv[session[q].conv] # None

\* The question is flushed; its conversation may have been deleted meanwhile.
AddQuestion(q) ==
    /\ stage[q] = "built"
    /\ \/ /\ There(q)
          /\ session' = [session EXCEPT ![q].added = {"user"}]
          /\ Goto(q, "asked")
          /\ UNCHANGED <<database, begun, ask, told, ghosts>>
       \/ ~There(q) /\ Fail(q)

\* The provider answers.  A stream without text leaves no message.
Generate(q) ==
    /\ stage[q] = "asked"
    /\ \/ session' = [session EXCEPT ![q].added = @ \cup {"assistant"}]
       \/ ask[q].op = "stream" /\ UNCHANGED session
    /\ Goto(q, "answered")
    /\ UNCHANGED <<database, begun, ask, told, ghosts>>

\* Variant with a bug: the client is told before the commit.
Told_Commit(q) ==
    /\ stage[q] = "answered"
    /\ Tell(q, "answer")
    /\ End(q)
    /\ UNCHANGED <<database, begun, ghosts>>

\* What the session has flushed becomes visible.
Publish(q) ==
    LET s == session[q] IN
    /\ conv' = IF s.new THEN [conv EXCEPT ![s.conv] = ask[q].who] ELSE conv
    /\ \E later \in BOOLEAN :
          turn' = [t \in Turns |->
                      IF t = ask[q].turn /\ s.added # {}
                      THEN [conv |-> s.conv, answered |-> "assistant" \in s.added,
                            later |-> later /\ "assistant" \in s.added]
                      ELSE turn[t]]
    /\ UNCHANGED gone

Finished(q) == stage[q] = "answered" \/ (stage[q] = "open" /\ ask[q].op = "history")

\* The controller's commit; the response, or the last event, follows it.  The
\* reply of the database may be lost when the commit has been applied.
Commit(q) ==
    /\ Finished(q)
    /\ Publish(q)
    /\ Tell(q, "answer") \/ Tell(q, "error")
    /\ End(q)
    /\ UNCHANGED <<begun, ghosts>>

\* Somebody deletes the document, and by the cascade all that hangs on it; the
\* delete waits for sessions that have added to it.
DeleteDocument ==
    /\ ~gone
    /\ \A q \in Slots : ~session[q].new /\ session[q].added = {}
    /\ gone' = TRUE
    /\ conv' = [c \in Convs |-> None]
    /\ turn' = [t \in Turns |-> None]
    /\ UNCHANGED <<begun, stage, ask, session, told, ghosts>>

-----------------------------------------------------------------------------
(* Specification *)

\* Nothing is left to happen.
AllQuiet == gone /\ (\A q \in Slots : stage[q] = "idle") /\ UNCHANGED vars

Proceed(q) ==
    \/ GetConversation(q) \/ BuildRequest(q) \/ AddQuestion(q) \/ Generate(q) \/ Commit(q)

Next ==
    \/ \E q \in Slots : Arrive(q) \/ Proceed(q) \/ Raise(q) \/ Abandon(q)
    \/ DeleteDocument \/ AllQuiet

Spec == Init /\ [][Next]_vars

-----------------------------------------------------------------------------
(* Properties *)

Mentioned(q) == {session[q].history[i].turn : i \in DOMAIN session[q].history}

\* Two guests of one link have histories of their own: what is sent to the
\* provider along with a question are turns of the one who asks, from before.
HistoryIsOwn == \A q \in Slots : \A t \in Mentioned(q) :
    /\ t # ask[q].turn
    /\ turn[t] # None => conv[turn[t].conv] = ask[q].who

\* What is sent to the provider is in the order the turns began, however they
\* overlapped and whichever committed first; only the two messages of one turn,
\* which carry the same created_at, may have changed places.
HistoryInOrder == \A q \in Slots : \A i, j \in DOMAIN session[q].history :
    i < j => session[q].history[i].turn <= session[q].history[j].turn

\* One conversation per principal, as long as his requests do not overlap: of
\* two that are there, neither was when the other was begun.
NoNeedlessConversation == \A c, d \in Convs :
    conv[c] # None /\ conv[c] = conv[d] => c \notin before[d]

\* Whoever has been given an answer, whole or to the end of a stream, finds the
\* turn in the transcript, until the document is deleted.
AnsweredMeansSaved == \A t \in Turns : told[t] = "answer" /\ ~gone => turn[t] # None

-----------------------------------------------------------------------------
(* Refinement: TranscriptContract is what other sessions see of all this. *)

Transcripts == INSTANCE TranscriptContract
    WITH Rows <- TurnRow, owner <- conv, said <- turn, closed <- gone

\* A turn is seen whole or not at all, never changes, and is never in a
\* conversation that is gone, although it is asked, answered and saved at
\* different times and the document may be deleted at any of them.
TranscriptSpec == Transcripts!ContractSpec
=============================================================================
