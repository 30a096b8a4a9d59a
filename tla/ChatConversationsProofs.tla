---------------------- MODULE ChatConversationsProofs ----------------------
(***************************************************************************)
(* Proofs about ChatConversations, for any principals, conversations and     *)
(* requests at a time, any number of turns and any window.                   *)
(***************************************************************************)
EXTENDS ChatConversations, FiniteSetTheorems, TLAPS

-----------------------------------------------------------------------------
(* The inductive invariant *)

Working == {"open", "built", "asked", "answered"}

\* A turn of its own, not saved yet, unless it only reads.
Shape(q) ==
    LET a == ask[q] IN
    IF stage[q] = "idle" THEN a = NoRequest /\ session[q] = NoSession
    ELSE /\ a \in Request
         /\ a.op = "history" => a.turn = 0 /\ stage[q] \in {"arrived", "open"}
         /\ a.op # "history" => a.turn \in 1..begun /\ turn[a.turn] = None
         /\ stage[q] = "arrived" => session[q] = NoSession

\* The conversation it works on: its principal's own, or a new one that nobody
\* else knows of.
Own(q) ==
    LET a == ask[q] s == session[q] IN
    /\ stage[q] = "arrived" /\ ~gone => \A c \in a.known : conv[c] = a.who
    /\ stage[q] \in Working =>
          /\ s.conv \in Convs
          /\ s.new => s.conv \in issued /\ conv[s.conv] = None /\ ~gone
          /\ ~s.new => gone \/ conv[s.conv] = a.who

\* What it adds, and when.
Added(q) ==
    LET s == session[q] IN
    /\ s.added # {} => stage[q] \in {"asked", "answered"} /\ ~gone
                         /\ (s.new \/ conv[s.conv] # None)
    /\ stage[q] \in {"asked", "answered"} => s.added # {}
    /\ stage[q] = "open" => s.added = {}

\* The history it has read: turns of its conversation, begun by others.
Read(q) ==
    LET s == session[q] IN
    \A i \in DOMAIN s.history :
       LET t == s.history[i].turn IN
       /\ t \in 1..begun
       /\ turn[t] # None => turn[t].conv = s.conv
       /\ \A r \in Slots : ask[r].turn # t
       /\ \A j \in DOMAIN s.history : i < j => t <= s.history[j].turn

SlotInv(q) == Shape(q) /\ Own(q) /\ Added(q) /\ Read(q)

\* Turns and new conversations are given to one request each.
Apart(q, r) ==
    /\ ask[q].turn = ask[r].turn => ask[q].turn = 0
    /\ session[q].new /\ session[r].new => session[q].conv # session[r].conv

Exclusion == \A q, r \in Slots : q # r => Apart(q, r)

RowsInv ==
    /\ \A c \in Convs : conv[c] # None => c \in issued
    /\ \A c \in Convs : before[c] = {}
    /\ \A t \in Turns : turn[t] # None => t \in 1..begun /\ conv[turn[t].conv] # None
    /\ gone => (\A c \in Convs : conv[c] = None) /\ (\A t \in Turns : turn[t] = None)

IInv ==
    /\ TypeOK
    /\ RowsInv
    /\ AnsweredMeansSaved
    /\ Exclusion
    /\ \A q \in Slots : SlotInv(q)

-----------------------------------------------------------------------------
(* What recent_messages returns *)

LEMMA Constants ==
    /\ None \notin Principals /\ None \notin Convs /\ None \notin TurnRow
    /\ MaxTurns \in Nat /\ Window \in Nat
BY ChatAssumption DEF ChatAssumption

LEMMA MessagesFinite == IsFiniteSet(Message)
<1> DEFINE f == [p \in Turns \X {"user", "assistant"} |-> [turn |-> p[1], role |-> p[2]]]
<1>1. IsFiniteSet(Turns)
    BY Constants, FS_Interval DEF Turns
<1>2. IsFiniteSet({"user", "assistant"})
    <2>1. IsFiniteSet({"user"} \cup {"assistant"})
        BY FS_Singleton, FS_AddElement
    <2>2. {"user"} \cup {"assistant"} = {"user", "assistant"}
        OBVIOUS
    <2> QED
        BY <2>1, <2>2
<1>3. IsFiniteSet(Turns \X {"user", "assistant"})
    BY <1>1, <1>2, FS_Product
<1>4. f \in Surjection(Turns \X {"user", "assistant"}, Message)
    <2>1. f \in [Turns \X {"user", "assistant"} -> Message]
        BY DEF Message
    <2>2. ASSUME NEW m \in Message
          PROVE  \E p \in Turns \X {"user", "assistant"} : f[p] = m
        <3>1. m.turn \in Turns /\ m.role \in {"user", "assistant"}
            BY DEF Message
        <3>2. m = [turn |-> m.turn, role |-> m.role]
            BY DEF Message
        <3>3. f[<<m.turn, m.role>>] = m
            BY <3>1, <3>2
        <3> QED
            BY <3>1, <3>3
    <2> HIDE DEF f
    <2> QED
        BY <2>1, <2>2 DEF Surjection
<1> QED
    BY <1>3, <1>4, FS_Surjection

\* The messages of a conversation are strictly ordered.
LEMMA OlderOrder ==
    ASSUME TypeOK, NEW c, NEW m \in Transcript(c), NEW o \in Transcript(c)
    PROVE  /\ m.turn \in Nat /\ o.turn \in Nat
           /\ m # o => Older(m, o) \/ Older(o, m)
           /\ ~Older(m, m)
           /\ Older(m, o) => ~Older(o, m) /\ ~(o.turn < m.turn)
           /\ \A p \in Transcript(c) : Older(m, o) /\ Older(o, p) => Older(m, p)
<1>1. \A x \in Transcript(c) :
         x \in Message /\ x.turn \in Turns /\ x.turn \in Nat
           /\ x.role \in {"user", "assistant"} /\ turn[x.turn] # None
    BY Constants DEF Transcript, Message, Turns
<1>2. m = [turn |-> m.turn, role |-> m.role] /\ o = [turn |-> o.turn, role |-> o.role]
    BY <1>1 DEF Message
<1>3. \A x \in Transcript(c) : turn[x.turn].later \in BOOLEAN
    BY <1>1 DEF TypeOK, TurnRow
<1> QED
    BY <1>1, <1>2, <1>3 DEF Older

LEMMA TranscriptFinite ==
    ASSUME NEW c, NEW S \in SUBSET Transcript(c)
    PROVE  IsFiniteSet(S) /\ Cardinality(S) \in Nat
<1>1. S \in SUBSET Message
    BY DEF Transcript
<1>2. IsFiniteSet(S)
    BY <1>1, MessagesFinite, FS_Subset
<1> QED
    BY <1>2, FS_CardinalityType

\* Fewer messages come before the younger of two.
LEMMA NewerFewer ==
    ASSUME TypeOK, NEW c, NEW m \in Transcript(c), NEW o \in Transcript(c), Older(m, o)
    PROVE  Newer(o, c) \in Nat /\ Newer(m, c) \in Nat /\ Newer(o, c) < Newer(m, c)
<1> DEFINE M == {x \in Transcript(c) : Older(m, x)}
           O == {x \in Transcript(c) : Older(o, x)}
<1>1. O \subseteq M /\ o \in M /\ o \notin O
    BY OlderOrder
<1>2. M \in SUBSET Transcript(c)
    OBVIOUS
<1>3. Newer(o, c) = Cardinality(O) /\ Newer(m, c) = Cardinality(M)
    BY DEF Newer
<1> HIDE DEF M, O
<1>4. IsFiniteSet(M) /\ Cardinality(M) \in Nat /\ IsFiniteSet(O) /\ Cardinality(O) \in Nat
    BY <1>1, <1>2, TranscriptFinite
<1>5. Cardinality(O) <= Cardinality(M) /\ Cardinality(O) # Cardinality(M)
    BY <1>1, <1>4, FS_Subset
<1> QED
    BY <1>3, <1>4, <1>5

\* The messages within the window are numbered without a gap.
LEMMA WindowRanks ==
    ASSUME TypeOK, NEW c
    PROVE  LET recent == {m \in Transcript(c) : Newer(m, c) < Window}
               size == Cardinality(recent)
           IN /\ size \in Nat
              /\ \A k \in 0..(size - 1) : \E m \in recent : Newer(m, c) = k
<1> DEFINE recent == {m \in Transcript(c) : Newer(m, c) < Window}
           size == Cardinality(recent)
           rank == [m \in recent |-> Newer(m, c)]
<1>1. recent \in SUBSET Transcript(c)
    OBVIOUS
<1>2. IsFiniteSet(recent) /\ size \in Nat
    BY <1>1, TranscriptFinite
<1>3. ASSUME NEW m \in recent PROVE Newer(m, c) \in 0..(size - 1)
    <2> DEFINE M == {x \in Transcript(c) : Older(m, x)}
    <2>1. M \in SUBSET Transcript(c)
        OBVIOUS
    <2>2. Newer(m, c) = Cardinality(M)
        BY DEF Newer
    <2>3. M \subseteq recent \ {m}
        <3> SUFFICES ASSUME NEW x \in M PROVE x \in recent \ {m}
            OBVIOUS
        <3>1. x # m
            BY OlderOrder
        <3>2. Newer(x, c) \in Nat /\ Newer(m, c) \in Nat /\ Newer(x, c) < Newer(m, c)
            BY NewerFewer
        <3>3. Newer(x, c) < Window
            BY <3>2, Constants
        <3> QED
            BY <3>1, <3>3
    <2>4. IsFiniteSet(recent \ {m}) /\ Cardinality(recent \ {m}) = size - 1
        BY <1>2, FS_RemoveElement
    <2> HIDE DEF M, recent
    <2>5. Cardinality(M) \in Nat
        BY <2>1, TranscriptFinite
    <2>6. Cardinality(M) <= size - 1
        BY <2>3, <2>4, FS_Subset
    <2> QED
        BY <1>2, <2>2, <2>5, <2>6
<1>4. ASSUME NEW m \in recent, NEW o \in recent, Newer(m, c) = Newer(o, c) PROVE m = o
    <2>1. ~Older(m, o) /\ ~Older(o, m)
        BY <1>4, NewerFewer
    <2> QED
        BY <2>1, OlderOrder
<1> HIDE DEF recent
<1>5. rank \in Injection(recent, 0..(size - 1))
    <2>1. rank \in [recent -> 0..(size - 1)]
        BY <1>3
    <2>2. IsInjective(rank)
        BY <1>4 DEF IsInjective
    <2> QED
        BY <2>1, <2>2 DEF Injection
<1>6. IsFiniteSet(0..(size - 1)) /\ Cardinality(0..(size - 1)) = size
    BY <1>2, FS_Interval
<1>7. rank \in Surjection(recent, 0..(size - 1))
    BY <1>2, <1>5, <1>6, FS_Injection
<1>8. \A k \in 0..(size - 1) : \E m \in recent : Newer(m, c) = k
    BY <1>7 DEF Surjection
<1> QED
    BY <1>2, <1>8 DEF recent

\* recent_messages returns messages of the conversation, in the order of turns.
LEMMA RecentMessages ==
    ASSUME TypeOK, NEW c
    PROVE  /\ Recent(c) \in Seq(Message)
           /\ \A i \in DOMAIN Recent(c) :
                 /\ Recent(c)[i] \in Transcript(c)
                 /\ \A j \in DOMAIN Recent(c) :
                       i < j => Recent(c)[i].turn <= Recent(c)[j].turn
<1> DEFINE recent == {m \in Transcript(c) : Newer(m, c) < Window}
           size == Cardinality(recent)
           h == [i \in 1..size |-> CHOOSE m \in recent : Newer(m, c) = size - i]
<1>1. Recent(c) = h
    BY DEF Recent
<1>2. /\ size \in Nat
      /\ \A k \in 0..(size - 1) : \E m \in recent : Newer(m, c) = k
    BY WindowRanks
<1>3. recent \subseteq Transcript(c) /\ Transcript(c) \subseteq Message
    BY DEF Transcript
<1> HIDE DEF recent
<1>4. ASSUME NEW i \in 1..size PROVE h[i] \in recent /\ Newer(h[i], c) = size - i
    <2>1. size - i \in 0..(size - 1)
        BY <1>2
    <2>2. \E m \in recent : Newer(m, c) = size - i
        BY <1>2, <2>1
    <2> QED
        BY <2>2
<1> HIDE DEF size
<1>5. h \in Seq(Message)
    BY <1>2, <1>3, <1>4
<1>6. ASSUME NEW i \in 1..size, NEW j \in 1..size, i < j PROVE h[i].turn <= h[j].turn
    <2>1. h[i] \in Transcript(c) /\ h[j] \in Transcript(c)
        BY <1>3, <1>4
    <2>2. Newer(h[j], c) < Newer(h[i], c)
        BY <1>2, <1>4, <1>6
    <2> HIDE DEF h
    <2>3. ~Older(h[j], h[i])
        BY <2>1, <2>2, NewerFewer
    <2>4. h[i].turn \in Nat /\ h[j].turn \in Nat
        BY <2>1, OlderOrder
    <2> QED
        BY <2>3, <2>4 DEF Older
<1>7. DOMAIN h = 1..size
    OBVIOUS
<1> HIDE DEF h
<1> QED
    BY <1>1, <1>3, <1>4, <1>5, <1>6, <1>7

-----------------------------------------------------------------------------
(* Steps of one request *)

Same(r) == stage'[r] = stage[r] /\ ask'[r] = ask[r] /\ session'[r] = session[r]

Others(q) == \A r \in Slots : r # q => Same(r)

\* Of the rows, q publishes its new conversation and its own turn, at most.
Effects(q) ==
    /\ gone' = gone /\ begun \in Nat /\ begun' \in Nat /\ begun <= begun'
    /\ issued \subseteq issued'
    /\ \A c \in Convs : conv'[c] # conv[c] => session[q].new /\ c = session[q].conv
    /\ \A t \in Turns : turn'[t] # turn[t] => t = ask[q].turn
    /\ ask'[q].turn \in {0, ask[q].turn} \/ ask'[q].turn > begun

LEMMA AskTurn ==
    ASSUME TypeOK, NEW q \in Slots
    PROVE  ask[q].turn \in Nat
BY Constants DEF TypeOK, Request, NoRequest

LEMMA HistoryTyped ==
    ASSUME TypeOK, NEW q \in Slots, NEW i \in DOMAIN session[q].history
    PROVE  session[q].history[i].turn \in Turns
<1>1. session[q].history \in Seq(Message)
    BY DEF TypeOK, Session
<1>2. session[q].history[i] \in Message
    BY <1>1
<1> QED
    BY <1>2 DEF Message

\* A request that does not move stays as it should be.
LEMMA SlotStays ==
    ASSUME IInv, NEW q \in Slots, NEW r \in Slots, r # q, Others(q), Effects(q)
    PROVE  SlotInv(r)'
<1>1. TypeOK /\ RowsInv /\ Same(r) /\ SlotInv(r) /\ SlotInv(q) /\ Apart(q, r)
    BY DEF IInv, Exclusion, Others
<1>2. ASSUME NEW c \in Convs, conv[c] # None PROVE conv'[c] = conv[c]
    <2>1. session[q].new /\ c = session[q].conv => conv[c] = None
        <3>1. session[q].new => stage[q] \in Working
            BY <1>1 DEF SlotInv, Shape, NoSession, Working, TypeOK, Stage
        <3> QED
            BY <1>1, <3>1 DEF SlotInv, Own
    <2> QED
        BY <1>2, <2>1 DEF Effects
<1>3. ask[r].turn # 0 /\ ask[r].turn \in Turns => turn'[ask[r].turn] = turn[ask[r].turn]
    BY <1>1 DEF Effects, Apart
<1>4. Shape(r)'
    <2>1. CASE stage[r] = "idle"
        BY <1>1, <2>1 DEF SlotInv, Shape, Same
    <2>2. CASE stage[r] # "idle"
        <3>1. ask[r] \in Request /\ ask[r].turn \in 0..MaxTurns
            BY <1>1, <2>2 DEF SlotInv, Shape, Request
        <3>2. ask[r].op # "history" => ask[r].turn \in Turns /\ ask[r].turn # 0
            BY <1>1, <2>2, <3>1 DEF SlotInv, Shape, Turns
        <3>3. ask[r].op # "history" => ask[r].turn \in 1..begun'
            BY <1>1, <2>2, <3>1 DEF SlotInv, Shape, Effects
        <3> QED
            BY <1>1, <1>3, <2>2, <3>1, <3>2, <3>3 DEF SlotInv, Shape, Same
    <2> QED
        BY <2>1, <2>2
<1>5. Own(r)'
    <2>1. stage[r] # "idle" => ask[r] \in Request /\ ask[r].who \in Principals /\ ask[r].known \subseteq Convs
        BY <1>1 DEF SlotInv, Shape, Request
    <2>2. stage[r] = "arrived" /\ ~gone => \A c \in ask[r].known : conv'[c] = ask[r].who
        BY <1>1, <1>2, <2>1, Constants DEF SlotInv, Own
    <2>3. ASSUME stage[r] \in Working
          PROVE  /\ session[r].conv \in Convs
                 /\ session[r].new => session[r].conv \in issued' /\ conv'[session[r].conv] = None /\ ~gone
                 /\ ~session[r].new => gone \/ conv'[session[r].conv] = ask[r].who
        <3>1. /\ session[r].conv \in Convs
              /\ session[r].new => session[r].conv \in issued /\ conv[session[r].conv] = None /\ ~gone
              /\ ~session[r].new => gone \/ conv[session[r].conv] = ask[r].who
            BY <1>1, <2>3 DEF SlotInv, Own
        <3>2. stage[r] # "idle"
            BY <2>3 DEF Working
        <3>3. session[r].new => conv'[session[r].conv] = conv[session[r].conv]
            BY <1>1, <3>1 DEF Effects, Apart
        <3> QED
            BY <1>2, <2>1, <3>1, <3>2, <3>3, Constants DEF Effects
    <2> QED
        BY <1>1, <2>2, <2>3 DEF Own, Same, Effects
<1>6. Added(r)'
    <2>1. session[r].added # {} => session[r].new \/ conv'[session[r].conv] # None
        <3>1. session[r].added # {} => stage[r] \in Working
            BY <1>1 DEF SlotInv, Added, Working
        <3> QED
            BY <1>1, <1>2, <3>1 DEF SlotInv, Added, Own
    <2> QED
        BY <1>1, <2>1 DEF SlotInv, Added, Same, Effects
<1>7. Read(r)'
    <2> SUFFICES ASSUME NEW i \in DOMAIN session[r].history
                 PROVE  LET t == session[r].history[i].turn IN
                        /\ t \in 1..begun'
                        /\ turn'[t] # None => turn'[t].conv = session[r].conv
                        /\ \A s \in Slots : ask'[s].turn # t
                        /\ \A j \in DOMAIN session[r].history : i < j => t <= session[r].history[j].turn
        BY <1>1 DEF Read, Same
    <2> DEFINE t == session[r].history[i].turn
    <2>1. t \in Turns
        BY <1>1, HistoryTyped
    <2>2. /\ t \in 1..begun
          /\ turn[t] # None => turn[t].conv = session[r].conv
          /\ \A s \in Slots : ask[s].turn # t
          /\ \A j \in DOMAIN session[r].history : i < j => t <= session[r].history[j].turn
        BY <1>1 DEF SlotInv, Read
    <2> HIDE DEF t
    <2>3. turn'[t] = turn[t]
        BY <2>1, <2>2 DEF Effects
    <2>4. t \in 1..begun'
        BY <2>2 DEF Effects
    <2>5. ask[q].turn \in Nat /\ t \in Nat /\ t # 0
        BY <1>1, <2>2, AskTurn DEF Effects
    <2>6. ASSUME NEW s \in Slots PROVE ask'[s].turn # t
        <3>1. CASE s = q
            BY <2>2, <2>5, <3>1 DEF Effects
        <3>2. CASE s # q
            BY <2>2, <3>2 DEF Others, Same
        <3> QED
            BY <3>1, <3>2
    <2> QED
        BY <2>2, <2>3, <2>4, <2>6 DEF t
<1> QED
    BY <1>4, <1>5, <1>6, <1>7 DEF SlotInv

\* What is to be shown of the step of a request.
LEMMA StepInv ==
    ASSUME IInv, NEW q \in Slots, Others(q), Effects(q),
           TypeOK', RowsInv', AnsweredMeansSaved', SlotInv(q)',
           \A r \in Slots : r # q => Apart(q, r)'
    PROVE  IInv'
<1>1. \A r \in Slots : SlotInv(r)'
    BY SlotStays
<1>2. ASSUME NEW r \in Slots, NEW s \in Slots, r # s PROVE Apart(r, s)'
    <2>1. CASE r = q
        BY <1>2, <2>1
    <2>2. CASE s = q
        BY <1>2, <2>2 DEF Apart
    <2>3. CASE r # q /\ s # q
        BY <1>2, <2>3 DEF IInv, Exclusion, Others, Same, Apart
    <2> QED
        BY <2>1, <2>2, <2>3
<1>3. Exclusion'
    BY <1>2 DEF Exclusion
<1> QED
    BY <1>1, <1>3 DEF IInv

\* A request that ends leaves a free slot, of which everything is true.
LEMMA EndSlot ==
    ASSUME TypeOK, NEW q \in Slots, End(q)
    PROVE  /\ Others(q)
           /\ SlotInv(q)'
           /\ \A r \in Slots : r # q => Apart(q, r)'
           /\ ask'[q].turn = 0
           /\ stage' \in [Slots -> Stage]
           /\ ask' \in [Slots -> Request \cup {NoRequest}]
           /\ session' \in [Slots -> Session]
<1>1. Others(q)
    BY DEF Others, Same, End, Goto, TypeOK
<1>2. stage'[q] = "idle" /\ ask'[q] = NoRequest /\ session'[q] = NoSession
    BY DEF End, Goto, TypeOK
<1>3. /\ ask'[q].turn = 0 /\ session'[q].added = {} /\ session'[q].history = <<>>
      /\ ~session'[q].new
    BY <1>2 DEF NoRequest, NoSession
<1>4. SlotInv(q)'
    BY <1>2, <1>3 DEF SlotInv, Shape, Own, Added, Read, Working
<1>5. ASSUME NEW r \in Slots, r # q PROVE Apart(q, r)'
    BY <1>3 DEF Apart
<1>6. stage' \in [Slots -> Stage] /\ ask' \in [Slots -> Request \cup {NoRequest}]
    BY DEF End, Goto, TypeOK, Stage
<1>7. session' \in [Slots -> Session]
    <2>1. NoSession \in Session
        BY DEF NoSession, Session
    <2> QED
        BY <2>1 DEF End, TypeOK
<1> QED
    BY <1>1, <1>3, <1>4, <1>5, <1>6, <1>7

\* Nothing has been published: the session was rolled back.
LEMMA RollbackInv ==
    ASSUME IInv, NEW q \in Slots, End(q), UNCHANGED <<database, begun, ghosts>>,
           Tell(q, "error") \/ told' = told
    PROVE  IInv'
<1>1. TypeOK /\ UNCHANGED <<conv, turn, gone, begun, before, issued>>
    BY DEF IInv, database, ghosts
<1>2. TypeOK'
    <2>1. told' \in [Turns -> {"nothing", "answer", "error"}]
        BY <1>1 DEF TypeOK, Tell
    <2> QED
        BY <1>1, <2>1, EndSlot DEF TypeOK
<1>3. RowsInv'
    BY <1>1 DEF IInv, RowsInv
<1>4. AnsweredMeansSaved'
    BY <1>1 DEF IInv, AnsweredMeansSaved, Tell
<1>5. Effects(q)
    BY <1>1, EndSlot DEF Effects, TypeOK
<1> QED
    BY <1>1, <1>2, <1>3, <1>4, <1>5, EndSlot, StepInv

LEMMA FailInv == ASSUME IInv, NEW q \in Slots, Fail(q) PROVE IInv'
BY RollbackInv DEF Fail

\* The session's own rows change, and none that is committed.
LEMMA MovesInv ==
    ASSUME IInv, NEW q \in Slots, NEW next \in Stage, Goto(q, next), NEW s \in Session,
           session' = [session EXCEPT ![q] = s],
           UNCHANGED <<database, begun, ask, told>>,
           issued \subseteq issued', issued' \subseteq Convs, before' = before,
           (stage'[q] = next /\ session'[q] = s) => SlotInv(q)',
           s.new => \A r \in Slots : r # q /\ session[r].new => session[r].conv # s.conv
    PROVE  IInv'
<1>1. TypeOK /\ UNCHANGED <<conv, turn, gone>>
    BY DEF IInv, database
<1>2. /\ stage'[q] = next /\ session'[q] = s /\ Others(q)
      /\ stage' \in [Slots -> Stage] /\ session' \in [Slots -> Session]
    BY <1>1 DEF TypeOK, Goto, Others, Same
<1>3. TypeOK'
    BY <1>1, <1>2 DEF TypeOK
<1>4. RowsInv' /\ AnsweredMeansSaved'
    BY <1>1 DEF IInv, RowsInv, AnsweredMeansSaved
<1>5. Effects(q)
    BY <1>1 DEF Effects, TypeOK
<1>6. ASSUME NEW r \in Slots, r # q PROVE Apart(q, r)'
    BY <1>2, <1>6 DEF IInv, Exclusion, Apart, Others, Same
<1> QED
    BY <1>2, <1>3, <1>4, <1>5, <1>6, StepInv

LEMMA ArriveInv == ASSUME IInv, NEW q \in Slots, Arrive(q) PROVE IInv'
<1>1. PICK a \in Request :
         /\ a.known = Of(a.who)
         /\ \/ a.op = "history" /\ a.turn = 0 /\ begun' = begun
            \/ /\ a.op # "history" /\ begun < MaxTurns
               /\ a.turn = begun + 1 /\ begun' = begun + 1
         /\ ask' = [ask EXCEPT ![q] = a]
    BY DEF Arrive
<1>2. /\ stage[q] = "idle" /\ ~gone /\ Goto(q, "arrived")
      /\ UNCHANGED <<conv, turn, gone, session, told, before, issued>>
    BY DEF Arrive, database, ghosts
<1>3. TypeOK /\ RowsInv /\ SlotInv(q)
    BY DEF IInv
<1>4. begun \in Nat /\ begun <= MaxTurns /\ MaxTurns \in Nat
    BY <1>3, Constants DEF TypeOK
<1>5. stage'[q] = "arrived" /\ ask'[q] = a /\ Others(q)
    BY <1>1, <1>2, <1>3 DEF Goto, TypeOK, Others, Same
<1>6. TypeOK'
    <2>1. stage' \in [Slots -> Stage] /\ ask' \in [Slots -> Request \cup {NoRequest}]
        BY <1>1, <1>2, <1>3 DEF Goto, TypeOK, Stage
    <2>2. begun' \in 0..MaxTurns
        BY <1>1, <1>4
    <2> QED
        BY <1>2, <1>3, <2>1, <2>2 DEF TypeOK
<1>7. RowsInv' /\ AnsweredMeansSaved'
    BY <1>1, <1>2, <1>4 DEF IInv, RowsInv, AnsweredMeansSaved
<1>8. Effects(q)
    BY <1>1, <1>2, <1>4, <1>5 DEF Effects
<1>9. session'[q] = NoSession
    BY <1>2, <1>3 DEF SlotInv, Shape
<1>10. SlotInv(q)'
    <2>1. Shape(q)'
        <3>1. a.op # "history" => a.turn \in Turns /\ a.turn \notin 1..begun
            BY <1>1, <1>4 DEF Turns
        <3>2. a.op # "history" => turn[a.turn] = None
            BY <1>3, <3>1 DEF RowsInv
        <3> QED
            BY <1>1, <1>2, <1>4, <1>5, <1>9, <3>2 DEF Shape
    <2>2. Own(q)'
        BY <1>1, <1>2, <1>5 DEF Own, Of, Working
    <2>3. Added(q)' /\ Read(q)'
        BY <1>5, <1>9 DEF Added, Read, NoSession
    <2> QED
        BY <2>1, <2>2, <2>3 DEF SlotInv
<1>11. ASSUME NEW r \in Slots, r # q PROVE Apart(q, r)'
    <2>1. SlotInv(r) /\ ask'[r] = ask[r]
        BY <1>5, <1>11 DEF IInv, Others, Same
    <2>2. ask[r].turn = 0 \/ ask[r].turn \in 1..begun
        BY <2>1 DEF SlotInv, Shape, NoRequest
    <2>3. ~session'[q].new
        BY <1>9 DEF NoSession
    <2> QED
        BY <1>1, <1>4, <1>5, <2>1, <2>2, <2>3 DEF Apart
<1> QED
    BY <1>5, <1>6, <1>7, <1>8, <1>10, <1>11, StepInv

LEMMA SessionTyped ==
    ASSUME TypeOK, NEW q \in Slots
    PROVE  /\ session[q] \in Session
           /\ session[q].conv \in Convs \cup {None} /\ session[q].new \in BOOLEAN
           /\ session[q].added \subseteq {"user", "assistant"}
           /\ session[q].history \in Seq(Message)
<1>1. session[q] \in Session
    BY DEF TypeOK
<1> QED
    BY <1>1 DEF Session

LEMMA GetConversationInv ==
    ASSUME IInv, NEW q \in Slots, GetConversation(q) PROVE IInv'
<1>1. stage[q] = "arrived" /\ SlotInv(q) /\ TypeOK /\ RowsInv
    BY DEF GetConversation, IInv
<1>2. ask[q] \in Request /\ session[q] = NoSession /\ ask[q].known \subseteq Convs
    BY <1>1 DEF SlotInv, Shape, Request
<1>3. CASE Fail(q)
    BY <1>3, FailInv
<1>4. ASSUME NEW c \in Convs, Found(q) = {c},
             session' = [session EXCEPT ![q].conv = c], Goto(q, "open"),
             UNCHANGED <<database, begun, ask, told, ghosts>>
      PROVE  IInv'
    <2> DEFINE s == [NoSession EXCEPT !.conv = c]
    <2>1. session' = [session EXCEPT ![q] = s]
        BY <1>1, <1>2, <1>4
    <2>2. /\ s \in Session /\ s.conv = c /\ ~s.new /\ s.added = {} /\ s.history = <<>>
        <3>1. /\ NoSession \in Session /\ ~NoSession.new /\ NoSession.added = {}
              /\ NoSession.history = <<>>
            BY DEF NoSession, Session
        <3> QED
            BY <3>1 DEF Session
    <2>3. conv[c] = ask[q].who
        BY <1>4 DEF Found, Of
    <2> HIDE DEF s
    <2>4. stage'[q] = "open" /\ session'[q] = s => SlotInv(q)'
        <3> SUFFICES ASSUME stage'[q] = "open", session'[q] = s PROVE SlotInv(q)'
            OBVIOUS
        <3>1. Shape(q)'
            BY <1>1, <1>2, <1>4 DEF SlotInv, Shape, database
        <3>2. Own(q)'
            BY <1>4, <2>2, <2>3 DEF Own, Working, database
        <3>3. Added(q)' /\ Read(q)'
            BY <2>2 DEF Added, Read
        <3> QED
            BY <3>1, <3>2, <3>3 DEF SlotInv
    <2> QED
        BY <1>1, <1>4, <2>1, <2>2, <2>4, MovesInv DEF TypeOK, Stage, ghosts
<1>5. ASSUME Found(q) = {}, ~gone, NEW c \in Convs \ issued,
             session' = [session EXCEPT ![q].conv = c, ![q].new = TRUE],
             issued' = issued \cup {c}, before' = [before EXCEPT ![c] = ask[q].known],
             Goto(q, "open"), UNCHANGED <<database, begun, ask, told>>
      PROVE  IInv'
    <2> DEFINE s == [NoSession EXCEPT !.conv = c, !.new = TRUE]
    <2>1. session' = [session EXCEPT ![q] = s]
        BY <1>1, <1>2, <1>5
    <2>2. /\ s \in Session /\ s.conv = c /\ s.new /\ s.added = {} /\ s.history = <<>>
        <3>1. /\ NoSession \in Session /\ NoSession.added = {} /\ NoSession.history = <<>>
            BY DEF NoSession, Session
        <3> QED
            BY <3>1 DEF Session
    <2> HIDE DEF s
    <2>3. before' = before
        <3>1. ask[q].known = {}
            BY <1>1, <1>2, <1>5 DEF SlotInv, Own, Found, Of
        <3>2. before[c] = {} /\ before \in [Convs -> SUBSET Convs]
            BY <1>1 DEF RowsInv, TypeOK
        <3> QED
            BY <1>5, <3>1, <3>2
    <2>4. conv[c] = None
        BY <1>1 DEF RowsInv
    <2>5. stage'[q] = "open" /\ session'[q] = s => SlotInv(q)'
        <3> SUFFICES ASSUME stage'[q] = "open", session'[q] = s PROVE SlotInv(q)'
            OBVIOUS
        <3>1. Shape(q)'
            BY <1>1, <1>2, <1>5 DEF SlotInv, Shape, database
        <3>2. Own(q)'
            BY <1>5, <2>2, <2>4 DEF Own, Working, database
        <3>3. Added(q)' /\ Read(q)'
            BY <2>2 DEF Added, Read
        <3> QED
            BY <3>1, <3>2, <3>3 DEF SlotInv
    <2>6. ASSUME NEW r \in Slots, session[r].new PROVE session[r].conv # c
        <3>1. SlotInv(r)
            BY DEF IInv
        <3>2. stage[r] \in Working
            BY <1>1, <2>6, <3>1 DEF SlotInv, Shape, NoSession, Working, TypeOK, Stage
        <3> QED
            BY <2>6, <3>1, <3>2 DEF SlotInv, Own
    <2>7. issued \subseteq issued' /\ issued' \subseteq Convs
        BY <1>1, <1>5 DEF TypeOK
    <2>8. s.new => \A r \in Slots : r # q /\ session[r].new => session[r].conv # s.conv
        BY <2>2, <2>6
    <2>9. "open" \in Stage
        BY DEF Stage
    <2> QED
        BY <1>5, <2>1, <2>2, <2>3, <2>5, <2>7, <2>8, <2>9, MovesInv
<1> QED
    BY <1>3, <1>4, <1>5 DEF GetConversation, ghosts

LEMMA BuildRequestInv ==
    ASSUME IInv, NEW q \in Slots, BuildRequest(q) PROVE IInv'
<1>1. CASE Fail(q)
    BY <1>1, FailInv
<1>2. CASE ~Fail(q)
    <2> DEFINE c == session[q].conv
               s == [session[q] EXCEPT !.history = Recent(c)]
    <2>1. /\ stage[q] = "open" /\ ask[q].op # "history"
          /\ session' = [session EXCEPT ![q] = s]
          /\ Goto(q, "built")
          /\ UNCHANGED <<conv, turn, gone, begun, ask, told, before, issued>>
        BY <1>2 DEF BuildRequest, database, ghosts
    <2>2. TypeOK /\ RowsInv /\ SlotInv(q)
        BY DEF IInv
    <2>3. /\ Recent(c) \in Seq(Message)
          /\ \A i \in DOMAIN Recent(c) :
                /\ Recent(c)[i] \in Transcript(c)
                /\ \A j \in DOMAIN Recent(c) :
                      i < j => Recent(c)[i].turn <= Recent(c)[j].turn
        BY <2>2, RecentMessages
    <2>4. /\ s \in Session /\ s.conv = c /\ s.new = session[q].new
          /\ s.added = session[q].added /\ s.history = Recent(c)
        BY <2>2, <2>3, SessionTyped DEF Session
    <2>5. s.added = {} /\ c \in Convs
        BY <2>1, <2>2, <2>4 DEF SlotInv, Added, Own, Working
    <2> HIDE DEF s, c
    <2>6. stage'[q] = "built" /\ session'[q] = s => SlotInv(q)'
        <3> SUFFICES ASSUME stage'[q] = "built", session'[q] = s PROVE SlotInv(q)'
            OBVIOUS
        <3>1. Shape(q)'
            BY <2>1, <2>2 DEF SlotInv, Shape
        <3>2. Own(q)'
            BY <2>1, <2>2, <2>4 DEF SlotInv, Own, Working, c
        <3>3. Added(q)'
            BY <2>5 DEF Added
        <3>4. Read(q)'
            <4> SUFFICES ASSUME NEW i \in DOMAIN s.history
                         PROVE  LET t == s.history[i].turn IN
                                /\ t \in 1..begun'
                                /\ turn'[t] # None => turn'[t].conv = s.conv
                                /\ \A r \in Slots : ask'[r].turn # t
                                /\ \A j \in DOMAIN s.history : i < j => t <= s.history[j].turn
                BY DEF Read
            <4>1. s.history[i] \in Transcript(c)
                BY <2>3, <2>4
            <4>2. PICK t \in Turns : t = s.history[i].turn /\ turn[t] # None /\ turn[t].conv = c
                BY <4>1 DEF Transcript, Message
            <4>3. t \in 1..begun
                BY <2>2, <4>2 DEF RowsInv
            <4>4. ASSUME NEW r \in Slots PROVE ask[r].turn # t
                <5>1. SlotInv(r)
                    BY DEF IInv
                <5> QED
                    BY <4>2, <4>3, <5>1 DEF SlotInv, Shape, NoRequest
            <4> QED
                BY <2>1, <2>3, <2>4, <4>2, <4>3, <4>4
        <3> QED
            BY <3>1, <3>2, <3>3, <3>4 DEF SlotInv
    <2>7. s.new => \A r \in Slots : r # q /\ session[r].new => session[r].conv # s.conv
        BY <2>4 DEF IInv, Exclusion, Apart, c
    <2> QED
        BY <2>1, <2>2, <2>4, <2>6, <2>7, MovesInv DEF Stage, TypeOK, database
<1> QED
    BY <1>1, <1>2

LEMMA AddQuestionInv ==
    ASSUME IInv, NEW q \in Slots, AddQuestion(q) PROVE IInv'
<1>1. CASE Fail(q)
    BY <1>1, FailInv
<1>2. CASE ~Fail(q)
    <2> DEFINE s == [session[q] EXCEPT !.added = {"user"}]
    <2>1. /\ stage[q] = "built" /\ There(q)
          /\ session' = [session EXCEPT ![q] = s]
          /\ Goto(q, "asked")
          /\ UNCHANGED <<database, begun, ask, told, ghosts>>
        BY <1>2 DEF AddQuestion
    <2>2. TypeOK /\ RowsInv /\ SlotInv(q) /\ UNCHANGED <<conv, turn, gone, before, issued>>
        BY <2>1 DEF IInv, database, ghosts
    <2>3. /\ s \in Session /\ s.conv = session[q].conv /\ s.new = session[q].new
          /\ s.added = {"user"} /\ s.history = session[q].history
        BY <2>2, SessionTyped DEF Session
    <2>4. /\ session[q].conv \in Convs
          /\ session[q].new => ~gone
          /\ session[q].new \/ conv[session[q].conv] # None
        BY <2>1, <2>2 DEF SlotInv, Own, Working, There
    <2>5. ~gone
        BY <2>2, <2>4 DEF RowsInv
    <2> HIDE DEF s
    <2>6. stage'[q] = "asked" /\ session'[q] = s => SlotInv(q)'
        <3> SUFFICES ASSUME stage'[q] = "asked", session'[q] = s PROVE SlotInv(q)'
            OBVIOUS
        <3>1. Shape(q)'
            BY <2>1, <2>2 DEF SlotInv, Shape
        <3>2. Own(q)'
            BY <2>1, <2>2, <2>3 DEF SlotInv, Own, Working
        <3>3. Added(q)'
            BY <2>2, <2>3, <2>4, <2>5 DEF Added
        <3>4. Read(q)'
            BY <2>1, <2>2, <2>3 DEF SlotInv, Read
        <3> QED
            BY <3>1, <3>2, <3>3, <3>4 DEF SlotInv
    <2>7. s.new => \A r \in Slots : r # q /\ session[r].new => session[r].conv # s.conv
        BY <2>3 DEF IInv, Exclusion, Apart
    <2>8. "asked" \in Stage /\ issued \subseteq issued' /\ issued' \subseteq Convs
        BY <2>2 DEF Stage, TypeOK
    <2> QED
        BY <2>1, <2>2, <2>3, <2>6, <2>7, <2>8, MovesInv
<1> QED
    BY <1>1, <1>2

LEMMA GenerateInv ==
    ASSUME IInv, NEW q \in Slots, Generate(q) PROVE IInv'
<1>1. TypeOK /\ SlotInv(q) /\ UNCHANGED <<database, begun, ask, told, ghosts>>
    BY DEF Generate, IInv
<1>2. stage[q] = "asked" /\ Goto(q, "answered")
    BY DEF Generate
<1>3. UNCHANGED <<conv, turn, gone, before, issued>>
    BY <1>1 DEF database, ghosts
<1>4. session[q].added # {} /\ session[q] \in Session /\ session[q].added \subseteq {"user", "assistant"}
    BY <1>1, <1>2, SessionTyped DEF SlotInv, Added
<1>5. ASSUME NEW s \in Session, session' = [session EXCEPT ![q] = s],
             s.conv = session[q].conv, s.new = session[q].new,
             s.history = session[q].history, s.added # {}
      PROVE  IInv'
    <2>1. stage'[q] = "answered" /\ session'[q] = s => SlotInv(q)'
        <3> SUFFICES ASSUME stage'[q] = "answered", session'[q] = s PROVE SlotInv(q)'
            OBVIOUS
        <3>1. Shape(q)'
            BY <1>1, <1>2, <1>3 DEF SlotInv, Shape
        <3>2. Own(q)'
            BY <1>1, <1>2, <1>3, <1>5 DEF SlotInv, Own, Working
        <3>3. Added(q)'
            BY <1>1, <1>2, <1>3, <1>4, <1>5 DEF SlotInv, Added
        <3>4. Read(q)'
            BY <1>1, <1>3, <1>5 DEF SlotInv, Read
        <3> QED
            BY <3>1, <3>2, <3>3, <3>4 DEF SlotInv
    <2>2. s.new => \A r \in Slots : r # q /\ session[r].new => session[r].conv # s.conv
        BY <1>5 DEF IInv, Exclusion, Apart
    <2>3. "answered" \in Stage /\ issued \subseteq issued' /\ issued' \subseteq Convs
        BY <1>1, <1>3 DEF Stage, TypeOK
    <2> QED
        BY <1>1, <1>2, <1>3, <1>5, <2>1, <2>2, <2>3, MovesInv
<1>6. CASE UNCHANGED session
    <2>1. session' = [session EXCEPT ![q] = session[q]]
        BY <1>1, <1>6 DEF TypeOK
    <2> QED
        BY <1>4, <1>5, <2>1
<1>7. CASE session' = [session EXCEPT ![q].added = @ \cup {"assistant"}]
    <2> DEFINE s == [session[q] EXCEPT !.added = @ \cup {"assistant"}]
    <2>1. session' = [session EXCEPT ![q] = s]
        BY <1>7
    <2>2. /\ s \in Session /\ s.conv = session[q].conv /\ s.new = session[q].new
          /\ s.history = session[q].history /\ s.added # {}
        BY <1>4 DEF Session
    <2> HIDE DEF s
    <2> QED
        BY <1>5, <2>1, <2>2
<1> QED
    BY <1>6, <1>7 DEF Generate

LEMMA CommitInv ==
    ASSUME IInv, NEW q \in Slots, Commit(q) PROVE IInv'
<1> DEFINE a == ask[q]
           s == session[q]
<1>1. /\ Finished(q) /\ End(q) /\ (Tell(q, "answer") \/ Tell(q, "error"))
      /\ UNCHANGED <<gone, begun, before, issued>>
    BY DEF Commit, Publish, ghosts
<1>2. conv' = IF s.new THEN [conv EXCEPT ![s.conv] = a.who] ELSE conv
    BY DEF Commit, Publish
<1>3. PICK later \in BOOLEAN :
         turn' = [t \in Turns |->
                    IF t = a.turn /\ s.added # {}
                    THEN [conv |-> s.conv, answered |-> "assistant" \in s.added,
                          later |-> later /\ "assistant" \in s.added]
                    ELSE turn[t]]
    BY DEF Commit, Publish
<1>4. TypeOK /\ RowsInv /\ SlotInv(q) /\ AnsweredMeansSaved
    BY DEF IInv
<1>5. stage[q] \in Working /\ stage[q] # "idle" /\ stage[q] \in {"open", "answered"}
    BY <1>1 DEF Finished, Working
<1>6. /\ a \in Request /\ a.who \in Principals /\ a.who # None
      /\ a.op = "history" => a.turn = 0
      /\ a.op # "history" => a.turn \in 1..begun /\ a.turn \in Turns
    <2>1. a \in Request /\ a.who \in Principals /\ a.turn \in 0..MaxTurns
        BY <1>4, <1>5 DEF SlotInv, Shape, Request
    <2> QED
        BY <1>4, <1>5, <2>1, Constants DEF SlotInv, Shape, Turns
<1>7. /\ s.conv \in Convs /\ s.new \in BOOLEAN
      /\ s.new => s.conv \in issued /\ conv[s.conv] = None /\ ~gone
    BY <1>4, <1>5, SessionTyped DEF SlotInv, Own
<1>8. s.added # {} => /\ stage[q] = "answered" /\ a.op # "history" /\ ~gone
                      /\ s.new \/ conv[s.conv] # None
    BY <1>4, <1>5 DEF SlotInv, Added, Shape
<1>9. stage[q] = "answered" <=> a.op # "history"
    BY <1>1, <1>4 DEF SlotInv, Shape, Finished
<1>10. stage[q] = "answered" => s.added # {}
    BY <1>4 DEF SlotInv, Added
<1> HIDE DEF a, s
<1>11. [conv |-> s.conv, answered |-> "assistant" \in s.added,
        later |-> later /\ "assistant" \in s.added] \in TurnRow
    BY <1>7 DEF TurnRow
<1>12. /\ \A c \in Convs : conv'[c] = IF s.new /\ c = s.conv THEN a.who ELSE conv[c]
       /\ conv' \in [Convs -> Principals \cup {None}]
    BY <1>2, <1>4, <1>6, <1>7 DEF TypeOK
<1>13. \A t \in Turns : ~(t = a.turn /\ s.added # {}) => turn'[t] = turn[t]
    BY <1>3
<1>14. \A t \in Turns : t = a.turn /\ s.added # {} =>
          turn'[t] \in TurnRow /\ turn'[t] # None /\ turn'[t].conv = s.conv
    BY <1>3, <1>11, Constants
<1>15. TypeOK'
    <2>1. turn' \in [Turns -> TurnRow \cup {None}]
        BY <1>3, <1>4, <1>11 DEF TypeOK
    <2>2. told' \in [Turns -> {"nothing", "answer", "error"}]
        BY <1>1, <1>4 DEF TypeOK, Tell
    <2> QED
        BY <1>1, <1>4, <1>12, <2>1, <2>2, EndSlot DEF TypeOK
<1>16. RowsInv'
    <2>1. \A c \in Convs : conv'[c] # None => c \in issued
        BY <1>4, <1>7, <1>12 DEF RowsInv
    <2>2. \A c \in Convs : before[c] = {}
        BY <1>4 DEF RowsInv
    <2>3. ASSUME NEW t \in Turns, turn'[t] # None
          PROVE  t \in 1..begun /\ conv'[turn'[t].conv] # None
        <3>1. CASE t = a.turn /\ s.added # {}
            <4>1. t \in 1..begun
                BY <1>6, <1>8, <3>1
            <4>2. turn'[t].conv = s.conv
                BY <1>14, <3>1
            <4> QED
                BY <1>6, <1>7, <1>8, <1>12, <3>1, <4>1, <4>2
        <3>2. CASE ~(t = a.turn /\ s.added # {})
            <4>1. turn'[t] = turn[t]
                BY <1>13, <3>2
            <4>2. t \in 1..begun /\ conv[turn[t].conv] # None
                BY <1>4, <2>3, <4>1 DEF RowsInv
            <4>3. turn[t] \in TurnRow /\ turn[t].conv \in Convs
                BY <1>4, <2>3, <4>1 DEF TypeOK, TurnRow
            <4> QED
                BY <1>6, <1>12, <4>1, <4>2, <4>3
        <3> QED
            BY <3>1, <3>2
    <2>4. gone => (\A c \in Convs : conv'[c] = None) /\ (\A t \in Turns : turn'[t] = None)
        BY <1>4, <1>7, <1>8, <1>12, <1>13 DEF RowsInv
    <2> QED
        BY <1>1, <2>1, <2>2, <2>3, <2>4 DEF RowsInv
<1>17. AnsweredMeansSaved'
    <2> SUFFICES ASSUME NEW t \in Turns, told'[t] = "answer", ~gone PROVE turn'[t] # None
        BY <1>1 DEF AnsweredMeansSaved
    <2>1. CASE t = a.turn
        <3>1. a.turn # 0
            BY <2>1, Constants DEF Turns
        <3>2. s.added # {}
            BY <1>6, <1>9, <1>10, <3>1
        <3> QED
            BY <1>14, <2>1, <3>2
    <2>2. CASE t # a.turn
        <3>1. told[t] = "answer"
            BY <1>1, <2>2 DEF Tell, a
        <3> QED
            BY <1>4, <1>13, <2>2, <3>1 DEF AnsweredMeansSaved
    <2> QED
        BY <2>1, <2>2
<1>18. Effects(q)
    <2>1. begun \in Nat /\ ask'[q].turn = 0
        BY <1>1, <1>4, EndSlot DEF TypeOK
    <2>2. \A c \in Convs : conv'[c] # conv[c] => s.new /\ c = s.conv
        BY <1>12
    <2>3. \A t \in Turns : turn'[t] # turn[t] => t = a.turn
        BY <1>13
    <2> QED
        BY <1>1, <2>1, <2>2, <2>3 DEF Effects, a, s
<1> QED
    BY <1>1, <1>4, <1>15, <1>16, <1>17, <1>18, EndSlot, StepInv

LEMMA DeleteDocumentInv == ASSUME IInv, DeleteDocument PROVE IInv'
<1>1. /\ gone' = TRUE /\ conv' = [c \in Convs |-> None] /\ turn' = [t \in Turns |-> None]
      /\ UNCHANGED <<begun, stage, ask, session, told, before, issued>>
      /\ \A q \in Slots : ~session[q].new /\ session[q].added = {}
    BY DEF DeleteDocument, ghosts
<1>2. TypeOK /\ RowsInv /\ Exclusion /\ \A q \in Slots : SlotInv(q)
    BY DEF IInv
<1>3. TypeOK'
    BY <1>1, <1>2 DEF TypeOK
<1>4. RowsInv' /\ AnsweredMeansSaved' /\ Exclusion'
    BY <1>1, <1>2 DEF RowsInv, AnsweredMeansSaved, Exclusion, Apart
<1>5. ASSUME NEW q \in Slots PROVE SlotInv(q)'
    <2>1. SlotInv(q) /\ ~session[q].new /\ session[q].added = {}
        BY <1>1, <1>2
    <2>2. Shape(q)'
        <3>1. CASE stage[q] = "idle"
            BY <1>1, <2>1, <3>1 DEF SlotInv, Shape
        <3>2. CASE stage[q] # "idle"
            <4>1. ask[q].op # "history" => ask[q].turn \in Turns
                BY <1>2, <2>1, <3>2, Constants DEF SlotInv, Shape, Request, Turns, TypeOK
            <4> QED
                BY <1>1, <2>1, <3>2, <4>1 DEF SlotInv, Shape
        <3> QED
            BY <3>1, <3>2
    <2>3. Own(q)' /\ Added(q)'
        BY <1>1, <2>1 DEF SlotInv, Own, Added
    <2>4. Read(q)'
        <3> SUFFICES ASSUME NEW i \in DOMAIN session[q].history
                     PROVE  LET t == session[q].history[i].turn IN
                            /\ t \in 1..begun
                            /\ turn'[t] # None => turn'[t].conv = session[q].conv
                            /\ \A r \in Slots : ask[r].turn # t
                            /\ \A j \in DOMAIN session[q].history :
                                  i < j => t <= session[q].history[j].turn
            BY <1>1 DEF Read
        <3>1. session[q].history[i].turn \in Turns
            BY <1>2, HistoryTyped
        <3> QED
            BY <1>1, <2>1, <3>1 DEF SlotInv, Read
    <2> QED
        BY <2>2, <2>3, <2>4 DEF SlotInv
<1> QED
    BY <1>3, <1>4, <1>5 DEF IInv

-----------------------------------------------------------------------------
(* Every step *)

LEMMA InitIInv == ASSUME Init PROVE IInv
<1>1. NoSession \in Session /\ ~NoSession.new /\ NoSession.added = {} /\ NoSession.history = <<>>
    BY DEF NoSession, Session
<1>2. TypeOK
    <2>1. begun \in 0..MaxTurns /\ session \in [Slots -> Session]
        BY <1>1, Constants DEF Init
    <2>2. conv \in [Convs -> Principals \cup {None}] /\ turn \in [Turns -> TurnRow \cup {None}]
        BY DEF Init
    <2> QED
        BY <2>1, <2>2 DEF Init, TypeOK, Stage
<1>3. RowsInv /\ AnsweredMeansSaved
    BY DEF Init, RowsInv, AnsweredMeansSaved
<1>4. Exclusion
    BY <1>1 DEF Init, Exclusion, Apart, NoRequest
<1>5. ASSUME NEW q \in Slots PROVE SlotInv(q)
    BY <1>1 DEF Init, SlotInv, Shape, Own, Added, Read, Working
<1> QED
    BY <1>2, <1>3, <1>4, <1>5 DEF IInv

LEMMA StutterInv == ASSUME IInv, UNCHANGED vars PROVE IInv'
<1>1. UNCHANGED <<conv, turn, gone, begun, stage, ask, session, told, before, issued>>
    BY DEF vars
<1>2. TypeOK' /\ RowsInv' /\ AnsweredMeansSaved' /\ Exclusion'
    BY <1>1 DEF IInv, TypeOK, RowsInv, AnsweredMeansSaved, Exclusion, Apart
<1>3. ASSUME NEW q \in Slots PROVE SlotInv(q)'
    BY <1>1 DEF IInv, SlotInv, Shape, Own, Added, Read
<1> QED
    BY <1>2, <1>3 DEF IInv

LEMMA NextIInv == ASSUME IInv, [Next]_vars PROVE IInv'
<1>1. CASE UNCHANGED vars
    BY <1>1, StutterInv
<1>2. CASE DeleteDocument
    BY <1>2, DeleteDocumentInv
<1>3. CASE AllQuiet
    BY <1>3, StutterInv DEF AllQuiet
<1>4. ASSUME NEW q \in Slots, Arrive(q) \/ Proceed(q) \/ Raise(q) \/ Abandon(q)
      PROVE  IInv'
    <2>1. CASE Arrive(q)
        BY <2>1, ArriveInv
    <2>2. CASE GetConversation(q)
        BY <2>2, GetConversationInv
    <2>3. CASE BuildRequest(q)
        BY <2>3, BuildRequestInv
    <2>4. CASE AddQuestion(q)
        BY <2>4, AddQuestionInv
    <2>5. CASE Generate(q)
        BY <2>5, GenerateInv
    <2>6. CASE Commit(q)
        BY <2>6, CommitInv
    <2>7. CASE Raise(q)
        BY <2>7, FailInv DEF Raise
    <2>8. CASE Abandon(q)
        BY <2>8, RollbackInv DEF Abandon
    <2> QED
        BY <1>4, <2>1, <2>2, <2>3, <2>4, <2>5, <2>6, <2>7, <2>8 DEF Proceed
<1> QED
    BY <1>1, <1>2, <1>3, <1>4 DEF Next

\* IInv is an invariant of the specification.
THEOREM InductiveInvariant == Spec => []IInv
<1>1. Init => IInv
    BY InitIInv
<1>2. IInv /\ [Next]_vars => IInv'
    BY NextIInv
<1> QED
    BY <1>1, <1>2, PTL DEF Spec

-----------------------------------------------------------------------------
(* Theorems *)

\* Every row, request and session of chat_service has the fields the code
\* gives it, at every step of every request.
THEOREM TypeCorrect == Spec => []TypeOK
<1>1. IInv => TypeOK
    BY DEF IInv
<1> QED
    BY <1>1, InductiveInvariant, PTL

\* _build_request sends the provider turns of the asking principal's own
\* conversation, all of them asked earlier and none of them his new question.
THEOREM HistoryOfOnesOwn == Spec => []HistoryIsOwn
<1>1. ASSUME IInv, NEW q \in Slots, NEW t \in Mentioned(q)
      PROVE  t # ask[q].turn /\ (turn[t] # None => conv[turn[t].conv] = ask[q].who)
    <2>1. PICK i \in DOMAIN session[q].history : t = session[q].history[i].turn
        BY DEF Mentioned
    <2>2. TypeOK /\ RowsInv /\ SlotInv(q)
        BY <1>1 DEF IInv
    <2>3. t # ask[q].turn /\ (turn[t] # None => turn[t].conv = session[q].conv)
        BY <2>1, <2>2 DEF SlotInv, Read
    <2>4. t \in Turns
        BY <2>1, <2>2, HistoryTyped
    <2>5. stage[q] \in Working
        <3>1. session[q] # NoSession
            BY <2>1 DEF NoSession
        <3> QED
            BY <2>2, <3>1 DEF SlotInv, Shape, Working, TypeOK, Stage
    <2>6. ASSUME turn[t] # None PROVE conv[turn[t].conv] = ask[q].who
        <3>1. turn[t].conv = session[q].conv /\ ~gone /\ conv[session[q].conv] # None
            BY <2>2, <2>3, <2>4, <2>6 DEF RowsInv
        <3> QED
            BY <2>2, <2>5, <3>1 DEF SlotInv, Own
    <2> QED
        BY <2>3, <2>6
<1>2. IInv => HistoryIsOwn
    BY <1>1 DEF HistoryIsOwn
<1> QED
    BY <1>2, InductiveInvariant, PTL

\* recent_messages' order, by created_at and then id and reversed, is the order
\* in which the turns began, whatever commits while the request goes on.
THEOREM HistoryIsChronological == Spec => []HistoryInOrder
<1>1. IInv => HistoryInOrder
    BY DEF IInv, SlotInv, Read, HistoryInOrder
<1> QED
    BY <1>1, InductiveInvariant, PTL

\* get_or_create_conversation begins a conversation for a principal only when
\* he had none at the time his request came.
THEOREM ConversationsAreReused == Spec => []NoNeedlessConversation
<1>1. IInv => NoNeedlessConversation
    BY DEF IInv, RowsInv, NoNeedlessConversation
<1> QED
    BY <1>1, InductiveInvariant, PTL

\* The controllers commit before they respond: what a client was told in full
\* is in the transcript, until the document is deleted.
THEOREM AnswersAreSaved == Spec => []AnsweredMeansSaved
<1>1. IInv => AnsweredMeansSaved
    BY DEF IInv
<1> QED
    BY <1>1, InductiveInvariant, PTL

-----------------------------------------------------------------------------
(* Refinement *)

LEMMA TranscriptStutter ==
    ASSUME UNCHANGED database
    PROVE  UNCHANGED Transcripts!cvars
BY DEF database, Transcripts!cvars

\* Until it commits, a request is not seen.
LEMMA RequestStutter ==
    ASSUME NEW q \in Slots,
           Arrive(q) \/ GetConversation(q) \/ BuildRequest(q) \/ AddQuestion(q)
             \/ Generate(q) \/ Raise(q) \/ Abandon(q)
    PROVE  UNCHANGED database
BY DEF Arrive, GetConversation, BuildRequest, AddQuestion, Generate, Raise, Abandon, Fail

LEMMA CommitSpeaks ==
    ASSUME IInv, NEW q \in Slots, Commit(q)
    PROVE  (\E c \in Convs : Transcripts!Speak(c)) \/ UNCHANGED database
<1> DEFINE a == ask[q]
           s == session[q]
<1>1. /\ conv' = IF s.new THEN [conv EXCEPT ![s.conv] = a.who] ELSE conv
      /\ UNCHANGED gone
    BY DEF Commit, Publish
<1>2. PICK later \in BOOLEAN :
         turn' = [t \in Turns |->
                    IF t = a.turn /\ s.added # {}
                    THEN [conv |-> s.conv, answered |-> "assistant" \in s.added,
                          later |-> later /\ "assistant" \in s.added]
                    ELSE turn[t]]
    BY DEF Commit, Publish
<1> DEFINE row == [conv |-> s.conv, answered |-> "assistant" \in s.added,
                   later |-> later /\ "assistant" \in s.added]
<1>3. TypeOK /\ SlotInv(q) /\ stage[q] \in Working /\ stage[q] # "idle" /\ s.conv \in Convs
    BY DEF IInv, Commit, Finished, Working, SlotInv, Own
<1>4. a \in Request /\ a.who \in Principals
    BY <1>3 DEF SlotInv, Shape, Request
<1>5. s.new => conv[s.conv] = None /\ ~gone
    BY <1>3 DEF SlotInv, Own
<1>6. s.added # {} => /\ stage[q] = "answered" /\ ~gone
                      /\ s.new \/ conv[s.conv] # None
    BY DEF IInv, SlotInv, Added, Commit, Finished
<1>7. s.added # {} => a.turn \in Turns /\ turn[a.turn] = None
    <2>1. s.added # {} => a.turn \in 1..begun /\ turn[a.turn] = None
        BY <1>3, <1>6 DEF SlotInv, Shape
    <2> QED
        BY <1>3, <2>1, Constants DEF TypeOK, Turns
<1>8. turn = [t \in Turns |-> turn[t]]
    BY <1>3 DEF TypeOK
<1>9. s.added # {} => turn' = [turn EXCEPT ![a.turn] = row]
    BY <1>2, <1>7, <1>8
<1>10. s.added = {} => turn' = turn
    BY <1>2, <1>8
<1>11. row \in TurnRow /\ row.conv = s.conv
    BY <1>3 DEF TurnRow
<1>12. s.new => Transcripts!Open(s.conv)
    BY <1>1, <1>4, <1>5 DEF Transcripts!Open
<1>13. s.added # {} => Transcripts!Say(s.conv)
    <2> HIDE DEF row, a
    <2> QED
        BY <1>7, <1>9, <1>11 DEF Transcripts!Say
<1>14. CASE s.new \/ s.added # {}
    BY <1>1, <1>3, <1>5, <1>6, <1>10, <1>12, <1>13, <1>14 DEF Transcripts!Speak
<1>15. CASE ~s.new /\ s.added = {}
    BY <1>1, <1>10, <1>15 DEF database
<1> QED
    BY <1>14, <1>15

\* To everyone but the requests in progress, chat_service is TranscriptContract:
\* a commit opens a conversation, adds a turn with its answer, or both, and a
\* delete takes all at once.
THEOREM ImplementsTranscript == Spec => TranscriptSpec
<1>1. Init => Transcripts!ContractInit
    BY DEF Init, Transcripts!ContractInit
<1>2. IInv /\ [Next]_vars => [Transcripts!ContractNext]_(Transcripts!cvars)
    <2> SUFFICES ASSUME IInv, [Next]_vars
                 PROVE  Transcripts!ContractNext \/ UNCHANGED database
        BY TranscriptStutter
    <2>1. CASE UNCHANGED vars \/ AllQuiet
        BY <2>1 DEF vars, AllQuiet, database
    <2>2. CASE DeleteDocument
        BY <2>2 DEF DeleteDocument, Transcripts!ContractNext, Transcripts!Close
    <2>3. ASSUME NEW q \in Slots, Arrive(q) \/ Proceed(q) \/ Raise(q) \/ Abandon(q)
          PROVE  Transcripts!ContractNext \/ UNCHANGED database
        <3>1. CASE Commit(q)
            BY <3>1, CommitSpeaks DEF Transcripts!ContractNext
        <3>2. CASE ~Commit(q)
            BY <2>3, <3>2, RequestStutter DEF Proceed
        <3> QED
            BY <3>1, <3>2
    <2> QED
        BY <2>1, <2>2, <2>3 DEF Next
<1> QED
    BY <1>1, <1>2, InductiveInvariant, PTL
       DEF Spec, TranscriptSpec, Transcripts!ContractSpec
=============================================================================
