------------------------ MODULE WorkerProcessProofs ------------------------
(***************************************************************************)
(* Proofs about WorkerProcess, for any number of callers, any limit of the   *)
(* pool and any number of attempts.                                          *)
(***************************************************************************)
EXTENDS WorkerProcess, FiniteSetTheorems, TLAPS

-----------------------------------------------------------------------------
(* The inductive invariant *)

\* A call in progress has failed fewer times than it may, and each time with an
\* error that may clear by itself; so has one whose stream has been opened.
Tries(c) ==
    /\ Len(outcomes[c]) <= MaxAttempts
    /\ \A i \in 1 .. Len(outcomes[c]) - 1 : outcomes[c][i] = "transient"
    /\ pc[c] \in Calls =>
          /\ Len(outcomes[c]) < MaxAttempts
          /\ \A i \in 1 .. Len(outcomes[c]) : outcomes[c][i] = "transient"

\* Only streams are opened; text is shown only from then on, and all of it is
\* of the attempt that opened the stream.
Text(c) ==
    /\ pc[c] \in {"open", "flow"} => kind[c] = "stream"
    /\ shown[c] # <<>> => kind[c] = "stream" /\ pc[c] \in {"flow", "record", "abort"}
    /\ \A i \in DOMAIN shown[c] : shown[c][i] = Len(outcomes[c])

\* Nothing is owed before the response, nor by whoever is done, unless it failed
\* where nothing catches.
Debts(c) ==
    /\ pc[c] \in {"request", "serve"} => ~owed[c]
    /\ pc[c] = "idle" /\ owed[c] => exposed[c]

IInv == TypeOK /\ NoLeak /\ \A c \in Callers : Tries(c) /\ Text(c) /\ Debts(c)

-----------------------------------------------------------------------------
(* Counting the callers at work *)

LEMMA HoldersCount ==
    Holders \subseteq Callers /\ IsFiniteSet(Holders) /\ Cardinality(Holders) \in Nat
<1>1. Holders \subseteq Callers
    BY DEF Holders
<1>2. IsFiniteSet(Holders)
    BY <1>1, WorkerAssumption, FS_Subset DEF WorkerAssumption
<1> QED
    BY <1>1, <1>2, FS_CardinalityType

\* A caller that stops working makes one less.
LEMMA OneLess ==
    ASSUME TypeOK, NEW c \in Callers, NEW next,
           pc[c] \in AtWork, next \notin AtWork, Goto(c, next)
    PROVE  Cardinality(Holders') = Cardinality(Holders) - 1 /\ Cardinality(Holders) >= 1
<1>1. Holders' = Holders \ {c}
    BY DEF Holders, Goto, TypeOK
<1>2. c \in Holders
    BY DEF Holders
<1>3. Cardinality(Holders \ {c}) = Cardinality(Holders) - 1
    BY <1>2, HoldersCount, FS_RemoveElement
<1>4. Cardinality(Holders \ {c}) \in Nat
    BY HoldersCount, FS_RemoveElement, FS_CardinalityType
<1> QED
    BY <1>1, <1>3, <1>4, HoldersCount

\* A caller that starts working makes one more.
LEMMA OneMore ==
    ASSUME TypeOK, NEW c \in Callers, NEW next,
           pc[c] \notin AtWork, next \in AtWork, Goto(c, next)
    PROVE  Cardinality(Holders') = Cardinality(Holders) + 1
<1>1. Holders' = Holders \cup {c}
    BY DEF Holders, Goto, TypeOK
<1>2. c \notin Holders
    BY DEF Holders
<1> QED
    BY <1>1, <1>2, HoldersCount, FS_AddElement

\* A caller that goes on as it was makes no difference.
LEMMA AsMany ==
    ASSUME TypeOK, NEW c \in Callers, NEW next,
           pc[c] \in AtWork <=> next \in AtWork, Goto(c, next)
    PROVE  Holders' = Holders
BY DEF Holders, Goto, TypeOK

\* Whoever works has a connection to give back.
LEMMA WorkingHolds ==
    ASSUME TypeOK, NoLeak, NEW c \in Callers, pc[c] \in AtWork
    PROVE  out - 1 \in Nat
<1>1. c \in Holders
    BY DEF Holders
<1>2. Cardinality(Holders) # 0
    BY <1>1, HoldersCount, FS_EmptySet
<1> QED
    BY <1>2, HoldersCount DEF TypeOK, NoLeak

-----------------------------------------------------------------------------
(* Every step keeps the types *)

LEMMA Places ==
    /\ DOMAIN Entry = {"request", "reopen", "job", "recover"}
    /\ \A p \in DOMAIN Entry : Entry[p] \in AtWork /\ p \notin AtWork
    /\ "idle" \notin AtWork /\ "idle" \notin DOMAIN Entry
    /\ Calls \subseteq AtWork
    /\ Entry["request"] = "serve" /\ Entry["reopen"] = "seek"
    /\ Entry["job"] = "embed" /\ Entry["recover"] = "mark"
BY DEF Entry, AtWork, Calls

\* Where a call leads, it is done by a caller at work.
LEMMA Courses ==
    ASSUME NEW c \in Callers
    PROVE  /\ AfterEmbedding(c) \in {"record", "open", "generate"}
           /\ GiveUp(c) \in {"record", "open", "generate", "abort"}
BY DEF AfterEmbedding, GiveUp

LEMMA AppendOutcome ==
    ASSUME TypeOK, NEW c \in Callers, NEW o \in Errors \cup {"ok"}, Attempted(c, o)
    PROVE  outcomes' \in [Callers -> Seq(Errors \cup {"ok"})]
<1>1. Append(outcomes[c], o) \in Seq(Errors \cup {"ok"})
    BY DEF TypeOK
<1> QED
    BY <1>1 DEF TypeOK, Attempted

LEMMA TypeStep == TypeOK /\ NoLeak /\ [Next]_vars => TypeOK'
<1> SUFFICES ASSUME TypeOK, NoLeak, [Next]_vars PROVE TypeOK'
    OBVIOUS
<1>a. CASE UNCHANGED vars
    BY <1>a DEF TypeOK, vars, pool
<1>b. CASE Collect
    <2>1. out - 1 \in Nat /\ stranded - 1 \in Nat
        BY <1>b, HoldersCount DEF Collect, TypeOK, NoLeak
    <2> QED
        BY <1>b, <2>1 DEF Collect, TypeOK
<1>c. ASSUME NEW c \in Callers,
             \/ Arrive(c) \/ CheckOut(c) \/ Refuse(c)
             \/ Own(c) \/ Provider(c) \/ Raise(c) \/ SeekFails(c) \/ HangUp(c)
      PROVE  TypeOK'
    <2> DEFINE P == {"idle"} \cup DOMAIN Entry \cup AtWork
    <2>g. ASSUME NEW next \in P, Goto(c, next)
          PROVE  pc' \in [Callers -> P]
        BY <2>g DEF TypeOK, Goto
    <2>l. ASSUME Leave(c)
          PROVE  /\ pc' \in [Callers -> P] /\ kind' \in [Callers -> Kinds]
                 /\ outcomes' \in [Callers -> Seq(Errors \cup {"ok"})]
                 /\ shown' \in [Callers -> Seq(Nat)]
        BY <2>l, Places DEF TypeOK, Leave, Goto, Kinds
    <2>k. ASSUME NEW next \in P, Call(c, next)
          PROVE  /\ pc' \in [Callers -> P]
                 /\ outcomes' \in [Callers -> Seq(Errors \cup {"ok"})]
        BY <2>k DEF TypeOK, Call, Goto
    <2>o. ASSUME NEW yes \in BOOLEAN, Owe(c, yes)
          PROVE  owed' \in [Callers -> BOOLEAN]
        BY <2>o DEF TypeOK, Owe
    <2>r. ASSUME pc[c] \in AtWork, Release
          PROVE  out' \in Nat /\ stranded' \in Nat
        BY <2>r, WorkingHolds DEF TypeOK, Release
    <2>p. {"idle", "request", "serve", "seek", "reopen", "job", "recover", "embed",
           "generate", "open", "flow", "record", "abort", "mark"} \subseteq P
        BY DEF Entry, AtWork, Calls
    <2>w. {"serve", "seek", "embed", "generate", "open", "flow", "record", "abort",
           "mark"} \subseteq AtWork
        BY DEF AtWork, Calls
    <2> HIDE DEF P
    <2>1. CASE Arrive(c)
        <3>1. pc' \in [Callers -> P] /\ owed' \in [Callers -> BOOLEAN]
            BY <2>1, <2>g, <2>o, <2>p DEF Arrive
        <3>2. kind' \in [Callers -> Kinds] /\ exposed' \in [Callers -> BOOLEAN]
            BY <2>1 DEF Arrive, TypeOK
        <3> QED
            BY <2>1, <3>1, <3>2 DEF Arrive, TypeOK, pool, P
    <2>2. CASE CheckOut(c)
        <3>1. Entry[pc[c]] \in P
            BY <2>2, Places DEF CheckOut, Waiting, P
        <3>2. pc' \in [Callers -> P] /\ outcomes' \in [Callers -> Seq(Errors \cup {"ok"})]
            BY <2>2, <2>k, <3>1 DEF CheckOut
        <3> QED
            BY <2>2, <3>2 DEF CheckOut, TypeOK, P
    <2>3. CASE Refuse(c)
        <3>1. exposed' \in [Callers -> BOOLEAN]
            BY <2>3 DEF Refuse, TypeOK
        <3> QED
            BY <2>3, <2>l, <3>1 DEF Refuse, TypeOK, pool, P
    <2>4. CASE Respond(c)
        <3>1. out' \in Nat /\ stranded' \in Nat
            BY <2>4, <2>r, <2>w DEF Respond
        <3>2. CASE Leave(c) /\ UNCHANGED owed
            BY <2>4, <3>1, <3>2, <2>l DEF Respond, TypeOK, P
        <3>3. CASE /\ Goto(c, "reopen") \/ Goto(c, "job")
                   /\ Owe(c, TRUE) /\ UNCHANGED <<kind, outcomes, shown>>
            <4>1. pc' \in [Callers -> P] /\ owed' \in [Callers -> BOOLEAN]
                BY <3>3, <2>g, <2>o, <2>p
            <4> QED
                BY <2>4, <3>1, <3>3, <4>1 DEF Respond, TypeOK, P
        <3> QED
            BY <2>4, <3>2, <3>3 DEF Respond
    <2>5. CASE Consult(c)
        BY <2>5, <2>k, <2>p DEF Consult, TypeOK, pool, P
    <2>6. CASE Record(c)
        <3>1. out' \in Nat /\ stranded' \in Nat
            BY <2>6, <2>r, <2>w DEF Record
        <3>2. owed' \in [Callers -> BOOLEAN]
            BY <2>6, <2>o DEF Record
        <3> QED
            BY <2>6, <3>1, <3>2, <2>l DEF Record, TypeOK, P
    <2>7. CASE RollBack(c)
        <3>1. out' \in Nat /\ stranded' \in Nat
            BY <2>7, <2>r, <2>w DEF RollBack
        <3>2. CASE Goto(c, "recover") /\ UNCHANGED <<kind, outcomes, shown, owed>>
            <4>1. pc' \in [Callers -> P]
                BY <3>2, <2>g, <2>p
            <4> QED
                BY <2>7, <3>1, <3>2, <4>1 DEF RollBack, TypeOK, P
        <3>3. CASE Leave(c) /\ Owe(c, FALSE)
            <4>1. owed' \in [Callers -> BOOLEAN]
                BY <3>3, <2>o
            <4> QED
                BY <2>7, <3>1, <3>3, <4>1, <2>l DEF RollBack, TypeOK, P
        <3> QED
            BY <2>7, <3>2, <3>3 DEF RollBack
    <2>8. CASE Mark(c)
        <3>1. out' \in Nat /\ stranded' \in Nat
            BY <2>8, <2>r, <2>w DEF Mark
        <3>2. owed' \in [Callers -> BOOLEAN] /\ exposed' \in [Callers -> BOOLEAN]
            BY <2>8, <2>o DEF Mark, TypeOK
        <3> QED
            BY <2>8, <3>1, <3>2, <2>l DEF Mark, TypeOK, P
    <2>9. CASE Answer(c)
        <3>1. CASE \E next \in P : Call(c, next)
            <4>1. PICK next \in P : Call(c, next)
                BY <3>1
            <4> QED
                BY <2>9, <4>1, <2>k DEF Answer, TypeOK, pool, P
        <3>2. CASE Goto(c, "flow") /\ Attempted(c, "ok")
            <4>1. pc' \in [Callers -> P]
                BY <3>2, <2>g, <2>p
            <4> QED
                BY <2>9, <3>2, <4>1, AppendOutcome DEF Answer, TypeOK, pool, P
        <3> QED
            BY <2>9, <3>1, <3>2, <2>p, Courses DEF Answer
    <2>10. ASSUME NEW error \in Errors, FailAttempt(c, error)
           PROVE  TypeOK'
        <3>1. GiveUp(c) \in P
            BY <2>p, Courses
        <3>2. CASE Attempted(c, error) /\ (UNCHANGED pc \/ Goto(c, GiveUp(c)))
            <4>1. pc' \in [Callers -> P]
                BY <3>1, <3>2, <2>g DEF TypeOK, P
            <4> QED
                BY <2>10, <3>2, <4>1, AppendOutcome DEF FailAttempt, TypeOK, pool, P
        <3>3. CASE Call(c, GiveUp(c))
            BY <2>10, <3>1, <3>3, <2>k DEF FailAttempt, TypeOK, pool, P
        <3> QED
            BY <2>10, <3>2, <3>3 DEF FailAttempt
    <2>11. CASE Piece(c)
        <3>1. Append(shown[c], Len(outcomes[c])) \in Seq(Nat)
            BY DEF TypeOK
        <3>2. shown' \in [Callers -> Seq(Nat)]
            BY <2>11, <3>1 DEF Piece, TypeOK
        <3> QED
            BY <2>11, <3>2 DEF Piece, TypeOK, pool
    <2>12. CASE LastPiece(c) \/ BreakOff(c) \/ Raise(c)
        <3>1. pc' \in [Callers -> P]
            BY <2>12, <2>g, <2>p DEF LastPiece, BreakOff, Raise
        <3> QED
            BY <2>12, <3>1 DEF LastPiece, BreakOff, Raise, TypeOK, pool, P
    <2>13. CASE SeekFails(c)
        <3>1. exposed' \in [Callers -> BOOLEAN]
            BY <2>13 DEF SeekFails, TypeOK
        <3>2. Leave(c) /\ out' \in Nat /\ stranded' \in Nat /\ owed' \in [Callers -> BOOLEAN]
            BY <2>13 DEF SeekFails, TypeOK
        <3> QED
            BY <3>1, <3>2, <2>l DEF TypeOK, P
    <2>14. CASE HangUp(c)
        <3>1. owed' \in [Callers -> BOOLEAN]
            BY <2>14, <2>o DEF HangUp
        <3> QED
            BY <2>14, <3>1, <2>l DEF HangUp, TypeOK, P
    <2> QED
        BY <1>c, <2>1, <2>2, <2>3, <2>4, <2>5, <2>6, <2>7, <2>8, <2>9, <2>10, <2>11,
           <2>12, <2>13, <2>14 DEF Own, Provider
<1> QED
    BY <1>a, <1>b, <1>c DEF Next

-----------------------------------------------------------------------------
(* Every step keeps the count *)

LEMMA CountStep == TypeOK /\ NoLeak /\ [Next]_vars => NoLeak'
<1> SUFFICES ASSUME TypeOK, NoLeak, [Next]_vars PROVE NoLeak'
    OBVIOUS
<1> USE DEF NoLeak
<1>n. out \in Nat /\ stranded \in Nat /\ Limit \in Nat /\ Cardinality(Holders) \in Nat
    BY HoldersCount, WorkerAssumption DEF TypeOK, WorkerAssumption
<1>a. ASSUME UNCHANGED vars PROVE NoLeak'
    <2>1. Holders' = Holders
        BY <1>a DEF Holders, vars
    <2> QED
        BY <1>a, <2>1 DEF vars, pool
<1>b. ASSUME Collect PROVE NoLeak'
    <2>1. Holders' = Holders
        BY <1>b DEF Holders, Collect
    <2> QED
        BY <1>b, <1>n, <2>1 DEF Collect
<1>c. ASSUME NEW c \in Callers,
             \/ Arrive(c) \/ CheckOut(c) \/ Refuse(c)
             \/ Own(c) \/ Provider(c) \/ Raise(c) \/ SeekFails(c) \/ HangUp(c)
      PROVE  NoLeak'
    \* Whoever stops working gives its connection back, or strands it.
    <2>l. ASSUME NEW next, pc[c] \in AtWork, next \notin AtWork, Goto(c, next),
                 \/ Release
                 \/ out' = out /\ stranded' = stranded + 1
          PROVE  NoLeak'
        <3>1. Cardinality(Holders') = Cardinality(Holders) - 1
            BY <2>l, OneLess
        <3> QED
            BY <1>n, <2>l, <3>1 DEF Release
    <2>s. ASSUME NEW next, pc[c] \in AtWork <=> next \in AtWork, Goto(c, next),
                 UNCHANGED pool
          PROVE  NoLeak'
        <3>1. Holders' = Holders
            BY <2>s, AsMany
        <3> QED
            BY <2>s, <3>1 DEF pool
    <2>w. {"serve", "seek", "embed", "generate", "open", "flow", "record", "abort",
           "mark"} \subseteq AtWork
        BY DEF AtWork, Calls
    <2>i. {"idle", "request", "reopen", "job", "recover"} \cap AtWork = {}
        BY DEF AtWork, Calls
    <2>1. CASE Arrive(c)
        BY <2>1, <2>s, <2>i DEF Arrive
    <2>2. CASE CheckOut(c)
        <3>1. Entry[pc[c]] \in AtWork /\ pc[c] \notin AtWork /\ Goto(c, Entry[pc[c]])
            BY <2>2, Places DEF CheckOut, Waiting, Call
        <3>2. Cardinality(Holders') = Cardinality(Holders) + 1
            BY <3>1, OneMore
        <3> QED
            BY <1>n, <2>2, <3>2 DEF CheckOut, Free
    <2>3. CASE Refuse(c)
        BY <2>3, <2>s, <2>i, Places DEF Refuse, Refused, Waiting, Leave
    <2>4. CASE Respond(c)
        <3>1. Goto(c, "idle") \/ Goto(c, "reopen") \/ Goto(c, "job")
            BY <2>4 DEF Respond, Leave
        <3> QED
            BY <2>4, <3>1, <2>l, <2>w, <2>i DEF Respond
    <2>5. CASE Consult(c)
        BY <2>5, <2>s, <2>w DEF Consult, Call
    <2>6. CASE Record(c)
        BY <2>6, <2>l, <2>w, <2>i DEF Record, Leave
    <2>7. CASE RollBack(c)
        <3>1. Goto(c, "idle") \/ Goto(c, "recover")
            BY <2>7 DEF RollBack, Leave
        <3> QED
            BY <2>7, <3>1, <2>l, <2>w, <2>i DEF RollBack
    <2>8. CASE Mark(c)
        BY <2>8, <2>l, <2>w, <2>i DEF Mark, Leave
    <2>9. CASE Answer(c)
        <3>1. PICK next \in AtWork : pc[c] \in AtWork /\ Goto(c, next)
            BY <2>9, <2>w, Courses DEF Answer, Call
        <3> QED
            BY <2>9, <3>1, <2>s DEF Answer
    <2>10. ASSUME NEW error \in Errors, FailAttempt(c, error)
           PROVE  NoLeak'
        <3>1. CASE UNCHANGED pc
            <4>1. Holders' = Holders
                BY <3>1 DEF Holders
            <4> QED
                BY <2>10, <4>1 DEF FailAttempt, pool
        <3>2. CASE Goto(c, GiveUp(c))
            BY <2>10, <3>2, <2>s, <2>w, Courses, Places DEF FailAttempt
        <3> QED
            BY <2>10, <3>1, <3>2 DEF FailAttempt, Call
    <2>11. CASE Piece(c)
        <3>1. Holders' = Holders
            BY <2>11 DEF Holders, Piece
        <3> QED
            BY <2>11, <3>1 DEF Piece, pool
    <2>12. CASE LastPiece(c) \/ BreakOff(c) \/ Raise(c)
        BY <2>12, <2>s, <2>w DEF LastPiece, BreakOff, Raise
    <2>13. CASE SeekFails(c)
        BY <2>13, <2>l, <2>w, <2>i DEF SeekFails, Leave
    <2>14. CASE HangUp(c)
        <3>1. CASE pc[c] \in AtWork
            BY <2>14, <3>1, <2>l, <2>i DEF HangUp, Leave
        <3>2. CASE pc[c] \notin AtWork
            BY <2>14, <3>2, <2>s, <2>i DEF HangUp, Leave, pool
        <3> QED
            BY <3>1, <3>2
    <2> QED
        BY <1>c, <2>1, <2>2, <2>3, <2>4, <2>5, <2>6, <2>7, <2>8, <2>9, <2>10, <2>11,
           <2>12, <2>13, <2>14 DEF Own, Provider
<1> QED
    BY <1>a, <1>b, <1>c DEF Next

-----------------------------------------------------------------------------
(* Every step keeps what each caller has tried, shown and owes *)

\* A step of one caller leaves the others as they are.
LEMMA OthersStay ==
    ASSUME TypeOK, NEW c \in Callers, NEW d \in Callers, d # c,
           \/ Arrive(c) \/ CheckOut(c) \/ Refuse(c)
           \/ Own(c) \/ Provider(c) \/ Raise(c) \/ SeekFails(c) \/ HangUp(c)
    PROVE  /\ pc'[d] = pc[d] /\ kind'[d] = kind[d] /\ outcomes'[d] = outcomes[d]
           /\ shown'[d] = shown[d] /\ owed'[d] = owed[d] /\ exposed'[d] = exposed[d]
<1> USE DEF TypeOK, Goto, Call, Leave, Owe, Attempted
<1>1. CASE Arrive(c) \/ CheckOut(c) \/ Refuse(c)
    BY <1>1 DEF Arrive, CheckOut, Refuse
<1>2. CASE Respond(c) \/ Consult(c)
    BY <1>2 DEF Respond, Consult
<1>3. CASE Record(c) \/ RollBack(c) \/ Mark(c)
    BY <1>3 DEF Record, RollBack, Mark
<1>4. CASE Answer(c)
    BY <1>4 DEF Answer
<1>5. CASE Piece(c) \/ LastPiece(c) \/ BreakOff(c)
    BY <1>5 DEF Piece, LastPiece, BreakOff
<1>6. ASSUME NEW error \in Errors, FailAttempt(c, error)
      PROVE  /\ pc'[d] = pc[d] /\ kind'[d] = kind[d] /\ outcomes'[d] = outcomes[d]
             /\ shown'[d] = shown[d] /\ owed'[d] = owed[d] /\ exposed'[d] = exposed[d]
    BY <1>6 DEF FailAttempt
<1>7. CASE Raise(c) \/ SeekFails(c) \/ HangUp(c)
    BY <1>7 DEF Raise, SeekFails, HangUp
<1> QED
    BY <1>1, <1>2, <1>3, <1>4, <1>5, <1>6, <1>7 DEF Own, Provider

\* An attempt more: the earlier outcomes are as they were.
LEMMA OneMoreOutcome ==
    ASSUME TypeOK, NEW c \in Callers, NEW o \in Errors \cup {"ok"}, Attempted(c, o)
    PROVE  /\ Len(outcomes'[c]) = Len(outcomes[c]) + 1
           /\ outcomes'[c][Len(outcomes[c]) + 1] = o
           /\ \A i \in 1 .. Len(outcomes[c]) : outcomes'[c][i] = outcomes[c][i]
           /\ Len(outcomes[c]) \in Nat
<1>1. outcomes[c] \in Seq(Errors \cup {"ok"})
    BY DEF TypeOK
<1>2. outcomes'[c] = Append(outcomes[c], o)
    BY DEF TypeOK, Attempted
<1> QED
    BY <1>1, <1>2

LEMMA TriesStep ==
    ASSUME TypeOK, NEW c \in Callers, Tries(c),
           \/ Arrive(c) \/ CheckOut(c) \/ Refuse(c)
           \/ Own(c) \/ Provider(c) \/ Raise(c) \/ SeekFails(c) \/ HangUp(c)
    PROVE  Tries(c)'
<1>n. MaxAttempts \in Nat \ {0}
    BY WorkerAssumption DEF WorkerAssumption
<1>e. ASSUME outcomes'[c] = <<>> PROVE Tries(c)'
    BY <1>n, <1>e DEF Tries
<1>s. ASSUME UNCHANGED outcomes, pc'[c] \in Calls => pc[c] \in Calls
      PROVE  Tries(c)'
    BY <1>s DEF Tries
<1>l. Leave(c) => outcomes'[c] = <<>>
    BY DEF Leave, TypeOK
<1>k. \A next : Call(c, next) => outcomes'[c] = <<>>
    BY DEF Call, TypeOK
<1>g. \A next : Goto(c, next) => pc'[c] = next
    BY DEF Goto, TypeOK
<1>1. CASE Arrive(c)
    BY <1>1, <1>s, <1>g DEF Arrive, Calls
<1>2. CASE CheckOut(c) \/ Consult(c)
    BY <1>2, <1>e, <1>k DEF CheckOut, Consult
<1>3. CASE Refuse(c) \/ Record(c) \/ Mark(c) \/ SeekFails(c) \/ HangUp(c)
    BY <1>3, <1>e, <1>l DEF Refuse, Record, Mark, SeekFails, HangUp
<1>4. CASE Respond(c)
    <2>1. CASE Leave(c)
        BY <2>1, <1>e, <1>l
    <2>2. CASE (Goto(c, "reopen") \/ Goto(c, "job")) /\ UNCHANGED outcomes
        BY <2>2, <1>s, <1>g DEF Calls
    <2> QED
        BY <1>4, <2>1, <2>2 DEF Respond
<1>5. CASE RollBack(c)
    <2>1. CASE Leave(c)
        BY <2>1, <1>e, <1>l
    <2>2. CASE Goto(c, "recover") /\ UNCHANGED outcomes
        BY <2>2, <1>s, <1>g DEF Calls
    <2> QED
        BY <1>5, <2>1, <2>2 DEF RollBack
<1>6. CASE Answer(c)
    <2>1. CASE \E next : Call(c, next)
        BY <2>1, <1>e, <1>k
    <2>2. CASE pc[c] = "open" /\ Goto(c, "flow") /\ Attempted(c, "ok")
        <3>1. pc[c] \in Calls /\ pc'[c] \notin Calls
            BY <2>2, <1>g DEF Calls
        <3> QED
            BY <2>2, <3>1, <1>n, OneMoreOutcome DEF Tries
    <2> QED
        BY <1>6, <2>1, <2>2 DEF Answer
<1>7. CASE Piece(c)
    BY <1>7, <1>s DEF Piece
<1>8. CASE LastPiece(c) \/ BreakOff(c) \/ Raise(c)
    BY <1>8, <1>s, <1>g DEF LastPiece, BreakOff, Raise, Calls
<1>9. ASSUME NEW error \in Errors, FailAttempt(c, error)
      PROVE  Tries(c)'
    <2>c. pc[c] \in Calls
        BY <1>9 DEF FailAttempt
    <2>1. CASE Retried(c, error) /\ Attempted(c, error) /\ UNCHANGED pc
        <3>1. error = "transient" /\ Len(outcomes[c]) + 1 < MaxAttempts
            BY <2>1 DEF Retried, Transient, Raised
        <3>2. Len(outcomes'[c]) = Len(outcomes[c]) + 1 /\ Len(outcomes[c]) \in Nat
            BY <2>1, OneMoreOutcome
        <3>3. \A i \in 1 .. Len(outcomes'[c]) : outcomes'[c][i] = "transient"
            BY <2>1, <2>c, <3>1, <3>2, OneMoreOutcome DEF Tries
        <3> QED
            BY <3>1, <3>2, <3>3, <1>n DEF Tries
    <2>2. CASE Call(c, GiveUp(c))
        BY <2>2, <1>e, <1>k
    <2>3. CASE GiveUp(c) \notin Calls /\ Attempted(c, error) /\ Goto(c, GiveUp(c))
        <3>1. pc'[c] \notin Calls
            BY <2>3, <1>g
        <3> QED
            BY <2>3, <2>c, <3>1, <1>n, OneMoreOutcome DEF Tries
    <2> QED
        BY <1>9, <2>1, <2>2, <2>3 DEF FailAttempt
<1> QED
    BY <1>1, <1>2, <1>3, <1>4, <1>5, <1>6, <1>7, <1>8, <1>9 DEF Own, Provider

LEMMA TextStep ==
    ASSUME TypeOK, NEW c \in Callers, Text(c),
           \/ Arrive(c) \/ CheckOut(c) \/ Refuse(c)
           \/ Own(c) \/ Provider(c) \/ Raise(c) \/ SeekFails(c) \/ HangUp(c)
    PROVE  Text(c)'
<1>l. Leave(c) => shown'[c] = <<>> /\ pc'[c] = "idle"
    BY DEF Leave, Goto, TypeOK
<1>k. \A next : Call(c, next) => pc'[c] = next
    BY DEF Call, Goto, TypeOK
<1>g. \A next : Goto(c, next) => pc'[c] = next
    BY DEF Goto, TypeOK
\* A caller that has shown nothing, or no longer has.
<1>e. ASSUME shown'[c] = <<>>, pc'[c] \in {"open", "flow"} => kind'[c] = "stream"
      PROVE  Text(c)'
    BY <1>e DEF Text
<1>n. pc[c] \notin {"flow", "record", "abort"} => shown[c] = <<>>
    BY DEF Text
<1>1. CASE Arrive(c)
    BY <1>1, <1>e, <1>g, <1>n DEF Arrive
<1>2. CASE CheckOut(c)
    <2>1. Entry[pc[c]] \notin {"open", "flow"} /\ pc[c] \notin {"flow", "record", "abort"}
        BY <1>2 DEF CheckOut, Waiting, Entry
    <2> QED
        BY <1>2, <2>1, <1>e, <1>k, <1>n DEF CheckOut
<1>3. CASE Refuse(c) \/ Record(c) \/ Mark(c) \/ SeekFails(c) \/ HangUp(c)
    BY <1>3, <1>e, <1>l DEF Refuse, Record, Mark, SeekFails, HangUp
<1>4. CASE Respond(c)
    <2>1. CASE Leave(c)
        BY <2>1, <1>e, <1>l
    <2>2. CASE (Goto(c, "reopen") \/ Goto(c, "job")) /\ UNCHANGED shown
        BY <1>4, <2>2, <1>e, <1>g, <1>n DEF Respond
    <2> QED
        BY <1>4, <2>1, <2>2 DEF Respond
<1>5. CASE RollBack(c)
    <2>1. CASE Leave(c)
        BY <2>1, <1>e, <1>l
    <2>2. CASE InJob(c) /\ Goto(c, "recover") /\ UNCHANGED shown
        <3>1. shown[c] = <<>>
            BY <2>2 DEF InJob, Text
        <3> QED
            BY <2>2, <3>1, <1>e, <1>g
    <2> QED
        BY <1>5, <2>1, <2>2 DEF RollBack
<1>6. CASE Consult(c)
    BY <1>6, <1>e, <1>k, <1>n DEF Consult
<1>7. CASE Answer(c)
    <2>1. shown' = shown /\ kind' = kind /\ shown[c] = <<>>
        BY <1>7, <1>n DEF Answer
    <2>2. pc'[c] \in {"open", "flow"} => kind[c] = "stream"
        <3>1. CASE Call(c, AfterEmbedding(c))
            BY <3>1, <1>k DEF AfterEmbedding
        <3>2. CASE \E next : next \notin {"open", "flow"} /\ Call(c, next)
            BY <3>2, <1>k
        <3>3. CASE pc[c] = "open"
            BY <3>3 DEF Text
        <3> QED
            BY <1>7, <3>1, <3>2, <3>3 DEF Answer
    <2> QED
        BY <2>1, <2>2, <1>e
<1>8. CASE Piece(c)
    <2>1. kind[c] = "stream" /\ pc[c] = "flow" /\ pc' = pc /\ kind' = kind
          /\ outcomes' = outcomes /\ shown'[c] = Append(shown[c], Len(outcomes[c]))
          /\ shown[c] \in Seq(Nat)
        BY <1>8 DEF Piece, Text, TypeOK
    <2>2. \A i \in DOMAIN shown'[c] : shown'[c][i] = Len(outcomes[c])
        BY <2>1 DEF Text
    <2>3. outcomes'[c] = outcomes[c] /\ kind'[c] = kind[c] /\ pc'[c] = pc[c]
        BY <2>1
    <2> QED
        BY <2>1, <2>2, <2>3 DEF Text
<1>9. CASE LastPiece(c) \/ BreakOff(c)
    BY <1>9, <1>g DEF LastPiece, BreakOff, Text
<1>10. CASE Raise(c)
    BY <1>10, <1>g DEF Raise, Text
<1>11. ASSUME NEW error \in Errors, FailAttempt(c, error)
       PROVE  Text(c)'
    <2>1. shown' = shown /\ kind' = kind /\ shown[c] = <<>>
        BY <1>11, <1>n DEF FailAttempt, Calls
    <2>2. pc'[c] \in {"open", "flow"} => kind[c] = "stream"
        <3>1. CASE UNCHANGED pc
            BY <3>1 DEF Text
        <3>2. CASE pc'[c] = GiveUp(c)
            BY <3>2 DEF GiveUp, AfterEmbedding
        <3> QED
            BY <1>11, <3>1, <3>2, <1>g, <1>k DEF FailAttempt
    <2> QED
        BY <2>1, <2>2, <1>e
<1> QED
    BY <1>1, <1>2, <1>3, <1>4, <1>5, <1>6, <1>7, <1>8, <1>9, <1>10, <1>11
       DEF Own, Provider

LEMMA DebtsStep ==
    ASSUME TypeOK, NEW c \in Callers, Debts(c),
           \/ Arrive(c) \/ CheckOut(c) \/ Refuse(c)
           \/ Own(c) \/ Provider(c) \/ Raise(c) \/ SeekFails(c) \/ HangUp(c)
    PROVE  Debts(c)'
<1>l. Leave(c) => pc'[c] = "idle"
    BY DEF Leave, Goto, TypeOK
<1>k. \A next : Call(c, next) => pc'[c] = next
    BY DEF Call, Goto, TypeOK
<1>g. \A next : Goto(c, next) => pc'[c] = next
    BY DEF Goto, TypeOK
<1>o. \A yes : Owe(c, yes) => owed'[c] = yes
    BY DEF Owe, TypeOK
\* Nothing is owed, or there is still somebody at it.
<1>f. ASSUME owed'[c] = FALSE PROVE Debts(c)'
    BY <1>f DEF Debts
<1>m. ASSUME pc'[c] \notin {"idle", "request", "serve"} PROVE Debts(c)'
    BY <1>m DEF Debts
<1>1. CASE Arrive(c)
    BY <1>1, <1>f, <1>o DEF Arrive
<1>2. CASE CheckOut(c)
    <2>1. pc'[c] = Entry[pc[c]] /\ pc[c] \in DOMAIN Entry /\ owed' = owed
        BY <1>2, <1>k DEF CheckOut, Waiting
    <2> QED
        BY <2>1, Places DEF Debts
<1>3. CASE Refuse(c)
    <2>1. pc'[c] = "idle" /\ owed' = owed /\ exposed'[c] = (pc[c] # "request")
        BY <1>3, <1>l DEF Refuse, TypeOK
    <2> QED
        BY <2>1 DEF Debts
<1>4. CASE Respond(c)
    <2>1. CASE Leave(c) /\ UNCHANGED owed
        BY <1>4, <2>1, <1>l DEF Respond, Debts
    <2>2. CASE Goto(c, "reopen") \/ Goto(c, "job")
        BY <2>2, <1>g, <1>m
    <2> QED
        BY <1>4, <2>1, <2>2 DEF Respond
<1>5. CASE Record(c) \/ HangUp(c)
    BY <1>5, <1>f, <1>o DEF Record, HangUp
<1>6. CASE RollBack(c)
    BY <1>6, <1>f, <1>m, <1>o, <1>g DEF RollBack
<1>7. CASE Mark(c)
    <2>1. CASE Owe(c, FALSE)
        BY <2>1, <1>f, <1>o
    <2>2. CASE exposed' = [exposed EXCEPT ![c] = TRUE]
        BY <1>7, <2>2, <1>l DEF Mark, Debts, TypeOK
    <2> QED
        BY <1>7, <2>1, <2>2 DEF Mark
<1>8. CASE SeekFails(c)
    BY <1>8, <1>l DEF SeekFails, Debts, TypeOK
<1>9. CASE Consult(c)
    BY <1>9, <1>k, <1>m DEF Consult
<1>10. CASE Answer(c)
    BY <1>10, <1>k, <1>g, <1>m, Courses DEF Answer
<1>11. CASE Piece(c)
    BY <1>11, <1>m DEF Piece
<1>12. CASE LastPiece(c) \/ BreakOff(c) \/ Raise(c)
    BY <1>12, <1>g, <1>m DEF LastPiece, BreakOff, Raise
<1>13. ASSUME NEW error \in Errors, FailAttempt(c, error)
       PROVE  Debts(c)'
    BY <1>13, <1>k, <1>g, <1>m, Courses DEF FailAttempt, Calls
<1> QED
    BY <1>1, <1>2, <1>3, <1>4, <1>5, <1>6, <1>7, <1>8, <1>9, <1>10, <1>11, <1>12, <1>13
       DEF Own, Provider

-----------------------------------------------------------------------------
(* The theorems *)

LEMMA InitIInv == Init => IInv
<1> SUFFICES ASSUME Init PROVE IInv
    OBVIOUS
<1>1. TypeOK
    BY DEF Init, TypeOK, Kinds
<1>2. Holders = {}
    BY DEF Init, Holders, AtWork, Calls
<1>3. NoLeak
    BY <1>2, FS_EmptySet, WorkerAssumption DEF Init, NoLeak, WorkerAssumption
<1>4. \A c \in Callers : Tries(c) /\ Text(c) /\ Debts(c)
    BY WorkerAssumption DEF Init, Tries, Text, Debts, Calls, WorkerAssumption
<1> QED
    BY <1>1, <1>3, <1>4 DEF IInv

LEMMA NextIInv == IInv /\ [Next]_vars => IInv'
<1> SUFFICES ASSUME IInv, [Next]_vars PROVE IInv'
    OBVIOUS
<1>1. TypeOK' /\ NoLeak'
    BY TypeStep, CountStep DEF IInv
<1>2. ASSUME NEW d \in Callers PROVE (Tries(d) /\ Text(d) /\ Debts(d))'
    <2>i. TypeOK /\ Tries(d) /\ Text(d) /\ Debts(d)
        BY DEF IInv
    <2>s. ASSUME pc'[d] = pc[d], kind'[d] = kind[d], outcomes'[d] = outcomes[d],
                 shown'[d] = shown[d], owed'[d] = owed[d], exposed'[d] = exposed[d]
          PROVE  (Tries(d) /\ Text(d) /\ Debts(d))'
        BY <2>i, <2>s DEF Tries, Text, Debts
    <2>1. CASE UNCHANGED vars \/ Collect
        BY <2>1, <2>s DEF vars, Collect
    <2>2. ASSUME NEW c \in Callers,
                 \/ Arrive(c) \/ CheckOut(c) \/ Refuse(c)
                 \/ Own(c) \/ Provider(c) \/ Raise(c) \/ SeekFails(c) \/ HangUp(c)
          PROVE  (Tries(d) /\ Text(d) /\ Debts(d))'
        <3>1. CASE d = c
            BY <2>2, <2>i, <3>1, TriesStep, TextStep, DebtsStep
        <3>2. CASE d # c
            BY <2>2, <2>i, <2>s, <3>2, OthersStay
        <3> QED
            BY <3>1, <3>2
    <2> QED
        BY <2>1, <2>2 DEF Next
<1> QED
    BY <1>1, <1>2 DEF IInv

LEMMA AlwaysIInv == Spec => []IInv
BY InitIInv, NextIInv, PTL DEF Spec

\* Types: counts are natural numbers, a connection is never given back twice.
THEOREM TypeCorrect == Spec => []TypeOK
<1>1. IInv => TypeOK
    BY DEF IInv
<1> QED
    BY <1>1, AlwaysIInv, PTL

\* database.py: the pool is never exceeded, and all that is checked out is in
\* use or about to be collected, however many callers come, fail and hang up.
THEOREM PoolAccounted == Spec => []NoLeak
<1>1. IInv => NoLeak
    BY DEF IInv
<1> QED
    BY <1>1, AlwaysIInv, PTL

\* gemini_provider.py, the retry policy: only transient errors are followed by
\* another attempt, and there are never more attempts than the policy says.
THEOREM RetriesBounded == Spec => []NoFutileRetry
<1>1. IInv => NoFutileRetry
    BY DEF IInv, Tries, NoFutileRetry
<1> QED
    BY <1>1, AlwaysIInv, PTL

\* gemini_provider.py, stream: the reader sees the text of one attempt.
THEOREM TextOfOneAttempt == Spec => []OneVoice
<1>1. IInv => OneVoice
    BY DEF IInv, Text, OneVoice
<1> QED
    BY <1>1, AlwaysIInv, PTL

\* document_processor.py and ask_stream: an outcome is left unsaid only by what
\* fails where nothing catches.
THEOREM SilenceExplained == Spec => []NeverSilent
<1>1. IInv => NeverSilent
    BY DEF IInv, Debts, NeverSilent
<1> QED
    BY <1>1, AlwaysIInv, PTL
=============================================================================
