--------------------------- MODULE AccountsProofs ---------------------------
(***************************************************************************)
(* Proofs about Accounts, for any addresses, accounts, tokens and passwords, *)
(* any accounts to begin with, any number of requests at a time, any lifetime*)
(* of a link and any bound on the clock.                                     *)
(***************************************************************************)
EXTENDS Accounts, TLAPS

-----------------------------------------------------------------------------
(* The inductive invariant: what is true of the request in one slot *)

StagesOf(op) ==
    CASE op = "signup" -> {"arrived", "free", "inserted"}
      [] op = "login" -> {"arrived", "verified"}
      [] op = "forgot" -> {"arrived", "found", "voided", "mailed"}
      [] OTHER -> {"arrived", "checked", "updated", "burned"}

Shape(q) ==
    IF stage[q] = "idle" THEN ask[q] = NoRequest
    ELSE ask[q] \in Request /\ stage[q] \in StagesOf(ask[q].op)

\* The new account is not there yet; the index keeps its address free.
Joining(q) ==
    LET a == ask[q] IN
    a.op = "signup" =>
       /\ a.email \in Emails /\ a.password \in Passwords
       /\ a.user \in Users \cap issued
       /\ account[a.user] = None
       /\ stage[q] = "inserted" => WithEmail(a.email) = {}

\* A verified password is the chosen one until a reset overtakes the login.
Entering(q) ==
    LET a == ask[q] u == session[q].user IN
    a.op = "login" =>
       /\ a.password \in Passwords
       /\ stage[q] = "verified" =>
             /\ u \in Users /\ account[u] # None
             /\ u \notin overtaken => a.password = chosen[u]

\* Of the links there were before, those of the same account that the request
\* is not going to void are used already.
Asking(q) ==
    LET a == ask[q] s == session[q] IN
    a.op = "forgot" =>
       /\ a.token \in Tokens \cap issued
       /\ reset[a.token] = None
       /\ stage[q] # "arrived" =>
             /\ s.user \in Users /\ account[s.user] # None
             /\ \A t \in s.seen : reset[t] # None
             /\ \A t \in before[a.token] :
                   reset[t].user = s.user => reset[t].used \/ t \in s.seen

\* A link that had lapsed when the reset arrived is not usable later.
Redeeming(q) ==
    LET a == ask[q] u == session[q].user IN
    a.op = "reset" =>
       /\ a.token \in Tokens /\ a.password \in Passwords
       /\ ~Lapsed(a.token) => timely[q]
       /\ stage[q] # "arrived" =>
             /\ timely[q] /\ reset[a.token] # None
             /\ u \in Users /\ account[u] # None

SlotInv(q) == Shape(q) /\ Joining(q) /\ Entering(q) /\ Asking(q) /\ Redeeming(q)

\* Ids are issued once, and an address is inserted once at a time.
Apart(q, r) ==
    /\ ask[q].op = "signup" /\ ask[r].op = "signup" =>
          /\ ask[q].user # ask[r].user
          /\ stage[q] = "inserted" /\ stage[r] = "inserted" => ask[q].email # ask[r].email
    /\ ask[q].op = "forgot" /\ ask[r].op = "forgot" => ask[q].token # ask[r].token

Exclusion == \A q, r \in Slots : q # r => Apart(q, r)

\* A committed link has voided those of its account that were there before it.
RowsInv ==
    /\ \A u \in Users : account[u] # None => u \in issued
    /\ \A t \in Tokens : reset[t] # None => t \in issued /\ account[reset[t].user] # None
    /\ \A t \in Tokens : \A s \in before[t] :
          /\ reset[s] # None
          /\ reset[t] # None /\ reset[s].user = reset[t].user => reset[s].used

IInv ==
    /\ TypeOK
    /\ RowsInv
    /\ OneAccountPerEmail
    /\ ChosenPasswordOpens
    /\ Exclusion
    /\ \A q \in Slots : SlotInv(q)

-----------------------------------------------------------------------------
(* Steps: whom they leave alone, and what they may do to the rows *)

Same(r) ==
    /\ stage'[r] = stage[r] /\ ask'[r] = ask[r]
    /\ session'[r] = session[r] /\ timely'[r] = timely[r]

Others(q) == \A r \in Slots : r # q => Same(r)

SameRows == UNCHANGED <<database, mail, now, history>>

\* No row goes away; an account keeps its address, a used token stays used.
Aging ==
    /\ issued \subseteq issued' /\ overtaken \subseteq overtaken'
    /\ \A u \in Users : account[u] # None =>
          account'[u] # None /\ account'[u].email = account[u].email
    /\ \A t \in Tokens : reset[t] # None =>
          /\ reset'[t] # None /\ reset'[t].user = reset[t].user
          /\ reset'[t].expires = reset[t].expires
          /\ reset[t].used => reset'[t].used
    /\ \A t \in Tokens \cap issued : before'[t] = before[t]
    /\ now \in Nat /\ now' \in Nat /\ now <= now'

LEMMA ConstantsApart ==
    /\ None \notin Emails /\ None \notin Users /\ None \notin Tokens
    /\ None \notin Passwords /\ None \notin Account
    /\ None \notin ResetRow
    /\ \A u \in Users : u \notin Tokens
BY AccountsAssumption DEF AccountsAssumption

\* A link that has lapsed does not work again.
LEMMA LapsedStays ==
    ASSUME TypeOK, Aging, NEW t \in Tokens, Lapsed(t)
    PROVE  Lapsed(t)'
<1>1. reset[t] # None /\ reset[t] \in ResetRow
    BY DEF Lapsed, TypeOK
<1>2. /\ reset'[t] # None /\ reset'[t].expires = reset[t].expires
      /\ reset[t].used => reset'[t].used
    BY <1>1 DEF Aging
<1> QED
    BY <1>1, <1>2 DEF Lapsed, Usable, ResetRow, Aging

\* A request that ends leaves a free slot, of which everything is true.
LEMMA EndSlot ==
    ASSUME TypeOK, NEW q \in Slots, End(q)
    PROVE  /\ Others(q)
           /\ SlotInv(q)'
           /\ \A r \in Slots : r # q => Apart(q, r)' /\ Apart(r, q)'
           /\ stage' \in [Slots -> Stage]
           /\ ask' \in [Slots -> Request \cup {NoRequest}]
           /\ session' \in [Slots -> Session]
           /\ timely' \in [Slots -> BOOLEAN]
<1>1. Others(q)
    BY DEF Others, Same, End, Goto, TypeOK
<1>2. stage'[q] = "idle" /\ ask'[q] = NoRequest
    BY DEF End, Goto, TypeOK
<1>3. ask'[q].op = "none"
    BY <1>2 DEF NoRequest
<1>4. SlotInv(q)'
    BY <1>2, <1>3 DEF SlotInv, Shape, Joining, Entering, Asking, Redeeming
<1>5. ASSUME NEW r \in Slots, r # q PROVE Apart(q, r)' /\ Apart(r, q)'
    BY <1>3 DEF Apart
<1>6. stage' \in [Slots -> Stage] /\ ask' \in [Slots -> Request \cup {NoRequest}]
    BY DEF End, Goto, TypeOK, Stage
<1>7. session' \in [Slots -> Session]
    <2>1. NoSession \in Session
        BY DEF NoSession, Session
    <2> QED
        BY <2>1 DEF End, TypeOK
<1>8. timely' \in [Slots -> BOOLEAN]
    BY DEF End, TypeOK
<1> QED
    BY <1>1, <1>4, <1>5, <1>6, <1>7, <1>8

\* What a request is about, and works on, is typed whenever it is under way.
LEMMA Locals ==
    ASSUME TypeOK, NEW q \in Slots
    PROVE  /\ session[q] \in Session
           /\ session[q].user \in Users \cup {None}
           /\ session[q].seen \subseteq Tokens
           /\ session[q].expires \in Nat
           /\ timely[q] \in BOOLEAN
<1>1. session[q] \in Session /\ timely[q] \in BOOLEAN
    BY DEF TypeOK
<1> QED
    BY <1>1 DEF Session

\* A request that does not move stays as it should be, whatever else ages.
LEMMA SlotStays ==
    ASSUME TypeOK, RowsInv, Aging, NEW r \in Slots, Same(r), SlotInv(r),
           ask[r].op = "signup" =>
              /\ account'[ask[r].user] = None
              /\ stage[r] = "inserted" => WithEmail(ask[r].email)' = {},
           ask[r].op = "login" /\ stage[r] = "verified" =>
              session[r].user \in overtaken' \/ chosen'[session[r].user] = chosen[session[r].user],
           ask[r].op = "forgot" => reset'[ask[r].token] = None
    PROVE  SlotInv(r)'
<1>1. Shape(r)'
    BY DEF SlotInv, Shape, Same
<1>2. Joining(r)'
    BY DEF SlotInv, Joining, Same, Aging, WithEmail
<1>3. Entering(r)'
    BY DEF SlotInv, Entering, Same, Aging
<1>4. Asking(r)'
    <2> SUFFICES ASSUME ask[r].op = "forgot" PROVE Asking(r)'
        BY DEF Asking, Same
    <2>1. ask[r].token \in Tokens \cap issued /\ ask[r].token \in issued'
        BY DEF SlotInv, Asking, Aging
    <2>2. before'[ask[r].token] = before[ask[r].token]
        BY <2>1 DEF Aging
    <2>3. \A t \in before[ask[r].token] : t \in Tokens /\ reset[t] # None
        BY <2>1 DEF RowsInv, TypeOK
    <2>4. session[r].seen \subseteq Tokens
        BY Locals
    <2>5. ASSUME stage[r] # "arrived"
          PROVE  /\ session[r].user \in Users /\ account'[session[r].user] # None
                 /\ \A t \in session[r].seen : reset'[t] # None
                 /\ \A t \in before[ask[r].token] :
                       reset'[t].user = session[r].user => reset'[t].used \/ t \in session[r].seen
        <3>1. /\ session[r].user \in Users /\ account[session[r].user] # None
              /\ \A t \in session[r].seen : reset[t] # None
              /\ \A t \in before[ask[r].token] :
                    reset[t].user = session[r].user => reset[t].used \/ t \in session[r].seen
            BY <2>5 DEF SlotInv, Asking
        <3> QED
            BY <2>3, <2>4, <3>1 DEF Aging
    <2> QED
        BY <2>1, <2>2, <2>5 DEF Asking, Same
<1>5. Redeeming(r)'
    <2> SUFFICES ASSUME ask[r].op = "reset" PROVE Redeeming(r)'
        BY DEF Redeeming, Same
    <2>1. /\ ask[r].token \in Tokens /\ ask[r].password \in Passwords
          /\ ~Lapsed(ask[r].token) => timely[r]
          /\ stage[r] # "arrived" =>
                /\ timely[r] /\ reset[ask[r].token] # None
                /\ session[r].user \in Users /\ account[session[r].user] # None
        BY DEF SlotInv, Redeeming
    <2>2. PICK t \in Tokens : t = ask[r].token
        BY <2>1
    <2>3. Lapsed(t) => Lapsed(t)'
        BY LapsedStays
    <2>4. ~Lapsed(ask[r].token)' => ~Lapsed(t)'
        BY <2>2 DEF Lapsed, Usable, Same
    <2> QED
        BY <2>1, <2>2, <2>3, <2>4 DEF Redeeming, Same, Aging
<1> QED
    BY <1>1, <1>2, <1>3, <1>4, <1>5 DEF SlotInv

LEMMA ApartStays ==
    ASSUME NEW q \in Slots, NEW r \in Slots, Same(q), Same(r), Apart(q, r)
    PROVE  Apart(q, r)'
BY DEF Apart, Same

-----------------------------------------------------------------------------
(* Steps that change no row *)

LEMMA RowsStay ==
    ASSUME IInv, UNCHANGED <<database, history>>
    PROVE  RowsInv' /\ OneAccountPerEmail' /\ ChosenPasswordOpens'
BY DEF IInv, RowsInv, OneAccountPerEmail, ChosenPasswordOpens, database, history

LEMMA OthersStay ==
    ASSUME IInv, NEW q \in Slots, Others(q), UNCHANGED <<database, history>>,
           now' \in 0..Horizon, now <= now'
    PROVE  \A r \in Slots : r # q => SlotInv(r)'
<1> SUFFICES ASSUME NEW r \in Slots, r # q PROVE SlotInv(r)'
    OBVIOUS
<1>1. UNCHANGED <<account, reset, before, issued, chosen, overtaken>>
    BY DEF database, history
<1>2. TypeOK /\ RowsInv /\ SlotInv(r) /\ Same(r)
    BY DEF IInv, Others
<1>3. Aging
    BY <1>1, <1>2 DEF Aging, TypeOK
<1>4. /\ ask[r].op = "signup" =>
            /\ account'[ask[r].user] = None
            /\ stage[r] = "inserted" => WithEmail(ask[r].email)' = {}
      /\ ask[r].op = "forgot" => reset'[ask[r].token] = None
    BY <1>1, <1>2 DEF SlotInv, Joining, Asking, WithEmail, Same
<1> QED
    BY <1>1, <1>2, <1>3, <1>4, SlotStays

LEMMA LocalInv ==
    ASSUME IInv, NEW q \in Slots, Others(q),
           UNCHANGED <<database, history>>, mail' \subseteq Tokens, now' = now,
           stage' \in [Slots -> Stage], ask' \in [Slots -> Request \cup {NoRequest}],
           session' \in [Slots -> Session], timely' \in [Slots -> BOOLEAN],
           SlotInv(q)', \A r \in Slots : r # q => Apart(q, r)' /\ Apart(r, q)'
    PROVE  IInv'
<1>1. TypeOK'
    BY DEF IInv, TypeOK, database, history
<1>2. now' \in 0..Horizon /\ now <= now'
    BY DEF IInv, TypeOK
<1>3. \A r \in Slots : SlotInv(r)'
    BY <1>2, OthersStay
<1>4. ASSUME NEW r \in Slots, NEW s \in Slots, r # s, r # q, s # q PROVE Apart(r, s)'
    BY <1>4, ApartStays DEF IInv, Exclusion, Others
<1>5. Exclusion'
    BY <1>4 DEF Exclusion
<1> QED
    BY <1>1, <1>3, <1>5, RowsStay DEF IInv

LEMMA RefuseInv == ASSUME IInv, NEW q \in Slots, Refuse(q) PROVE IInv'
<1>1. /\ TypeOK /\ End(q) /\ UNCHANGED <<database, history>>
      /\ mail' = mail /\ now' = now
    BY DEF IInv, Refuse
<1> QED
    BY <1>1, EndSlot, LocalInv DEF TypeOK

\* A request moves on, with the rows it has found.
Moves(q, next) ==
    /\ Goto(q, next) /\ next \in Stage
    /\ UNCHANGED <<database, history, ask, timely>> /\ now' = now /\ mail' \subseteq Tokens
    /\ session' \in [Slots -> Session]
    /\ \A r \in Slots : r # q => session'[r] = session[r]

LEMMA MovesOn ==
    ASSUME IInv, NEW q \in Slots, NEW next, Moves(q, next)
    PROVE  /\ stage'[q] = next /\ ask'[q] = ask[q] /\ timely'[q] = timely[q]
           /\ stage' \in [Slots -> Stage] /\ Others(q)
<1>1. stage \in [Slots -> Stage]
    BY DEF IInv, TypeOK
<1> QED
    BY <1>1 DEF Moves, Goto, Others, Same

LEMMA MovesInv ==
    ASSUME IInv, NEW q \in Slots, NEW next, Moves(q, next), SlotInv(q)',
           next = "inserted" => \A r \in Slots : stage[r] = "inserted" => ask[r].email # ask[q].email
    PROVE  IInv'
<1>1. TypeOK
    BY DEF IInv
<1>2. /\ stage'[q] = next /\ ask' = ask /\ timely' = timely
      /\ stage' \in [Slots -> Stage] /\ Others(q)
    BY MovesOn DEF Moves
<1>3. ASSUME NEW r \in Slots, r # q PROVE Apart(q, r)' /\ Apart(r, q)'
    <2>1. Apart(q, r) /\ Apart(r, q)
        BY <1>3 DEF IInv, Exclusion
    <2>2. stage'[r] = stage[r]
        BY <1>2, <1>3 DEF Others, Same
    <2> QED
        BY <1>2, <2>1, <2>2 DEF Apart
<1> QED
    BY <1>1, <1>2, <1>3, LocalInv DEF Moves, TypeOK

\* A step that leaves the locals as well needs only the stage to be right.
LEMMA ContinueMoves ==
    ASSUME IInv, NEW q \in Slots, NEW next \in Stage, Continue(q, next),
           session' \in [Slots -> Session],
           \A r \in Slots : r # q => session'[r] = session[r]
    PROVE  /\ Moves(q, next)
           /\ stage'[q] = next /\ ask' = ask /\ timely' = timely
           /\ UNCHANGED <<account, reset, mail, now, before, issued, chosen, overtaken>>
<1>1. Moves(q, next)
    BY DEF Continue, Moves, IInv, TypeOK
<1> QED
    BY <1>1, MovesOn DEF Continue, database, history

LEMMA EmailExistsInv == ASSUME IInv, NEW q \in Slots, EmailExists(q) PROVE IInv'
<1>1. CASE Refuse(q)
    BY <1>1, RefuseInv
<1>2. CASE ~Refuse(q)
    <2>1. /\ stage[q] = "arrived" /\ ask[q].op = "signup"
          /\ Continue(q, "free") /\ UNCHANGED session
        BY <1>2 DEF EmailExists
    <2>2. SlotInv(q) /\ TypeOK
        BY DEF IInv
    <2>3. /\ Moves(q, "free") /\ stage'[q] = "free" /\ ask' = ask
          /\ UNCHANGED <<account, issued>>
        BY <2>1, <2>2, ContinueMoves DEF TypeOK, Stage
    <2>4. SlotInv(q)'
        BY <2>1, <2>2, <2>3
        DEF SlotInv, Shape, StagesOf, Joining, Entering, Asking, Redeeming
    <2> QED
        BY <2>3, <2>4, MovesInv
<1> QED
    BY <1>1, <1>2

LEMMA InsertUserInv == ASSUME IInv, NEW q \in Slots, InsertUser(q) PROVE IInv'
<1>1. CASE Refuse(q)
    BY <1>1, RefuseInv
<1>2. CASE ~Refuse(q)
    <2>1. /\ stage[q] = "free"
          /\ \A r \in Slots : stage[r] = "inserted" => ask[r].email # ask[q].email
          /\ WithEmail(ask[q].email) = {}
          /\ Continue(q, "inserted") /\ UNCHANGED session
        BY <1>2 DEF InsertUser
    <2>2. SlotInv(q) /\ TypeOK
        BY DEF IInv
    <2>3. ask[q].op = "signup"
        BY <2>1, <2>2 DEF SlotInv, Shape, StagesOf
    <2>4. /\ Moves(q, "inserted") /\ stage'[q] = "inserted" /\ ask' = ask
          /\ UNCHANGED <<account, issued>>
        BY <2>1, <2>2, ContinueMoves DEF TypeOK, Stage
    <2>5. WithEmail(ask[q].email)' = {}
        BY <2>1, <2>4 DEF WithEmail
    <2>6. Joining(q)'
        BY <2>2, <2>4, <2>5 DEF SlotInv, Joining, WithEmail
    <2>7. Shape(q)'
        BY <2>1, <2>2, <2>3, <2>4 DEF SlotInv, Shape, StagesOf
    <2>8. SlotInv(q)'
        BY <2>3, <2>4, <2>6, <2>7 DEF SlotInv, Entering, Asking, Redeeming
    <2> QED
        BY <2>1, <2>4, <2>8, MovesInv
<1> QED
    BY <1>1, <1>2

LEMMA AuthenticateInv == ASSUME IInv, NEW q \in Slots, Authenticate(q) PROVE IInv'
<1>1. CASE Refuse(q)
    BY <1>1, RefuseInv
<1>2. CASE ~Refuse(q)
    <2>1. PICK u \in WithEmail(ask[q].email) :
             /\ stage[q] = "arrived" /\ ask[q].op = "login"
             /\ Opens(u, ask[q].password)
             /\ session' = [session EXCEPT ![q].user = u]
             /\ Continue(q, "verified")
        BY <1>2 DEF Authenticate
    <2>2. SlotInv(q) /\ TypeOK /\ ChosenPasswordOpens
        BY DEF IInv
    <2>3. u \in Users /\ account[u] # None
        BY DEF WithEmail
    <2>4. session' \in [Slots -> Session] /\ session'[q].user = u
        <3>1. [session[q] EXCEPT !.user = u] \in Session
            BY <2>2, <2>3, Locals DEF Session
        <3> QED
            BY <2>1, <2>2, <2>3, <3>1, Locals DEF TypeOK, Session
    <2>5. /\ Moves(q, "verified") /\ stage'[q] = "verified" /\ ask' = ask
          /\ UNCHANGED <<account, overtaken, chosen>>
        BY <2>1, <2>2, <2>4, ContinueMoves DEF TypeOK, Stage
    <2>6. u \notin overtaken => ask[q].password = chosen[u]
        BY <2>1, <2>2, <2>3 DEF ChosenPasswordOpens, Opens
    <2>7. SlotInv(q)'
        BY <2>1, <2>2, <2>3, <2>4, <2>5, <2>6
        DEF SlotInv, Shape, StagesOf, Joining, Entering, Asking, Redeeming
    <2> QED
        BY <2>5, <2>7, MovesInv
<1> QED
    BY <1>1, <1>2

LEMMA FindUserInv == ASSUME IInv, NEW q \in Slots, FindUser(q) PROVE IInv'
<1>1. CASE Refuse(q)
    BY <1>1, RefuseInv
<1>2. CASE ~Refuse(q)
    <2>1. PICK u \in WithEmail(ask[q].email) :
             /\ stage[q] = "arrived" /\ ask[q].op = "forgot"
             /\ session' = [session EXCEPT ![q].user = u,
                               ![q].seen = {t \in Tokens : reset[t] # None
                                              /\ reset[t].user = u /\ ~reset[t].used}]
             /\ Continue(q, "found")
        BY <1>2 DEF FindUser
    <2> DEFINE seen == {t \in Tokens : reset[t] # None /\ reset[t].user = u /\ ~reset[t].used}
    <2>2. SlotInv(q) /\ TypeOK /\ RowsInv
        BY DEF IInv
    <2>3. u \in Users /\ account[u] # None
        BY DEF WithEmail
    <2>4. /\ session' \in [Slots -> Session]
          /\ session'[q].user = u /\ session'[q].seen = seen
        <3> HIDE DEF seen
        <3>1. session' = [session EXCEPT ![q] = [@ EXCEPT !.user = u, !.seen = seen]]
            BY <2>1 DEF seen
        <3>2. seen \subseteq Tokens
            BY DEF seen
        <3>3. [session[q] EXCEPT !.user = u, !.seen = seen] \in Session
            BY <2>3, <3>2, <2>2, Locals DEF Session
        <3> QED
            BY <2>2, <3>1, <3>3, Locals DEF TypeOK, Session
    <2>5. /\ Moves(q, "found") /\ stage'[q] = "found" /\ ask' = ask
          /\ UNCHANGED <<account, reset, before, issued>>
        BY <2>1, <2>2, <2>4, ContinueMoves DEF TypeOK, Stage
    <2>6. ask[q].token \in Tokens \cap issued /\ reset[ask[q].token] = None
        BY <2>1, <2>2 DEF SlotInv, Asking
    <2>7. \A t \in before[ask[q].token] : t \in Tokens /\ reset[t] # None
        BY <2>2, <2>6 DEF RowsInv, TypeOK
    <2>8. Asking(q)'
        BY <2>3, <2>4, <2>5, <2>6, <2>7 DEF Asking
    <2>9. SlotInv(q)'
        BY <2>1, <2>2, <2>5, <2>8
        DEF SlotInv, Shape, StagesOf, Joining, Entering, Redeeming
    <2> QED
        BY <2>5, <2>9, MovesInv
<1> QED
    BY <1>1, <1>2

LEMMA InvalidateOutstandingInv ==
    ASSUME IInv, NEW q \in Slots, InvalidateOutstanding(q) PROVE IInv'
<1> DEFINE seen == {t \in session[q].seen : ~reset[t].used}
<1>1. /\ stage[q] = "found"
      /\ session' = [session EXCEPT ![q] = [@ EXCEPT !.seen = seen,
                                              !.expires = After(ResetTTL)]]
      /\ Continue(q, "voided")
    BY DEF InvalidateOutstanding
<1>2. SlotInv(q) /\ TypeOK
    BY DEF IInv
<1>3. /\ session' \in [Slots -> Session]
      /\ session'[q].user = session[q].user /\ session'[q].seen = seen
    <2> HIDE DEF seen
    <2>1. After(ResetTTL) \in Nat
        BY <1>2, AccountsAssumption DEF AccountsAssumption, After, TypeOK
    <2>2. seen \subseteq Tokens
        BY <1>2, Locals DEF seen
    <2>3. [session[q] EXCEPT !.seen = seen, !.expires = After(ResetTTL)] \in Session
        BY <1>2, <2>1, <2>2, Locals DEF Session
    <2> QED
        BY <1>1, <1>2, <2>3, Locals DEF TypeOK, Session
<1>4. /\ Moves(q, "voided") /\ stage'[q] = "voided" /\ ask' = ask
      /\ UNCHANGED <<account, reset, before, issued>>
    BY <1>1, <1>2, <1>3, ContinueMoves DEF TypeOK, Stage
<1>5. ask[q].op = "forgot"
    BY <1>1, <1>2 DEF SlotInv, Shape, StagesOf
<1>6. Asking(q)'
    BY <1>1, <1>2, <1>3, <1>4 DEF SlotInv, Asking
<1>7. Shape(q)'
    BY <1>1, <1>2, <1>4, <1>5 DEF SlotInv, Shape, StagesOf
<1>8. SlotInv(q)'
    BY <1>4, <1>5, <1>6, <1>7 DEF SlotInv, Joining, Entering, Redeeming
<1> QED
    BY <1>4, <1>8, MovesInv

LEMMA SendEmailInv == ASSUME IInv, NEW q \in Slots, SendEmail(q) PROVE IInv'
<1>1. /\ stage[q] = "voided" /\ mail' \in {mail, mail \cup {ask[q].token}}
      /\ Goto(q, "mailed")
      /\ UNCHANGED <<account, reset, before, issued, chosen, overtaken>>
      /\ UNCHANGED <<now, ask, session, timely>>
    BY DEF SendEmail, database, history
<1>2. SlotInv(q) /\ TypeOK
    BY DEF IInv
<1>3. ask[q].op = "forgot"
    BY <1>1, <1>2 DEF SlotInv, Shape, StagesOf
<1>4. mail' \subseteq Tokens
    BY <1>1, <1>2, <1>3 DEF SlotInv, Asking, TypeOK
<1>5. Moves(q, "mailed")
    BY <1>1, <1>2, <1>4 DEF Moves, Stage, database, history, TypeOK
<1>6. stage'[q] = "mailed"
    BY <1>5, MovesOn
<1>7. SlotInv(q)'
    BY <1>1, <1>2, <1>3, <1>6 DEF SlotInv, Shape, StagesOf, Joining, Entering, Asking, Redeeming
<1> QED
    BY <1>5, <1>7, MovesInv

LEMMA GetTokenInv == ASSUME IInv, NEW q \in Slots, GetToken(q) PROVE IInv'
<1> DEFINE t == ask[q].token
<1>1. CASE Refuse(q)
    BY <1>1, RefuseInv
<1>2. CASE ~Refuse(q)
    <2>1. /\ stage[q] = "arrived" /\ ask[q].op = "reset" /\ Usable(t)
          /\ session' = [session EXCEPT ![q].user = reset[t].user]
          /\ Continue(q, "checked")
        BY <1>2 DEF GetToken
    <2>2. SlotInv(q) /\ TypeOK /\ RowsInv
        BY DEF IInv
    <2>3. t \in Tokens /\ reset[t] # None /\ ~Lapsed(t)
        BY <2>1, <2>2 DEF SlotInv, Redeeming, Usable, Lapsed
    <2>4. reset[t].user \in Users /\ account[reset[t].user] # None
        BY <2>2, <2>3 DEF RowsInv, TypeOK, ResetRow
    <2>5. session' \in [Slots -> Session] /\ session'[q].user = reset[t].user
        <3> HIDE DEF t
        <3>1. [session[q] EXCEPT !.user = reset[t].user] \in Session
            BY <2>2, <2>4, Locals DEF Session
        <3> QED
            BY <2>1, <2>2, <2>4, <3>1, Locals DEF TypeOK, Session
    <2>6. /\ Moves(q, "checked") /\ stage'[q] = "checked" /\ ask' = ask /\ timely' = timely
          /\ UNCHANGED <<account, reset, now>>
        BY <2>1, <2>2, <2>5, ContinueMoves DEF TypeOK, Stage
    <2>7. Redeeming(q)'
        BY <2>1, <2>2, <2>3, <2>4, <2>5, <2>6 DEF SlotInv, Redeeming
    <2>8. SlotInv(q)'
        BY <2>1, <2>2, <2>6, <2>7 DEF SlotInv, Shape, StagesOf, Joining, Entering, Asking
    <2> QED
        BY <2>6, <2>8, MovesInv
<1> QED
    BY <1>1, <1>2

\* The flush of a reset: its locals stay as they are.
LEMMA FlushInv ==
    ASSUME IInv, NEW q \in Slots, NEW next \in {"updated", "burned"},
           stage[q] \in {"checked", "updated"}, Continue(q, next), UNCHANGED session
    PROVE  IInv'
<1>1. SlotInv(q) /\ TypeOK
    BY DEF IInv
<1>2. ask[q].op = "reset"
    BY <1>1 DEF SlotInv, Shape, StagesOf, Request
<1>3. /\ Moves(q, next) /\ stage'[q] = next /\ ask' = ask /\ timely' = timely
      /\ UNCHANGED <<account, reset, now>>
    BY <1>1, ContinueMoves DEF TypeOK, Stage
<1>4. Redeeming(q)'
    BY <1>1, <1>2, <1>3 DEF SlotInv, Redeeming, Lapsed, Usable
<1>5. SlotInv(q)'
    BY <1>1, <1>2, <1>3, <1>4 DEF SlotInv, Shape, StagesOf, Joining, Entering, Asking
<1> QED
    BY <1>3, <1>5, MovesInv

-----------------------------------------------------------------------------
(* Steps that change a row *)

\* What remains to be shown of a request that ends.
LEMMA EndingInv ==
    ASSUME IInv, NEW q \in Slots, End(q), UNCHANGED <<mail, now, before, issued>>,
           account' \in [Users -> Account \cup {None}],
           reset' \in [Tokens -> ResetRow \cup {None}],
           chosen' \in [Users -> Passwords \cup {None}], overtaken' \subseteq Users,
           RowsInv', OneAccountPerEmail', ChosenPasswordOpens',
           \A r \in Slots : r # q => SlotInv(r)'
    PROVE  IInv'
<1>1. TypeOK
    BY DEF IInv
<1>2. TypeOK'
    BY <1>1, EndSlot DEF TypeOK
<1>3. ASSUME NEW r \in Slots, NEW s \in Slots, r # s PROVE Apart(r, s)'
    <2>1. CASE r = q \/ s = q
        BY <1>1, <1>3, <2>1, EndSlot
    <2>2. CASE r # q /\ s # q
        BY <1>1, <1>3, <2>2, EndSlot, ApartStays DEF IInv, Exclusion, Others
    <2> QED
        BY <2>1, <2>2
<1>4. Exclusion'
    BY <1>3 DEF Exclusion
<1>5. \A r \in Slots : SlotInv(r)'
    BY <1>1, EndSlot
<1> QED
    BY <1>2, <1>4, <1>5 DEF IInv

LEMMA CommitSignupInv == ASSUME IInv, NEW q \in Slots, CommitSignup(q) PROVE IInv'
<1> DEFINE a == ask[q]
           row == [email |-> a.email, password |-> a.password,
                   legacy |-> FALSE, active |-> TRUE]
<1>1. /\ stage[q] = "inserted" /\ End(q)
      /\ account' = [account EXCEPT ![a.user] = row]
      /\ chosen' = [chosen EXCEPT ![a.user] = a.password]
      /\ UNCHANGED <<reset, mail, now, before, issued, overtaken>>
    BY DEF CommitSignup
<1>2. SlotInv(q) /\ TypeOK /\ RowsInv
    BY DEF IInv
<1>3. a.op = "signup"
    BY <1>1, <1>2 DEF SlotInv, Shape, StagesOf
<1>4. /\ a.email \in Emails /\ a.password \in Passwords /\ a.user \in Users /\ a.user \in issued
      /\ account[a.user] = None /\ WithEmail(a.email) = {}
    BY <1>1, <1>2, <1>3 DEF SlotInv, Joining
<1>5. row \in Account /\ row # None
    <2>1. row \in Account
        BY <1>4 DEF Account
    <2> QED
        BY <2>1, ConstantsApart
<1>6. /\ account' \in [Users -> Account \cup {None}]
      /\ chosen' \in [Users -> Passwords \cup {None}]
      /\ account'[a.user] = row /\ chosen'[a.user] = a.password
      /\ \A u \in Users : u # a.user => account'[u] = account[u] /\ chosen'[u] = chosen[u]
    BY <1>1, <1>2, <1>4, <1>5 DEF TypeOK
<1>7. \A u \in Users : account[u] # None => u # a.user /\ account'[u] # None
    BY <1>4, <1>6
<1>8. Aging
    BY <1>1, <1>2, <1>6, <1>7 DEF Aging, TypeOK
<1>9. RowsInv'
    <2>1. \A t \in Tokens : reset[t] # None => reset[t].user \in Users
        BY <1>2 DEF TypeOK, ResetRow
    <2> QED
        BY <1>1, <1>2, <1>4, <1>6, <1>7, <2>1 DEF RowsInv
<1>10. OneAccountPerEmail'
    BY <1>4, <1>6 DEF IInv, OneAccountPerEmail, WithEmail
<1>11. ChosenPasswordOpens'
    BY <1>1, <1>4, <1>6 DEF IInv, ChosenPasswordOpens
<1>12. ASSUME NEW r \in Slots, r # q PROVE SlotInv(r)'
    <2>1. Same(r) /\ SlotInv(r) /\ Apart(r, q)
        BY <1>1, <1>2, <1>12, EndSlot DEF Others, IInv, Exclusion
    <2>2. ask[r].op = "signup" => account'[ask[r].user] = None
        BY <1>3, <1>6, <2>1 DEF SlotInv, Joining, Apart
    <2>3. ask[r].op = "signup" /\ stage[r] = "inserted" => WithEmail(ask[r].email)' = {}
        BY <1>1, <1>3, <1>6, <2>1 DEF SlotInv, Joining, Apart, WithEmail, Same
    <2>4. ask[r].op = "login" /\ stage[r] = "verified" =>
             chosen'[session[r].user] = chosen[session[r].user]
        BY <1>6, <1>7, <2>1 DEF SlotInv, Entering
    <2>5. ask[r].op = "forgot" => reset'[ask[r].token] = None
        BY <1>1, <2>1 DEF SlotInv, Asking
    <2> QED
        BY <1>2, <1>8, <2>1, <2>2, <2>3, <2>4, <2>5, SlotStays
<1> HIDE DEF a, row
<1> QED
    BY <1>1, <1>2, <1>6, <1>9, <1>10, <1>11, <1>12, EndingInv DEF TypeOK

\* A password that is replaced leaves the account where it was.
LEMMA PasswordOnly ==
    ASSUME TypeOK, NEW u \in Users, account[u] # None, NEW p \in Passwords,
           account' = [account EXCEPT ![u].password = p, ![u].legacy = FALSE]
    PROVE  /\ account' \in [Users -> Account \cup {None}]
           /\ account'[u] # None /\ account'[u].password = p
           /\ \A v \in Users : v # u => account'[v] = account[v]
           /\ \A v \in Users : account[v] # None <=> account'[v] # None
           /\ \A v \in Users : account[v] # None => account'[v].email = account[v].email
<1>1. account[u] \in Account
    BY DEF TypeOK
<1>2. account' = [account EXCEPT ![u] = [@ EXCEPT !.password = p, !.legacy = FALSE]]
    OBVIOUS
<1>3. /\ [account[u] EXCEPT !.password = p, !.legacy = FALSE] \in Account
      /\ [account[u] EXCEPT !.password = p, !.legacy = FALSE].password = p
      /\ [account[u] EXCEPT !.password = p, !.legacy = FALSE].email = account[u].email
    BY <1>1 DEF Account
<1>4. /\ account' \in [Users -> Account \cup {None}]
      /\ account'[u] \in Account /\ account'[u].password = p
      /\ account'[u].email = account[u].email
      /\ \A v \in Users : v # u => account'[v] = account[v]
    BY <1>2, <1>3 DEF TypeOK
<1> QED
    BY <1>4, ConstantsApart

LEMMA CommitLoginInv == ASSUME IInv, NEW q \in Slots, CommitLogin(q) PROVE IInv'
<1> DEFINE u == session[q].user
<1>1. /\ stage[q] = "verified" /\ End(q)
      /\ account' = [account EXCEPT ![u].password = ask[q].password, ![u].legacy = FALSE]
      /\ UNCHANGED <<reset, mail, now, before, issued, chosen, overtaken>>
    BY DEF CommitLogin, history
<1>2. SlotInv(q) /\ TypeOK /\ RowsInv
    BY DEF IInv
<1>3. ask[q].op = "login"
    BY <1>1, <1>2 DEF SlotInv, Shape, StagesOf
<1>4. /\ u \in Users /\ account[u] # None /\ ask[q].password \in Passwords
      /\ u \notin overtaken => ask[q].password = chosen[u]
    BY <1>1, <1>2, <1>3 DEF SlotInv, Entering
<1>5. /\ account' \in [Users -> Account \cup {None}]
      /\ account'[u] # None /\ account'[u].password = ask[q].password
      /\ \A v \in Users : v # u => account'[v] = account[v]
      /\ \A v \in Users : account[v] # None <=> account'[v] # None
      /\ \A v \in Users : account[v] # None => account'[v].email = account[v].email
    BY <1>1, <1>2, <1>4, PasswordOnly
<1> HIDE DEF u
<1>6. Aging
    BY <1>1, <1>2, <1>5 DEF Aging, TypeOK
<1>7. RowsInv'
    <2>1. \A t \in Tokens : reset[t] # None => reset[t].user \in Users
        BY <1>2 DEF TypeOK, ResetRow
    <2> QED
        BY <1>1, <1>2, <1>5, <2>1 DEF RowsInv
<1>8. OneAccountPerEmail'
    BY <1>5 DEF IInv, OneAccountPerEmail
<1>9. ChosenPasswordOpens'
    BY <1>1, <1>4, <1>5 DEF IInv, ChosenPasswordOpens
<1>10. ASSUME NEW r \in Slots, r # q PROVE SlotInv(r)'
    <2>1. Same(r) /\ SlotInv(r)
        BY <1>1, <1>2, <1>10, EndSlot DEF Others, IInv
    <2>2. ask[r].op = "signup" =>
             /\ account'[ask[r].user] = None
             /\ stage[r] = "inserted" => WithEmail(ask[r].email)' = {}
        BY <1>5, <2>1 DEF SlotInv, Joining, WithEmail, Same
    <2>3. ask[r].op = "forgot" => reset'[ask[r].token] = None
        BY <1>1, <2>1 DEF SlotInv, Asking
    <2> QED
        BY <1>1, <1>2, <1>6, <2>1, <2>2, <2>3, SlotStays
<1> QED
    BY <1>1, <1>2, <1>5, <1>7, <1>8, <1>9, <1>10, EndingInv DEF TypeOK

LEMMA CommitForgotInv == ASSUME IInv, NEW q \in Slots, CommitForgot(q) PROVE IInv'
<1> DEFINE id == ask[q].token
           s == session[q]
           row == [user |-> s.user, expires |-> s.expires, used |-> FALSE]
<1>1. /\ stage[q] = "mailed" /\ End(q)
      /\ reset' = [t \in Tokens |->
                      CASE t = id -> row
                        [] t \in s.seen -> [reset[t] EXCEPT !.used = TRUE]
                        [] OTHER -> reset[t]]
      /\ UNCHANGED <<account, mail, now, before, issued, chosen, overtaken>>
    BY DEF CommitForgot, history
<1>2. SlotInv(q) /\ TypeOK /\ RowsInv
    BY DEF IInv
<1>3. ask[q].op = "forgot"
    BY <1>1, <1>2 DEF SlotInv, Shape, StagesOf
<1>4. /\ id \in Tokens /\ id \in issued /\ reset[id] = None
      /\ s.user \in Users /\ account[s.user] # None
      /\ \A t \in s.seen : reset[t] # None
      /\ \A t \in before[id] : reset[t].user = s.user => reset[t].used \/ t \in s.seen
    BY <1>1, <1>2, <1>3 DEF SlotInv, Asking
<1>5. s.expires \in Nat /\ s.seen \subseteq Tokens
    BY <1>2, Locals
<1>6. row \in ResetRow /\ row.user = s.user /\ ~row.used
    BY <1>4, <1>5 DEF ResetRow
<1> HIDE DEF s, row, id
<1>7. reset'[id] = row
    BY <1>1, <1>4
<1>8. ASSUME NEW t \in Tokens, t # id
      PROVE  /\ t \in s.seen => reset'[t] = [reset[t] EXCEPT !.used = TRUE]
             /\ t \notin s.seen => reset'[t] = reset[t]
    BY <1>1, <1>8
<1>9. ASSUME NEW t \in Tokens, reset[t] # None
      PROVE  /\ t # id /\ reset[t] \in ResetRow /\ reset'[t] \in ResetRow
             /\ reset'[t].user = reset[t].user /\ reset'[t].expires = reset[t].expires
             /\ reset[t].used => reset'[t].used
             /\ t \in s.seen => reset'[t].used
    <2>1. t # id /\ reset[t] \in ResetRow
        BY <1>2, <1>4, <1>9 DEF TypeOK
    <2>2. CASE t \in s.seen
        <3>1. reset'[t] = [reset[t] EXCEPT !.used = TRUE]
            BY <1>8, <2>1, <2>2
        <3> QED
            BY <2>1, <2>2, <3>1 DEF ResetRow
    <2>3. CASE t \notin s.seen
        <3>1. reset'[t] = reset[t]
            BY <1>8, <2>1, <2>3
        <3> QED
            BY <2>1, <2>3, <3>1
    <2> QED
        BY <2>2, <2>3
<1>10. \A t \in Tokens : t # id /\ reset[t] = None => reset'[t] = None
    BY <1>4, <1>8
<1>11. reset' \in [Tokens -> ResetRow \cup {None}]
    <2>1. \A t \in Tokens : reset'[t] \in ResetRow \cup {None}
        BY <1>6, <1>7, <1>9, <1>10
    <2>2. reset' = [t \in Tokens |-> reset'[t]]
        BY <1>1
    <2> QED
        BY <2>1, <2>2
<1>12. Aging
    <2>1. \A t \in Tokens : reset[t] # None =>
             /\ reset'[t] # None /\ reset'[t].user = reset[t].user
             /\ reset'[t].expires = reset[t].expires
             /\ reset[t].used => reset'[t].used
        BY <1>9, ConstantsApart
    <2>2. now \in Nat
        BY <1>2 DEF TypeOK
    <2> QED
        BY <1>1, <2>1, <2>2 DEF Aging
<1>13. RowsInv'
    <2>1. \A t \in Tokens : reset'[t] # None => t \in issued' /\ account'[reset'[t].user] # None
        BY <1>1, <1>2, <1>4, <1>6, <1>7, <1>9, <1>10 DEF RowsInv
    <2>2. ASSUME NEW t \in Tokens, NEW o \in before[t]
          PROVE  /\ reset'[o] # None
                 /\ reset'[t] # None /\ reset'[o].user = reset'[t].user => reset'[o].used
        <3>1. o \in Tokens /\ reset[o] # None
            BY <1>2 DEF RowsInv, TypeOK
        <3>2. reset'[o] # None /\ reset'[o].user = reset[o].user
            BY <1>9, <3>1, ConstantsApart
        <3>3. CASE t = id
            BY <1>4, <1>6, <1>7, <1>9, <3>1, <3>2, <3>3
        <3>4. CASE t # id /\ reset'[t] # None
            <4>1. reset[t] # None
                BY <1>10, <3>4
            <4>2. reset[o].user = reset[t].user => reset[o].used
                BY <1>2, <4>1 DEF RowsInv
            <4> QED
                BY <1>9, <3>1, <3>2, <4>1, <4>2
        <3> QED
            BY <3>2, <3>3, <3>4
    <2> QED
        BY <1>1, <1>2, <2>1, <2>2 DEF RowsInv
<1>14. OneAccountPerEmail' /\ ChosenPasswordOpens'
    BY <1>1 DEF IInv, OneAccountPerEmail, ChosenPasswordOpens
<1>15. ASSUME NEW r \in Slots, r # q PROVE SlotInv(r)'
    <2>1. Same(r) /\ SlotInv(r) /\ Apart(r, q)
        BY <1>1, <1>2, <1>15, EndSlot DEF Others, IInv, Exclusion
    <2>2. ask[r].op = "signup" =>
             /\ account'[ask[r].user] = None
             /\ stage[r] = "inserted" => WithEmail(ask[r].email)' = {}
        BY <1>1, <2>1 DEF SlotInv, Joining, WithEmail, Same
    <2>3. ask[r].op = "forgot" => reset'[ask[r].token] = None
        BY <1>3, <1>10, <2>1 DEF SlotInv, Asking, Apart, id
    <2> QED
        BY <1>1, <1>2, <1>12, <2>1, <2>2, <2>3, SlotStays
<1> QED
    BY <1>1, <1>2, <1>11, <1>13, <1>14, <1>15, EndingInv DEF TypeOK

LEMMA CommitResetInv == ASSUME IInv, NEW q \in Slots, CommitReset(q) PROVE IInv'
<1> DEFINE u == session[q].user
           id == ask[q].token
           p == ask[q].password
<1>1. /\ stage[q] = "burned" /\ End(q)
      /\ account' = [account EXCEPT ![u].password = p, ![u].legacy = FALSE]
      /\ reset' = [reset EXCEPT ![id].used = TRUE]
      /\ chosen' = [chosen EXCEPT ![u] = p]
      /\ overtaken' = overtaken \cup {v \in {u} : \E r \in Slots : Upgrading(r, v)}
      /\ UNCHANGED <<mail, now, before, issued>>
    BY DEF CommitReset
<1>2. SlotInv(q) /\ TypeOK /\ RowsInv
    BY DEF IInv
<1>3. ask[q].op = "reset"
    BY <1>1, <1>2 DEF SlotInv, Shape, StagesOf, Request
<1>4. /\ u \in Users /\ account[u] # None /\ p \in Passwords
      /\ id \in Tokens /\ reset[id] # None /\ reset[id] \in ResetRow
    BY <1>1, <1>2, <1>3 DEF SlotInv, Redeeming, TypeOK
<1>5. /\ account' \in [Users -> Account \cup {None}]
      /\ account'[u] # None /\ account'[u].password = p
      /\ \A v \in Users : v # u => account'[v] = account[v]
      /\ \A v \in Users : account[v] # None <=> account'[v] # None
      /\ \A v \in Users : account[v] # None => account'[v].email = account[v].email
    BY <1>1, <1>2, <1>4, PasswordOnly
<1>6. /\ chosen'[u] = p /\ \A v \in Users : v # u => chosen'[v] = chosen[v]
      /\ chosen' \in [Users -> Passwords \cup {None}]
      /\ overtaken \subseteq overtaken' /\ overtaken' \subseteq Users
      /\ \A r \in Slots : Upgrading(r, u) => u \in overtaken'
    BY <1>1, <1>2, <1>4 DEF TypeOK
<1> HIDE DEF u, id, p
<1>7. /\ reset'[id] = [reset[id] EXCEPT !.used = TRUE]
      /\ \A t \in Tokens : t # id => reset'[t] = reset[t]
      /\ DOMAIN reset' = Tokens /\ reset' = [t \in Tokens |-> reset'[t]]
    BY <1>1, <1>2, <1>4 DEF TypeOK
<1>8. /\ reset'[id] \in ResetRow /\ reset'[id].used
      /\ reset'[id].user = reset[id].user /\ reset'[id].expires = reset[id].expires
    BY <1>4, <1>7 DEF ResetRow
<1>9. reset' \in [Tokens -> ResetRow \cup {None}]
    <2>1. \A t \in Tokens : reset'[t] \in ResetRow \cup {None}
        BY <1>2, <1>7, <1>8 DEF TypeOK
    <2> QED
        BY <1>7, <2>1
<1>10. /\ \A t \in Tokens : reset'[t] = None <=> reset[t] = None
       /\ \A t \in Tokens : /\ reset'[t].user = reset[t].user
                            /\ reset'[t].expires = reset[t].expires
                            /\ reset[t].used => reset'[t].used
    BY <1>4, <1>7, <1>8, ConstantsApart
<1>11. Aging
    BY <1>1, <1>2, <1>5, <1>6, <1>10 DEF Aging, TypeOK
<1>12. RowsInv'
    <2>1. \A t \in Tokens : reset[t] # None => reset[t].user \in Users
        BY <1>2 DEF TypeOK, ResetRow
    <2>2. \A t \in Tokens : \A o \in before[t] : o \in Tokens
        BY <1>2 DEF TypeOK
    <2> QED
        BY <1>1, <1>2, <1>5, <1>10, <2>1, <2>2 DEF RowsInv
<1>13. OneAccountPerEmail'
    BY <1>5 DEF IInv, OneAccountPerEmail
<1>14. ChosenPasswordOpens'
    BY <1>5, <1>6 DEF IInv, ChosenPasswordOpens
<1>15. ASSUME NEW r \in Slots, r # q PROVE SlotInv(r)'
    <2>1. Same(r) /\ SlotInv(r)
        BY <1>1, <1>2, <1>15, EndSlot DEF Others, IInv
    <2>2. ask[r].op = "signup" =>
             /\ account'[ask[r].user] = None
             /\ stage[r] = "inserted" => WithEmail(ask[r].email)' = {}
        BY <1>5, <2>1 DEF SlotInv, Joining, WithEmail, Same
    <2>3. ask[r].op = "login" /\ stage[r] = "verified" =>
             session[r].user \in overtaken' \/ chosen'[session[r].user] = chosen[session[r].user]
        BY <1>6, <2>1 DEF SlotInv, Entering, Upgrading
    <2>4. ask[r].op = "forgot" => reset'[ask[r].token] = None
        BY <1>10, <2>1 DEF SlotInv, Asking
    <2> QED
        BY <1>2, <1>11, <2>1, <2>2, <2>3, <2>4, SlotStays
<1> QED
    BY <1>1, <1>2, <1>5, <1>6, <1>9, <1>12, <1>13, <1>14, <1>15, EndingInv DEF TypeOK

LEMMA TickInv == ASSUME IInv, Tick PROVE IInv'
<1>1. /\ now < Horizon /\ now' = now + 1
      /\ UNCHANGED <<account, reset, mail, before, issued, chosen, overtaken>>
      /\ UNCHANGED <<stage, ask, session, timely>>
    BY DEF Tick, database, history
<1>2. TypeOK /\ RowsInv
    BY DEF IInv
<1>3. now' \in 0..Horizon /\ now <= now'
    BY <1>1, <1>2, AccountsAssumption DEF AccountsAssumption, TypeOK
<1>4. TypeOK'
    BY <1>1, <1>2, <1>3 DEF TypeOK
<1>5. Aging
    BY <1>1, <1>2 DEF Aging, TypeOK
<1>6. ASSUME NEW r \in Slots PROVE SlotInv(r)'
    <2>1. Same(r) /\ SlotInv(r)
        BY <1>1 DEF Same, IInv
    <2>2. /\ ask[r].op = "signup" =>
                /\ account'[ask[r].user] = None
                /\ stage[r] = "inserted" => WithEmail(ask[r].email)' = {}
          /\ ask[r].op = "forgot" => reset'[ask[r].token] = None
        BY <1>1, <2>1 DEF SlotInv, Joining, Asking, WithEmail
    <2> QED
        BY <1>1, <1>2, <1>5, <2>1, <2>2, SlotStays
<1>7. Exclusion'
    BY <1>1 DEF IInv, Exclusion, Apart
<1>8. RowsInv' /\ OneAccountPerEmail' /\ ChosenPasswordOpens'
    BY <1>1 DEF IInv, RowsInv, OneAccountPerEmail, ChosenPasswordOpens
<1> QED
    BY <1>4, <1>6, <1>7, <1>8 DEF IInv

\* A request that arrives brings a fresh id, or none.
LEMMA ArriveInv == ASSUME IInv, NEW q \in Slots, Arrive(q) PROVE IInv'
<1> DEFINE there == {t \in Tokens : reset[t] # None}
<1>1. PICK a \in Request :
         /\ \/ /\ a.op = "signup" /\ a.email # None /\ a.password # None
               /\ a.user \in Users \ issued /\ a.token = None
               /\ issued' = issued \cup {a.user} /\ UNCHANGED before
            \/ /\ a.op = "login" /\ a.email # None /\ a.password # None
               /\ a.user = None /\ a.token = None
               /\ UNCHANGED <<issued, before>>
            \/ /\ a.op = "forgot" /\ a.email # None /\ a.password = None
               /\ a.user = None /\ a.token \in Tokens \ issued
               /\ issued' = issued \cup {a.token}
               /\ before' = [before EXCEPT ![a.token] = there]
            \/ /\ a.op = "reset" /\ a.email = None /\ a.password # None
               /\ a.user = None /\ a.token \in mail
               /\ UNCHANGED <<issued, before>>
         /\ ask' = [ask EXCEPT ![q] = a]
         /\ timely' = [timely EXCEPT ![q] = a.op = "reset" /\ ~Lapsed(a.token)]
    BY DEF Arrive
<1>2. /\ stage[q] = "idle" /\ Goto(q, "arrived")
      /\ UNCHANGED <<account, reset, mail, now, session, chosen, overtaken>>
    BY DEF Arrive, database
<1>3. TypeOK /\ RowsInv
    BY DEF IInv
<1>4. /\ a.email \in Emails \cup {None} /\ a.user \in Users \cup {None}
      /\ a.token \in Tokens \cup {None} /\ a.password \in Passwords \cup {None}
      /\ a.op \in {"signup", "login", "forgot", "reset"}
    BY DEF Request
<1>5. /\ stage'[q] = "arrived" /\ ask'[q] = a /\ Others(q)
      /\ timely'[q] = (a.op = "reset" /\ ~Lapsed(a.token))
    BY <1>1, <1>2, <1>3 DEF Goto, TypeOK, Others, Same
<1>6. /\ issued \subseteq issued' /\ issued' \subseteq Users \cup Tokens
      /\ before' \in [Tokens -> SUBSET Tokens]
      /\ \A t \in Tokens : before'[t] = before[t] \/ (t \notin issued /\ before'[t] = there)
    <2>1. issued \subseteq Users \cup Tokens /\ before \in [Tokens -> SUBSET Tokens]
        BY <1>3 DEF TypeOK
    <2>2. there \subseteq Tokens
        OBVIOUS
    <2> HIDE DEF there
    <2>3. CASE UNCHANGED <<issued, before>>
        BY <2>1, <2>3
    <2>4. CASE issued' = issued \cup {a.user} /\ a.user \in Users /\ UNCHANGED before
        BY <2>1, <2>4
    <2>5. CASE /\ a.token \in Tokens \ issued /\ issued' = issued \cup {a.token}
               /\ before' = [before EXCEPT ![a.token] = there]
        <3>1. before'[a.token] = there /\ \A t \in Tokens : t # a.token => before'[t] = before[t]
            BY <2>1, <2>5
        <3>2. before' \in [Tokens -> SUBSET Tokens]
            BY <2>1, <2>2, <2>5
        <3> QED
            BY <2>1, <2>5, <3>1, <3>2
    <2> QED
        BY <1>1, <2>3, <2>4, <2>5
<1>7. Aging
    BY <1>2, <1>3, <1>6 DEF Aging, TypeOK
<1>8. TypeOK'
    <2>1. stage' \in [Slots -> Stage] /\ ask' \in [Slots -> Request \cup {NoRequest}]
        BY <1>1, <1>2, <1>3 DEF Goto, TypeOK, Stage
    <2>2. timely' \in [Slots -> BOOLEAN]
        BY <1>1, <1>3 DEF TypeOK
    <2> QED
        BY <1>2, <1>3, <1>6, <2>1, <2>2 DEF TypeOK
<1>9. RowsInv'
    <2>1. \A t \in Tokens : t \notin issued => reset[t] = None
        BY <1>3 DEF RowsInv
    <2>2. \A t \in Tokens : reset[t] # None => before'[t] = before[t]
        BY <1>6, <2>1
    <2>3. \A t \in Tokens : \A s \in before'[t] : reset[s] # None
        BY <1>3, <1>6 DEF RowsInv
    <2> QED
        BY <1>2, <1>3, <1>6, <2>2, <2>3 DEF RowsInv
<1>10. OneAccountPerEmail' /\ ChosenPasswordOpens'
    BY <1>2 DEF IInv, OneAccountPerEmail, ChosenPasswordOpens
<1>11. SlotInv(q)'
    <2>1. Shape(q)'
        BY <1>1, <1>4, <1>5 DEF Shape, StagesOf
    <2>2. a.op = "signup" => a.user \in Users /\ account[a.user] = None
        BY <1>1, <1>3 DEF RowsInv
    <2>3. a.op = "forgot" => a.token \in Tokens /\ reset[a.token] = None
        BY <1>1, <1>3 DEF RowsInv
    <2>4. Joining(q)' /\ Entering(q)' /\ Asking(q)'
        BY <1>1, <1>2, <1>4, <1>5, <2>2, <2>3 DEF Joining, Entering, Asking
    <2>5. a.op = "reset" => a.token \in Tokens /\ a.password \in Passwords
        BY <1>1, <1>3, <1>4 DEF TypeOK
    <2>6. Redeeming(q)'
        BY <1>2, <1>5, <2>5 DEF Redeeming, Lapsed, Usable
    <2> QED
        BY <2>1, <2>4, <2>6 DEF SlotInv
<1>12. ASSUME NEW r \in Slots, r # q PROVE SlotInv(r)'
    <2>1. Same(r) /\ SlotInv(r)
        BY <1>5, <1>12 DEF Others, IInv
    <2>2. /\ ask[r].op = "signup" =>
                /\ account'[ask[r].user] = None
                /\ stage[r] = "inserted" => WithEmail(ask[r].email)' = {}
          /\ ask[r].op = "forgot" => reset'[ask[r].token] = None
        BY <1>2, <2>1 DEF SlotInv, Joining, Asking, WithEmail, Same
    <2> QED
        BY <1>2, <1>3, <1>7, <2>1, <2>2, SlotStays
<1>13. ASSUME NEW r \in Slots, r # q PROVE Apart(q, r)' /\ Apart(r, q)'
    <2>1. SlotInv(r) /\ Same(r)
        BY <1>5, <1>13 DEF IInv, Others
    <2>2. /\ ask[r].op = "signup" => ask[r].user \in issued
          /\ ask[r].op = "forgot" => ask[r].token \in issued
        BY <2>1 DEF SlotInv, Joining, Asking
    <2> QED
        BY <1>1, <1>5, <2>1, <2>2 DEF Apart, Same
<1>14. Exclusion'
    <2> SUFFICES ASSUME NEW r \in Slots, NEW s \in Slots, r # s PROVE Apart(r, s)'
        BY DEF Exclusion
    <2>1. CASE r = q \/ s = q
        BY <1>13, <2>1
    <2>2. CASE r # q /\ s # q
        BY <1>5, <2>2, ApartStays DEF IInv, Exclusion, Others
    <2> QED
        BY <2>1, <2>2
<1> QED
    BY <1>8, <1>9, <1>10, <1>11, <1>12, <1>14 DEF IInv

-----------------------------------------------------------------------------
(* The theorems *)

LEMMA InitIInv == ASSUME Init PROVE IInv
<1>1. PICK s \in Starts :
         /\ account = s.registered /\ issued = s.given
         /\ chosen = [u \in Users |-> IF s.registered[u] = None
                                        THEN None ELSE s.registered[u].password]
    BY DEF Init
<1>2. /\ reset = [t \in Tokens |-> None] /\ mail = {} /\ now = 0
      /\ stage = [q \in Slots |-> "idle"] /\ ask = [q \in Slots |-> NoRequest]
      /\ session = [q \in Slots |-> NoSession] /\ timely = [q \in Slots |-> FALSE]
      /\ before = [t \in Tokens |-> {}] /\ overtaken = {}
    BY DEF Init
<1>3. /\ account \in [Users -> Account \cup {None}] /\ issued \subseteq Users \cup Tokens
      /\ \A u, v \in Users : account[u] # None =>
            /\ u \in issued
            /\ account[v] # None /\ account[u].email = account[v].email => u = v
    BY <1>1, AccountsAssumption DEF AccountsAssumption
<1>4. TypeOK
    <2>1. now \in 0..Horizon
        BY <1>2, AccountsAssumption DEF AccountsAssumption
    <2>2. session \in [Slots -> Session]
        BY <1>2 DEF NoSession, Session
    <2>3. \A u \in Users : account[u] # None => account[u].password \in Passwords
        BY <1>3 DEF Account
    <2>4. chosen \in [Users -> Passwords \cup {None}]
        BY <1>1, <2>3
    <2> QED
        BY <1>2, <1>3, <2>1, <2>2, <2>4 DEF TypeOK, Stage
<1>5. RowsInv /\ OneAccountPerEmail
    BY <1>2, <1>3 DEF RowsInv, OneAccountPerEmail
<1>6. ChosenPasswordOpens
    BY <1>1 DEF ChosenPasswordOpens
<1>7. Exclusion
    BY <1>2 DEF Exclusion, Apart, NoRequest
<1>8. ASSUME NEW q \in Slots PROVE SlotInv(q)
    <2>1. stage[q] = "idle" /\ ask[q] = NoRequest /\ ask[q].op = "none"
        BY <1>2 DEF NoRequest
    <2> QED
        BY <2>1 DEF SlotInv, Shape, Joining, Entering, Asking, Redeeming
<1> QED
    BY <1>4, <1>5, <1>6, <1>7, <1>8 DEF IInv

LEMMA StutterInv == ASSUME IInv, UNCHANGED vars PROVE IInv'
<1>1. TypeOK' /\ RowsInv' /\ OneAccountPerEmail' /\ ChosenPasswordOpens' /\ Exclusion'
    BY DEF IInv, vars, TypeOK, RowsInv, OneAccountPerEmail, ChosenPasswordOpens,
        Exclusion, Apart
<1>2. ASSUME NEW q \in Slots PROVE SlotInv(q)'
    <2>1. SlotInv(q)
        BY DEF IInv
    <2> QED
        BY <2>1 DEF vars, SlotInv, Shape, Joining, Entering, Asking, Redeeming, WithEmail,
            Lapsed, Usable
<1> QED
    BY <1>1, <1>2 DEF IInv

LEMMA NextIInv == ASSUME IInv, [Next]_vars PROVE IInv'
<1>1. ASSUME NEW q \in Slots, Proceed(q) PROVE IInv'
    <2>1. CASE EmailExists(q)
        BY <2>1, EmailExistsInv
    <2>2. CASE InsertUser(q)
        BY <2>2, InsertUserInv
    <2>3. CASE CommitSignup(q)
        BY <2>3, CommitSignupInv
    <2>4. CASE Authenticate(q)
        BY <2>4, AuthenticateInv
    <2>5. CASE CommitLogin(q)
        BY <2>5, CommitLoginInv
    <2>6. CASE FindUser(q)
        BY <2>6, FindUserInv
    <2>7. CASE InvalidateOutstanding(q)
        BY <2>7, InvalidateOutstandingInv
    <2>8. CASE SendEmail(q)
        BY <2>8, SendEmailInv
    <2>9. CASE CommitForgot(q)
        BY <2>9, CommitForgotInv
    <2>10. CASE GetToken(q)
        BY <2>10, GetTokenInv
    <2>11. CASE UpdateUser(q)
        BY <2>11, FlushInv DEF UpdateUser
    <2>12. CASE MarkUsed(q)
        BY <2>12, FlushInv DEF MarkUsed
    <2>13. CASE CommitReset(q)
        BY <2>13, CommitResetInv
    <2> QED
        BY <1>1, <2>1, <2>2, <2>3, <2>4, <2>5, <2>6, <2>7, <2>8, <2>9, <2>10, <2>11,
           <2>12, <2>13 DEF Proceed
<1>2. ASSUME NEW q \in Slots, Arrive(q) PROVE IInv'
    BY <1>2, ArriveInv
<1>3. ASSUME NEW q \in Slots, Abandon(q) PROVE IInv'
    BY <1>3, RefuseInv DEF Abandon
<1>4. CASE Tick
    BY <1>4, TickInv
<1>5. CASE UNCHANGED vars
    BY <1>5, StutterInv
<1> QED
    BY <1>1, <1>2, <1>3, <1>4, <1>5 DEF Next

LEMMA InductiveInvariant == Spec => []IInv
<1>1. Init => IInv
    BY InitIInv
<1>2. IInv /\ [Next]_vars => IInv'
    BY NextIInv
<1> QED
    BY <1>1, <1>2, PTL DEF Spec

\* Every row, request and token keeps its type, however requests interleave.
THEOREM TypeCorrect == Spec => []TypeOK
<1>1. IInv => TypeOK
    BY DEF IInv
<1> QED
    BY <1>1, InductiveInvariant, PTL

\* AuthService.signup looks for the address and inserts it in two steps; the
\* unique index on users.email makes up for what happens between them.
THEOREM EmailsAreUnique == Spec => []OneAccountPerEmail
<1>1. IInv => OneAccountPerEmail
    BY DEF IInv
<1> QED
    BY <1>1, InductiveInvariant, PTL

\* is_usable, looked at once and without a lock, is enough: a link that is used,
\* voided or expired when a reset arrives takes it no further.
THEOREM LapsedLinkRedeemsNothing == Spec => []NoLateRedemption
<1>1. ASSUME IInv PROVE NoLateRedemption
    <2> SUFFICES ASSUME NEW q \in Slots, stage[q] \in {"checked", "updated", "burned"}
                 PROVE  timely[q]
        BY DEF NoLateRedemption
    <2>1. SlotInv(q)
        BY <1>1 DEF IInv
    <2>2. ask[q].op = "reset"
        BY <2>1 DEF SlotInv, Shape, StagesOf, Request
    <2> QED
        BY <2>1, <2>2 DEF SlotInv, Redeeming
<1> QED
    BY <1>1, InductiveInvariant, PTL

\* invalidate_outstanding, although it waits for other transactions after it has
\* chosen its rows, voids every link of the account that was there before.
THEOREM OlderLinksAreVoid == Spec => []NewestLinkOnly
<1>1. IInv => NewestLinkOnly
    BY DEF IInv, RowsInv, NewestLinkOnly, Usable
<1> QED
    BY <1>1, InductiveInvariant, PTL

\* No interleaving of signups, logins that upgrade a hash, and resets leaves an
\* account with another password than the one chosen last, but the one named.
THEOREM LastChosenPasswordOpens == Spec => []ChosenPasswordOpens
<1>1. IInv => ChosenPasswordOpens
    BY DEF IInv
<1> QED
    BY <1>1, InductiveInvariant, PTL

=============================================================================
