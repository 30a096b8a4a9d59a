------------------------- MODULE ShareAccessProofs -------------------------
(***************************************************************************)
(* Proofs about ShareAccess, for any documents, users, links and guests, any *)
(* number of requests at a time, any lifetimes and any bounds.               *)
(***************************************************************************)
EXTENDS ShareAccess, TLAPS

-----------------------------------------------------------------------------
(* The inductive invariant: what is true of the request in one slot *)

Past(q) == stage[q] \in {"known", "allowed", "found", "flushed", "unlinked"}

Allowed(q) == stage[q] \in {"allowed", "found", "flushed", "unlinked"}

\* A guest asks with the token he holds; what a request inserts is not there yet.
Shape(q) ==
    LET a == ask[q] IN
    IF stage[q] = "idle" THEN a = NoRequest
    ELSE /\ a \in Request
         /\ a.op = "join" =>
               /\ a.actor \in Guests \cap used /\ a.share \in Shares \cap used
               /\ token[a.actor] = 0
               /\ stage[q] \in {"arrived", "known", "flushed"}
               /\ stage[q] = "flushed" => draft[q].expires > 0
         /\ a.op # "join" =>
               /\ a.doc \in Docs
               /\ a.actor \in Guests => token[a.actor] > 0
         /\ a.op = "share" =>
               /\ a.actor \in Users /\ a.share \in Shares \cap used
               /\ share[a.share] = NoShare
               /\ stage[q] = "flushed" => draft[q].grants \in Grants
         /\ a.op = "revoke" => a.share \in Shares \cap used
         /\ stage[q] = "found" => a.op = "revoke"
         /\ stage[q] = "flushed" => a.op \notin {"read", "file"}
         /\ stage[q] = "unlinked" => a.op = "delete"

\* A guest's principal is what his link grants, as long as its document is there.
Faithful(q) ==
    LET a == ask[q] p == principal[q] IN
    Past(q) /\ a.op # "join" /\ a.actor \in Guests /\ p.scope \in docs =>
        /\ guest[a.actor] # None
        /\ share[guest[a.actor]].doc = p.scope
        /\ share[guest[a.actor]].grants = p.permissions

Entitled(q) ==
    LET a == ask[q] IN
    Allowed(q) /\ a.op # "join" =>
        \/ a.actor \in Users /\ Owner[a.doc] = a.actor
        \/ a.actor \in Guests /\ principal[q].scope = a.doc
             /\ Needs(a.op) \in principal[q].permissions

\* What has been flushed is there, and stays there until it is committed.
Held(q) ==
    LET a == ask[q] IN
    /\ stage[q] = "flushed" =>
          /\ a.op \in {"comment", "share"} => a.doc \in docs
          /\ a.op \in {"join", "revoke"} => share[a.share] # NoShare
    /\ a.op = "revoke" /\ stage[q] \in {"found", "flushed"} =>
          share[a.share] = NoShare \/ share[a.share].doc = a.doc
    /\ stage[q] = "unlinked" => a.doc \notin blobs \/ a.doc \in orphans

\* What was not due an answer when it arrived will not become so.
Prompt(q) ==
    /\ stage[q] = "arrived" /\ Due(ask[q]) => timely[q]
    /\ stage[q] = "known" /\ ask[q].op # "join" /\ ask[q].doc \in docs => timely[q]
    /\ LetThrough(q) => timely[q]

SlotInv(q) == Shape(q) /\ Faithful(q) /\ Entitled(q) /\ Held(q) /\ Prompt(q)

-----------------------------------------------------------------------------
(* The inductive invariant: of two requests, and of the rows *)

\* The share of a request has been committed once.
Relies(q) ==
    \/ ask[q].op = "join"
    \/ ask[q].op = "revoke" /\ stage[q] \in {"found", "flushed"}

\* Ids are issued once, and whoever deletes a document is alone on it.
Apart(q, r) ==
    /\ ask[r].op = "share" /\ (ask[q].op = "share" \/ Relies(q)) =>
          ask[q].share # ask[r].share
    /\ ask[q].op = "join" /\ ask[r].op = "join" => ask[q].actor # ask[r].actor
    /\ stage[q] \in Writing /\ stage[r] \in Writing /\ ask[q].op = "delete" =>
          Touches(r) # ask[q].doc

Exclusion == \A q, r \in Slots : q # r => Apart(q, r)

RowsInv ==
    /\ \A s \in Shares : s \notin used => share[s] = NoShare
    /\ \A g \in Guests : g \notin used => token[g] = 0
    /\ \A g \in Guests : token[g] = 0 => guest[g] = None
    /\ blobs \subseteq docs \cup orphans

IInv ==
    /\ TypeOK
    /\ RowsInv
    /\ NothingOutlivesDocument
    /\ EffectsWithinGrants
    /\ Exclusion
    /\ \A q \in Slots : SlotInv(q)

-----------------------------------------------------------------------------
(* Steps: whom they leave alone, and what they may do to the rows *)

Same(r) ==
    /\ stage'[r] = stage[r] /\ ask'[r] = ask[r] /\ principal'[r] = principal[r]
    /\ draft'[r] = draft[r] /\ timely'[r] = timely[r]

Others(q) == \A r \in Slots : r # q => Same(r)

SameRows == UNCHANGED <<database, outside, now, used>>

\* A share that is there may be revoked or deleted, and nothing else.
Elder(s) ==
    \/ share'[s] \in {share[s], NoShare}
    \/ share[s] # NoShare /\ share'[s] = [share[s] EXCEPT !.revoked = TRUE]

\* What the others rely on goes in one direction only.
Aging ==
    /\ used \subseteq used' /\ docs' \subseteq docs
    /\ blobs' \subseteq blobs /\ orphans \subseteq orphans'
    /\ now \in Nat /\ now' \in Nat /\ now <= now'

LEMMA ConstantsApart ==
    /\ None \notin Docs /\ None \notin Users /\ None \notin Shares /\ None \notin Guests
    /\ \A x \in Guests : x \notin Users
    /\ Owner \in [Docs -> Users]
BY AccessAssumption DEF AccessAssumption

\* Revoked or deleted, a share is not active again, nor another than it was.
LEMMA ElderShare ==
    ASSUME TypeOK, NEW s \in Shares, Elder(s), now' \in Nat, now <= now'
    PROVE  /\ Active(s)' => Active(s)
           /\ share[s] = NoShare => share'[s] = NoShare
           /\ share'[s] # NoShare =>
                 share'[s].doc = share[s].doc /\ share'[s].grants = share[s].grants
<1>1. share[s] \in ShareRow \cup {NoShare}
    BY DEF TypeOK
<1>3. share[s] = NoShare => share'[s] = NoShare
    BY DEF Elder
<1>4. CASE share'[s] = NoShare
    BY <1>3, <1>4 DEF Active
<1>5. CASE share'[s] # NoShare
    <2>1. share[s] \in ShareRow
        BY <1>1, <1>3, <1>5
    <2>2. share'[s] = share[s] \/ share'[s] = [share[s] EXCEPT !.revoked = TRUE]
        BY <1>5 DEF Elder
    <2>3. /\ share'[s].doc = share[s].doc /\ share'[s].grants = share[s].grants
          /\ share'[s].expires = share[s].expires
          /\ share[s].revoked => share'[s].revoked
        BY <2>1, <2>2 DEF ShareRow
    <2>4. share[s].expires \in Nat /\ now \in Nat
        BY <2>1 DEF ShareRow, TypeOK
    <2>5. Active(s)' => Active(s)
        BY <1>3, <2>3, <2>4 DEF Active
    <2> QED
        BY <1>3, <2>3, <2>5
<1> QED
    BY <1>4, <1>5

\* A request that ends leaves a free slot, of which everything is true.
LEMMA EndSlot ==
    ASSUME TypeOK, NEW q \in Slots, End(q)
    PROVE  /\ Others(q)
           /\ SlotInv(q)'
           /\ \A r \in Slots : r # q => Apart(q, r)' /\ Apart(r, q)'
           /\ stage' \in [Slots -> Stage]
           /\ ask' \in [Slots -> Request \cup {NoRequest}]
           /\ principal' \in [Slots -> Principal]
           /\ draft' \in [Slots -> Draft]
           /\ timely' \in [Slots -> BOOLEAN]
<1>1. Others(q)
    BY DEF Others, Same, End, Goto, TypeOK
<1>2. stage'[q] = "idle" /\ ask'[q] = NoRequest
    BY DEF End, Goto, TypeOK
<1>3. ask'[q].op = "none"
    BY <1>2 DEF NoRequest
<1>4. SlotInv(q)'
    <2>1. Shape(q)'
        BY <1>2 DEF Shape
    <2>2. Faithful(q)' /\ Entitled(q)'
        BY <1>2 DEF Faithful, Entitled, Past, Allowed
    <2>3. Held(q)'
        BY <1>2, <1>3 DEF Held
    <2>4. Prompt(q)'
        BY <1>2, <1>3 DEF Prompt, LetThrough
    <2> QED
        BY <2>1, <2>2, <2>3, <2>4 DEF SlotInv
<1>5. ASSUME NEW r \in Slots, r # q PROVE Apart(q, r)' /\ Apart(r, q)'
    BY <1>2, <1>3 DEF Apart, Relies, Writing
<1>6. stage' \in [Slots -> Stage]
    BY DEF End, Goto, TypeOK, Stage
<1>7. ask' \in [Slots -> Request \cup {NoRequest}]
    BY DEF End, TypeOK
<1>8. principal' \in [Slots -> Principal]
    <2>1. Nobody \in Principal
        BY DEF Nobody, Principal
    <2> QED
        BY <2>1 DEF End, TypeOK
<1>9. draft' \in [Slots -> Draft]
    <2>1. NoDraft \in Draft
        BY DEF NoDraft, Draft
    <2> QED
        BY <2>1 DEF End, TypeOK
<1>10. timely' \in [Slots -> BOOLEAN]
    BY DEF End, TypeOK
<1> QED
    BY <1>1, <1>4, <1>5, <1>6, <1>7, <1>8, <1>9, <1>10


\* A request that does not move stays as it should be, whatever else ages.
LEMMA SlotStays ==
    ASSUME TypeOK, Aging, NEW r \in Slots, Same(r), SlotInv(r),
           ask[r].actor \in Guests =>
              /\ token'[ask[r].actor] = token[ask[r].actor]
              /\ guest'[ask[r].actor] \in {guest[ask[r].actor], None}
              /\ guest'[ask[r].actor] # None => Elder(guest[ask[r].actor])
              /\ guest[ask[r].actor] # None /\ share[guest[ask[r].actor]].doc \in docs' =>
                    /\ guest'[ask[r].actor] # None
                    /\ share'[guest[ask[r].actor]] # NoShare,
           ask[r].op = "share" \/ Relies(r) => Elder(ask[r].share),
           stage[r] = "flushed" =>
              /\ ask[r].op \in {"comment", "share"} => ask[r].doc \in docs'
              /\ ask[r].op \in {"join", "revoke"} => share'[ask[r].share] # NoShare
    PROVE  SlotInv(r)'
<1> DEFINE a == ask[r]
<1>1. CASE stage[r] = "idle"
    <2>1. a = NoRequest /\ a.op = "none"
        BY <1>1 DEF SlotInv, Shape, NoRequest
    <2> QED
        BY <1>1, <2>1 DEF Same, SlotInv, Shape, Faithful, Entitled, Held, Prompt, Past,
            Allowed, LetThrough
<1>2. CASE stage[r] # "idle"
    <2>1. a \in Request
        BY <1>2 DEF SlotInv, Shape
    <2>2. a.op = "join" => a.actor \in Guests /\ a.share \in Shares
        BY <1>2 DEF SlotInv, Shape
    <2>3. a.op = "share" => a.actor \in Users /\ a.share \in Shares
        BY <1>2 DEF SlotInv, Shape
    <2>4. a.op = "revoke" => a.share \in Shares
        BY <1>2 DEF SlotInv, Shape
    <2>5. Shape(r)'
        <3>1. a.op = "share" => share'[a.share] = NoShare
            BY <1>2, <2>3, ElderShare DEF SlotInv, Shape, Aging
        <3> QED
            BY <1>2, <3>1 DEF Same, Shape, SlotInv, Aging
    <2>6. Faithful(r)'
        <3> SUFFICES ASSUME Past(r), a.op # "join", a.actor \in Guests,
                            principal[r].scope \in docs'
                     PROVE  /\ guest'[a.actor] # None
                            /\ share'[guest'[a.actor]].doc = principal[r].scope
                            /\ share'[guest'[a.actor]].grants = principal[r].permissions
            BY DEF Same, Faithful, Past
        <3>1. /\ guest[a.actor] # None
              /\ share[guest[a.actor]].doc = principal[r].scope
              /\ share[guest[a.actor]].grants = principal[r].permissions
            BY DEF SlotInv, Faithful, Aging
        <3>2. guest'[a.actor] = guest[a.actor] /\ share'[guest[a.actor]] # NoShare
            BY <3>1
        <3>3. guest[a.actor] \in Shares /\ Elder(guest[a.actor])
            BY <3>1, <3>2 DEF TypeOK
        <3> QED
            BY <3>1, <3>2, <3>3, ElderShare DEF Aging
    <2>7. Entitled(r)'
        BY DEF Same, Entitled, Allowed, SlotInv
    <2>8. Held(r)'
        <3>1. a.op = "revoke" /\ stage[r] \in {"found", "flushed"} =>
                 share'[a.share] = NoShare \/ share'[a.share].doc = a.doc
            <4> SUFFICES ASSUME a.op = "revoke", stage[r] \in {"found", "flushed"},
                                share'[a.share] # NoShare
                         PROVE  share'[a.share].doc = a.doc
                OBVIOUS
            <4>1. Elder(a.share)
                BY DEF Relies
            <4> QED
                BY <2>4, <4>1, ElderShare DEF SlotInv, Held, Aging
        <3>2. stage[r] = "unlinked" => a.doc \notin blobs' \/ a.doc \in orphans'
            BY DEF SlotInv, Held, Aging
        <3> QED
            BY <3>1, <3>2 DEF Same, Held
    <2>9. Prompt(r)'
        <3>1. Due(a)' => Due(a)
            <4>1. CASE a.op = "join"
                <5>1. PICK s \in Shares : s = a.share
                    BY <2>2, <4>1
                <5>2. Elder(s)
                    BY <4>1, <5>1 DEF Relies
                <5>3. Due(a)' <=> Active(s)'
                    BY <4>1, <5>1 DEF Due, Same, Active
                <5>4. Due(a) <=> Active(s)
                    BY <4>1, <5>1 DEF Due
                <5> QED
                    BY <5>2, <5>3, <5>4, ElderShare DEF Aging
            <4>2. CASE a.op # "join"
                <5> SUFFICES ASSUME Due(a)' PROVE Due(a)
                    OBVIOUS
                <5>1. a.doc \in docs
                    BY <4>2 DEF Due, Same, Aging
                <5>2. ASSUME a.actor \in Guests
                      PROVE  guest[a.actor] # None /\ Active(guest[a.actor])
                    <6>1. guest'[a.actor] # None /\ Active(guest[a.actor])'
                        BY <4>2, <5>2 DEF Due, Same
                    <6>2. guest'[a.actor] = guest[a.actor] /\ Elder(guest[a.actor])
                        BY <5>2, <6>1
                    <6>3. PICK s \in Shares : s = guest[a.actor]
                        BY <5>2, <6>1, <6>2 DEF TypeOK
                    <6>4. Active(s)'
                        BY <6>1, <6>2, <6>3 DEF Active, Same
                    <6> QED
                        BY <6>1, <6>2, <6>3, <6>4, ElderShare DEF Aging
                <5> QED
                    BY <4>2, <5>1, <5>2 DEF Due
            <4> QED
                BY <4>1, <4>2
        <3> QED
            BY <3>1 DEF Same, Prompt, SlotInv, LetThrough, Aging
    <2> QED
        BY <2>5, <2>6, <2>7, <2>8, <2>9 DEF SlotInv
<1> QED
    BY <1>1, <1>2

LEMMA ApartStays ==
    ASSUME NEW q \in Slots, NEW r \in Slots, Same(q), Same(r), Apart(q, r),
           stage[r] \in Writing /\ ask[r].op \in {"join", "revoke"} =>
              share'[ask[r].share].doc = share[ask[r].share].doc
    PROVE  Apart(q, r)'
BY DEF Apart, Same, Relies, Touches

-----------------------------------------------------------------------------
(* Steps that change no row *)

LEMMA LocalRest ==
    ASSUME IInv, NEW q \in Slots, SameRows, Others(q)
    PROVE  /\ RowsInv' /\ NothingOutlivesDocument' /\ EffectsWithinGrants'
           /\ \A r \in Slots : r # q => SlotInv(r)'
           /\ \A r, s \in Slots : r # s /\ r # q /\ s # q => Apart(r, s)'
<1> USE DEF SameRows, database, outside
<1>1. RowsInv'
    BY DEF IInv, RowsInv
<1>2. NothingOutlivesDocument'
    BY DEF IInv, NothingOutlivesDocument
<1>3. EffectsWithinGrants'
    BY DEF IInv, EffectsWithinGrants, MayHave
<1>4. ASSUME NEW r \in Slots, r # q PROVE SlotInv(r)'
    <2>1. Same(r) /\ SlotInv(r)
        BY <1>4 DEF Others, IInv
    <2>2. Shape(r)' /\ Faithful(r)' /\ Entitled(r)'
        BY <2>1 DEF Same, SlotInv, Shape, Faithful, Entitled, Past, Allowed
    <2>3. Held(r)' /\ Prompt(r)'
        BY <2>1 DEF Same, SlotInv, Held, Prompt, LetThrough, Due, Active
    <2> QED
        BY <2>2, <2>3 DEF SlotInv
<1>5. ASSUME NEW r \in Slots, NEW s \in Slots, r # s, r # q, s # q PROVE Apart(r, s)'
    BY <1>5, ApartStays DEF Others, IInv, Exclusion
<1> QED
    BY <1>1, <1>2, <1>3, <1>4, <1>5

LEMMA LocalInv ==
    ASSUME IInv, NEW q \in Slots, SameRows, Others(q),
           stage' \in [Slots -> Stage], ask' \in [Slots -> Request \cup {NoRequest}],
           principal' \in [Slots -> Principal], draft' \in [Slots -> Draft],
           timely' \in [Slots -> BOOLEAN],
           SlotInv(q)', \A r \in Slots : r # q => Apart(q, r)' /\ Apart(r, q)'
    PROVE  IInv'
<1>1. TypeOK'
    BY DEF IInv, TypeOK, SameRows, database, outside
<1>2. Exclusion'
    BY LocalRest DEF Exclusion
<1>3. \A r \in Slots : SlotInv(r)'
    BY LocalRest
<1> QED
    BY <1>1, <1>2, <1>3, LocalRest DEF IInv

LEMMA RefuseInv == ASSUME IInv, NEW q \in Slots, Refuse(q) PROVE IInv'
<1>1. TypeOK /\ End(q) /\ SameRows
    BY DEF IInv, Refuse, SameRows
<1> QED
    BY <1>1, EndSlot, LocalInv

\* A request moves on, having learnt whom it serves or what it is to insert.
Moves(q, next) ==
    /\ next \in Stage /\ Goto(q, next)
    /\ SameRows /\ UNCHANGED <<ask, timely>>
    /\ principal' \in [Slots -> Principal] /\ draft' \in [Slots -> Draft]
    /\ \A r \in Slots : r # q => principal'[r] = principal[r] /\ draft'[r] = draft[r]

LEMMA MovesOn ==
    ASSUME IInv, NEW q \in Slots, NEW next, Moves(q, next)
    PROVE  /\ stage'[q] = next
           /\ Others(q)
           /\ stage' \in [Slots -> Stage]
<1>1. stage \in [Slots -> Stage]
    BY DEF IInv, TypeOK
<1>2. stage' = [stage EXCEPT ![q] = next] /\ next \in Stage
    BY DEF Moves, Goto
<1>3. Others(q)
    BY <1>1, <1>2 DEF Moves, Others, Same
<1> QED
    BY <1>1, <1>2, <1>3

\* Only what it relies on, and what it writes, matters to the others.
LEMMA MovesApart ==
    ASSUME IInv, NEW q \in Slots, NEW next, Moves(q, next),
           next = "found" => \A r \in Slots : ask[r].op = "share" =>
                                ask[q].share # ask[r].share,
           next \in Writing => \A r \in Slots : r # q /\ stage[r] \in Writing =>
              /\ ask[q].op = "delete" => Touches(r) # ask[q].doc
              /\ ask[r].op = "delete" => Touches(q) # ask[r].doc,
           next = "flushed" /\ ask[q].op = "revoke" => stage[q] = "found"
    PROVE  \A r \in Slots : r # q => Apart(q, r)' /\ Apart(r, q)'
<1> SUFFICES ASSUME NEW r \in Slots, r # q PROVE Apart(q, r)' /\ Apart(r, q)'
    OBVIOUS
<1>1. Apart(q, r) /\ Apart(r, q)
    BY DEF IInv, Exclusion
<1>2. stage'[q] = next /\ Same(r) /\ ask' = ask
    BY MovesOn DEF Others, Moves
<1>3. Touches(q)' = Touches(q) /\ Touches(r)' = Touches(r)
    BY DEF Touches, Moves, SameRows, database
<1>4. Relies(r)' = Relies(r)
    BY <1>2 DEF Relies, Same
<1>5. ask[r].op = "share" /\ Relies(q)' => ask[q].share # ask[r].share
    BY <1>1, <1>2 DEF Relies, Apart
<1>6. Apart(q, r)'
    BY <1>1, <1>2, <1>3, <1>5 DEF Apart, Same
<1>7. Apart(r, q)'
    BY <1>1, <1>2, <1>3, <1>4, <1>5 DEF Apart, Same
<1> QED
    BY <1>6, <1>7

LEMMA MovesInv ==
    ASSUME IInv, NEW q \in Slots, NEW next, Moves(q, next), SlotInv(q)',
           \A r \in Slots : r # q => Apart(q, r)' /\ Apart(r, q)'
    PROVE  IInv'
<1>1. ask' \in [Slots -> Request \cup {NoRequest}] /\ timely' \in [Slots -> BOOLEAN]
    BY DEF IInv, TypeOK, Moves
<1>2. SameRows /\ principal' \in [Slots -> Principal] /\ draft' \in [Slots -> Draft]
    BY DEF Moves
<1> QED
    BY <1>1, <1>2, MovesOn, LocalInv

\* Everything about a request that is under way.
LEMMA Underway ==
    ASSUME IInv, NEW q \in Slots, stage[q] # "idle"
    PROVE  /\ ask[q] \in Request /\ ask[q].actor \in Users \cup Guests
           /\ ask[q].op # "join" => ask[q].doc \in Docs
           /\ ask[q].op \in {"join", "share", "revoke"} => ask[q].share \in Shares
           /\ SlotInv(q) /\ TypeOK
<1>1. SlotInv(q) /\ TypeOK
    BY DEF IInv
<1>2. ask[q] \in Request
    BY <1>1 DEF SlotInv, Shape
<1>3. /\ ask[q].op # "join" => ask[q].doc \in Docs
      /\ ask[q].op \in {"join", "share", "revoke"} => ask[q].share \in Shares
    BY <1>1 DEF SlotInv, Shape
<1> QED
    BY <1>1, <1>2, <1>3 DEF Request

LEMMA ShareOfGuest ==
    ASSUME TypeOK, NEW g \in Guests, guest[g] # None, share[guest[g]] # NoShare
    PROVE  /\ guest[g] \in Shares /\ share[guest[g]] \in ShareRow
           /\ share[guest[g]].doc \in Docs
           /\ share[guest[g]].grants \in SUBSET Permission
<1>1. guest[g] \in Shares /\ share[guest[g]] \in ShareRow
    BY DEF TypeOK
<1>2. Grants \subseteq SUBSET Permission
    BY AccessAssumption DEF AccessAssumption
<1> QED
    BY <1>1, <1>2 DEF ShareRow

LEMMA ResolveMoves ==
    ASSUME IInv, NEW q \in Slots, ResolvePrincipal(q)
    PROVE  Refuse(q) \/ (Moves(q, "known") /\ SlotInv(q)')
<1>1. stage[q] = "arrived" /\ ask[q].op # "join"
    BY DEF ResolvePrincipal
<1>2. ask[q].actor \in Users \cup Guests /\ SlotInv(q) /\ TypeOK /\ ask[q].doc \in Docs
    BY <1>1, Underway
<1>3. CASE ask[q].actor \in Users /\ ~Refuse(q)
    <2>1. /\ principal' = [principal EXCEPT ![q] =
                              [scope |-> None, permissions |-> Permission]]
          /\ Goto(q, "known") /\ SameRows /\ UNCHANGED <<ask, draft, timely>>
        BY <1>3, ConstantsApart DEF ResolvePrincipal, SameRows
    <2>2. [scope |-> None, permissions |-> Permission] \in Principal
        BY DEF Principal
    <2>3. Moves(q, "known")
        BY <1>2, <2>1, <2>2 DEF Moves, TypeOK, Stage
    <2>4. stage'[q] = "known" /\ ask'[q] = ask[q] /\ timely'[q] = timely[q]
        BY <2>1, <2>3, MovesOn
    <2>5. ask[q].actor \notin Guests
        BY <1>3, ConstantsApart
    <2>6. Shape(q)'
        BY <1>1, <1>2, <2>1, <2>4, <2>5 DEF SlotInv, Shape, SameRows, outside, database
    <2>7. Faithful(q)' /\ Entitled(q)' /\ Held(q)'
        BY <1>1, <2>4, <2>5 DEF Faithful, Entitled, Held, Allowed
    <2>8. Prompt(q)'
        BY <1>1, <1>2, <2>1, <2>4, <2>5 DEF Prompt, SlotInv, LetThrough, Due, SameRows, database
    <2> QED
        BY <2>3, <2>6, <2>7, <2>8 DEF SlotInv
<1>4. CASE ask[q].actor \in Guests /\ ~Refuse(q)
    <2> DEFINE g == ask[q].actor
    <2>1. /\ Admissible(g)
          /\ principal' = [principal EXCEPT ![q] =
                              [scope |-> share[guest[g]].doc,
                               permissions |-> share[guest[g]].grants]]
          /\ Goto(q, "known") /\ SameRows /\ UNCHANGED <<ask, draft, timely>>
        BY <1>4, ConstantsApart DEF ResolvePrincipal, SameRows
    <2>2. guest[g] # None /\ Active(guest[g]) /\ share[guest[g]] # NoShare
        BY <2>1 DEF Admissible, Active
    <2>3. [scope |-> share[guest[g]].doc, permissions |-> share[guest[g]].grants] \in Principal
        BY <1>2, <1>4, <2>2, ShareOfGuest DEF Principal
    <2>4. Moves(q, "known")
        BY <1>2, <2>1, <2>3 DEF Moves, TypeOK, Stage
    <2>5. /\ stage'[q] = "known" /\ ask'[q] = ask[q] /\ timely'[q] = timely[q]
          /\ principal'[q] = [scope |-> share[guest[g]].doc,
                              permissions |-> share[guest[g]].grants]
        BY <1>2, <2>1, <2>4, MovesOn DEF TypeOK
    <2>6. Shape(q)'
        BY <1>1, <1>2, <2>1, <2>5 DEF SlotInv, Shape, SameRows, outside, database
    <2>7. Faithful(q)'
        BY <2>1, <2>2, <2>5 DEF Faithful, SameRows, database
    <2>8. Entitled(q)' /\ Held(q)'
        BY <1>1, <2>5 DEF Entitled, Held, Allowed
    <2>9. Prompt(q)'
        <3>1. ask[q].doc \in docs => Due(ask[q])
            BY <1>1, <2>2 DEF Due
        <3> QED
            BY <1>1, <1>2, <2>1, <2>5, <3>1 DEF Prompt, SlotInv, LetThrough, SameRows, database
    <2> QED
        BY <2>4, <2>6, <2>7, <2>8, <2>9 DEF SlotInv
<1> QED
    BY <1>2, <1>3, <1>4

LEMMA AuthorizeMoves ==
    ASSUME IInv, NEW q \in Slots, AuthorizeDocument(q)
    PROVE  Refuse(q) \/ (Moves(q, "allowed") /\ SlotInv(q)')
<1> SUFFICES ASSUME ~Refuse(q) PROVE Moves(q, "allowed") /\ SlotInv(q)'
    OBVIOUS
<1>1. /\ stage[q] = "known" /\ ask[q].op # "join"
      /\ ask[q].doc \in docs /\ Needs(ask[q].op) \in Effective(q)
      /\ Goto(q, "allowed") /\ SameRows /\ UNCHANGED <<ask, principal, draft, timely>>
    BY DEF AuthorizeDocument, SameRows, request
<1>2. ask[q].actor \in Users \cup Guests /\ SlotInv(q) /\ TypeOK /\ ask[q].doc \in Docs
    BY <1>1, Underway
<1>3. Moves(q, "allowed")
    BY <1>1, <1>2 DEF Moves, TypeOK, Stage
<1>4. stage'[q] = "allowed" /\ ask'[q] = ask[q] /\ timely'[q] = timely[q]
    BY <1>1, <1>3, MovesOn
<1>5. Shape(q)'
    BY <1>1, <1>2, <1>4 DEF SlotInv, Shape, SameRows, outside, database
<1>6. Faithful(q)'
    BY <1>1, <1>2, <1>4 DEF Faithful, SlotInv, SameRows, database, Past
<1>7. Entitled(q)'
    <2>1. CASE ask[q].actor \in Users
        BY <1>1, <1>4, <2>1 DEF Entitled, Effective
    <2>2. CASE ask[q].actor \in Guests
        BY <1>1, <1>4, <2>2, ConstantsApart DEF Entitled, Effective
    <2> QED
        BY <1>2, <2>1, <2>2
<1>8. Held(q)' /\ Prompt(q)'
    BY <1>1, <1>2, <1>4 DEF Held, Prompt, SlotInv, LetThrough
<1> QED
    BY <1>3, <1>5, <1>6, <1>7, <1>8 DEF SlotInv

\* Behind require_document, a handler keeps the principal it was given.
LEMMA HandlerMoves ==
    ASSUME IInv, NEW q \in Slots, NEW next \in {"found", "flushed"}, Moves(q, next),
           stage[q] \in {"allowed", "found"}, principal' = principal,
           Shape(q)', Held(q)'
    PROVE  SlotInv(q)'
<1>1. stage'[q] = next /\ ask' = ask /\ timely' = timely /\ SameRows
    BY MovesOn DEF Moves
<1>2. SlotInv(q)
    BY DEF IInv
<1>3. ask[q].op # "join"
    BY <1>2 DEF SlotInv, Shape
<1>4. Faithful(q)'
    BY <1>1, <1>2 DEF SlotInv, Faithful, Past, SameRows, database
<1>5. Entitled(q)'
    BY <1>1, <1>2 DEF SlotInv, Entitled, Allowed
<1>6. Prompt(q)'
    BY <1>1, <1>2, <1>3 DEF SlotInv, Prompt, LetThrough
<1> QED
    BY <1>4, <1>5, <1>6 DEF SlotInv

LEMMA Unlocked ==
    ASSUME NEW q \in Slots, ~Deleting(Touches(q)), NEW r \in Slots,
           stage[r] \in Writing, ask[r].op = "delete"
    PROVE  Touches(q) # ask[r].doc
BY DEF Deleting, Writers, Touches

LEMMA InsertCommentInv == ASSUME IInv, NEW q \in Slots, InsertComment(q) PROVE IInv'
<1>1. CASE Refuse(q)
    BY <1>1, RefuseInv
<1>2. CASE ~Refuse(q)
    <2>1. /\ stage[q] = "allowed" /\ ask[q].op = "comment"
          /\ ~Deleting(ask[q].doc) /\ ask[q].doc \in docs
          /\ Goto(q, "flushed") /\ SameRows /\ UNCHANGED <<ask, principal, draft, timely>>
        BY <1>2 DEF InsertComment, SameRows, request
    <2>2. SlotInv(q) /\ TypeOK
        BY DEF IInv
    <2>3. Moves(q, "flushed")
        BY <2>1, <2>2 DEF Moves, TypeOK, Stage
    <2>4. stage'[q] = "flushed"
        BY <2>3, MovesOn
    <2>5. Shape(q)' /\ Held(q)'
        BY <2>1, <2>2, <2>4 DEF SlotInv, Shape, Held, SameRows, outside, database
    <2>6. ~Deleting(Touches(q))
        BY <2>1 DEF Touches
    <2>7. SlotInv(q)'
        BY <2>1, <2>3, <2>5, HandlerMoves
    <2> QED
        BY <2>1, <2>3, <2>6, <2>7, Unlocked, MovesApart, MovesInv
<1> QED
    BY <1>1, <1>2

LEMMA InsertShareInv == ASSUME IInv, NEW q \in Slots, InsertShare(q) PROVE IInv'
<1>1. CASE Refuse(q)
    BY <1>1, RefuseInv
<1>2. CASE ~Refuse(q)
    <2>1. PICK grants \in Grants, until \in {Never} \cup {After(h) : h \in Lifetimes} :
             /\ draft' = [draft EXCEPT ![q] = [grants |-> grants, expires |-> until]]
             /\ stage[q] = "allowed" /\ ask[q].op = "share"
             /\ ~Deleting(ask[q].doc) /\ ask[q].doc \in docs
             /\ Goto(q, "flushed") /\ SameRows /\ UNCHANGED <<ask, principal, timely>>
        BY <1>2 DEF InsertShare, SameRows
    <2>2. SlotInv(q) /\ TypeOK
        BY DEF IInv
    <2>3. until \in Nat
        BY <2>2, AccessAssumption DEF AccessAssumption, After, Never, TypeOK
    <2>4. [grants |-> grants, expires |-> until] \in Draft
        BY <2>3 DEF Draft
    <2>5. Moves(q, "flushed")
        BY <2>1, <2>2, <2>4 DEF Moves, TypeOK, Stage
    <2>6. stage'[q] = "flushed" /\ draft'[q].grants \in Grants
        BY <2>1, <2>2, <2>5, MovesOn DEF TypeOK
    <2>7. Shape(q)' /\ Held(q)'
        BY <2>1, <2>2, <2>6 DEF SlotInv, Shape, Held, SameRows, outside, database
    <2>8. ~Deleting(Touches(q))
        BY <2>1 DEF Touches
    <2>9. SlotInv(q)'
        BY <2>1, <2>5, <2>7, HandlerMoves
    <2> QED
        BY <2>1, <2>5, <2>8, <2>9, Unlocked, MovesApart, MovesInv
<1> QED
    BY <1>1, <1>2

LEMMA FindShareInv == ASSUME IInv, NEW q \in Slots, FindShare(q) PROVE IInv'
<1>1. CASE Refuse(q)
    BY <1>1, RefuseInv
<1>2. CASE ~Refuse(q)
    <2>1. /\ stage[q] = "allowed" /\ ask[q].op = "revoke"
          /\ share[ask[q].share].doc = ask[q].doc
          /\ Goto(q, "found") /\ SameRows /\ UNCHANGED <<ask, principal, draft, timely>>
        BY <1>2 DEF FindShare, SameRows, request
    <2>2. SlotInv(q) /\ TypeOK /\ ask[q].doc \in Docs /\ ask[q].share \in Shares
        BY <2>1, Underway
    <2>3. Moves(q, "found")
        BY <2>1, <2>2 DEF Moves, TypeOK, Stage
    <2>4. stage'[q] = "found"
        BY <2>3, MovesOn
    <2>5. Shape(q)' /\ Held(q)'
        BY <2>1, <2>2, <2>4 DEF SlotInv, Shape, Held, SameRows, outside, database
    <2>6. SlotInv(q)'
        BY <2>1, <2>3, <2>5, HandlerMoves
    <2>7. share[ask[q].share] # NoShare
        BY <2>1, <2>2, ConstantsApart DEF NoShare
    <2>8. ASSUME NEW r \in Slots, ask[r].op = "share" PROVE ask[q].share # ask[r].share
        <3>1. SlotInv(r)
            BY DEF IInv
        <3>2. stage[r] # "idle"
            BY <2>8, <3>1 DEF SlotInv, Shape, NoRequest
        <3> QED
            BY <2>7, <2>8, <3>1, <3>2 DEF SlotInv, Shape
    <2> QED
        BY <2>3, <2>6, <2>8, MovesApart, MovesInv DEF Writing
<1> QED
    BY <1>1, <1>2

LEMMA RevokeShareInv == ASSUME IInv, NEW q \in Slots, RevokeShare(q) PROVE IInv'
<1>1. CASE Refuse(q)
    BY <1>1, RefuseInv
<1>2. CASE ~Refuse(q)
    <2>1. /\ stage[q] = "found" /\ share[ask[q].share] # NoShare
          /\ ~Deleting(ask[q].doc)
          /\ Goto(q, "flushed") /\ SameRows /\ UNCHANGED <<ask, principal, draft, timely>>
        BY <1>2 DEF RevokeShare, SameRows, request
    <2>2. SlotInv(q) /\ TypeOK
        BY DEF IInv
    <2>3. ask[q].op = "revoke" /\ share[ask[q].share].doc = ask[q].doc
        BY <2>1, <2>2 DEF SlotInv, Shape, Held
    <2>4. Moves(q, "flushed")
        BY <2>1, <2>2 DEF Moves, TypeOK, Stage
    <2>5. stage'[q] = "flushed"
        BY <2>4, MovesOn
    <2>6. Shape(q)' /\ Held(q)'
        BY <2>1, <2>2, <2>3, <2>5 DEF SlotInv, Shape, Held, SameRows, outside, database
    <2>7. SlotInv(q)'
        BY <2>1, <2>4, <2>6, HandlerMoves
    <2>8. ~Deleting(Touches(q))
        BY <2>1, <2>3 DEF Touches
    <2> QED
        BY <2>1, <2>3, <2>4, <2>7, <2>8, Unlocked, MovesApart, MovesInv
<1> QED
    BY <1>1, <1>2

LEMMA DeleteDocumentInv == ASSUME IInv, NEW q \in Slots, DeleteDocument(q) PROVE IInv'
<1>1. /\ stage[q] = "allowed" /\ ask[q].op = "delete" /\ Writers(ask[q].doc) = {}
      /\ Goto(q, "flushed") /\ SameRows /\ UNCHANGED <<ask, principal, draft, timely>>
    BY DEF DeleteDocument, SameRows, request
<1>2. SlotInv(q) /\ TypeOK
    BY DEF IInv
<1>3. Moves(q, "flushed")
    BY <1>1, <1>2 DEF Moves, TypeOK, Stage
<1>4. stage'[q] = "flushed"
    BY <1>3, MovesOn
<1>5. Shape(q)' /\ Held(q)'
    BY <1>1, <1>2, <1>4 DEF SlotInv, Shape, Held, SameRows, outside, database
<1>6. SlotInv(q)'
    BY <1>1, <1>3, <1>5, HandlerMoves
<1>7. Touches(q) = ask[q].doc
    BY <1>1 DEF Touches
<1>8. ASSUME NEW r \in Slots, stage[r] \in Writing PROVE Touches(r) # ask[q].doc
    BY <1>1, <1>8 DEF Writers
<1>9. ASSUME NEW r \in Slots, stage[r] \in Writing, ask[r].op = "delete"
      PROVE  Touches(q) # ask[r].doc
    BY <1>7, <1>8, <1>9 DEF Touches
<1> QED
    BY <1>1, <1>3, <1>6, <1>8, <1>9, MovesApart, MovesInv

\* A visitor has no principal: what he relies on is the link itself.
LEMMA VisitorMoves ==
    ASSUME IInv, NEW q \in Slots, NEW next \in {"known", "flushed"}, Moves(q, next),
           ask[q].op = "join", Shape(q)', Held(q)', timely[q]
    PROVE  SlotInv(q)'
<1>1. stage'[q] = next /\ ask' = ask /\ timely' = timely
    BY MovesOn DEF Moves
<1>2. Faithful(q)' /\ Entitled(q)'
    BY <1>1 DEF Faithful, Entitled
<1>3. Prompt(q)'
    BY <1>1 DEF Prompt
<1> QED
    BY <1>2, <1>3 DEF SlotInv

LEMMA ResolveActiveShareInv ==
    ASSUME IInv, NEW q \in Slots, ResolveActiveShare(q) PROVE IInv'
<1>1. CASE Refuse(q)
    BY <1>1, RefuseInv
<1>2. CASE ~Refuse(q)
    <2>1. /\ stage[q] = "arrived" /\ ask[q].op = "join" /\ Active(ask[q].share)
          /\ Goto(q, "known") /\ SameRows /\ UNCHANGED <<ask, principal, draft, timely>>
        BY <1>2 DEF ResolveActiveShare, SameRows, request
    <2>2. SlotInv(q) /\ TypeOK
        BY DEF IInv
    <2>3. Moves(q, "known")
        BY <2>1, <2>2 DEF Moves, TypeOK, Stage
    <2>4. stage'[q] = "known"
        BY <2>3, MovesOn
    <2>5. Shape(q)' /\ Held(q)'
        BY <2>1, <2>2, <2>4 DEF SlotInv, Shape, Held, SameRows, outside, database
    <2>6. timely[q]
        BY <2>1, <2>2 DEF SlotInv, Prompt, Due
    <2>7. SlotInv(q)'
        BY <2>1, <2>3, <2>5, <2>6, VisitorMoves
    <2> QED
        BY <2>3, <2>7, MovesApart, MovesInv DEF Writing
<1> QED
    BY <1>1, <1>2

LEMMA InsertGuestInv == ASSUME IInv, NEW q \in Slots, InsertGuest(q) PROVE IInv'
<1>1. CASE Refuse(q)
    BY <1>1, RefuseInv
<1>2. CASE ~Refuse(q)
    <2>1. /\ stage[q] = "known" /\ ask[q].op = "join"
          /\ share[ask[q].share] # NoShare /\ ~Deleting(share[ask[q].share].doc)
          /\ draft' = [draft EXCEPT ![q].expires = After(GuestTTL)]
          /\ Goto(q, "flushed") /\ SameRows /\ UNCHANGED <<ask, principal, timely>>
        BY <1>2 DEF InsertGuest, SameRows
    <2>2. SlotInv(q) /\ TypeOK
        BY DEF IInv
    <2>3. After(GuestTTL) \in Nat /\ After(GuestTTL) > 0
        BY <2>2, AccessAssumption DEF AccessAssumption, After, Never, TypeOK
    <2>4. draft' \in [Slots -> Draft] /\ draft'[q].expires > 0
        <3>1. draft[q] \in Draft
            BY <2>2 DEF TypeOK
        <3>2. [draft[q] EXCEPT !.expires = After(GuestTTL)] \in Draft
            BY <2>3, <3>1 DEF Draft
        <3> QED
            BY <2>1, <2>2, <2>3, <3>1, <3>2 DEF TypeOK, Draft
    <2>5. Moves(q, "flushed")
        BY <2>1, <2>2, <2>4 DEF Moves, TypeOK, Stage
    <2>6. stage'[q] = "flushed"
        BY <2>5, MovesOn
    <2>7. Shape(q)' /\ Held(q)'
        BY <2>1, <2>2, <2>4, <2>6 DEF SlotInv, Shape, Held, SameRows, outside, database
    <2>8. timely[q]
        BY <2>1, <2>2 DEF SlotInv, Prompt, LetThrough
    <2>9. SlotInv(q)'
        BY <2>1, <2>5, <2>7, <2>8, VisitorMoves
    <2>10. ~Deleting(Touches(q))
        BY <2>1 DEF Touches
    <2> QED
        BY <2>1, <2>5, <2>9, <2>10, Unlocked, MovesApart, MovesInv
<1> QED
    BY <1>1, <1>2

LEMMA ResolvePrincipalInv ==
    ASSUME IInv, NEW q \in Slots, ResolvePrincipal(q) PROVE IInv'
<1>1. CASE Refuse(q)
    BY <1>1, RefuseInv
<1>2. CASE Moves(q, "known") /\ SlotInv(q)'
    BY <1>2, MovesApart, MovesInv DEF Writing
<1> QED
    BY <1>1, <1>2, ResolveMoves

LEMMA AuthorizeDocumentInv ==
    ASSUME IInv, NEW q \in Slots, AuthorizeDocument(q) PROVE IInv'
<1>1. CASE Refuse(q)
    BY <1>1, RefuseInv
<1>2. CASE Moves(q, "allowed") /\ SlotInv(q)'
    BY <1>2, MovesApart, MovesInv DEF Writing
<1> QED
    BY <1>1, <1>2, AuthorizeMoves

-----------------------------------------------------------------------------
(* Steps that change a row *)

\* What remains to be shown of a request that ends.
LEMMA EndingInv ==
    ASSUME IInv, NEW q \in Slots, End(q), Aging, now' \in 0..Horizon,
           docs' \subseteq Docs, blobs' \subseteq Docs, orphans' \subseteq Docs,
           share' \in [Shares -> ShareRow \cup {NoShare}],
           guest' \in [Guests -> Shares \cup {None}],
           comments' \subseteq [author : Users \cup Guests, doc : Docs],
           token' \in [Guests -> Nat], links' \subseteq Link,
           used' \subseteq Shares \cup Guests,
           RowsInv', NothingOutlivesDocument', EffectsWithinGrants',
           \A r \in Slots : r # q => SlotInv(r)',
           \A r \in Slots : r # q /\ stage[r] \in Writing /\ ask[r].op \in {"join", "revoke"} =>
              share'[ask[r].share].doc = share[ask[r].share].doc
    PROVE  IInv'
<1>1. TypeOK
    BY DEF IInv
<1>2. Others(q) /\ SlotInv(q)'
    BY <1>1, EndSlot
<1>3. TypeOK'
    BY <1>1, EndSlot DEF TypeOK
<1>4. ASSUME NEW r \in Slots, NEW s \in Slots, r # s PROVE Apart(r, s)'
    <2>1. CASE r = q \/ s = q
        BY <1>1, <1>4, <2>1, EndSlot
    <2>2. CASE r # q /\ s # q
        <3>1. Apart(r, s) /\ Same(r) /\ Same(s)
            BY <1>2, <1>4, <2>2 DEF IInv, Exclusion, Others
        <3> QED
            BY <2>2, <3>1, ApartStays
    <2> QED
        BY <2>1, <2>2
<1>5. Exclusion'
    BY <1>4 DEF Exclusion
<1>6. \A r \in Slots : SlotInv(r)'
    BY <1>2
<1> QED
    BY <1>3, <1>5, <1>6 DEF IInv

\* The same, of a step that touches no share and no guest's session.
LEMMA OthersStay ==
    ASSUME IInv, NEW q \in Slots, Others(q), Aging, UNCHANGED <<docs, share, guest, token>>
    PROVE  \A r \in Slots : r # q => SlotInv(r)'
<1> SUFFICES ASSUME NEW r \in Slots, r # q PROVE SlotInv(r)'
    OBVIOUS
<1>1. Same(r) /\ SlotInv(r) /\ TypeOK
    BY DEF Others, IInv
<1>2. /\ ask[r].actor \in Guests =>
           (guest[ask[r].actor] # None /\ share[guest[ask[r].actor]].doc \in docs'
              => share'[guest[ask[r].actor]] # NoShare)
    BY <1>1, ConstantsApart DEF TypeOK, NoShare
<1> QED
    BY <1>1, <1>2, SlotStays DEF Elder, SlotInv, Held

LEMMA MintLinkInv == ASSUME IInv, NEW q \in Slots, MintLink(q) PROVE IInv'
<1>1. /\ stage[q] = "allowed" /\ ask[q].op = "file" /\ End(q)
      /\ links' = links \cup {[doc |-> ask[q].doc, holder |-> ask[q].actor,
                               expires |-> After(LinkTTL)]}
      /\ UNCHANGED <<docs, share, guest, comments, blobs, orphans, token, now, used>>
    BY DEF MintLink, database
<1>2. SlotInv(q) /\ TypeOK /\ ask[q].doc \in Docs /\ ask[q].actor \in Users \cup Guests
    BY <1>1, Underway
<1>3. Others(q)
    BY <1>1, <1>2, EndSlot
<1>4. Aging
    BY <1>1, <1>2 DEF Aging, TypeOK
<1>5. links' \subseteq Link
    <2>1. After(LinkTTL) \in Nat
        BY <1>2, AccessAssumption DEF AccessAssumption, After, Never, TypeOK
    <2> QED
        BY <1>1, <1>2, <2>1 DEF TypeOK, Link
<1>6. RowsInv' /\ NothingOutlivesDocument'
    BY <1>1 DEF IInv, RowsInv, NothingOutlivesDocument
<1>7. ask[q].doc \in docs => MayHave(ask[q].actor, ask[q].doc, "VIEW")
    BY <1>1, <1>2 DEF SlotInv, Entitled, Allowed, Faithful, Past, Needs, MayHave
<1>8. EffectsWithinGrants'
    BY <1>1, <1>7 DEF IInv, EffectsWithinGrants, MayHave
<1>9. \A r \in Slots : r # q => SlotInv(r)'
    BY <1>1, <1>3, <1>4, OthersStay
<1> QED
    BY <1>1, <1>2, <1>4, <1>5, <1>6, <1>8, <1>9, EndingInv DEF TypeOK

LEMMA CommitCommentInv == ASSUME IInv, NEW q \in Slots, CommitComment(q) PROVE IInv'
<1>1. /\ stage[q] = "flushed" /\ ask[q].op = "comment" /\ End(q)
      /\ comments' = comments \cup {[author |-> ask[q].actor, doc |-> ask[q].doc]}
      /\ UNCHANGED <<docs, share, guest, links, blobs, orphans, token, now, used>>
    BY DEF CommitComment, outside
<1>2. SlotInv(q) /\ TypeOK /\ ask[q].doc \in Docs /\ ask[q].actor \in Users \cup Guests
    BY <1>1, Underway
<1>3. Others(q)
    BY <1>1, <1>2, EndSlot
<1>4. Aging
    BY <1>1, <1>2 DEF Aging, TypeOK
<1>5. comments' \subseteq [author : Users \cup Guests, doc : Docs]
    BY <1>1, <1>2 DEF TypeOK
<1>6. ask[q].doc \in docs
    BY <1>1, <1>2 DEF SlotInv, Held
<1>7. RowsInv' /\ NothingOutlivesDocument'
    BY <1>1, <1>6 DEF IInv, RowsInv, NothingOutlivesDocument
<1>8. MayHave(ask[q].actor, ask[q].doc, "COMMENT")
    BY <1>1, <1>2, <1>6 DEF SlotInv, Entitled, Allowed, Faithful, Past, Needs, MayHave
<1>9. EffectsWithinGrants'
    BY <1>1, <1>8 DEF IInv, EffectsWithinGrants, MayHave
<1>10. \A r \in Slots : r # q => SlotInv(r)'
    BY <1>1, <1>3, <1>4, OthersStay
<1> QED
    BY <1>1, <1>2, <1>4, <1>5, <1>7, <1>9, <1>10, EndingInv DEF TypeOK

LEMMA DeleteBlobInv == ASSUME IInv, NEW q \in Slots, DeleteBlob(q) PROVE IInv'
<1>1. /\ stage[q] = "flushed" /\ ask[q].op = "delete" /\ Goto(q, "unlinked")
      /\ blobs' \subseteq blobs /\ orphans \subseteq orphans'
      /\ blobs \subseteq blobs' \cup orphans' \cup {ask[q].doc}
      /\ orphans' \subseteq orphans \cup {ask[q].doc}
      /\ ask[q].doc \notin blobs' \/ ask[q].doc \in orphans'
      /\ UNCHANGED <<docs, share, guest, comments, links, token, now, used>>
      /\ UNCHANGED <<ask, principal, draft, timely>>
    BY DEF DeleteBlob, database, request
<1>2. SlotInv(q) /\ TypeOK /\ ask[q].doc \in Docs
    BY <1>1, Underway
<1>3. stage'[q] = "unlinked" /\ stage' \in [Slots -> Stage] /\ Others(q)
    BY <1>1, <1>2 DEF Goto, TypeOK, Stage, Others, Same
<1>4. Aging
    BY <1>1, <1>2 DEF Aging, TypeOK
<1>5. TypeOK'
    BY <1>1, <1>2, <1>3 DEF TypeOK
<1>6. RowsInv' /\ NothingOutlivesDocument'
    BY <1>1 DEF IInv, RowsInv, NothingOutlivesDocument
<1>7. EffectsWithinGrants'
    BY <1>1 DEF IInv, EffectsWithinGrants, MayHave
<1>8. SlotInv(q)'
    <2>1. Shape(q)' /\ Held(q)'
        BY <1>1, <1>2, <1>3 DEF SlotInv, Shape, Held
    <2>2. Faithful(q)' /\ Entitled(q)' /\ Prompt(q)'
        BY <1>1, <1>2, <1>3
        DEF SlotInv, Faithful, Past, Entitled, Allowed, Prompt, LetThrough
    <2> QED
        BY <2>1, <2>2 DEF SlotInv
<1>9. \A r \in Slots : SlotInv(r)'
    BY <1>1, <1>3, <1>4, <1>8, OthersStay
<1>10. ASSUME NEW r \in Slots, NEW s \in Slots, r # s PROVE Apart(r, s)'
    <2>1. Apart(r, s)
        BY <1>10 DEF IInv, Exclusion
    <2>2. Touches(r)' = Touches(r) /\ Touches(s)' = Touches(s)
        BY <1>1 DEF Touches
    <2>3. Relies(r)' = Relies(r)
        BY <1>1, <1>3 DEF Relies, Others, Same
    <2>4. /\ stage'[r] \in Writing => stage[r] \in Writing
          /\ stage'[s] \in Writing => stage[s] \in Writing
        BY <1>1, <1>3 DEF Others, Same, Writing
    <2> QED
        BY <1>1, <2>1, <2>2, <2>3, <2>4 DEF Apart
<1>11. Exclusion'
    BY <1>10 DEF Exclusion
<1> QED
    BY <1>5, <1>6, <1>7, <1>9, <1>11 DEF IInv

LEMMA CommitShareInv == ASSUME IInv, NEW q \in Slots, CommitShare(q) PROVE IInv'
<1> DEFINE id == ask[q].share
           row == [doc |-> ask[q].doc, grants |-> draft[q].grants,
                   expires |-> draft[q].expires, revoked |-> FALSE]
<1>1. /\ stage[q] = "flushed" /\ ask[q].op = "share" /\ End(q)
      /\ share' = [share EXCEPT ![id] = row]
      /\ UNCHANGED <<docs, guest, comments, links, blobs, orphans, token, now, used>>
    BY DEF CommitShare, outside
<1>2. SlotInv(q) /\ TypeOK /\ ask[q].doc \in Docs /\ id \in Shares
    BY <1>1, Underway
<1>3. Others(q)
    BY <1>1, <1>2, EndSlot
<1>4. Aging
    BY <1>1, <1>2 DEF Aging, TypeOK
<1>5. ask[q].doc \in docs /\ share[id] = NoShare /\ id \in used /\ draft[q].grants \in Grants
    BY <1>1, <1>2 DEF SlotInv, Held, Shape
<1>6. row \in ShareRow
    <2>1. draft[q] \in Draft
        BY <1>2 DEF TypeOK
    <2> HIDE DEF row
    <2>2. row.expires \in Nat
        BY <2>1 DEF Draft, row
    <2> QED
        BY <1>2, <1>5, <2>1 DEF ShareRow, Draft, row
<1>7. share' \in [Shares -> ShareRow \cup {NoShare}]
    BY <1>1, <1>2, <1>6 DEF TypeOK
<1>8. /\ share'[id].doc = ask[q].doc
      /\ \A s \in Shares : s # id => share'[s] = share[s]
    BY <1>1, <1>2 DEF TypeOK
<1>9. \A g \in Guests : guest[g] # None =>
         guest[g] \in Shares /\ guest[g] # id /\ share'[guest[g]] # NoShare
    BY <1>2, <1>5, <1>8 DEF IInv, NothingOutlivesDocument, TypeOK
<1>10. RowsInv'
    BY <1>1, <1>5, <1>8 DEF IInv, RowsInv
<1>11. NothingOutlivesDocument'
    BY <1>1, <1>5, <1>8, <1>9 DEF IInv, NothingOutlivesDocument
<1>12. EffectsWithinGrants'
    BY <1>1, <1>8, <1>9 DEF IInv, EffectsWithinGrants, MayHave
<1>13. ASSUME NEW r \in Slots, r # q, ask[r].op = "share" \/ Relies(r)
       PROVE  ask[r].share \in Shares /\ ask[r].share # id
    <2>1. Apart(r, q) /\ SlotInv(r)
        BY <1>13 DEF IInv, Exclusion
    <2>2. ask[r].share # id
        BY <1>1, <1>13, <2>1 DEF Apart
    <2>3. stage[r] # "idle"
        BY <1>13, <2>1 DEF SlotInv, Shape, NoRequest, Relies
    <2> QED
        BY <1>13, <2>1, <2>2, <2>3 DEF SlotInv, Shape, Relies
<1>14. ASSUME NEW r \in Slots, r # q PROVE SlotInv(r)'
    <2>1. Same(r) /\ SlotInv(r)
        BY <1>3, <1>14 DEF Others, IInv
    <2>2. ask[r].actor \in Guests =>
             /\ token'[ask[r].actor] = token[ask[r].actor]
             /\ guest'[ask[r].actor] = guest[ask[r].actor]
             /\ guest'[ask[r].actor] # None => Elder(guest[ask[r].actor])
             /\ guest[ask[r].actor] # None => share'[guest[ask[r].actor]] # NoShare
        BY <1>1, <1>8, <1>9 DEF Elder
    <2>3. ask[r].op = "share" \/ Relies(r) => share'[ask[r].share] = share[ask[r].share]
        BY <1>8, <1>13, <1>14
    <2>4. stage[r] = "flushed" =>
             /\ ask[r].op \in {"comment", "share"} => ask[r].doc \in docs'
             /\ ask[r].op \in {"join", "revoke"} => share'[ask[r].share] # NoShare
        BY <1>1, <2>1, <2>3 DEF SlotInv, Held, Relies
    <2> QED
        BY <1>1, <1>2, <1>4, <2>1, <2>2, <2>3, <2>4, SlotStays DEF Elder
<1>15. ASSUME NEW r \in Slots, r # q, stage[r] \in Writing, ask[r].op \in {"join", "revoke"}
       PROVE  share'[ask[r].share].doc = share[ask[r].share].doc
    <2>1. Relies(r)
        <3>1. SlotInv(r)
            BY DEF IInv
        <3> QED
            BY <1>15, <3>1 DEF SlotInv, Shape, Writing, Relies
    <2> QED
        BY <1>8, <1>13, <1>15, <2>1
<1> HIDE DEF row, id
<1> QED
    BY <1>1, <1>2, <1>4, <1>7, <1>10, <1>11, <1>12, <1>14, <1>15, EndingInv DEF TypeOK

LEMMA CommitRevokeInv == ASSUME IInv, NEW q \in Slots, CommitRevoke(q) PROVE IInv'
<1> DEFINE id == ask[q].share
<1>1. /\ stage[q] = "flushed" /\ ask[q].op = "revoke" /\ End(q)
      /\ share' = [share EXCEPT ![id].revoked = TRUE]
      /\ UNCHANGED <<docs, guest, comments, links, blobs, orphans, token, now, used>>
    BY DEF CommitRevoke, outside
<1>2. SlotInv(q) /\ TypeOK /\ ask[q].doc \in Docs /\ id \in Shares
    BY <1>1, Underway
<1>3. Others(q)
    BY <1>1, <1>2, EndSlot
<1>4. Aging
    BY <1>1, <1>2 DEF Aging, TypeOK
<1>5. share[id] # NoShare /\ share[id] \in ShareRow
    BY <1>1, <1>2 DEF SlotInv, Held, TypeOK
<1>6. /\ share'[id] = [share[id] EXCEPT !.revoked = TRUE]
      /\ share'[id] \in ShareRow
      /\ share'[id].doc = share[id].doc /\ share'[id].grants = share[id].grants
      /\ \A s \in Shares : s # id => share'[s] = share[s]
    BY <1>1, <1>2, <1>5 DEF TypeOK, ShareRow
<1>7. share' \in [Shares -> ShareRow \cup {NoShare}]
    <2>1. DOMAIN share' = Shares /\ share' = [s \in Shares |-> share'[s]]
        BY <1>1, <1>2 DEF TypeOK
    <2>2. \A s \in Shares : share'[s] \in ShareRow \cup {NoShare}
        BY <1>2, <1>6 DEF TypeOK
    <2> QED
        BY <2>1, <2>2
<1>8. share'[id] # NoShare
    <2>1. share'[id].doc \in Docs
        BY <1>6 DEF ShareRow
    <2> QED
        BY <2>1, ConstantsApart DEF NoShare
<1>9. \A s \in Shares :
         /\ Elder(s)
         /\ share'[s] = NoShare <=> share[s] = NoShare
         /\ share'[s].doc = share[s].doc /\ share'[s].grants = share[s].grants
    BY <1>5, <1>6, <1>8 DEF Elder
<1>10. \A g \in Guests : guest[g] # None => guest[g] \in Shares /\ share[guest[g]] # NoShare
    BY <1>2 DEF IInv, NothingOutlivesDocument, TypeOK
<1>11. RowsInv'
    BY <1>1, <1>9 DEF IInv, RowsInv
<1>12. NothingOutlivesDocument'
    BY <1>1, <1>9, <1>10 DEF IInv, NothingOutlivesDocument
<1>13. EffectsWithinGrants'
    BY <1>1, <1>9, <1>10 DEF IInv, EffectsWithinGrants, MayHave
<1>14. ASSUME NEW r \in Slots, r # q, ask[r].op \in {"share", "join", "revoke"}
       PROVE  ask[r].share \in Shares
    <2>1. SlotInv(r)
        BY DEF IInv
    <2> QED
        BY <1>14, <2>1 DEF SlotInv, Shape, NoRequest
<1>15. ASSUME NEW r \in Slots, r # q PROVE SlotInv(r)'
    <2>1. Same(r) /\ SlotInv(r)
        BY <1>3, <1>15 DEF Others, IInv
    <2>2. ask[r].actor \in Guests =>
             /\ token'[ask[r].actor] = token[ask[r].actor]
             /\ guest'[ask[r].actor] = guest[ask[r].actor]
             /\ guest'[ask[r].actor] # None => Elder(guest[ask[r].actor])
             /\ guest[ask[r].actor] # None => share'[guest[ask[r].actor]] # NoShare
        BY <1>1, <1>9, <1>10
    <2>3. ask[r].op = "share" \/ Relies(r) => Elder(ask[r].share)
        BY <1>9, <1>14, <1>15 DEF Relies
    <2>4. stage[r] = "flushed" =>
             /\ ask[r].op \in {"comment", "share"} => ask[r].doc \in docs'
             /\ ask[r].op \in {"join", "revoke"} => share'[ask[r].share] # NoShare
        BY <1>1, <1>9, <1>14, <1>15, <2>1 DEF SlotInv, Held
    <2> QED
        BY <1>2, <1>4, <2>1, <2>2, <2>3, <2>4, SlotStays
<1>16. ASSUME NEW r \in Slots, r # q, ask[r].op \in {"join", "revoke"}
       PROVE  share'[ask[r].share].doc = share[ask[r].share].doc
    BY <1>9, <1>14, <1>16
<1> HIDE DEF id
<1> QED
    BY <1>1, <1>2, <1>4, <1>7, <1>11, <1>12, <1>13, <1>15, <1>16, EndingInv DEF TypeOK

LEMMA CommitDeleteInv == ASSUME IInv, NEW q \in Slots, CommitDelete(q) PROVE IInv'
<1> DEFINE d == ask[q].doc
           lost == {s \in Shares : share[s].doc = d}
<1>1. /\ stage[q] = "unlinked" /\ docs' = docs \ {d} /\ End(q)
      /\ share' = [s \in Shares |-> IF s \in lost THEN NoShare ELSE share[s]]
      /\ guest' = [g \in Guests |-> IF guest[g] \in lost THEN None ELSE guest[g]]
      /\ comments' = {c \in comments : c.doc # d}
      /\ UNCHANGED <<blobs, orphans, links, token, now, used>>
    BY DEF CommitDelete, outside
<1>2. SlotInv(q) /\ TypeOK /\ ask[q].op = "delete"
    BY <1>1, Underway DEF SlotInv, Shape
<1>3. Others(q) /\ d \in Docs
    BY <1>1, <1>2, EndSlot, Underway
<1>4. Aging
    BY <1>1, <1>2 DEF Aging, TypeOK
<1>5. \A s \in Shares :
         /\ Elder(s)
         /\ s \notin lost => share'[s] = share[s]
         /\ share'[s] # NoShare => s \notin lost
    BY <1>1 DEF Elder
<1>6. \A g \in Guests :
         /\ guest[g] # None => guest[g] \in Shares /\ share[guest[g]] # NoShare
         /\ guest'[g] \in {guest[g], None}
         /\ guest'[g] # None => guest'[g] = guest[g] /\ guest[g] \notin lost
         /\ guest[g] # None /\ guest[g] \notin lost => guest'[g] = guest[g]
    BY <1>1, <1>2 DEF IInv, NothingOutlivesDocument, TypeOK
<1>7. \A s \in Shares : share[s].doc # d => s \notin lost
    OBVIOUS
<1> HIDE DEF lost
<1>8. share' \in [Shares -> ShareRow \cup {NoShare}] /\ guest' \in [Guests -> Shares \cup {None}]
    BY <1>1, <1>2 DEF TypeOK
<1>9. RowsInv'
    <2>1. d \notin blobs \/ d \in orphans
        BY <1>1, <1>2 DEF SlotInv, Held
    <2>2. blobs' \subseteq docs' \cup orphans'
        BY <1>1, <2>1 DEF IInv, RowsInv
    <2> QED
        BY <1>1, <1>6, <2>2 DEF IInv, RowsInv
<1>10. NothingOutlivesDocument'
    <2>1. \A c \in comments' : c.doc \in docs'
        BY <1>1 DEF IInv, NothingOutlivesDocument
    <2>2. ASSUME NEW s \in Shares, share'[s] # NoShare PROVE share'[s].doc \in docs'
        <3>1. s \notin lost /\ share'[s] = share[s] /\ share[s].doc \in docs
            BY <1>5, <2>2 DEF IInv, NothingOutlivesDocument
        <3> QED
            BY <1>1, <3>1 DEF lost
    <2>3. \A g \in Guests : guest'[g] # None => share'[guest'[g]] # NoShare
        BY <1>5, <1>6
    <2> QED
        BY <2>1, <2>2, <2>3 DEF NothingOutlivesDocument
<1>11. ASSUME NEW who, NEW e, NEW p, MayHave(who, e, p), e # d PROVE MayHave(who, e, p)'
    <2>1. CASE who \in Users /\ Owner[e] = who
        BY <2>1 DEF MayHave
    <2>2. CASE who \in Guests /\ guest[who] # None
                 /\ share[guest[who]].doc = e /\ p \in share[guest[who]].grants
        <3>1. guest[who] \in Shares /\ guest[who] \notin lost
            BY <1>6, <1>7, <1>11, <2>2
        <3>2. guest'[who] = guest[who] /\ share'[guest[who]] = share[guest[who]]
            BY <1>5, <1>6, <2>2, <3>1
        <3> QED
            BY <2>2, <3>2 DEF MayHave
    <2> QED
        BY <1>11, <2>1, <2>2 DEF MayHave
<1>12. EffectsWithinGrants'
    <2>1. \A c \in comments' : c \in comments /\ c.doc # d
        BY <1>1
    <2>2. \A l \in links' : l.doc \in docs' => l \in links /\ l.doc \in docs /\ l.doc # d
        BY <1>1
    <2>3. \A c \in comments' : MayHave(c.author, c.doc, "COMMENT")'
        BY <1>11, <2>1 DEF IInv, EffectsWithinGrants
    <2>4. \A l \in links' : l.doc \in docs' => MayHave(l.holder, l.doc, "VIEW")'
        BY <1>11, <2>2 DEF IInv, EffectsWithinGrants
    <2> QED
        BY <2>3, <2>4 DEF EffectsWithinGrants, MayHave
<1>13. ASSUME NEW r \in Slots, r # q, ask[r].op \in {"share", "join", "revoke"}
       PROVE  ask[r].share \in Shares
    <2>1. SlotInv(r)
        BY DEF IInv
    <2> QED
        BY <1>13, <2>1 DEF SlotInv, Shape, NoRequest
<1>14. ASSUME NEW r \in Slots, r # q, stage[r] \in Writing PROVE Touches(r) # d
    BY <1>1, <1>2, <1>14 DEF IInv, Exclusion, Apart, Writing
<1>15. ASSUME NEW r \in Slots, r # q, stage[r] \in Writing, ask[r].op \in {"join", "revoke"}
       PROVE  share'[ask[r].share] = share[ask[r].share]
    BY <1>5, <1>7, <1>13, <1>14, <1>15 DEF Touches
<1>16. ASSUME NEW r \in Slots, r # q PROVE SlotInv(r)'
    <2>1. Same(r) /\ SlotInv(r)
        BY <1>3, <1>16 DEF Others, IInv
    <2>2. ASSUME ask[r].actor \in Guests
          PROVE  /\ token'[ask[r].actor] = token[ask[r].actor]
                 /\ guest'[ask[r].actor] \in {guest[ask[r].actor], None}
                 /\ guest'[ask[r].actor] # None => Elder(guest[ask[r].actor])
                 /\ guest[ask[r].actor] # None /\ share[guest[ask[r].actor]].doc \in docs' =>
                       /\ guest'[ask[r].actor] # None
                       /\ share'[guest[ask[r].actor]] # NoShare
        <3>1. guest'[ask[r].actor] # None => Elder(guest[ask[r].actor])
            BY <1>5, <1>6, <2>2
        <3>2. ASSUME guest[ask[r].actor] # None, share[guest[ask[r].actor]].doc \in docs'
              PROVE  guest'[ask[r].actor] # None /\ share'[guest[ask[r].actor]] # NoShare
            <4>1. guest[ask[r].actor] \notin lost
                BY <1>1, <3>2 DEF lost
            <4> QED
                BY <1>5, <1>6, <2>2, <3>2, <4>1
        <3> QED
            BY <1>1, <1>6, <2>2, <3>1, <3>2
    <2>3. ask[r].op = "share" \/ Relies(r) => Elder(ask[r].share)
        BY <1>5, <1>13, <1>16 DEF Relies
    <2>4. stage[r] = "flushed" =>
             /\ ask[r].op \in {"comment", "share"} => ask[r].doc \in docs'
             /\ ask[r].op \in {"join", "revoke"} => share'[ask[r].share] # NoShare
        BY <1>1, <1>14, <1>15, <1>16, <2>1 DEF SlotInv, Held, Writing, Touches
    <2> QED
        BY <1>2, <1>4, <2>1, <2>2, <2>3, <2>4, SlotStays
<1>17. /\ comments' \subseteq [author : Users \cup Guests, doc : Docs]
       /\ docs' \subseteq Docs
    BY <1>1, <1>2 DEF TypeOK
<1> HIDE DEF d
<1> QED
    BY <1>1, <1>2, <1>4, <1>8, <1>9, <1>10, <1>12, <1>15, <1>16, <1>17, EndingInv DEF TypeOK

LEMMA CommitGuestInv == ASSUME IInv, NEW q \in Slots, CommitGuest(q) PROVE IInv'
<1> DEFINE g == ask[q].actor
           id == ask[q].share
<1>1. /\ stage[q] = "flushed" /\ ask[q].op = "join" /\ End(q)
      /\ guest' = [guest EXCEPT ![g] = id]
      /\ token' = [token EXCEPT ![g] = draft[q].expires]
      /\ UNCHANGED <<docs, share, comments, links, blobs, orphans, now, used>>
    BY DEF CommitGuest
<1>2. SlotInv(q) /\ TypeOK /\ id \in Shares
    BY <1>1, Underway
<1>3. Others(q)
    BY <1>1, <1>2, EndSlot
<1>4. Aging
    BY <1>1, <1>2 DEF Aging, TypeOK
<1>5. /\ g \in Guests /\ g \in used /\ token[g] = 0 /\ draft[q].expires > 0
      /\ share[id] # NoShare
    BY <1>1, <1>2 DEF SlotInv, Shape, Held
<1>6. guest[g] = None
    BY <1>5 DEF IInv, RowsInv
<1>7. draft[q].expires \in Nat
    BY <1>2 DEF TypeOK, Draft
<1>8. /\ guest'[g] = id /\ token'[g] = draft[q].expires
      /\ \A h \in Guests : h # g => guest'[h] = guest[h] /\ token'[h] = token[h]
      /\ guest' \in [Guests -> Shares \cup {None}] /\ token' \in [Guests -> Nat]
    BY <1>1, <1>2, <1>5, <1>7 DEF TypeOK
<1>9. RowsInv'
    BY <1>1, <1>5, <1>7, <1>8 DEF IInv, RowsInv
<1>10. NothingOutlivesDocument'
    BY <1>1, <1>5, <1>8 DEF IInv, NothingOutlivesDocument
<1>11. ASSUME NEW who, NEW e, NEW p, MayHave(who, e, p) PROVE MayHave(who, e, p)'
    BY <1>1, <1>6, <1>8, <1>11 DEF MayHave
<1>12. EffectsWithinGrants'
    <2>1. \A c \in comments : MayHave(c.author, c.doc, "COMMENT")'
        BY <1>11 DEF IInv, EffectsWithinGrants
    <2>2. \A l \in links : l.doc \in docs => MayHave(l.holder, l.doc, "VIEW")'
        BY <1>11 DEF IInv, EffectsWithinGrants
    <2> QED
        BY <1>1, <2>1, <2>2 DEF EffectsWithinGrants, MayHave
<1>13. ASSUME NEW r \in Slots, r # q, ask[r].actor \in Guests PROVE ask[r].actor # g
    <2>1. SlotInv(r) /\ Apart(r, q)
        BY <1>13 DEF IInv, Exclusion
    <2>2. CASE stage[r] = "idle"
        BY <1>13, <2>1, <2>2, ConstantsApart DEF SlotInv, Shape, NoRequest
    <2>3. CASE stage[r] # "idle" /\ ask[r].op = "join"
        BY <1>1, <2>1, <2>3 DEF Apart
    <2>4. CASE stage[r] # "idle" /\ ask[r].op # "join"
        BY <1>5, <1>13, <2>1, <2>4 DEF SlotInv, Shape
    <2> QED
        BY <2>2, <2>3, <2>4
<1>14. ASSUME NEW r \in Slots, r # q PROVE SlotInv(r)'
    <2>1. Same(r) /\ SlotInv(r)
        BY <1>3, <1>14 DEF Others, IInv
    <2>2. ASSUME ask[r].actor \in Guests
          PROVE  /\ token'[ask[r].actor] = token[ask[r].actor]
                 /\ guest'[ask[r].actor] = guest[ask[r].actor]
                 /\ guest[ask[r].actor] # None => share'[guest[ask[r].actor]] # NoShare
        BY <1>1, <1>8, <1>13, <1>14, <2>2 DEF IInv, NothingOutlivesDocument
    <2>3. \A s : Elder(s)
        BY <1>1 DEF Elder
    <2>4. stage[r] = "flushed" =>
             /\ ask[r].op \in {"comment", "share"} => ask[r].doc \in docs'
             /\ ask[r].op \in {"join", "revoke"} => share'[ask[r].share] # NoShare
        BY <1>1, <2>1 DEF SlotInv, Held
    <2> QED
        BY <1>2, <1>4, <2>1, <2>2, <2>3, <2>4, SlotStays
<1> HIDE DEF g, id
<1> QED
    BY <1>1, <1>2, <1>4, <1>8, <1>9, <1>10, <1>12, <1>14, EndingInv DEF TypeOK

\* Time passes for everybody.
LEMMA TickInv == ASSUME IInv, Tick PROVE IInv'
<1>1. /\ now < Horizon /\ now' = now + 1
      /\ UNCHANGED <<docs, share, guest, comments, blobs, orphans, token, links, used>>
      /\ UNCHANGED <<stage, ask, principal, draft, timely>>
    BY DEF Tick, database, outside, request
<1>2. TypeOK
    BY DEF IInv
<1>3. Aging
    BY <1>1, <1>2 DEF Aging, TypeOK
<1>4. TypeOK'
    <2>1. now' \in 0..Horizon
        BY <1>1, <1>2, AccessAssumption DEF AccessAssumption, TypeOK
    <2> QED
        BY <1>1, <1>2, <2>1 DEF TypeOK
<1>5. RowsInv' /\ NothingOutlivesDocument' /\ EffectsWithinGrants'
    BY <1>1 DEF IInv, RowsInv, NothingOutlivesDocument, EffectsWithinGrants, MayHave
<1>6. Exclusion'
    BY <1>1 DEF IInv, Exclusion, Apart, Relies, Touches
<1>7. ASSUME NEW r \in Slots PROVE SlotInv(r)'
    <2>1. Same(r) /\ SlotInv(r)
        BY <1>1 DEF Same, IInv
    <2>2. \A s : Elder(s)
        BY <1>1 DEF Elder
    <2>3. ask[r].actor \in Guests /\ guest[ask[r].actor] # None =>
             share'[guest[ask[r].actor]] # NoShare
        BY <1>1 DEF IInv, NothingOutlivesDocument
    <2>4. stage[r] = "flushed" =>
             /\ ask[r].op \in {"comment", "share"} => ask[r].doc \in docs'
             /\ ask[r].op \in {"join", "revoke"} => share'[ask[r].share] # NoShare
        BY <1>1, <2>1 DEF SlotInv, Held
    <2> QED
        BY <1>1, <1>2, <1>3, <2>1, <2>2, <2>3, <2>4, SlotStays
<1> QED
    BY <1>4, <1>5, <1>6, <1>7 DEF IInv

\* A request that arrives brings a fresh id, or names what is there.
LEMMA ArriveInv == ASSUME IInv, NEW q \in Slots, Arrive(q) PROVE IInv'
<1>1. PICK a \in Request :
         /\ \/ /\ a.op = "join" /\ a.doc = None
               /\ a.actor \in Guests \ used
               /\ a.share # None /\ share[a.share] # NoShare
               /\ used' = used \cup {a.actor}
            \/ /\ a.op = "share" /\ a.doc # None
               /\ a.actor \in Users
               /\ a.share \in Shares \ used
               /\ used' = used \cup {a.share}
            \/ /\ a.op = "revoke" /\ a.doc # None
               /\ a.share \in used \cap Shares
               /\ UNCHANGED used
            \/ /\ a.op \in DocumentOp \ {"share", "revoke"} /\ a.doc # None
               /\ a.share = None
               /\ UNCHANGED used
         /\ a.op # "join" /\ a.actor \in Guests => token[a.actor] > 0
         /\ ask' = [ask EXCEPT ![q] = a]
         /\ timely' = [timely EXCEPT ![q] = Due(a)]
    BY DEF Arrive
<1>2. /\ stage[q] = "idle" /\ Goto(q, "arrived")
      /\ UNCHANGED <<docs, share, guest, comments, blobs, orphans, token, links, now>>
      /\ UNCHANGED <<principal, draft>>
    BY DEF Arrive, database, outside
<1>3. TypeOK /\ RowsInv /\ NothingOutlivesDocument
    BY DEF IInv
<1>4. /\ a.actor \in Users \cup Guests /\ a.doc \in Docs \cup {None}
      /\ a.share \in Shares \cup {None} /\ a.op \in DocumentOp \cup {"join"}
    BY <1>1 DEF Request
<1>5. /\ stage'[q] = "arrived" /\ ask'[q] = a /\ timely'[q] = Due(a) /\ Others(q)
    BY <1>1, <1>2, <1>3 DEF Goto, TypeOK, Others, Same
<1>6. Aging /\ used' \subseteq Shares \cup Guests
    BY <1>1, <1>2, <1>3 DEF Aging, TypeOK
<1>7. TypeOK'
    <2>1. stage' \in [Slots -> Stage] /\ ask' \in [Slots -> Request \cup {NoRequest}]
        BY <1>1, <1>2, <1>3 DEF Goto, TypeOK, Stage
    <2>2. Due(a) \in BOOLEAN
        BY DEF Due, Active
    <2>3. timely' \in [Slots -> BOOLEAN]
        BY <1>1, <1>3, <2>2 DEF TypeOK
    <2> QED
        BY <1>2, <1>3, <1>6, <2>1, <2>3 DEF TypeOK
<1>8. RowsInv' /\ NothingOutlivesDocument' /\ EffectsWithinGrants'
    BY <1>2, <1>3, <1>6
    DEF IInv, Aging, RowsInv, NothingOutlivesDocument, EffectsWithinGrants, MayHave
<1>9. a.op = "join" => a.share \in Shares \cap used /\ token[a.actor] = 0
    BY <1>1, <1>3, <1>4 DEF RowsInv, DocumentOp
<1>10. SlotInv(q)'
    <2>1. Shape(q)'
        BY <1>1, <1>2, <1>3, <1>4, <1>5, <1>6, <1>9 DEF Shape, Aging, RowsInv, DocumentOp
    <2>2. Faithful(q)' /\ Entitled(q)' /\ Held(q)'
        BY <1>5 DEF Faithful, Past, Entitled, Allowed, Held
    <2>3. Prompt(q)'
        BY <1>2, <1>5 DEF Prompt, LetThrough, Due, Active
    <2> QED
        BY <2>1, <2>2, <2>3 DEF SlotInv
<1>11. \A r \in Slots : SlotInv(r)'
    BY <1>2, <1>5, <1>6, <1>10, OthersStay
<1>12. ASSUME NEW r \in Slots, r # q PROVE Apart(q, r)' /\ Apart(r, q)'
    <2>1. SlotInv(r) /\ Same(r)
        BY <1>5, <1>12 DEF IInv, Others
    <2>2. /\ ask[r].op = "share" => ask[r].share \in used /\ share[ask[r].share] = NoShare
          /\ Relies(r) => ask[r].share \in used
          /\ ask[r].op = "join" => ask[r].actor \in used
        BY <2>1 DEF SlotInv, Shape, NoRequest, Relies
    <2>3. Relies(q)' => a.op = "join"
        BY <1>5 DEF Relies
    <2>4. Relies(r)' = Relies(r)
        BY <2>1 DEF Relies, Same
    <2>5. Apart(q, r)'
        BY <1>1, <1>5, <2>1, <2>2, <2>3 DEF Apart, Same, Writing, DocumentOp
    <2>6. Apart(r, q)'
        BY <1>1, <1>5, <2>1, <2>2, <2>4 DEF Apart, Same, Writing, DocumentOp
    <2> QED
        BY <2>5, <2>6
<1>13. ASSUME NEW r \in Slots, NEW s \in Slots, r # s, r # q, s # q PROVE Apart(r, s)'
    BY <1>2, <1>5, <1>13, ApartStays DEF IInv, Exclusion, Others
<1>14. Exclusion'
    BY <1>12, <1>13 DEF Exclusion
<1> QED
    BY <1>7, <1>8, <1>11, <1>14 DEF IInv

-----------------------------------------------------------------------------
(* The theorems *)

LEMMA InitIInv == ASSUME Init PROVE IInv
<1>1. /\ docs = Docs /\ blobs = Docs /\ orphans = {} /\ comments = {} /\ links = {}
      /\ share = [s \in Shares |-> NoShare] /\ guest = [g \in Guests |-> None]
      /\ token = [g \in Guests |-> 0] /\ now = 0 /\ used = {}
      /\ stage = [q \in Slots |-> "idle"] /\ ask = [q \in Slots |-> NoRequest]
    BY DEF Init
<1>2. TypeOK
    <2>1. now \in 0..Horizon
        BY <1>1, AccessAssumption DEF AccessAssumption
    <2>2. principal \in [Slots -> Principal]
        BY DEF Init, Nobody, Principal
    <2>3. draft \in [Slots -> Draft]
        BY DEF Init, NoDraft, Draft
    <2>4. timely \in [Slots -> BOOLEAN]
        BY DEF Init
    <2> QED
        BY <1>1, <2>1, <2>2, <2>3, <2>4 DEF TypeOK, Stage
<1>3. RowsInv /\ NothingOutlivesDocument /\ EffectsWithinGrants
    BY <1>1 DEF RowsInv, NothingOutlivesDocument, EffectsWithinGrants
<1>4. Exclusion
    BY <1>1 DEF Exclusion, Apart, Relies, Writing, NoRequest
<1>5. ASSUME NEW q \in Slots PROVE SlotInv(q)
    <2>1. stage[q] = "idle" /\ ask[q] = NoRequest /\ ask[q].op = "none"
        BY <1>1 DEF NoRequest
    <2> QED
        BY <2>1 DEF SlotInv, Shape, Faithful, Past, Entitled, Allowed, Held, Prompt, LetThrough
<1> QED
    BY <1>2, <1>3, <1>4, <1>5 DEF IInv

LEMMA StutterInv == ASSUME IInv, UNCHANGED vars PROVE IInv'
<1>1. TypeOK' /\ RowsInv' /\ NothingOutlivesDocument' /\ EffectsWithinGrants'
    BY DEF IInv, vars, TypeOK, RowsInv, NothingOutlivesDocument, EffectsWithinGrants, MayHave
<1>2. Exclusion'
    BY DEF IInv, vars, Exclusion, Apart, Relies, Touches
<1>3. ASSUME NEW q \in Slots PROVE SlotInv(q)'
    <2>1. SlotInv(q)
        BY DEF IInv
    <2>2. Shape(q)' /\ Faithful(q)' /\ Entitled(q)' /\ Held(q)'
        BY <2>1 DEF vars, SlotInv, Shape, Faithful, Past, Entitled, Allowed, Held
    <2>3. Prompt(q)'
        BY <2>1 DEF vars, SlotInv, Prompt, LetThrough, Due, Active
    <2> QED
        BY <2>2, <2>3 DEF SlotInv
<1> QED
    BY <1>1, <1>2, <1>3 DEF IInv

LEMMA NextIInv == ASSUME IInv, [Next]_vars PROVE IInv'
<1>1. ASSUME NEW q \in Slots, Proceed(q) PROVE IInv'
    <2>1. CASE ResolvePrincipal(q)
        BY <2>1, ResolvePrincipalInv
    <2>2. CASE AuthorizeDocument(q)
        BY <2>2, AuthorizeDocumentInv
    <2>3. CASE GetDocument(q)
        BY <2>3, RefuseInv DEF GetDocument
    <2>4. CASE MintLink(q)
        BY <2>4, MintLinkInv
    <2>5. CASE InsertComment(q)
        BY <2>5, InsertCommentInv
    <2>6. CASE CommitComment(q)
        BY <2>6, CommitCommentInv
    <2>7. CASE InsertShare(q)
        BY <2>7, InsertShareInv
    <2>8. CASE CommitShare(q)
        BY <2>8, CommitShareInv
    <2>9. CASE FindShare(q)
        BY <2>9, FindShareInv
    <2>10. CASE RevokeShare(q)
        BY <2>10, RevokeShareInv
    <2>11. CASE CommitRevoke(q)
        BY <2>11, CommitRevokeInv
    <2>12. CASE DeleteDocument(q)
        BY <2>12, DeleteDocumentInv
    <2>13. CASE DeleteBlob(q)
        BY <2>13, DeleteBlobInv
    <2>14. CASE CommitDelete(q)
        BY <2>14, CommitDeleteInv
    <2>15. CASE ResolveActiveShare(q)
        BY <2>15, ResolveActiveShareInv
    <2>16. CASE InsertGuest(q)
        BY <2>16, InsertGuestInv
    <2>17. CASE CommitGuest(q)
        BY <2>17, CommitGuestInv
    <2> QED
        BY <1>1, <2>1, <2>2, <2>3, <2>4, <2>5, <2>6, <2>7, <2>8, <2>9, <2>10, <2>11,
           <2>12, <2>13, <2>14, <2>15, <2>16, <2>17 DEF Proceed
<1>2. ASSUME NEW q \in Slots, Arrive(q) PROVE IInv'
    BY <1>2, ArriveInv
<1>3. ASSUME NEW q \in Slots, Abandon(q) PROVE IInv'
    BY <1>3, RefuseInv DEF Abandon
<1>4. CASE Tick
    BY <1>4, TickInv
<1>5. CASE UNCHANGED vars
    BY <1>5, StutterInv
<1> QED
    BY <1>1, <1>2, <1>3, <1>4, <1>5 DEF Next

LEMMA InductiveInvariant == Spec => []IInv
<1>1. Init => IInv
    BY InitIInv
<1>2. IInv /\ [Next]_vars => IInv'
    BY NextIInv
<1> QED
    BY <1>1, <1>2, PTL DEF Spec

\* Every row, request and token keeps its type, however requests interleave.
THEOREM TypeCorrect == Spec => []TypeOK
<1>1. IInv => TypeOK
    BY DEF IInv
<1> QED
    BY <1>1, InductiveInvariant, PTL

\* resolve_principal looks the share up on every request: one that arrives after
\* its link lapsed, or its document went, never reaches a handler, though the
\* check and the handler are separate steps and the token still verifies.
THEOREM LapsedLinkStopsRequest == Spec => []NoLateGrant
<1>1. IInv => NoLateGrant
    BY DEF IInv, SlotInv, Prompt, NoLateGrant
<1> QED
    BY <1>1, InductiveInvariant, PTL

\* The cascade of DocumentRepository.delete and the locks the inserts take:
\* nothing inserted while a document is deleted is left behind it.
THEOREM CascadeIsComplete == Spec => []NothingOutlivesDocument
<1>1. IInv => NothingOutlivesDocument
    BY DEF IInv
<1> QED
    BY <1>1, InductiveInvariant, PTL

\* authorize_document before every handler: whatever a guest or a user has left
\* behind, he had the permission for, on the one document of his link.
THEOREM GrantsBoundEffects == Spec => []EffectsWithinGrants
<1>1. IInv => EffectsWithinGrants
    BY DEF IInv
<1> QED
    BY <1>1, InductiveInvariant, PTL

\* delete_document unlinks the PDF before it commits: a download link outlives
\* its document's bytes only when the log tells that they were left behind.
THEOREM LinksDieWithDocument == Spec => []BytesGoWithDocument
<1>1. IInv => BytesGoWithDocument
    BY DEF IInv, RowsInv, BytesGoWithDocument, Readable
<1> QED
    BY <1>1, InductiveInvariant, PTL

=============================================================================
