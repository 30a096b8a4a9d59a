------------------------ MODULE CommentThreadsProofs ------------------------
(***************************************************************************)
(* CommentThreads keeps one level, loses nothing and brings nothing back,    *)
(* for any principals, any number of requests at a time and of comments.     *)
(***************************************************************************)
EXTENDS CommentThreads, TLAPS

-----------------------------------------------------------------------------
(* The inductive invariant *)

\* A comment was begun, its text is its author's, and its parent is a root.
RowInv(c) ==
    There(c) =>
        /\ c <= begun
        /\ comment[c].body = comment[c].author
        /\ comment[c].parent # Unborn =>
              /\ There(comment[c].parent)
              /\ comment[c].parent < c
              /\ comment[comment[c].parent].parent = Unborn

Creating(q) == stage[q] # "idle" /\ ask[q].op = "create"

\* The id it was given is its own and not used yet; what it is replying to is
\* older.
CreateInv(q) ==
    Creating(q) =>
        /\ ask[q].new \in 1..begun
        /\ ~There(ask[q].new)
        /\ ask[q].target \in 0..begun /\ ask[q].target < ask[q].new

\* The row to be inserted hangs on nothing, or on an older root that is there as
\* long as the document is.
ImageInv(q) ==
    Creating(q) /\ stage[q] \in {"held", "flushed"} =>
        /\ image[q] \in CommentRow
        /\ image[q].body = image[q].author
        /\ image[q].parent # Unborn =>
              /\ image[q].parent < ask[q].new
              /\ gone \/ (There(image[q].parent)
                            /\ comment[image[q].parent].parent = Unborn)

\* An update was asked for by the author; a deletion deletes.
ChangeInv(q) ==
    /\ stage[q] = "held" /\ ask[q].op = "update" =>
          /\ image[q].body = ask[q].who
          /\ gone \/ (There(ask[q].target) /\ comment[ask[q].target].author = ask[q].who)
    /\ stage[q] = "held" /\ ask[q].op = "delete" => image[q].deleted
    /\ stage[q] \in {"held", "flushed"} => image[q] \in CommentRow

StageInv(q) ==
    /\ stage[q] # "idle" => ask[q] \in Request
    /\ stage[q] = "flushed" => ask[q].op = "create" /\ ~gone

Distinct == \A q, r \in Slots :
    Creating(q) /\ Creating(r) /\ ask[q].new = ask[r].new => q = r

GoneInv == gone => \A c \in Ids : ~There(c)

IInv ==
    /\ TypeOK
    /\ \A c \in Ids : RowInv(c)
    /\ \A q \in Slots : CreateInv(q) /\ ImageInv(q) /\ ChangeInv(q) /\ StageInv(q)
    /\ Distinct
    /\ GoneInv

-----------------------------------------------------------------------------
(* Typing lemmas: what a row or a request is made of *)

LEMMA RowType ==
    ASSUME NEW row \in CommentRow
    PROVE  /\ row.parent \in Ids \cup {Unborn} /\ row.author \in Principals
           /\ row.body \in Principals /\ row.deleted \in BOOLEAN
           /\ row # NoComment
BY CommentsAssumption DEF CommentRow, NoComment

LEMMA RequestType ==
    ASSUME NEW a \in Request
    PROVE  /\ a.op \in {"list", "create", "update", "delete"} /\ a.who \in Principals
           /\ a.target \in Ids \cup {Unborn} /\ a.new \in Ids \cup {Unborn}
BY DEF Request

\* A row that is there is a row, and so is its copy with another text or deleted.
LEMMA RowThere ==
    ASSUME TypeOK, NEW c \in Ids \cup {Unborn}, There(c)
    PROVE  c \in Ids /\ comment[c] \in CommentRow
BY DEF TypeOK, There

LEMMA RowChanged ==
    ASSUME NEW row \in CommentRow, NEW who \in Principals
    PROVE  /\ [row EXCEPT !.body = who] \in CommentRow
           /\ [row EXCEPT !.body = who].body = who
           /\ [row EXCEPT !.body = who].parent = row.parent
           /\ [row EXCEPT !.body = who].author = row.author
BY DEF CommentRow

LEMMA RowDeleted ==
    ASSUME NEW row \in CommentRow, NEW b \in BOOLEAN
    PROVE  /\ [row EXCEPT !.deleted = b] \in CommentRow
           /\ [row EXCEPT !.deleted = b].deleted = b
           /\ [row EXCEPT !.deleted = b].parent = row.parent
           /\ [row EXCEPT !.deleted = b].author = row.author
           /\ [row EXCEPT !.deleted = b].body = row.body
BY DEF CommentRow

LEMMA InitInv == Init => IInv
<1> SUFFICES ASSUME Init PROVE IInv
  OBVIOUS
<1>1. \A c \in Ids : ~There(c)
  BY DEF Init, There
<1>2. TypeOK
  <2>1. begun \in 0..MaxComments
    BY CommentsAssumption DEF Init
  <2>2. comment \in [Ids -> CommentRow \cup {NoComment}]
    BY DEF Init
  <2>3. image \in [Slots -> CommentRow \cup {NoComment}]
    BY DEF Init
  <2>4. ask \in [Slots -> Request \cup {NoRequest}]
    BY DEF Init
  <2>5. stage \in [Slots -> Stage] /\ gone \in BOOLEAN
    BY DEF Init, Stage
  <2> QED
    BY <2>1, <2>2, <2>3, <2>4, <2>5 DEF TypeOK
<1> QED
  BY <1>1, <1>2 DEF Init, IInv, RowInv, CreateInv, ImageInv, ChangeInv, StageInv,
                    Creating, Distinct, GoneInv

-----------------------------------------------------------------------------
(* Steps of one session that leave the table alone *)

Slot(q) == CreateInv(q) /\ ImageInv(q) /\ ChangeInv(q) /\ StageInv(q)

Same(r) == stage'[r] = stage[r] /\ ask'[r] = ask[r] /\ image'[r] = image[r]

\* A session that is over holds nothing.
LEMMA EndSlot ==
    ASSUME TypeOK, NEW q \in Slots, End(q)
    PROVE  /\ stage'[q] = "idle" /\ Slot(q)' /\ ~Creating(q)'
           /\ \A r \in Slots \ {q} : Same(r)
           /\ stage' \in [Slots -> Stage]
           /\ ask' \in [Slots -> Request \cup {NoRequest}]
           /\ image' \in [Slots -> CommentRow \cup {NoComment}]
<1>1. stage'[q] = "idle" /\ stage' \in [Slots -> Stage]
  BY DEF TypeOK, End, Goto, Stage
<1>2. ask' \in [Slots -> Request \cup {NoRequest}]
  BY DEF TypeOK, End
<1>3. image' \in [Slots -> CommentRow \cup {NoComment}]
  BY DEF TypeOK, End
<1>4. \A r \in Slots \ {q} : Same(r)
  BY DEF TypeOK, End, Goto, Same
<1>5. Slot(q)' /\ ~Creating(q)'
  BY <1>1 DEF Slot, CreateInv, ImageInv, ChangeInv, StageInv, Creating
<1> QED
  BY <1>1, <1>2, <1>3, <1>4, <1>5

\* So has one whose turn it is, if the table is as it was.
LEMMA SessionFrame ==
    ASSUME IInv, TypeOK', NEW q \in Slots,
           comment' = comment, gone' = gone, begun <= begun',
           \A r \in Slots \ {q} : Same(r),
           Slot(q)',
           \A r \in Slots \ {q} : Creating(r) /\ Creating(q)' => ask[r].new # ask'[q].new
    PROVE  IInv'
<1> USE DEF IInv
<1>0. begun \in Nat /\ begun' \in Nat
  BY CommentsAssumption DEF TypeOK
<1>1. \A c \in Ids : RowInv(c)'
  <2> TAKE c \in Ids
  <2>1. RowInv(c) /\ c \in Nat
    BY DEF Ids
  <2> QED
    BY <1>0, <2>1 DEF RowInv, There
<1>2. ASSUME NEW r \in Slots \ {q} PROVE Slot(r)'
  <2>1. Same(r) /\ CreateInv(r) /\ ImageInv(r) /\ ChangeInv(r) /\ StageInv(r)
    OBVIOUS
  <2>2. CreateInv(r)'
    BY <1>0, <2>1 DEF CreateInv, Creating, Same, There
  <2>3. ImageInv(r)'
    BY <2>1 DEF ImageInv, Creating, Same, There
  <2>4. ChangeInv(r)' /\ StageInv(r)'
    BY <2>1 DEF ChangeInv, StageInv, Same, There
  <2> QED
    BY <2>2, <2>3, <2>4 DEF Slot
<1>3. \A r \in Slots : CreateInv(r)' /\ ImageInv(r)' /\ ChangeInv(r)' /\ StageInv(r)'
  BY <1>2 DEF Slot
<1>4. Distinct'
  <2> SUFFICES ASSUME NEW r \in Slots, NEW p \in Slots, Creating(r)', Creating(p)',
                      ask'[r].new = ask'[p].new
               PROVE  r = p
    BY DEF Distinct
  <2>1. \A o \in Slots \ {q} : (Creating(o)' <=> Creating(o)) /\ ask'[o] = ask[o]
    BY DEF Same, Creating
  <2>2. CASE r # q /\ p # q
    BY <2>1, <2>2 DEF Distinct
  <2>3. CASE r = q \/ p = q
    BY <2>1, <2>3
  <2> QED
    BY <2>2, <2>3
<1>5. GoneInv'
  BY DEF GoneInv, There
<1> QED
  BY <1>1, <1>3, <1>4, <1>5

LEMMA RefuseInv ==
    ASSUME IInv, NEW q \in Slots, Refuse(q)
    PROVE  IInv'
<1>1. TypeOK /\ End(q) /\ comment' = comment /\ gone' = gone /\ begun' = begun
  BY DEF IInv, Refuse
<1>2. TypeOK'
  BY <1>1, EndSlot DEF TypeOK
<1>3. begun <= begun'
  BY <1>1, CommentsAssumption DEF TypeOK
<1> QED
  BY <1>1, <1>2, <1>3, EndSlot, SessionFrame

\* Hold writes the session's copy and its stage.
LEMMA HoldInv ==
    ASSUME IInv, NEW q \in Slots, NEW row \in CommentRow \cup {NoComment},
           NEW next \in Stage, Hold(q, row, next),
           stage'[q] = next /\ image'[q] = row /\ ask'[q] = ask[q] => Slot(q)',
           stage[q] # "idle"
    PROVE  IInv'
<1>1. TypeOK /\ comment' = comment /\ gone' = gone /\ begun' = begun /\ ask' = ask
  BY DEF IInv, Hold
<1>2. stage' = [stage EXCEPT ![q] = next] /\ image' = [image EXCEPT ![q] = row]
  BY DEF Hold, Goto
<1>3. TypeOK'
  <2>1. stage' \in [Slots -> Stage]
    BY <1>1, <1>2 DEF TypeOK
  <2>2. image' \in [Slots -> CommentRow \cup {NoComment}]
    BY <1>1, <1>2 DEF TypeOK
  <2> QED
    BY <1>1, <2>1, <2>2 DEF TypeOK
<1>4. Slot(q)'
  BY <1>1, <1>2 DEF TypeOK
<1>5. \A r \in Slots \ {q} : Same(r)
  BY <1>1, <1>2 DEF TypeOK, Same
<1>6. \A r \in Slots \ {q} : Creating(r) /\ Creating(q)' => ask[r].new # ask'[q].new
  BY <1>1 DEF IInv, Distinct, Creating
<1>7. begun <= begun'
  BY <1>1, CommentsAssumption DEF TypeOK
<1> QED
  BY <1>1, <1>3, <1>4, <1>5, <1>6, <1>7, SessionFrame

-----------------------------------------------------------------------------
(* Steps *)

LEMMA ArriveInv ==
    ASSUME IInv, NEW q \in Slots, Arrive(q)
    PROVE  IInv'
<1>1. PICK a \in Request :
        /\ a.target \in 0..begun
        /\ \/ begun' = begun /\ a.op # "create"
           \/ a.op = "create" /\ begun < MaxComments /\ a.new = begun + 1
                /\ begun' = begun + 1
        /\ ask' = [ask EXCEPT ![q] = a]
  BY DEF Arrive
<1>2. /\ TypeOK /\ comment' = comment /\ gone' = gone /\ image' = image
      /\ stage' = [stage EXCEPT ![q] = "arrived"] /\ stage[q] = "idle"
  BY DEF IInv, Arrive, Goto
<1>3. begun \in Nat /\ MaxComments \in Nat /\ begun <= MaxComments
  BY <1>2, CommentsAssumption DEF TypeOK
<1>4. begun' \in 0..MaxComments /\ begun <= begun'
  BY <1>1, <1>3
<1>5. TypeOK'
  <2>1. stage' \in [Slots -> Stage]
    BY <1>2 DEF TypeOK, Stage
  <2>2. ask' \in [Slots -> Request \cup {NoRequest}]
    BY <1>1, <1>2 DEF TypeOK
  <2> QED
    BY <1>2, <1>4, <2>1, <2>2 DEF TypeOK
<1>6. stage'[q] = "arrived" /\ ask'[q] = a
  BY <1>1, <1>2 DEF TypeOK
<1>7. \A r \in Slots \ {q} : Same(r)
  BY <1>1, <1>2 DEF TypeOK, Same
<1>8. CreateInv(q)'
  <2> SUFFICES ASSUME a.op = "create"
               PROVE  /\ a.new \in 1..begun' /\ ~There(a.new)'
                      /\ a.target \in 0..begun' /\ a.target < a.new
    BY <1>6 DEF CreateInv, Creating
  <2>1. a.new = begun + 1 /\ begun' = begun + 1 /\ begun < MaxComments
    BY <1>1
  <2>2. a.new \in Ids
    BY <1>3, <2>1 DEF Ids
  <2>3. ~There(a.new)
    BY <1>3, <2>1, <2>2 DEF IInv, RowInv
  <2> QED
    BY <1>1, <1>2, <1>3, <2>1, <2>3 DEF There
<1>9. Slot(q)'
  BY <1>6, <1>8 DEF Slot, ImageInv, ChangeInv, StageInv
<1>10. \A r \in Slots \ {q} : Creating(r) /\ Creating(q)' => ask[r].new # ask'[q].new
  <2> TAKE r \in Slots \ {q}
  <2>1. Creating(r) => ask[r].new \in 1..begun
    BY DEF IInv, CreateInv
  <2>2. Creating(q)' => a.new = begun + 1
    BY <1>1, <1>6 DEF Creating
  <2> QED
    BY <1>3, <1>6, <2>1, <2>2
<1> QED
  BY <1>2, <1>4, <1>5, <1>7, <1>9, <1>10, SessionFrame

LEMMA FindParentInv ==
    ASSUME IInv, NEW q \in Slots, FindParent(q)
    PROVE  IInv'
<1> DEFINE a == ask[q]
           parent == IF a.target = Unborn THEN Unborn ELSE Root(a.target)
           row == [parent |-> parent, author |-> a.who, body |-> a.who, deleted |-> FALSE]
<1>1. CASE Refuse(q)
  BY <1>1, RefuseInv
<1>2. CASE /\ stage[q] = "arrived" /\ a.op = "create"
           /\ a.target = Unborn \/ There(a.target)
           /\ Hold(q, row, "held")
  <2>1. /\ TypeOK /\ a \in Request /\ CreateInv(q) /\ Creating(q)
        /\ comment' = comment /\ gone' = gone /\ begun' = begun /\ ask' = ask
    BY <1>2 DEF IInv, StageInv, Creating, Hold
  <2>2. begun \in Nat /\ a.new \in Nat /\ a.target \in Nat /\ a.target < a.new
    BY <2>1, CommentsAssumption DEF TypeOK, CreateInv
  <2>3. parent # Unborn =>
           parent \in Ids /\ There(parent) /\ comment[parent].parent = Unborn /\ parent < a.new
    <3> SUFFICES ASSUME parent # Unborn
                 PROVE  /\ parent \in Ids /\ There(parent)
                        /\ comment[parent].parent = Unborn /\ parent < a.new
      OBVIOUS
    <3>1. a.target \in Ids /\ There(a.target) /\ parent = Root(a.target)
      BY <1>2, <2>1, RequestType
    <3>2. CASE comment[a.target].parent = Unborn
      BY <2>2, <3>1, <3>2 DEF Root
    <3>3. CASE comment[a.target].parent # Unborn
      <4>1. parent = comment[a.target].parent
        BY <3>1, <3>3 DEF Root
      <4>2. There(parent) /\ parent < a.target /\ comment[parent].parent = Unborn
        BY <3>1, <3>3, <4>1 DEF IInv, RowInv
      <4>3. parent \in Ids
        BY <2>1, <3>1, <3>3, <4>1, RowThere, RowType
      <4>4. parent \in Nat
        BY <4>3 DEF Ids
      <4> QED
        BY <2>2, <4>2, <4>3, <4>4
    <3> QED
      BY <3>2, <3>3
  <2>4. row \in CommentRow
    BY <2>1, <2>3, RequestType DEF CommentRow
  <2>5. row.parent = parent /\ row.body = row.author
    OBVIOUS
  <2> HIDE DEF row, parent
  <2>6. ASSUME stage'[q] = "held", image'[q] = row, ask'[q] = ask[q]
        PROVE  Slot(q)'
    <3>1. CreateInv(q)'
      BY <2>1 DEF CreateInv, Creating, There
    <3>2. ImageInv(q)'
      BY <2>1, <2>3, <2>4, <2>5, <2>6 DEF ImageInv, There
    <3>3. ChangeInv(q)' /\ StageInv(q)'
      BY <1>2, <2>1, <2>4, <2>6 DEF ChangeInv, StageInv
    <3> QED
      BY <3>1, <3>2, <3>3 DEF Slot
  <2> QED
    BY <1>2, <2>4, <2>6, HoldInv DEF Stage
<1> QED
  BY <1>1, <1>2 DEF FindParent

LEMMA AddCommentInv ==
    ASSUME IInv, NEW q \in Slots, AddComment(q)
    PROVE  IInv'
<1>1. CASE Refuse(q)
  BY <1>1, RefuseInv
<1>2. CASE /\ stage[q] = "held" /\ ask[q].op = "create" /\ ~gone
           /\ Hold(q, image[q], "flushed")
  <2>1. /\ TypeOK /\ CreateInv(q) /\ ImageInv(q) /\ StageInv(q) /\ Creating(q)
        /\ comment' = comment /\ gone' = gone /\ begun' = begun
    BY <1>2 DEF IInv, Creating, Hold
  <2>2. image[q] \in CommentRow
    BY <1>2, <2>1 DEF ImageInv
  <2>3. ASSUME stage'[q] = "flushed", image'[q] = image[q], ask'[q] = ask[q]
        PROVE  Slot(q)'
    <3>1. CreateInv(q)'
      BY <2>1, <2>3 DEF CreateInv, Creating, There
    <3>2. ImageInv(q)'
      BY <1>2, <2>1, <2>3 DEF ImageInv, There
    <3>3. ChangeInv(q)' /\ StageInv(q)'
      BY <1>2, <2>1, <2>2, <2>3 DEF ChangeInv, StageInv
    <3> QED
      BY <3>1, <3>2, <3>3 DEF Slot
  <2> QED
    BY <1>2, <2>2, <2>3, HoldInv DEF Stage
<1> QED
  BY <1>1, <1>2 DEF AddComment

LEMMA FindCommentInv ==
    ASSUME IInv, NEW q \in Slots, FindComment(q)
    PROVE  IInv'
<1> DEFINE a == ask[q]
           old == comment[a.target]
           row == IF a.op = "update" THEN [old EXCEPT !.body = a.who]
                  ELSE [old EXCEPT !.deleted = TRUE]
<1>1. CASE Refuse(q)
  BY <1>1, RefuseInv
<1>2. CASE /\ stage[q] = "arrived" /\ a.op \in {"update", "delete"} /\ There(a.target)
           /\ a.op = "update" => MayEdit(a.target, a.who)
           /\ Hold(q, row, "held")
  <2>1. /\ TypeOK /\ a \in Request /\ ~Creating(q)
        /\ comment' = comment /\ gone' = gone /\ begun' = begun /\ ask' = ask
    BY <1>2 DEF IInv, StageInv, Creating, Hold
  <2>2. old \in CommentRow /\ a.who \in Principals
    BY <1>2, <2>1, RequestType, RowThere
  <2>3. /\ row \in CommentRow
        /\ a.op = "update" => row.body = a.who
        /\ a.op = "delete" => row.deleted
    BY <1>2, <2>2, RowChanged, RowDeleted
  <2>4. a.op = "update" => old.author = a.who
    BY <1>2 DEF MayEdit
  <2> HIDE DEF row
  <2>5. ASSUME stage'[q] = "held", image'[q] = row, ask'[q] = ask[q]
        PROVE  Slot(q)'
    <3>1. CreateInv(q)' /\ ImageInv(q)'
      BY <1>2, <2>5 DEF CreateInv, ImageInv, Creating
    <3>2. ChangeInv(q)' /\ StageInv(q)'
      BY <1>2, <2>1, <2>3, <2>4, <2>5 DEF ChangeInv, StageInv, There
    <3> QED
      BY <3>1, <3>2 DEF Slot
  <2> QED
    BY <1>2, <2>3, <2>5, HoldInv DEF Stage
<1> QED
  BY <1>1, <1>2 DEF FindComment

-----------------------------------------------------------------------------
(* Commits: the session is over, and the table has changed *)

\* What is left to show when the rows that were there have kept parent and author.
LEMMA CommitFrame ==
    ASSUME IInv, NEW q \in Slots, End(q), gone' = gone, begun' = begun,
           comment' \in [Ids -> CommentRow \cup {NoComment}], gone => comment' = comment,
           \A c \in Ids : RowInv(c)',
           \A c \in Ids : There(c) => /\ comment'[c] # NoComment
                                      /\ comment'[c].parent = comment[c].parent
                                      /\ comment'[c].author = comment[c].author,
           \A r \in Slots \ {q} : Creating(r) => comment'[ask[r].new] = NoComment
    PROVE  IInv'
<1>1. TypeOK
  BY DEF IInv
<1>2. TypeOK'
  BY <1>1, EndSlot DEF TypeOK
<1>3. ASSUME NEW r \in Slots \ {q} PROVE Slot(r)'
  <2>1. Same(r) /\ CreateInv(r) /\ ImageInv(r) /\ ChangeInv(r) /\ StageInv(r)
    BY <1>1, EndSlot DEF IInv
  <2>2. CreateInv(r)'
    BY <2>1 DEF CreateInv, Creating, Same, There
  <2>3. ImageInv(r)'
    <3> SUFFICES ASSUME Creating(r), stage[r] \in {"held", "flushed"},
                        image[r].parent # Unborn, ~gone
                 PROVE  /\ comment'[image[r].parent] # NoComment
                        /\ comment'[image[r].parent].parent = Unborn
      BY <2>1 DEF ImageInv, Creating, Same, There
    <3>1. There(image[r].parent) /\ comment[image[r].parent].parent = Unborn
      BY <2>1 DEF ImageInv
    <3>2. image[r].parent \in Ids
      BY <2>1, RowType DEF ImageInv
    <3> QED
      BY <3>1, <3>2
  <2>4. ChangeInv(r)'
    <3>1. ASSUME stage[r] = "held", ask[r].op = "update", ~gone
          PROVE  /\ ask[r].target # Unborn /\ comment'[ask[r].target] # NoComment
                 /\ comment'[ask[r].target].author = ask[r].who
      <4>1. There(ask[r].target) /\ comment[ask[r].target].author = ask[r].who
        BY <2>1, <3>1 DEF ChangeInv
      <4>2. ask[r].target \in Ids
        BY <2>1, <3>1, <4>1, RequestType DEF StageInv, There
      <4> QED
        BY <4>1, <4>2 DEF There
    <3> QED
      BY <2>1, <3>1 DEF ChangeInv, Same, There
  <2>5. StageInv(r)'
    BY <2>1 DEF StageInv, Same
  <2> QED
    BY <2>2, <2>3, <2>4, <2>5 DEF Slot
<1>4. Slot(q)' /\ ~Creating(q)' /\ \A r \in Slots \ {q} : Same(r)
  BY <1>1, EndSlot
<1>5. \A r \in Slots : CreateInv(r)' /\ ImageInv(r)' /\ ChangeInv(r)' /\ StageInv(r)'
  BY <1>3, <1>4 DEF Slot
<1>6. Distinct'
  BY <1>4 DEF IInv, Distinct, Creating, Same
<1>7. GoneInv'
  BY DEF IInv, GoneInv, There
<1> QED
  BY <1>2, <1>5, <1>6, <1>7 DEF IInv

LEMMA CommitCreateInv ==
    ASSUME IInv, NEW q \in Slots, CommitCreate(q)
    PROVE  IInv'
<1> DEFINE new == ask[q].new
<1>1. /\ TypeOK /\ Creating(q) /\ ~gone /\ End(q) /\ gone' = gone /\ begun' = begun
      /\ CreateInv(q) /\ ImageInv(q) /\ stage[q] = "flushed"
  BY DEF IInv, StageInv, Creating, CommitCreate
<1>2. /\ image[q] \in CommentRow /\ image[q].body = image[q].author
      /\ image[q].parent # Unborn =>
            /\ image[q].parent < new /\ There(image[q].parent)
            /\ comment[image[q].parent].parent = Unborn
  BY <1>1 DEF ImageInv
<1>3. /\ begun \in Nat /\ begun <= MaxComments /\ MaxComments \in Nat
      /\ new \in 1..begun /\ ~There(new)
  BY <1>1, CommentsAssumption DEF TypeOK, CreateInv
<1>4. new \in Ids /\ new <= begun
  BY <1>3 DEF Ids
<1> HIDE DEF new
<1>5. comment' = [comment EXCEPT ![new] = image[q]]
  BY DEF CommitCreate, new
<1>6. comment' \in [Ids -> CommentRow \cup {NoComment}]
  BY <1>1, <1>2, <1>4, <1>5 DEF TypeOK
<1>7. comment'[new] = image[q] /\ \A c \in Ids : c # new => comment'[c] = comment[c]
  BY <1>1, <1>4, <1>5 DEF TypeOK
<1>8. \A c \in Ids : There(c) => c # new /\ comment'[c] # NoComment /\ comment'[c] = comment[c]
  BY <1>3, <1>7 DEF There
<1>9. \A c \in Ids : RowInv(c)'
  <2> TAKE c \in Ids
  <2>1. CASE c = new
    <3>1. image[q].parent # Unborn => image[q].parent \in Ids
      BY <1>2, RowType
    <3>2. image[q].parent # Unborn =>
              /\ comment'[image[q].parent] # NoComment
              /\ comment'[image[q].parent].parent = Unborn
      BY <1>2, <1>8, <3>1
    <3> QED
      BY <1>1, <1>2, <1>4, <1>7, <2>1, <3>2 DEF RowInv, There
  <2>2. CASE c # new
    <3> SUFFICES ASSUME There(c)' PROVE RowInv(c)'
      BY DEF RowInv
    <3>1. There(c) /\ comment'[c] = comment[c]
      BY <1>7, <2>2 DEF There
    <3>2. RowInv(c)
      BY DEF IInv
    <3>3. comment[c].parent # Unborn => comment[c].parent \in Ids
      BY <1>1, <3>1, RowThere, RowType
    <3> QED
      BY <1>1, <1>8, <3>1, <3>2, <3>3 DEF RowInv, There
  <2> QED
    BY <2>1, <2>2
<1>10. \A r \in Slots \ {q} : Creating(r) => comment'[ask[r].new] = NoComment
  <2> SUFFICES ASSUME NEW r \in Slots \ {q}, Creating(r) PROVE comment'[ask[r].new] = NoComment
    OBVIOUS
  <2>1. ask[r].new \in 1..begun /\ ~There(ask[r].new)
    BY DEF IInv, CreateInv
  <2>2. ask[r].new # new
    BY <1>1 DEF IInv, Distinct, new
  <2>3. ask[r].new \in Ids
    BY <1>3, <2>1 DEF Ids
  <2> QED
    BY <1>7, <2>1, <2>2, <2>3 DEF There, Unborn, Ids
<1> QED
  BY <1>1, <1>6, <1>8, <1>9, <1>10, CommitFrame

\* A change of text or the mark of deletion on a row that is there.
LEMMA ChangeRow ==
    ASSUME IInv, NEW q \in Slots, End(q), gone' = gone, begun' = begun, ~Creating(q),
           NEW t \in Ids, There(t), NEW row \in CommentRow,
           comment' = [comment EXCEPT ![t] = row],
           row.parent = comment[t].parent, row.author = comment[t].author,
           row.body = row.author
    PROVE  IInv'
<1>1. TypeOK
  BY DEF IInv
<1>2. comment' \in [Ids -> CommentRow \cup {NoComment}]
  BY <1>1 DEF TypeOK
<1>3. comment'[t] = row /\ \A c \in Ids : c # t => comment'[c] = comment[c]
  BY <1>1 DEF TypeOK
<1>4. row # NoComment
  BY RowType
<1>5. \A c \in Ids : /\ comment'[c] # NoComment <=> There(c)
                     /\ comment'[c].parent = comment[c].parent
                     /\ comment'[c].author = comment[c].author
  BY <1>3, <1>4 DEF There, Unborn, Ids
<1>6. \A c \in Ids : RowInv(c)'
  <2> SUFFICES ASSUME NEW c \in Ids, There(c)' PROVE RowInv(c)'
    BY DEF RowInv
  <2>1. RowInv(c) /\ There(c)
    BY <1>5 DEF IInv, There
  <2>2. comment'[c].body = comment'[c].author
    BY <1>3, <2>1 DEF RowInv
  <2>3. comment[c].parent # Unborn => comment[c].parent \in Ids
    BY <1>1, <2>1, RowThere, RowType
  <2> QED
    BY <1>5, <2>1, <2>2, <2>3 DEF RowInv, There
<1>7. ~gone
  BY DEF IInv, GoneInv
<1>8. \A r \in Slots \ {q} : Creating(r) => comment'[ask[r].new] = NoComment
  <2> SUFFICES ASSUME NEW r \in Slots \ {q}, Creating(r) PROVE comment'[ask[r].new] = NoComment
    OBVIOUS
  <2>1. ask[r].new \in 1..begun /\ ~There(ask[r].new)
    BY DEF IInv, CreateInv
  <2>2. ask[r].new \in Ids
    BY <1>1, <2>1, CommentsAssumption DEF Ids, TypeOK
  <2> QED
    BY <1>5, <2>1, <2>2
<1> QED
  BY <1>2, <1>5, <1>6, <1>7, <1>8, CommitFrame

LEMMA CommitUpdateInv ==
    ASSUME IInv, NEW q \in Slots, CommitUpdate(q)
    PROVE  IInv'
<1> DEFINE t == ask[q].target
           row == [comment[t] EXCEPT !.body = image[q].body]
<1>1. CASE Refuse(q)
  BY <1>1, RefuseInv
<1>2. CASE /\ There(t) /\ End(q) /\ gone' = gone /\ begun' = begun
           /\ comment' = [comment EXCEPT ![t].body = image[q].body]
  <2>1. /\ TypeOK /\ stage[q] = "held" /\ ask[q].op = "update" /\ ~Creating(q)
        /\ ask[q] \in Request /\ ChangeInv(q)
    BY DEF IInv, CommitUpdate, Creating, StageInv
  <2>2. t \in Ids /\ comment[t] \in CommentRow
    BY <1>2, <2>1, RequestType, RowThere
  <2>3. ~gone
    BY <1>2, <2>2 DEF IInv, GoneInv
  <2>4. image[q].body = ask[q].who /\ comment[t].author = ask[q].who
    BY <2>1, <2>3 DEF ChangeInv
  <2>5. ask[q].who \in Principals
    BY <2>1, RequestType
  <2>6. /\ row \in CommentRow /\ row.parent = comment[t].parent
        /\ row.author = comment[t].author /\ row.body = row.author
    BY <2>2, <2>4, <2>5, RowChanged
  <2>7. comment' = [comment EXCEPT ![t] = row]
    BY <1>2
  <2> HIDE DEF row, t
  <2> QED
    BY <1>2, <2>1, <2>2, <2>6, <2>7, ChangeRow
<1> QED
  BY <1>1, <1>2 DEF CommitUpdate

LEMMA CommitDeleteInv ==
    ASSUME IInv, NEW q \in Slots, CommitDelete(q)
    PROVE  IInv'
<1> DEFINE t == ask[q].target
           row == [comment[t] EXCEPT !.deleted = image[q].deleted]
<1>1. CASE Refuse(q)
  BY <1>1, RefuseInv
<1>2. CASE /\ There(t) /\ End(q) /\ gone' = gone /\ begun' = begun
           /\ comment' = [comment EXCEPT ![t].deleted = image[q].deleted]
  <2>1. /\ TypeOK /\ stage[q] = "held" /\ ask[q].op = "delete" /\ ~Creating(q)
        /\ ask[q] \in Request /\ ChangeInv(q)
    BY DEF IInv, CommitDelete, Creating, StageInv
  <2>2. t \in Ids /\ comment[t] \in CommentRow
    BY <1>2, <2>1, RequestType, RowThere
  <2>3. image[q].deleted \in BOOLEAN
    BY <2>1, RowType DEF ChangeInv
  <2>4. comment[t].body = comment[t].author
    BY <1>2, <2>2 DEF IInv, RowInv
  <2>5. /\ row \in CommentRow /\ row.parent = comment[t].parent
        /\ row.author = comment[t].author /\ row.body = row.author
    BY <2>2, <2>3, <2>4, RowDeleted
  <2>6. comment' = [comment EXCEPT ![t] = row]
    BY <1>2
  <2> HIDE DEF row, t
  <2> QED
    BY <1>2, <2>1, <2>2, <2>5, <2>6, ChangeRow
<1> QED
  BY <1>1, <1>2 DEF CommitDelete

LEMMA DeleteDocumentInv ==
    ASSUME IInv, DeleteDocument
    PROVE  IInv'
<1>1. /\ TypeOK /\ gone' = TRUE /\ comment' = [c \in Ids |-> NoComment]
      /\ begun' = begun /\ stage' = stage /\ ask' = ask /\ image' = image
      /\ \A q \in Slots : stage[q] # "flushed"
  BY DEF IInv, DeleteDocument
<1>2. TypeOK'
  BY <1>1 DEF TypeOK
<1>3. \A c \in Ids : ~There(c)'
  BY <1>1 DEF There
<1>4. ASSUME NEW r \in Slots
      PROVE  CreateInv(r)' /\ ImageInv(r)' /\ ChangeInv(r)' /\ StageInv(r)'
  <2>1. CreateInv(r) /\ ImageInv(r) /\ ChangeInv(r) /\ StageInv(r)
    BY DEF IInv
  <2>2. CreateInv(r)'
    <3> SUFFICES ASSUME Creating(r) PROVE comment'[ask[r].new] = NoComment
      BY <1>1, <2>1 DEF CreateInv, Creating, There
    <3>1. ask[r].new \in Ids
      BY <1>1, <2>1, CommentsAssumption DEF CreateInv, TypeOK, Ids
    <3> QED
      BY <1>1, <3>1
  <2>3. ImageInv(r)'
    BY <1>1, <2>1 DEF ImageInv, Creating
  <2>4. ChangeInv(r)' /\ StageInv(r)'
    BY <1>1, <2>1 DEF ChangeInv, StageInv
  <2> QED
    BY <2>2, <2>3, <2>4
<1>5. (\A c \in Ids : RowInv(c)') /\ GoneInv'
  BY <1>3 DEF RowInv, GoneInv
<1>6. Distinct'
  BY <1>1 DEF IInv, Distinct, Creating
<1> QED
  BY <1>2, <1>4, <1>5, <1>6 DEF IInv

-----------------------------------------------------------------------------
(* Theorems *)

LEMMA NextInv ==
    ASSUME IInv, [Next]_vars
    PROVE  IInv'
<1>1. CASE UNCHANGED vars
  BY <1>1 DEF vars, IInv, TypeOK, RowInv, CreateInv, ImageInv, ChangeInv, StageInv,
              Creating, There, Distinct, GoneInv
<1>2. CASE DeleteDocument
  BY <1>2, DeleteDocumentInv
<1>3. ASSUME NEW q \in Slots, Step(q) PROVE IInv'
  <2>1. CASE Arrive(q)
    BY <2>1, ArriveInv
  <2>2. CASE Abandon(q) \/ ListThread(q)
    BY <2>2, RefuseInv DEF Abandon, ListThread
  <2>3. CASE FindParent(q)
    BY <2>3, FindParentInv
  <2>4. CASE AddComment(q)
    BY <2>4, AddCommentInv
  <2>5. CASE CommitCreate(q)
    BY <2>5, CommitCreateInv
  <2>6. CASE FindComment(q)
    BY <2>6, FindCommentInv
  <2>7. CASE CommitUpdate(q)
    BY <2>7, CommitUpdateInv
  <2>8. CASE CommitDelete(q)
    BY <2>8, CommitDeleteInv
  <2> QED
    BY <1>3, <2>1, <2>2, <2>3, <2>4, <2>5, <2>6, <2>7, <2>8 DEF Step
<1> QED
  BY <1>1, <1>2, <1>3 DEF Next, AllQuiet

\* The inductive invariant holds in every reachable state.
THEOREM Invariance == Spec => []IInv
BY InitInv, NextInv, PTL DEF Spec

\* Every table, request and session copy stays of its type.
THEOREM TypeCorrect == Spec => []TypeOK
<1>1. IInv => TypeOK
  BY DEF IInv
<1> QED
  BY <1>1, Invariance, PTL

\* comment_service.py create: whatever replies, deletions and inserts overlap,
\* a thread never gets deeper than one level and its root is there.
THEOREM ThreadHasOneLevel == Spec => []OneLevel
<1>1. IInv => OneLevel
  BY DEF IInv, RowInv, OneLevel
<1> QED
  BY <1>1, Invariance, PTL

\* list_thread: every comment that is not deleted is shown once, whatever became
\* of its root.
THEOREM NothingIsMissing == Spec => []NothingMissing
<1>1. ASSUME IInv PROVE NothingMissing
  <2> SUFFICES ASSUME NEW c \in Ids, There(c), ~comment[c].deleted
               PROVE  \E t \in Thread :
                         /\ c = t.root \/ c \in t.replies
                         /\ \A o \in Thread : c = o.root \/ c \in o.replies => o = t
    BY DEF NothingMissing
  <2> DEFINE root == IF comment[c].parent = Unborn THEN c ELSE comment[c].parent
             entry(r) == [root |-> r, replies |-> Replies(r)]
  <2>1. TypeOK /\ RowInv(c)
    BY <1>1 DEF IInv
  <2>2. comment[c].parent # Unborn => comment[c].parent \in Ids
    BY <2>1, RowThere, RowType
  <2>3. root \in Roots
    BY <2>1, <2>2 DEF RowInv, Roots
  <2>4. c = root \/ c \in Replies(root)
    BY DEF Replies
  <2>5. ~(comment[root].deleted /\ Replies(root) = {})
    <3>1. comment[c].parent = Unborn => ~comment[root].deleted
      OBVIOUS
    <3>2. comment[c].parent # Unborn => c \in Replies(root)
      BY DEF Replies
    <3> QED
      BY <3>1, <3>2
  <2>6. entry(root) \in Thread
    BY <2>3, <2>5 DEF Thread
  <2>7. ASSUME NEW o \in Thread, c = o.root \/ c \in o.replies PROVE o = entry(root)
    <3>1. PICK r \in Roots : o = entry(r)
      BY DEF Thread
    <3>2. comment[r].parent = Unborn /\ (c = r \/ (c \in Ids /\ comment[c].parent = r))
      BY <2>7, <3>1 DEF Roots, Replies
    <3>3. r # Unborn
      BY DEF Roots, There
    <3>4. r = root
      BY <3>2, <3>3
    <3> QED
      BY <3>1, <3>4
  <2> QED
    BY <2>4, <2>6, <2>7
<1> QED
  BY <1>1, Invariance, PTL

\* _require_own_comment: no interleaving of edits and deletions lets a comment
\* carry another's text.
THEOREM TextStaysAuthors == Spec => []TextIsAuthors
<1>1. IInv => TextIsAuthors
  BY DEF IInv, RowInv, TextIsAuthors
<1> QED
  BY <1>1, Invariance, PTL

\* An edit that overlaps a deletion does not undo it: a row marked deleted stays
\* marked, until the document goes.
THEOREM DeletedStaysDeleted == Spec => DeletionIsFinal
<1>1. ASSUME IInv, [Next]_vars, NEW c \in Ids, There(c), comment[c].deleted
      PROVE  comment'[c].deleted \/ (comment'[c] = NoComment /\ gone')
  <2>1. TypeOK /\ comment[c] \in CommentRow
    BY <1>1, RowThere DEF IInv
  <2>2. CASE comment' = comment
    BY <1>1, <2>2
  <2>3. CASE DeleteDocument
    BY <2>3 DEF DeleteDocument
  <2>4. ASSUME NEW q \in Slots, CommitCreate(q) PROVE comment'[c].deleted
    <3>1. StageInv(q) /\ CreateInv(q) /\ stage[q] = "flushed"
      BY <1>1, <2>4 DEF IInv, CommitCreate
    <3>2. ~There(ask[q].new)
      BY <3>1 DEF StageInv, CreateInv, Creating
    <3>3. comment'[c] = comment[c]
      BY <1>1, <2>1, <2>4, <3>2 DEF CommitCreate, TypeOK
    <3> QED
      BY <1>1, <3>3
  <2>5. ASSUME NEW q \in Slots, CommitUpdate(q) PROVE comment'[c].deleted
    <3>1. CASE Refuse(q)
      BY <1>1, <3>1 DEF Refuse
    <3>2. CASE comment' = [comment EXCEPT ![ask[q].target].body = image[q].body]
      BY <1>1, <2>1, <3>2 DEF TypeOK, CommentRow
    <3> QED
      BY <2>5, <3>1, <3>2 DEF CommitUpdate
  <2>6. ASSUME NEW q \in Slots, CommitDelete(q) PROVE comment'[c].deleted
    <3>1. CASE Refuse(q)
      BY <1>1, <3>1 DEF Refuse
    <3>2. CASE comment' = [comment EXCEPT ![ask[q].target].deleted = image[q].deleted]
      <4>1. image[q].deleted
        BY <1>1, <2>6 DEF IInv, ChangeInv, CommitDelete
      <4> QED
        BY <1>1, <2>1, <3>2, <4>1 DEF TypeOK, CommentRow
    <3> QED
      BY <2>6, <3>1, <3>2 DEF CommitDelete
  <2>7. ASSUME NEW q \in Slots, Step(q),
               ~CommitCreate(q), ~CommitUpdate(q), ~CommitDelete(q)
        PROVE  comment' = comment
    BY <2>7 DEF Step, Arrive, Abandon, ListThread, FindParent, AddComment, FindComment,
                Refuse, Hold
  <2>8. CASE \E q \in Slots : Step(q)
    <3>1. PICK q \in Slots : Step(q)
      BY <2>8
    <3>2. CASE CommitCreate(q) \/ CommitUpdate(q) \/ CommitDelete(q)
      BY <2>4, <2>5, <2>6, <3>2
    <3>3. CASE ~(CommitCreate(q) \/ CommitUpdate(q) \/ CommitDelete(q))
      <4>1. comment' = comment
        BY <2>7, <3>1, <3>3
      <4> QED
        BY <2>2, <4>1
    <3> QED
      BY <3>2, <3>3
  <2>9. CASE UNCHANGED vars
    BY <2>2, <2>9 DEF vars
  <2> QED
    BY <1>1, <2>3, <2>8, <2>9 DEF Next, AllQuiet
<1>2. IInv /\ [Next]_vars => [\A c \in Ids : There(c) /\ comment[c].deleted =>
          comment'[c].deleted \/ (comment'[c] = NoComment /\ gone')]_vars
  BY <1>1
<1> QED
  BY <1>2, Invariance, PTL DEF Spec, DeletionIsFinal
=============================================================================
