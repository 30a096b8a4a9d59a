--------------------------- MODULE CommentThreads ---------------------------
(***************************************************************************)
(* The comments on one document: posting, replying, editing, soft deletion,  *)
(* and the thread that is assembled from them.  Permissions and links are    *)
(* the business of ShareAccess; here everybody may comment.                  *)
(*                                                                          *)
(* Comments are numbered in the order in which the transactions that add     *)
(* them began, which is the order of created_at.  A body stands for whoever  *)
(* wrote it.  An UPDATE is flushed by the commit itself, so it is one step   *)
(* with it; an insert is flushed before.                                     *)
(***************************************************************************)
EXTENDS Naturals

CONSTANTS
    Principals,      \* users and guest sessions
    Owner,           \* the owner of the document, one of them
    None,
    Slots,           \* requests in progress at the same time
    MaxComments      \* bound: comments posted altogether

ASSUME CommentsAssumption ==
    /\ Owner \in Principals
    /\ None \notin Principals
    /\ MaxComments \in Nat

VARIABLES
    comment,   \* committed comments
    gone,      \* the document has been deleted
    begun,     \* comments begun so far
    stage,     \* how far the request in each slot has got
    ask,       \* what it asks for
    image      \* the comment its session holds, about to be written

vars == <<comment, gone, begun, stage, ask, image>>

Ids == 1..MaxComments

Unborn == 0      \* no comment, and the parent of a root

CommentRow == [parent : Ids \cup {Unborn}, author : Principals, body : Principals,
               deleted : BOOLEAN]

NoComment == [parent |-> Unborn, author |-> None, body |-> None, deleted |-> FALSE]

Request == [op : {"list", "create", "update", "delete"}, who : Principals,
            target : Ids \cup {Unborn}, new : Ids \cup {Unborn}]

NoRequest == [op |-> "none", who |-> None, target |-> Unborn, new |-> Unborn]

Stage == {"idle", "arrived", "held", "flushed"}

There(c) == c # Unborn /\ comment[c] # NoComment

TypeOK ==
    /\ comment \in [Ids -> CommentRow \cup {NoComment}]
    /\ gone \in BOOLEAN
    /\ begun \in 0..MaxComments
    /\ stage \in [Slots -> Stage]
    /\ ask \in [Slots -> Request \cup {NoRequest}]
    /\ image \in [Slots -> CommentRow \cup {NoComment}]

Init ==
    /\ comment = [c \in Ids |-> NoComment]
    /\ gone = FALSE
    /\ begun = 0
    /\ stage = [q \in Slots |-> "idle"]
    /\ ask = [q \in Slots |-> NoRequest]
    /\ image = [q \in Slots |-> NoComment]

-----------------------------------------------------------------------------
(* The life of a request *)

Goto(q, next) == stage' = [stage EXCEPT ![q] = next]

End(q) ==
    /\ Goto(q, "idle")
    /\ ask' = [ask EXCEPT ![q] = NoRequest]
    /\ image' = [image EXCEPT ![q] = NoComment]

Refuse(q) == End(q) /\ UNCHANGED <<comment, gone, begun>>

Hold(q, row, next) ==
    /\ image' = [image EXCEPT ![q] = row]
    /\ Goto(q, next)
    /\ UNCHANGED <<comment, gone, begun, ask>>

\* A target is the id of any comment the client may have seen.
Arrive(q) ==
    /\ stage[q] = "idle" /\ ~gone
    /\ \E a \in Request :
          /\ a.target \in 0..begun
          /\ \/ a.op = "list" /\ a.target = Unborn /\ a.new = Unborn /\ UNCHANGED begun
             \/ a.op \in {"update", "delete"} /\ a.target # Unborn /\ a.new = Unborn
                /\ UNCHANGED begun
             \/ /\ a.op = "create" /\ begun < MaxComments
                /\ a.new = begun + 1 /\ begun' = begun + 1
          /\ ask' = [ask EXCEPT ![q] = a]
    /\ Goto(q, "arrived")
    /\ UNCHANGED <<comment, gone, image>>

\* Anything raised on the way, a client that goes away, a worker that dies.
Abandon(q) == stage[q] # "idle" /\ Refuse(q)

-----------------------------------------------------------------------------
(* Handlers *)

\* list_thread changes nothing; what it returns is Thread, below.
ListThread(q) == stage[q] = "arrived" /\ ask[q].op = "list" /\ Refuse(q)

\* One level of nesting: a reply to a reply goes to the root of the thread.
Root(c) == IF comment[c].parent # Unborn THEN comment[c].parent ELSE c

\* create, of a comment or of a reply to one that is still there.
FindParent(q) ==
    LET a == ask[q] IN
    /\ stage[q] = "arrived" /\ a.op = "create"
    /\ \/ /\ a.target = Unborn \/ There(a.target)
          /\ Hold(q, [parent |-> IF a.target = Unborn THEN Unborn ELSE Root(a.target),
                      author |-> a.who, body |-> a.who, deleted |-> FALSE], "held")
       \/ a.target # Unborn /\ ~There(a.target) /\ Refuse(q)

\* The flush: the document and the parent must still be there.
AddComment(q) ==
    /\ stage[q] = "held" /\ ask[q].op = "create"
    /\ \/ /\ ~gone /\ (image[q].parent # Unborn => There(image[q].parent))
          /\ Hold(q, image[q], "flushed")
       \/ /\ ~(~gone /\ (image[q].parent # Unborn => There(image[q].parent)))
          /\ Refuse(q)

CommitCreate(q) ==
    /\ stage[q] = "flushed"
    /\ comment' = [comment EXCEPT ![ask[q].new] = image[q]]
    /\ End(q)
    /\ UNCHANGED <<gone, begun>>

\* Variant with a bug: the owner may edit what he may delete.
Owner_MayEdit(c, who) == ~comment[c].deleted /\ who \in {comment[c].author, Owner}

\* _require_own_comment
MayEdit(c, who) == ~comment[c].deleted /\ comment[c].author = who

MayDelete(c, who) == who \in {comment[c].author, Owner}

\* update and delete look at the row, change it in the session, and commit.
FindComment(q) ==
    LET a == ask[q]
        allowed == /\ There(a.target)
                   /\ a.op = "update" => MayEdit(a.target, a.who)
                   /\ a.op = "delete" => MayDelete(a.target, a.who)
    IN
    /\ stage[q] = "arrived" /\ a.op \in {"update", "delete"}
    /\ \/ /\ allowed
          /\ Hold(q, IF a.op = "update" THEN [comment[a.target] EXCEPT !.body = a.who]
                     ELSE [comment[a.target] EXCEPT !.deleted = TRUE], "held")
       \/ ~allowed /\ Refuse(q)

\* Variant with a bug: the whole row is written back.
WholeRow_CommitUpdate(q) ==
    /\ stage[q] = "held" /\ ask[q].op = "update"
    /\ There(ask[q].target)
    /\ comment' = [comment EXCEPT ![ask[q].target] = image[q]]
    /\ End(q)
    /\ UNCHANGED <<gone, begun>>

\* Only the column that was set is written; no row to write to raises.
CommitUpdate(q) ==
    /\ stage[q] = "held" /\ ask[q].op = "update"
    /\ \/ /\ There(ask[q].target)
          /\ comment' = [comment EXCEPT ![ask[q].target].body = image[q].body]
          /\ End(q)
          /\ UNCHANGED <<gone, begun>>
       \/ ~There(ask[q].target) /\ Refuse(q)

CommitDelete(q) ==
    /\ stage[q] = "held" /\ ask[q].op = "delete"
    /\ \/ /\ There(ask[q].target)
          /\ comment' = [comment EXCEPT ![ask[q].target].deleted = image[q].deleted]
          /\ End(q)
          /\ UNCHANGED <<gone, begun>>
       \/ ~There(ask[q].target) /\ Refuse(q)

\* The document is deleted, and by the cascade its comments; that waits for
\* sessions that have inserted one.
DeleteDocument ==
    /\ ~gone
    /\ \A q \in Slots : stage[q] # "flushed"
    /\ gone' = TRUE
    /\ comment' = [c \in Ids |-> NoComment]
    /\ UNCHANGED <<begun, stage, ask, image>>

-----------------------------------------------------------------------------
(* list_thread *)

Roots == {c \in Ids : There(c) /\ comment[c].parent = Unborn}

Replies(c) == {r \in Ids : There(r) /\ comment[r].parent = c}

\* Variant with a bug: a deleted root takes its replies out of sight.
HideDeleted_Thread == {[root |-> c, replies |-> Replies(c)] :
              c \in {r \in Roots : ~comment[r].deleted}}

Thread == {[root |-> c, replies |-> Replies(c)] :
              c \in {r \in Roots : ~(comment[r].deleted /\ Replies(r) = {})}}

-----------------------------------------------------------------------------
(* Specification *)

\* Nothing is left to happen.
AllQuiet == gone /\ (\A q \in Slots : stage[q] = "idle") /\ UNCHANGED vars

Step(q) ==
    \/ Arrive(q) \/ Abandon(q)
    \/ ListThread(q)
    \/ FindParent(q) \/ AddComment(q) \/ CommitCreate(q)
    \/ FindComment(q) \/ CommitUpdate(q) \/ CommitDelete(q)

Next == (\E q \in Slots : Step(q)) \/ DeleteDocument \/ AllQuiet

Spec == Init /\ [][Next]_vars

-----------------------------------------------------------------------------
(* Properties *)

\* A reply hangs on a root, never on another reply, and the root is there and
\* older: a thread has one level, in order, however replies to replies,
\* deletions and inserts overlap.
OneLevel == \A c \in Ids :
    There(c) /\ comment[c].parent # Unborn =>
        LET root == comment[c].parent IN
        There(root) /\ root < c /\ comment[root].parent = Unborn

\* The thread shows every comment that is not deleted in exactly one place: a
\* reply outlasts the deletion of its root.
NothingMissing == \A c \in Ids :
    There(c) /\ ~comment[c].deleted =>
        \E t \in Thread : /\ c = t.root \/ c \in t.replies
                          /\ \A o \in Thread : c = o.root \/ c \in o.replies => o = t

\* Nobody puts words into another's mouth: a comment's text is its author's.
TextIsAuthors == \A c \in Ids : There(c) => comment[c].body = comment[c].author

\* A deleted comment does not come back, as an edit that overlaps the deletion
\* might make it; it goes altogether only with the document.
DeletionIsFinal == [][\A c \in Ids :
    There(c) /\ comment[c].deleted =>
        comment'[c].deleted \/ (comment'[c] = NoComment /\ gone')]_vars

-----------------------------------------------------------------------------
(* What a comment says and the code does not do *)

\* services/comment_service.py:113: "A deleted root with no surviving replies
\* carries no information."  Every thread shown has something left to read.
NoEmptyThread == \A t \in Thread :
    \E c \in {t.root} \cup t.replies : ~comment[c].deleted
=============================================================================
