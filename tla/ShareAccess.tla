---------------------------- MODULE ShareAccess ----------------------------
(***************************************************************************)
(* Who may act on a document, request by request: its owner, and guests who *)
(* came in by a share link.  A request first resolves its bearer token into *)
(* a principal, then authorizes that principal for the document, and only    *)
(* then acts and commits; meanwhile links expire, are revoked, and documents *)
(* are deleted by requests on other sessions.                                *)
(*                                                                          *)
(* CHAT is left out of the permissions: the chat routes ask for it exactly   *)
(* as the comment routes ask for COMMENT.  Routes that only read (preview,   *)
(* list_shares) take the same two steps as the ones modelled and then change *)
(* nothing.                                                                  *)
(***************************************************************************)
EXTENDS Naturals, FiniteSets

CONSTANTS
    Docs, Users, Shares, Guests,   \* ids; shares and guests are issued once each
    None,        \* SQL NULL, and the scope of a registered user
    Owner,       \* documents.owner_id, which no operation changes
    Slots,       \* requests in progress at the same time
    Grants,      \* the permission sets a share may be created with
    Lifetimes,   \* the values expires_in_hours may take
    GuestTTL,    \* guest_token_ttl_minutes
    LinkTTL,     \* sas_url_ttl_minutes
    Horizon,     \* bound on the clock
    MaxLinks     \* bound: once this many links are out, nobody asks for another

Permission == {"VIEW", "COMMENT", "MANAGE"}

ASSUME AccessAssumption ==
    /\ None \notin Docs \cup Users \cup Shares \cup Guests
    /\ Users \cap Guests = {}
    /\ Owner \in [Docs -> Users]
    /\ Grants \subseteq SUBSET (Permission \ {"MANAGE"})   \* CreateShareRequest
    /\ Lifetimes \subseteq Nat \ {0}
    /\ {GuestTTL, LinkTTL} \subseteq Nat \ {0}
    /\ {Horizon, MaxLinks} \subseteq Nat

VARIABLES
    docs,       \* committed documents
    blobs,      \* documents whose PDF the blob store holds
    orphans,    \* documents whose PDF could not be deleted, as the log tells
    share,      \* committed shares
    guest,      \* committed guest_sessions: the share each belongs to
    comments,   \* committed comments
    token,      \* when the token each guest holds expires; 0 before it is issued
    links,      \* download links handed out
    now,        \* the clock
    used,       \* share and guest ids already issued
    stage,      \* how far the request in each slot has got
    ask,        \* what it asks for
    principal,  \* whom its token was resolved to
    draft,      \* what it is about to insert
    timely      \* whether it was due an answer when it arrived

database == <<docs, share, guest, comments>>
outside == <<blobs, orphans, token, links>>
request == <<ask, principal, draft, timely>>

vars == <<docs, blobs, orphans, share, guest, comments, token, links, now, used,
          stage, ask, principal, draft, timely>>

-----------------------------------------------------------------------------
(* Rows, requests and tokens *)

\* Beyond the clock: no expiry.
Never == Horizon + 1

After(ttl) == IF now + ttl > Horizon THEN Never ELSE now + ttl

NoShare == [doc |-> None, grants |-> {}, expires |-> 0, revoked |-> TRUE]

ShareRow == [doc : Docs, grants : Grants, expires : Nat, revoked : BOOLEAN]

\* Share.is_active, of a row that is there.
Active(s) ==
    /\ share[s] # NoShare
    /\ ~share[s].revoked
    /\ now < share[s].expires

DocumentOp == {"read", "file", "comment", "share", "revoke", "delete"}

\* The permission each route passes to require_document.
Needs(op) ==
    CASE op \in {"read", "file"} -> "VIEW"
      [] op = "comment" -> "COMMENT"
      [] OTHER -> "MANAGE"

Request == [op : DocumentOp \cup {"join"}, actor : Users \cup Guests,
            doc : Docs \cup {None}, share : Shares \cup {None}]

NoRequest == [op |-> "none", actor |-> None, doc |-> None, share |-> None]

Principal == [scope : Docs \cup {None}, permissions : SUBSET Permission]

Nobody == [scope |-> None, permissions |-> {}]

Draft == [grants : Grants \cup {{}}, expires : Nat]

NoDraft == [grants |-> {}, expires |-> 0]

Link == [doc : Docs, holder : Users \cup Guests, expires : Nat]

\* verify_download_token, and the blob it names.
Readable(l) == now < l.expires /\ l.doc \in blobs

Stage == {"idle", "arrived", "known", "allowed", "found", "flushed", "unlinked"}

TypeOK ==
    /\ docs \subseteq Docs /\ blobs \subseteq Docs /\ orphans \subseteq Docs
    /\ share \in [Shares -> ShareRow \cup {NoShare}]
    /\ guest \in [Guests -> Shares \cup {None}]
    /\ comments \subseteq [author : Users \cup Guests, doc : Docs]
    /\ token \in [Guests -> Nat]
    /\ links \subseteq Link
    /\ now \in 0..Horizon
    /\ used \subseteq Shares \cup Guests
    /\ stage \in [Slots -> Stage]
    /\ ask \in [Slots -> Request \cup {NoRequest}]
    /\ principal \in [Slots -> Principal]
    /\ draft \in [Slots -> Draft]
    /\ timely \in [Slots -> BOOLEAN]

Init ==
    /\ docs = Docs /\ blobs = Docs /\ orphans = {}
    /\ share = [s \in Shares |-> NoShare]
    /\ guest = [g \in Guests |-> None]
    /\ comments = {}
    /\ token = [g \in Guests |-> 0]
    /\ links = {}
    /\ now = 0
    /\ used = {}
    /\ stage = [q \in Slots |-> "idle"]
    /\ ask = [q \in Slots |-> NoRequest]
    /\ principal = [q \in Slots |-> Nobody]
    /\ draft = [q \in Slots |-> NoDraft]
    /\ timely = [q \in Slots |-> FALSE]

-----------------------------------------------------------------------------
(* Row locks.  A delete holds its document, and by the cascade everything    *)
(* that hangs on it; an insert holds its parents against deletion.           *)

Writing == {"flushed", "unlinked"}

Touches(q) == IF ask[q].op \in {"revoke", "join"} THEN share[ask[q].share].doc
              ELSE ask[q].doc

Writers(d) == {q \in Slots : stage[q] \in Writing /\ Touches(q) = d}

Deleting(d) == \E q \in Writers(d) : ask[q].op = "delete"

-----------------------------------------------------------------------------
(* The life of a request *)

Goto(q, next) == stage' = [stage EXCEPT ![q] = next]

\* The response is sent, or the session rolled back: the slot is free again.
End(q) ==
    /\ Goto(q, "idle")
    /\ ask' = [ask EXCEPT ![q] = NoRequest]
    /\ principal' = [principal EXCEPT ![q] = Nobody]
    /\ draft' = [draft EXCEPT ![q] = NoDraft]
    /\ timely' = [timely EXCEPT ![q] = FALSE]

Refuse(q) == End(q) /\ UNCHANGED <<database, outside, now, used>>

\* What a request depends on: its document, and for a guest his link.
Due(a) ==
    IF a.op = "join" THEN Active(a.share)
    ELSE /\ a.doc \in docs
         /\ a.actor \in Guests => guest[a.actor] # None /\ Active(guest[a.actor])

Arrive(q) ==
    /\ stage[q] = "idle"
    /\ \E a \in Request :
          /\ \/ /\ a.op = "join" /\ a.doc = None
                /\ a.actor \in Guests \ used
                /\ a.share # None /\ share[a.share] # NoShare
                /\ used' = used \cup {a.actor}
             \/ /\ a.op = "share" /\ a.doc # None
                /\ a.actor \in Users
                /\ a.share \in Shares \ used
                /\ used' = used \cup {a.share}
             \/ /\ a.op = "revoke" /\ a.doc # None
                /\ a.share \in used \cap Shares
                /\ UNCHANGED used
             \/ /\ a.op \in DocumentOp \ {"share", "revoke"} /\ a.doc # None
                /\ a.share = None
                /\ UNCHANGED used
          /\ a.op = "file" => Cardinality(links) < MaxLinks
          /\ a.op # "join" /\ a.actor \in Guests => token[a.actor] > 0
          /\ ask' = [ask EXCEPT ![q] = a]
          /\ timely' = [timely EXCEPT ![q] = Due(a)]
    /\ Goto(q, "arrived")
    /\ UNCHANGED <<database, outside, now, principal, draft>>

\* Variant with a bug: the token is believed without another look at the link.
TokenOnly_Admissible(g) == now < token[g] /\ guest[g] # None

\* decode_token, then _principal_from_guest_token's two checks.
Admissible(g) == now < token[g] /\ guest[g] # None /\ Active(guest[g])

\* AuthorizationService.resolve_principal: the token, then the rows behind it.
ResolvePrincipal(q) ==
    LET who == ask[q].actor IN
    /\ stage[q] = "arrived" /\ ask[q].op # "join"
    /\ \/ /\ who \in Users
          /\ principal' = [principal EXCEPT ![q] =
                              [scope |-> None, permissions |-> Permission]]
          /\ Goto(q, "known")
          /\ UNCHANGED <<database, outside, now, used, ask, draft, timely>>
       \/ /\ who \in Guests /\ Admissible(who)
          /\ principal' = [principal EXCEPT ![q] =
                              [scope |-> share[guest[who]].doc,
                               permissions |-> share[guest[who]].grants]]
          /\ Goto(q, "known")
          /\ UNCHANGED <<database, outside, now, used, ask, draft, timely>>
       \/ /\ who \in Guests /\ ~Admissible(who)
          /\ Refuse(q)

\* Variant with a bug: every link grants the default permissions.
Default_Effective(q) ==
    LET a == ask[q] IN
    IF a.actor \in Users
    THEN IF Owner[a.doc] = a.actor THEN Permission ELSE {}
    ELSE IF principal[q].scope = a.doc THEN {"VIEW", "COMMENT"} ELSE {}

\* _effective_permissions: ownership for a user, the link for a guest.
Effective(q) ==
    LET a == ask[q] p == principal[q] IN
    IF a.actor \in Users
    THEN IF Owner[a.doc] = a.actor THEN Permission ELSE {}
    ELSE IF p.scope = a.doc THEN p.permissions \ {"MANAGE"} ELSE {}

MayReach(q) == principal[q].scope \in {None, ask[q].doc}

\* authorize_document, as require_document runs it before every handler.
AuthorizeDocument(q) ==
    /\ stage[q] = "known" /\ ask[q].op # "join"
    /\ \/ /\ MayReach(q) /\ ask[q].doc \in docs /\ Needs(ask[q].op) \in Effective(q)
          /\ Goto(q, "allowed")
          /\ UNCHANGED <<database, outside, now, used, request>>
       \/ /\ ~(MayReach(q) /\ ask[q].doc \in docs /\ Needs(ask[q].op) \in Effective(q))
          /\ Refuse(q)

\* Anything raised on the way, a client that goes away, a worker that dies:
\* the session is rolled back.
Abandon(q) == stage[q] # "idle" /\ Refuse(q)

-----------------------------------------------------------------------------
(* Handlers *)

GetDocument(q) == stage[q] = "allowed" /\ ask[q].op = "read" /\ Refuse(q)

MintLink(q) ==
    /\ stage[q] = "allowed" /\ ask[q].op = "file"
    /\ links' = links \cup {[doc |-> ask[q].doc, holder |-> ask[q].actor,
                             expires |-> After(LinkTTL)]}
    /\ End(q)
    /\ UNCHANGED <<database, blobs, orphans, token, now, used>>

\* Variant with a bug: a document that is gone is waited for.
Waiting_InsertComment(q) ==
    /\ stage[q] = "allowed" /\ ask[q].op = "comment"
    /\ ~Deleting(ask[q].doc) /\ ask[q].doc \in docs
    /\ Goto(q, "flushed")
    /\ UNCHANGED <<database, outside, now, used, request>>

\* The insert waits for a delete in progress; its foreign keys fail afterwards.
InsertComment(q) ==
    /\ stage[q] = "allowed" /\ ask[q].op = "comment"
    /\ ~Deleting(ask[q].doc)
    /\ \/ /\ ask[q].doc \in docs
          /\ Goto(q, "flushed")
          /\ UNCHANGED <<database, outside, now, used, request>>
       \/ /\ ask[q].doc \notin docs
          /\ Refuse(q)

CommitComment(q) ==
    /\ stage[q] = "flushed" /\ ask[q].op = "comment"
    /\ comments' = comments \cup {[author |-> ask[q].actor, doc |-> ask[q].doc]}
    /\ End(q)
    /\ UNCHANGED <<docs, share, guest, outside, now, used>>

\* Variant with a bug: the request's permissions are not validated.
AnyGrant_InsertShare(q) ==
    /\ stage[q] = "allowed" /\ ask[q].op = "share"
    /\ ~Deleting(ask[q].doc) /\ ask[q].doc \in docs
    /\ \E grants \in SUBSET Permission :
          draft' = [draft EXCEPT ![q] = [grants |-> grants, expires |-> Never]]
    /\ Goto(q, "flushed")
    /\ UNCHANGED <<database, outside, now, used, ask, principal, timely>>

InsertShare(q) ==
    /\ stage[q] = "allowed" /\ ask[q].op = "share"
    /\ ~Deleting(ask[q].doc)
    /\ \/ /\ ask[q].doc \in docs
          /\ \E grants \in Grants, until \in {Never} \cup {After(h) : h \in Lifetimes} :
                draft' = [draft EXCEPT ![q] = [grants |-> grants, expires |-> until]]
          /\ Goto(q, "flushed")
          /\ UNCHANGED <<database, outside, now, used, ask, principal, timely>>
       \/ /\ ask[q].doc \notin docs
          /\ Refuse(q)

CommitShare(q) ==
    /\ stage[q] = "flushed" /\ ask[q].op = "share"
    /\ share' = [share EXCEPT ![ask[q].share] =
                    [doc |-> ask[q].doc, grants |-> draft[q].grants,
                     expires |-> draft[q].expires, revoked |-> FALSE]]
    /\ End(q)
    /\ UNCHANGED <<docs, guest, comments, outside, now, used>>

\* The link is looked up among the shares of the document in the path.
FindShare(q) ==
    /\ stage[q] = "allowed" /\ ask[q].op = "revoke"
    /\ \/ /\ share[ask[q].share].doc = ask[q].doc
          /\ Goto(q, "found")
          /\ UNCHANGED <<database, outside, now, used, request>>
       \/ /\ share[ask[q].share].doc # ask[q].doc
          /\ Refuse(q)

\* The update waits for the row's lock; a row deleted meanwhile raises.
RevokeShare(q) ==
    /\ stage[q] = "found"
    /\ \/ /\ share[ask[q].share] # NoShare
          /\ ~Deleting(ask[q].doc)
          /\ \A other \in Writers(ask[q].doc) :
                ask[other].op = "revoke" => ask[other].share # ask[q].share
          /\ Goto(q, "flushed")
          /\ UNCHANGED <<database, outside, now, used, request>>
       \/ /\ share[ask[q].share] = NoShare
          /\ Refuse(q)

CommitRevoke(q) ==
    /\ stage[q] = "flushed" /\ ask[q].op = "revoke"
    /\ share' = [share EXCEPT ![ask[q].share].revoked = TRUE]
    /\ End(q)
    /\ UNCHANGED <<docs, guest, comments, outside, now, used>>

\* The cascade locks every row it is to delete, so the statement waits for
\* whoever is writing one of them.
DeleteDocument(q) ==
    /\ stage[q] = "allowed" /\ ask[q].op = "delete"
    /\ Writers(ask[q].doc) = {}
    /\ Goto(q, "flushed")
    /\ UNCHANGED <<database, outside, now, used, request>>

\* Best effort: a failure of the store is only logged.
DeleteBlob(q) ==
    /\ stage[q] = "flushed" /\ ask[q].op = "delete"
    /\ \/ blobs' = blobs \ {ask[q].doc} /\ UNCHANGED orphans
       \/ orphans' = orphans \cup {ask[q].doc} /\ UNCHANGED blobs
    /\ Goto(q, "unlinked")
    /\ UNCHANGED <<database, token, links, now, used, request>>

\* Variant with a bug: the commit comes first and the blob is never unlinked.
Early_CommitDelete(q) ==
    LET d == ask[q].doc
        lost == {s \in Shares : share[s].doc = d}
    IN
    /\ stage[q] = "flushed" /\ ask[q].op = "delete"
    /\ docs' = docs \ {d}
    /\ share' = [s \in Shares |-> IF s \in lost THEN NoShare ELSE share[s]]
    /\ guest' = [g \in Guests |-> IF guest[g] \in lost THEN None ELSE guest[g]]
    /\ comments' = {c \in comments : c.doc # d}
    /\ End(q)
    /\ UNCHANGED <<outside, now, used>>

CommitDelete(q) ==
    LET d == ask[q].doc
        lost == {s \in Shares : share[s].doc = d}
    IN
    /\ stage[q] = "unlinked"
    /\ docs' = docs \ {d}
    /\ share' = [s \in Shares |-> IF s \in lost THEN NoShare ELSE share[s]]
    /\ guest' = [g \in Guests |-> IF guest[g] \in lost THEN None ELSE guest[g]]
    /\ comments' = {c \in comments : c.doc # d}
    /\ End(q)
    /\ UNCHANGED <<outside, now, used>>

\* start_guest_session, which has no bearer token but the link itself.
ResolveActiveShare(q) ==
    /\ stage[q] = "arrived" /\ ask[q].op = "join"
    /\ \/ /\ Active(ask[q].share)
          /\ Goto(q, "known")
          /\ UNCHANGED <<database, outside, now, used, request>>
       \/ /\ ~Active(ask[q].share)
          /\ Refuse(q)

\* Variant with a bug: no foreign key ties a guest session to its share.
Untied_InsertGuest(q) ==
    /\ stage[q] = "known" /\ ask[q].op = "join"
    /\ draft' = [draft EXCEPT ![q].expires = After(GuestTTL)]
    /\ Goto(q, "flushed")
    /\ UNCHANGED <<database, outside, now, used, ask, principal, timely>>

InsertGuest(q) ==
    /\ stage[q] = "known" /\ ask[q].op = "join"
    /\ \/ /\ share[ask[q].share] # NoShare
          /\ ~Deleting(share[ask[q].share].doc)
          /\ draft' = [draft EXCEPT ![q].expires = After(GuestTTL)]
          /\ Goto(q, "flushed")
          /\ UNCHANGED <<database, outside, now, used, ask, principal, timely>>
       \/ /\ share[ask[q].share] = NoShare
          /\ Refuse(q)

\* The token, signed before the commit, reaches the visitor after it.
CommitGuest(q) ==
    /\ stage[q] = "flushed" /\ ask[q].op = "join"
    /\ guest' = [guest EXCEPT ![ask[q].actor] = ask[q].share]
    /\ token' = [token EXCEPT ![ask[q].actor] = draft[q].expires]
    /\ End(q)
    /\ UNCHANGED <<docs, share, comments, blobs, orphans, links, now, used>>

Tick ==
    /\ now < Horizon
    /\ now' = now + 1
    /\ UNCHANGED <<database, outside, used, stage, request>>

-----------------------------------------------------------------------------
(* Specification *)

Proceed(q) ==
    \/ ResolvePrincipal(q) \/ AuthorizeDocument(q)
    \/ GetDocument(q) \/ MintLink(q)
    \/ InsertComment(q) \/ CommitComment(q)
    \/ InsertShare(q) \/ CommitShare(q)
    \/ FindShare(q) \/ RevokeShare(q) \/ CommitRevoke(q)
    \/ DeleteDocument(q) \/ DeleteBlob(q) \/ CommitDelete(q)
    \/ ResolveActiveShare(q) \/ InsertGuest(q) \/ CommitGuest(q)

Next ==
    \/ \E q \in Slots : Arrive(q) \/ Proceed(q) \/ Abandon(q)
    \/ Tick

Spec == Init /\ [][Next]_vars

\* The event loop resumes a request whose awaited call has returned.  Nobody
\* has to send one, and the clock need not move.  Whoever waits for a delete to
\* release a row is next when it does (the row's lock is queued for); a delete
\* itself may be overtaken by inserts, which share the lock among themselves.
AwaitLock(q) == InsertComment(q) \/ InsertShare(q) \/ InsertGuest(q) \/ RevokeShare(q)

FairSpec == Spec /\ \A q \in Slots : WF_vars(Proceed(q)) /\ SF_vars(AwaitLock(q))

-----------------------------------------------------------------------------
(* Properties *)

\* Revocation, expiry and deletion are immediate: a request that arrives after
\* the link it depends on has lapsed, or after its document is gone, never
\* gets as far as a handler, whatever token it carries.
LetThrough(q) ==
    IF ask[q].op = "join" THEN stage[q] \in {"known", "flushed"}
    ELSE stage[q] \in {"allowed", "found", "flushed", "unlinked"}

NoLateGrant == \A q \in Slots : LetThrough(q) => timely[q]

\* Nobody acts beyond what he holds: comments and download links are the owner's
\* own, or a guest's on the one document, and with the permission, of his link.
MayHave(who, d, p) ==
    \/ who \in Users /\ Owner[d] = who
    \/ who \in Guests /\ guest[who] # None
         /\ share[guest[who]].doc = d /\ p \in share[guest[who]].grants

EffectsWithinGrants ==
    /\ \A c \in comments : MayHave(c.author, c.doc, "COMMENT")
    /\ \A l \in links : l.doc \in docs => MayHave(l.holder, l.doc, "VIEW")

\* A deleted document takes everything with it: no link, no guest session and
\* no comment inserted while it was being deleted is left behind.
NothingOutlivesDocument ==
    /\ \A c \in comments : c.doc \in docs
    /\ \A s \in Shares : share[s] # NoShare => share[s].doc \in docs
    /\ \A g \in Guests : guest[g] # None => share[guest[g]] # NoShare

\* A download link is worth nothing once its document is gone, though the files
\* route asks nobody whether it still is there; the exception is a PDF that the
\* log says was left behind, until the link itself expires.
BytesGoWithDocument == \A l \in links : Readable(l) => l.doc \in docs \cup orphans

\* Every request that is not a delete ends, however writers and deletes wait
\* for one another.
EveryRequestEnds == \A q \in Slots :
    stage[q] = "arrived" /\ ask[q].op # "delete" ~> stage[q] = "idle"
=============================================================================
