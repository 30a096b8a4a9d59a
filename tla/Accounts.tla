------------------------------ MODULE Accounts ------------------------------
(***************************************************************************)
(* Accounts: signup, login, and resetting a forgotten password by mail.      *)
(* Every request is a transaction of its own (READ COMMITTED); what it has   *)
(* flushed is locked and invisible to the others until it commits.           *)
(*                                                                          *)
(* A password hash stands for the password it opens to and for whether it    *)
(* was written under older Argon2 parameters; a digest of a reset token for  *)
(* the token.  No operation deletes an account or deactivates one.           *)
(***************************************************************************)
EXTENDS Naturals

CONSTANTS
    Emails, Users, Tokens,   \* addresses; ids of accounts and of reset tokens
    Passwords, None,
    Starts,                  \* accounts there may be to begin with, and ids already given
    Slots,                   \* requests in progress at the same time
    ResetTTL,                \* password_reset_ttl_minutes
    Horizon                  \* bound on the clock

Account == [email : Emails, password : Passwords, legacy : BOOLEAN, active : BOOLEAN]

ResetRow == [user : Users, expires : Nat, used : BOOLEAN]

ASSUME AccountsAssumption ==
    /\ None \notin Emails \cup Users \cup Tokens \cup Passwords
    /\ None \notin Account /\ None \notin ResetRow
    /\ Users \cap Tokens = {}
    /\ Starts \subseteq [registered : [Users -> Account \cup {None}],
                          given : SUBSET (Users \cup Tokens)]
    /\ \A s \in Starts : \A u, v \in Users :
          s.registered[u] # None =>
             /\ u \in s.given
             /\ s.registered[v] # None /\ s.registered[u].email = s.registered[v].email
                  => u = v
    /\ ResetTTL \in Nat \ {0}
    /\ Horizon \in Nat

VARIABLES
    account,     \* committed users
    reset,       \* committed password_reset_tokens
    mail,        \* tokens whose link has been mailed
    now,         \* the clock
    stage,       \* how far the request in each slot has got
    ask,         \* what it asks for
    session,     \* the rows it works on: a user, tokens, the expiry of a new one
    timely,      \* history: a reset whose token had not lapsed when it arrived
    before,      \* history: tokens committed when this one was asked for
    issued,      \* history: ids already given to requests
    chosen,      \* history: the password last chosen for each account
    overtaken    \* history: accounts reset while a login was upgrading their hash

database == <<account, reset>>
history == <<before, issued, chosen, overtaken>>

vars == <<account, reset, mail, now, stage, ask, session, timely, before, issued,
          chosen, overtaken>>

-----------------------------------------------------------------------------
(* Rows and requests *)

\* Beyond the clock: no expiry.
After(ttl) == IF now + ttl > Horizon THEN Horizon + 1 ELSE now + ttl

\* PasswordResetToken.is_usable, of a token that is there.
Usable(t) == reset[t] # None /\ ~reset[t].used /\ now < reset[t].expires

Lapsed(t) == reset[t] # None /\ ~Usable(t)

Request == [op : {"signup", "login", "forgot", "reset"}, email : Emails \cup {None},
            user : Users \cup {None}, token : Tokens \cup {None},
            password : Passwords \cup {None}]

NoRequest == [op |-> "none", email |-> None, user |-> None, token |-> None,
              password |-> None]

Session == [user : Users \cup {None}, seen : SUBSET Tokens, expires : Nat]

NoSession == [user |-> None, seen |-> {}, expires |-> 0]

Stage == {"idle", "arrived", "free", "inserted", "verified", "found", "voided",
          "mailed", "checked", "updated", "burned"}

TypeOK ==
    /\ account \in [Users -> Account \cup {None}]
    /\ reset \in [Tokens -> ResetRow \cup {None}]
    /\ mail \subseteq Tokens
    /\ now \in 0..Horizon
    /\ stage \in [Slots -> Stage]
    /\ ask \in [Slots -> Request \cup {NoRequest}]
    /\ session \in [Slots -> Session]
    /\ timely \in [Slots -> BOOLEAN]
    /\ before \in [Tokens -> SUBSET Tokens]
    /\ issued \subseteq Users \cup Tokens
    /\ chosen \in [Users -> Passwords \cup {None}]
    /\ overtaken \subseteq Users

Init ==
    /\ \E s \in Starts :
          /\ account = s.registered
          /\ issued = s.given
          /\ chosen = [u \in Users |-> IF s.registered[u] = None
                                         THEN None ELSE s.registered[u].password]
    /\ reset = [t \in Tokens |-> None]
    /\ mail = {}
    /\ now = 0
    /\ stage = [q \in Slots |-> "idle"]
    /\ ask = [q \in Slots |-> NoRequest]
    /\ session = [q \in Slots |-> NoSession]
    /\ timely = [q \in Slots |-> FALSE]
    /\ before = [t \in Tokens |-> {}]
    /\ overtaken = {}

\* get_by_email: at most one account has the address.
WithEmail(e) == {u \in Users : account[u] # None /\ account[u].email = e}

-----------------------------------------------------------------------------
(* Row locks.  A user's password is no key column, so a row of his that is    *)
(* inserted elsewhere waits for nobody.                                       *)

UserLocked(u) == \E q \in Slots : stage[q] \in {"updated", "burned"} /\ session[q].user = u

TokenLocked(t) == \E q \in Slots :
    \/ stage[q] = "burned" /\ ask[q].token = t
    \/ stage[q] \in {"voided", "mailed"} /\ t \in session[q].seen

-----------------------------------------------------------------------------
(* The life of a request *)

Goto(q, next) == stage' = [stage EXCEPT ![q] = next]

\* The response is sent, or the session rolled back: the slot is free again.
End(q) ==
    /\ Goto(q, "idle")
    /\ ask' = [ask EXCEPT ![q] = NoRequest]
    /\ session' = [session EXCEPT ![q] = NoSession]
    /\ timely' = [timely EXCEPT ![q] = FALSE]

Refuse(q) == End(q) /\ UNCHANGED <<database, mail, now, history>>

\* The request's locals alone change.
Continue(q, next) ==
    /\ Goto(q, next)
    /\ UNCHANGED <<database, mail, now, history, ask, timely>>

Arrive(q) ==
    /\ stage[q] = "idle"
    /\ \E a \in Request :
          /\ \/ /\ a.op = "signup" /\ a.email # None /\ a.password # None
                /\ a.user \in Users \ issued /\ a.token = None
                /\ issued' = issued \cup {a.user} /\ UNCHANGED before
             \/ /\ a.op = "login" /\ a.email # None /\ a.password # None
                /\ a.user = None /\ a.token = None
                /\ UNCHANGED <<issued, before>>
             \/ /\ a.op = "forgot" /\ a.email # None /\ a.password = None
                /\ a.user = None /\ a.token \in Tokens \ issued
                /\ issued' = issued \cup {a.token}
                /\ before' = [before EXCEPT ![a.token] = {t \in Tokens : reset[t] # None}]
             \/ /\ a.op = "reset" /\ a.email = None /\ a.password # None
                /\ a.user = None /\ a.token \in mail
                /\ UNCHANGED <<issued, before>>
          /\ ask' = [ask EXCEPT ![q] = a]
          /\ timely' = [timely EXCEPT ![q] = a.op = "reset" /\ ~Lapsed(a.token)]
    /\ Goto(q, "arrived")
    /\ UNCHANGED <<database, mail, now, session, chosen, overtaken>>

\* Anything raised on the way, a client that goes away, a worker that dies.
Abandon(q) == stage[q] # "idle" /\ Refuse(q)

-----------------------------------------------------------------------------
(* signup *)

EmailExists(q) ==
    /\ stage[q] = "arrived" /\ ask[q].op = "signup"
    /\ \/ WithEmail(ask[q].email) = {} /\ Continue(q, "free") /\ UNCHANGED session
       \/ WithEmail(ask[q].email) # {} /\ Refuse(q)

\* Variant with a bug: the address has no unique index.
NoIndex_InsertUser(q) ==
    /\ stage[q] = "free"
    /\ Continue(q, "inserted") /\ UNCHANGED session

\* The unique index makes an insert of the same address wait, and then fail.
InsertUser(q) ==
    /\ stage[q] = "free"
    /\ \A r \in Slots : stage[r] = "inserted" => ask[r].email # ask[q].email
    /\ \/ WithEmail(ask[q].email) = {} /\ Continue(q, "inserted") /\ UNCHANGED session
       \/ WithEmail(ask[q].email) # {} /\ Refuse(q)

CommitSignup(q) ==
    LET a == ask[q] IN
    /\ stage[q] = "inserted"
    /\ account' = [account EXCEPT ![a.user] =
                      [email |-> a.email, password |-> a.password,
                       legacy |-> FALSE, active |-> TRUE]]
    /\ chosen' = [chosen EXCEPT ![a.user] = a.password]
    /\ End(q)
    /\ UNCHANGED <<reset, mail, now, before, issued, overtaken>>

-----------------------------------------------------------------------------
(* login *)

Opens(u, password) == account[u].password = password /\ account[u].active

\* Variant with a bug: a legacy hash is replaced before it is verified.
Unverified_Authenticate(q) ==
    /\ stage[q] = "arrived" /\ ask[q].op = "login"
    /\ \/ \E u \in WithEmail(ask[q].email) :
             /\ account[u].legacy
             /\ session' = [session EXCEPT ![q].user = u]
             /\ Continue(q, "verified")
       \/ (\A u \in WithEmail(ask[q].email) : ~account[u].legacy) /\ Refuse(q)

\* A hash written under older parameters is to be replaced; any other login
\* has nothing to commit.
Authenticate(q) ==
    LET users == {u \in WithEmail(ask[q].email) : Opens(u, ask[q].password)} IN
    /\ stage[q] = "arrived" /\ ask[q].op = "login"
    /\ \/ \E u \in users :
             /\ account[u].legacy
             /\ session' = [session EXCEPT ![q].user = u]
             /\ Continue(q, "verified")
       \/ (\A u \in users : ~account[u].legacy) /\ Refuse(q)

\* A login of u has verified the password and not yet written its new hash.
Upgrading(q, u) == stage[q] = "verified" /\ session[q].user = u

\* The controller's commit, which flushes the update first.
CommitLogin(q) ==
    LET u == session[q].user IN
    /\ stage[q] = "verified"
    /\ ~UserLocked(u)
    /\ account' = [account EXCEPT ![u].password = ask[q].password, ![u].legacy = FALSE]
    /\ End(q)
    /\ UNCHANGED <<reset, mail, now, history>>

-----------------------------------------------------------------------------
(* forgot-password *)

\* Variant with a bug: an address nobody has is given a token as well.
AnyAddress_FindUser(q) ==
    /\ stage[q] = "arrived" /\ ask[q].op = "forgot"
    /\ UNCHANGED session
    /\ Continue(q, "found")

\* get_by_email; the UPDATE that follows sees the tokens committed by then.
FindUser(q) ==
    LET users == {u \in WithEmail(ask[q].email) : account[u].active} IN
    /\ stage[q] = "arrived" /\ ask[q].op = "forgot"
    /\ \/ \E u \in users :
             /\ session' = [session EXCEPT ![q].user = u,
                               ![q].seen = {t \in Tokens : reset[t] # None
                                              /\ reset[t].user = u /\ ~reset[t].used}]
             /\ Continue(q, "found")
       \/ users = {} /\ Refuse(q)

\* Variant with a bug: a token somebody else has locked is skipped.
SkipLocked_InvalidateOutstanding(q) ==
    /\ stage[q] = "found"
    /\ session' = [session EXCEPT ![q].seen = {t \in @ : ~reset[t].used /\ ~TokenLocked(t)},
                                  ![q].expires = After(ResetTTL)]
    /\ Continue(q, "voided")

\* invalidate_outstanding waits for the rows it saw and looks at each again
\* (all in one order, so they are taken together); then the new row is added.
InvalidateOutstanding(q) ==
    /\ stage[q] = "found"
    /\ \A t \in session[q].seen : ~TokenLocked(t)
    /\ session' = [session EXCEPT ![q].seen = {t \in @ : ~reset[t].used},
                                  ![q].expires = After(ResetTTL)]
    /\ Continue(q, "voided")

\* The sender reports a failure to nobody but the log.
SendEmail(q) ==
    /\ stage[q] = "voided"
    /\ mail' \in {mail, mail \cup {ask[q].token}}
    /\ Goto(q, "mailed")
    /\ UNCHANGED <<database, now, history, ask, session, timely>>

CommitForgot(q) ==
    /\ stage[q] = "mailed"
    /\ reset' = [t \in Tokens |->
                    CASE t = ask[q].token ->
                           [user |-> session[q].user, expires |-> session[q].expires,
                            used |-> FALSE]
                      [] t \in session[q].seen -> [reset[t] EXCEPT !.used = TRUE]
                      [] OTHER -> reset[t]]
    /\ End(q)
    /\ UNCHANGED <<account, mail, now, history>>

-----------------------------------------------------------------------------
(* reset-password *)

\* Variant with a bug: only the expiry of the link is looked at.
Unburned_GetToken(q) ==
    LET t == ask[q].token IN
    /\ stage[q] = "arrived" /\ ask[q].op = "reset"
    /\ \/ /\ reset[t] # None /\ now < reset[t].expires
          /\ session' = [session EXCEPT ![q].user = reset[t].user]
          /\ Continue(q, "checked")
       \/ ~(reset[t] # None /\ now < reset[t].expires) /\ Refuse(q)

\* get_by_token_hash takes no lock.
GetToken(q) ==
    LET t == ask[q].token IN
    /\ stage[q] = "arrived" /\ ask[q].op = "reset"
    /\ \/ /\ Usable(t)
          /\ session' = [session EXCEPT ![q].user = reset[t].user]
          /\ Continue(q, "checked")
       \/ ~Usable(t) /\ Refuse(q)

\* One flush writes both rows, the user's first.
UpdateUser(q) ==
    /\ stage[q] = "checked"
    /\ ~UserLocked(session[q].user)
    /\ Continue(q, "updated") /\ UNCHANGED session

\* Variant with a bug: a token burned meanwhile is waited for.
Waiting_MarkUsed(q) ==
    /\ stage[q] = "updated"
    /\ ~TokenLocked(ask[q].token) /\ ~reset[ask[q].token].used
    /\ Continue(q, "burned") /\ UNCHANGED session

MarkUsed(q) ==
    /\ stage[q] = "updated"
    /\ ~TokenLocked(ask[q].token)
    /\ Continue(q, "burned") /\ UNCHANGED session

CommitReset(q) ==
    LET a == ask[q] u == session[q].user IN
    /\ stage[q] = "burned"
    /\ account' = [account EXCEPT ![u].password = a.password, ![u].legacy = FALSE]
    /\ reset' = [reset EXCEPT ![a.token].used = TRUE]
    /\ chosen' = [chosen EXCEPT ![u] = a.password]
    /\ overtaken' = overtaken \cup {v \in {u} : \E r \in Slots : Upgrading(r, v)}
    /\ End(q)
    /\ UNCHANGED <<mail, now, before, issued>>

Tick ==
    /\ now < Horizon
    /\ now' = now + 1
    /\ UNCHANGED <<database, mail, history, stage, ask, session, timely>>

-----------------------------------------------------------------------------
(* Specification *)

Proceed(q) ==
    \/ EmailExists(q) \/ InsertUser(q) \/ CommitSignup(q)
    \/ Authenticate(q) \/ CommitLogin(q)
    \/ FindUser(q) \/ InvalidateOutstanding(q) \/ SendEmail(q) \/ CommitForgot(q)
    \/ GetToken(q) \/ UpdateUser(q) \/ MarkUsed(q) \/ CommitReset(q)

Next ==
    \/ \E q \in Slots : Arrive(q) \/ Proceed(q) \/ Abandon(q)
    \/ Tick

Spec == Init /\ [][Next]_vars

\* The event loop resumes a request whose awaited call has returned, and whoever
\* sleeps on a row's lock is next when it is released.
AwaitLock(q) == InsertUser(q) \/ CommitLogin(q) \/ InvalidateOutstanding(q)
                \/ UpdateUser(q) \/ MarkUsed(q)

FairSpec == Spec /\ \A q \in Slots : WF_vars(Proceed(q)) /\ SF_vars(AwaitLock(q))

-----------------------------------------------------------------------------
(* Properties *)

\* One address, one account, however two signups overlap.
OneAccountPerEmail == \A u, v \in Users :
    account[u] # None /\ account[v] # None /\ account[u].email = account[v].email
        => u = v

\* A link that was burned, voided or expired when a reset arrives changes no
\* password, whatever other requests are in progress.
NoLateRedemption == \A q \in Slots :
    stage[q] \in {"checked", "updated", "burned"} => timely[q]

\* A new request voids any earlier link: of two links that both still work,
\* neither was there when the other was asked for.
NewestLinkOnly == \A s, t \in Tokens :
    Usable(s) /\ Usable(t) /\ reset[s].user = reset[t].user => s \notin before[t]

\* The password that opens an account is the one last chosen for it, at signup
\* or by a reset.  Only a login that had verified the old one, and was about to
\* upgrade its hash, when the reset committed can take that back.
ChosenPasswordOpens == \A u \in Users \ overtaken :
    account[u] # None => account[u].password = chosen[u]

\* Every request ends, whoever locks whose row first.
EveryRequestEnds == \A q \in Slots : stage[q] = "arrived" ~> stage[q] = "idle"
=============================================================================
