----------------------------- MODULE MCAccounts -----------------------------
(***************************************************************************)
(* A small instance of Accounts with two starts.  In both, one account has a*)
(* hash written under older parameters.  In one its password is reset while *)
(* it logs in; in the other people sign up and log in, and a deactivated    *)
(* account is there too.                                                    *)
(***************************************************************************)
EXTENDS Accounts, TLC

CONSTANTS e1, e2, e3, u1, u2, u3, u4, t1, t2, p1, p2, q1, q2

ThreeEmails == {e1, e2, e3}
FourUsers == {u1, u2, u3, u4}
TwoTokens == {t1, t2}
TwoPasswords == {p1, p2}
TwoSlots == {q1, q2}

RowOf(email, legacy, active) ==
    [email |-> email, password |-> p1, legacy |-> legacy, active |-> active]

Present(first) == [u \in Users |-> IF u = u1 THEN first ELSE None]

Resets == [registered |-> Present(RowOf(e1, TRUE, TRUE)), given |-> Users]

SignupsAndLogins ==
    [registered |-> [Present(RowOf(e1, TRUE, TRUE)) EXCEPT ![u2] = RowOf(e2, FALSE, FALSE)],
     given |-> {u1, u2} \cup Tokens]

ResetsOrSignups == {Resets, SignupsAndLogins}
=============================================================================
