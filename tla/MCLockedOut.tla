------------------------------ MODULE MCLockedOut ------------------------------
(* Accounts, and beside it the passwords that `securecam-admin user passwd`   *)
(* has told the operator it set.                                              *)
EXTENDS Accounts

VARIABLE told    \* per account: the password last reported, until the account is changed again

toldVars == <<vars, told>>

ToldInit == Init /\ told = [u \in User |-> NoPassword]

\* A thread makes a change of account u in this step.
Touched(u) ==
    \E t \in Thread : /\ request[t].kind = "change"
                      /\ request'[t] # request[t]
                      /\ Head(request[t].todo).user = u

\* A command reports its password; any other change of the account, by anyone,
\* takes the report back.
ToldNext ==
    \/ \E c \in Change :
         /\ CliChange(c)
         /\ told' = [told EXCEPT ![c.user] =
              IF c.kind = "password" THEN c.password ELSE NoPassword]
    \/ /\ \/ Start \/ Stop \/ CliLoad \/ CliEnd
          \/ \E t \in Thread : Dispatch(t) \/ RunChange(t) \/ LoginCheck(t) \/ LoginSave(t)
       /\ told' = [u \in User |-> IF Touched(u) THEN NoPassword ELSE told[u]]

ToldSpec == ToldInit /\ [][ToldNext]_toldVars

\* A password that `securecam-admin user passwd` reported as updated is the one in
\* the file until somebody changes the account again (cli/admin.py: "Password
\* updated for"; README: the way out for somebody who is locked out).
ReportedPasswordStays ==
    \A u \in User : told[u] # NoPassword => file[u].password = told[u]
=============================================================================
