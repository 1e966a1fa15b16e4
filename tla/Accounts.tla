-------------------------------- MODULE Accounts --------------------------------
(***************************************************************************)
(* The user database (auth/store.py) and everybody who changes it: API     *)
(* requests on their threads (api/routes.py behind api/server.py) and      *)
(* `securecam-admin user` (cli/admin.py), which is another process.  Each  *)
(* process reads users.json once, works on its own memory and writes the   *)
(* whole of it back.  All accounts are bound to this device.               *)
(***************************************************************************)
EXTENDS Naturals, FiniteSets, Sequences

CONSTANTS
    User,           \* names of accounts
    Password,       \* passwords that validate_password accepts
    NoPassword,     \* of an account that does not exist
    Thread,         \* API requests under way at once
    SaveMayFail     \* whether a write of users.json may raise

ASSUME AccountsAssumption ==
    /\ NoPassword \notin Password
    /\ SaveMayFail \in BOOLEAN
    /\ IsFiniteSet(User)

VARIABLES
    up,         \* the service runs
    mem,        \* UserStore._users of the service
    file,       \* users.json
    cli,        \* a run of securecam-admin: what it loaded, while it is on
    request,    \* per API thread: the changes it still has to make, or a login
    agreed      \* history: since the last load, file and memory were written together

vars == <<up, mem, file, cli, request, agreed>>

Role == {"viewer", "admin"}
Account == [role: Role, enabled: BOOLEAN, password: Password]
NoAccount == [role |-> "none", enabled |-> FALSE, password |-> NoPassword]
Database == [User -> Account \cup {NoAccount}]

Change ==
    [kind: {"add"}, user: User, role: Role, password: Password]
        \cup [kind: {"password"}, user: User, password: Password]
        \cup [kind: {"role"}, user: User, role: Role]
        \cup [kind: {"enabled"}, user: User, enabled: BOOLEAN]
        \cup [kind: {"delete"}, user: User]

Optional(S) == {<<>>} \cup {<<c>> : c \in S}

\* The bodies a request may carry: POST adds, DELETE deletes, and PATCH changes
\* password, role and enabled in this order, each in a transaction of its own.
Bodies ==
    LET of(kind, u) == {c \in Change : c.kind = kind /\ c.user = u}
        patch(u) == {p \o r \o e : p \in Optional(of("password", u)),
                                   r \in Optional(of("role", u)),
                                   e \in Optional(of("enabled", u))} \ {<<>>}
    IN  {<<c>> : c \in {d \in Change : d.kind \in {"add", "delete"}}}
            \cup UNION {patch(u) : u \in User}

Idle == [kind |-> "idle", todo |-> <<>>]
Login == [kind |-> "login", todo |-> <<>>]
Requests == {Idle, Login} \cup [kind: {"change"}, todo: Seq(Change) \ {<<>>}]

NoShell == [on |-> FALSE, users |-> [u \in User |-> NoAccount]]

-----------------------------------------------------------------------------
(* The store                                                               *)

IsAdmin(a) == a.enabled /\ a.role = "admin"
Admins(db) == {u \in User : IsAdmin(db[u])}
HasAdmin(db) == Admins(db) # {}
Exists(db, u) == db[u] # NoAccount

\* has_permission(role_for(device), MANAGE_USERS) of an enabled account.
MayManage(db, u) == IsAdmin(db[u])

\* The account holds the admin role and no more than one administrator is enabled.
LastAdmin(db, u) == db[u].role = "admin" /\ Cardinality(Admins(db)) <= 1

RefuseAdd(db, c) == c.kind = "add" /\ Exists(db, c.user)
RefuseUnknown(db, c) == c.kind # "add" /\ ~Exists(db, c.user)
RefuseRole_Unchecked(db, c) == FALSE
RefuseRole(db, c) == c.kind = "role" /\ c.role # "admin" /\ LastAdmin(db, c.user)
RefuseEnabled(db, c) == c.kind = "enabled" /\ ~c.enabled /\ LastAdmin(db, c.user)
RefuseDelete(db, c) == c.kind = "delete" /\ LastAdmin(db, c.user)

Refused(db, c) ==
    \/ RefuseAdd(db, c)
    \/ RefuseUnknown(db, c)
    \/ RefuseRole(db, c)
    \/ RefuseEnabled(db, c)
    \/ RefuseDelete(db, c)

\* The account as the change leaves it.
ChangedAccount_Hollow(a, c) ==
    IF c.kind = "delete" THEN [a EXCEPT !.role = "none"] ELSE a
ChangedAccount(a, c) ==
    CASE c.kind = "add" -> [role |-> c.role, enabled |-> TRUE, password |-> c.password]
      [] c.kind = "password" -> [a EXCEPT !.password = c.password]
      [] c.kind = "role" -> [a EXCEPT !.role = c.role]
      [] c.kind = "enabled" -> [a EXCEPT !.enabled = c.enabled]
      [] c.kind = "delete" -> NoAccount

Changed(db, c) == [db EXCEPT ![c.user] = ChangedAccount(@, c)]

-----------------------------------------------------------------------------
(* The service                                                             *)

\* Controller.__init__ reads the database; requests of the previous run are gone.
Start ==
    /\ ~up
    /\ up' = TRUE
    /\ mem' = file
    /\ agreed' = TRUE
    /\ request' = [t \in Thread |-> Idle]
    /\ UNCHANGED <<file, cli>>

\* The process ends, in order or not; the file is replaced atomically.
Stop ==
    /\ up
    /\ up' = FALSE
    /\ request' = [t \in Thread |-> Idle]
    /\ UNCHANGED <<mem, file, cli, agreed>>

\* _save: the whole memory db goes to the file, or the write raises.
SaveOk(db) == file' = db /\ agreed' = TRUE
SaveFails == SaveMayFail /\ agreed' = FALSE /\ UNCHANGED file

\* _dispatch lets the request of a current administrator through to its handler.
\* Nothing looks at the account again before the changes are made.
Dispatch(t) ==
    /\ up
    /\ request[t] = Idle
    /\ \E s \in User : MayManage(mem, s)
    /\ \E body \in Bodies :
         request' = [request EXCEPT ![t] = [kind |-> "change", todo |-> body]]
    /\ UNCHANGED <<up, mem, file, cli, agreed>>

\* One change of a request: refused (400, what follows is dropped), saved, or
\* kept in memory although the save raised (500, what follows is dropped).
RunChange_Unsaved(t) ==
    /\ up
    /\ request[t].kind = "change"
    /\ LET c == Head(request[t].todo) IN
         /\ ~Refused(mem, c)
         /\ mem' = Changed(mem, c)
    /\ request' = [request EXCEPT ![t] = Idle]
    /\ UNCHANGED <<up, cli, file, agreed>>
RunChange(t) ==
    /\ up
    /\ request[t].kind = "change"
    /\ LET c == Head(request[t].todo)
           rest == Tail(request[t].todo)
       IN  \/ /\ Refused(mem, c)
              /\ request' = [request EXCEPT ![t] = Idle]
              /\ UNCHANGED <<mem, file, agreed>>
           \/ /\ ~Refused(mem, c)
              /\ mem' = Changed(mem, c)
              /\ SaveOk(mem')
              /\ request' = [request EXCEPT ![t] =
                   IF rest = <<>> THEN Idle ELSE [kind |-> "change", todo |-> rest]]
           \/ /\ ~Refused(mem, c)
              /\ mem' = Changed(mem, c)
              /\ SaveFails
              /\ request' = [request EXCEPT ![t] = Idle]
    /\ UNCHANGED <<up, cli>>

\* authenticate found the account and the password right, outside the lock.
LoginCheck(t) ==
    /\ up
    /\ request[t] = Idle
    /\ \E u \in User : Exists(mem, u) /\ mem[u].enabled
    /\ request' = [request EXCEPT ![t] = Login]
    /\ UNCHANGED <<up, mem, file, cli, agreed>>

\* ... and notes the time of the login, which writes the whole database.  The
\* account may have changed, or be gone, by now; its last_login_at is not modelled.
LoginSave(t) ==
    /\ up
    /\ request[t] = Login
    /\ request' = [request EXCEPT ![t] = Idle]
    /\ SaveOk(mem) \/ SaveFails
    /\ UNCHANGED <<up, mem, cli>>

-----------------------------------------------------------------------------
(* securecam-admin                                                         *)

\* The command builds a Controller, which loads the database ...
CliLoad ==
    /\ ~cli.on
    /\ cli' = [on |-> TRUE, users |-> file]
    /\ UNCHANGED <<up, mem, file, request, agreed>>

\* ... and some time later (it may ask for a password) makes its one change, or is
\* refused or given up.
CliChange(c) ==
    /\ cli.on
    /\ ~Refused(cli.users, c)
    /\ file' = Changed(cli.users, c)
    /\ agreed' = FALSE
    /\ cli' = NoShell
    /\ UNCHANGED <<up, mem, request>>

CliEnd ==
    /\ cli.on
    /\ cli' = NoShell
    /\ UNCHANGED <<up, mem, file, request, agreed>>

-----------------------------------------------------------------------------
\* The installation has created an administrator; the service is about to start.
Init ==
    /\ up = FALSE
    /\ file \in {db \in Database : HasAdmin(db)}
    /\ mem = file
    /\ cli = NoShell
    /\ request = [t \in Thread |-> Idle]
    /\ agreed = TRUE

Next ==
    \/ Start
    \/ Stop
    \/ \E t \in Thread :
         \/ Dispatch(t)
         \/ RunChange(t)
         \/ LoginCheck(t)
         \/ LoginSave(t)
    \/ CliLoad
    \/ \E c \in Change : CliChange(c)
    \/ CliEnd

Spec == Init /\ [][Next]_vars

-----------------------------------------------------------------------------
\* Every variable has its type.
TypeOK ==
    /\ up \in BOOLEAN
    /\ mem \in Database
    /\ file \in Database
    /\ cli \in [on: BOOLEAN, users: Database]
    /\ request \in [Thread -> Requests]
    /\ agreed \in BOOLEAN

\* An enabled administrator remains in the file and in the memory of every process
\* (docs/security.md: "The last admin account cannot be deleted, demoted or
\* disabled"): when two administrators demote each other in concurrent requests,
\* when saves fail, across restarts, and although the service and securecam-admin
\* overwrite each other's changes.
AdminsRemain ==
    /\ HasAdmin(file)
    /\ HasAdmin(mem)
    /\ cli.on => HasAdmin(cli.users)

\* Unless a save has failed since, or securecam-admin has written the file, the
\* file holds what the service believes: every change a request confirmed, and
\* every half of a PATCH that was refused later, survives a restart.
ConfirmedIsSaved == up /\ agreed => file = mem
=============================================================================
