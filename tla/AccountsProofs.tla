----------------------------- MODULE AccountsProofs -----------------------------
(***************************************************************************)
(* Proofs about Accounts, for any set of accounts, passwords and requests. *)
(*                                                                         *)
(* The rule that protects the last administrator is local to one change of *)
(* one copy of the database (ChangeKeepsAdmin); what makes it hold for the *)
(* system is that every copy, the file's, the service's and the command's, *)
(* is only ever replaced by another copy or changed by such a change.      *)
(***************************************************************************)
EXTENDS Accounts, FiniteSetTheorems, TLAPS

-----------------------------------------------------------------------------
(* The store                                                               *)

\* When more than one administrator is enabled, one of them is somebody else.
LEMMA SomebodyElse ==
    ASSUME NEW db \in Database, NEW u \in User,
           ~(Cardinality(Admins(db)) <= 1)
    PROVE  \E v \in User \ {u} : IsAdmin(db[v])
<1>1. SUFFICES ASSUME ~\E v \in User \ {u} : IsAdmin(db[v]) PROVE FALSE
  OBVIOUS
<1>2. Admins(db) \subseteq {u}
  BY <1>1 DEF Admins
<1>3. IsFiniteSet({u}) /\ Cardinality({u}) = 1
  BY FS_Singleton
<1>4. Cardinality(Admins(db)) <= Cardinality({u})
  BY <1>2, <1>3, FS_Subset
<1>5. QED
  BY <1>3, <1>4

\* A change that is not refused leaves a well-formed database.
LEMMA ChangeKeepsType ==
    ASSUME NEW db \in Database, NEW c \in Change, ~Refused(db, c)
    PROVE  c.user \in User /\ Changed(db, c) \in Database
<1>1. c.user \in User
  BY DEF Change
<1>2. db[c.user] \in Account \cup {NoAccount}
  BY <1>1 DEF Database
<1>3. ChangedAccount(db[c.user], c) \in Account \cup {NoAccount}
  <2>1. CASE c.kind = "add"
    BY <2>1 DEF Change, ChangedAccount, Account
  <2>2. CASE c.kind = "delete"
    BY <2>2 DEF ChangedAccount
  <2>3. CASE c.kind \in {"password", "role", "enabled"}
    <3>1. db[c.user] \in Account
      BY <1>2, <2>3 DEF Refused, RefuseUnknown, Exists
    <3>2. QED
      BY <2>3, <3>1 DEF Change, ChangedAccount, Account
  <2>4. QED
    BY <2>1, <2>2, <2>3 DEF Change
<1>4. QED
  BY <1>1, <1>3 DEF Database, Changed

\* The last administrator survives every change that is not refused: the checks of
\* set_role, set_enabled and delete cover each way to lose one, and no other change
\* can take an administrator away.
LEMMA ChangeKeepsAdmin ==
    ASSUME NEW db \in Database, NEW c \in Change, ~Refused(db, c), HasAdmin(db)
    PROVE  HasAdmin(Changed(db, c))
<1>1. c.user \in User
  BY ChangeKeepsType
<1>2. PICK a \in User : IsAdmin(db[a])
  BY DEF HasAdmin, Admins
<1>3. \A v \in User \ {c.user} : Changed(db, c)[v] = db[v]
  BY <1>1 DEF Changed, Database
<1>4. Changed(db, c)[c.user] = ChangedAccount(db[c.user], c)
  BY <1>1 DEF Changed, Database
<1>5. SUFFICES \E v \in User : IsAdmin(Changed(db, c)[v])
  BY DEF HasAdmin, Admins
<1>6. CASE a # c.user
  BY <1>2, <1>3, <1>6
<1>7. CASE a = c.user /\ (c.kind = "password" \/ (c.kind = "role" /\ c.role = "admin")
                            \/ (c.kind = "enabled" /\ c.enabled))
  <2>1. db[a] \in Account \cup {NoAccount} /\ db[a].enabled /\ db[a].role = "admin"
    BY <1>2 DEF Database, IsAdmin
  <2>2. IsAdmin(ChangedAccount(db[a], c))
    BY <1>7, <2>1 DEF ChangedAccount, IsAdmin, Account, NoAccount
  <2>3. QED
    BY <1>1, <1>4, <1>7, <2>2
<1>8. CASE a = c.user /\ c.kind = "add"
  BY <1>2, <1>8 DEF Refused, RefuseAdd, Exists, IsAdmin, NoAccount
<1>9. CASE a = c.user /\ (c.kind = "delete" \/ (c.kind = "role" /\ c.role # "admin")
                            \/ (c.kind = "enabled" /\ ~c.enabled))
  <2>1. ~(Cardinality(Admins(db)) <= 1)
    BY <1>2, <1>9 DEF Refused, RefuseRole, RefuseEnabled, RefuseDelete, LastAdmin, IsAdmin
  <2>2. PICK v \in User \ {c.user} : IsAdmin(db[v])
    BY <1>1, <2>1, SomebodyElse
  <2>3. QED
    BY <1>3, <2>2
<1>10. QED
  BY <1>6, <1>7, <1>8, <1>9 DEF Change

-----------------------------------------------------------------------------
(* Types                                                                   *)

\* What a request carries is a non-empty sequence of changes.
LEMMA BodiesAreChanges ==
    Bodies \subseteq Seq(Change) \ {<<>>}
<1> DEFINE of(kind, u) == {c \in Change : c.kind = kind /\ c.user = u}
<1>1. ASSUME NEW S \in SUBSET Change, NEW s \in Optional(S)
      PROVE  s \in Seq(Change)
  <2>1. CASE s = <<>>
    BY <2>1
  <2>2. CASE \E c \in S : s = <<c>>
    BY <2>2
  <2>3. QED
    BY <1>1, <2>1, <2>2 DEF Optional
<1>2. ASSUME NEW u \in User, NEW p \in Optional(of("password", u)),
             NEW r \in Optional(of("role", u)), NEW e \in Optional(of("enabled", u))
      PROVE  p \o r \o e \in Seq(Change)
  <2>1. p \in Seq(Change) /\ r \in Seq(Change) /\ e \in Seq(Change)
    BY <1>1, <1>2
  <2>2. QED
    BY <2>1
<1>3. ASSUME NEW c \in Change PROVE <<c>> \in Seq(Change) \ {<<>>}
  BY <1>3
<1>4. SUFFICES ASSUME NEW b \in Bodies PROVE b \in Seq(Change) \ {<<>>}
  OBVIOUS
<1>5. CASE \E c \in Change : b = <<c>>
  BY <1>3, <1>5
<1>6. CASE \E u \in User :
             \E p \in Optional(of("password", u)), r \in Optional(of("role", u)),
                e \in Optional(of("enabled", u)) : b = p \o r \o e /\ b # <<>>
  BY <1>2, <1>6
<1> DEFINE patch(u) == {p \o r \o e : p \in Optional(of("password", u)),
                                     r \in Optional(of("role", u)),
                                     e \in Optional(of("enabled", u))} \ {<<>>}
           single == {<<c>> : c \in {d \in Change : d.kind \in {"add", "delete"}}}
<1>7. Bodies = single \cup UNION {patch(u) : u \in User}
  BY DEF Bodies
<1>8. CASE b \in single
  BY <1>5, <1>8
<1>9. CASE \E u \in User : b \in patch(u)
  <2> HIDE DEF patch, of
  <2>1. PICK u \in User : b \in patch(u)
    BY <1>9
  <2>2. \E p \in Optional(of("password", u)), r \in Optional(of("role", u)),
           e \in Optional(of("enabled", u)) : b = p \o r \o e /\ b # <<>>
    BY <2>1 DEF patch
  <2>3. QED
    BY <1>6, <2>2
<1> HIDE DEF patch, single, of
<1>10. QED
  BY <1>4, <1>7, <1>8, <1>9

\* The first change of a request and what remains of it.
LEMMA TakeOne ==
    ASSUME NEW t \in Thread, request \in [Thread -> Requests],
           request[t].kind = "change"
    PROVE  /\ Head(request[t].todo) \in Change
           /\ Tail(request[t].todo) \in Seq(Change)
<1>1. request[t] \in [kind: {"change"}, todo: Seq(Change) \ {<<>>}]
  BY DEF Requests, Idle, Login
<1>2. request[t].todo \in Seq(Change) \ {<<>>}
  BY <1>1
<1>3. QED
  BY <1>2

-----------------------------------------------------------------------------
(* The system                                                              *)

\* A copy of the database that somebody may go on from.
Sound(db) == db \in Database /\ HasAdmin(db)

\* What the three invariants need to be inductive together.  The command's copy
\* counts only while it is on: an idle command holds the empty database.
AccountsInv ==
    /\ TypeOK
    /\ AdminsRemain
    /\ ConfirmedIsSaved

\* A change that is not refused takes a sound database to a sound one.
LEMMA ChangeKeepsSound ==
    ASSUME NEW db, Sound(db), NEW c \in Change, ~Refused(db, c)
    PROVE  Sound(Changed(db, c))
BY ChangeKeepsType, ChangeKeepsAdmin DEF Sound

\* The empty database of an idle command is well-formed.
LEMMA NoShellType == NoShell \in [on: BOOLEAN, users: Database] /\ ~NoShell.on
BY DEF NoShell, Database

LEMMA InitAccounts == Init => AccountsInv
<1> SUFFICES ASSUME Init PROVE AccountsInv
  OBVIOUS
<1>1. TypeOK
  BY NoShellType DEF Init, TypeOK, Requests
<1>2. AdminsRemain /\ ConfirmedIsSaved
  BY NoShellType DEF Init, AdminsRemain, ConfirmedIsSaved
<1>3. QED
  BY <1>1, <1>2 DEF AccountsInv

LEMMA StepAccounts == AccountsInv /\ [Next]_vars => AccountsInv'
<1> SUFFICES ASSUME AccountsInv, [Next]_vars PROVE AccountsInv'
  OBVIOUS
<1> USE DEF AccountsInv
<1>1. CASE Start
  BY <1>1 DEF Start, TypeOK, AdminsRemain, ConfirmedIsSaved, Requests
<1>2. CASE Stop
  BY <1>2 DEF Stop, TypeOK, AdminsRemain, ConfirmedIsSaved, Requests
<1>3. ASSUME NEW t \in Thread, Dispatch(t) PROVE AccountsInv'
  <2>1. PICK body \in Bodies :
          request' = [request EXCEPT ![t] = [kind |-> "change", todo |-> body]]
    BY <1>3 DEF Dispatch
  <2>2. [kind |-> "change", todo |-> body] \in Requests
    BY BodiesAreChanges DEF Requests
  <2>3. QED
    BY <1>3, <2>1, <2>2 DEF Dispatch, TypeOK, AdminsRemain, ConfirmedIsSaved
<1>4. ASSUME NEW t \in Thread, RunChange(t) PROVE AccountsInv'
  <2> DEFINE c == Head(request[t].todo)
             rest == Tail(request[t].todo)
             next == IF rest = <<>> THEN Idle ELSE [kind |-> "change", todo |-> rest]
  <2>1. c \in Change /\ rest \in Seq(Change)
    BY <1>4, TakeOne DEF RunChange, TypeOK
  <2>2. next \in Requests /\ Idle \in Requests
    BY <2>1 DEF Requests
  <2>3. Sound(mem)
    BY DEF Sound, TypeOK, AdminsRemain
  <2>4. ~Refused(mem, c) => Sound(Changed(mem, c))
    BY <2>1, <2>3, ChangeKeepsSound
  <2>5. \/ /\ request' = [request EXCEPT ![t] = Idle]
           /\ UNCHANGED <<mem, file, agreed>>
        \/ /\ ~Refused(mem, c)
           /\ mem' = Changed(mem, c)
           /\ file' = mem' /\ agreed' = TRUE
           /\ request' = [request EXCEPT ![t] = next]
        \/ /\ ~Refused(mem, c)
           /\ mem' = Changed(mem, c)
           /\ agreed' = FALSE /\ file' = file
           /\ request' = [request EXCEPT ![t] = Idle]
    BY <1>4 DEF RunChange, SaveOk, SaveFails
  <2>6. UNCHANGED <<up, cli>>
    BY <1>4 DEF RunChange
  <2> HIDE DEF c, rest, next
  <2>7. TypeOK'
    BY <2>2, <2>4, <2>5, <2>6 DEF TypeOK, Sound
  <2>8. AdminsRemain'
    BY <2>4, <2>5, <2>6 DEF AdminsRemain, Sound
  <2>9. ConfirmedIsSaved'
    BY <2>5, <2>6 DEF ConfirmedIsSaved
  <2>10. QED
    BY <2>7, <2>8, <2>9
<1>5. ASSUME NEW t \in Thread, LoginCheck(t) PROVE AccountsInv'
  BY <1>5 DEF LoginCheck, TypeOK, AdminsRemain, ConfirmedIsSaved, Requests
<1>6. ASSUME NEW t \in Thread, LoginSave(t) PROVE AccountsInv'
  BY <1>6 DEF LoginSave, SaveOk, SaveFails, TypeOK, AdminsRemain, ConfirmedIsSaved, Requests
<1>7. CASE CliLoad
  BY <1>7 DEF CliLoad, TypeOK, AdminsRemain, ConfirmedIsSaved
<1>8. ASSUME NEW c \in Change, CliChange(c) PROVE AccountsInv'
  <2>1. Sound(cli.users) /\ Sound(mem)
    BY <1>8 DEF CliChange, Sound, TypeOK, AdminsRemain
  <2>2. Sound(file')
    BY <1>8, <2>1, ChangeKeepsSound DEF CliChange
  <2>3. QED
    BY <1>8, <2>1, <2>2, NoShellType
       DEF CliChange, Sound, TypeOK, AdminsRemain, ConfirmedIsSaved
<1>9. CASE CliEnd
  BY <1>9, NoShellType DEF CliEnd, TypeOK, AdminsRemain, ConfirmedIsSaved
<1>10. CASE UNCHANGED vars
  BY <1>10 DEF vars, TypeOK, AdminsRemain, ConfirmedIsSaved
<1>11. QED
  BY <1>1, <1>2, <1>3, <1>4, <1>5, <1>6, <1>7, <1>8, <1>9, <1>10 DEF Next

LEMMA AccountsInductive == Spec => []AccountsInv
BY InitAccounts, StepAccounts, PTL DEF Spec

\* The variables of Accounts have their types, for every set of accounts and
\* threads: a PATCH of any shape leaves a well-formed database.
THEOREM AccountsTyped == Spec => []TypeOK
BY AccountsInductive, PTL DEF AccountsInv

\* No history of concurrent requests, failed saves, restarts and runs of
\* securecam-admin leaves a database without an enabled administrator.
THEOREM AdminsAlwaysRemain == Spec => []AdminsRemain
BY AccountsInductive, PTL DEF AccountsInv

\* Until a save fails or securecam-admin writes the file, the file holds what the
\* service believes, whatever the requests do to each other.
THEOREM ConfirmedChangesSurvive == Spec => []ConfirmedIsSaved
BY AccountsInductive, PTL DEF AccountsInv
===============================================================================
