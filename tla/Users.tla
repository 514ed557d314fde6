------------------------------- MODULE Users -------------------------------
(***************************************************************************)
(* Accounts: registration and login (auth/v1/auth.service.ts), changes of  *)
(* profile and password (users/v1/user.service.ts), over the users table   *)
(* (user.repository.ts, prisma/schema.prisma) and the refresh_tokens rows  *)
(* a change of password revokes.  A request is a process, each of its      *)
(* statements a step: what it has read may be out of date when it writes.  *)
(* A hash is equal to another one exactly when the passwords are, so the   *)
(* table holds passwords here.                                             *)
(***************************************************************************)
EXTENDS FiniteSets

CONSTANTS
    User,       \* user ids
    Email,
    Name,
    Password,
    Session,    \* ids of refresh_tokens rows
    Proc,       \* requests in flight
    Faults,     \* whether statements may throw
    none        \* no value

ASSUME UsersAssumption ==
    /\ none \notin User \cup Email \cup Name \cup Password
    /\ Faults \in BOOLEAN

VARIABLES
    email,      \* the users table, column by column; none without a row
    username,
    password,
    session,    \* the owner of an active row, none of any other
    op,         \* the requests
    taken,      \* history: requests whose e-mail or name another user got
                \* while they were under way
    overtaken,  \* history: logins whose user's password was replaced since
                \* they read it
    raced,      \* history: sessions whose login overlapped a replacement
    outlived    \* history: sessions opened with a password replaced since

table == <<email, username, password>>
history == <<taken, overtaken, raced, outlived>>
vars == <<email, username, password, session, op, taken, overtaken, raced,
          outlived>>

Idle == [pc |-> "idle", user |-> none, email |-> none, name |-> none,
         seen |-> none, password |-> none, list |-> {}]

Init ==
    /\ email = [u \in User |-> none]
    /\ username = [u \in User |-> none]
    /\ password = [u \in User |-> none]
    /\ session = [s \in Session |-> none]
    /\ op = [p \in Proc |-> Idle]
    /\ taken = {}
    /\ overtaken = {}
    /\ raced = {}
    /\ outlived = {}

-----------------------------------------------------------------------------
(* The table *)

Registered(u) == email[u] # none

\* Another user than u (any user, if u is none) has the e-mail, the name.
EmailHeld(u, e) == \E v \in User \ {u} : email[v] = e
NameHeld(u, n)  == \E v \in User \ {u} : username[v] = n

\* @unique on both columns: Prisma throws P2002.
UniqueViolated(u, e, n) == EmailHeld(u, e) \/ NameHeld(u, n)

Become(p, pc) == op' = [op EXCEPT ![p] = [@ EXCEPT !.pc = pc]]

Finish(p) == /\ op' = [op EXCEPT ![p] = Idle]
             /\ taken' = taken \ {p}
             /\ overtaken' = overtaken \ {p}

\* The requests under way that want what u is being given.
Losers(p, u, e, n) ==
    {q \in Proc \ {p} : /\ op[q].pc \in {"create", "email", "name", "update"}
                        /\ op[q].user # u
                        /\ op[q].email = e \/ op[q].name = n}

\* One INSERT or UPDATE of the row of u; the answer is sent.
Write(p, u, e, n) ==
    /\ ~UniqueViolated(u, e, n)
    /\ email' = [email EXCEPT ![u] = e]
    /\ username' = [username EXCEPT ![u] = n]
    /\ op' = [op EXCEPT ![p] = Idle]
    /\ taken' = (taken \cup Losers(p, u, e, n)) \ {p}
    /\ overtaken' = overtaken \ {p}

\* Neither errorConverter nor errorHandler knows the P2002: 500.
Refused(p, u, e, n) ==
    /\ UniqueViolated(u, e, n)
    /\ Become(p, "error")
    /\ UNCHANGED <<table, session, history>>

-----------------------------------------------------------------------------
(* registerUser *)

Asked(pc, u, e, n, seen) ==
    [Idle EXCEPT !.pc = pc, !.user = u, !.email = e, !.name = n, !.seen = seen]

\* findUserByEmailOrUsername: the first row that has either; the answer
\* names the e-mail if that row has it.
Register(p, e, n, w) ==
    /\ op[p] = Idle
    /\ \/ /\ ~EmailHeld(none, e) /\ ~NameHeld(none, n)
          /\ op' = [op EXCEPT ![p] =
                [Asked("create", none, e, n, none) EXCEPT !.password = w]]
       \/ \E v \in User :
          /\ email[v] = e \/ username[v] = n
          /\ op' = [op EXCEPT ![p] = Asked(
                IF email[v] = e THEN "email taken" ELSE "name taken",
                none, e, n, none)]
    /\ UNCHANGED <<table, session, history>>

\* Mutant: the row is created without its hash.
CreateUser_NoHash(p, u) ==
    /\ op[p].pc = "create"
    /\ ~Registered(u)
    /\ Write(p, u, op[p].email, op[p].name)
    /\ UNCHANGED <<password, session, raced, outlived>>

CreateUser(p, u) ==
    /\ op[p].pc = "create"
    /\ ~Registered(u)
    /\ Write(p, u, op[p].email, op[p].name)
    /\ password' = [password EXCEPT ![u] = op[p].password]
    /\ UNCHANGED <<session, raced, outlived>>

CreateRefused(p) ==
    /\ op[p].pc = "create"
    /\ Refused(p, none, op[p].email, op[p].name)

-----------------------------------------------------------------------------
(* updateUserProfile *)

\* Mutant: the name is looked up only if the e-mail is a new one.
AfterFind_SkipsName(u, e, n) == IF e # email[u] THEN "email" ELSE "update"

\* What is looked up first: the e-mail, the name, or neither, if unchanged.
AfterFind(u, e, n) == IF e # email[u] THEN "email"
                      ELSE IF n # username[u] THEN "name" ELSE "update"

\* findUserById: the row as it is now is what changes are told by later.
UpdateProfile(p, u, e, n) ==
    /\ op[p] = Idle
    /\ Registered(u)
    /\ op' = [op EXCEPT ![p] = Asked(AfterFind(u, e, n), u, e, n, username[u])]
    /\ UNCHANGED <<table, session, history>>

\* Mutant: the user's own row counts.
CheckEmail_OwnRow(p) ==
    /\ op[p].pc = "email"
    /\ Become(p, IF \E v \in User : email[v] = op[p].email THEN "email taken"
                 ELSE IF op[p].name # op[p].seen THEN "name" ELSE "update")
    /\ UNCHANGED <<table, session, history>>

\* findUserByEmail, and the row it finds is another user's or none.
CheckEmail(p) ==
    /\ op[p].pc = "email"
    /\ Become(p, IF EmailHeld(op[p].user, op[p].email) THEN "email taken"
                 ELSE IF op[p].name # op[p].seen THEN "name" ELSE "update")
    /\ UNCHANGED <<table, session, history>>

CheckName(p) ==
    /\ op[p].pc = "name"
    /\ Become(p, IF NameHeld(op[p].user, op[p].name) THEN "name taken" ELSE "update")
    /\ UNCHANGED <<table, session, history>>

UpdateUser(p) ==
    /\ op[p].pc = "update"
    /\ Write(p, op[p].user, op[p].email, op[p].name)
    /\ UNCHANGED <<password, session, raced, outlived>>

UpdateRefused(p) ==
    /\ op[p].pc = "update"
    /\ Refused(p, op[p].user, op[p].email, op[p].name)

\* A conflict (409) or an error (500) is sent.
Answer(p) ==
    /\ op[p].pc \in {"email taken", "name taken", "error"}
    /\ Finish(p)
    /\ UNCHANGED <<table, session, raced, outlived>>

-----------------------------------------------------------------------------
(* loginUser *)

\* findUserByEmail and comparePasswords; any other answer is a 401.
Login(p, u, w) ==
    /\ op[p] = Idle
    /\ Registered(u)
    /\ password[u] = w
    /\ op' = [op EXCEPT ![p] = [Idle EXCEPT !.pc = "login", !.user = u, !.password = w]]
    /\ UNCHANGED <<table, session, history>>

\* A change of the password of u is between its two statements.
Replacing(u) == \E q \in Proc : op[q].pc = "replace" /\ op[q].user = u

\* _createNewSession commits; the row of the user is not looked at again.
OpenSession(p, s) ==
    /\ op[p].pc = "login"
    /\ session[s] = none
    /\ session' = [session EXCEPT ![s] = op[p].user]
    /\ outlived' = IF p \in overtaken THEN outlived \cup {s} ELSE outlived \ {s}
    /\ raced' = IF p \in overtaken \/ Replacing(op[p].user)
                THEN raced \cup {s} ELSE raced \ {s}
    /\ Finish(p)
    /\ UNCHANGED table

\* An open transaction has revoked the row of s.
Locked(s) == \E p \in Proc : op[p].pc = "replace" /\ s \in op[p].list

\* A logout, an eviction, or the row's expiry.
EndSession(s) ==
    /\ session[s] # none
    /\ ~Locked(s)
    /\ session' = [session EXCEPT ![s] = none]
    /\ UNCHANGED <<table, op, history>>

-----------------------------------------------------------------------------
(* changeUserPassword *)

SessionsOf(u) == {s \in Session : session[s] = u}

\* findUserById and comparePasswords; any other answer is a 401 or a 400.
ChangePassword(p, u, w, new) ==
    /\ op[p] = Idle
    /\ Registered(u)
    /\ password[u] = w
    /\ w # new
    /\ op' = [op EXCEPT ![p] = [Idle EXCEPT !.pc = "revoke", !.user = u,
                                            !.password = new]]
    /\ UNCHANGED <<table, session, history>>

\* Mutant: the rows are looked up by something else than their user.
RevokeAll_Misses(p) ==
    /\ op[p].pc = "revoke"
    /\ op' = [op EXCEPT ![p] = [@ EXCEPT !.pc = "replace"]]
    /\ UNCHANGED <<table, session, history>>

\* revokeAllUserRefreshTokens in the transaction: not seen before the commit,
\* but the rows are locked.
RevokeAll(p) ==
    /\ op[p].pc = "revoke"
    /\ \A s \in SessionsOf(op[p].user) : ~Locked(s)
    /\ op' = [op EXCEPT ![p] = [@ EXCEPT !.pc = "replace",
                                         !.list = SessionsOf(op[p].user)]]
    /\ UNCHANGED <<table, session, history>>

\* updateUserPassword and the commit: both statements take effect.
ReplacePassword(p) ==
    /\ op[p].pc = "replace"
    /\ LET u == op[p].user
       IN  /\ password' = [password EXCEPT ![u] = op[p].password]
           /\ session' = [s \in Session |-> IF s \in op[p].list THEN none ELSE session[s]]
           /\ outlived' = outlived \cup SessionsOf(u)
           /\ op' = [op EXCEPT ![p] = Idle]
           /\ taken' = taken \ {p}
           /\ overtaken' = (overtaken \cup
                 {q \in Proc : op[q].pc = "login" /\ op[q].user = u}) \ {p}
    /\ UNCHANGED <<email, username, raced>>

-----------------------------------------------------------------------------
\* A statement throws: the request ends, its transaction is rolled back.
Fail(p) ==
    /\ Faults
    /\ op[p] # Idle
    /\ Finish(p)
    /\ UNCHANGED <<table, session, raced, outlived>>

RegisterStep(p) ==
    \/ \E e \in Email, n \in Name, w \in Password : Register(p, e, n, w)
    \/ \E u \in User : CreateUser(p, u)
    \/ CreateRefused(p)

ProfileStep(p) ==
    \/ \E u \in User, e \in Email, n \in Name : UpdateProfile(p, u, e, n)
    \/ CheckEmail(p) \/ CheckName(p) \/ UpdateUser(p) \/ UpdateRefused(p)

LoginStep(p) ==
    \/ \E u \in User, w \in Password : Login(p, u, w)
    \/ \E s \in Session : OpenSession(p, s)

PasswordStep(p) ==
    \/ \E u \in User, w, new \in Password : ChangePassword(p, u, w, new)
    \/ RevokeAll(p) \/ ReplacePassword(p)

Next ==
    \/ \E p \in Proc : \/ RegisterStep(p) \/ ProfileStep(p) \/ LoginStep(p)
                       \/ PasswordStep(p) \/ Answer(p) \/ Fail(p)
    \/ \E s \in Session : EndSession(s)

Spec == Init /\ [][Next]_vars

-----------------------------------------------------------------------------
(* Properties *)

Op == [pc : {"idle", "create", "email", "name", "update", "email taken",
             "name taken", "error", "login", "revoke", "replace"},
       user : User \cup {none}, email : Email \cup {none},
       name : Name \cup {none}, seen : Name \cup {none},
       password : Password \cup {none}, list : SUBSET Session]

\* Every variable has its type, and a row has all of its columns: a user who
\* can be found can be compared with.
TypeOK ==
    /\ email \in [User -> Email \cup {none}]
    /\ username \in [User -> Name \cup {none}]
    /\ password \in [User -> Password \cup {none}]
    /\ \A u \in User : /\ email[u] = none <=> username[u] = none
                       /\ email[u] = none <=> password[u] = none
    /\ session \in [Session -> User \cup {none}]
    /\ op \in [Proc -> Op]
    /\ taken \subseteq Proc
    /\ overtaken \subseteq Proc
    /\ raced \subseteq Session
    /\ outlived \subseteq Session

\* A 409 names an e-mail or a name that somebody else has at that moment,
\* never the user's own, not even one that another request of the same user
\* has just taken (registerUser, updateUserProfile: "taken by another user").
ConflictsTruthful ==
    [][\A p \in Proc : op'[p].pc # op[p].pc =>
         /\ op'[p].pc = "email taken" => EmailHeld(op'[p].user, op'[p].email)
         /\ op'[p].pc = "name taken" => NameHeld(op'[p].user, op'[p].name)]_vars

\* A request runs into the database's uniqueness, and is answered with a 500,
\* only if another user got the e-mail or the name while it was under way:
\* whatever was taken before it began is found by the checks and is a 409
\* (auth.docs.ts:27, user.docs.ts:89), though a value equal to the one first
\* read is not checked at all.
ErrorsOnlyWhenTaken == \A p \in Proc : op[p].pc = "error" => p \in taken

\* A session that outlives the password it was opened with belongs to a login
\* that overlapped the change: it read the password before the commit and
\* created its row after the rows were revoked (changeUserPassword: "revoke
\* all refresh tokens", in one transaction with the new password).
OutlivedOnlyIfRaced ==
    \A s \in outlived : session[s] # none => s \in raced
=============================================================================
