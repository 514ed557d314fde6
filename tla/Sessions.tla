------------------------------ MODULE Sessions ------------------------------
(***************************************************************************)
(* The sessions of one user: modules/auth/v1/auth.service.ts over          *)
(* core/auth/jwt.repository.ts (the rows, in PostgreSQL) and               *)
(* core/auth/session.repository.ts (the revocations, in Redis), and the    *)
(* part of users/v1/user.service.ts that ends sessions.  A request is a    *)
(* process; each of its calls to a store is a step, and any of them may    *)
(* throw.  Time is what is left of each life, in units far longer than a   *)
(* call: lives run out together in Tick.                                   *)
(***************************************************************************)
EXTENDS Integers, FiniteSets

CONSTANTS
    Session,        \* session ids (the jti of the refresh token)
    Proc,           \* requests in flight
    MaxSessions,    \* appConfig.jwt.maxSessionsPerUser
    AccessTTL,      \* life of an access token, and of a revocation in Redis
    RefreshTTL,     \* life of a refresh token and of its row
    Faults,         \* whether calls to the stores may throw
    none            \* no session

ASSUME SessionsAssumption ==
    /\ MaxSessions \in Nat \ {0}
    /\ AccessTTL \in Nat \ {0}
    /\ RefreshTTL \in Nat \ {0}
    /\ Faults \in BOOLEAN
    /\ none \notin Session
    /\ IsFiniteSet(Session)

VARIABLES
    row,            \* the refresh_tokens row: "none", "active", "revoked"
    created,        \* rank of its createdAt, 0 without a row
    expires,        \* what is left until its expiresAt
    denied,         \* what is left of revoked:sid:<s> in Redis
    access,         \* what is left of the newest access token of s
    op,             \* the requests
    refused,        \* history: sessions Redis was told of
    late,           \* history: those with a token signed since
    rolledBack,     \* history: those whose revocation was rolled back
    overlapped,     \* history: a login committed between another's count
                    \* and commit
    since           \* history: time since the row was revoked

vars == <<row, created, expires, denied, access, op, refused, late,
          rolledBack, overlapped, since>>

history == <<refused, late, rolledBack, overlapped, since>>

Idle == [pc |-> "idle", sid |-> none, victim |-> none, list |-> {}]

\* Steps inside the transaction of a login, in order
InLogin == {"count", "oldest", "lock", "deny", "create"}

Init ==
    /\ row = [s \in Session |-> "none"]
    /\ created = [s \in Session |-> 0]
    /\ expires = [s \in Session |-> 0]
    /\ denied = [s \in Session |-> 0]
    /\ access = [s \in Session |-> 0]
    /\ op = [p \in Proc |-> Idle]
    /\ refused = {}
    /\ late = {}
    /\ rolledBack = {}
    /\ overlapped = FALSE
    /\ since = [s \in Session |-> 0]

-----------------------------------------------------------------------------
(* What the queries answer                                                 *)

Active == {s \in Session : row[s] = "active" /\ expires[s] > 0}

\* verifyAccessToken: the newest token of s is alive and Redis knows no
\* revocation of s.
Accepted(s) == access[s] > 0 /\ denied[s] = 0

IsOldest(s) == s \in Active /\ \A t \in Active : created[s] <= created[t]

\* An open transaction has updated the row of s: other updates of it wait.
Locked(s) == \E p \in Proc : op[p].pc \in {"deny", "create"} /\ op[p].victim = s

\* The rows of S are revoked, those already revoked stay.
Revoke(S) == row' = [s \in Session |-> IF s \in S THEN "revoked" ELSE row[s]]

Goto(p, pc) == op' = [op EXCEPT ![p].pc = pc]

Finish(p) == op' = [op EXCEPT ![p] = Idle]

-----------------------------------------------------------------------------
(* Login: _createNewSession                                                *)

\* signRefreshToken: the id is new.
FreshId(s) == row[s] = "none" /\ access[s] = 0 /\ \A q \in Proc : op[q].sid # s

SignAccessToken(s) == access' = [access EXCEPT ![s] = AccessTTL]

\* Both tokens are signed before the transaction.
StartLogin(p, s) ==
    /\ op[p] = Idle
    /\ FreshId(s)
    /\ SignAccessToken(s)
    /\ op' = [op EXCEPT ![p] = [Idle EXCEPT !.pc = "count", !.sid = s]]
    /\ UNCHANGED <<row, created, expires, denied, history>>

\* Mutant: one session more than the maximum is let through.
Count_OneMore(p) ==
    /\ op[p].pc = "count"
    /\ Goto(p, IF Cardinality(Active) > MaxSessions THEN "oldest" ELSE "create")
    /\ UNCHANGED <<row, created, expires, denied, access, history>>

Count(p) ==
    /\ op[p].pc = "count"
    /\ Goto(p, IF Cardinality(Active) >= MaxSessions THEN "oldest" ELSE "create")
    /\ UNCHANGED <<row, created, expires, denied, access, history>>

FindOldest(p, s) ==
    /\ op[p].pc = "oldest"
    /\ IsOldest(s)
    /\ op' = [op EXCEPT ![p] = [@ EXCEPT !.pc = "lock", !.victim = s]]
    /\ UNCHANGED <<row, created, expires, denied, access, history>>

\* No session is active any more: the error cancels the transaction.
NoOldest(p) ==
    /\ op[p].pc = "oldest"
    /\ Active = {}
    /\ access' = [access EXCEPT ![op[p].sid] = 0]
    /\ Finish(p)
    /\ UNCHANGED <<row, created, expires, denied, history>>

\* revokeRefreshToken in the transaction: nobody sees it before the commit,
\* but the row is locked.
LockVictim(p) ==
    /\ op[p].pc = "lock"
    /\ ~Locked(op[p].victim)
    /\ Goto(p, "deny")
    /\ UNCHANGED <<row, created, expires, denied, access, history>>

\* Mutant: Redis forgets before the last access token has expired.
Deny_Shorter(S) ==
    /\ denied' = [s \in Session |-> IF s \in S THEN AccessTTL - 1 ELSE denied[s]]
    /\ refused' = refused \cup S
    /\ late' = late \ S

\* Mutant: the revocation is given the life of a refresh token.
Deny_Longer(S) ==
    /\ denied' = [s \in Session |-> IF s \in S THEN RefreshTTL ELSE denied[s]]
    /\ refused' = refused \cup S
    /\ late' = late \ S

\* sessionRepository.revokeSession and revokeSessions
Deny(S) ==
    /\ denied' = [s \in Session |-> IF s \in S THEN AccessTTL ELSE denied[s]]
    /\ refused' = refused \cup S
    /\ late' = late \ S

DenyVictim(p) ==
    /\ op[p].pc = "deny"
    /\ Deny({op[p].victim})
    /\ Goto(p, "create")
    /\ UNCHANGED <<row, created, expires, access, rolledBack, overlapped, since>>

Racing(p) == \E q \in Proc \ {p} : op[q].pc \in InLogin \ {"count"}

\* Mutant: the new row is committed without the revocation.
Create_VictimKept(p) ==
    /\ op[p].pc = "create"
    /\ row' = [row EXCEPT ![op[p].sid] = "active"]
    /\ created' = [created EXCEPT ![op[p].sid] =
                     1 + Cardinality({s \in Session : row[s] # "none"})]
    /\ expires' = [expires EXCEPT ![op[p].sid] = RefreshTTL]
    /\ overlapped' = (overlapped \/ Racing(p))
    /\ Finish(p)
    /\ UNCHANGED <<denied, access, refused, late, rolledBack, since>>

\* createRefreshToken and the commit
Create(p) ==
    /\ op[p].pc = "create"
    /\ row' = [s \in Session |-> IF s = op[p].sid THEN "active"
                                 ELSE IF s = op[p].victim THEN "revoked"
                                 ELSE row[s]]
    /\ created' = [created EXCEPT ![op[p].sid] =
                     1 + Cardinality({s \in Session : row[s] # "none"})]
    /\ expires' = [expires EXCEPT ![op[p].sid] = RefreshTTL]
    /\ overlapped' = (overlapped \/ Racing(p))
    /\ Finish(p)
    /\ UNCHANGED <<denied, access, refused, late, rolledBack, since>>

-----------------------------------------------------------------------------
(* Refresh: refreshAccessToken                                             *)

\* Mutant: a revoked row still refreshes.
StartRefresh_Revoked(p, s) ==
    /\ op[p] = Idle
    /\ row[s] # "none" /\ expires[s] > 0
    /\ op' = [op EXCEPT ![p] = [Idle EXCEPT !.pc = "sign", !.sid = s]]
    /\ UNCHANGED <<row, created, expires, denied, access, history>>

\* _validateRefreshToken reads the row.
StartRefresh(p, s) ==
    /\ op[p] = Idle
    /\ s \in Active
    /\ op' = [op EXCEPT ![p] = [Idle EXCEPT !.pc = "sign", !.sid = s]]
    /\ UNCHANGED <<row, created, expires, denied, access, history>>

\* signAccessToken: the row is not looked at again.
Sign(p) ==
    /\ op[p].pc = "sign"
    /\ SignAccessToken(op[p].sid)
    /\ late' = late \cup (refused \cap {op[p].sid})
    /\ Finish(p)
    /\ UNCHANGED <<row, created, expires, denied, refused, rolledBack,
                   overlapped, since>>

-----------------------------------------------------------------------------
(* Logout: logoutUser, logoutUserFromAllSessions, changeUserPassword       *)

StartLogout(p, s) ==
    /\ op[p] = Idle
    /\ s \in Active
    /\ op' = [op EXCEPT ![p] = [Idle EXCEPT !.pc = "row", !.sid = s]]
    /\ UNCHANGED <<row, created, expires, denied, access, history>>

LogoutRow(p) ==
    /\ op[p].pc = "row"
    /\ ~Locked(op[p].sid)
    /\ Revoke({op[p].sid})
    /\ op' = [op EXCEPT ![p] = [Idle EXCEPT !.pc = "denyList",
                                            !.list = {op[p].sid}]]
    /\ UNCHANGED <<created, expires, denied, access, history>>

\* requireAuthentication: the user has an access token that is accepted.
Authenticated == \E s \in Session : Accepted(s)

\* The active sessions are listed before anything is revoked.
StartLogoutAll(p) ==
    /\ op[p] = Idle
    /\ Authenticated
    /\ op' = [op EXCEPT ![p] = [Idle EXCEPT !.pc = "rows", !.list = Active]]
    /\ UNCHANGED <<row, created, expires, denied, access, history>>

\* updateMany: every row not revoked yet, the expired ones too, and those
\* created since the list was read.
RevokeAllRows(p) ==
    /\ op[p].pc = "rows"
    /\ \A s \in Session : row[s] = "active" => ~Locked(s)
    /\ Revoke({s \in Session : row[s] = "active"})
    /\ Goto(p, "denyList")
    /\ UNCHANGED <<created, expires, denied, access, history>>

\* Redis is told of the sessions listed, by logoutUserFromAllSessions and
\* changeUserPassword, or of the one, by logoutUser.
DenyList(p) ==
    /\ op[p].pc = "denyList"
    /\ Deny(op[p].list)
    /\ Finish(p)
    /\ UNCHANGED <<row, created, expires, access, rolledBack, overlapped, since>>

-----------------------------------------------------------------------------
\* A call throws: the request ends there.  A login is rolled back, its tokens
\* are handed to nobody; what Redis was told stays.
Fail(p) ==
    /\ Faults
    /\ op[p].pc \in InLogin \cup {"row", "rows", "denyList"}
    /\ access' = [s \in Session |->
                    IF op[p].pc \in InLogin /\ s = op[p].sid THEN 0 ELSE access[s]]
    /\ rolledBack' = rolledBack \cup
                       {s \in Session : op[p].pc = "create" /\ s = op[p].victim}
    /\ Finish(p)
    /\ UNCHANGED <<row, created, expires, denied, refused, late, overlapped, since>>

Less(n) == IF n = 0 THEN 0 ELSE n - 1

\* What the clocks do, to tokens, rows and Redis entries.  A refresh signs as
\* soon as it has read the row: no unit of time passes in between.
Tick ==
    /\ \A p \in Proc : op[p].pc # "sign"
    /\ \E s \in Session : expires[s] + denied[s] + access[s] > 0
    /\ expires' = [s \in Session |-> Less(expires[s])]
    /\ denied' = [s \in Session |-> Less(denied[s])]
    /\ access' = [s \in Session |-> Less(access[s])]
    /\ since' = [s \in Session |-> IF row[s] = "revoked" /\ since[s] < AccessTTL
                                   THEN since[s] + 1 ELSE since[s]]
    /\ UNCHANGED <<row, created, op, refused, late, rolledBack, overlapped>>

LoginStep(p) ==
    \/ \E s \in Session : StartLogin(p, s) \/ FindOldest(p, s)
    \/ Count(p) \/ NoOldest(p) \/ LockVictim(p) \/ DenyVictim(p) \/ Create(p)

RefreshStep(p) == (\E s \in Session : StartRefresh(p, s)) \/ Sign(p)

LogoutStep(p) ==
    \/ \E s \in Session : StartLogout(p, s)
    \/ LogoutRow(p) \/ StartLogoutAll(p) \/ RevokeAllRows(p) \/ DenyList(p)

Next ==
    \/ \E p \in Proc : LoginStep(p) \/ RefreshStep(p) \/ LogoutStep(p) \/ Fail(p)
    \/ Tick

Spec == Init /\ [][Next]_vars

-----------------------------------------------------------------------------
(* Properties                                                              *)

OpType == [pc : {"idle", "sign", "row", "rows", "denyList"} \cup InLogin,
           sid : Session \cup {none}, victim : Session \cup {none},
           list : SUBSET Session]

\* Every variable has its type: no life is negative or longer than the
\* configured one.
TypeOK ==
    /\ row \in [Session -> {"none", "active", "revoked"}]
    /\ created \in [Session -> Nat]
    /\ expires \in [Session -> 0 .. RefreshTTL]
    /\ denied \in [Session -> 0 .. AccessTTL]
    /\ access \in [Session -> 0 .. AccessTTL]
    /\ op \in [Proc -> OpType]
    /\ refused \subseteq Session
    /\ late \subseteq Session
    /\ rolledBack \subseteq Session
    /\ overlapped \in BOOLEAN
    /\ since \in [Session -> 0 .. AccessTTL]

\* Once Redis was told of a session, no access token signed before is
\* accepted again, though the entry itself expires
\* (session.repository.ts: its life is that of an access token).
RefusedUntilExpiry == \A s \in refused \ late : ~Accepted(s)

\* One access-token life after the row was revoked no token of the session
\* is accepted, even if Redis was never told or a refresh was under way
\* (user.service.ts, changeUserPassword: "sessions will expire naturally").
RevokedRunsOut ==
    \A s \in Session : row[s] = "revoked" /\ since[s] = AccessTTL => ~Accepted(s)

\* Redis refuses only sessions whose row is revoked or about to be: a login
\* tells Redis before it commits, and only its rollback leaves a refused
\* session that could still be refreshed (_createNewSession).
DeniedAreRevoked ==
    \A s \in refused \ rolledBack :
        \/ row[s] = "revoked"
        \/ \E p \in Proc : op[p].pc = "create" /\ op[p].victim = s

\* A user has at most MaxSessions sessions unless two logins overlapped:
\* the count and the new row are not isolated from another login's
\* (_createNewSession, under Read Committed).
CapUnlessRaced == ~overlapped => Cardinality(Active) <= MaxSessions
=============================================================================
