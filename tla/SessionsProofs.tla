--------------------------- MODULE SessionsProofs ---------------------------
(***************************************************************************)
(* What holds of Sessions for every set of sessions and requests and every *)
(* value of the lives and of the maximum.                                  *)
(***************************************************************************)
EXTENDS Sessions, FiniteSetTheorems, TLAPS

-----------------------------------------------------------------------------
(* The inductive invariant                                                 *)

\* A login's session has no row yet and is nobody else's.
LoginsFresh ==
    \A p \in Proc : op[p].pc \in InLogin =>
        /\ op[p].sid \in Session
        /\ row[op[p].sid] = "none"
        /\ \A q \in Proc \ {p} : op[q].pc \in InLogin => op[q].sid # op[p].sid

\* What a request holds of the sessions it read has a row.
HeldHaveRows ==
    \A p \in Proc :
        /\ op[p].pc \in {"lock", "deny"} => op[p].victim \in Session
        /\ op[p].victim \in Session => row[op[p].victim] # "none"
        /\ op[p].pc \in {"row", "sign"} =>
              op[p].sid \in Session /\ row[op[p].sid] # "none"
        /\ \A s \in op[p].list : row[s] # "none"
        /\ op[p].pc = "denyList" => \A s \in op[p].list : row[s] = "revoked"

\* Redis knows only sessions with a row, and outlasts their tokens.
RefusedCovers ==
    \A s \in refused :
        /\ row[s] # "none"
        /\ s \notin late => access[s] <= denied[s]

\* The time since the revocation and the life of the newest token add up to
\* at most one life; a refresh under way signs before any time passes.
RevokedShrinks ==
    /\ \A s \in Session :
          /\ row[s] # "revoked" => since[s] = 0
          /\ row[s] = "revoked" => access[s] + since[s] <= AccessTTL
    /\ \A p \in Proc : op[p].pc = "sign" => since[op[p].sid] = 0

\* Past its count and with nothing to revoke, a login finds room for one
\* session more; one that revokes a victim finds room once it is gone, be it
\* that the victim has ended by itself meanwhile.
RoomFor(o, active) ==
    o.pc \in {"lock", "deny", "create"} =>
        IF o.victim = none THEN Cardinality(active) < MaxSessions
                           ELSE Cardinality(active \cup {o.victim}) <= MaxSessions

\* As long as no two logins have overlapped, each has the room it counted.
RoomLeft ==
    /\ \A p \in Proc : op[p].pc = "count" => op[p].victim = none
    /\ ~overlapped => /\ Cardinality(Active) <= MaxSessions
                      /\ \A p \in Proc : RoomFor(op[p], Active)

IInv == /\ TypeOK
        /\ LoginsFresh
        /\ HeldHaveRows
        /\ RefusedCovers
        /\ RevokedShrinks
        /\ DeniedAreRevoked
        /\ RoomLeft

-----------------------------------------------------------------------------
(* Each part is kept by every step                                         *)

\* The variables keep their types, what a request holds being sessions.
LEMMA TypesKept ==
    ASSUME TypeOK, LoginsFresh, HeldHaveRows, Next
    PROVE  TypeOK'
  <1>1. ASSUME NEW p \in Proc, NEW s \in Session, StartLogin(p, s)
        PROVE  TypeOK'
    <2>1. op' \in [Proc -> OpType]
      BY <1>1 DEF StartLogin, TypeOK, FreshId, SignAccessToken, Idle, OpType,
         InLogin
    <2>. QED
      BY <1>1, <2>1, SessionsAssumption DEF StartLogin, TypeOK, FreshId,
         SignAccessToken, history
  <1>2. ASSUME NEW p \in Proc, Count(p)
        PROVE  TypeOK'
    BY <1>2, SessionsAssumption DEF Count, TypeOK, Active, Goto, history,
       OpType, InLogin
  <1>3. ASSUME NEW p \in Proc, NEW s \in Session, FindOldest(p, s)
        PROVE  TypeOK'
    <2>1. [op[p] EXCEPT !.pc = "lock", !.victim = s] \in OpType
      BY DEF TypeOK, OpType, InLogin
    <2>2. op' = [op EXCEPT ![p] = [op[p] EXCEPT !.pc = "lock", !.victim = s]]
      BY <1>3 DEF FindOldest
    <2>. QED  BY <1>3, <2>1, <2>2 DEF FindOldest, TypeOK, history
  <1>4. ASSUME NEW p \in Proc, NoOldest(p)
        PROVE  TypeOK'
    BY <1>4, SessionsAssumption DEF NoOldest, TypeOK, LoginsFresh, Finish,
       history, OpType, Idle
  <1>5. ASSUME NEW p \in Proc, LockVictim(p)
        PROVE  TypeOK'
    BY <1>5, SessionsAssumption DEF LockVictim, TypeOK, Goto, history, OpType,
       InLogin
  <1>6. ASSUME NEW p \in Proc, DenyVictim(p)
        PROVE  TypeOK'
    BY <1>6, SessionsAssumption DEF DenyVictim, TypeOK, HeldHaveRows, Goto,
       Deny, OpType, InLogin
  <1>7. ASSUME NEW p \in Proc, Create(p)
        PROVE  TypeOK'
    <2>1. op' \in [Proc -> OpType]
      BY <1>7 DEF Create, Finish, Idle, TypeOK, OpType
    <2>2. 1 + Cardinality({s \in Session : row[s] # "none"}) \in Nat
      <3>1. {s \in Session : row[s] # "none"} \subseteq Session
        OBVIOUS
      <3>2. IsFiniteSet({s \in Session : row[s] # "none"})
        BY <3>1, SessionsAssumption, FS_Subset
      <3>. QED  BY <3>2, FS_CardinalityType
    <2>3. created' \in [Session -> Nat]
      BY <1>7, <2>2 DEF Create, TypeOK
    <2>. QED  BY <1>7, <2>1, <2>3, SessionsAssumption DEF Create, TypeOK
  <1>8. ASSUME NEW p \in Proc, NEW s \in Session, StartRefresh(p, s)
        PROVE  TypeOK'
    BY <1>8 DEF StartRefresh, TypeOK, Idle, history, OpType
  <1>9. ASSUME NEW p \in Proc, Sign(p)
        PROVE  TypeOK'
    BY <1>9, SessionsAssumption DEF Sign, TypeOK, HeldHaveRows,
       SignAccessToken, Finish, OpType, Idle
  <1>10. ASSUME NEW p \in Proc, NEW s \in Session, StartLogout(p, s)
        PROVE  TypeOK'
    BY <1>10 DEF StartLogout, TypeOK, Idle, history, OpType
  <1>11. ASSUME NEW p \in Proc, LogoutRow(p)
        PROVE  TypeOK'
    <2>1. op[p].sid \in Session
      BY <1>11 DEF LogoutRow, HeldHaveRows
    <2>2. [Idle EXCEPT !.pc = "denyList", !.list = {op[p].sid}] \in OpType
      BY <2>1 DEF OpType, Idle
    <2>. QED  BY <1>11, <2>1, <2>2 DEF LogoutRow, Revoke, TypeOK, history
  <1>12. ASSUME NEW p \in Proc, StartLogoutAll(p)
        PROVE  TypeOK'
    BY <1>12 DEF StartLogoutAll, TypeOK, Active, Idle, history, OpType
  <1>13. ASSUME NEW p \in Proc, RevokeAllRows(p)
        PROVE  TypeOK'
    BY <1>13 DEF RevokeAllRows, TypeOK, Revoke, Goto, history, OpType
  <1>14. ASSUME NEW p \in Proc, DenyList(p)
        PROVE  TypeOK'
    BY <1>14, SessionsAssumption DEF DenyList, TypeOK, Finish, Deny, OpType,
       Idle
  <1>15. ASSUME NEW p \in Proc, Fail(p)
        PROVE  TypeOK'
    BY <1>15, SessionsAssumption DEF Fail, TypeOK, Finish, OpType, Idle
  <1>16. CASE Tick
    <2>1. \A t \in Nat : \A k \in 0 .. t : Less(k) \in 0 .. t
      BY DEF Less
    <2>2. /\ expires' \in [Session -> 0 .. RefreshTTL]
          /\ denied' \in [Session -> 0 .. AccessTTL]
          /\ access' \in [Session -> 0 .. AccessTTL]
      BY <1>16, <2>1, SessionsAssumption DEF Tick, TypeOK
    <2>3. since' \in [Session -> 0 .. AccessTTL]
      BY <1>16, SessionsAssumption DEF Tick, TypeOK
    <2>. QED  BY <1>16, <2>2, <2>3 DEF Tick, TypeOK
  <1>. QED  BY <1>1, <1>2, <1>3, <1>4, <1>5, <1>6, <1>7, <1>8, <1>9, <1>10,
               <1>11, <1>12, <1>13, <1>14, <1>15, <1>16 DEF Next, LoginStep,
               RefreshStep, LogoutStep

\* Only StartLogin claims a session, only Create gives it its row.
LEMMA LoginsFreshKept ==
    ASSUME TypeOK, LoginsFresh, HeldHaveRows, Next
    PROVE  LoginsFresh'
  <1>1. ASSUME NEW p \in Proc, NEW s \in Session, StartLogin(p, s)
        PROVE  LoginsFresh'
    BY <1>1 DEF StartLogin, LoginsFresh, FreshId, SignAccessToken
  <1>2. ASSUME NEW p \in Proc, Count(p)
        PROVE  LoginsFresh'
    BY <1>2 DEF Count, LoginsFresh, Goto, InLogin
  <1>3. ASSUME NEW p \in Proc, NEW s \in Session, FindOldest(p, s)
        PROVE  LoginsFresh'
    BY <1>3 DEF FindOldest, TypeOK, LoginsFresh, InLogin
  <1>4. ASSUME NEW p \in Proc, NoOldest(p)
        PROVE  LoginsFresh'
    BY <1>4 DEF NoOldest, LoginsFresh, Finish, InLogin, Idle
  <1>5. ASSUME NEW p \in Proc, LockVictim(p)
        PROVE  LoginsFresh'
    BY <1>5 DEF LockVictim, LoginsFresh, Goto, InLogin
  <1>6. ASSUME NEW p \in Proc, DenyVictim(p)
        PROVE  LoginsFresh'
    BY <1>6 DEF DenyVictim, LoginsFresh, Goto, Deny, InLogin
  <1>7. ASSUME NEW p \in Proc, Create(p)
        PROVE  LoginsFresh'
    BY <1>7 DEF Create, TypeOK, LoginsFresh, HeldHaveRows, Finish, InLogin,
       Idle
  <1>8. ASSUME NEW p \in Proc, NEW s \in Session, StartRefresh(p, s)
        PROVE  LoginsFresh'
    BY <1>8 DEF StartRefresh, LoginsFresh, InLogin
  <1>9. ASSUME NEW p \in Proc, Sign(p)
        PROVE  LoginsFresh'
    BY <1>9 DEF Sign, LoginsFresh, SignAccessToken, Finish, InLogin, Idle
  <1>10. ASSUME NEW p \in Proc, NEW s \in Session, StartLogout(p, s)
        PROVE  LoginsFresh'
    BY <1>10 DEF StartLogout, LoginsFresh, InLogin
  <1>11. ASSUME NEW p \in Proc, LogoutRow(p)
        PROVE  LoginsFresh'
    BY <1>11 DEF LogoutRow, LoginsFresh, HeldHaveRows, Revoke, InLogin
  <1>12. ASSUME NEW p \in Proc, StartLogoutAll(p)
        PROVE  LoginsFresh'
    BY <1>12 DEF StartLogoutAll, LoginsFresh, InLogin
  <1>13. ASSUME NEW p \in Proc, RevokeAllRows(p)
        PROVE  LoginsFresh'
    BY <1>13 DEF RevokeAllRows, LoginsFresh, Revoke, Goto, InLogin
  <1>14. ASSUME NEW p \in Proc, DenyList(p)
        PROVE  LoginsFresh'
    BY <1>14 DEF DenyList, LoginsFresh, Finish, Deny, InLogin, Idle
  <1>15. ASSUME NEW p \in Proc, Fail(p)
        PROVE  LoginsFresh'
    BY <1>15 DEF Fail, LoginsFresh, Finish, InLogin, Idle
  <1>16. CASE Tick
    BY <1>16 DEF Tick, LoginsFresh, Less
  <1>. QED  BY <1>1, <1>2, <1>3, <1>4, <1>5, <1>6, <1>7, <1>8, <1>9, <1>10,
               <1>11, <1>12, <1>13, <1>14, <1>15, <1>16 DEF Next, LoginStep,
               RefreshStep, LogoutStep

\* Rows are never taken away, and revoked ones never restored.
LEMMA HeldKept ==
    ASSUME TypeOK, LoginsFresh, HeldHaveRows, Next
    PROVE  HeldHaveRows'
  <1>1. ASSUME NEW p \in Proc, NEW s \in Session, StartLogin(p, s)
        PROVE  HeldHaveRows'
    BY <1>1 DEF StartLogin, HeldHaveRows, FreshId, SignAccessToken
  <1>2. ASSUME NEW p \in Proc, Count(p)
        PROVE  HeldHaveRows'
    BY <1>2 DEF Count, HeldHaveRows, Goto
  <1>3. ASSUME NEW p \in Proc, NEW s \in Session, FindOldest(p, s)
        PROVE  HeldHaveRows'
    BY <1>3 DEF FindOldest, IsOldest, Active, TypeOK, HeldHaveRows, OpType
  <1>4. ASSUME NEW p \in Proc, NoOldest(p)
        PROVE  HeldHaveRows'
    BY <1>4, SessionsAssumption DEF NoOldest, HeldHaveRows, Finish, Idle
  <1>5. ASSUME NEW p \in Proc, LockVictim(p)
        PROVE  HeldHaveRows'
    BY <1>5 DEF LockVictim, HeldHaveRows, Goto
  <1>6. ASSUME NEW p \in Proc, DenyVictim(p)
        PROVE  HeldHaveRows'
    BY <1>6 DEF DenyVictim, HeldHaveRows, Goto, Deny
  <1>7. ASSUME NEW p \in Proc, Create(p)
        PROVE  HeldHaveRows'
    BY <1>7, SessionsAssumption DEF Create, TypeOK, LoginsFresh, HeldHaveRows,
       Finish, OpType, Idle
  <1>8. ASSUME NEW p \in Proc, NEW s \in Session, StartRefresh(p, s)
        PROVE  HeldHaveRows'
    BY <1>8 DEF StartRefresh, HeldHaveRows, Active
  <1>9. ASSUME NEW p \in Proc, Sign(p)
        PROVE  HeldHaveRows'
    BY <1>9, SessionsAssumption DEF Sign, HeldHaveRows, SignAccessToken,
       Finish, Idle
  <1>10. ASSUME NEW p \in Proc, NEW s \in Session, StartLogout(p, s)
        PROVE  HeldHaveRows'
    BY <1>10 DEF StartLogout, HeldHaveRows, Active
  <1>11. ASSUME NEW p \in Proc, LogoutRow(p)
        PROVE  HeldHaveRows'
    BY <1>11, SessionsAssumption DEF LogoutRow, TypeOK, HeldHaveRows, Revoke,
       Idle, OpType
  <1>12. ASSUME NEW p \in Proc, StartLogoutAll(p)
        PROVE  HeldHaveRows'
    BY <1>12 DEF StartLogoutAll, HeldHaveRows, Active
  <1>13. ASSUME NEW p \in Proc, RevokeAllRows(p)
        PROVE  HeldHaveRows'
    BY <1>13 DEF RevokeAllRows, TypeOK, HeldHaveRows, Revoke, Goto, OpType
  <1>14. ASSUME NEW p \in Proc, DenyList(p)
        PROVE  HeldHaveRows'
    BY <1>14, SessionsAssumption DEF DenyList, HeldHaveRows, Finish, Deny,
       Idle
  <1>15. ASSUME NEW p \in Proc, Fail(p)
        PROVE  HeldHaveRows'
    BY <1>15, SessionsAssumption DEF Fail, HeldHaveRows, Finish, Idle
  <1>16. CASE Tick
    BY <1>16 DEF Tick, HeldHaveRows, Less
  <1>. QED  BY <1>1, <1>2, <1>3, <1>4, <1>5, <1>6, <1>7, <1>8, <1>9, <1>10,
               <1>11, <1>12, <1>13, <1>14, <1>15, <1>16 DEF Next, LoginStep,
               RefreshStep, LogoutStep

\* A token signed after the revocation makes its session late; every other
\* life runs out with the revocation's.
LEMMA RefusedKept ==
    ASSUME TypeOK, LoginsFresh, HeldHaveRows, RefusedCovers, Next
    PROVE  RefusedCovers'
  <1>1. ASSUME NEW p \in Proc, NEW s \in Session, StartLogin(p, s)
        PROVE  RefusedCovers'
    BY <1>1 DEF StartLogin, RefusedCovers, FreshId, SignAccessToken, history
  <1>2. ASSUME NEW p \in Proc, NoOldest(p)
        PROVE  RefusedCovers'
    BY <1>2 DEF NoOldest, LoginsFresh, RefusedCovers, Finish, history, InLogin
  <1>3. ASSUME NEW p \in Proc, DenyVictim(p)
        PROVE  RefusedCovers'
    BY <1>3 DEF DenyVictim, TypeOK, HeldHaveRows, RefusedCovers, Goto, Deny
  <1>4. ASSUME NEW p \in Proc, Create(p)
        PROVE  RefusedCovers'
    BY <1>4 DEF Create, TypeOK, RefusedCovers, Finish
  <1>5. ASSUME NEW p \in Proc, Sign(p)
        PROVE  RefusedCovers'
    BY <1>5 DEF Sign, RefusedCovers, SignAccessToken, Finish
  <1>6. ASSUME NEW p \in Proc, LogoutRow(p)
        PROVE  RefusedCovers'
    BY <1>6 DEF LogoutRow, TypeOK, RefusedCovers, Revoke, history
  <1>7. ASSUME NEW p \in Proc, RevokeAllRows(p)
        PROVE  RefusedCovers'
    BY <1>7 DEF RevokeAllRows, TypeOK, RefusedCovers, Revoke, Goto, history
  <1>8. ASSUME NEW p \in Proc, DenyList(p)
        PROVE  RefusedCovers'
    BY <1>8 DEF DenyList, TypeOK, HeldHaveRows, RefusedCovers, Finish, Deny,
       OpType
  <1>9. ASSUME NEW p \in Proc, Fail(p)
        PROVE  RefusedCovers'
    BY <1>9 DEF Fail, TypeOK, RefusedCovers, Finish
  <1>10. ASSUME NEW p \in Proc,
               \/ \E s \in Session :
                     FindOldest(p, s) \/ StartRefresh(p, s) \/ StartLogout(p, s)
               \/ Count(p) \/ LockVictim(p) \/ StartLogoutAll(p)
        PROVE  RefusedCovers'
    BY <1>10 DEF Count, FindOldest, LockVictim, StartRefresh, StartLogout,
       StartLogoutAll, RefusedCovers, Goto, history
  <1>11. CASE Tick
    <2>. SUFFICES ASSUME NEW s \in refused, s \notin late
                  PROVE  access'[s] <= denied'[s]
      BY <1>11 DEF Tick, RefusedCovers
    <2>1. s \in Session /\ access[s] \in Nat /\ denied[s] \in Nat
      BY DEF TypeOK
    <2>2. access[s] <= denied[s]
      BY DEF RefusedCovers
    <2>3. access'[s] = Less(access[s]) /\ denied'[s] = Less(denied[s])
      BY <1>11, <2>1 DEF Tick
    <2>. QED  BY <2>1, <2>2, <2>3 DEF Less
  <1>. QED  BY <1>1, <1>2, <1>3, <1>4, <1>5, <1>6, <1>7, <1>8, <1>9, <1>10,
               <1>11 DEF Next, LoginStep, RefreshStep, LogoutStep

\* Tick moves a unit from the life to the time since; nothing else lengthens
\* the life of a revoked session, but a refresh within the same unit.
LEMMA ShrinksKept ==
    ASSUME TypeOK, LoginsFresh, HeldHaveRows, RevokedShrinks, Next
    PROVE  RevokedShrinks'
  <1>1. ASSUME NEW p \in Proc, NEW s \in Session, StartLogin(p, s)
        PROVE  RevokedShrinks'
    BY <1>1 DEF StartLogin, RevokedShrinks, FreshId, SignAccessToken, history
  <1>2. ASSUME NEW p \in Proc, Count(p)
        PROVE  RevokedShrinks'
    BY <1>2 DEF Count, RevokedShrinks, Goto, history
  <1>3. ASSUME NEW p \in Proc, NEW s \in Session, FindOldest(p, s)
        PROVE  RevokedShrinks'
    BY <1>3 DEF FindOldest, TypeOK, RevokedShrinks, history
  <1>4. ASSUME NEW p \in Proc, NoOldest(p)
        PROVE  RevokedShrinks'
    BY <1>4 DEF NoOldest, LoginsFresh, RevokedShrinks, Finish, history,
       InLogin, Idle
  <1>5. ASSUME NEW p \in Proc, LockVictim(p)
        PROVE  RevokedShrinks'
    BY <1>5 DEF LockVictim, RevokedShrinks, Goto, history
  <1>6. ASSUME NEW p \in Proc, DenyVictim(p)
        PROVE  RevokedShrinks'
    BY <1>6 DEF DenyVictim, RevokedShrinks, Goto, Deny
  <1>7. ASSUME NEW p \in Proc, Create(p)
        PROVE  RevokedShrinks'
    BY <1>7 DEF Create, TypeOK, LoginsFresh, RevokedShrinks, Finish, InLogin,
       Idle
  <1>8. ASSUME NEW p \in Proc, NEW s \in Session, StartRefresh(p, s)
        PROVE  RevokedShrinks'
    BY <1>8 DEF StartRefresh, RevokedShrinks, Active, history
  <1>9. ASSUME NEW p \in Proc, Sign(p)
        PROVE  RevokedShrinks'
    BY <1>9, SessionsAssumption DEF Sign, RevokedShrinks, SignAccessToken,
       Finish, Idle
  <1>10. ASSUME NEW p \in Proc, NEW s \in Session, StartLogout(p, s)
        PROVE  RevokedShrinks'
    BY <1>10 DEF StartLogout, RevokedShrinks, history
  <1>11. ASSUME NEW p \in Proc, LogoutRow(p)
        PROVE  RevokedShrinks'
    BY <1>11 DEF LogoutRow, TypeOK, RevokedShrinks, Revoke, history
  <1>12. ASSUME NEW p \in Proc, StartLogoutAll(p)
        PROVE  RevokedShrinks'
    BY <1>12 DEF StartLogoutAll, RevokedShrinks, history
  <1>13. ASSUME NEW p \in Proc, RevokeAllRows(p)
        PROVE  RevokedShrinks'
    BY <1>13 DEF RevokeAllRows, TypeOK, RevokedShrinks, Revoke, Goto, history
  <1>14. ASSUME NEW p \in Proc, DenyList(p)
        PROVE  RevokedShrinks'
    BY <1>14 DEF DenyList, RevokedShrinks, Finish, Deny, Idle
  <1>15. ASSUME NEW p \in Proc, Fail(p)
        PROVE  RevokedShrinks'
    BY <1>15 DEF Fail, LoginsFresh, RevokedShrinks, Finish, Idle
  <1>16. CASE Tick
    BY <1>16, SessionsAssumption DEF Tick, TypeOK, RevokedShrinks, Less
  <1>. QED  BY <1>1, <1>2, <1>3, <1>4, <1>5, <1>6, <1>7, <1>8, <1>9, <1>10,
               <1>11, <1>12, <1>13, <1>14, <1>15, <1>16 DEF Next, LoginStep,
               RefreshStep, LogoutStep

\* Redis is told of a victim by the login about to revoke it, and of a list
\* of revoked rows.
LEMMA DeniedKept ==
    ASSUME TypeOK, LoginsFresh, HeldHaveRows, RefusedCovers, DeniedAreRevoked,
           Next
    PROVE  DeniedAreRevoked'
  <1>1. ASSUME NEW p \in Proc, NEW s \in Session, StartLogin(p, s)
        PROVE  DeniedAreRevoked'
    BY <1>1 DEF StartLogin, DeniedAreRevoked, FreshId, SignAccessToken, Idle,
       history
  <1>2. ASSUME NEW p \in Proc, Count(p)
        PROVE  DeniedAreRevoked'
    BY <1>2 DEF Count, DeniedAreRevoked, Goto, history
  <1>3. ASSUME NEW p \in Proc, NEW s \in Session, FindOldest(p, s)
        PROVE  DeniedAreRevoked'
    BY <1>3 DEF FindOldest, TypeOK, DeniedAreRevoked, history
  <1>4. ASSUME NEW p \in Proc, NoOldest(p)
        PROVE  DeniedAreRevoked'
    BY <1>4 DEF NoOldest, DeniedAreRevoked, Finish, history
  <1>5. ASSUME NEW p \in Proc, LockVictim(p)
        PROVE  DeniedAreRevoked'
    BY <1>5 DEF LockVictim, DeniedAreRevoked, Goto, history
  <1>6. ASSUME NEW p \in Proc, DenyVictim(p)
        PROVE  DeniedAreRevoked'
    BY <1>6 DEF DenyVictim, TypeOK, DeniedAreRevoked, Goto, Deny
  <1>7. ASSUME NEW p \in Proc, Create(p)
        PROVE  DeniedAreRevoked'
    BY <1>7 DEF Create, TypeOK, LoginsFresh, RefusedCovers, DeniedAreRevoked,
       Finish, InLogin
  <1>8. ASSUME NEW p \in Proc, NEW s \in Session, StartRefresh(p, s)
        PROVE  DeniedAreRevoked'
    BY <1>8 DEF StartRefresh, DeniedAreRevoked, Idle, history
  <1>9. ASSUME NEW p \in Proc, Sign(p)
        PROVE  DeniedAreRevoked'
    BY <1>9 DEF Sign, DeniedAreRevoked, SignAccessToken, Finish
  <1>10. ASSUME NEW p \in Proc, NEW s \in Session, StartLogout(p, s)
        PROVE  DeniedAreRevoked'
    BY <1>10 DEF StartLogout, DeniedAreRevoked, Idle, history
  <1>11. ASSUME NEW p \in Proc, LogoutRow(p)
        PROVE  DeniedAreRevoked'
    BY <1>11 DEF LogoutRow, TypeOK, DeniedAreRevoked, Revoke, history
  <1>12. ASSUME NEW p \in Proc, StartLogoutAll(p)
        PROVE  DeniedAreRevoked'
    BY <1>12 DEF StartLogoutAll, DeniedAreRevoked, Idle, history
  <1>13. ASSUME NEW p \in Proc, RevokeAllRows(p)
        PROVE  DeniedAreRevoked'
    BY <1>13 DEF RevokeAllRows, TypeOK, DeniedAreRevoked, Revoke, Goto,
       history
  <1>14. ASSUME NEW p \in Proc, DenyList(p)
        PROVE  DeniedAreRevoked'
    BY <1>14 DEF DenyList, HeldHaveRows, DeniedAreRevoked, Finish, Deny
  <1>15. ASSUME NEW p \in Proc, Fail(p)
        PROVE  DeniedAreRevoked'
    BY <1>15 DEF Fail, TypeOK, DeniedAreRevoked, Finish
  <1>16. CASE Tick
    BY <1>16 DEF Tick, DeniedAreRevoked, Less
  <1>. QED  BY <1>1, <1>2, <1>3, <1>4, <1>5, <1>6, <1>7, <1>8, <1>9, <1>10,
               <1>11, <1>12, <1>13, <1>14, <1>15, <1>16 DEF Next, LoginStep,
               RefreshStep, LogoutStep

\* The active sessions are finitely many.
LEMMA ActiveIsFinite ==
    ASSUME NEW S, S \subseteq Session
    PROVE  IsFiniteSet(S) /\ Cardinality(S) \in Nat
  BY SessionsAssumption, FS_Subset, FS_CardinalityType

\* Sessions that end leave more room.
LEMMA RoomGrows ==
    ASSUME NEW A, NEW B, A \subseteq Session, B \subseteq A,
           NEW o, o.victim \in Session \cup {none}, RoomFor(o, A)
    PROVE  RoomFor(o, B) /\ Cardinality(B) <= Cardinality(A)
  <1>1. IsFiniteSet(A) /\ Cardinality(A) \in Nat /\ Cardinality(B) \in Nat
    BY ActiveIsFinite
  <1>2. Cardinality(B) <= Cardinality(A)
    BY <1>1, FS_Subset
  <1>3. ASSUME o.victim # none
        PROVE  /\ Cardinality(B \cup {o.victim}) <= Cardinality(A \cup {o.victim})
               /\ Cardinality(A \cup {o.victim}) \in Nat
               /\ Cardinality(B \cup {o.victim}) \in Nat
    <2>1. A \cup {o.victim} \subseteq Session
      BY <1>3
    <2>2. B \cup {o.victim} \subseteq A \cup {o.victim}
      OBVIOUS
    <2>. QED  BY <2>1, <2>2, ActiveIsFinite, FS_Subset
  <1>. QED  BY <1>1, <1>2, <1>3, SessionsAssumption DEF RoomFor

\* A step of a request that commits no login and in which the request does
\* not enter the transaction, or goes on in it with the same victim.
Elsewhere(p) ==
    /\ Active' \subseteq Active
    /\ overlapped' = overlapped
    /\ op' \in [Proc -> OpType]
    /\ \A q \in Proc \ {p} : op'[q] = op[q]
    /\ op'[p].pc = "count" => op'[p].victim = none
    /\ op'[p].pc \in {"lock", "deny", "create"} =>
          op[p].pc \in {"lock", "deny", "create"} /\ op'[p].victim = op[p].victim

\* Such a step leaves the room that there is.
LEMMA RoomElsewhere ==
    ASSUME TypeOK, RoomLeft, NEW p \in Proc, Elsewhere(p)
    PROVE  RoomLeft'
  <1>1. Active \subseteq Session
    BY DEF Active
  <1>2. ASSUME NEW q \in Proc
        PROVE  op'[q].pc = "count" => op'[q].victim = none
    BY <1>2 DEF RoomLeft, Elsewhere
  <1>3. ASSUME ~overlapped, NEW q \in Proc
        PROVE  RoomFor(op'[q], Active') /\ Cardinality(Active') <= MaxSessions
    <2>1. Cardinality(Active) \in Nat /\ Cardinality(Active') \in Nat
      BY <1>1, ActiveIsFinite DEF Elsewhere
    <2>2. op[q].victim \in Session \cup {none}
      BY DEF TypeOK, OpType
    <2>3. /\ RoomFor(op[q], Active')
          /\ Cardinality(Active') <= Cardinality(Active)
      BY <1>1, <1>3, <2>2, RoomGrows DEF RoomLeft, Elsewhere
    <2>4. RoomFor(op'[q], Active')
      BY <2>3 DEF RoomFor, Elsewhere
    <2>. QED  BY <1>3, <2>1, <2>3, <2>4, SessionsAssumption DEF RoomLeft
  <1>4. Cardinality(Active') <= MaxSessions \/ overlapped
    BY <1>3
  <1>5. overlapped' = overlapped
    BY DEF Elsewhere
  <1>. QED  BY <1>2, <1>3, <1>4, <1>5 DEF RoomLeft

\* A login counts, finds its victim in what it has counted, and commits; one
\* that commits while another is past its count marks the two as overlapped.
LEMMA RoomKept ==
    ASSUME TypeOK, LoginsFresh, HeldHaveRows, RoomLeft, Next
    PROVE  RoomLeft'
  <1>. op' \in [Proc -> OpType]
    BY TypesKept DEF TypeOK
  <1>. Active \subseteq Session /\ Cardinality(Active) \in Nat
    BY ActiveIsFinite DEF Active
  <1>1. ASSUME NEW p \in Proc, NEW s \in Session,
               \/ StartLogin(p, s) \/ StartRefresh(p, s) \/ StartLogout(p, s)
        PROVE  RoomLeft'
    <2>1. Active' = Active /\ overlapped' = overlapped
      BY <1>1 DEF StartLogin, StartRefresh, StartLogout, Active, history
    <2>2. /\ \A q \in Proc \ {p} : op'[q] = op[q]
          /\ op'[p].pc \in {"count", "sign", "row"}
          /\ op'[p].victim = none
      BY <1>1 DEF StartLogin, StartRefresh, StartLogout, TypeOK, Idle
    <2>3. Elsewhere(p)
      BY <2>1, <2>2 DEF Elsewhere
    <2>. QED  BY <2>3, RoomElsewhere
  <1>2. ASSUME NEW p \in Proc, Count(p)
        PROVE  RoomLeft'
    <2>1. Active' = Active /\ overlapped' = overlapped
      BY <1>2 DEF Count, Active, history
    <2>2. /\ \A q \in Proc \ {p} : op'[q] = op[q]
          /\ op'[p].victim = none
          /\ op'[p].pc = IF Cardinality(Active) >= MaxSessions THEN "oldest" ELSE "create"
      BY <1>2 DEF Count, Goto, TypeOK, OpType, RoomLeft
    <2>3. ~overlapped => RoomFor(op'[p], Active)
      BY <2>2, SessionsAssumption DEF RoomFor
    <2>4. \A q \in Proc : op'[q].pc = "count" => op'[q].victim = none
      BY <2>2 DEF RoomLeft
    <2>5. ~overlapped => \A q \in Proc : RoomFor(op'[q], Active)
      BY <2>2, <2>3 DEF RoomLeft
    <2>. QED  BY <2>1, <2>4, <2>5 DEF RoomLeft
  <1>3. ASSUME NEW p \in Proc, NEW s \in Session, FindOldest(p, s)
        PROVE  RoomLeft'
    <2>1. Active' = Active /\ overlapped' = overlapped /\ s \in Active
      BY <1>3 DEF FindOldest, IsOldest, Active, history
    <2>2. /\ \A q \in Proc \ {p} : op'[q] = op[q]
          /\ op'[p].victim = s
          /\ op'[p].pc = "lock"
      BY <1>3 DEF FindOldest, TypeOK, OpType
    <2>3. Active \cup {s} = Active /\ s # none
      BY <2>1, SessionsAssumption
    <2>4. ~overlapped => RoomFor(op'[p], Active)
      BY <2>2, <2>3 DEF RoomFor, RoomLeft
    <2>5. \A q \in Proc : op'[q].pc = "count" => op'[q].victim = none
      BY <2>2 DEF RoomLeft
    <2>6. ~overlapped => \A q \in Proc : RoomFor(op'[q], Active)
      BY <2>2, <2>4 DEF RoomLeft
    <2>. QED  BY <2>1, <2>5, <2>6 DEF RoomLeft
  <1>4. ASSUME NEW p \in Proc, LockVictim(p) \/ DenyVictim(p)
        PROVE  RoomLeft'
    <2>1. Active' = Active /\ overlapped' = overlapped
      BY <1>4 DEF LockVictim, DenyVictim, Active, history
    <2>2. /\ \A q \in Proc \ {p} : op'[q] = op[q]
          /\ op'[p].victim = op[p].victim
          /\ op[p].pc \in {"lock", "deny"}
          /\ op'[p].pc # "count"
      BY <1>4 DEF LockVictim, DenyVictim, Goto, TypeOK, OpType
    <2>3. Elsewhere(p)
      BY <2>1, <2>2 DEF Elsewhere
    <2>. QED  BY <2>3, RoomElsewhere
  <1>5. ASSUME NEW p \in Proc, Create(p)
        PROVE  RoomLeft'
    <2>. DEFINE sid == op[p].sid
                v   == op[p].victim
    <2>1. sid \in Session /\ row[sid] = "none" /\ sid \notin Active
      BY <1>5 DEF Create, LoginsFresh, InLogin, Active
    <2>2. Active' \subseteq (Active \ {v}) \cup {sid}
      <3>1. ASSUME NEW s \in Session, s # sid
            PROVE  /\ expires'[s] = expires[s]
                   /\ row'[s] = IF s = v THEN "revoked" ELSE row[s]
        BY <1>5, <3>1 DEF Create, TypeOK
      <3>. QED  BY <3>1 DEF Active
    <2>3. /\ \A q \in Proc \ {p} : op'[q] = op[q]
          /\ op'[p] = Idle
      BY <1>5 DEF Create, Finish, TypeOK
    <2>4. \A q \in Proc : op'[q].pc = "count" => op'[q].victim = none
      BY <2>3 DEF RoomLeft, Idle
    <2>5. ASSUME ~overlapped'
          PROVE  /\ Cardinality(Active') <= MaxSessions
                 /\ \A q \in Proc : RoomFor(op'[q], Active')
      <3>1. ~overlapped /\ ~Racing(p)
        BY <1>5, <2>5 DEF Create
      <3>2. \A q \in Proc : RoomFor(op'[q], Active')
        BY <2>3, <3>1 DEF Racing, RoomFor, InLogin, Idle
      <3>3. RoomFor(op[p], Active) /\ op[p].pc = "create"
        BY <1>5, <3>1 DEF RoomLeft, Create
      <3>4. v \in Session \cup {none}
        BY DEF TypeOK, OpType
      <3>5. PICK kept \in SUBSET Session :
               /\ Active' \subseteq kept \cup {sid}
               /\ sid \notin kept
               /\ Cardinality(kept) < MaxSessions
        <4>1. CASE v = none
          BY <2>1, <2>2, <3>3, <4>1 DEF RoomFor
        <4>2. CASE v # none
          <5>. DEFINE all  == Active \cup {v}
                      rest == Active \ {v}
          <5>1. all \subseteq Session /\ rest \subseteq Session /\ v \in Session
            BY <3>4, <4>2
          <5>2. rest = all \ {v} /\ v \in all
            OBVIOUS
          <5>3. Cardinality(all) <= MaxSessions
            BY <3>3, <4>2 DEF RoomFor
          <5>4. /\ Cardinality(all) \in Nat /\ Cardinality(rest) \in Nat
                /\ Cardinality(rest) = Cardinality(all) - 1
            <6>1. IsFiniteSet(all)
              BY <5>1, ActiveIsFinite
            <6>2. Cardinality(all \ {v}) = Cardinality(all) - 1
              BY <5>2, <6>1, FS_RemoveElement
            <6>. QED  BY <5>1, <5>2, <6>2, ActiveIsFinite
          <5>5. Cardinality(rest) < MaxSessions
            BY <5>3, <5>4, SessionsAssumption
          <5>. QED  BY <2>1, <2>2, <5>1, <5>5
        <4>. QED  BY <4>1, <4>2
      <3>6. Cardinality(kept \cup {sid}) = Cardinality(kept) + 1
        BY <3>5, ActiveIsFinite, FS_AddElement
      <3>7. Cardinality(Active') <= Cardinality(kept \cup {sid})
        <4>1. IsFiniteSet(kept \cup {sid})
          BY <2>1, <3>5, ActiveIsFinite
        <4>. QED  BY <3>5, <4>1, FS_Subset
      <3>8. Cardinality(kept) \in Nat /\ Cardinality(Active') \in Nat
        BY <2>1, <2>2, <3>5, ActiveIsFinite
      <3>. QED  BY <3>2, <3>5, <3>6, <3>7, <3>8, SessionsAssumption
    <2>. QED  BY <2>4, <2>5 DEF RoomLeft
  <1>6. ASSUME NEW p \in Proc,
               NoOldest(p) \/ Sign(p) \/ DenyList(p) \/ Fail(p)
        PROVE  RoomLeft'
    <2>1. Active' = Active /\ overlapped' = overlapped
      BY <1>6 DEF NoOldest, Sign, DenyList, Fail, Active, history
    <2>2. /\ \A q \in Proc \ {p} : op'[q] = op[q]
          /\ op'[p].pc = "idle"
      BY <1>6 DEF NoOldest, Sign, DenyList, Fail, Finish, Idle, TypeOK
    <2>3. Elsewhere(p)
      BY <2>1, <2>2 DEF Elsewhere
    <2>. QED  BY <2>3, RoomElsewhere
  <1>7. ASSUME NEW p \in Proc,
               LogoutRow(p) \/ StartLogoutAll(p) \/ RevokeAllRows(p)
        PROVE  RoomLeft'
    <2>1. overlapped' = overlapped
      BY <1>7 DEF LogoutRow, StartLogoutAll, RevokeAllRows, history
    <2>2. Active' \subseteq Active
      BY <1>7 DEF LogoutRow, StartLogoutAll, RevokeAllRows, Revoke, Active
    <2>3. /\ \A q \in Proc \ {p} : op'[q] = op[q]
          /\ op'[p].pc \in {"denyList", "rows"}
      <3>1. CASE LogoutRow(p) \/ StartLogoutAll(p)
        BY <3>1 DEF LogoutRow, StartLogoutAll, TypeOK, Idle
      <3>2. CASE RevokeAllRows(p)
        BY <3>2 DEF RevokeAllRows, Goto, TypeOK, OpType
      <3>. QED  BY <1>7, <3>1, <3>2
    <2>4. Elsewhere(p)
      BY <2>1, <2>2, <2>3 DEF Elsewhere
    <2>. QED  BY <2>4, RoomElsewhere
  <1>8. CASE Tick
    <2>1. overlapped' = overlapped /\ op' = op
      BY <1>8 DEF Tick
    <2>2. Active' \subseteq Active
      <3>1. \A s \in Session : expires'[s] > 0 => expires[s] > 0
        BY <1>8 DEF Tick, TypeOK, Less
      <3>. QED  BY <1>8, <3>1 DEF Active, Tick
    <2>3. ASSUME NEW p \in Proc
          PROVE  RoomLeft'
      <3>1. Elsewhere(p)
        BY <2>1, <2>2 DEF Elsewhere, RoomLeft
      <3>. QED  BY <3>1, RoomElsewhere
    <2>4. ASSUME Proc = {}
          PROVE  RoomLeft'
      <3>1. Cardinality(Active') <= Cardinality(Active) /\ Cardinality(Active') \in Nat
        BY <2>2, ActiveIsFinite, FS_Subset
      <3>. QED  BY <2>1, <2>4, <3>1, SessionsAssumption DEF RoomLeft
    <2>. QED  BY <2>3, <2>4
  <1>. QED  BY <1>1, <1>2, <1>3, <1>4, <1>5, <1>6, <1>7, <1>8 DEF Next,
               LoginStep, RefreshStep, LogoutStep

(***************************************************************************)
(* The invariant is inductive: type correctness, and with it what the      *)
(* properties rest on, for every instance.                                 *)
(***************************************************************************)
THEOREM Invariance == Spec => []IInv
  <1>1. Init => IInv
    <2>. SUFFICES ASSUME Init PROVE IInv
      OBVIOUS
    <2>1. TypeOK
      <3>1. Idle \in OpType
        BY DEF Idle, OpType
      <3>2. 0 \in Nat /\ 0 \in 0 .. RefreshTTL /\ 0 \in 0 .. AccessTTL
        BY SessionsAssumption
      <3>. QED  BY <3>1, <3>2 DEF Init, TypeOK
    <2>2. LoginsFresh /\ HeldHaveRows
      BY SessionsAssumption DEF Init, LoginsFresh, HeldHaveRows, Idle, InLogin
    <2>3. RefusedCovers /\ RevokedShrinks /\ DeniedAreRevoked
      BY DEF Init, RefusedCovers, RevokedShrinks, DeniedAreRevoked, Idle
    <2>4. RoomLeft
      <3>1. Active = {}
        BY DEF Init, Active
      <3>2. Cardinality(Active) = 0
        BY <3>1, FS_EmptySet
      <3>3. \A p \in Proc : op[p].pc = "idle"
        BY DEF Init, Idle
      <3>. QED  BY <3>2, <3>3, SessionsAssumption DEF RoomLeft, RoomFor
    <2>. QED  BY <2>1, <2>2, <2>3, <2>4 DEF IInv
  <1>2. IInv /\ [Next]_vars => IInv'
    <2>. SUFFICES ASSUME IInv, [Next]_vars
                  PROVE  IInv'
      OBVIOUS
    <2>1. CASE Next
      BY <2>1, TypesKept, LoginsFreshKept, HeldKept, RefusedKept, ShrinksKept,
         DeniedKept, RoomKept DEF IInv
    <2>2. CASE UNCHANGED vars
      <3>1. RoomLeft'
        BY <2>2 DEF vars, IInv, RoomLeft, Active, RoomFor
      <3>. QED  BY <2>2, <3>1 DEF vars, IInv, TypeOK, LoginsFresh,
                HeldHaveRows, RefusedCovers, RevokedShrinks, DeniedAreRevoked
    <2>. QED  BY <2>1, <2>2
  <1>. QED  BY <1>1, <1>2, PTL DEF Spec

-----------------------------------------------------------------------------
(* The properties                                                          *)

(***************************************************************************)
(* For any number of sessions and requests and any lives: once Redis was   *)
(* told of a session, no access token signed before is accepted again.     *)
(***************************************************************************)
THEOREM RefusalLasts == Spec => []RefusedUntilExpiry
  <1>1. IInv => RefusedUntilExpiry
    BY DEF IInv, TypeOK, RefusedCovers, RefusedUntilExpiry, Accepted
  <1>. QED  BY <1>1, Invariance, PTL

(***************************************************************************)
(* One access-token life after its row was revoked a session is over, with *)
(* or without Redis.                                                       *)
(***************************************************************************)
THEOREM RevocationEnds == Spec => []RevokedRunsOut
  <1>1. IInv => RevokedRunsOut
    BY DEF IInv, TypeOK, RevokedShrinks, RevokedRunsOut, Accepted
  <1>. QED  BY <1>1, Invariance, PTL

(***************************************************************************)
(* Redis refuses only sessions whose row is revoked, or is being revoked   *)
(* by a login, or was to be revoked by one that was rolled back.           *)
(***************************************************************************)
THEOREM RefusedAreRevoked == Spec => []DeniedAreRevoked
  <1>1. IInv => DeniedAreRevoked
    BY DEF IInv
  <1>. QED  BY <1>1, Invariance, PTL

(***************************************************************************)
(* The cap holds for any maximum, any number of requests and sessions, and *)
(* whatever is revoked, expires or fails meanwhile, until a login commits  *)
(* while another one is between its count and its commit.                  *)
(***************************************************************************)
THEOREM CapHoldsUnlessRaced == Spec => []CapUnlessRaced
  <1>1. IInv => CapUnlessRaced
    BY DEF IInv, RoomLeft, CapUnlessRaced
  <1>. QED  BY <1>1, Invariance, PTL

(***************************************************************************)
(* Every variable has its type: no life is negative or longer than the     *)
(* configured one.                                                         *)
(***************************************************************************)
THEOREM SessionsTypes == Spec => []TypeOK
  <1>1. IInv => TypeOK
    BY DEF IInv
  <1>. QED  BY <1>1, Invariance, PTL
=============================================================================
