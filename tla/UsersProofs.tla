---------------------------- MODULE UsersProofs ----------------------------
(***************************************************************************)
(* What holds of Users for every set of users, values, sessions and        *)
(* requests, whether or not statements throw.                              *)
(***************************************************************************)
EXTENDS Users, TLAPS

-----------------------------------------------------------------------------
(* The inductive invariant                                                 *)

\* What a request has read is there when it writes.
HeldComplete ==
    \A p \in Proc :
        /\ op[p].pc = "create" =>
              /\ op[p].user = none /\ op[p].email \in Email
              /\ op[p].name \in Name /\ op[p].password \in Password
        /\ op[p].pc \in {"email", "name", "update"} =>
              /\ op[p].user \in User /\ Registered(op[p].user)
              /\ op[p].email \in Email /\ op[p].name \in Name
        /\ op[p].pc \in {"revoke", "replace"} =>
              /\ op[p].user \in User /\ Registered(op[p].user)
              /\ op[p].password \in Password
        /\ op[p].pc = "login" => op[p].user \in User

\* The constraints of the table, as the guard of a write keeps them.
Unique ==
    \A u, v \in User : u # v =>
        /\ email[u] = email[v] => email[u] = none
        /\ username[u] = username[v] => username[u] = none

\* What the checks done so far have shown is still so, unless taken since.
ChecksHold ==
    \A p \in Proc \ taken :
        /\ op[p].pc = "create" => ~UniqueViolated(op[p].user, op[p].email, op[p].name)
        /\ op[p].pc = "email" /\ op[p].name = op[p].seen =>
              ~NameHeld(op[p].user, op[p].name)
        /\ op[p].pc = "name" => ~EmailHeld(op[p].user, op[p].email)
        /\ op[p].pc = "update" => ~UniqueViolated(op[p].user, op[p].email, op[p].name)

\* Sessions a change under way has not revoked were opened during it.
MissedAreRaced ==
    \A p \in Proc : op[p].pc = "replace" =>
        SessionsOf(op[p].user) \ op[p].list \subseteq raced

IInv == /\ TypeOK
        /\ HeldComplete
        /\ Unique
        /\ ChecksHold
        /\ ErrorsOnlyWhenTaken
        /\ MissedAreRaced
        /\ OutlivedOnlyIfRaced

-----------------------------------------------------------------------------
(* The steps that change no table                                          *)

\* A request that reads, and what becomes of it.
Reads(p) ==
    \/ \E e \in Email, n \in Name, w \in Password : Register(p, e, n, w)
    \/ \E u \in User, e \in Email, n \in Name : UpdateProfile(p, u, e, n)
    \/ CheckEmail(p)
    \/ CheckName(p)
    \/ \E u \in User, w \in Password : Login(p, u, w)
    \/ \E u \in User, w, new \in Password : ChangePassword(p, u, w, new)
    \/ RevokeAll(p)
    \/ CreateRefused(p)
    \/ UpdateRefused(p)

\* What p holds after a reading step is complete, and nothing else changes.
LEMMA ReadsKeepHeld ==
    ASSUME TypeOK, HeldComplete, NEW p \in Proc, Reads(p)
    PROVE  /\ TypeOK' /\ HeldComplete'
           /\ op' = [op EXCEPT ![p] = op'[p]]
           /\ UNCHANGED <<email, username, password, session, taken, overtaken,
                          raced, outlived>>
  <1> DEFINE Good(r) ==
        /\ r \in Op
        /\ r.pc = "create" => r.user = none /\ r.email \in Email
                                 /\ r.name \in Name /\ r.password \in Password
        /\ r.pc \in {"email", "name", "update"} =>
              r.user \in User /\ Registered(r.user)
                 /\ r.email \in Email /\ r.name \in Name
        /\ r.pc \in {"revoke", "replace"} =>
              r.user \in User /\ Registered(r.user) /\ r.password \in Password
        /\ r.pc = "login" => r.user \in User
  <1>1. ASSUME NEW r, op' = [op EXCEPT ![p] = r], Good(r),
               UNCHANGED <<table, session, history>>
        PROVE  /\ TypeOK' /\ HeldComplete'
               /\ op' = [op EXCEPT ![p] = op'[p]]
               /\ UNCHANGED <<email, username, password, session, taken,
                              overtaken, raced, outlived>>
    <2>1. op' \in [Proc -> Op] /\ op'[p] = r /\ \A q \in Proc \ {p} : op'[q] = op[q]
      BY <1>1 DEF TypeOK
    <2>2. UNCHANGED <<email, username, password, session, taken, overtaken,
                      raced, outlived>>
      BY <1>1 DEF table, history
    <2>3. TypeOK'
      BY <2>1, <2>2 DEF TypeOK
    <2>4. HeldComplete'
      BY <1>1, <2>1, <2>2 DEF HeldComplete, Registered
    <2>. QED  BY <1>1, <2>1, <2>2, <2>3, <2>4
  <1> HIDE DEF Good
  <1>2. ASSUME NEW e \in Email, NEW n \in Name, NEW w \in Password,
               Register(p, e, n, w)
        PROVE  \E r : op' = [op EXCEPT ![p] = r] /\ Good(r)
    <2>1. Good([Asked("create", none, e, n, none) EXCEPT !.password = w])
      BY DEF Good, Asked, Idle, Op
    <2>2. /\ Good(Asked("email taken", none, e, n, none))
          /\ Good(Asked("name taken", none, e, n, none))
      BY DEF Good, Asked, Idle, Op
    <2>. QED  BY <1>2, <2>1, <2>2 DEF Register
  <1>3. ASSUME NEW u \in User, NEW e \in Email, NEW n \in Name,
               UpdateProfile(p, u, e, n)
        PROVE  \E r : op' = [op EXCEPT ![p] = r] /\ Good(r)
    <2>1. Good(Asked(AfterFind(u, e, n), u, e, n, username[u]))
      BY <1>3 DEF UpdateProfile, Good, Asked, AfterFind, Idle, Op, TypeOK
    <2>. QED  BY <1>3, <2>1 DEF UpdateProfile
  <1>4. ASSUME NEW pc \in {"email taken", "name taken", "name", "update", "error"},
               \/ op[p].pc \in {"email", "name", "update"}
               \/ op[p].pc = "create" /\ pc = "error",
               Become(p, pc)
        PROVE  \E r : op' = [op EXCEPT ![p] = r] /\ Good(r)
    <2>1. Good([op[p] EXCEPT !.pc = pc])
      BY <1>4 DEF Good, Op, TypeOK, HeldComplete
    <2>. QED  BY <1>4, <2>1 DEF Become
  <1>5. ASSUME NEW u \in User, NEW w \in Password, Login(p, u, w)
        PROVE  \E r : op' = [op EXCEPT ![p] = r] /\ Good(r)
    <2>1. Good([Idle EXCEPT !.pc = "login", !.user = u, !.password = w])
      BY DEF Good, Idle, Op
    <2>. QED  BY <1>5, <2>1 DEF Login
  <1>6. ASSUME NEW u \in User, NEW w \in Password, NEW new \in Password,
               ChangePassword(p, u, w, new)
        PROVE  \E r : op' = [op EXCEPT ![p] = r] /\ Good(r)
    <2>1. Good([Idle EXCEPT !.pc = "revoke", !.user = u, !.password = new])
      BY <1>6 DEF ChangePassword, Good, Idle, Op
    <2>. QED  BY <1>6, <2>1 DEF ChangePassword
  <1>7. ASSUME RevokeAll(p)
        PROVE  \E r : op' = [op EXCEPT ![p] = r] /\ Good(r)
    <2>1. Good([op[p] EXCEPT !.pc = "replace", !.list = SessionsOf(op[p].user)])
      BY <1>7 DEF RevokeAll, SessionsOf, Good, Op, TypeOK, HeldComplete
    <2>. QED  BY <1>7, <2>1 DEF RevokeAll
  <1>8. \E r : op' = [op EXCEPT ![p] = r] /\ Good(r)
    <2>1. CASE CheckEmail(p)
      BY <2>1, <1>4 DEF CheckEmail
    <2>2. CASE CheckName(p)
      BY <2>2, <1>4 DEF CheckName
    <2>3. CASE CreateRefused(p) \/ UpdateRefused(p)
      BY <2>3, <1>4 DEF CreateRefused, UpdateRefused, Refused
    <2>. QED  BY <2>1, <2>2, <2>3, <1>2, <1>3, <1>5, <1>6, <1>7 DEF Reads
  <1>9. UNCHANGED <<table, session, history>>
    BY DEF Reads, Register, UpdateProfile, CheckEmail, CheckName, Login,
       ChangePassword, RevokeAll, CreateRefused, UpdateRefused, Refused
  <1>. QED  BY <1>1, <1>8, <1>9
-----------------------------------------------------------------------------
(* The other steps                                                         *)

\* A request ends, answered or by an error.
Ends(p) == Answer(p) \/ Fail(p)

\* A row gets a new e-mail and name.
Writes(p) == (\E u \in User : CreateUser(p, u)) \/ UpdateUser(p)

\* Every step is one of these.
LEMMA StepsSplit ==
    ASSUME Next
    PROVE  \/ \E p \in Proc : \/ Reads(p) \/ Writes(p) \/ Ends(p)
                              \/ \E s \in Session : OpenSession(p, s)
                              \/ ReplacePassword(p)
           \/ \E s \in Session : EndSession(s)
  BY DEF Next, RegisterStep, ProfileStep, LoginStep, PasswordStep, Reads,
     Writes, Ends

\* The row u that is written gets values nobody else has, p is idle, and those
\* who wanted one of the values have lost it.
LEMMA WriteForm ==
    ASSUME TypeOK, HeldComplete, NEW p \in Proc, Writes(p)
    PROVE  \E u \in User :
              /\ op[p].email \in Email /\ op[p].name \in Name
              /\ ~UniqueViolated(u, op[p].email, op[p].name)
              /\ email' = [email EXCEPT ![u] = op[p].email]
              /\ username' = [username EXCEPT ![u] = op[p].name]
              /\ \/ password' = password /\ Registered(u)
                 \/ \E w \in Password : password' = [password EXCEPT ![u] = w]
              /\ op' = [op EXCEPT ![p] = Idle]
              /\ taken' = (taken \cup Losers(p, u, op[p].email, op[p].name)) \ {p}
              /\ overtaken' = overtaken \ {p}
              /\ UNCHANGED <<session, raced, outlived>>
  <1>1. CASE \E u \in User : CreateUser(p, u)
    BY <1>1 DEF CreateUser, Write, HeldComplete
  <1>2. CASE UpdateUser(p)
    BY <1>2 DEF UpdateUser, Write, HeldComplete
  <1>. QED  BY <1>1, <1>2 DEF Writes

\* A request that is over holds nothing.
LEMMA IdleIsGood ==
    Idle \in Op /\ Idle.pc = "idle"
  BY DEF Idle, Op

-----------------------------------------------------------------------------
(* Each part is kept by every step                                         *)

\* The variables keep their types, what a request holds being complete.
LEMMA TypesKept ==
    ASSUME TypeOK, HeldComplete, Next
    PROVE  TypeOK' /\ HeldComplete'
  <1>1. ASSUME NEW p \in Proc, Writes(p)
        PROVE  TypeOK' /\ HeldComplete'
    <2>1. PICK u \in User :
              /\ op[p].email \in Email /\ op[p].name \in Name
              /\ email' = [email EXCEPT ![u] = op[p].email]
              /\ username' = [username EXCEPT ![u] = op[p].name]
              /\ \/ password' = password /\ Registered(u)
                 \/ \E w \in Password : password' = [password EXCEPT ![u] = w]
              /\ op' = [op EXCEPT ![p] = Idle]
              /\ taken' = (taken \cup Losers(p, u, op[p].email, op[p].name)) \ {p}
              /\ overtaken' = overtaken \ {p}
              /\ UNCHANGED <<session, raced, outlived>>
      BY <1>1, WriteForm
    <2>2. op' \in [Proc -> Op] /\ op'[p].pc = "idle" /\ \A q \in Proc \ {p} : op'[q] = op[q]
      BY <2>1, IdleIsGood DEF TypeOK
    <2>3. \A v \in User : Registered(v) => Registered(v)'
      BY <2>1, UsersAssumption DEF Registered, TypeOK
    <2>4. /\ email' \in [User -> Email \cup {none}]
          /\ username' \in [User -> Name \cup {none}]
          /\ password' \in [User -> Password \cup {none}]
          /\ \A v \in User : /\ email'[v] = none <=> username'[v] = none
                             /\ email'[v] = none <=> password'[v] = none
      BY <2>1, UsersAssumption DEF TypeOK, Registered
    <2>5. TypeOK'
      BY <2>1, <2>2, <2>4 DEF TypeOK, Losers
    <2>6. HeldComplete'
      BY <2>2, <2>3 DEF HeldComplete
    <2>. QED  BY <2>5, <2>6
  <1>2. ASSUME NEW p \in Proc, Ends(p)
        PROVE  TypeOK' /\ HeldComplete'
    <2>1. op' \in [Proc -> Op] /\ op'[p].pc = "idle" /\ \A q \in Proc \ {p} : op'[q] = op[q]
      BY <1>2, IdleIsGood DEF Ends, Answer, Fail, Finish, TypeOK
    <2>2. HeldComplete'
      BY <1>2, <2>1 DEF Ends, Answer, Fail, table, HeldComplete, Registered
    <2>. QED  BY <1>2, <2>1, <2>2 DEF Ends, Answer, Fail, Finish, table, TypeOK
  <1>3. ASSUME NEW p \in Proc, NEW s \in Session, OpenSession(p, s)
        PROVE  TypeOK' /\ HeldComplete'
    <2>1. op' \in [Proc -> Op] /\ op'[p].pc = "idle" /\ \A q \in Proc \ {p} : op'[q] = op[q]
      BY <1>3, IdleIsGood DEF OpenSession, Finish, TypeOK
    <2>2. op[p].user \in User
      BY <1>3 DEF OpenSession, HeldComplete
    <2>3. HeldComplete'
      BY <1>3, <2>1 DEF OpenSession, table, HeldComplete, Registered
    <2>. QED  BY <1>3, <2>1, <2>2, <2>3 DEF OpenSession, Finish, table, TypeOK
  <1>4. ASSUME NEW p \in Proc, ReplacePassword(p)
        PROVE  TypeOK' /\ HeldComplete'
    <2>1. op' \in [Proc -> Op] /\ op'[p].pc = "idle" /\ \A q \in Proc \ {p} : op'[q] = op[q]
      BY <1>4, IdleIsGood DEF ReplacePassword, TypeOK
    <2>2. op[p].user \in User /\ Registered(op[p].user) /\ op[p].password \in Password
      BY <1>4 DEF ReplacePassword, HeldComplete
    <2>3. HeldComplete'
      BY <1>4, <2>1 DEF ReplacePassword, HeldComplete, Registered
    <2>4. password' \in [User -> Password \cup {none}]
          /\ \A v \in User : email[v] = none <=> password'[v] = none
      BY <1>4, <2>2, UsersAssumption DEF ReplacePassword, TypeOK, Registered
    <2>. QED
      BY <1>4, <2>1, <2>3, <2>4 DEF ReplacePassword, SessionsOf, TypeOK
  <1>5. ASSUME NEW s \in Session, EndSession(s)
        PROVE  TypeOK' /\ HeldComplete'
    BY <1>5 DEF EndSession, table, history, TypeOK, HeldComplete, Registered
  <1>. QED  BY <1>1, <1>2, <1>3, <1>4, <1>5, StepsSplit, ReadsKeepHeld

\* No write breaks the constraints.
LEMMA UniqueKept ==
    ASSUME TypeOK, HeldComplete, Unique, Next
    PROVE  Unique'
  <1>1. ASSUME NEW p \in Proc, Writes(p)
        PROVE  Unique'
    <2>1. PICK u \in User :
              /\ ~UniqueViolated(u, op[p].email, op[p].name)
              /\ email' = [email EXCEPT ![u] = op[p].email]
              /\ username' = [username EXCEPT ![u] = op[p].name]
      BY <1>1, WriteForm
    <2>2. \A v \in User : u # v => email[v] # op[p].email /\ username[v] # op[p].name
      BY <2>1 DEF UniqueViolated, EmailHeld, NameHeld
    <2>. QED  BY <2>1, <2>2 DEF Unique, TypeOK
  <1>2. CASE UNCHANGED <<email, username>>
    BY <1>2 DEF Unique
  <1>3. ASSUME NEW p \in Proc, Reads(p)
        PROVE  UNCHANGED <<email, username>>
    BY <1>3, ReadsKeepHeld
  <1>. QED
    BY <1>1, <1>2, <1>3, StepsSplit DEF Ends, Answer, Fail, OpenSession,
       ReplacePassword, EndSession, table

\* Reading steps: what p finds out is true at that moment, and an error shows
\* that a value was taken, since what was looked up was free.
LEMMA ChecksKeptByReads ==
    ASSUME TypeOK, HeldComplete, Unique, ChecksHold, ErrorsOnlyWhenTaken,
           NEW p \in Proc, Reads(p)
    PROVE  ChecksHold' /\ ErrorsOnlyWhenTaken'
  <1> DEFINE Sound(r) ==
        /\ r.pc = "create" => ~UniqueViolated(r.user, r.email, r.name)
        /\ r.pc = "email" /\ r.name = r.seen => ~NameHeld(r.user, r.name)
        /\ r.pc = "name" => ~EmailHeld(r.user, r.email)
        /\ r.pc = "update" => ~UniqueViolated(r.user, r.email, r.name)
        /\ r.pc # "error"
  <1>1. ASSUME p \notin taken => Sound(op'[p])
        PROVE  ChecksHold' /\ ErrorsOnlyWhenTaken'
    <2>1. /\ \A q \in Proc \ {p} : op'[q] = op[q]
          /\ UNCHANGED <<email, username, taken>>
      BY ReadsKeepHeld DEF TypeOK
    <2>. QED
      BY <1>1, <2>1 DEF ChecksHold, ErrorsOnlyWhenTaken, UniqueViolated,
         EmailHeld, NameHeld
  <1>2. ASSUME NEW e \in Email, NEW n \in Name, NEW w \in Password,
               Register(p, e, n, w)
        PROVE  Sound(op'[p])
    <2>1. CASE /\ ~EmailHeld(none, e) /\ ~NameHeld(none, n)
               /\ op' = [op EXCEPT ![p] =
                     [Asked("create", none, e, n, none) EXCEPT !.password = w]]
      <3>1. /\ op'[p].pc = "create" /\ op'[p].user = none
            /\ op'[p].email = e /\ op'[p].name = n
        BY <2>1 DEF Asked, Idle, TypeOK
      <3>. QED  BY <2>1, <3>1 DEF UniqueViolated
    <2>2. ASSUME NEW pc \in {"email taken", "name taken"},
                 op' = [op EXCEPT ![p] = Asked(pc, none, e, n, none)]
          PROVE  Sound(op'[p])
      <3>1. op'[p].pc = pc
        BY <2>2 DEF Asked, Idle, TypeOK
      <3>. QED  BY <3>1
    <2>. QED  BY <1>2, <2>1, <2>2 DEF Register
  <1>3. ASSUME NEW u \in User, NEW e \in Email, NEW n \in Name,
               UpdateProfile(p, u, e, n)
        PROVE  Sound(op'[p])
    <2>1. /\ op'[p].pc = AfterFind(u, e, n) /\ op'[p].user = u
          /\ op'[p].email = e /\ op'[p].name = n /\ op'[p].seen = username[u]
      BY <1>3 DEF UpdateProfile, Asked, Idle, TypeOK
    <2>2. /\ e = email[u] => ~EmailHeld(u, e)
          /\ n = username[u] => ~NameHeld(u, n)
      BY UsersAssumption DEF EmailHeld, NameHeld, Unique
    <2>. QED  BY <2>1, <2>2 DEF AfterFind, UniqueViolated
  <1>4. ASSUME CheckEmail(p), p \notin taken
        PROVE  Sound(op'[p])
    <2>1. /\ op[p].pc = "email"
          /\ op'[p].user = op[p].user /\ op'[p].email = op[p].email
          /\ op'[p].name = op[p].name /\ op'[p].seen = op[p].seen
          /\ op'[p].pc = IF EmailHeld(op[p].user, op[p].email) THEN "email taken"
                         ELSE IF op[p].name # op[p].seen THEN "name" ELSE "update"
      BY <1>4 DEF CheckEmail, Become, TypeOK, Op
    <2>. QED  BY <1>4, <2>1 DEF ChecksHold, UniqueViolated
  <1>5. ASSUME CheckName(p), p \notin taken
        PROVE  Sound(op'[p])
    <2>1. /\ op[p].pc = "name"
          /\ op'[p].user = op[p].user /\ op'[p].email = op[p].email
          /\ op'[p].name = op[p].name
          /\ op'[p].pc = IF NameHeld(op[p].user, op[p].name) THEN "name taken"
                                                             ELSE "update"
      BY <1>5 DEF CheckName, Become, TypeOK, Op
    <2>. QED  BY <1>5, <2>1 DEF ChecksHold, UniqueViolated
  <1>6. ASSUME CreateRefused(p) \/ UpdateRefused(p), p \notin taken
        PROVE  FALSE
    BY <1>6 DEF CreateRefused, UpdateRefused, Refused, ChecksHold, HeldComplete
  <1>7. ASSUME \/ \E u \in User, w \in Password : Login(p, u, w)
               \/ \E u \in User, w, new \in Password : ChangePassword(p, u, w, new)
               \/ RevokeAll(p)
        PROVE  Sound(op'[p])
    <2>1. CASE \E u \in User, w \in Password : Login(p, u, w)
      BY <2>1 DEF Login, Idle, TypeOK
    <2>2. CASE \E u \in User, w, new \in Password : ChangePassword(p, u, w, new)
      BY <2>2 DEF ChangePassword, Idle, TypeOK
    <2>3. CASE RevokeAll(p)
      <3>1. op'[p].pc = "replace"
        BY <2>3 DEF RevokeAll, TypeOK, Op
      <3>. QED  BY <3>1
    <2>. QED  BY <1>7, <2>1, <2>2, <2>3
  <1>. QED
    BY <1>1, <1>2, <1>3, <1>4, <1>5, <1>6, <1>7 DEF Reads

\* Every other step: a write counts those among the taken who lose by it.
LEMMA ChecksKept ==
    ASSUME TypeOK, HeldComplete, Unique, ChecksHold, ErrorsOnlyWhenTaken, Next
    PROVE  ChecksHold' /\ ErrorsOnlyWhenTaken'
  <1>1. ASSUME NEW p \in Proc, Writes(p)
        PROVE  ChecksHold' /\ ErrorsOnlyWhenTaken'
    <2>1. PICK u \in User :
              /\ email' = [email EXCEPT ![u] = op[p].email]
              /\ username' = [username EXCEPT ![u] = op[p].name]
              /\ op' = [op EXCEPT ![p] = Idle]
              /\ taken' = (taken \cup Losers(p, u, op[p].email, op[p].name)) \ {p}
      BY <1>1, WriteForm
    <2>2. op'[p].pc = "idle" /\ \A q \in Proc \ {p} : op'[q] = op[q]
      BY <2>1, IdleIsGood DEF TypeOK
    <2>3. ErrorsOnlyWhenTaken'
      BY <2>1, <2>2 DEF ErrorsOnlyWhenTaken
    <2>4. ASSUME NEW q \in Proc, q \notin taken', q # p,
                 op[q].pc \in {"create", "email", "name", "update"}
          PROVE  /\ EmailHeld(op[q].user, op[q].email)' => EmailHeld(op[q].user, op[q].email)
                 /\ NameHeld(op[q].user, op[q].name)' => NameHeld(op[q].user, op[q].name)
      <3>1. op[q].user = u \/ (op[q].email # op[p].email /\ op[q].name # op[p].name)
        BY <2>1, <2>4 DEF Losers
      <3>. QED  BY <2>1, <2>2, <2>4, <3>1 DEF EmailHeld, NameHeld, TypeOK
    <2>5. ChecksHold'
      BY <2>1, <2>2, <2>4 DEF ChecksHold, UniqueViolated
    <2>. QED  BY <2>3, <2>5
  <1>2. ASSUME NEW p \in Proc, op'[p].pc = "idle",
               \A q \in Proc \ {p} : op'[q] = op[q],
               taken' = taken \ {p}, UNCHANGED <<email, username>>
        PROVE  ChecksHold' /\ ErrorsOnlyWhenTaken'
    BY <1>2 DEF ChecksHold, ErrorsOnlyWhenTaken, UniqueViolated, EmailHeld,
       NameHeld
  <1>3. ASSUME NEW p \in Proc,
               Ends(p) \/ (\E s \in Session : OpenSession(p, s)) \/ ReplacePassword(p)
        PROVE  /\ op'[p].pc = "idle" /\ \A q \in Proc \ {p} : op'[q] = op[q]
               /\ taken' = taken \ {p} /\ UNCHANGED <<email, username>>
    BY <1>3, IdleIsGood DEF Ends, Answer, Fail, OpenSession, ReplacePassword,
       Finish, table, TypeOK
  <1>4. ASSUME NEW s \in Session, EndSession(s)
        PROVE  ChecksHold' /\ ErrorsOnlyWhenTaken'
    BY <1>4 DEF EndSession, table, history, ChecksHold, ErrorsOnlyWhenTaken,
       UniqueViolated, EmailHeld, NameHeld
  <1>. QED  BY <1>1, <1>2, <1>3, <1>4, StepsSplit, ChecksKeptByReads

\* What a reading step can lead to, as far as later steps rely on it.
LEMMA ReadsOutcome ==
    ASSUME TypeOK, NEW p \in Proc, Reads(p)
    PROVE  /\ op'[p].pc = "replace" =>
                 op'[p].user = op[p].user /\ op'[p].list = SessionsOf(op[p].user)
           /\ op'[p].pc = "email taken" => EmailHeld(op'[p].user, op'[p].email)
           /\ op'[p].pc = "name taken" => NameHeld(op'[p].user, op'[p].name)
  <1>1. CASE RevokeAll(p)
    BY <1>1 DEF RevokeAll, TypeOK, Op
  <1>2. ASSUME NEW e \in Email, NEW n \in Name, NEW w \in Password,
               Register(p, e, n, w)
        PROVE  /\ op'[p].pc # "replace"
               /\ op'[p].pc = "email taken" => EmailHeld(op'[p].user, op'[p].email)
               /\ op'[p].pc = "name taken" => NameHeld(op'[p].user, op'[p].name)
    <2>1. CASE op' = [op EXCEPT ![p] =
                   [Asked("create", none, e, n, none) EXCEPT !.password = w]]
      <3>1. op'[p].pc = "create"
        BY <2>1 DEF Asked, Idle, TypeOK
      <3>. QED  BY <3>1
    <2>2. ASSUME NEW v \in User, email[v] = e \/ username[v] = n,
                 op' = [op EXCEPT ![p] = Asked(
                    IF email[v] = e THEN "email taken" ELSE "name taken",
                    none, e, n, none)]
          PROVE  /\ op'[p].pc # "replace"
                 /\ op'[p].pc = "email taken" => EmailHeld(op'[p].user, op'[p].email)
                 /\ op'[p].pc = "name taken" => NameHeld(op'[p].user, op'[p].name)
      <3>1. /\ op'[p].pc = IF email[v] = e THEN "email taken" ELSE "name taken"
            /\ op'[p].user = none /\ op'[p].email = e /\ op'[p].name = n
        BY <2>2 DEF Asked, Idle, TypeOK
      <3>2. v # none
        BY UsersAssumption
      <3>3. v \in User \ {none}
        BY <3>2
      <3>4. IF email[v] = e THEN EmailHeld(none, e) ELSE NameHeld(none, n)
        BY <2>2, <3>3 DEF EmailHeld, NameHeld
      <3>. QED  BY <3>1, <3>4
    <2>. QED  BY <1>2, <2>1, <2>2 DEF Register
  <1>3. CASE \E u \in User, e \in Email, n \in Name : UpdateProfile(p, u, e, n)
    <2>1. op'[p].pc \in {"email", "name", "update"}
      BY <1>3 DEF UpdateProfile, AfterFind, Asked, Idle, TypeOK
    <2>. QED  BY <2>1
  <1>4. CASE CheckEmail(p)
    <2>1. /\ op'[p].user = op[p].user /\ op'[p].email = op[p].email
          /\ op'[p].pc = IF EmailHeld(op[p].user, op[p].email) THEN "email taken"
                         ELSE IF op[p].name # op[p].seen THEN "name" ELSE "update"
      BY <1>4 DEF CheckEmail, Become, TypeOK, Op
    <2>. QED  BY <2>1
  <1>5. CASE CheckName(p)
    <2>1. /\ op'[p].user = op[p].user /\ op'[p].name = op[p].name
          /\ op'[p].pc = IF NameHeld(op[p].user, op[p].name) THEN "name taken"
                                                             ELSE "update"
      BY <1>5 DEF CheckName, Become, TypeOK, Op
    <2>. QED  BY <2>1
  <1>6. CASE CreateRefused(p) \/ UpdateRefused(p)
    <2>1. op'[p].pc = "error"
      BY <1>6 DEF CreateRefused, UpdateRefused, Refused, Become, TypeOK, Op
    <2>. QED  BY <2>1
  <1>7. CASE \E u \in User, w \in Password : Login(p, u, w)
    BY <1>7 DEF Login, Idle, TypeOK
  <1>8. CASE \E u \in User, w, new \in Password : ChangePassword(p, u, w, new)
    BY <1>8 DEF ChangePassword, Idle, TypeOK
  <1>. QED
    BY <1>1, <1>2, <1>3, <1>4, <1>5, <1>6, <1>7, <1>8 DEF Reads

\* A session a change does not revoke, or one opened with a password replaced
\* since, comes from a login that overlapped the change.
LEMMA RacesKept ==
    ASSUME TypeOK, HeldComplete, MissedAreRaced, OutlivedOnlyIfRaced, Next
    PROVE  MissedAreRaced' /\ OutlivedOnlyIfRaced'
  <1>1. ASSUME NEW p \in Proc, NEW s \in Session, OpenSession(p, s)
        PROVE  MissedAreRaced' /\ OutlivedOnlyIfRaced'
    <2>1. /\ op'[p].pc = "idle" /\ \A q \in Proc \ {p} : op'[q] = op[q]
          /\ session' = [session EXCEPT ![s] = op[p].user]
          /\ outlived' = IF p \in overtaken THEN outlived \cup {s} ELSE outlived \ {s}
          /\ raced' = IF p \in overtaken \/ Replacing(op[p].user)
                      THEN raced \cup {s} ELSE raced \ {s}
      BY <1>1, IdleIsGood DEF OpenSession, Finish, TypeOK
    <2>2. OutlivedOnlyIfRaced'
      BY <2>1 DEF OutlivedOnlyIfRaced, TypeOK
    <2>3. ASSUME NEW q \in Proc, op'[q].pc = "replace",
                 NEW t \in Session, session'[t] = op'[q].user, t \notin op'[q].list
          PROVE  t \in raced'
      <3>1. q # p /\ op'[q] = op[q]
        BY <2>1, <2>3
      <3>2. CASE t = s
        BY <2>1, <2>3, <3>1, <3>2 DEF Replacing, TypeOK
      <3>3. CASE t # s
        BY <2>1, <2>3, <3>1, <3>3 DEF MissedAreRaced, SessionsOf, TypeOK
      <3>. QED  BY <3>2, <3>3
    <2>. QED  BY <2>2, <2>3 DEF MissedAreRaced, SessionsOf
  <1>2. ASSUME NEW p \in Proc, ReplacePassword(p)
        PROVE  MissedAreRaced' /\ OutlivedOnlyIfRaced'
    <2>1. /\ op'[p].pc = "idle" /\ \A q \in Proc \ {p} : op'[q] = op[q]
          /\ session' = [s \in Session |-> IF s \in op[p].list THEN none ELSE session[s]]
          /\ outlived' = outlived \cup SessionsOf(op[p].user)
          /\ raced' = raced /\ op[p].pc = "replace"
      BY <1>2, IdleIsGood DEF ReplacePassword, TypeOK
    <2>2. OutlivedOnlyIfRaced'
      BY <2>1 DEF OutlivedOnlyIfRaced, MissedAreRaced, SessionsOf, TypeOK
    <2>3. \A q \in Proc : op[q].pc = "replace" => op[q].user # none
      BY UsersAssumption DEF HeldComplete
    <2>4. MissedAreRaced'
      BY <2>1, <2>3 DEF MissedAreRaced, SessionsOf
    <2>. QED  BY <2>2, <2>4
  <1>3. ASSUME NEW p \in Proc, Reads(p)
        PROVE  MissedAreRaced' /\ OutlivedOnlyIfRaced'
    <2>1. /\ \A q \in Proc \ {p} : op'[q] = op[q]
          /\ UNCHANGED <<session, raced, outlived>>
      BY <1>3, ReadsKeepHeld DEF TypeOK
    <2>2. op'[p].pc = "replace" =>
             op'[p].user = op[p].user /\ op'[p].list = SessionsOf(op[p].user)
      BY <1>3, ReadsOutcome
    <2>3. MissedAreRaced'
      BY <2>1, <2>2 DEF MissedAreRaced, SessionsOf
    <2>. QED  BY <2>1, <2>3 DEF OutlivedOnlyIfRaced
  <1>4. ASSUME NEW p \in Proc, Writes(p) \/ Ends(p)
        PROVE  MissedAreRaced' /\ OutlivedOnlyIfRaced'
    <2>1. /\ op' = [op EXCEPT ![p] = Idle]
          /\ UNCHANGED <<session, raced, outlived>>
      BY <1>4, WriteForm DEF Ends, Answer, Fail, Finish
    <2>. QED
      BY <2>1, IdleIsGood DEF MissedAreRaced, OutlivedOnlyIfRaced, SessionsOf,
         TypeOK
  <1>5. ASSUME NEW s \in Session, EndSession(s)
        PROVE  MissedAreRaced' /\ OutlivedOnlyIfRaced'
    <2>1. \A q \in Proc : op[q].pc = "replace" => op[q].user # none
      BY UsersAssumption DEF HeldComplete
    <2>. QED
      BY <1>5, <2>1 DEF EndSession, table, history, MissedAreRaced,
         OutlivedOnlyIfRaced, SessionsOf, TypeOK
  <1>. QED  BY <1>1, <1>2, <1>3, <1>4, <1>5, StepsSplit

\* Whoever is sent a conflict has just been told of the other user's row.
LEMMA ConflictStep ==
    ASSUME TypeOK, HeldComplete, [Next]_vars
    PROVE  \A p \in Proc : op'[p].pc # op[p].pc =>
             /\ op'[p].pc = "email taken" => EmailHeld(op'[p].user, op'[p].email)
             /\ op'[p].pc = "name taken" => NameHeld(op'[p].user, op'[p].name)
  <1>1. ASSUME NEW p \in Proc, Reads(p)
        PROVE  \A q \in Proc \ {p} : op'[q] = op[q]
    BY <1>1, ReadsKeepHeld DEF TypeOK
  <1>2. ASSUME NEW p \in Proc, \/ Writes(p) \/ Ends(p) \/ ReplacePassword(p)
                               \/ \E s \in Session : OpenSession(p, s)
        PROVE  op'[p].pc = "idle" /\ \A q \in Proc \ {p} : op'[q] = op[q]
    <2>1. op' = [op EXCEPT ![p] = Idle]
      BY <1>2, WriteForm DEF Ends, Answer, Fail, Finish, OpenSession,
         ReplacePassword
    <2>. QED  BY <2>1, IdleIsGood DEF TypeOK
  <1>3. ASSUME NEW s \in Session, EndSession(s)
        PROVE  op' = op
    BY <1>3 DEF EndSession
  <1>4. CASE UNCHANGED vars
    BY <1>4 DEF vars
  <1>. QED  BY <1>1, <1>2, <1>3, <1>4, StepsSplit, ReadsOutcome

-----------------------------------------------------------------------------
(* The theorems                                                            *)

\* The invariant holds in every state, and with it all of its parts.
THEOREM Invariance == Spec => []IInv
  <1>1. Init => IInv
    BY UsersAssumption, IdleIsGood DEF Init, IInv, TypeOK, HeldComplete, Unique,
       ChecksHold, ErrorsOnlyWhenTaken, MissedAreRaced, OutlivedOnlyIfRaced
  <1>2. IInv /\ [Next]_vars => IInv'
    <2>. SUFFICES ASSUME IInv, [Next]_vars
                  PROVE  IInv'
      OBVIOUS
    <2>1. CASE Next
      BY <2>1, TypesKept, UniqueKept, ChecksKept, RacesKept DEF IInv
    <2>2. CASE UNCHANGED vars
      BY <2>2 DEF vars, IInv, TypeOK, HeldComplete, Registered, Unique,
         ChecksHold, UniqueViolated, EmailHeld, NameHeld, ErrorsOnlyWhenTaken,
         MissedAreRaced, SessionsOf, OutlivedOnlyIfRaced
    <2>. QED  BY <2>1, <2>2
  <1>. QED  BY <1>1, <1>2, PTL DEF Spec

\* Every variable has its type, and rows have all of their columns.
THEOREM UsersTypes == Spec => []TypeOK
  <1>1. IInv => TypeOK
    BY DEF IInv
  <1>. QED  BY <1>1, Invariance, PTL

(***************************************************************************)
(* The database refuses a registration or a profile, which is answered     *)
(* with a 500, only if the e-mail or the name was taken while the request  *)
(* was under way: what was taken before is a 409.                          *)
(***************************************************************************)
THEOREM RefusalsWereRaced == Spec => []ErrorsOnlyWhenTaken
  <1>1. IInv => ErrorsOnlyWhenTaken
    BY DEF IInv
  <1>. QED  BY <1>1, Invariance, PTL

(***************************************************************************)
(* A session outlives the password it was opened with only if its login    *)
(* overlapped the change of that password.                                 *)
(***************************************************************************)
THEOREM OutlivedWereRaced == Spec => []OutlivedOnlyIfRaced
  <1>1. IInv => OutlivedOnlyIfRaced
    BY DEF IInv
  <1>. QED  BY <1>1, Invariance, PTL

(***************************************************************************)
(* A 409 is decided on an e-mail or a name that another user has at that   *)
(* moment.                                                                 *)
(***************************************************************************)
THEOREM ConflictsNameOthers == Spec => ConflictsTruthful
  <1>1. IInv /\ [Next]_vars =>
          [\A p \in Proc : op'[p].pc # op[p].pc =>
             /\ op'[p].pc = "email taken" => EmailHeld(op'[p].user, op'[p].email)
             /\ op'[p].pc = "name taken" => NameHeld(op'[p].user, op'[p].name)]_vars
    BY ConflictStep DEF IInv
  <1>. QED  BY <1>1, Invariance, PTL DEF Spec, ConflictsTruthful
=============================================================================
