--------------------------- MODULE AccountsProofs ---------------------------
(***************************************************************************)
(* Sign-in and the account's own changes for any number of accounts,       *)
(* requests, sign-ins and sessions: the cap on active sessions, one        *)
(* session to a sign-in at the provider, and the agreement of accounts and *)
(* credentials.                                                            *)
(***************************************************************************)
EXTENDS Accounts, FiniteSetTheorems, FunctionTheorems, TLAPS

-----------------------------------------------------------------------------
(* Types *)

Role == {"USER", "MODERATOR", "ADMIN"}

UserRow == [issuer: {"none", "password", "provider", "deleted"}, subject: Subject \cup {None},
            email: Subject \cup {None}, role: Role, restriction: {"none", "BANNED", "SUSPENDED"}]

SessionRow == [user: User, active: BOOLEAN, attempt: Attempt \cup {None}]

\* What a request may have read, by the step it has reached.
Issuing == [op: {"issueUser", "persistSession"}, user: User]

Finishing == [op: {"finish", "issueIdentity"}, attempt: Attempt]

Creating == [op: {"createSession"}, user: User, attempt: Attempt \cup {None}, old: Nat,
             listed: SUBSET Nat]

Changing == [op: {"changePassword", "deactivate"}, user: User, with: Nat, email: {None}]

Renaming == [op: {"changeEmail"}, user: User, with: Nat, email: Subject]

Granting == [op: {"setRole"}, user: User, was: Role, role: Role]

Restricting == [op: {"restrict"}, user: User, action: Action]

Pending == {Idle} \cup Issuing \cup Finishing \cup Creating \cup Changing \cup Renaming
           \cup Granting \cup Restricting

TypeOK ==
    /\ user \in [User -> UserRow]
    /\ session \in Seq(SessionRow)
    /\ attempt \in [Attempt -> {"none", "open", "gone"}]
    /\ lock \in [User -> Request \cup {None}]
    /\ req \in [Request -> Pending]

-----------------------------------------------------------------------------
(* The inductive invariant *)

\* A request that has listed the sessions of an account has its lock; none has become
\* active that is not on the list.
Listed(r) ==
    req[r].op = "createSession" =>
        /\ lock[req[r].user] = r
        /\ active(req[r].user) \subseteq req[r].listed \cup {req[r].old}
        /\ IsFiniteSet(req[r].listed)

\* r has consumed the sign-in a.
Holds(r, a) == req[r].op \in {"issueIdentity", "createSession"} /\ req[r].attempt = a

\* A sign-in that is there yet has been used by nobody; one that has been consumed belongs
\* to one request, and then to one session.
Used(a) ==
    /\ attempt[a] # "gone" => /\ \A r \in Request : ~Holds(r, a)
                              /\ \A k \in DOMAIN session : session[k].attempt # a
    /\ \A r, q \in Request : Holds(r, a) /\ Holds(q, a) => r = q
    /\ \A r \in Request, k \in DOMAIN session : Holds(r, a) => session[k].attempt # a
    /\ \A j, k \in DOMAIN session : session[j].attempt = a /\ session[k].attempt = a => j = k

\* Only an account that signs in by e-mail has a credential.
Credentials == \A u \in User : user[u].email # None => user[u].issuer = "password"

AccountsInv ==
    /\ TypeOK
    /\ \A r \in Request : Listed(r)
    /\ SessionCap
    /\ \A a \in Attempt : Used(a)
    /\ IdentityAgrees /\ Credentials

-----------------------------------------------------------------------------
(* Typing *)

\* What a request that has got so far has read.
LEMMA PendingFields ==
    ASSUME NEW q \in Pending
    PROVE  /\ q.op \in {"issueUser", "persistSession", "createSession", "changePassword",
                        "deactivate", "changeEmail", "setRole", "restrict"} => q.user \in User
           /\ q.op \in {"finish", "issueIdentity"} => q.attempt \in Attempt
           /\ q.op = "createSession" =>
                q.attempt \in Attempt \cup {None} /\ q.old \in Nat /\ q.listed \in SUBSET Nat
           /\ q.op = "changeEmail" => q.email \in Subject
           /\ q.op = "setRole" => q.role \in Role
<1>1. CASE q = Idle
  BY <1>1 DEF Idle
<1>2. CASE q \in Issuing \cup Finishing \cup Creating
  BY <1>2 DEF Issuing, Finishing, Creating
<1>3. CASE q \in Changing \cup Renaming
  BY <1>3 DEF Changing, Renaming
<1>4. CASE q \in Granting \cup Restricting
  BY <1>4 DEF Granting, Restricting
<1> QED
  BY <1>1, <1>2, <1>3, <1>4 DEF Pending

\* The revoked sessions are the same rows but for their activity.
LEMMA RevokedRows ==
    ASSUME TypeOK, NEW ks
    PROVE  /\ Revoked(ks) \in Seq(SessionRow) /\ Len(Revoked(ks)) = Len(session)
           /\ DOMAIN Revoked(ks) = DOMAIN session
           /\ \A k \in DOMAIN session :
                /\ Revoked(ks)[k].user = session[k].user
                /\ Revoked(ks)[k].attempt = session[k].attempt
                /\ Revoked(ks)[k].active <=> session[k].active /\ k \notin ks
<1>1. ASSUME NEW k \in DOMAIN session
      PROVE  LET x == [session[k] EXCEPT !.active = session[k].active /\ k \notin ks]
             IN  /\ x \in SessionRow
                 /\ x.user = session[k].user /\ x.attempt = session[k].attempt
                 /\ x.active <=> session[k].active /\ k \notin ks
  <2> DEFINE b == session[k].active /\ k \notin ks
  <2>1. session[k] \in SessionRow /\ b \in BOOLEAN
    BY DEF TypeOK
  <2> HIDE DEF b
  <2>2. LET x == [session[k] EXCEPT !.active = b]
        IN  x \in SessionRow /\ x.user = session[k].user /\ x.attempt = session[k].attempt
            /\ x.active = b
    BY <2>1 DEF SessionRow
  <2> QED
    BY <2>2 DEF b
<1>2. DOMAIN session = 1..Len(session) /\ Len(session) \in Nat
  BY DEF TypeOK
<1>3. Revoked(ks) \in Seq(SessionRow) /\ Len(Revoked(ks)) = Len(session)
  BY <1>1, <1>2 DEF Revoked
<1> QED
  BY <1>1, <1>3 DEF Revoked

\* A new account is an account.
LEMMA NewUserType ==
    ASSUME NEW issuer \in {"password", "provider"}, NEW s \in Subject
    PROVE  /\ NewUser(issuer, s) \in UserRow
           /\ NewUser(issuer, s).issuer = issuer /\ NewUser(issuer, s).subject = s
           /\ NewUser(issuer, s).email = IF issuer = "password" THEN s ELSE None
  BY ZenonT(30) DEF NewUser, NoUser, UserRow, Role

LEMMA UserRole ==
    ASSUME NEW x \in UserRow, NEW role \in Role
    PROVE  [x EXCEPT !.role = role] \in UserRow
  BY ZenonT(30) DEF UserRow

LEMMA UserRestriction ==
    ASSUME NEW x \in UserRow, NEW z \in {"none", "BANNED", "SUSPENDED"}
    PROVE  [x EXCEPT !.restriction = z] \in UserRow
  BY ZenonT(30) DEF UserRow

LEMMA UserRenamed ==
    ASSUME NEW x \in UserRow, NEW s \in Subject
    PROVE  [x EXCEPT !.email = s, !.subject = s] \in UserRow
  BY ZenonT(30) DEF UserRow

LEMMA UserDeleted ==
    ASSUME NEW x \in UserRow
    PROVE  [x EXCEPT !.issuer = "deleted", !.subject = None, !.email = None] \in UserRow
  BY ZenonT(30) DEF UserRow

\* A request that goes on or ends is one of the kinds.
LEMMA RequestType ==
    ASSUME TypeOK, NEW r \in Request, NEW q \in Pending, req' = [req EXCEPT ![r] = q]
    PROVE  /\ req' \in [Request -> Pending] /\ req'[r] = q
           /\ \A p \in Request \ {r} : req'[p] = req[p]
  BY DEF TypeOK

LEMMA ReleasedType ==
    ASSUME TypeOK, NEW r \in Request, Released(r)
    PROVE  lock' \in [User -> Request \cup {None}]
  BY DEF TypeOK, Released

LEMMA ListingType ==
    ASSUME TypeOK, NEW u \in User, NEW a \in Attempt \cup {None}, NEW old \in 0..Len(session)
    PROVE  /\ Listing(u, a, old) \in Pending
           /\ Listing(u, a, old).op = "createSession" /\ Listing(u, a, old).user = u
           /\ Listing(u, a, old).attempt = a /\ Listing(u, a, old).old = old
           /\ Listing(u, a, old).listed = active(u) \ {old}
           /\ IsFiniteSet(active(u)) /\ active(u) \subseteq DOMAIN session
<1>1. DOMAIN session = 1..Len(session) /\ Len(session) \in Nat
  BY DEF TypeOK
<1>2. active(u) \subseteq 1..Len(session)
  BY <1>1 DEF active
<1>3. IsFiniteSet(active(u))
  <2> DEFINE I == 1..Len(session)
  <2>1. IsFiniteSet(I)
    BY <1>1, FS_Interval
  <2>2. active(u) \subseteq I
    BY <1>2
  <2> HIDE DEF I
  <2> QED
    BY <2>1, <2>2, FS_Subset
<1>4. active(u) \ {old} \in SUBSET Nat /\ old \in Nat
  BY <1>1, <1>2
<1>5. Listing(u, a, old) \in Creating
  BY <1>4 DEF Listing, Creating
<1> QED
  BY <1>1, <1>2, <1>3, <1>5 DEF Pending, Listing

LEMMA SessionAdded ==
    ASSUME TypeOK, NEW ks, NEW x \in SessionRow, session' = Append(Revoked(ks), x)
    PROVE  /\ session' \in Seq(SessionRow) /\ Len(session) \in Nat
           /\ DOMAIN session = 1..Len(session)
           /\ DOMAIN session' = 1..Len(session) + 1
           /\ session'[Len(session) + 1] = x
           /\ \A k \in DOMAIN session : session'[k] = Revoked(ks)[k]
<1>1. Revoked(ks) \in Seq(SessionRow) /\ Len(Revoked(ks)) = Len(session)
      /\ Len(session) \in Nat /\ DOMAIN session = 1..Len(session)
  BY RevokedRows DEF TypeOK
<1> QED
  BY <1>1

LEMMA SignInType ==
    ASSUME TypeOK, signIn
    PROVE  TypeOK'
<1>0. ASSUME NEW r \in Request
      PROVE  req[r] \in Pending
  BY DEF TypeOK
<1>i. Idle \in Pending
  BY DEF Pending
<1>1. ASSUME NEW r \in Request, NEW u \in User, NEW s \in Subject, register(r, u, s)
      PROVE  TypeOK'
  <2>1. [op |-> "issueUser", user |-> u] \in Pending
    BY DEF Pending, Issuing
  <2>2. user' \in [User -> UserRow]
    BY <1>1, NewUserType DEF register, TypeOK
  <2>3. req' \in [Request -> Pending]
    BY <1>1, <2>1 DEF register, Opened, TypeOK
  <2> QED
    BY <1>1, <2>2, <2>3 DEF register, TypeOK
<1>2. ASSUME NEW r \in Request, NEW u \in User, authenticate(r, u) PROVE TypeOK'
  <2>1. [op |-> "issueUser", user |-> u] \in Pending
    BY DEF Pending, Issuing
  <2> QED
    BY <1>2, <2>1 DEF authenticate, Opened, TypeOK
<1>3. ASSUME NEW a \in Attempt, begin(a) \/ Expire(a) PROVE TypeOK'
  BY <1>3 DEF begin, Expire, TypeOK
<1>4. ASSUME NEW a \in Attempt, NEW r \in Request, finish(r, a) PROVE TypeOK'
  <2>1. [op |-> "finish", attempt |-> a] \in Pending
    BY DEF Pending, Finishing
  <2> QED
    BY <1>4, <2>1 DEF finish, Opened, TypeOK
<1>5. ASSUME NEW r \in Request, consume(r) PROVE TypeOK'
  <2>1. req[r].attempt \in Attempt
    BY <1>0, <1>5, PendingFields DEF consume
  <2>2. [op |-> "issueIdentity", attempt |-> req[r].attempt] \in Pending
    BY <2>1 DEF Pending, Finishing
  <2> QED
    BY <1>5, <2>1, <2>2 DEF consume, Continued, TypeOK
<1>6. ASSUME NEW r \in Request, issueUser(r) PROVE TypeOK'
  <2>1. req[r].user \in User
    BY <1>0, <1>6, PendingFields DEF issueUser
  <2>2. [op |-> "persistSession", user |-> req[r].user] \in Pending
    BY <2>1 DEF Pending, Issuing
  <2> QED
    BY <1>6, <2>2 DEF issueUser, Continued, TypeOK
<1>7. ASSUME NEW r \in Request, createSession(r) PROVE TypeOK'
  <2>1. req[r].user \in User /\ req[r].attempt \in Attempt \cup {None}
    BY <1>0, <1>7, PendingFields DEF createSession
  <2>2. [user |-> req[r].user, active |-> TRUE, attempt |-> req[r].attempt] \in SessionRow
    BY <2>1 DEF SessionRow
  <2>3. session' \in Seq(SessionRow)
    BY <1>7, <2>2, SessionAdded DEF createSession
  <2>4. req' \in [Request -> Pending]
    BY <1>7, <1>i DEF createSession, Closed, TypeOK
  <2>5. lock' \in [User -> Request \cup {None}]
    BY <1>7, ReleasedType DEF createSession
  <2> QED
    BY <1>7, <2>3, <2>4, <2>5 DEF createSession, TypeOK
<1>8. ASSUME NEW r \in Request, NEW old \in 0..Len(session), persistSession(r, old) PROVE TypeOK'
  <2>1. req[r].user \in User
    BY <1>0, <1>8, PendingFields DEF persistSession
  <2>2. Listing(req[r].user, None, old) \in Pending
    BY <2>1, ListingType
  <2> QED
    BY <1>8, <2>1, <2>2 DEF persistSession, Continued, TypeOK
<1>9. ASSUME NEW r \in Request, NEW old \in 0..Len(session), NEW u \in User, NEW s \in Subject,
             issueIdentity(r, u, s, old)
      PROVE  TypeOK'
  <2>1. req[r].attempt \in Attempt
    BY <1>0, <1>9, PendingFields DEF issueIdentity
  <2>2. Listing(u, req[r].attempt, old) \in Pending
    BY <2>1, ListingType
  <2>3. user' \in [User -> UserRow]
    BY <1>9, NewUserType DEF issueIdentity, TypeOK
  <2> QED
    BY <1>9, <2>2, <2>3 DEF issueIdentity, Continued, TypeOK
<1> QED
  BY <1>1, <1>2, <1>3, <1>4, <1>5, <1>6, <1>7, <1>8, <1>9 DEF signIn

LEMMA AccountType ==
    ASSUME TypeOK, account
    PROVE  TypeOK'
<1>0. ASSUME NEW r \in Request
      PROVE  req[r] \in Pending
  BY DEF TypeOK
<1>i. Idle \in Pending /\ DOMAIN session \subseteq Nat
  BY DEF Pending, TypeOK
<1>r. ASSUME NEW ks, session' = Revoked(ks) PROVE session' \in Seq(SessionRow)
  BY <1>r, RevokedRows
<1>1. ASSUME NEW u \in User, NEW k \in DOMAIN session,
             revokeSession(u, k) \/ revokeOtherSessions(u, k)
      PROVE  TypeOK'
  BY <1>1, <1>r DEF revokeSession, revokeOtherSessions, TypeOK
<1>2. ASSUME NEW r \in Request, NEW u \in User, NEW k \in DOMAIN session,
             changePassword(r, u, k) \/ deactivate(r, u, k)
      PROVE  TypeOK'
  <2>1. /\ Change("changePassword", u, k, None) \in Pending
        /\ Change("deactivate", u, k, None) \in Pending
    BY <1>i DEF Change, Pending, Changing
  <2> QED
    BY <1>2, <2>1 DEF changePassword, deactivate, Opened, TypeOK
<1>3. ASSUME NEW r \in Request, NEW u \in User, NEW k \in DOMAIN session, NEW s \in Subject,
             changeEmail(r, u, k, s)
      PROVE  TypeOK'
  <2>1. Change("changeEmail", u, k, s) \in Pending
    BY <1>i DEF Change, Pending, Renaming
  <2> QED
    BY <1>3, <2>1 DEF changeEmail, Opened, TypeOK
<1>4. ASSUME NEW r \in Request, changePasswordCommit(r) PROVE TypeOK'
  BY <1>4, <1>i, <1>r DEF changePasswordCommit, Closed, TypeOK
<1>5. ASSUME NEW r \in Request, changeEmailCommit(r) PROVE TypeOK'
  <2>1. req[r].user \in User /\ req[r].email \in Subject
    BY <1>0, <1>5, PendingFields DEF changeEmailCommit
  <2>2. [user[req[r].user] EXCEPT !.email = req[r].email, !.subject = req[r].email] \in UserRow
    <3>1. user[req[r].user] \in UserRow
      BY <2>1 DEF TypeOK
    <3> QED
      BY <2>1, <3>1, UserRenamed, ZenonT(30)
  <2>3. user' \in [User -> UserRow]
    BY <1>5, <2>2 DEF changeEmailCommit, TypeOK
  <2> QED
    BY <1>5, <1>i, <1>r, <2>3 DEF changeEmailCommit, Closed, TypeOK
<1>6. ASSUME NEW r \in Request, deactivateCommit(r) PROVE TypeOK'
  <2>1. req[r].user \in User
    BY <1>0, <1>6, PendingFields DEF deactivateCommit
  <2>2. [user[req[r].user] EXCEPT !.issuer = "deleted", !.subject = None, !.email = None]
          \in UserRow
    <3>1. user[req[r].user] \in UserRow
      BY <2>1 DEF TypeOK
    <3> QED
      BY <3>1, UserDeleted, ZenonT(30)
  <2>3. user' \in [User -> UserRow]
    BY <1>6, <2>2 DEF deactivateCommit, TypeOK
  <2> QED
    BY <1>6, <1>i, <1>r, <2>3 DEF deactivateCommit, Closed, TypeOK
<1> QED
  BY <1>1, <1>2, <1>3, <1>4, <1>5, <1>6 DEF account

LEMMA AdministrationType ==
    ASSUME TypeOK, administration
    PROVE  TypeOK'
<1>0. ASSUME NEW r \in Request
      PROVE  req[r] \in Pending
  BY DEF TypeOK
<1>i. Idle \in Pending
  BY DEF Pending
<1>1. ASSUME NEW r \in Request, NEW actor \in User, NEW u \in User, NEW role \in Granted,
             setRole(r, actor, u, role)
      PROVE  TypeOK'
  <2>1. role \in Role /\ user[u].role \in Role
    BY AccountsAssumption DEF Role, TypeOK, UserRow
  <2>2. [op |-> "setRole", user |-> u, was |-> user[u].role, role |-> role] \in Pending
    BY <2>1 DEF Pending, Granting
  <2> QED
    BY <1>1, <2>2 DEF setRole, Opened, TypeOK
<1>2. ASSUME NEW r \in Request, NEW actor \in User, NEW u \in User, NEW action \in Action,
             restrict(r, actor, u, action)
      PROVE  TypeOK'
  <2>1. [op |-> "restrict", user |-> u, action |-> action] \in Pending
    BY DEF Pending, Restricting
  <2> QED
    BY <1>2, <2>1 DEF restrict, Opened, TypeOK
<1>3. ASSUME NEW r \in Request, setRoleCommit(r) PROVE TypeOK'
  <2>1. req[r].user \in User /\ req[r].role \in Role
    BY <1>0, <1>3, PendingFields DEF setRoleCommit
  <2>2. user' \in [User -> UserRow]
    BY <1>3, <2>1, UserRole DEF setRoleCommit, TypeOK
  <2> QED
    BY <1>3, <1>i, <2>2 DEF setRoleCommit, Closed, TypeOK
<1>4. ASSUME NEW r \in Request, restrictCommit(r) PROVE TypeOK'
  <2> DEFINE z == CASE req[r].action = "BAN" -> "BANNED" [] req[r].action = "SUSPEND" -> "SUSPENDED"
                    [] OTHER -> "none"
  <2>1. req[r].user \in User /\ z \in {"none", "BANNED", "SUSPENDED"}
    BY <1>0, <1>4, PendingFields DEF restrictCommit
  <2>2. user' = [user EXCEPT ![req[r].user].restriction = z]
    BY <1>4 DEF restrictCommit
  <2> HIDE DEF z
  <2>3. user' \in [User -> UserRow]
    BY <2>1, <2>2, UserRestriction DEF TypeOK
  <2>4. session' \in Seq(SessionRow)
    BY <1>4, RevokedRows DEF restrictCommit, TypeOK
  <2> QED
    BY <1>4, <1>i, <2>3, <2>4 DEF restrictCommit, Closed, TypeOK
<1> QED
  BY <1>1, <1>2, <1>3, <1>4 DEF administration

LEMMA NextType == ASSUME TypeOK, [Next]_vars PROVE TypeOK'
<1>1. CASE UNCHANGED vars
  BY <1>1 DEF TypeOK, vars
<1>2. ASSUME NEW r \in Request, Fail(r) PROVE TypeOK'
  BY <1>2, ReleasedType DEF Fail, Closed, TypeOK, Pending
<1>3. CASE Lapse /\ UNCHANGED <<attempt, lock, req>>
  <2>1. ASSUME NEW k \in DOMAIN session, session' = Revoked({k}), user' = user PROVE TypeOK'
    BY <1>3, <2>1, RevokedRows DEF TypeOK
  <2>2. ASSUME NEW u \in User, user' = [user EXCEPT ![u].restriction = "none"],
               session' = session
        PROVE  TypeOK'
    BY <1>3, <2>2, UserRestriction DEF TypeOK
  <2> QED
    BY <1>3, <2>1, <2>2 DEF Lapse
<1> QED
  BY <1>1, <1>2, <1>3, SignInType, AccountType, AdministrationType DEF Next

-----------------------------------------------------------------------------
(* What a step does to the sessions and the requests *)

\* Sessions are only ended.
Fewer ==
    /\ DOMAIN session' = DOMAIN session
    /\ \A k \in DOMAIN session :
        /\ session'[k].user = session[k].user /\ session'[k].attempt = session[k].attempt
        /\ session'[k].active => session[k].active

\* r takes the lock of u and lists its sessions.
Lists(r, u, a, old) ==
    /\ Unlocked(u) /\ lock' = [lock EXCEPT ![u] = r]
    /\ req' = [req EXCEPT ![r] = Listing(u, a, old)]
    /\ a = None \/ (req[r].op = "issueIdentity" /\ a = req[r].attempt)
    /\ UNCHANGED <<session, attempt>>

\* Nobody gets as far as consume or the lock; a lock is only given back by its owner.
Ordinary ==
    /\ Fewer
    /\ \A r \in Request :
        \/ req'[r] = req[r] /\ \A u \in User : lock[u] = r => lock'[u] = r
        \/ req'[r].op \notin {"issueIdentity", "createSession"}
    /\ \A a \in Attempt : attempt'[a] # "gone" => attempt[a] # "gone"

LEMMA RevokedFewer == ASSUME TypeOK, NEW ks, session' = Revoked(ks) PROVE Fewer
  BY RevokedRows DEF Fewer

\* One request opens, goes on or closes, and no lock changes.
LEMMA OrdinaryRequest ==
    ASSUME TypeOK, Fewer, NEW r \in Request, NEW q, req' = [req EXCEPT ![r] = q],
           q.op \notin {"issueIdentity", "createSession"}, UNCHANGED <<attempt, lock>>
    PROVE  Ordinary
  BY DEF Ordinary, TypeOK

LEMMA SignInEffect ==
    ASSUME TypeOK, signIn
    PROVE  \/ Ordinary
           \/ \E r \in Request : consume(r) \/ createSession(r)
           \/ \E r \in Request, u \in User, a \in Attempt \cup {None}, old \in 0..Len(session) :
                Lists(r, u, a, old)
<1>0. ASSUME NEW r \in Request PROVE req[r] \in Pending
  BY DEF TypeOK
<1>f. ASSUME session' = session PROVE Fewer
  BY <1>f DEF Fewer
<1>1. ASSUME NEW r \in Request, NEW u \in User, NEW s \in Subject, register(r, u, s)
      PROVE  Ordinary
  BY <1>1, <1>f, OrdinaryRequest DEF register, Opened
<1>2. ASSUME NEW r \in Request, NEW u \in User, authenticate(r, u) PROVE Ordinary
  BY <1>2, <1>f, OrdinaryRequest DEF authenticate, Opened
<1>3. ASSUME NEW a \in Attempt, begin(a) \/ Expire(a) PROVE Ordinary
  BY <1>3, <1>f DEF begin, Expire, Ordinary, TypeOK
<1>4. ASSUME NEW a \in Attempt, NEW r \in Request, finish(r, a) PROVE Ordinary
  BY <1>4, <1>f, OrdinaryRequest DEF finish, Opened
<1>5. ASSUME NEW r \in Request, issueUser(r) PROVE Ordinary
  BY <1>5, <1>f, OrdinaryRequest DEF issueUser, Continued
<1>6. ASSUME NEW r \in Request, NEW old \in 0..Len(session), persistSession(r, old)
      PROVE  req[r].user \in User /\ Lists(r, req[r].user, None, old)
  BY <1>0, <1>6, PendingFields DEF persistSession, Lists, Continued
<1>7. ASSUME NEW r \in Request, NEW old \in 0..Len(session), NEW u \in User, NEW s \in Subject,
             issueIdentity(r, u, s, old)
      PROVE  req[r].attempt \in Attempt /\ Lists(r, u, req[r].attempt, old)
  BY <1>0, <1>7, PendingFields DEF issueIdentity, Lists, Continued
<1> QED
  BY <1>1, <1>2, <1>3, <1>4, <1>5, <1>6, <1>7 DEF signIn

LEMMA AccountEffect == ASSUME TypeOK, account PROVE Ordinary
<1>f. ASSUME session' = session PROVE Fewer
  BY <1>f DEF Fewer
<1>i. Idle.op \notin {"issueIdentity", "createSession"}
  BY DEF Idle
<1>1. ASSUME NEW u \in User, NEW k \in DOMAIN session,
             revokeSession(u, k) \/ revokeOtherSessions(u, k)
      PROVE  Ordinary
  BY <1>1, RevokedFewer DEF revokeSession, revokeOtherSessions, Ordinary
<1>2. ASSUME NEW r \in Request, NEW u \in User, NEW k \in DOMAIN session,
             changePassword(r, u, k) \/ deactivate(r, u, k)
      PROVE  Ordinary
  BY <1>2, <1>f, OrdinaryRequest DEF changePassword, deactivate, Opened, Change
<1>3. ASSUME NEW r \in Request, NEW u \in User, NEW k \in DOMAIN session, NEW s \in Subject,
             changeEmail(r, u, k, s)
      PROVE  Ordinary
  BY <1>3, <1>f, OrdinaryRequest DEF changeEmail, Opened, Change
<1>4. ASSUME NEW r \in Request,
             changePasswordCommit(r) \/ changeEmailCommit(r) \/ deactivateCommit(r)
      PROVE  Ordinary
  <2>1. Fewer /\ Closed(r) /\ UNCHANGED <<attempt, lock>>
    BY <1>4, RevokedFewer DEF changePasswordCommit, changeEmailCommit, deactivateCommit
  <2> QED
    BY <1>i, <2>1, OrdinaryRequest DEF Closed
<1> QED
  BY <1>1, <1>2, <1>3, <1>4 DEF account

LEMMA AdministrationEffect == ASSUME TypeOK, administration PROVE Ordinary
<1>f. ASSUME session' = session PROVE Fewer
  BY <1>f DEF Fewer
<1>i. Idle.op \notin {"issueIdentity", "createSession"}
  BY DEF Idle
<1>1. ASSUME NEW r \in Request, NEW actor \in User, NEW u \in User, NEW role \in Granted,
             setRole(r, actor, u, role)
      PROVE  Ordinary
  BY <1>1, <1>f, OrdinaryRequest DEF setRole, Opened
<1>2. ASSUME NEW r \in Request, NEW actor \in User, NEW u \in User, NEW action \in Action,
             restrict(r, actor, u, action)
      PROVE  Ordinary
  BY <1>2, <1>f, OrdinaryRequest DEF restrict, Opened
<1>3. ASSUME NEW r \in Request, setRoleCommit(r) \/ restrictCommit(r) PROVE Ordinary
  <2>1. Fewer /\ Closed(r) /\ UNCHANGED <<attempt, lock>>
    BY <1>3, <1>f, RevokedFewer DEF setRoleCommit, restrictCommit
  <2> QED
    BY <1>i, <2>1, OrdinaryRequest DEF Closed
<1> QED
  BY <1>1, <1>2, <1>3 DEF administration

\* A step is ordinary, consumes a sign-in, lists the sessions or creates one.
LEMMA NextEffect ==
    ASSUME TypeOK, [Next]_vars
    PROVE  \/ Ordinary
           \/ \E r \in Request : consume(r) \/ createSession(r)
           \/ \E r \in Request, u \in User, a \in Attempt \cup {None}, old \in 0..Len(session) :
                Lists(r, u, a, old)
<1>1. CASE UNCHANGED vars
  BY <1>1 DEF vars, Ordinary, Fewer
<1>2. ASSUME NEW r \in Request, Fail(r) PROVE Ordinary
  <2>1. req'[r] = Idle /\ \A q \in Request \ {r} : req'[q] = req[q]
    BY <1>2 DEF Fail, Closed, TypeOK
  <2>2. \A u \in User : lock[u] # r => lock'[u] = lock[u]
    BY <1>2 DEF Fail, Released
  <2> QED
    BY <1>2, <2>1, <2>2 DEF Fail, Ordinary, Fewer, Idle
<1>3. CASE Lapse /\ UNCHANGED <<attempt, lock, req>>
  <2>1. Fewer
    BY <1>3, RevokedFewer DEF Lapse, Fewer
  <2> QED
    BY <1>3, <2>1 DEF Ordinary
<1> QED
  BY <1>1, <1>2, <1>3, SignInEffect, AccountEffect, AdministrationEffect DEF Next

-----------------------------------------------------------------------------
(* The cap on active sessions *)

LEMMA ActiveFinite ==
    ASSUME TypeOK, NEW u \in User
    PROVE  active(u) \subseteq DOMAIN session /\ IsFiniteSet(active(u))
<1>1. 0 \in 0..Len(session) /\ None \in Attempt \cup {None}
  BY DEF TypeOK
<1> QED
  BY <1>1, ListingType

\* What persistSession does not revoke leaves room for one more: the sessions it keeps have
\* different numbers of newer ones beside them, all below MaxActive - 1.
LEMMA KeptBound ==
    ASSUME NEW ks \in SUBSET Nat, IsFiniteSet(ks)
    PROVE  IsFiniteSet(ks \ Excess(ks)) /\ Cardinality(ks \ Excess(ks)) <= MaxActive - 1
<1>0. MaxActive \in Nat \ {0}
  BY AccountsAssumption
<1>1. CASE Cardinality(ks) < MaxActive
  <2>1. ks \ Excess(ks) = ks
    BY <1>1 DEF Excess
  <2> QED
    <3>1. Cardinality(ks) \in Nat
      BY FS_CardinalityType
    <3>2. Cardinality(ks) <= MaxActive - 1
      BY <1>0, <1>1, <3>1
    <3> QED
      BY <2>1, <3>2, ZenonT(30)
<1>2. CASE ~(Cardinality(ks) < MaxActive)
  <2> DEFINE K == {k \in ks : ~(Cardinality({j \in ks : j > k}) >= MaxActive - 1)}
             f == [k \in K |-> Cardinality({j \in ks : j > k})]
             I == 0 .. MaxActive - 2
  <2>1. ks \ Excess(ks) = K
    BY <1>2 DEF Excess
  <2>2. ASSUME NEW k \in ks
        PROVE  /\ IsFiniteSet({j \in ks : j > k})
               /\ Cardinality({j \in ks : j > k}) \in Nat
    <3>1. {j \in ks : j > k} \in SUBSET ks
      OBVIOUS
    <3>2. IsFiniteSet({j \in ks : j > k})
      BY <3>1, FS_Subset
    <3> QED
      BY <3>2, FS_CardinalityType
  <2>3. f \in [K -> I]
    <3>1. ASSUME NEW k \in K PROVE f[k] \in I
      <4> DEFINE n == Cardinality({j \in ks : j > k})
      <4>1. n \in Nat /\ ~(n >= MaxActive - 1) /\ f[k] = n
        BY <2>2
      <4> HIDE DEF n
      <4> QED
        BY <1>0, <4>1
    <3> QED
      BY <3>1
  <2>4. ASSUME NEW k \in ks, NEW l \in ks, k < l
        PROVE  Cardinality({j \in ks : j > k}) # Cardinality({j \in ks : j > l})
    <3> DEFINE A == {j \in ks : j > k}
               B == {j \in ks : j > l}
    <3>1. B \in SUBSET A /\ l \in A /\ l \notin B
      <4>1. k \in Nat /\ l \in Nat
        OBVIOUS
      <4>2. ASSUME NEW j \in ks, j > l PROVE j > k
        BY <2>4, <4>1, <4>2
      <4>3. l > k /\ ~(l > l)
        BY <2>4, <4>1
      <4> QED
        BY <4>2, <4>3, ZenonT(30)
    <3>2. IsFiniteSet(A)
      BY <2>2
    <3> HIDE DEF A, B
    <3>3. Cardinality(A) # Cardinality(B)
      BY <3>1, <3>2, FS_Subset
    <3> QED
      BY <3>3 DEF A, B
  <2>5. f \in Injection(K, I)
    <3>1. ASSUME NEW k \in K, NEW l \in K, f[k] = f[l] PROVE k = l
      <4>1. k \in ks /\ l \in ks /\ k \in Nat /\ l \in Nat
        OBVIOUS
      <4>2. Cardinality({j \in ks : j > k}) = Cardinality({j \in ks : j > l})
        BY <3>1
      <4>3. ~(k < l) /\ ~(l < k)
        BY <2>4, <4>1, <4>2
      <4> QED
        BY <4>1, <4>3
    <3> HIDE DEF f, K, I
    <3> QED
      BY <2>3, <3>1, Fun_IsInj
  <2>6. IsFiniteSet(I) /\ Cardinality(I) = MaxActive - 1
    BY <1>0, FS_Interval
  <2> HIDE DEF K, f, I
  <2>7. IsFiniteSet(K) /\ Cardinality(K) <= Cardinality(I)
    BY <2>5, <2>6, FS_Injection
  <2> QED
    BY <2>1, <2>6, <2>7
<1> QED
  BY <1>1, <1>2

LEMMA FewerActive == ASSUME Fewer, NEW u \in User PROVE active(u)' \subseteq active(u)
  BY DEF Fewer, active

\* A request keeps its list as long as no session of the account is created.
LEMMA ListedKept ==
    ASSUME TypeOK, NEW r \in Request, Listed(r),
           \/ /\ req'[r] = req[r]
              /\ \A u \in User : lock[u] = r => lock'[u] = r /\ active(u)' \subseteq active(u)
           \/ req'[r].op # "createSession"
    PROVE  Listed(r)'
<1>1. CASE req'[r].op # "createSession"
  BY <1>1 DEF Listed
<1>2. CASE /\ req'[r] = req[r] /\ req[r].op = "createSession"
           /\ \A u \in User : lock[u] = r => lock'[u] = r /\ active(u)' \subseteq active(u)
  <2>1. PICK u \in User : u = req[r].user
    BY <1>2, PendingFields DEF TypeOK
  <2>2. lock'[u] = r /\ active(u)' \subseteq active(u)
    BY <1>2, <2>1 DEF Listed
  <2>3. active(u) \subseteq req[r].listed \cup {req[r].old} /\ IsFiniteSet(req[r].listed)
    BY <1>2, <2>1 DEF Listed
  <2>4. u = req'[r].user
    BY <1>2, <2>1
  <2> QED
    BY <1>2, <2>2, <2>3, <2>4 DEF Listed
<1> QED
  BY <1>1, <1>2

\* The effect of createSession on the sessions: one row more, and of the account's other
\* sessions only those that were listed and not revoked are active.
LEMMA Created ==
    ASSUME TypeOK, NEW r \in Request, Listed(r), createSession(r), NEW u \in User
    PROVE  /\ req[r].user # u => active(u)' \subseteq active(u)
           /\ req[r].user = u =>
                active(u)' \subseteq (req[r].listed \ Excess(req[r].listed))
                                       \cup {Len(session) + 1}
<1> DEFINE ks == {req[r].old} \cup Excess(req[r].listed)
           x == [user |-> req[r].user, active |-> TRUE, attempt |-> req[r].attempt]
<1>1. session' = Append(Revoked(ks), x) /\ req[r].op = "createSession"
  BY DEF createSession
<1>2. x \in SessionRow /\ x.user = req[r].user
  BY <1>1, PendingFields DEF TypeOK, SessionRow
<1> HIDE DEF ks, x
<1>3. /\ DOMAIN session = 1..Len(session) /\ Len(session) \in Nat
      /\ DOMAIN session' = 1..Len(session) + 1 /\ session'[Len(session) + 1] = x
      /\ \A k \in DOMAIN session : session'[k] = Revoked(ks)[k]
  BY <1>1, <1>2, SessionAdded
<1>4. ASSUME NEW k \in active(u)'
      PROVE  \/ k = Len(session) + 1 /\ req[r].user = u
             \/ k \in active(u) /\ k \notin ks
  <2>1. k \in DOMAIN session' /\ session'[k].user = u /\ session'[k].active
    BY <1>4 DEF active
  <2>2. CASE k = Len(session) + 1
    BY <1>2, <1>3, <2>1, <2>2
  <2>3. CASE k \in DOMAIN session
    BY <1>3, <2>1, <2>3, RevokedRows DEF active
  <2> QED
    BY <1>3, <2>1, <2>2, <2>3
<1>5. req[r].user = u => active(u) \subseteq req[r].listed \cup {req[r].old}
  BY <1>1 DEF Listed
<1> QED
  BY <1>4, <1>5 DEF ks

LEMMA ListedStep ==
    ASSUME TypeOK, \A r \in Request : Listed(r), [Next]_vars
    PROVE  \A r \in Request : Listed(r)'
<1>n. None \notin Request
  BY AccountsAssumption
<1>1. CASE Ordinary
  BY <1>1, ListedKept, FewerActive DEF Ordinary
<1>2. ASSUME NEW r \in Request, consume(r) PROVE \A p \in Request : Listed(p)'
  <2>1. Fewer
    BY <1>2 DEF consume, Fewer
  <2>2. req'[r].op # "createSession" /\ \A p \in Request \ {r} : req'[p] = req[p]
    BY <1>2 DEF consume, Continued, TypeOK
  <2> QED
    BY <1>2, <2>1, <2>2, ListedKept, FewerActive DEF consume
<1>3. ASSUME NEW r \in Request, NEW w \in User, NEW a \in Attempt \cup {None},
             NEW old \in 0..Len(session), Lists(r, w, a, old)
      PROVE  \A p \in Request : Listed(p)'
  <2>1. req'[r] = Listing(w, a, old) /\ \A p \in Request \ {r} : req'[p] = req[p]
    BY <1>3 DEF Lists, TypeOK
  <2>2. lock'[w] = r /\ lock[w] = None /\ \A u \in User \ {w} : lock'[u] = lock[u]
    BY <1>3 DEF Lists, Unlocked, TypeOK
  <2>3. \A u \in User : active(u)' = active(u)
    BY <1>3 DEF Lists, active
  <2>4. Listed(r)'
    <3>1. /\ req'[r].user = w /\ req'[r].old = old /\ req'[r].listed = active(w) \ {old}
          /\ IsFiniteSet(active(w))
      BY <2>1, ListingType
    <3>2. IsFiniteSet(active(w) \ {old})
      BY <3>1, FS_RemoveElement
    <3> QED
      BY <2>2, <2>3, <3>1, <3>2 DEF Listed
  <2>5. ASSUME NEW p \in Request \ {r} PROVE Listed(p)'
    BY <1>n, <2>1, <2>2, <2>3, <2>5, ListedKept
  <2> QED
    BY <2>4, <2>5
<1>4. ASSUME NEW r \in Request, createSession(r) PROVE \A p \in Request : Listed(p)'
  <2>1. req'[r] = Idle /\ \A p \in Request \ {r} : req'[p] = req[p]
    BY <1>4 DEF createSession, Closed, TypeOK
  <2>2. lock[req[r].user] = r
    BY <1>4 DEF createSession, Listed
  <2>3. ASSUME NEW p \in Request \ {r}, NEW u \in User, lock[u] = p
        PROVE  lock'[u] = p /\ active(u)' \subseteq active(u)
    <3>1. lock'[u] = p
      BY <1>4, <2>3 DEF createSession, Released
    <3>2. req[r].user # u
      BY <2>2, <2>3
    <3> QED
      BY <1>4, <3>1, <3>2, Created
  <2>4. Listed(r)'
    BY <2>1, ListedKept DEF Idle
  <2>5. ASSUME NEW p \in Request \ {r} PROVE Listed(p)'
    BY <2>1, <2>3, <2>5, ListedKept
  <2> QED
    BY <2>4, <2>5
<1> QED
  BY <1>1, <1>2, <1>3, <1>4, NextEffect

LEMMA CapStep ==
    ASSUME TypeOK, TypeOK', \A r \in Request : Listed(r), SessionCap, [Next]_vars
    PROVE  SessionCap'
<1>0. SUFFICES ASSUME NEW u \in User PROVE Cardinality(active(u)') <= MaxActive
  BY DEF SessionCap
<1>m. MaxActive \in Nat \ {0}
  BY AccountsAssumption
<1>k. ASSUME active(u)' \subseteq active(u) PROVE Cardinality(active(u)') <= MaxActive
  <2>1. IsFiniteSet(active(u)) /\ Cardinality(active(u)) <= MaxActive
    BY ActiveFinite DEF SessionCap
  <2>2. IsFiniteSet(active(u)') /\ Cardinality(active(u)') <= Cardinality(active(u))
    BY <1>k, <2>1, FS_Subset
  <2> QED
    BY <1>m, <2>1, <2>2, FS_CardinalityType
<1>1. CASE Ordinary
  BY <1>1, <1>k, FewerActive DEF Ordinary
<1>2. ASSUME NEW r \in Request, consume(r) PROVE Cardinality(active(u)') <= MaxActive
  BY <1>2, <1>k DEF consume, active
<1>3. ASSUME NEW r \in Request, NEW w \in User, NEW a \in Attempt \cup {None},
             NEW old \in 0..Len(session), Lists(r, w, a, old)
      PROVE  Cardinality(active(u)') <= MaxActive
  BY <1>3, <1>k DEF Lists, active
<1>4. ASSUME NEW r \in Request, createSession(r) PROVE Cardinality(active(u)') <= MaxActive
  <2>1. CASE req[r].user # u
    BY <1>4, <1>k, <2>1, Created
  <2>2. CASE req[r].user = u
    <3> DEFINE K == req[r].listed \ Excess(req[r].listed)
               n == Len(session) + 1
               T == active(u)'
    <3>1. req[r].listed \in SUBSET Nat /\ IsFiniteSet(req[r].listed)
      BY <1>4, PendingFields DEF createSession, TypeOK, Listed
    <3>2. IsFiniteSet(K) /\ Cardinality(K) <= MaxActive - 1
      BY <3>1, KeptBound
    <3>3. T \in SUBSET (K \cup {n})
      BY <1>4, <2>2, Created
    <3> HIDE DEF K, n, T
    <3>4. Cardinality(K) \in Nat
      BY <3>2, FS_CardinalityType
    <3>5. /\ IsFiniteSet(K \cup {n})
          /\ Cardinality(K \cup {n}) = IF n \in K THEN Cardinality(K) ELSE Cardinality(K) + 1
      BY <3>2, FS_AddElement, ZenonT(30)
    <3>6. IsFiniteSet(T) /\ Cardinality(T) <= Cardinality(K \cup {n})
      BY <3>3, <3>5, FS_Subset, ZenonT(30)
    <3>7. Cardinality(T) \in Nat
      BY <3>6, FS_CardinalityType
    <3>8. Cardinality(T) <= MaxActive
      <4> DEFINE h == Cardinality(K \cup {n})
      <4>1. h = Cardinality(K) \/ h = Cardinality(K) + 1
        BY <3>5, ZenonT(30)
      <4>2. Cardinality(T) <= h
        BY <3>6
      <4> HIDE DEF h
      <4> QED
        BY <1>m, <3>2, <3>4, <3>7, <4>1, <4>2
    <3> QED
      BY <3>8 DEF T
  <2> QED
    BY <2>1, <2>2
<1> QED
  BY <1>1, <1>2, <1>3, <1>4, NextEffect

-----------------------------------------------------------------------------
(* A sign-in at the provider is good for one session *)

LEMMA UsedKept ==
    ASSUME NEW a \in Attempt, Used(a), Fewer,
           \A p \in Request : Holds(p, a)' => Holds(p, a),
           attempt'[a] # "gone" => attempt[a] # "gone"
    PROVE  Used(a)'
  BY DEF Used, Fewer

LEMMA UsedStep ==
    ASSUME TypeOK, \A a \in Attempt : Used(a), [Next]_vars
    PROVE  \A a \in Attempt : Used(a)'
<1>0. SUFFICES ASSUME NEW a \in Attempt PROVE Used(a)'
  OBVIOUS
<1>n. a # None
  BY AccountsAssumption
<1>1. CASE Ordinary
  <2>1. \A p \in Request : Holds(p, a)' => Holds(p, a)
    BY <1>1 DEF Ordinary, Holds
  <2> QED
    BY <1>1, <2>1, UsedKept DEF Ordinary
<1>2. ASSUME NEW r \in Request, consume(r) PROVE Used(a)'
  <2>1. /\ req'[r].op = "issueIdentity" /\ req'[r].attempt = req[r].attempt
        /\ \A p \in Request \ {r} : req'[p] = req[p]
    BY <1>2 DEF consume, Continued, TypeOK
  <2>2. session' = session /\ Fewer
    BY <1>2 DEF consume, Fewer
  <2>3. CASE req[r].attempt = a
    <3>1. attempt[a] = "open" /\ attempt'[a] = "gone"
      BY <1>2, <2>3 DEF consume, TypeOK
    <3>2. \A p \in Request : Holds(p, a)' => p = r
      BY <2>1, <3>1 DEF Holds, Used
    <3>3. \A k \in DOMAIN session : session[k].attempt # a
      BY <3>1 DEF Used
    <3> QED
      BY <2>2, <3>1, <3>2, <3>3 DEF Used
  <2>4. CASE req[r].attempt # a
    <3>1. \A p \in Request : Holds(p, a)' => Holds(p, a)
      BY <2>1, <2>4 DEF Holds
    <3>2. attempt'[a] # "gone" => attempt[a] # "gone"
      BY <1>2 DEF consume, TypeOK
    <3> QED
      BY <2>2, <3>1, <3>2, UsedKept
  <2> QED
    BY <2>3, <2>4
<1>3. ASSUME NEW r \in Request, NEW w \in User, NEW b \in Attempt \cup {None},
             NEW old \in 0..Len(session), Lists(r, w, b, old)
      PROVE  Used(a)'
  <2>1. req'[r] = Listing(w, b, old) /\ \A p \in Request \ {r} : req'[p] = req[p]
    BY <1>3 DEF Lists, TypeOK
  <2>2. req'[r].attempt = b
    BY <2>1, ListingType
  <2>3. \A p \in Request : Holds(p, a)' => Holds(p, a)
    BY <1>3, <1>n, <2>1, <2>2 DEF Lists, Holds
  <2> QED
    BY <1>3, <2>3, UsedKept DEF Lists, Fewer
<1>4. ASSUME NEW r \in Request, createSession(r) PROVE Used(a)'
  <2> DEFINE ks == {req[r].old} \cup Excess(req[r].listed)
             x == [user |-> req[r].user, active |-> TRUE, attempt |-> req[r].attempt]
             n == Len(session) + 1
  <2>1. session' = Append(Revoked(ks), x) /\ req[r].op = "createSession"
    BY <1>4 DEF createSession
  <2>2. x \in SessionRow /\ x.attempt = req[r].attempt
    BY <2>1, PendingFields DEF TypeOK, SessionRow
  <2> HIDE DEF ks, x
  <2>3. /\ DOMAIN session = 1..Len(session) /\ Len(session) \in Nat
        /\ DOMAIN session' = 1..Len(session) + 1 /\ session'[Len(session) + 1] = x
        /\ \A k \in DOMAIN session : session'[k] = Revoked(ks)[k]
    BY <2>1, <2>2, SessionAdded
  <2>4. \A k \in DOMAIN session : session'[k].attempt = session[k].attempt
    BY <2>3, RevokedRows
  <2>5. /\ DOMAIN session' = DOMAIN session \cup {n} /\ n \notin DOMAIN session
        /\ session'[n].attempt = req[r].attempt
    BY <2>2, <2>3
  <2> HIDE DEF n
  <2>6. \A p \in Request : Holds(p, a)' => Holds(p, a) /\ p # r
    BY <1>4 DEF createSession, Closed, Idle, Holds, TypeOK
  <2>7. session'[n].attempt = a => Holds(r, a)
    BY <2>1, <2>5 DEF Holds
  <2>8. attempt' = attempt
    BY <1>4 DEF createSession
  <2>9. CASE ~Holds(r, a)
    BY <2>4, <2>5, <2>6, <2>7, <2>8, <2>9 DEF Used
  <2>10. CASE Holds(r, a)
    <3>1. attempt[a] = "gone" /\ (\A p \in Request : ~Holds(p, a)')
          /\ \A k \in DOMAIN session : session[k].attempt # a
      BY <2>6, <2>10 DEF Used
    <3> QED
      BY <2>4, <2>5, <2>8, <3>1 DEF Used
  <2> QED
    BY <2>9, <2>10
<1> QED
  BY <1>1, <1>2, <1>3, <1>4, NextEffect

-----------------------------------------------------------------------------
(* Accounts and credentials *)

\* Roles and restrictions are not part of an identity.
LEMMA IdentityKept ==
    ASSUME IdentityAgrees, Credentials,
           \A u \in User : /\ user'[u].issuer = user[u].issuer
                           /\ user'[u].subject = user[u].subject
                           /\ user'[u].email = user[u].email
    PROVE  IdentityAgrees' /\ Credentials'
  BY DEF IdentityAgrees, Credentials

\* One account is created, renamed or deleted: it agrees with its credential and has taken
\* neither from another account.
LEMMA IdentityChanged ==
    ASSUME IdentityAgrees, Credentials, NEW u \in User,
           \A v \in User \ {u} : user'[v] = user[v],
           user'[u].issuer = "password" => user'[u].email = user'[u].subject,
           user'[u].issuer = "deleted" => user'[u].email = None /\ user'[u].subject = None,
           user'[u].email # None => user'[u].issuer = "password",
           user'[u].email # None => \A v \in User \ {u} : user[v].email # user'[u].email,
           user'[u].issuer \in {"password", "provider"} =>
                \A v \in User \ {u} : ~(user[v].issuer = user'[u].issuer
                                        /\ user[v].subject = user'[u].subject)
    PROVE  IdentityAgrees' /\ Credentials'
<1>1. Credentials'
  BY DEF Credentials
<1>2. ASSUME NEW v \in User
      PROVE  /\ user'[v].issuer = "password" => user'[v].email = user'[v].subject
             /\ user'[v].issuer = "deleted" => user'[v].email = None /\ user'[v].subject = None
  BY DEF IdentityAgrees
<1>3. ASSUME NEW v \in User, NEW w \in User \ {v}
      PROVE  /\ user'[v].email # None => user'[v].email # user'[w].email
             /\ user'[v].issuer \in {"password", "provider"} =>
                    ~(user'[v].issuer = user'[w].issuer /\ user'[v].subject = user'[w].subject)
  BY <1>3 DEF IdentityAgrees
<1> QED
  BY <1>1, <1>2, <1>3 DEF IdentityAgrees

LEMMA SignInIdentity ==
    ASSUME TypeOK, IdentityAgrees, Credentials, signIn
    PROVE  IdentityAgrees' /\ Credentials'
<1>k. ASSUME user' = user PROVE IdentityAgrees' /\ Credentials'
  BY <1>k, IdentityKept
<1>c. ASSUME NEW u \in User, NEW issuer \in {"password", "provider"}, NEW s \in Subject,
             user' = [user EXCEPT ![u] = NewUser(issuer, s)], ~Taken(issuer, s),
             issuer = "password" => ~CredentialTaken(s)
      PROVE  IdentityAgrees' /\ Credentials'
  <2>1. /\ user'[u].issuer = issuer /\ user'[u].subject = s
        /\ user'[u].email = IF issuer = "password" THEN s ELSE None
        /\ \A v \in User \ {u} : user'[v] = user[v]
    BY <1>c, NewUserType DEF TypeOK
  <2>2. issuer = "password" => \A v \in User \ {u} : user[v].email # s
    BY <1>c DEF CredentialTaken
  <2>3. \A v \in User : ~(user[v].issuer = issuer /\ user[v].subject = s)
    BY <1>c DEF Taken
  <2> QED
    BY <1>c, <2>1, <2>2, <2>3, IdentityChanged
<1>1. ASSUME NEW r \in Request, NEW u \in User, NEW s \in Subject, register(r, u, s)
      PROVE  IdentityAgrees' /\ Credentials'
  BY <1>1, <1>c DEF register
<1>2. ASSUME NEW r \in Request, NEW u \in User, NEW s \in Subject, NEW old,
             issueIdentity(r, u, s, old)
      PROVE  IdentityAgrees' /\ Credentials'
  BY <1>2, <1>c, <1>k DEF issueIdentity
<1>3. ASSUME NEW r \in Request, NEW u \in User, authenticate(r, u) PROVE user' = user
  BY <1>3 DEF authenticate
<1>4. ASSUME NEW a \in Attempt, begin(a) \/ Expire(a) PROVE user' = user
  BY <1>4 DEF begin, Expire
<1>5. ASSUME NEW r \in Request, NEW a \in Attempt, finish(r, a) PROVE user' = user
  BY <1>5 DEF finish
<1>6. ASSUME NEW r \in Request, consume(r) \/ issueUser(r) \/ createSession(r)
      PROVE  user' = user
  BY <1>6 DEF consume, issueUser, createSession
<1>7. ASSUME NEW r \in Request, NEW old, persistSession(r, old) PROVE user' = user
  BY <1>7 DEF persistSession
<1> QED
  BY <1>k, <1>1, <1>2, <1>3, <1>4, <1>5, <1>6, <1>7 DEF signIn

LEMMA AccountIdentity ==
    ASSUME TypeOK, IdentityAgrees, Credentials, account
    PROVE  IdentityAgrees' /\ Credentials'
<1>k. ASSUME user' = user PROVE IdentityAgrees' /\ Credentials'
  BY <1>k, IdentityKept
<1>1. ASSUME NEW u \in User, NEW k \in DOMAIN session,
             revokeSession(u, k) \/ revokeOtherSessions(u, k)
      PROVE  user' = user
  BY <1>1 DEF revokeSession, revokeOtherSessions
<1>2. ASSUME NEW r \in Request, NEW u \in User, NEW k \in DOMAIN session,
             changePassword(r, u, k) \/ deactivate(r, u, k)
      PROVE  user' = user
  BY <1>2 DEF changePassword, deactivate
<1>3. ASSUME NEW r \in Request, NEW u \in User, NEW k \in DOMAIN session, NEW s \in Subject,
             changeEmail(r, u, k, s)
      PROVE  user' = user
  BY <1>3 DEF changeEmail
<1>4. ASSUME NEW r \in Request, changePasswordCommit(r) PROVE user' = user
  BY <1>4 DEF changePasswordCommit
<1>5. ASSUME NEW r \in Request, changeEmailCommit(r) PROVE IdentityAgrees' /\ Credentials'
  <2>1. PICK u \in User, s \in Subject : u = req[r].user /\ s = req[r].email
    BY <1>5, PendingFields DEF changeEmailCommit, TypeOK
  <2>2. /\ user[u].email # None
        /\ \A v \in User \ {u} :
             user[v].email # s /\ ~(user[v].issuer = "password" /\ user[v].subject = s)
        /\ user' = [user EXCEPT ![u] = [user[u] EXCEPT !.email = s, !.subject = s]]
    BY <1>5, <2>1 DEF changeEmailCommit
  <2>3. user[u].issuer = "password"
    BY <2>2 DEF Credentials
  <2>4. /\ user'[u].email = s /\ user'[u].subject = s /\ user'[u].issuer = "password"
        /\ \A v \in User \ {u} : user'[v] = user[v]
    <3> DEFINE x == [user[u] EXCEPT !.email = s, !.subject = s]
    <3>1. x.email = s /\ x.subject = s /\ x.issuer = user[u].issuer
      BY ZenonT(30) DEF TypeOK, UserRow
    <3>2. user' = [user EXCEPT ![u] = x]
      BY <2>2
    <3> HIDE DEF x
    <3> QED
      BY <2>3, <3>1, <3>2 DEF TypeOK
  <2> QED
    BY <2>2, <2>4, IdentityChanged
<1>6. ASSUME NEW r \in Request, deactivateCommit(r) PROVE IdentityAgrees' /\ Credentials'
  <2>1. PICK u \in User : u = req[r].user
    BY <1>6, PendingFields DEF deactivateCommit, TypeOK
  <2>2. user' = [user EXCEPT ![u] =
                    [user[u] EXCEPT !.issuer = "deleted", !.subject = None, !.email = None]]
    BY <1>6, <2>1 DEF deactivateCommit
  <2>3. /\ user'[u].issuer = "deleted" /\ user'[u].subject = None /\ user'[u].email = None
        /\ \A v \in User \ {u} : user'[v] = user[v]
    <3> DEFINE x == [user[u] EXCEPT !.issuer = "deleted", !.subject = None, !.email = None]
    <3>1. x.issuer = "deleted" /\ x.subject = None /\ x.email = None
      BY ZenonT(30) DEF TypeOK, UserRow
    <3>2. user' = [user EXCEPT ![u] = x]
      BY <2>2
    <3> HIDE DEF x
    <3> QED
      BY <3>1, <3>2 DEF TypeOK
  <2> QED
    BY <2>3, IdentityChanged
<1> QED
  BY <1>k, <1>1, <1>2, <1>3, <1>4, <1>5, <1>6 DEF account

LEMMA IdentityStep ==
    ASSUME TypeOK, IdentityAgrees, Credentials, [Next]_vars
    PROVE  IdentityAgrees' /\ Credentials'
<1>k. ASSUME user' = user PROVE IdentityAgrees' /\ Credentials'
  BY <1>k, IdentityKept
<1>1. ASSUME NEW r \in Request, NEW actor \in User, NEW u \in User, NEW role \in Granted,
             setRole(r, actor, u, role)
      PROVE  user' = user
  BY <1>1 DEF setRole
<1>2. ASSUME NEW r \in Request, NEW actor \in User, NEW u \in User, NEW action \in Action,
             restrict(r, actor, u, action)
      PROVE  user' = user
  BY <1>2 DEF restrict
<1>3. ASSUME NEW r \in Request, setRoleCommit(r) PROVE IdentityAgrees' /\ Credentials'
  <2>1. PICK u, role : user' = [user EXCEPT ![u].role = role]
    BY <1>3 DEF setRoleCommit
  <2> QED
    BY <2>1, IdentityKept DEF TypeOK, UserRow
<1>4. ASSUME NEW u, NEW z, user' = [user EXCEPT ![u].restriction = z]
      PROVE  IdentityAgrees' /\ Credentials'
  BY <1>4, IdentityKept DEF TypeOK, UserRow
<1>5. ASSUME NEW r \in Request, restrictCommit(r) PROVE IdentityAgrees' /\ Credentials'
  BY <1>4, <1>5 DEF restrictCommit
<1>6. CASE administration
  BY <1>k, <1>1, <1>2, <1>3, <1>5, <1>6 DEF administration
<1>7. CASE Lapse
  BY <1>k, <1>4, <1>7 DEF Lapse
<1>8. CASE UNCHANGED vars
  BY <1>k, <1>8 DEF vars
<1>9. ASSUME NEW r \in Request, Fail(r) PROVE user' = user
  BY <1>9 DEF Fail
<1> QED
  BY <1>k, <1>6, <1>7, <1>8, <1>9, SignInIdentity, AccountIdentity DEF Next

-----------------------------------------------------------------------------
(* Theorems *)

LEMMA AccountsStart == Init => AccountsInv
<1> SUFFICES ASSUME Init PROVE AccountsInv
  OBVIOUS
<1>1. SubjectOf \in [Admin -> Subject] /\ \A u, v \in Admin : SubjectOf[u] = SubjectOf[v] => u = v
  BY AccountsAssumption DEF SubjectOf
<1>2. ASSUME NEW u \in Admin
      PROVE  /\ user[u] \in UserRow /\ user[u].issuer = "password"
             /\ user[u].subject = SubjectOf[u] /\ user[u].email = SubjectOf[u]
  <2> DEFINE n == NewUser("password", SubjectOf[u])
  <2>1. n \in UserRow /\ n.issuer = "password" /\ n.subject = SubjectOf[u]
        /\ n.email = SubjectOf[u]
    BY <1>1, NewUserType
  <2>2. user[u] = [n EXCEPT !.role = "ADMIN"]
    BY AccountsAssumption DEF Init
  <2> HIDE DEF n
  <2>3. [n EXCEPT !.role = "ADMIN"] \in UserRow
    BY <2>1, UserRole DEF Role
  <2> QED
    BY <2>1, <2>2, <2>3 DEF UserRow
<1>3. ASSUME NEW u \in User \ Admin
      PROVE  /\ user[u] \in UserRow /\ user[u].issuer = "none" /\ user[u].email = None
  <2>1. user[u] = NoUser
    BY DEF Init
  <2> QED
    BY <2>1 DEF NoUser, UserRow, Role
<1>4. TypeOK
  <2>1. user \in [User -> UserRow]
    BY <1>2, <1>3 DEF Init
  <2> QED
    BY <2>1 DEF Init, TypeOK, Pending
<1>5. session = <<>> /\ (\A u \in User : active(u) = {})
  BY DEF Init, active
<1>6. SessionCap
  <2>1. MaxActive \in Nat
    BY AccountsAssumption
  <2> QED
    BY <1>5, <2>1, FS_EmptySet DEF SessionCap
<1>7. ASSUME NEW r \in Request PROVE req[r] = Idle
  BY DEF Init
<1>8. (\A r \in Request : Listed(r)) /\ (\A a \in Attempt : Used(a))
  BY <1>5, <1>7 DEF Listed, Used, Holds, Idle
<1>9. IdentityAgrees /\ Credentials
  <2>1. ASSUME NEW u \in User, user[u].email # None \/ user[u].issuer # "none"
        PROVE  /\ u \in Admin /\ user[u].issuer = "password"
               /\ user[u].email = user[u].subject
    BY <1>2, <1>3, <2>1
  <2>2. ASSUME NEW u \in User, NEW v \in User \ {u}, user[u].email # None
        PROVE  user[u].email # user[v].email
    <3>1. u \in Admin /\ user[u].email = SubjectOf[u] /\ SubjectOf[u] # None
      BY <1>1, <1>2, <2>1, <2>2, AccountsAssumption
    <3> QED
      BY <1>1, <1>2, <1>3, <2>2, <3>1
  <2>3. ASSUME NEW u \in User, NEW v \in User \ {u}, user[u].issuer \in {"password", "provider"},
               user[u].issuer = user[v].issuer, user[u].subject = user[v].subject
        PROVE  FALSE
    <3>1. u \in Admin /\ v \in Admin
      BY <2>1, <2>3
    <3> QED
      BY <1>1, <1>2, <2>3, <3>1
  <2> QED
    BY <2>1, <2>2, <2>3 DEF IdentityAgrees, Credentials
<1> QED
  BY <1>4, <1>6, <1>8, <1>9 DEF AccountsInv

LEMMA AccountsStep == AccountsInv /\ [Next]_vars => AccountsInv'
<1> SUFFICES ASSUME AccountsInv, [Next]_vars PROVE AccountsInv'
  OBVIOUS
<1> USE DEF AccountsInv
<1>1. TypeOK'
  BY NextType
<1>2. \A r \in Request : Listed(r)'
  BY ListedStep
<1>3. SessionCap'
  BY <1>1, CapStep
<1>4. \A a \in Attempt : Used(a)'
  BY UsedStep
<1>5. IdentityAgrees' /\ Credentials'
  BY IdentityStep
<1> QED
  BY <1>1, <1>2, <1>3, <1>4, <1>5

\* The inductive invariant holds in every reachable state.
THEOREM AccountsInvariant == Spec => []AccountsInv
  BY AccountsStart, AccountsStep, PTL DEF Spec

\* SessionCap: for any number of sign-ins under way, by password and by provider, and any
\* limit, an account never has more active sessions than the limit (persistSession of
\* login.service.ts lists, revokes and creates under the lock of the User row).
THEOREM SessionCapHolds == Spec => []SessionCap
<1>1. AccountsInv => SessionCap
  BY DEF AccountsInv
<1> QED
  BY <1>1, AccountsInvariant, PTL

\* SignedInOnce: one sign-in at the provider gives one session, however often and with
\* however many requests its callback arrives (finish and consume of login.service.ts).
THEOREM SignedInOnceHolds == Spec => []SignedInOnce
<1>1. AccountsInv => SignedInOnce
  <2> SUFFICES ASSUME AccountsInv, NEW a \in Attempt
               PROVE  Cardinality({k \in DOMAIN session : session[k].attempt = a}) <= 1
    BY DEF SignedInOnce
  <2> DEFINE K == {k \in DOMAIN session : session[k].attempt = a}
  <2>1. \A j, k \in K : j = k
    BY DEF AccountsInv, Used
  <2>2. CASE K = {}
    BY <2>2, FS_EmptySet
  <2>3. ASSUME NEW k \in K PROVE Cardinality(K) <= 1
    <3>1. K = {k}
      BY <2>1
    <3> HIDE DEF K
    <3>2. Cardinality(K) = 1
      BY <3>1, FS_Singleton, ZenonT(30)
    <3> QED
      BY <3>2
  <2> QED
    BY <2>2, <2>3
<1> QED
  BY <1>1, AccountsInvariant, PTL

\* IdentityAgrees: registration, provider sign-in, change of e-mail and deactivation, in any
\* interleaving, leave no account with another's identity or credential, and a deactivated
\* one with neither (account.ts, password-auth.service.ts, login.service.ts).
THEOREM IdentityAgreesHolds == Spec => []IdentityAgrees
<1>1. AccountsInv => IdentityAgrees
  BY DEF AccountsInv
<1> QED
  BY <1>1, AccountsInvariant, PTL
=============================================================================
