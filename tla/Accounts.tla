------------------------------ MODULE Accounts ------------------------------
(***************************************************************************)
(* Accounts and their sessions: sign-in by password and by provider        *)
(* (password-auth.service.ts, login.service.ts), the account's own changes *)
(* (account.ts) and the administrator's (setRole and restrict in           *)
(* admin.ts).                                                              *)
(*                                                                         *)
(* A handler that reads before its transaction keeps what it has read in   *)
(* `req`.  A transaction is one step, except the one that issues a         *)
(* session: it holds the lock on the User row from the step that lists the *)
(* account's sessions to the step that writes the new one, and whoever     *)
(* updates that row meanwhile waits.                                       *)
(*                                                                         *)
(* Passwords, tokens and their hashes are left out: a request that is      *)
(* modelled is one that has the right ones; one that has not is refused    *)
(* and changes nothing.                                                    *)
(***************************************************************************)
EXTENDS Integers, FiniteSets, Sequences, TLC

CONSTANTS
    User,         \* accounts that may exist
    Admin,        \* those that are administrators when the system starts
    Subject,      \* e-mail addresses and subjects at the provider
    Attempt,      \* sign-ins begun at the provider
    Request,      \* HTTP requests under way
    None,
    MaxActive,    \* ten active sessions to an account
    MaxSessions,  \* bound: sessions issued
    Granted       \* bound: the roles that setRole is asked for

ASSUME AccountsAssumption ==
    /\ Admin \subseteq User
    /\ \E f \in [Admin -> Subject] : \A u, v \in Admin : f[u] = f[v] => u = v
    /\ None \notin User \cup Subject \cup Attempt \cup Request
    /\ MaxActive \in Nat \ {0}
    /\ MaxSessions \in Nat
    /\ Granted \subseteq {"USER", "MODERATOR", "ADMIN"}

VARIABLES
    user,      \* User and Credential
    session,   \* Session, in the order of createdAt
    attempt,   \* AuthAttempt
    lock,      \* the request that has locked the User row to issue a session
    req        \* what each request has read

vars == <<user, session, attempt, lock, req>>

-----------------------------------------------------------------------------
(* Rows *)

Action == {"BAN", "SUSPEND", "CLEAR"}

\* The issuer is "none" before the account exists; `email` is that of the Credential row,
\* None when there is none; the restriction is "none", "BANNED" or "SUSPENDED".
NoUser == [issuer |-> "none", subject |-> None, email |-> None, role |-> "USER",
           restriction |-> "none"]
NewUser(issuer, s) ==
    [NoUser EXCEPT !.issuer = issuer, !.subject = s, !.email = IF issuer = "password" THEN s ELSE None]

Idle == [op |-> "idle"]

Registered(u) == user[u].issuer \in {"password", "provider"}
Taken(issuer, s) == \E u \in User : user[u].issuer = issuer /\ user[u].subject = s
CredentialTaken(s) == \E u \in User : user[u].email = s

active(u) == {k \in DOMAIN session : session[k].user = u /\ session[k].active}
Revoked(ks) == [k \in DOMAIN session |->
                  [session[k] EXCEPT !.active = session[k].active /\ k \notin ks]]

ensureAllowed(u) == user[u].restriction = "none"

\* Sessions.resolve and SessionGuard: session k lets account u act.
Signed(u, k) == k \in active(u) /\ Registered(u) /\ ensureAllowed(u)

Opened(r, q) == req[r] = Idle /\ req' = [req EXCEPT ![r] = q]
Continued(r, q) == req' = [req EXCEPT ![r] = q]
Closed(r) == req' = [req EXCEPT ![r] = Idle]

\* An update of the User row waits for the lock.
Unlocked(u) == lock[u] = None

-----------------------------------------------------------------------------
(* Sign-in *)

\* PasswordAuthService.register: the account, then its first session.
register(r, u, s) ==
    /\ user[u] = NoUser
    /\ ~Taken("password", s) /\ ~CredentialTaken(s)
    /\ user' = [user EXCEPT ![u] = NewUser("password", s)]
    /\ Opened(r, [op |-> "issueUser", user |-> u])
    /\ UNCHANGED <<session, attempt, lock>>

\* The credential is read and the password verified.
authenticate(r, u) ==
    /\ user[u].email # None
    /\ Opened(r, [op |-> "issueUser", user |-> u])
    /\ UNCHANGED <<user, session, attempt, lock>>

begin(a) ==
    /\ attempt[a] = "none"
    /\ attempt' = [attempt EXCEPT ![a] = "open"]
    /\ UNCHANGED <<user, session, lock, req>>

\* Five minutes pass, or the browser begins another sign-in.
Expire(a) ==
    /\ attempt[a] = "open"
    /\ attempt' = [attempt EXCEPT ![a] = "gone"]
    /\ UNCHANGED <<user, session, lock, req>>

finish(r, a) ==
    /\ attempt[a] = "open"
    /\ Opened(r, [op |-> "finish", attempt |-> a])
    /\ UNCHANGED <<user, session, attempt, lock>>

\* Whether the attempt was still there to delete is not looked at.
ConsumeAnyway(r) ==
    /\ req[r].op = "finish"
    /\ attempt' = [attempt EXCEPT ![req[r].attempt] = "gone"]
    /\ Continued(r, [op |-> "issueIdentity", attempt |-> req[r].attempt])
    /\ UNCHANGED <<user, session, lock>>

\* deleteMany counts one row for the request that comes first.
consume(r) ==
    /\ req[r].op = "finish"
    /\ attempt[req[r].attempt] = "open"
    /\ attempt' = [attempt EXCEPT ![req[r].attempt] = "gone"]
    /\ Continued(r, [op |-> "issueIdentity", attempt |-> req[r].attempt])
    /\ UNCHANGED <<user, session, lock>>

\* persistSession up to its list: `old` is the session of the browser's cookie, or 0.
Listing(u, a, old) ==
    [op |-> "createSession", user |-> u, attempt |-> a, old |-> old, listed |-> active(u) \ {old}]

\* The account is checked on a plain read; the lock comes after.
issueUser(r) ==
    /\ req[r].op = "issueUser"
    /\ ensureAllowed(req[r].user)
    /\ Continued(r, [op |-> "persistSession", user |-> req[r].user])
    /\ UNCHANGED <<user, session, attempt, lock>>

\* The sessions are listed without waiting for the row.
ListUnlocked(r, old) ==
    /\ req[r].op = "persistSession"
    /\ Continued(r, Listing(req[r].user, None, old))
    /\ UNCHANGED <<user, session, attempt, lock>>

persistSession(r, old) ==
    /\ req[r].op = "persistSession"
    /\ Unlocked(req[r].user)
    /\ lock' = [lock EXCEPT ![req[r].user] = r]
    /\ Continued(r, Listing(req[r].user, None, old))
    /\ UNCHANGED <<user, session, attempt>>

\* The provider has named subject s: the upsert locks the row, which is then checked.
issueIdentity(r, u, s, old) ==
    /\ req[r].op = "issueIdentity"
    /\ \/ user[u].issuer = "provider" /\ user[u].subject = s /\ user' = user
       \/ user[u] = NoUser /\ ~Taken("provider", s)
          /\ user' = [user EXCEPT ![u] = NewUser("provider", s)]
    /\ Unlocked(u)
    /\ ensureAllowed(u)
    /\ lock' = [lock EXCEPT ![u] = r]
    /\ Continued(r, Listing(u, req[r].attempt, old))
    /\ UNCHANGED <<session, attempt>>

\* All but the newest are revoked once there are MaxActive.
Excess(ks) ==
    IF Cardinality(ks) < MaxActive THEN {}
    ELSE {k \in ks : Cardinality({j \in ks : j > k}) >= MaxActive - 1}

\* A transaction that ends gives its lock back.
Released(r) == lock' = [u \in User |-> IF lock[u] = r THEN None ELSE lock[u]]

createSession(r) ==
    LET q == req[r] IN
    /\ q.op = "createSession"
    /\ Len(session) < MaxSessions
    /\ session' = Append(Revoked({q.old} \cup Excess(q.listed)),
                         [user |-> q.user, active |-> TRUE, attempt |-> q.attempt])
    /\ Released(r)
    /\ Closed(r)
    /\ UNCHANGED <<user, attempt>>

-----------------------------------------------------------------------------
(* The account's own changes; the session they are made with is k *)

Change(op, u, k, email) == [op |-> op, user |-> u, with |-> k, email |-> email]

revokeSession(u, k) ==
    /\ k \in active(u)
    /\ \E j \in DOMAIN session : Signed(u, j)
    /\ session' = Revoked({k})
    /\ UNCHANGED <<user, attempt, lock, req>>

revokeOtherSessions(u, k) ==
    /\ Signed(u, k)
    /\ session' = Revoked(active(u) \ {k})
    /\ UNCHANGED <<user, attempt, lock, req>>

\* Both read the credential and verify the password first.
changePassword(r, u, k) ==
    /\ Signed(u, k)
    /\ user[u].email # None
    /\ Opened(r, Change("changePassword", u, k, None))
    /\ UNCHANGED <<user, session, attempt, lock>>

changePasswordCommit(r) ==
    LET q == req[r] IN
    /\ q.op = "changePassword"
    /\ user[q.user].email # None
    /\ session' = Revoked(active(q.user) \ {q.with})
    /\ Closed(r)
    /\ UNCHANGED <<user, attempt, lock>>

changeEmail(r, u, k, s) ==
    /\ Signed(u, k)
    /\ user[u].email \notin {None, s}
    /\ Opened(r, Change("changeEmail", u, k, s))
    /\ UNCHANGED <<user, session, attempt, lock>>

\* The account is written whether or not its credential is still there.
ChangeGone(r) ==
    LET q == req[r] IN
    /\ q.op = "changeEmail"
    /\ Unlocked(q.user)
    /\ user' = [user EXCEPT ![q.user] =
                    [user[q.user] EXCEPT !.email = q.email, !.subject = q.email]]
    /\ session' = Revoked(active(q.user) \ {q.with})
    /\ Closed(r)
    /\ UNCHANGED <<attempt, lock>>

changeEmailCommit(r) ==
    LET q == req[r] IN
    /\ q.op = "changeEmail"
    /\ user[q.user].email # None
    /\ \A u \in User \ {q.user} :
          user[u].email # q.email /\ ~(user[u].issuer = "password" /\ user[u].subject = q.email)
    /\ Unlocked(q.user)
    /\ user' = [user EXCEPT ![q.user] =
                    [user[q.user] EXCEPT !.email = q.email, !.subject = q.email]]
    /\ session' = Revoked(active(q.user) \ {q.with})
    /\ Closed(r)
    /\ UNCHANGED <<attempt, lock>>

deactivate(r, u, k) ==
    /\ Signed(u, k)
    /\ Opened(r, Change("deactivate", u, k, None))
    /\ UNCHANGED <<user, session, attempt, lock>>

deactivateCommit(r) ==
    LET u == req[r].user IN
    /\ req[r].op = "deactivate"
    /\ Unlocked(u)
    /\ session' = Revoked(active(u))
    /\ user' = [user EXCEPT ![u] =
                    [user[u] EXCEPT !.issuer = "deleted", !.subject = None, !.email = None]]
    /\ Closed(r)
    /\ UNCHANGED <<attempt, lock>>

-----------------------------------------------------------------------------
(* The administrator's changes; `actor` has passed SessionGuard and RolesGuard *)

Administrator(actor) ==
    user[actor].role = "ADMIN" /\ \E k \in DOMAIN session : Signed(actor, k)

\* The role the account has is read here.
setRole(r, actor, u, role) ==
    /\ Administrator(actor)
    /\ actor = u => role = "ADMIN"
    /\ user[u] # NoUser
    /\ user[u].role # role
    /\ Opened(r, [op |-> "setRole", user |-> u, was |-> user[u].role, role |-> role])
    /\ UNCHANGED <<user, session, attempt, lock>>

\* The administrators are locked and counted when the role that was read is ADMIN.
setRoleCommit(r) ==
    LET q == req[r] IN
    /\ q.op = "setRole"
    /\ q.was = "ADMIN" =>
          LET admins == {u \in User : user[u].role = "ADMIN"} IN
          /\ \A u \in admins : Unlocked(u)
          /\ Cardinality(admins) > 1
    /\ Unlocked(q.user)
    /\ user' = [user EXCEPT ![q.user].role = q.role]
    /\ Closed(r)
    /\ UNCHANGED <<session, attempt, lock>>

restrict(r, actor, u, action) ==
    /\ Administrator(actor)
    /\ actor # u
    /\ user[u] # NoUser
    /\ user[u].role # "ADMIN"
    /\ Opened(r, [op |-> "restrict", user |-> u, action |-> action])
    /\ UNCHANGED <<user, session, attempt, lock>>

restrictCommit(r) ==
    LET q == req[r] IN
    /\ q.op = "restrict"
    /\ Unlocked(q.user)
    /\ user' = [user EXCEPT ![q.user].restriction =
          CASE q.action = "BAN" -> "BANNED" [] q.action = "SUSPEND" -> "SUSPENDED" [] OTHER -> "none"]
    /\ session' = IF q.action = "CLEAR" THEN session ELSE Revoked(active(q.user))
    /\ Closed(r)
    /\ UNCHANGED <<attempt, lock>>

-----------------------------------------------------------------------------
(* The system *)

\* Refused, rolled back or abandoned.
Fail(r) ==
    /\ req[r] # Idle
    /\ Closed(r)
    /\ Released(r)
    /\ UNCHANGED <<user, session, attempt>>

\* A session reaches expiresAt; the end of a suspension.
Lapse ==
    \/ \E k \in DOMAIN session : session[k].active /\ session' = Revoked({k}) /\ user' = user
    \/ \E u \in User : /\ user[u].restriction = "SUSPENDED"
                       /\ user' = [user EXCEPT ![u].restriction = "none"]
                       /\ session' = session

SubjectOf == CHOOSE f \in [Admin -> Subject] : \A u, v \in Admin : f[u] = f[v] => u = v

Init ==
    /\ user = [u \in User |-> IF u \in Admin
                              THEN [NewUser("password", SubjectOf[u]) EXCEPT !.role = "ADMIN"]
                              ELSE NoUser]
    /\ session = <<>>
    /\ attempt = [a \in Attempt |-> "none"]
    /\ lock = [u \in User |-> None]
    /\ req = [r \in Request |-> Idle]

signIn ==
    \/ \E r \in Request, u \in User : authenticate(r, u) \/ \E s \in Subject : register(r, u, s)
    \/ \E a \in Attempt : begin(a) \/ Expire(a) \/ \E r \in Request : finish(r, a)
    \/ \E r \in Request : consume(r) \/ issueUser(r) \/ createSession(r)
    \/ \E r \in Request, old \in 0..Len(session) :
          \/ persistSession(r, old)
          \/ \E u \in User, s \in Subject : issueIdentity(r, u, s, old)

account ==
    \/ \E u \in User, k \in DOMAIN session :
          \/ revokeSession(u, k) \/ revokeOtherSessions(u, k)
          \/ \E r \in Request :
                \/ changePassword(r, u, k) \/ deactivate(r, u, k)
                \/ \E s \in Subject : changeEmail(r, u, k, s)
    \/ \E r \in Request : changePasswordCommit(r) \/ changeEmailCommit(r) \/ deactivateCommit(r)

administration ==
    \/ \E r \in Request, actor, u \in User :
          \/ \E role \in Granted : setRole(r, actor, u, role)
          \/ \E action \in Action : restrict(r, actor, u, action)
    \/ \E r \in Request : setRoleCommit(r) \/ restrictCommit(r)

Next ==
    \/ signIn \/ account \/ administration
    \/ \E r \in Request : Fail(r)
    \/ Lapse /\ UNCHANGED <<attempt, lock, req>>

Spec == Init /\ [][Next]_vars

-----------------------------------------------------------------------------
(* Properties *)

\* However many sign-ins, by password and by provider, an account has under way at the
\* same time, it never has more than MaxActive active sessions (persistSession lists and
\* revokes before it creates; "At most ten active sessions per account are retained").
SessionCap == \A u \in User : Cardinality(active(u)) <= MaxActive

\* A sign-in begun at the provider is good for one session, also when its callback
\* arrives twice at the same time (finish finds the attempt and then consumes it).
SignedInOnce ==
    \A a \in Attempt : Cardinality({k \in DOMAIN session : session[k].attempt = a}) <= 1

\* An account that signs in by e-mail is known by the e-mail of its credential, nobody
\* else is, and a deactivated account keeps neither credential nor identity, whatever
\* change of its e-mail was under way (changeEmail and deactivate in account.ts read the
\* credential before their transactions).
IdentityAgrees ==
    \A u \in User :
        /\ user[u].issuer = "password" => user[u].email = user[u].subject
        /\ user[u].issuer = "deleted" => user[u].email = None /\ user[u].subject = None
        /\ \A v \in User \ {u} :
              /\ user[u].email # None => user[u].email # user[v].email
              /\ user[u].issuer \in {"password", "provider"} =>
                    <<user[u].issuer, user[u].subject>> # <<user[v].issuer, user[v].subject>>

\* "At least one administrator must remain." (setRole in admin.ts counts them before it
\* takes the role away).
AdministratorRemains == \E u \in User : user[u].role = "ADMIN"
=============================================================================
