----------------------------- MODULE Admission -----------------------------
(***************************************************************************)
(* Admission of executions (Executions.create in executions.ts and         *)
(* ExecutionAdmission.reserve in admission.ts): the transaction that       *)
(* answers a POST, on any API replica, under the lock on the owner's row   *)
(* and the global advisory lock, with the idempotency keys, the caps on    *)
(* active jobs and the creation quotas of each minute.                     *)
(*                                                                         *)
(* `job` and `counter` hold committed rows.  What a transaction has        *)
(* written but not committed is in `req`, so a rollback is a step that     *)
(* forgets it.  Statements read what is committed when they run.           *)
(***************************************************************************)
EXTENDS Integers, FiniteSets, Sequences, Functions

CONSTANTS
    Request,              \* the requests that arrive
    User, Key, Hash, Ip,  \* owners, idempotency keys, payload hashes, addresses
    None,
    MaxActivePerUser,     \* MAX_ACTIVE_JOBS_PER_USER
    MaxActiveGlobal,      \* MAX_ACTIVE_JOBS_GLOBAL
    GlobalPerMinute,      \* EXECUTION_GLOBAL_CREATIONS_PER_MINUTE
    IpPerMinute,          \* EXECUTION_IP_CREATIONS_PER_MINUTE
    UserPerMinute,        \* EXECUTION_CREATIONS_PER_MINUTE
    Skew,                 \* minutes an API clock may be from the true one
    MaxTime               \* bound: last minute

\* A job carries what admission looks at; `window` is the minute it was counted in.
Job == [user: User, key: Key, hash: Hash, ip: Ip, window: 0..MaxTime + Skew, active: BOOLEAN]

ASSUME AdmissionAssumption ==
    /\ None \notin Request \cup Job
    /\ {MaxActivePerUser, MaxActiveGlobal, GlobalPerMinute, IpPerMinute, UserPerMinute,
        Skew, MaxTime} \subseteq Nat

VARIABLES
    now,      \* the true time, in minutes
    job,      \* the execution each request has created
    counter,  \* the ExecutionRateLimit table: a count for the keys it holds
    req,      \* the transaction of each request
    owner,    \* who holds the lock on each User row
    admitter  \* who holds the advisory lock

vars == <<now, job, counter, req, owner, admitter>>

-----------------------------------------------------------------------------
(* Values *)

Clock == {t \in 0..MaxTime + Skew : t >= now - Skew /\ t <= now + Skew}

Scope == [kind: {"global"}, of: {None}] \cup [kind: {"ip"}, of: Ip] \cup [kind: {"user"}, of: User]
RateKey == (0..MaxTime + Skew) \X Scope

\* The scopes of a reservation, in the order they are counted in.
scopes(q) == <<[kind |-> "global", of |-> None], [kind |-> "ip", of |-> q.ip],
               [kind |-> "user", of |-> q.user]>>

limit(scope) ==
    CASE scope.kind = "global" -> GlobalPerMinute
      [] scope.kind = "ip" -> IpPerMinute
      [] OTHER -> UserPerMinute

Step == {"idle", "lock", "look", "reserve", "count", "quota", "insert"}

NoCounts == [k \in {} |-> 0]

\* The rows of f in place of those of g with the same key.
Upsert(f, g) == [k \in DOMAIN f \cup DOMAIN g |-> IF k \in DOMAIN f THEN f[k] ELSE g[k]]

Idle == [pc |-> "idle", user |-> None, key |-> None, hash |-> None, ip |-> None,
         window |-> 0, written |-> NoCounts, of |-> None]

Jobs == {r \in Request : job[r] # None}
ActiveJobs == {r \in Jobs : job[r].active}

Goto(r, pc) == req' = [req EXCEPT ![r].pc = pc]

\* Mutant: the transaction of an answered request stays open.
FinishOpen(r, answer, id) ==
    /\ req' = [req EXCEPT ![r] = [req[r] EXCEPT !.pc = answer, !.written = NoCounts, !.of = id]]
    /\ UNCHANGED <<owner, admitter>>

\* The transaction commits or rolls back: what it wrote is forgotten, its locks
\* are released.
Finish(r, answer, id) ==
    /\ req' = [req EXCEPT ![r] = [req[r] EXCEPT !.pc = answer, !.written = NoCounts, !.of = id]]
    /\ owner' = [u \in User |-> IF owner[u] = r THEN None ELSE owner[u]]
    /\ admitter' = IF admitter = r THEN None ELSE admitter

Refuse(r, answer) == Finish(r, answer, None) /\ UNCHANGED <<now, job, counter>>

-----------------------------------------------------------------------------
(* Executions.create *)

Arrive(r) ==
    /\ req[r].pc = "idle"
    /\ \E u \in User, k \in Key, h \in Hash, i \in Ip :
        req' = [req EXCEPT ![r] = [req[r] EXCEPT !.pc = "lock", !.user = u, !.key = k,
                                                 !.hash = h, !.ip = i]]
    /\ UNCHANGED <<now, job, counter, owner, admitter>>

\* Mutant: the owner's row is read without a lock.
LockOwnerShared(r) ==
    /\ req[r].pc = "lock"
    /\ Goto(r, "look")
    /\ UNCHANGED <<now, job, counter, owner, admitter>>

LockOwner(r) ==
    /\ req[r].pc = "lock" /\ owner[req[r].user] = None
    /\ owner' = [owner EXCEPT ![req[r].user] = r]
    /\ Goto(r, "look")
    /\ UNCHANGED <<now, job, counter, admitter>>

\* The job an earlier request with this key has created.
Previous(r) == {p \in Jobs : job[p].user = req[r].user /\ job[p].key = req[r].key}

ActiveOf(u) == {p \in ActiveJobs : job[p].user = u}

\* The idempotency key, the owner's active jobs, and whether the problem is
\* published and its competition round open to the owner.
Look(r) ==
    /\ req[r].pc = "look"
    /\ \/ \E p \in Previous(r) :
            IF job[p].hash = req[r].hash
            THEN Finish(r, "replayed", p) /\ UNCHANGED <<now, job, counter>>
            ELSE Refuse(r, "IDEMPOTENCY_CONFLICT")
       \/ /\ Previous(r) = {} /\ Cardinality(ActiveOf(req[r].user)) >= MaxActivePerUser
          /\ Refuse(r, "ACTIVE_JOB_LIMIT")
       \/ /\ Previous(r) = {} /\ Cardinality(ActiveOf(req[r].user)) < MaxActivePerUser
          /\ \/ Refuse(r, "NOT_OPEN")
             \/ Goto(r, "reserve") /\ UNCHANGED <<now, job, counter, owner, admitter>>

-----------------------------------------------------------------------------
(* ExecutionAdmission.reserve *)

LockAdmission(r) ==
    /\ req[r].pc = "reserve" /\ admitter = None
    /\ admitter' = r
    /\ Goto(r, "count")
    /\ UNCHANGED <<now, job, counter, owner>>

\* Mutant: the last free place is counted twice.
CountActiveOneMore(r) ==
    /\ req[r].pc = "count"
    /\ \/ Cardinality(ActiveJobs) > MaxActiveGlobal /\ Refuse(r, "EXECUTION_CAPACITY")
       \/ /\ Cardinality(ActiveJobs) <= MaxActiveGlobal
          /\ \E t \in Clock :
                req' = [req EXCEPT ![r] = [req[r] EXCEPT !.pc = "quota", !.window = t]]
          /\ UNCHANGED <<now, job, counter, owner, admitter>>

CountActive(r) ==
    /\ req[r].pc = "count"
    /\ \/ Cardinality(ActiveJobs) >= MaxActiveGlobal /\ Refuse(r, "EXECUTION_CAPACITY")
       \/ /\ Cardinality(ActiveJobs) < MaxActiveGlobal
          /\ \E t \in Clock :
                req' = [req EXCEPT ![r] = [req[r] EXCEPT !.pc = "quota", !.window = t]]
          /\ UNCHANGED <<now, job, counter, owner, admitter>>

\* The upsert of one counter.  A row the transaction has not seen yet is read as
\* committed; the first count of a new row is 1.
Upserted(r, k) == IF k \in DOMAIN counter THEN counter[k] + 1 ELSE 1

\* Mutant: the counters are not written through the transaction.
QuotaOutside(r) ==
    LET k == <<req[r].window, [kind |-> "global", of |-> None]>> IN
    /\ req[r].pc = "quota"
    /\ counter' = Upsert([x \in {k} |-> Upserted(r, k)], counter)
    /\ IF Upserted(r, k) > GlobalPerMinute
       THEN Finish(r, "EXECUTION_RATE_LIMIT", None)
       ELSE Goto(r, "insert") /\ UNCHANGED <<owner, admitter>>
    /\ UNCHANGED <<now, job>>

\* Count in the next scope, and refuse when its limit is passed.
Quota(r) ==
    LET done == Cardinality(DOMAIN req[r].written)
        scope == scopes(req[r])[done + 1]
        k == <<req[r].window, scope>>
    IN
    /\ req[r].pc = "quota"
    /\ \/ Upserted(r, k) > limit(scope) /\ Refuse(r, "EXECUTION_RATE_LIMIT")
       \/ /\ Upserted(r, k) <= limit(scope)
          /\ req' = [req EXCEPT ![r] = [req[r] EXCEPT
                !.pc = IF done + 1 = Len(scopes(req[r])) THEN "insert" ELSE "quota",
                !.written = Upsert([x \in {k} |-> Upserted(r, k)], req[r].written)]]
          /\ UNCHANGED <<now, job, counter, owner, admitter>>

-----------------------------------------------------------------------------
(* The insert, the other requests' world, and the specification *)

\* Insert the row with its event and its intent, and commit; the unique index on
\* owner and key would refuse a second row.
Insert(r) ==
    /\ req[r].pc = "insert"
    /\ \/ Previous(r) # {} /\ Refuse(r, "error")
       \/ /\ Previous(r) = {}
          /\ job' = [job EXCEPT ![r] = [user |-> req[r].user, key |-> req[r].key,
                        hash |-> req[r].hash, ip |-> req[r].ip, window |-> req[r].window,
                        active |-> TRUE]]
          /\ counter' = Upsert(req[r].written, counter)
          /\ Finish(r, "created", r)
          /\ UNCHANGED now

\* A statement fails, a deadlock is broken or the process dies: roll back.
Abort(r) ==
    /\ req[r].pc \in Step \ {"idle"}
    /\ Refuse(r, "error")

\* JobStore ends the execution.
End(r) ==
    /\ r \in ActiveJobs
    /\ job' = [job EXCEPT ![r].active = FALSE]
    /\ UNCHANGED <<now, counter, req, owner, admitter>>

\* deleteMany of QueuedMaintenance by some API clock.  It waits for rows that an
\* open transaction has incremented, and does not see rows one has inserted.
DeleteExpired ==
    /\ \E t \in Clock :
        LET expired == {k \in DOMAIN counter : k[1] + 1 <= t} IN
        /\ expired # {}
        /\ \A r \in Request : expired \cap DOMAIN req[r].written = {}
        /\ counter' = Restrict(counter, DOMAIN counter \ expired)
    /\ UNCHANGED <<now, job, req, owner, admitter>>

Tick ==
    /\ now < MaxTime
    /\ now' = now + 1
    /\ UNCHANGED <<job, counter, req, owner, admitter>>

create(r) ==
    \/ LockOwner(r) \/ Look(r) \/ LockAdmission(r) \/ CountActive(r) \/ Quota(r) \/ Insert(r)

Init ==
    /\ now = 0
    /\ job = [r \in Request |-> None]
    /\ counter = NoCounts
    /\ req = [r \in Request |-> Idle]
    /\ owner = [u \in User |-> None] /\ admitter = None

Next ==
    \/ \E r \in Request : Arrive(r) \/ create(r) \/ Abort(r) \/ End(r)
    \/ DeleteExpired
    \/ Tick

Spec == Init /\ [][Next]_vars

-----------------------------------------------------------------------------
(* Properties *)

\* The caps on active jobs hold at every moment, for each owner and over all, with
\* any number of replicas answering at once.
CapsHold ==
    /\ Cardinality(ActiveJobs) <= MaxActiveGlobal
    /\ \A u \in User : Cardinality(ActiveOf(u)) <= MaxActivePerUser

\* A key names one job: requests of an owner that carry the same key and succeed
\* get the same job, made from the payload they carry, and none of them gets as
\* far as the unique index, which would answer it with an internal error.
Idempotent ==
    /\ \A r \in Request : req[r].pc = "insert" => Previous(r) = {}
    /\ \A r \in Request : req[r].pc \in {"created", "replayed"} =>
        /\ req[r].of \in Jobs /\ job[req[r].of].hash = req[r].hash
        /\ Previous(r) = {req[r].of}

\* The jobs that were counted in the window and the scope of key k.
Counted(k) ==
    {r \in Jobs : job[r].window = k[1] /\ \E i \in DOMAIN scopes(job[r]) : scopes(job[r])[i] = k[2]}

\* Until its minute has passed on every clock a quota counts exactly the jobs that
\* were created: refusals, retries with a known key and failed transactions take
\* nothing from it, and it is never overdrawn.
QuotaExact ==
    \A k \in RateKey : k[1] + 1 > now + Skew =>
        /\ Cardinality(Counted(k)) <= limit(k[2])
        /\ Cardinality(Counted(k)) = IF k \in DOMAIN counter THEN counter[k] ELSE 0

\* Request r waits for a lock that another transaction holds.
Blocked(r) ==
    \/ req[r].pc = "lock" /\ owner[req[r].user] # None
    \/ req[r].pc = "reserve" /\ admitter # None

\* Nobody waits for ever: the two locks are taken in one order and released by
\* every outcome, so while requests are under way one of them can go on.
NoDeadlock ==
    LET open == {r \in Request : req[r].pc \in Step \ {"idle"}} IN
    open # {} => \E r \in open : ~Blocked(r)
=============================================================================
