-------------------------- MODULE AdmissionProofs --------------------------
(***************************************************************************)
(* Admission for any number of requests, owners and keys, and any limits:  *)
(* the caps, the idempotency keys, the two locks and the quotas.           *)
(***************************************************************************)
EXTENDS Admission, FiniteSetTheorems, TLAPS

Fields == {"pc", "user", "key", "hash", "ip", "window", "written", "of"}

\* What a transaction carries, and that the table of executions is finite.
Shape ==
    /\ DOMAIN req = Request
    /\ \A r \in Request :
        /\ DOMAIN req[r] = Fields /\ req[r].window \in 0..MaxTime + Skew
        /\ req[r].pc # "idle" => /\ req[r].user \in User /\ req[r].key \in Key
                                 /\ req[r].hash \in Hash /\ req[r].ip \in Ip
    /\ job \in [Request -> Job \cup {None}]
    /\ IsFiniteSet(Jobs)
    /\ now \in Nat

\* The statements that run under the lock on the owner's row, and under the advisory lock.
OwnerLocked(r) == req[r].pc \in {"look", "reserve", "count", "quota", "insert"}
Admitting(r) == req[r].pc \in {"count", "quota", "insert"}

Locks ==
    /\ owner \in [User -> Request \cup {None}]
    /\ admitter \in Request \cup {None}
    /\ \A r \in Request : \A u \in User : owner[u] = r <=> OwnerLocked(r) /\ req[r].user = u
    /\ \A r \in Request : admitter = r <=> Admitting(r)

\* What a transaction has looked up stays true while it holds the lock it did so under.
Decided ==
    \A r \in Request :
        /\ OwnerLocked(r) /\ req[r].pc # "look" =>
            Previous(r) = {} /\ Cardinality(ActiveOf(req[r].user)) < MaxActivePerUser
        /\ req[r].pc \in {"quota", "insert"} => Cardinality(ActiveJobs) < MaxActiveGlobal

Answered ==
    /\ \A r \in Jobs : req[r].pc = "created"
    /\ \A p, q \in Jobs : job[p].user = job[q].user /\ job[p].key = job[q].key => p = q
    /\ \A r \in Request : req[r].pc \in {"created", "replayed"} =>
        /\ req[r].of \in Jobs /\ job[req[r].of].hash = req[r].hash
        /\ Previous(r) = {req[r].of}

AdmissionInv == Shape /\ Locks /\ Decided /\ Answered /\ CapsHold

-----------------------------------------------------------------------------
(* Steps that leave the executions alone *)

LEMMA InitiallyAdmitted == Init => AdmissionInv
  <1> SUFFICES ASSUME Init PROVE AdmissionInv
    OBVIOUS
  <1>1. Jobs = {} /\ ActiveJobs = {} /\ \A u : ActiveOf(u) = {}
    BY DEF Init, Jobs, ActiveJobs, ActiveOf
  <1>2. \A r \in Request : DOMAIN req[r] = Fields /\ req[r].pc = "idle" /\ req[r].window = 0
    BY DEF Init, Idle, Fields
  <1>3. Shape
    BY <1>1, <1>2, FS_EmptySet, AdmissionAssumption DEF Shape, Init
  <1>4. Locks
    BY <1>2, AdmissionAssumption DEF Locks, Init, OwnerLocked, Admitting
  <1>5. Decided /\ Answered
    BY <1>1, <1>2 DEF Decided, Answered, OwnerLocked
  <1>6. CapsHold
    BY <1>1, FS_EmptySet, AdmissionAssumption DEF CapsHold
  <1> QED BY <1>3, <1>4, <1>5, <1>6 DEF AdmissionInv

\* Only request r moves: what was looked up for the others stands.
Only(r) == /\ DOMAIN req' = Request /\ \A s \in Request \ {r} : req'[s] = req[s]
           /\ DOMAIN req'[r] = Fields /\ UNCHANGED <<now, job>>

LEMMA JobsKept ==
    ASSUME UNCHANGED job
    PROVE  /\ Jobs' = Jobs /\ ActiveJobs' = ActiveJobs
           /\ \A u : ActiveOf(u)' = ActiveOf(u)
  BY DEF Jobs, ActiveJobs, ActiveOf

LEMMA OneMore ==
    ASSUME NEW S, IsFiniteSet(S), NEW x, NEW n \in Nat, Cardinality(S) < n
    PROVE  Cardinality(S \cup {x}) <= n
  <1>1. Cardinality(S) \in Nat
    BY FS_CardinalityType
  <1>2. Cardinality(S \cup {x}) = Cardinality(S) \/ Cardinality(S \cup {x}) = Cardinality(S) + 1
    BY FS_AddElement
  <1> QED BY <1>1, <1>2

LEMMA Limits == MaxActivePerUser \in Nat /\ MaxActiveGlobal \in Nat
  BY AdmissionAssumption

LEMMA FiniteJobs ==
    ASSUME AdmissionInv
    PROVE  IsFiniteSet(Jobs) /\ IsFiniteSet(ActiveJobs) /\ \A u : IsFiniteSet(ActiveOf(u))
  <1>1. IsFiniteSet(Jobs) /\ ActiveJobs \subseteq Jobs /\ \A u : ActiveOf(u) \subseteq Jobs
    BY DEF AdmissionInv, Shape, ActiveJobs, ActiveOf
  <1> QED BY <1>1, FS_Subset

LEMMA OthersKept ==
    ASSUME AdmissionInv, NEW r \in Request, Only(r), NEW s \in Request, s # r
    PROVE  /\ req'[s] = req[s] /\ Previous(s)' = Previous(s)
           /\ OwnerLocked(s)' = OwnerLocked(s) /\ Admitting(s)' = Admitting(s)
  <1>1. req'[s] = req[s] /\ job' = job
    BY DEF Only
  <1>2. Jobs' = Jobs
    BY <1>1 DEF Jobs
  <1> QED BY <1>1, <1>2 DEF Previous, OwnerLocked, Admitting

\* A transaction ends, with an answer that is true of the executions there are.
LEMMA FinishStep ==
    ASSUME AdmissionInv, NEW r \in Request, NEW answer, answer \notin Step, NEW id,
           req[r].pc # "idle", r \notin Jobs,
           Finish(r, answer, id), UNCHANGED <<now, job>>,
           answer \in {"created", "replayed"} =>
             id \in Jobs /\ job[id].hash = req[r].hash /\ Previous(r) = {id}
    PROVE  AdmissionInv'
  <1>1. /\ Only(r) /\ req'[r].pc = answer /\ req'[r].of = id
        /\ req'[r].user = req[r].user /\ req'[r].key = req[r].key
        /\ req'[r].hash = req[r].hash /\ req'[r].ip = req[r].ip
        /\ req'[r].window = req[r].window
    BY DEF Only, Finish, AdmissionInv, Shape, Fields
  <1>2. /\ Jobs' = Jobs /\ ActiveJobs' = ActiveJobs
        /\ \A u : ActiveOf(u)' = ActiveOf(u)
    BY JobsKept
  <1>3. Previous(r)' = Previous(r) /\ ~OwnerLocked(r)' /\ ~Admitting(r)'
    BY <1>1, <1>2 DEF Previous, OwnerLocked, Admitting, Step
  <1>4. Shape'
    BY <1>1, <1>2 DEF AdmissionInv, Shape, Only
  <1>5. /\ owner' = [u \in User |-> IF owner[u] = r THEN None ELSE owner[u]]
        /\ admitter' = IF admitter = r THEN None ELSE admitter
    BY DEF Finish
  <1>6. Locks'
    BY <1>1, <1>3, <1>5, OthersKept, AdmissionAssumption DEF AdmissionInv, Locks
  <1>7. Decided'
    BY <1>1, <1>2, <1>3, OthersKept DEF AdmissionInv, Decided, Step
  <1>8. Answered'
    BY <1>1, <1>2, <1>3, OthersKept DEF AdmissionInv, Answered, Only, Jobs
  <1>9. CapsHold'
    BY <1>2 DEF AdmissionInv, CapsHold
  <1> QED BY <1>4, <1>6, <1>7, <1>8, <1>9 DEF AdmissionInv

\* A transaction goes on, with its locks and a lookup that succeeded.
LEMMA GoingOn ==
    ASSUME AdmissionInv, NEW r \in Request, r \notin Jobs, Only(r),
           req'[r].pc \in Step \ {"idle"}, req'[r].window \in 0..MaxTime + Skew,
           req'[r].user \in User, req'[r].key \in Key, req'[r].hash \in Hash, req'[r].ip \in Ip,
           Locks',
           OwnerLocked(r)' /\ req'[r].pc # "look" =>
             Previous(r)' = {} /\ Cardinality(ActiveOf(req'[r].user)) < MaxActivePerUser,
           req'[r].pc \in {"quota", "insert"} => Cardinality(ActiveJobs) < MaxActiveGlobal
    PROVE  AdmissionInv'
  <1>1. /\ Jobs' = Jobs /\ ActiveJobs' = ActiveJobs
        /\ \A u : ActiveOf(u)' = ActiveOf(u)
    BY JobsKept DEF Only
  <1>2. Shape'
    BY <1>1 DEF AdmissionInv, Shape, Only
  <1>3. Decided'
    BY <1>1, OthersKept DEF AdmissionInv, Decided
  <1>4. Answered'
    BY <1>1, OthersKept DEF AdmissionInv, Answered, Only, Jobs, Step
  <1>5. CapsHold'
    BY <1>1 DEF AdmissionInv, CapsHold
  <1> QED BY <1>2, <1>3, <1>4, <1>5 DEF AdmissionInv

LEMMA Underway ==
    ASSUME AdmissionInv, NEW r \in Request, req[r].pc \in Step
    PROVE  r \notin Jobs
  BY DEF AdmissionInv, Answered, Step

\* Request r moves to pc, with nothing but its pc and its locks changed.
LEMMA GotoStep ==
    ASSUME AdmissionInv, NEW r \in Request, NEW pc \in Step \ {"idle"}, req[r].pc \in Step \ {"idle"},
           Goto(r, pc), UNCHANGED <<now, job>>, Locks',
           pc = "reserve" => req[r].pc = "look" /\ Previous(r) = {} /\
                             Cardinality(ActiveOf(req[r].user)) < MaxActivePerUser,
           pc = "count" => req[r].pc = "reserve",
           pc \in {"lock", "look", "reserve", "count"}
    PROVE  AdmissionInv'
  <1>1. /\ Only(r) /\ req'[r].pc = pc /\ req'[r].user = req[r].user
        /\ req'[r].key = req[r].key /\ req'[r].hash = req[r].hash
        /\ req'[r].ip = req[r].ip /\ req'[r].window = req[r].window
    BY DEF Goto, AdmissionInv, Shape, Fields, Only
  <1>2. Previous(r)' = Previous(r) /\ r \notin Jobs
    BY <1>1, Underway DEF Previous, Jobs
  <1>3. OwnerLocked(r)' /\ req'[r].pc # "look" =>
             Previous(r)' = {} /\ Cardinality(ActiveOf(req'[r].user)) < MaxActivePerUser
    BY <1>1, <1>2 DEF AdmissionInv, Decided, OwnerLocked
  <1>4. /\ req'[r].window \in 0..MaxTime + Skew /\ req'[r].user \in User
        /\ req'[r].key \in Key /\ req'[r].hash \in Hash /\ req'[r].ip \in Ip
    BY <1>1 DEF AdmissionInv, Shape
  <1> QED BY <1>1, <1>2, <1>3, <1>4, GoingOn

LEMMA ArriveStep ==
    ASSUME AdmissionInv, NEW r \in Request, Arrive(r)
    PROVE  AdmissionInv'
  <1>1. PICK u \in User, k \in Key, h \in Hash, i \in Ip :
          req' = [req EXCEPT ![r] = [req[r] EXCEPT !.pc = "lock", !.user = u, !.key = k,
                                                   !.hash = h, !.ip = i]]
    BY DEF Arrive
  <1>2. /\ Only(r) /\ req'[r].pc = "lock" /\ req'[r].user = u
        /\ req'[r].key = k /\ req'[r].hash = h
        /\ req'[r].ip = i /\ req'[r].window = req[r].window
    BY <1>1 DEF Arrive, AdmissionInv, Shape, Fields, Only
  <1>3. req[r].pc = "idle" /\ UNCHANGED <<owner, admitter>>
    BY DEF Arrive
  <1>4. ~OwnerLocked(r)' /\ ~Admitting(r)' /\ ~OwnerLocked(r) /\ ~Admitting(r)
    BY <1>2, <1>3 DEF OwnerLocked, Admitting
  <1>5. Locks'
    BY <1>2, <1>3, <1>4, OthersKept DEF AdmissionInv, Locks
  <1>6. r \notin Jobs /\ req'[r].window \in 0..MaxTime + Skew
    BY <1>2, <1>3, Underway DEF AdmissionInv, Shape, Step
  <1> QED BY <1>2, <1>4, <1>5, <1>6, GoingOn, SMTT(30) DEF Step

LEMMA LockStep ==
    ASSUME AdmissionInv, NEW r \in Request, LockOwner(r) \/ LockAdmission(r)
    PROVE  AdmissionInv'
  <1>1. CASE LockOwner(r)
    <2>1. /\ Goto(r, "look") /\ req[r].pc = "lock" /\ owner[req[r].user] = None
          /\ owner' = [owner EXCEPT ![req[r].user] = r] /\ UNCHANGED <<now, job, admitter>>
      BY <1>1 DEF LockOwner
    <2>2. Only(r) /\ req'[r].pc = "look" /\ req'[r].user = req[r].user /\ req[r].user \in User
      BY <2>1 DEF Goto, AdmissionInv, Shape, Fields, Only
    <2>3. OwnerLocked(r)' /\ ~OwnerLocked(r) /\ ~Admitting(r)' /\ ~Admitting(r)
      BY <2>1, <2>2 DEF OwnerLocked, Admitting
    <2>4. Locks'
      <3>1. owner' \in [User -> Request \cup {None}] /\ admitter' \in Request \cup {None}
        BY <2>1 DEF AdmissionInv, Locks
      <3>2. ASSUME NEW s \in Request, NEW u \in User
            PROVE  (owner[u] = s <=> OwnerLocked(s) /\ req[s].user = u)'
        <4>1. CASE s = r
          BY <4>1, <2>1, <2>2, <2>3 DEF AdmissionInv, Locks
        <4>2. CASE s # r
          BY <4>2, <2>1, <2>2, OthersKept, AdmissionAssumption DEF AdmissionInv, Locks
        <4> QED BY <4>1, <4>2
      <3>3. \A s \in Request : (admitter = s <=> Admitting(s))'
        BY <2>1, <2>2, <2>3, OthersKept DEF AdmissionInv, Locks
      <3> QED BY <3>1, <3>2, <3>3 DEF Locks
    <2> QED BY <2>1, <2>4, GotoStep DEF Step
  <1>2. CASE LockAdmission(r)
    <2>1. /\ Goto(r, "count") /\ req[r].pc = "reserve" /\ admitter = None
          /\ admitter' = r /\ UNCHANGED <<now, job, owner>>
      BY <1>2 DEF LockAdmission
    <2>2. Only(r) /\ req'[r].pc = "count" /\ req'[r].user = req[r].user
      BY <2>1 DEF Goto, AdmissionInv, Shape, Fields, Only
    <2>3. OwnerLocked(r)' /\ OwnerLocked(r) /\ Admitting(r)'
      BY <2>1, <2>2 DEF OwnerLocked, Admitting
    <2>4. Locks'
      <3>1. owner' \in [User -> Request \cup {None}] /\ admitter' \in Request \cup {None}
        BY <2>1 DEF AdmissionInv, Locks
      <3>2. \A s \in Request, u \in User : (owner[u] = s <=> OwnerLocked(s) /\ req[s].user = u)'
        BY <2>1, <2>2, <2>3, OthersKept DEF AdmissionInv, Locks
      <3>3. \A s \in Request : (admitter = s <=> Admitting(s))'
        BY <2>1, <2>2, <2>3, OthersKept, AdmissionAssumption DEF AdmissionInv, Locks
      <3> QED BY <3>1, <3>2, <3>3 DEF Locks
    <2> QED BY <2>1, <2>4, GotoStep DEF Step
  <1> QED BY <1>1, <1>2

LEMMA RefuseStep ==
    ASSUME AdmissionInv, NEW r \in Request, req[r].pc \in Step \ {"idle"},
           NEW answer, answer \notin Step \cup {"created", "replayed"}, Refuse(r, answer)
    PROVE  AdmissionInv'
  BY Underway, FinishStep DEF Refuse

LEMMA LookStep ==
    ASSUME AdmissionInv, NEW r \in Request, Look(r)
    PROVE  AdmissionInv'
  <1>1. req[r].pc = "look" /\ req[r].pc \in Step \ {"idle"} /\ r \notin Jobs
    BY Underway DEF Look, Step
  <1>2. ASSUME NEW p \in Previous(r), job[p].hash = req[r].hash, Finish(r, "replayed", p),
               UNCHANGED <<now, job, counter>>
        PROVE  AdmissionInv'
    <2>1. p \in Jobs /\ p \in Request /\ job[p].user = req[r].user /\ job[p].key = req[r].key
      BY DEF Previous, Jobs
    <2>2. Previous(r) = {p}
      BY <1>2, <2>1 DEF Previous, AdmissionInv, Answered
    <2> QED BY <1>1, <1>2, <2>1, <2>2, FinishStep DEF Step
  <1>3. CASE \E answer \in {"IDEMPOTENCY_CONFLICT", "ACTIVE_JOB_LIMIT", "NOT_OPEN"} :
               Refuse(r, answer)
    BY <1>1, <1>3, RefuseStep DEF Step
  <1>4. ASSUME Previous(r) = {}, Cardinality(ActiveOf(req[r].user)) < MaxActivePerUser,
               Goto(r, "reserve"), UNCHANGED <<now, job, counter, owner, admitter>>
        PROVE  AdmissionInv'
    <2>1. Only(r) /\ req'[r].pc = "reserve" /\ req'[r].user = req[r].user
      BY <1>1, <1>4 DEF Goto, AdmissionInv, Shape, Fields, Only
    <2>2. OwnerLocked(r)' /\ OwnerLocked(r) /\ ~Admitting(r)' /\ ~Admitting(r)
      BY <1>1, <2>1 DEF OwnerLocked, Admitting
    <2>3. Locks'
      BY <1>4, <2>1, <2>2, OthersKept, SMTT(30) DEF AdmissionInv, Locks
    <2> QED BY <1>1, <1>4, <2>3, GotoStep DEF Step
  <1> QED BY <1>2, <1>3, <1>4 DEF Look

\* Request r goes on under both locks.
LEMMA ReserveStep ==
    ASSUME AdmissionInv, NEW r \in Request, Only(r), UNCHANGED <<owner, admitter>>,
           req[r].pc \in {"count", "quota"}, req'[r].pc \in {"quota", "insert"},
           req'[r].user = req[r].user, req'[r].key = req[r].key,
           req'[r].hash = req[r].hash, req'[r].ip = req[r].ip,
           req'[r].window \in 0..MaxTime + Skew, Cardinality(ActiveJobs) < MaxActiveGlobal
    PROVE  AdmissionInv'
  <1>1. /\ OwnerLocked(r)' /\ OwnerLocked(r) /\ Admitting(r)' /\ Admitting(r)
        /\ req[r].pc # "look" /\ req[r].pc # "idle"
    BY DEF OwnerLocked, Admitting
  <1>2. Locks'
    BY <1>1, OthersKept DEF AdmissionInv, Locks
  <1>3. Previous(r)' = Previous(r) /\ r \notin Jobs
    BY Underway DEF Previous, Jobs, Only, Step
  <1>4. /\ Previous(r) = {} /\ Cardinality(ActiveOf(req[r].user)) < MaxActivePerUser
        /\ req[r].user \in User /\ req[r].key \in Key /\ req[r].hash \in Hash /\ req[r].ip \in Ip
    BY <1>1, SMTT(30) DEF AdmissionInv, Decided, Shape
  <1> QED BY <1>1, <1>2, <1>3, <1>4, GoingOn DEF Step

LEMMA CountStep ==
    ASSUME AdmissionInv, NEW r \in Request, CountActive(r)
    PROVE  AdmissionInv'
  <1>1. req[r].pc = "count" /\ req[r].pc \in Step \ {"idle"}
    BY DEF CountActive, Step
  <1>2. CASE Refuse(r, "EXECUTION_CAPACITY")
    BY <1>1, <1>2, RefuseStep DEF Step
  <1>3. ASSUME Cardinality(ActiveJobs) < MaxActiveGlobal, NEW t \in Clock,
               req' = [req EXCEPT ![r] = [req[r] EXCEPT !.pc = "quota", !.window = t]],
               UNCHANGED <<now, job, counter, owner, admitter>>
        PROVE  AdmissionInv'
    <2>1. /\ Only(r) /\ req'[r].pc = "quota" /\ req'[r].window = t
          /\ req'[r].user = req[r].user /\ req'[r].key = req[r].key
          /\ req'[r].hash = req[r].hash /\ req'[r].ip = req[r].ip
      BY <1>3, SMTT(30) DEF AdmissionInv, Shape, Fields, Only
    <2> QED BY <1>1, <1>3, <2>1, ReserveStep DEF Clock
  <1> QED BY <1>2, <1>3 DEF CountActive

LEMMA QuotaStep ==
    ASSUME AdmissionInv, NEW r \in Request, Quota(r)
    PROVE  AdmissionInv'
  <1>1. req[r].pc = "quota" /\ req[r].pc \in Step \ {"idle"}
    BY DEF Quota, Step
  <1>2. CASE Refuse(r, "EXECUTION_RATE_LIMIT")
    BY <1>1, <1>2, RefuseStep DEF Step
  <1>3. ASSUME NEW pc \in {"quota", "insert"}, NEW counts,
               req' = [req EXCEPT ![r] = [req[r] EXCEPT !.pc = pc, !.written = counts]],
               UNCHANGED <<now, job, counter, owner, admitter>>
        PROVE  AdmissionInv'
    <2>1. /\ Only(r) /\ req'[r].pc = pc /\ req'[r].window = req[r].window
          /\ req'[r].user = req[r].user /\ req'[r].key = req[r].key
          /\ req'[r].hash = req[r].hash /\ req'[r].ip = req[r].ip
      BY <1>3 DEF AdmissionInv, Shape, Fields, Only
    <2>2. Cardinality(ActiveJobs) < MaxActiveGlobal /\ req[r].window \in 0..MaxTime + Skew
      BY <1>1 DEF AdmissionInv, Decided, Shape
    <2> QED BY <1>1, <1>3, <2>1, <2>2, ReserveStep
  <1> QED BY <1>2, <1>3 DEF Quota

-----------------------------------------------------------------------------
(* Steps on the executions *)

\* The row of r is the only one with its key.
LEMMA InsertAnswered ==
    ASSUME Answered, NEW r \in Request, r \notin Jobs, Previous(r) = {}, Jobs' = Jobs \cup {r},
           \A s \in Request \ {r} : job'[s] = job[s] /\ req'[s] = req[s],
           job'[r].user = req[r].user, job'[r].key = req[r].key, job'[r].hash = req[r].hash,
           req'[r].user = req[r].user, req'[r].key = req[r].key, req'[r].hash = req[r].hash,
           req'[r].pc = "created", req'[r].of = r
    PROVE  Answered'
  <1>1. Jobs \subseteq Request \ {r}
    BY DEF Jobs
  <1>2. \A p \in Jobs' : req'[p].pc = "created"
    BY <1>1 DEF Answered
  <1>3. \A p \in Jobs : job[p].user # req[r].user \/ job[p].key # req[r].key
    BY DEF Previous
  <1>4. \A p, q \in Jobs' : job'[p].user = job'[q].user /\ job'[p].key = job'[q].key => p = q
    BY <1>1, <1>3 DEF Answered
  <1>5. \A s \in Request : \A p \in Previous(s)' : Previous(s)' = {p}
    BY <1>4 DEF Previous
  <1>6. r \in Previous(r)'
    BY DEF Previous
  <1>7. ASSUME NEW s \in Request \ {r}, req'[s].pc \in {"created", "replayed"}
        PROVE  /\ req'[s].of \in Jobs' /\ job'[req'[s].of].hash = req'[s].hash
               /\ req'[s].of \in Previous(s)'
    <2>1. /\ req'[s] = req[s] /\ req[s].of \in Jobs /\ job[req[s].of].hash = req[s].hash
          /\ req[s].of \in Previous(s)
      BY <1>7 DEF Answered
    <2>2. job'[req[s].of] = job[req[s].of]
      BY <1>1, <2>1
    <2> QED BY <2>1, <2>2 DEF Previous
  <1> QED BY <1>2, <1>4, <1>5, <1>6, <1>7 DEF Answered

\* The others hold no lock that r holds, so what they have looked up is not about its row.
LEMMA InsertDecided ==
    ASSUME Decided, Locks, NEW r \in Request, r \notin Jobs, NEW u \in User, u = req[r].user,
           OwnerLocked(r), Admitting(r), Jobs' = Jobs \cup {r}, req'[r].pc = "created",
           \A v : v # u => ActiveOf(v)' = ActiveOf(v),
           job'[r].user = u, \A s \in Request \ {r} : job'[s] = job[s] /\ req'[s] = req[s]
    PROVE  Decided'
  <1>1. \A p \in Jobs : p # r /\ job'[p] = job[p]
    BY DEF Jobs
  <1>2. owner[u] = r /\ admitter = r
    BY DEF Locks
  <1>3. ASSUME NEW s \in Request \ {r}, OwnerLocked(s)
        PROVE  req[s].user # u /\ ~Admitting(s)
    BY <1>2, <1>3 DEF Locks
  <1>4. ASSUME NEW s \in Request \ {r}, req[s].user # u
        PROVE  Previous(s)' = Previous(s)
    BY <1>1, <1>4 DEF Previous
  <1>5. ASSUME NEW s \in Request \ {r}
        PROVE  /\ OwnerLocked(s)' /\ req'[s].pc # "look" =>
                   /\ Previous(s)' = {}
                   /\ Cardinality(ActiveOf(req[s].user)') < MaxActivePerUser
               /\ req'[s] = req[s] /\ req'[s].pc \notin {"quota", "insert"}
    <2>1. req'[s] = req[s] /\ OwnerLocked(s)' = OwnerLocked(s)
      BY DEF OwnerLocked
    <2>2. req[s].pc \notin {"quota", "insert"}
      BY <1>3 DEF OwnerLocked, Admitting
    <2> QED BY <1>3, <1>4, <2>1, <2>2 DEF Decided
  <1> QED BY <1>5 DEF Decided, OwnerLocked

\* The row of r, if it was not there, is one more for its owner and over all.
LEMMA InsertStep ==
    ASSUME AdmissionInv, NEW r \in Request, Insert(r)
    PROVE  AdmissionInv'
  <1>1. /\ req[r].pc = "insert" /\ req[r].pc \in Step \ {"idle"} /\ r \notin Jobs
        /\ OwnerLocked(r) /\ Admitting(r)
    BY Underway DEF Insert, Step, OwnerLocked, Admitting
  <1>2. CASE Refuse(r, "error")
    BY <1>1, <1>2, RefuseStep DEF Step
  <1>. PICK u \in User, k \in Key, h \in Hash, i \in Ip, w \in 0..MaxTime + Skew :
         /\ u = req[r].user /\ k = req[r].key /\ h = req[r].hash
         /\ i = req[r].ip /\ w = req[r].window
    BY <1>1 DEF AdmissionInv, Shape
  <1> DEFINE row == [user |-> u, key |-> k, hash |-> h, ip |-> i, window |-> w, active |-> TRUE]
  <1>3. ASSUME job' = [job EXCEPT ![r] = row], Finish(r, "created", r), UNCHANGED now
        PROVE  AdmissionInv'
    <2>1. row \in Job /\ row # None
      <3>1. row \in Job
        BY DEF Job
      <3> QED BY <3>1, AdmissionAssumption
    <2>2. /\ job' \in [Request -> Job \cup {None}] /\ job'[r] = row
          /\ \A s \in Request \ {r} : job'[s] = job[s]
      BY <1>3, <2>1 DEF AdmissionInv, Shape
    <2>3. /\ DOMAIN req' = Request /\ \A s \in Request \ {r} : req'[s] = req[s]
          /\ DOMAIN req'[r] = Fields /\ req'[r].pc = "created" /\ req'[r].of = r
          /\ req'[r].user = u /\ req'[r].key = req[r].key /\ req'[r].hash = req[r].hash
          /\ req'[r].ip = req[r].ip /\ req'[r].window = req[r].window
      BY <1>3 DEF AdmissionInv, Shape, Fields, Finish
    <2>4. /\ Jobs' = Jobs \cup {r} /\ ActiveJobs' = ActiveJobs \cup {r}
          /\ ActiveOf(u)' = ActiveOf(u) \cup {r}
          /\ \A v : v # u => ActiveOf(v)' = ActiveOf(v)
      BY <1>1, <2>1, <2>2 DEF Jobs, ActiveJobs, ActiveOf
    <2>5. /\ Previous(r) = {} /\ Cardinality(ActiveOf(u)) < MaxActivePerUser
          /\ Cardinality(ActiveJobs) < MaxActiveGlobal
      BY <1>1 DEF AdmissionInv, Decided
    <2>6. /\ IsFiniteSet(Jobs) /\ IsFiniteSet(ActiveJobs)
          /\ \A v : IsFiniteSet(ActiveOf(v))
      BY FiniteJobs
    <2>7. /\ IsFiniteSet(Jobs') /\ Cardinality(ActiveJobs') <= MaxActiveGlobal
          /\ Cardinality(ActiveOf(u)') <= MaxActivePerUser
      <3>1. IsFiniteSet(Jobs')
        BY <2>4, <2>6, FS_AddElement
      <3>2. Cardinality(ActiveJobs \cup {r}) <= MaxActiveGlobal
        BY <2>5, <2>6, OneMore, Limits
      <3>3. Cardinality(ActiveOf(u) \cup {r}) <= MaxActivePerUser
        BY <2>5, <2>6, OneMore, Limits
      <3> QED BY <2>4, <3>1, <3>2, <3>3
    <2>8. CapsHold'
      BY <2>4, <2>7 DEF AdmissionInv, CapsHold
    <2>9. Shape'
      BY <1>1, <1>3, <2>1, <2>2, <2>3, <2>7 DEF AdmissionInv, Shape
    <2>10. ASSUME NEW s \in Request, s # r
           PROVE  /\ OwnerLocked(s)' = OwnerLocked(s) /\ Admitting(s)' = Admitting(s)
                  /\ req'[s] = req[s]
      BY <2>3, <2>10 DEF OwnerLocked, Admitting
    <2>11. ~OwnerLocked(r)' /\ ~Admitting(r)'
      BY <2>3 DEF OwnerLocked, Admitting
    <2>12. Locks'
      BY <1>3, <2>3, <2>10, <2>11, AdmissionAssumption, SMTT(30) DEF AdmissionInv, Locks, Finish
    <2>13. Decided'
      BY <1>1, <2>2, <2>3, <2>4, InsertDecided, SMTT(30) DEF AdmissionInv
    <2>14. Answered'
      BY <1>1, <2>2, <2>3, <2>4, <2>5, InsertAnswered DEF AdmissionInv
    <2> QED BY <2>8, <2>9, <2>12, <2>13, <2>14 DEF AdmissionInv
  <1> QED BY <1>2, <1>3 DEF Insert

\* An execution ends: there are fewer active ones.
LEMMA EndStep ==
    ASSUME AdmissionInv, NEW r \in Request, End(r)
    PROVE  AdmissionInv'
  <1>1. /\ r \in Jobs /\ job' = [job EXCEPT ![r].active = FALSE]
        /\ UNCHANGED <<now, req, owner, admitter>>
    BY DEF End, ActiveJobs
  <1>2. job[r] \in Job
    BY <1>1 DEF AdmissionInv, Shape, Jobs
  <1>3. /\ job' \in [Request -> Job \cup {None}] /\ job'[r] \in Job
        /\ job'[r].user = job[r].user /\ job'[r].key = job[r].key /\ job'[r].hash = job[r].hash
        /\ job'[r].active = FALSE /\ \A s \in Request \ {r} : job'[s] = job[s]
    BY <1>1, <1>2 DEF AdmissionInv, Shape, Job
  <1>4. Jobs' = Jobs
    BY <1>1, <1>3, AdmissionAssumption DEF Jobs
  <1>5. ActiveJobs' \subseteq ActiveJobs /\ \A u : ActiveOf(u)' \subseteq ActiveOf(u)
    BY <1>3, <1>4 DEF ActiveJobs, ActiveOf, Jobs
  <1>6. /\ Cardinality(ActiveJobs') <= Cardinality(ActiveJobs)
        /\ Cardinality(ActiveJobs') \in Nat /\ Cardinality(ActiveJobs) \in Nat
    BY <1>5, FiniteJobs, FS_Subset, FS_CardinalityType
  <1>7. ASSUME NEW u
        PROVE  /\ Cardinality(ActiveOf(u)') <= Cardinality(ActiveOf(u))
               /\ Cardinality(ActiveOf(u)') \in Nat /\ Cardinality(ActiveOf(u)) \in Nat
    BY <1>5, FiniteJobs, FS_Subset, FS_CardinalityType
  <1>8. ASSUME NEW s \in Request PROVE Previous(s)' = Previous(s)
    BY <1>1, <1>3, <1>4 DEF Previous, Jobs
  <1>9. Shape'
    BY <1>1, <1>3, <1>4 DEF AdmissionInv, Shape
  <1>10. Locks'
    BY <1>1 DEF AdmissionInv, Locks, OwnerLocked, Admitting
  <1>11. CapsHold'
    BY <1>6, <1>7, Limits DEF AdmissionInv, CapsHold
  <1>12. Decided'
    BY <1>1, <1>6, <1>7, <1>8, Limits DEF AdmissionInv, Decided, OwnerLocked
  <1>13. Answered'
    BY <1>1, <1>3, <1>4, <1>8 DEF AdmissionInv, Answered, Jobs
  <1> QED BY <1>9, <1>10, <1>11, <1>12, <1>13 DEF AdmissionInv

LEMMA OtherStep ==
    ASSUME AdmissionInv, DeleteExpired \/ Tick \/ UNCHANGED vars
    PROVE  AdmissionInv'
  <1>1. UNCHANGED <<job, req, owner, admitter>>
    BY DEF DeleteExpired, Tick, vars
  <1>2. /\ Jobs' = Jobs /\ ActiveJobs' = ActiveJobs
        /\ \A u : ActiveOf(u)' = ActiveOf(u)
    BY <1>1, JobsKept
  <1>3. \A r \in Request : Previous(r)' = Previous(r)
    BY <1>1, <1>2 DEF Previous
  <1>4. now' \in Nat
    BY DEF AdmissionInv, Shape, DeleteExpired, Tick, vars
  <1>5. Shape' /\ Locks'
    BY <1>1, <1>2, <1>4 DEF AdmissionInv, Shape, Locks, OwnerLocked, Admitting
  <1>6. Decided' /\ Answered' /\ CapsHold'
    BY <1>1, <1>2, <1>3 DEF AdmissionInv, Decided, Answered, CapsHold, OwnerLocked
  <1> QED BY <1>5, <1>6 DEF AdmissionInv

-----------------------------------------------------------------------------
(* Theorems *)

LEMMA AdmissionStep == AdmissionInv /\ [Next]_vars => AdmissionInv'
  <1> SUFFICES ASSUME AdmissionInv, [Next]_vars PROVE AdmissionInv'
    OBVIOUS
  <1>1. ASSUME NEW r \in Request, Arrive(r) PROVE AdmissionInv'
    BY <1>1, ArriveStep
  <1>2. ASSUME NEW r \in Request, create(r) PROVE AdmissionInv'
    BY <1>2, LockStep, LookStep, CountStep, QuotaStep, InsertStep DEF create
  <1>3. ASSUME NEW r \in Request, Abort(r) PROVE AdmissionInv'
    BY <1>3, RefuseStep DEF Abort, Step
  <1>4. ASSUME NEW r \in Request, End(r) PROVE AdmissionInv'
    BY <1>4, EndStep
  <1>5. CASE DeleteExpired \/ Tick \/ UNCHANGED vars
    BY <1>5, OtherStep
  <1> QED BY <1>1, <1>2, <1>3, <1>4, <1>5 DEF Next

LEMMA AlwaysAdmitted == Spec => []AdmissionInv
  BY InitiallyAdmitted, AdmissionStep, PTL DEF Spec

\* Executions.create counts the owner's active executions under the lock on their row,
\* and reserve counts all of them under the advisory lock; each count is acted on in a
\* later statement, and neither cap is ever passed.
THEOREM CapsTheorem == Spec => []CapsHold
  <1>1. AdmissionInv => CapsHold
    BY DEF AdmissionInv
  <1> QED BY AlwaysAdmitted, <1>1, PTL

\* The lookup of the idempotency key in Executions.create and its insert are statements
\* apart; under the owner's lock a key still names one execution, of one payload.
THEOREM IdempotentTheorem == Spec => []Idempotent
  <1>1. AdmissionInv => Idempotent
    BY DEF AdmissionInv, Idempotent, Answered, Decided, OwnerLocked
  <1> QED BY AlwaysAdmitted, <1>1, PTL

\* However many requests wait for their owner's row or for the advisory lock, one of
\* the open transactions is not waiting: who holds the advisory lock waits for nobody.
THEOREM NoDeadlockTheorem == Spec => []NoDeadlock
  <1>1. AdmissionInv => NoDeadlock
    <2> SUFFICES ASSUME AdmissionInv, NEW r \in Request, req[r].pc \in Step \ {"idle"}
                 PROVE  \E s \in Request : req[s].pc \in Step \ {"idle"} /\ ~Blocked(s)
      BY DEF NoDeadlock
    <2>1. \A s \in Request : Admitting(s) => req[s].pc \in Step \ {"idle"} /\ ~Blocked(s)
      BY DEF Admitting, Blocked, Step
    <2>2. admitter # None => \E s \in Request : Admitting(s)
      BY DEF AdmissionInv, Locks
    <2>3. ASSUME NEW s \in Request, OwnerLocked(s), Blocked(s)
          PROVE  \E a \in Request : Admitting(a)
      BY <2>2, <2>3 DEF OwnerLocked, Blocked
    <2>4. req[r].pc = "lock" /\ Blocked(r) => \E s \in Request : OwnerLocked(s)
      BY DEF AdmissionInv, Shape, Locks, Blocked
    <2>5. \A s \in Request : OwnerLocked(s) => req[s].pc \in Step \ {"idle"}
      BY DEF OwnerLocked, Step
    <2>6. req[r].pc = "lock" \/ OwnerLocked(r)
      BY DEF OwnerLocked, Step
    <2> QED BY <2>1, <2>3, <2>4, <2>5, <2>6
  <1> QED BY AlwaysAdmitted, <1>1, PTL

-----------------------------------------------------------------------------
(* The quotas *)

\* The rows that a reservation counts in, in the first n of its scopes.
RateKeys(q, n) == {<<q.window, scopes(q)[i]>> : i \in 1..n}

\* A clock of some replica has not passed the minute of the row.
Live(k) == k[1] + 1 > now + Skew

\* What the open transaction of r has written: a row for each scope it has counted in,
\* one above what is committed, which nobody changes under the advisory lock.
Written(r) ==
    IF req[r].pc \in {"quota", "insert"}
    THEN /\ \E n \in 0..3 : /\ DOMAIN req[r].written = RateKeys(req[r], n)
                            /\ n = 3 <=> req[r].pc = "insert"
         /\ \A k \in DOMAIN req[r].written : Live(k) =>
                /\ req[r].written[k] = Cardinality(Counted(k)) + 1
                /\ req[r].written[k] <= limit(k[2])
    ELSE req[r].written = NoCounts

QuotaInv == QuotaExact /\ \A r \in Request : Written(r)

LEMMA ScopesOf ==
    ASSUME NEW q
    PROVE  /\ DOMAIN scopes(q) = 1..3 /\ Len(scopes(q)) = 3
           /\ scopes(q)[1] = [kind |-> "global", of |-> None]
           /\ scopes(q)[2] = [kind |-> "ip", of |-> q.ip]
           /\ scopes(q)[3] = [kind |-> "user", of |-> q.user]
  BY DEF scopes

\* The three scopes are of different kinds, so the rows are as many as the scopes.
LEMMA OneRowEach ==
    ASSUME NEW q, NEW n \in 0..2
    PROVE  /\ RateKeys(q, n + 1) = RateKeys(q, n) \cup {<<q.window, scopes(q)[n + 1]>>}
           /\ <<q.window, scopes(q)[n + 1]>> \notin RateKeys(q, n)
           /\ IsFiniteSet(RateKeys(q, n)) /\ Cardinality(RateKeys(q, n)) = n
  <1> DEFINE key(i) == <<q.window, scopes(q)[i]>>
  <1>1. \A i, j \in 1..3 : scopes(q)[i] = scopes(q)[j] => i = j
    <2>1. /\ scopes(q)[1].kind = "global" /\ scopes(q)[2].kind = "ip"
          /\ scopes(q)[3].kind = "user"
      BY DEF scopes
    <2>2. \A i \in 1..3 : i = 1 \/ i = 2 \/ i = 3
      OBVIOUS
    <2> QED BY <2>1, <2>2
  <1>2. \A i, j \in 1..3 : key(i) = key(j) => i = j
    BY <1>1
  <1>3. \A m \in 0..3 : RateKeys(q, m) = {key(i) : i \in 1..m}
    BY DEF RateKeys
  <1> HIDE DEF key
  <1>4. \A m \in 0..2 : RateKeys(q, m + 1) = RateKeys(q, m) \cup {key(m + 1)}
    BY <1>3
  <1>5. \A m \in 0..2 : key(m + 1) \notin RateKeys(q, m)
    BY <1>2, <1>3
  <1>6. RateKeys(q, 0) = {}
    BY <1>3
  <1>7. IsFiniteSet(RateKeys(q, 0)) /\ Cardinality(RateKeys(q, 0)) = 0
    BY <1>6, FS_EmptySet
  <1>8. IsFiniteSet(RateKeys(q, 1)) /\ Cardinality(RateKeys(q, 1)) = 1
    <2>1. RateKeys(q, 1) = RateKeys(q, 0) \cup {key(1)} /\ key(1) \notin RateKeys(q, 0)
      BY <1>4, <1>5
    <2> QED BY <1>7, <2>1, FS_AddElement
  <1>9. IsFiniteSet(RateKeys(q, 2)) /\ Cardinality(RateKeys(q, 2)) = 2
    <2>1. RateKeys(q, 2) = RateKeys(q, 1) \cup {key(2)} /\ key(2) \notin RateKeys(q, 1)
      BY <1>4, <1>5
    <2> QED BY <1>8, <2>1, FS_AddElement
  <1>10. n = 0 \/ n = 1 \/ n = 2
    OBVIOUS
  <1> QED BY <1>4, <1>5, <1>7, <1>8, <1>9, <1>10 DEF key

LEMMA CountedIn ==
    ASSUME NEW k \in RateKey, NEW q
    PROVE  (q.window = k[1] /\ \E i \in DOMAIN scopes(q) : scopes(q)[i] = k[2])
           <=> k \in RateKeys(q, 3)
  <1>1. k = <<k[1], k[2]>>
    BY DEF RateKey
  <1>2. DOMAIN scopes(q) = 1..3
    BY ScopesOf
  <1> QED BY <1>1, <1>2 DEF RateKeys

\* The rows of a transaction or of an execution are rows of the table.
LEMMA RowsOfTable ==
    ASSUME NEW q, q.window \in 0..MaxTime + Skew, q.ip \in Ip, q.user \in User
    PROVE  RateKeys(q, 3) \subseteq RateKey
  <1>1. scopes(q)[1] \in Scope /\ scopes(q)[2] \in Scope /\ scopes(q)[3] \in Scope
    BY DEF Scope, scopes
  <1>2. \A i \in 1..3 : i = 1 \/ i = 2 \/ i = 3
    OBVIOUS
  <1> QED BY <1>1, <1>2 DEF RateKeys, RateKey

LEMMA CountedFinite ==
    ASSUME AdmissionInv, NEW k
    PROVE  IsFiniteSet(Counted(k)) /\ Cardinality(Counted(k)) \in Nat
  <1>1. Counted(k) \subseteq Jobs
    BY DEF Counted
  <1> QED BY <1>1, FiniteJobs, FS_Subset, FS_CardinalityType

LEMMA QuotaInit == Init => QuotaInv
  <1> SUFFICES ASSUME Init PROVE QuotaInv
    OBVIOUS
  <1>1. Jobs = {} /\ counter = NoCounts
    BY DEF Init, Jobs
  <1>2. \A k : Counted(k) = {} /\ Cardinality(Counted(k)) = 0
    <2>1. \A k : Counted(k) = {}
      BY <1>1 DEF Counted
    <2> QED BY <2>1, FS_EmptySet
  <1>3. \A k : k \notin DOMAIN counter
    BY <1>1 DEF NoCounts
  <1>4. \A s \in Scope : limit(s) \in Nat
    BY AdmissionAssumption DEF limit
  <1>5. QuotaExact
    BY <1>2, <1>3, <1>4 DEF QuotaExact, RateKey
  <1>6. \A r \in Request : Written(r)
    BY DEF Init, Idle, Written
  <1> QED BY <1>5, <1>6 DEF QuotaInv

\* A step that commits nothing leaves the counters exact; it is for the transaction
\* that moves to have written what it should.
LEMMA QuietStep ==
    ASSUME QuotaInv, NEW r \in Request, Only(r), UNCHANGED counter, Written(r)'
    PROVE  QuotaInv'
  <1>1. \A k : Counted(k)' = Counted(k) /\ Live(k)' = Live(k)
    BY DEF Only, Counted, Jobs, Live
  <1>2. QuotaExact'
    BY <1>1 DEF QuotaInv, QuotaExact, Only
  <1>3. ASSUME NEW s \in Request, s # r PROVE Written(s)'
    <2>1. req'[s] = req[s] /\ Written(s)
      BY <1>3 DEF Only, QuotaInv
    <2> QED BY <1>1, <2>1 DEF Written
  <1> QED BY <1>2, <1>3 DEF QuotaInv

\* Before the first scope and after the end a transaction has written nothing.
LEMMA BareStep ==
    ASSUME QuotaInv, NEW r \in Request, Only(r), UNCHANGED counter,
           req'[r].written = NoCounts, req'[r].pc \notin {"quota", "insert"}
    PROVE  QuotaInv'
  BY QuietStep DEF Written

LEMMA RefuseQuota ==
    ASSUME AdmissionInv, QuotaInv, NEW r \in Request, NEW answer, answer \notin Step, NEW id,
           Finish(r, answer, id), UNCHANGED <<now, job, counter>>
    PROVE  QuotaInv'
  <1>1. Only(r) /\ req'[r].pc = answer /\ req'[r].written = NoCounts
    BY DEF Only, Finish, AdmissionInv, Shape, Fields
  <1> QED BY <1>1, BareStep DEF Step

LEMMA GotoQuota ==
    ASSUME AdmissionInv, QuotaInv, NEW r \in Request, NEW pc \in {"look", "reserve", "count"},
           req[r].pc \notin {"quota", "insert"}, Goto(r, pc), UNCHANGED <<now, job, counter>>
    PROVE  QuotaInv'
  <1>1. Only(r) /\ req'[r].pc = pc /\ req'[r].written = req[r].written
    BY DEF Only, Goto, AdmissionInv, Shape, Fields
  <1>2. req[r].written = NoCounts
    BY DEF QuotaInv, Written
  <1> QED BY <1>1, <1>2, BareStep

LEMMA EarlyQuota ==
    ASSUME AdmissionInv, QuotaInv, NEW r \in Request,
           Arrive(r) \/ LockOwner(r) \/ Look(r) \/ LockAdmission(r)
    PROVE  QuotaInv'
  <1>1. CASE Arrive(r)
    <2>1. PICK u \in User, k \in Key, h \in Hash, i \in Ip :
            req' = [req EXCEPT ![r] = [req[r] EXCEPT !.pc = "lock", !.user = u, !.key = k,
                                                     !.hash = h, !.ip = i]]
      BY <1>1 DEF Arrive
    <2>2. Only(r) /\ req'[r].pc = "lock" /\ req'[r].written = req[r].written
      BY <1>1, <2>1 DEF Only, Arrive, AdmissionInv, Shape, Fields
    <2>3. req[r].written = NoCounts
      BY <1>1 DEF QuotaInv, Written, Arrive
    <2> QED BY <1>1, <2>2, <2>3, BareStep DEF Arrive
  <1>2. CASE LockOwner(r)
    BY <1>2, GotoQuota DEF LockOwner
  <1>3. CASE LockAdmission(r)
    BY <1>3, GotoQuota DEF LockAdmission
  <1>4. CASE Look(r)
    <2>1. req[r].pc = "look"
      BY <1>4 DEF Look
    <2>2. ASSUME NEW answer \in {"replayed", "IDEMPOTENCY_CONFLICT", "ACTIVE_JOB_LIMIT", "NOT_OPEN"},
                 NEW id, Finish(r, answer, id), UNCHANGED <<now, job, counter>>
          PROVE  QuotaInv'
      BY <2>2, RefuseQuota DEF Step
    <2>3. CASE Goto(r, "reserve") /\ UNCHANGED <<now, job, counter, owner, admitter>>
      BY <2>1, <2>3, GotoQuota
    <2> QED BY <1>4, <2>2, <2>3 DEF Look, Refuse
  <1> QED BY <1>1, <1>2, <1>3, <1>4

\* What a row holds while its minute lasts.
LEMMA UpsertedExact ==
    ASSUME QuotaInv, NEW r, NEW k \in RateKey, Live(k)
    PROVE  Upserted(r, k) = Cardinality(Counted(k)) + 1
  <1>1. Cardinality(Counted(k)) = IF k \in DOMAIN counter THEN counter[k] ELSE 0
    BY DEF QuotaInv, QuotaExact, Live
  <1> QED BY <1>1 DEF Upserted

LEMMA CountQuota ==
    ASSUME AdmissionInv, QuotaInv, NEW r \in Request, CountActive(r)
    PROVE  QuotaInv'
  <1>1. CASE Refuse(r, "EXECUTION_CAPACITY")
    BY <1>1, RefuseQuota DEF Refuse, Step
  <1>2. ASSUME NEW t \in Clock,
               req' = [req EXCEPT ![r] = [req[r] EXCEPT !.pc = "quota", !.window = t]],
               UNCHANGED <<now, job, counter, owner, admitter>>
        PROVE  QuotaInv'
    <2>1. Only(r) /\ req'[r].pc = "quota" /\ req'[r].written = req[r].written
      BY <1>2, SMTT(30) DEF AdmissionInv, Shape, Fields, Only
    <2>2. req[r].written = NoCounts
      BY DEF QuotaInv, Written, CountActive
    <2>3. DOMAIN NoCounts = {} /\ RateKeys(req'[r], 0) = {}
      BY DEF NoCounts, RateKeys
    <2>4. Written(r)'
      BY <2>1, <2>2, <2>3 DEF Written
    <2> QED BY <1>2, <2>1, <2>4, QuietStep
  <1> QED BY <1>1, <1>2 DEF CountActive

\* The row of the next scope is not yet among those written, and what is written for it
\* is within its limit.
LEMMA QuotaQuota ==
    ASSUME AdmissionInv, QuotaInv, NEW r \in Request, Quota(r)
    PROVE  QuotaInv'
  <1>1. req[r].pc = "quota"
    BY DEF Quota
  <1>2. CASE Refuse(r, "EXECUTION_RATE_LIMIT")
    BY <1>2, RefuseQuota DEF Refuse, Step
  <1>3. PICK n \in 0..2 : DOMAIN req[r].written = RateKeys(req[r], n)
    BY <1>1 DEF QuotaInv, Written
  <1>4. Cardinality(DOMAIN req[r].written) = n
    BY <1>3, OneRowEach
  <1>5. PICK k : k = <<req[r].window, scopes(req[r])[n + 1]>>
    OBVIOUS
  <1>6. k[2] = scopes(req[r])[n + 1]
    BY <1>5
  <1>7. CASE ~Refuse(r, "EXECUTION_RATE_LIMIT")
    <2>1. PICK w, pc : /\ w = Upsert([x \in {k} |-> Upserted(r, k)], req[r].written)
                       /\ pc = IF n + 1 = Len(scopes(req[r])) THEN "insert" ELSE "quota"
      OBVIOUS
    <2>2. /\ Upserted(r, k) <= limit(k[2])
          /\ req' = [req EXCEPT ![r] = [req[r] EXCEPT !.pc = pc, !.written = w]]
          /\ UNCHANGED <<now, job, counter>>
      BY <1>4, <1>5, <1>6, <1>7, <2>1, Zenon DEF Quota
    <2>3. /\ DOMAIN w = RateKeys(req[r], n) \cup {k} /\ w[k] = Upserted(r, k)
          /\ \A x \in DOMAIN req[r].written : x # k => w[x] = req[r].written[x]
      BY <1>3, <2>1 DEF Upsert
    <2>4. pc \in {"quota", "insert"} /\ (pc = "insert" <=> n + 1 = 3)
      BY <2>1, ScopesOf
    <2>6. /\ Only(r) /\ req'[r].pc = pc /\ req'[r].written = w /\ req'[r].window = req[r].window
          /\ req'[r].ip = req[r].ip /\ req'[r].user = req[r].user
      BY <2>2 DEF AdmissionInv, Shape, Fields, Only
    <2>7. RateKeys(req'[r], n + 1) = RateKeys(req[r], n + 1)
      BY <2>6 DEF RateKeys, scopes
    <2>8. /\ RateKeys(req[r], n + 1) = RateKeys(req[r], n) \cup {k}
          /\ k \notin RateKeys(req[r], n)
      BY <1>5, OneRowEach
    <2>9. k \in RateKey
      <3>1. req[r].window \in 0..MaxTime + Skew /\ req[r].ip \in Ip /\ req[r].user \in User
        BY <1>1 DEF AdmissionInv, Shape
      <3>2. RateKeys(req[r], 3) \subseteq RateKey
        BY <3>1, RowsOfTable
      <3> QED BY <1>5, <3>2 DEF RateKeys
    <2>10. \A x : Counted(x)' = Counted(x) /\ Live(x)' = Live(x)
      BY <2>2 DEF Counted, Jobs, Live
    <2>11. \A x \in DOMAIN w : Live(x) =>
            w[x] = Cardinality(Counted(x)) + 1 /\ w[x] <= limit(x[2])
      <3>1. \A x \in DOMAIN req[r].written : Live(x) =>
              /\ req[r].written[x] = Cardinality(Counted(x)) + 1
              /\ req[r].written[x] <= limit(x[2])
        BY <1>1 DEF QuotaInv, Written
      <3>2. Live(k) => Upserted(r, k) = Cardinality(Counted(k)) + 1
        BY <2>9, UpsertedExact
      <3> QED BY <1>3, <2>2, <2>3, <3>1, <3>2
    <2>12. Written(r)'
      <3>1. DOMAIN w = RateKeys(req'[r], n + 1)
        BY <2>3, <2>7, <2>8, Zenon
      <3>2. n + 1 \in 0..3 /\ (n + 1 = 3 <=> pc = "insert")
        BY <2>4
      <3> QED BY <3>2, <2>4, <2>6, <2>10, <2>11, <3>1 DEF Written
    <2> QED BY <2>2, <2>6, <2>12, QuietStep
  <1> QED BY <1>2, <1>7

\* The insert commits the execution together with the counts that include it.
LEMMA InsertQuota ==
    ASSUME AdmissionInv, QuotaInv, NEW r \in Request, Insert(r)
    PROVE  QuotaInv'
  <1>1. req[r].pc = "insert" /\ r \notin Jobs
    BY Underway DEF Insert, Step
  <1>2. CASE Refuse(r, "error")
    BY <1>2, RefuseQuota DEF Refuse, Step
  <1>3. CASE ~Refuse(r, "error")
    <2>1. PICK row : row = [user |-> req[r].user, key |-> req[r].key, hash |-> req[r].hash,
                            ip |-> req[r].ip, window |-> req[r].window, active |-> TRUE]
      OBVIOUS
    <2>2. /\ job' = [job EXCEPT ![r] = row] /\ counter' = Upsert(req[r].written, counter)
          /\ Finish(r, "created", r) /\ UNCHANGED now
      BY <1>3, <2>1, Zenon DEF Insert
    <2>3. row \in Job /\ row # None
      <3>1. /\ req[r].user \in User /\ req[r].key \in Key /\ req[r].hash \in Hash
            /\ req[r].ip \in Ip /\ req[r].window \in 0..MaxTime + Skew
        BY <1>1 DEF AdmissionInv, Shape
      <3>2. row \in Job
        BY <2>1, <3>1 DEF Job
      <3> QED BY <3>2, AdmissionAssumption
    <2>4. job'[r] = row /\ \A s \in Request \ {r} : job'[s] = job[s]
      BY <2>2 DEF AdmissionInv, Shape
    <2>5. Jobs' = Jobs \cup {r}
      BY <2>3, <2>4 DEF Jobs
    <2>6. RateKeys(row, 3) = RateKeys(req[r], 3)
      BY <2>1 DEF RateKeys, scopes
    <2>7. DOMAIN req[r].written = RateKeys(req[r], 3)
      BY <1>1 DEF QuotaInv, Written
    <2>8. ASSUME NEW k \in RateKey
          PROVE  Counted(k)' = IF k \in DOMAIN req[r].written THEN Counted(k) \cup {r}
                               ELSE Counted(k)
      <3>1. Counted(k) = {s \in Jobs : k \in RateKeys(job[s], 3)}
        BY CountedIn DEF Counted
      <3>2. Counted(k)' = {s \in Jobs' : k \in RateKeys(job'[s], 3)}
        BY CountedIn DEF Counted
      <3>3. Jobs \subseteq Request
        BY DEF Jobs
      <3> QED BY <1>1, <2>4, <2>5, <2>6, <2>7, <3>1, <3>2, <3>3
    <2>9. /\ DOMAIN counter' = DOMAIN req[r].written \cup DOMAIN counter
          /\ \A k \in DOMAIN counter' : counter'[k] =
               IF k \in DOMAIN req[r].written THEN req[r].written[k] ELSE counter[k]
      BY <2>2 DEF Upsert
    <2>10. QuotaExact'
      <3> SUFFICES ASSUME NEW k \in RateKey, Live(k)
                   PROVE  /\ Cardinality(Counted(k)') <= limit(k[2])
                          /\ Cardinality(Counted(k)') = IF k \in DOMAIN counter' THEN counter'[k] ELSE 0
        BY <2>2 DEF QuotaExact, Live
      <3>1. /\ Cardinality(Counted(k)) <= limit(k[2])
            /\ Cardinality(Counted(k)) = IF k \in DOMAIN counter THEN counter[k] ELSE 0
        BY DEF QuotaInv, QuotaExact, Live
      <3>2. CASE k \in DOMAIN req[r].written
        <4>1. /\ req[r].written[k] = Cardinality(Counted(k)) + 1
              /\ req[r].written[k] <= limit(k[2])
          BY <1>1, <3>2 DEF QuotaInv, Written
        <4>2. Counted(k)' = Counted(k) \cup {r} /\ r \notin Counted(k)
          BY <1>1, <2>8, <3>2 DEF Counted
        <4>3. Cardinality(Counted(k) \cup {r}) = Cardinality(Counted(k)) + 1
          BY <4>2, CountedFinite, FS_AddElement
        <4> QED BY <2>9, <3>2, <4>1, <4>2, <4>3
      <3>3. CASE k \notin DOMAIN req[r].written
        <4>1. Counted(k)' = Counted(k)
          BY <2>8, <3>3
        <4> QED BY <2>9, <3>1, <3>3, <4>1
      <3> QED BY <3>2, <3>3
    <2>11. /\ req'[r].pc = "created" /\ req'[r].written = NoCounts
           /\ \A s \in Request \ {r} : req'[s] = req[s]
      BY <2>2 DEF Finish, AdmissionInv, Shape, Fields
    <2>12. ASSUME NEW s \in Request PROVE Written(s)'
      <3>1. CASE s = r
        BY <2>11, <3>1 DEF Written
      <3>2. CASE s # r
        <4>1. ~Admitting(s)
          BY <1>1, <3>2 DEF AdmissionInv, Locks, Admitting
        <4>2. req[s].pc \notin {"quota", "insert"} /\ req[s].written = NoCounts
          BY <4>1 DEF Admitting, QuotaInv, Written
        <4> QED BY <2>11, <3>2, <4>2 DEF Written
      <3> QED BY <3>1, <3>2
    <2> QED BY <2>10, <2>12 DEF QuotaInv
  <1> QED BY <1>2, <1>3

\* The other steps: an execution ends, which no quota gives back; a clock advances; and
\* rows are deleted only when no clock can still be in their minute.
LEMMA RestQuota ==
    ASSUME AdmissionInv, QuotaInv,
           (\E r \in Request : End(r)) \/ DeleteExpired \/ Tick \/ UNCHANGED vars
    PROVE  QuotaInv'
  <1>1. UNCHANGED req
    BY DEF End, DeleteExpired, Tick, vars
  <1>2. \A k : Counted(k)' = Counted(k)
    <2>1. ASSUME NEW r \in Request, End(r) PROVE \A k : Counted(k)' = Counted(k)
      <3>1. r \in Jobs /\ job' = [job EXCEPT ![r].active = FALSE]
        BY <2>1 DEF End, ActiveJobs
      <3>2. job[r] \in Job
        BY <3>1 DEF AdmissionInv, Shape, Jobs
      <3>3. /\ job' \in [Request -> Job \cup {None}] /\ job'[r] \in Job
            /\ job'[r].user = job[r].user /\ job'[r].ip = job[r].ip
            /\ job'[r].window = job[r].window /\ \A s \in Request \ {r} : job'[s] = job[s]
        BY <3>1, <3>2 DEF AdmissionInv, Shape, Job
      <3>4. Jobs' = Jobs
        BY <3>1, <3>3, AdmissionAssumption DEF Jobs
      <3>5. \A s \in Jobs : scopes(job'[s]) = scopes(job[s]) /\ job'[s].window = job[s].window
        BY <3>3 DEF scopes, Jobs
      <3> QED BY <3>4, <3>5 DEF Counted
    <2>2. CASE DeleteExpired \/ Tick \/ UNCHANGED vars
      BY <2>2 DEF DeleteExpired, Tick, vars, Counted, Jobs
    <2> QED BY <2>1, <2>2
  <1>3. \A k \in RateKey : Live(k)' => Live(k)
    <2>1. now \in Nat /\ Skew \in Nat /\ (now' = now \/ now' = now + 1)
      BY AdmissionAssumption DEF AdmissionInv, Shape, End, DeleteExpired, Tick, vars
    <2> QED BY <2>1, AdmissionAssumption DEF Live, RateKey
  <1>4. \A k \in RateKey : Live(k)' =>
          /\ k \in DOMAIN counter' <=> k \in DOMAIN counter
          /\ k \in DOMAIN counter => counter'[k] = counter[k]
    <2>1. CASE DeleteExpired
      <3>1. PICK t \in Clock :
              counter' = Restrict(counter, DOMAIN counter \ {k \in DOMAIN counter : k[1] + 1 <= t})
        BY <2>1 DEF DeleteExpired
      <3>2. t \in Int /\ t <= now + Skew /\ now' = now
        BY <2>1, AdmissionAssumption DEF Clock, DeleteExpired
      <3>3. \A k \in RateKey : Live(k) => ~(k[1] + 1 <= t)
        BY <3>2, AdmissionAssumption DEF Live, RateKey, AdmissionInv, Shape
      <3> QED BY <1>3, <3>1, <3>3 DEF Restrict
    <2>2. CASE ~DeleteExpired
      BY <2>2 DEF End, Tick, vars
    <2> QED BY <2>1, <2>2
  <1>5. QuotaExact'
    BY <1>2, <1>3, <1>4 DEF QuotaInv, QuotaExact, Live
  <1>6. ASSUME NEW s \in Request PROVE Written(s)'
    <2>1. Written(s)
      BY DEF QuotaInv
    <2>2. CASE req[s].pc \in {"quota", "insert"}
      <3>1. PICK n \in 0..3 : /\ DOMAIN req[s].written = RateKeys(req[s], n)
                              /\ n = 3 <=> req[s].pc = "insert"
        BY <2>1, <2>2 DEF Written
      <3>2. RateKeys(req[s], n) \subseteq RateKey
        <4>1. req[s].window \in 0..MaxTime + Skew /\ req[s].ip \in Ip /\ req[s].user \in User
          BY <2>2 DEF AdmissionInv, Shape
        <4>2. RateKeys(req[s], n) \subseteq RateKeys(req[s], 3)
          BY DEF RateKeys
        <4> QED BY <4>1, <4>2, RowsOfTable
      <3>3. \A k \in DOMAIN req[s].written : Live(k)' =>
              /\ req[s].written[k] = Cardinality(Counted(k)) + 1
              /\ req[s].written[k] <= limit(k[2])
        BY <1>3, <2>1, <2>2, <3>1, <3>2 DEF Written
      <3> QED BY <1>1, <1>2, <2>2, <3>1, <3>3 DEF Written
    <2>3. CASE req[s].pc \notin {"quota", "insert"}
      BY <1>1, <2>1, <2>3 DEF Written
    <2> QED BY <2>2, <2>3
  <1> QED BY <1>5, <1>6 DEF QuotaInv

LEMMA QuotaStepInv == AdmissionInv /\ QuotaInv /\ [Next]_vars => QuotaInv'
  <1> SUFFICES ASSUME AdmissionInv, QuotaInv, [Next]_vars PROVE QuotaInv'
    OBVIOUS
  <1>1. ASSUME NEW r \in Request, Arrive(r) \/ create(r) PROVE QuotaInv'
    BY <1>1, EarlyQuota, CountQuota, QuotaQuota, InsertQuota DEF create
  <1>2. ASSUME NEW r \in Request, Abort(r) PROVE QuotaInv'
    BY <1>2, RefuseQuota DEF Abort, Refuse, Step
  <1> QED BY <1>1, <1>2, RestQuota DEF Next

\* reserve counts an execution in three counters before the insert that creates it, and
\* QueuedMaintenance deletes counters by the clock of any replica; in every minute that a
\* clock can still be in, each counter is the number of executions created in its scope,
\* and within its limit.
THEOREM QuotaTheorem == Spec => []QuotaExact
  <1>1. QuotaInv => QuotaExact
    BY DEF QuotaInv
  <1> QED BY AlwaysAdmitted, QuotaInit, QuotaStepInv, <1>1, PTL DEF Spec
============================================================================
