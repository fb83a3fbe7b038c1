------------------------------ MODULE JobStore ------------------------------
(***************************************************************************)
(* The durable job store of ArenaCore                                      *)
(* (apps/api/src/executions/job-store.ts, queued-maintenance.ts and the    *)
(* insert of executions.ts): the Execution row with its lease, the public  *)
(* event rows, the outbox intents and the result notification.             *)
(*                                                                         *)
(* Every operation is one PostgreSQL transaction that locks the Execution  *)
(* row and reads the database clock with it, so each is one action, taken  *)
(* at the instant `now` its row was read.  A lease, once returned by       *)
(* claim, stays in `leases`: whoever received it may present it at any     *)
(* later time, so a worker that was paused, partitioned or replaced is     *)
(* simply a caller that uses an old element of the set.                    *)
(***************************************************************************)
EXTENDS Integers, FiniteSets

CONSTANTS
    Exec,            \* execution ids
    Token,           \* lease tokens (UUIDs)
    DispatchToken,   \* dispatch claim tokens (UUIDs)
    None,            \* SQL NULL
    Judgement,       \* the verdicts a judge may return
    LeaseMs,         \* LEASE_MS
    CancelGraceMs,   \* CANCEL_GRACE_MS
    MaxAttempts,     \* MAX_ATTEMPTS
    QueueTtl,        \* QUEUE_TTL_SECONDS
    JobWindow,       \* the ten minutes deadline() adds to queueExpiresAt
    ReofferMs,       \* age at which a published intent is offered again
    DispatchMs,      \* length of a dispatch claim
    Backoff,         \* the delays a failed dispatch may wait
    ReplayRows,      \* REPLAY_ROWS
    ReplayBytes,     \* REPLAY_BYTES
    EventBytes,      \* the sizes a public event may have
    ActiveAllowed,   \* PIPELINE_ENABLED, as cancel receives it
    Skew,            \* how far an API clock is from the database clock
    LastArrival,     \* bound: last instant at which an execution is accepted
    MaxTime,         \* bound: last instant of the database clock
    MaxConsole       \* bound: last sequence number a console event may take

ASSUME ConstantsAssumption ==
    /\ None \notin Nat /\ None \notin Token /\ None \notin DispatchToken
    /\ LeaseMs \in Nat \ {0} /\ CancelGraceMs \in Nat /\ MaxAttempts \in Nat \ {0}
    /\ QueueTtl \in Nat /\ JobWindow \in Nat \ {0} /\ ReofferMs \in Nat
    /\ DispatchMs \in Nat /\ Backoff \subseteq Nat
    /\ ReplayRows \in Nat \ {0} /\ ReplayBytes \in Nat
    /\ EventBytes \subseteq 0..ReplayBytes
    /\ ActiveAllowed \in BOOLEAN
    /\ Skew \in Nat /\ LastArrival \in Nat /\ MaxTime \in Nat /\ MaxConsole \in Nat

ASSUME JudgementAssumption ==
    Judgement \cap {"CANCELLED", "INTERNAL_ERROR"} = {}

VARIABLES
    now,           \* clock_timestamp() of the database
    row,           \* the Execution table
    events,        \* the ExecutionEvent rows of each execution
    outbox,        \* the OutboxEvent table, by its unique key
    leases,        \* every lease claim has returned
    notification   \* the EXECUTION_RESULT notification of each execution

vars == <<now, row, events, outbox, leases, notification>>

-----------------------------------------------------------------------------
(* Values *)

ActiveStates == {"COMPILING", "RUNNING"}
TerminalStates == {"FINISHED", "CANCELLED", "INTERNAL_ERROR"}
Unfinished == {"QUEUED"} \cup ActiveStates
\* "ABSENT": no row has this id yet.
State == {"ABSENT"} \cup Unfinished \cup TerminalStates
Mode == {"RUN", "SUBMIT"}
FailureCode == {"QUEUE_TIMEOUT", "CANCELLATION_TIMEOUT", "LEASE_EXPIRED",
                "JOB_TIMEOUT", "JOB_FAILURE"}
Verdict == Judgement \cup {"CANCELLED", "INTERNAL_ERROR"}
ASSUME NullAssumption == None \notin FailureCode /\ None \notin Verdict

EventKind == {"execution_status", "console_output", "final_verdict"}
Instant == Nat \cup {None}

Row == [state: State, mode: Mode, verdict: Verdict \cup {None},
        failureCode: FailureCode \cup {None}, attempt: Nat, lastSequence: Nat,
        leaseToken: Token \cup {None}, leaseExpiresAt: Instant,
        cancellationRequestedAt: Instant, queueExpiresAt: Nat]

Event == [attempt: Nat, sequence: Nat, kind: EventKind, bytes: EventBytes]

Lease == [executionId: Exec, attempt: Nat, token: Token]

\* The keys the unique index (executionId, kind, generation) can hold: only a
\* recovery intent has a generation other than 0, the attempt it replaces.
IntentKey ==
    [executionId: Exec, generation: {0},
     kind: {"EXECUTION_CREATED", "EXECUTION_CANCELLED", "EXECUTION_EXPIRED"}]
    \cup [executionId: Exec, generation: 1..MaxAttempts, kind: {"EXECUTION_RECOVERY"}]

Intent == [publishedAt: Instant, dispatchToken: DispatchToken \cup {None},
           dispatchExpiresAt: Instant, nextDispatchAt: Nat]

\* An execution id no row has yet.
NoRow == [state |-> "ABSENT", mode |-> "RUN", verdict |-> None, failureCode |-> None,
          attempt |-> 0, lastSequence |-> 0, leaseToken |-> None,
          leaseExpiresAt |-> None, cancellationRequestedAt |-> None,
          queueExpiresAt |-> 0]

\* The column defaults of a new OutboxEvent row.
NewIntent == [publishedAt |-> None, dispatchToken |-> None,
              dispatchExpiresAt |-> None, nextDispatchAt |-> now]

Key(e, kind, generation) ==
    [executionId |-> e, kind |-> kind, generation |-> generation]

Least(a, b) == IF a <= b THEN a ELSE b

\* What `new Date()` may return in a process whose clock is off by at most Skew.
ApiClock == {t \in (now - Skew)..(now + Skew) : t >= 0}

isTerminal(r) == r.state \in TerminalStates

deadline(r) == r.queueExpiresAt + JobWindow

-----------------------------------------------------------------------------
(* event, notifyExecution and terminal: the parts the operations share *)

\* The stored events of S no older than ev, ev included.
Since(S, ev) ==
    {x \in S : \/ x.attempt > ev.attempt
               \/ x.attempt = ev.attempt /\ x.sequence >= ev.sequence}

\* How many bytes the events of S have together.
Bytes(S) == Cardinality(UNION {{ev} \X (1..ev.bytes) : ev \in S})

\* What event keeps of the rows of one execution, newest first.
Kept(S) ==
    {ev \in S : /\ Cardinality(Since(S, ev)) <= ReplayRows
                /\ Bytes(Since(S, ev)) <= ReplayBytes}

\* The rows after event has appended one of b bytes for the row r.
Logged(S, r, kind, b) ==
    Kept(S \cup {[attempt |-> r.attempt, sequence |-> r.lastSequence + 1,
                  kind |-> kind, bytes |-> b]})

Emit(e, r, kind) ==
    \E b \in EventBytes : events' = [events EXCEPT ![e] = Logged(@, r, kind, b)]

\* The notification n of a row r that ends with verdict v; `wants` is the
\* owner's productNotifications.  ON CONFLICT DO NOTHING keeps an earlier one.
notifyExecution(n, r, v, wants) ==
    IF r.mode = "SUBMIT" /\ v # "CANCELLED" /\ r.leaseToken # None /\ wants /\ n = None
    THEN v ELSE n

Notify(e, v) ==
    \E wants \in BOOLEAN :
        notification' = [notification EXCEPT ![e] = notifyExecution(@, row[e], v, wants)]

\* The row r once it has ended.
Ended(r, state, verdict, code) ==
    [r EXCEPT !.state = state, !.verdict = verdict, !.failureCode = code,
              !.lastSequence = @ + 1, !.leaseToken = None, !.leaseExpiresAt = None]

terminal(e, state, code) ==
    /\ row' = [row EXCEPT ![e] = Ended(@, state, state, code)]
    /\ Emit(e, row[e], "final_verdict")
    /\ Notify(e, state)

\* valid: the lease still carries authority over the row.
valid(r, l) ==
    /\ r.state \in ActiveStates
    /\ r.attempt = l.attempt /\ r.leaseToken = l.token
    /\ r.leaseExpiresAt > now /\ now < deadline(r)

-----------------------------------------------------------------------------
(* Acceptance *)

\* The writes of Executions.create for a fresh id; its admission checks are
\* the subject of module Admission.  The deadline is taken from an API clock.
Create(e) ==
    /\ row[e].state = "ABSENT" /\ now <= LastArrival
    /\ \E m \in Mode, t \in ApiClock :
        row' = [row EXCEPT ![e] = [NoRow EXCEPT !.state = "QUEUED", !.mode = m,
                                                !.lastSequence = 1,
                                                !.queueExpiresAt = t + QueueTtl]]
    /\ Emit(e, row[e], "execution_status")
    /\ outbox' = [outbox EXCEPT ![Key(e, "EXECUTION_CREATED", 0)] = NewIntent]
    /\ UNCHANGED <<now, leases, notification>>

-----------------------------------------------------------------------------
(* claim *)

\* Mutant: an active row is claimed without a look at its lease.
ClaimableLive(r) ==
    \/ r.state = "QUEUED" /\ r.queueExpiresAt > now
    \/ r.state \in ActiveStates

\* The row is still queued, or its last authority has lapsed.
Claimable(r) ==
    \/ r.state = "QUEUED" /\ r.queueExpiresAt > now
    \/ r.state \in ActiveStates /\ r.leaseExpiresAt <= now

\* Mutant: the job deadline is not looked at.
AbandonedNoDeadline(r) ==
    r.cancellationRequestedAt # None \/ r.attempt >= MaxAttempts

\* No further attempt may start on the row.
Abandoned(r) ==
    r.cancellationRequestedAt # None \/ r.attempt >= MaxAttempts \/ now >= deadline(r)

AbandonCode(r) ==
    CASE r.cancellationRequestedAt # None -> "CANCELLATION_TIMEOUT"
      [] r.cancellationRequestedAt = None /\ r.attempt >= MaxAttempts -> "LEASE_EXPIRED"
      [] OTHER -> "JOB_TIMEOUT"

\* Mutant: the lease may outlive the job.
LeaseEndUncapped(r) == now + LeaseMs

LeaseEnd(r) == Least(now + LeaseMs, deadline(r))

ClaimQueueTimeout(e) ==
    /\ row[e].state = "QUEUED" /\ row[e].queueExpiresAt <= now
    /\ terminal(e, "INTERNAL_ERROR", "QUEUE_TIMEOUT")
    /\ UNCHANGED <<now, outbox, leases>>

ClaimAbandoned(e) ==
    /\ Claimable(row[e]) /\ Abandoned(row[e])
    /\ terminal(e, "INTERNAL_ERROR", AbandonCode(row[e]))
    /\ UNCHANGED <<now, outbox, leases>>

\* Mutant: the new lease keeps the old attempt number.
ClaimedAgain(r, token) ==
    [r EXCEPT !.state = "COMPILING", !.attempt = 1, !.lastSequence = 1,
              !.leaseToken = token, !.leaseExpiresAt = LeaseEnd(r)]

\* The row after a claim: a new attempt whose sequence starts again.
Claimed(r, token) ==
    [r EXCEPT !.state = "COMPILING", !.attempt = @ + 1, !.lastSequence = 1,
              !.leaseToken = token, !.leaseExpiresAt = LeaseEnd(r)]

\* Mutant: the events of earlier attempts stay.
ClaimKeepsEvents(e, token) ==
    LET new == Claimed(row[e], token) IN
    /\ Claimable(row[e]) /\ ~Abandoned(row[e])
    /\ \A l \in leases : l.token # token
    /\ row' = [row EXCEPT ![e] = new]
    /\ Emit(e, [new EXCEPT !.lastSequence = 0], "execution_status")
    /\ leases' = leases \cup
        {[executionId |-> e, attempt |-> new.attempt, token |-> token]}
    /\ UNCHANGED <<now, outbox, notification>>

\* A new attempt under a fresh token; the events of earlier ones are deleted.
Claim(e, token) ==
    LET new == Claimed(row[e], token) IN
    /\ Claimable(row[e]) /\ ~Abandoned(row[e])
    /\ \A l \in leases : l.token # token
    /\ row' = [row EXCEPT ![e] = new]
    /\ \E b \in EventBytes :
        events' = [events EXCEPT ![e] =
            Logged({}, [new EXCEPT !.lastSequence = 0], "execution_status", b)]
    /\ leases' = leases \cup
        {[executionId |-> e, attempt |-> new.attempt, token |-> token]}
    /\ UNCHANGED <<now, outbox, notification>>

-----------------------------------------------------------------------------
(* The operations of a lease holder.  A call whose lease is not valid returns *)
(* false or LOST and changes nothing.                                         *)

\* Mutant: a cancellation request does not shorten the lease.
RenewEndNoGrace(r) == LeaseEnd(r)

RenewEnd(r) ==
    IF r.cancellationRequestedAt = None
    THEN LeaseEnd(r)
    ELSE Least(LeaseEnd(r), r.cancellationRequestedAt + CancelGraceMs)

\* Mutant: a lapsed lease is renewed as long as nobody has replaced it.
renewLapsed(l) ==
    LET e == l.executionId IN
    /\ row[e].state \in ActiveStates
    /\ row[e].attempt = l.attempt /\ row[e].leaseToken = l.token
    /\ RenewEnd(row[e]) > now
    /\ row' = [row EXCEPT ![e].leaseExpiresAt = RenewEnd(row[e])]
    /\ UNCHANGED <<now, events, outbox, leases, notification>>

renew(l) ==
    LET e == l.executionId IN
    /\ valid(row[e], l) /\ RenewEnd(row[e]) > now
    /\ row' = [row EXCEPT ![e].leaseExpiresAt = RenewEnd(row[e])]
    /\ UNCHANGED <<now, events, outbox, leases, notification>>

markRunning(l) ==
    LET e == l.executionId IN
    /\ valid(row[e], l) /\ row[e].cancellationRequestedAt = None
    /\ row[e].state = "COMPILING"
    /\ row' = [row EXCEPT ![e] = [row[e] EXCEPT !.state = "RUNNING", !.lastSequence = @ + 1]]
    /\ Emit(e, row[e], "execution_status")
    /\ UNCHANGED <<now, outbox, leases, notification>>

\* Output of a public case; output for any other case is thrown away unstored.
console(l) ==
    LET e == l.executionId IN
    /\ valid(row[e], l) /\ row[e].cancellationRequestedAt = None
    /\ row[e].mode = "RUN" /\ row[e].lastSequence < MaxConsole
    /\ row' = [row EXCEPT ![e].lastSequence = @ + 1]
    /\ Emit(e, row[e], "console_output")
    /\ UNCHANGED <<now, outbox, leases, notification>>

\* Mutant: a result is recorded over a cancellation request.
finishAnyway(l, verdict) ==
    LET e == l.executionId IN
    /\ valid(row[e], l)
    /\ row' = [row EXCEPT ![e] = Ended(@, "FINISHED", verdict, None)]
    /\ Emit(e, row[e], "final_verdict")
    /\ Notify(e, verdict)
    /\ UNCHANGED <<now, outbox, leases>>

finish(l, verdict) ==
    LET e == l.executionId IN
    /\ valid(row[e], l)
    /\ \/ /\ row[e].cancellationRequestedAt # None
          /\ terminal(e, "CANCELLED", None)
       \/ /\ row[e].cancellationRequestedAt = None
          /\ row' = [row EXCEPT ![e] = Ended(@, "FINISHED", verdict, None)]
          /\ Emit(e, row[e], "final_verdict")
          /\ Notify(e, verdict)
    /\ UNCHANGED <<now, outbox, leases>>

fail(l, cleanupConfirmed) ==
    LET e == l.executionId IN
    /\ valid(row[e], l)
    /\ \/ /\ row[e].cancellationRequestedAt # None /\ cleanupConfirmed
          /\ terminal(e, "CANCELLED", None)
       \/ /\ row[e].cancellationRequestedAt # None /\ ~cleanupConfirmed
          /\ terminal(e, "INTERNAL_ERROR", "CANCELLATION_TIMEOUT")
       \/ /\ row[e].cancellationRequestedAt = None
          /\ terminal(e, "INTERNAL_ERROR", "JOB_FAILURE")
    /\ UNCHANGED <<now, outbox, leases>>

\* Mutant: recovery is offered while the lease stays in force.
recoverKeepsLease(l) ==
    LET e == l.executionId IN
    /\ valid(row[e], l)
    /\ row[e].cancellationRequestedAt = None /\ row[e].attempt < MaxAttempts
    /\ outbox' = [outbox EXCEPT ![Key(e, "EXECUTION_RECOVERY", row[e].attempt)] = NewIntent]
    /\ UNCHANGED <<now, row, events, leases, notification>>

\* The runner turned the attempt away: end it, or give up its lease and offer
\* the next attempt.
recover(l) ==
    LET e == l.executionId
        k == Key(e, "EXECUTION_RECOVERY", row[e].attempt)
    IN
    /\ valid(row[e], l)
    /\ \/ /\ row[e].cancellationRequestedAt # None
          /\ terminal(e, "CANCELLED", None)
          /\ UNCHANGED outbox
       \/ /\ row[e].cancellationRequestedAt = None /\ row[e].attempt >= MaxAttempts
          /\ terminal(e, "INTERNAL_ERROR", "JOB_FAILURE")
          /\ UNCHANGED outbox
       \/ /\ row[e].cancellationRequestedAt = None /\ row[e].attempt < MaxAttempts
          /\ row' = [row EXCEPT ![e].leaseExpiresAt = now]
          /\ outbox' = [outbox EXCEPT ![k] = NewIntent]
          /\ UNCHANGED <<events, notification>>
    /\ UNCHANGED <<now, leases>>

-----------------------------------------------------------------------------
(* cancel, by the owner of the execution *)

CancelQueued(e) ==
    /\ row[e].state = "QUEUED"
    /\ terminal(e, "CANCELLED", None)
    /\ outbox' = [outbox EXCEPT ![Key(e, "EXECUTION_CANCELLED", 0)] = NewIntent]
    /\ UNCHANGED <<now, leases>>

\* Mutant: whatever is not queued counts as active.
CancelNotQueued(e) ==
    /\ ActiveAllowed
    /\ row[e].state \notin {"ABSENT", "QUEUED"} /\ row[e].cancellationRequestedAt = None
    /\ row' = [row EXCEPT ![e] = [row[e] EXCEPT !.cancellationRequestedAt = now,
                                                !.lastSequence = @ + 1]]
    /\ Emit(e, row[e], "execution_status")
    /\ UNCHANGED <<now, outbox, leases, notification>>

\* Mutant: the event's number is added to the row a second time.
CancelActiveTwice(e) ==
    /\ ActiveAllowed
    /\ row[e].state \in ActiveStates /\ row[e].cancellationRequestedAt = None
    /\ row' = [row EXCEPT ![e] = [row[e] EXCEPT !.cancellationRequestedAt = now,
                                                !.lastSequence = @ + 2]]
    /\ Emit(e, row[e], "execution_status")
    /\ UNCHANGED <<now, outbox, leases, notification>>

CancelActive(e) ==
    /\ ActiveAllowed
    /\ row[e].state \in ActiveStates /\ row[e].cancellationRequestedAt = None
    /\ row' = [row EXCEPT ![e] = [row[e] EXCEPT !.cancellationRequestedAt = now,
                                                !.lastSequence = @ + 1]]
    /\ Emit(e, row[e], "execution_status")
    /\ UNCHANGED <<now, outbox, leases, notification>>

-----------------------------------------------------------------------------
(* maintain and expireQueuedJobs.  LIMIT and SKIP LOCKED let a call see any   *)
(* part of the rows that are due.                                             *)

\* maintain has to look at the row.
Due(r) ==
    /\ r.state \in ActiveStates
    /\ \/ r.leaseExpiresAt <= now
       \/ r.cancellationRequestedAt # None
          /\ r.cancellationRequestedAt + CancelGraceMs <= now

\* The published intent k of the row r is old enough to be offered again.
Reofferable(k, r) ==
    /\ outbox[k] # None
    /\ outbox[k].publishedAt # None /\ outbox[k].publishedAt + ReofferMs < now
    /\ \/ r.state = "QUEUED" /\ k.kind = "EXECUTION_CREATED"
       \/ /\ r.state \in ActiveStates /\ r.leaseExpiresAt <= now
          /\ k.kind = "EXECUTION_RECOVERY" /\ k.generation = r.attempt

Stored == UNION {{e} \X events[e] : e \in Exec}

\* One call on the due rows `batch`, the old intents `again` and the expired
\* events `gone`.  An event expires REPLAY_TTL_MS after a time stamp its writer
\* took from its own clock; the model lets any stored event have expired.
maintain(batch, again, gone) ==
    LET ended == {e \in batch : Abandoned(row[e])}
        offered == {Key(e, "EXECUTION_RECOVERY", row[e].attempt) : e \in batch \ ended}
        after == [e \in Exec |->
                    IF e \in ended
                    THEN Ended(row[e], "INTERNAL_ERROR", "INTERNAL_ERROR", AbandonCode(row[e]))
                    ELSE row[e]]
    IN
    /\ \A k \in again : Reofferable(k, after[k.executionId])
    /\ row' = after
    /\ \E b \in [Exec -> EventBytes] :
        events' = [e \in Exec |->
            (IF e \in ended THEN Logged(events[e], row[e], "final_verdict", b[e])
                            ELSE events[e]) \ {ev \in events[e] : <<e, ev>> \in gone}]
    /\ \E wants \in [Exec -> BOOLEAN] :
        notification' = [e \in Exec |->
            IF e \in ended
            THEN notifyExecution(notification[e], row[e], "INTERNAL_ERROR", wants[e])
            ELSE notification[e]]
    /\ outbox' = [k \in IntentKey |->
        IF k \in offered /\ outbox[k] = None THEN NewIntent
        ELSE IF k \in again THEN [outbox[k] EXCEPT !.publishedAt = None]
        ELSE outbox[k]]
    /\ UNCHANGED <<now, leases>>

\* The row's queue time is over by some API clock.
QueueExpired(r) == r.state = "QUEUED" /\ \E t \in ApiClock : r.queueExpiresAt <= t

expireQueuedJobs(batch) ==
    /\ batch # {}
    /\ row' = [e \in Exec |->
        IF e \in batch
        THEN Ended(row[e], "INTERNAL_ERROR", "INTERNAL_ERROR", "QUEUE_TIMEOUT")
        ELSE row[e]]
    /\ \E b \in [Exec -> EventBytes] :
        events' = [e \in Exec |->
            IF e \in batch THEN Logged(events[e], row[e], "final_verdict", b[e])
                           ELSE events[e]]
    /\ outbox' = [k \in IntentKey |->
        IF k.executionId \in batch /\ k.kind = "EXECUTION_EXPIRED" THEN NewIntent
        ELSE outbox[k]]
    /\ UNCHANGED <<now, leases, notification>>

-----------------------------------------------------------------------------
(* The statements of OutboxDispatcher.tick on the outbox *)

Dispatchable(i) ==
    /\ i # None
    /\ i.publishedAt = None /\ i.nextDispatchAt <= now
    /\ i.dispatchExpiresAt = None \/ i.dispatchExpiresAt <= now

\* A token is random.  Here one may come back when the tick that drew it is over:
\* nobody presents it any more for the claims it has left behind.
dispatchClaim(batch, token) ==
    /\ batch # {}
    /\ outbox' = [k \in IntentKey |->
        IF k \in batch
        THEN [outbox[k] EXCEPT !.dispatchToken = token, !.dispatchExpiresAt = now + DispatchMs]
        ELSE outbox[k]]
    /\ UNCHANGED <<now, row, events, leases, notification>>

\* The caller with this token still owns the dispatch of k.
Dispatching(k, token) == outbox[k] # None /\ outbox[k].dispatchToken = token

dispatchAck(k, token) ==
    /\ Dispatching(k, token) /\ outbox[k].dispatchExpiresAt > now
    /\ outbox' = [outbox EXCEPT ![k] = [@ EXCEPT !.publishedAt = now, !.dispatchToken = None,
                                                !.dispatchExpiresAt = None]]
    /\ UNCHANGED <<now, row, events, leases, notification>>

dispatchRetry(k, token) ==
    /\ Dispatching(k, token)
    /\ \E t \in ApiClock, d \in Backoff :
        outbox' = [outbox EXCEPT ![k] = [@ EXCEPT !.dispatchToken = None,
                                                  !.dispatchExpiresAt = None,
                                                  !.nextDispatchAt = t + d]]
    /\ UNCHANGED <<now, row, events, leases, notification>>

-----------------------------------------------------------------------------
(* The specification *)

Tick ==
    /\ now < MaxTime
    /\ now' = now + 1
    /\ UNCHANGED <<row, events, outbox, leases, notification>>

Init ==
    /\ now = 0
    /\ row = [e \in Exec |-> NoRow]
    /\ events = [e \in Exec |-> {}]
    /\ outbox = [k \in IntentKey |-> None]
    /\ leases = {}
    /\ notification = [e \in Exec |-> None]

claim(e) ==
    \/ ClaimQueueTimeout(e)
    \/ ClaimAbandoned(e)
    \/ \E token \in Token : Claim(e, token)

LeaseHolder(l) ==
    \/ renew(l)
    \/ markRunning(l)
    \/ console(l)
    \/ \E verdict \in Judgement : finish(l, verdict)
    \/ \E cleanupConfirmed \in BOOLEAN : fail(l, cleanupConfirmed)
    \/ recover(l)

\* A call of maintain, or of expireQueuedJobs, that handles the rows of E.
Maintenance(E) ==
    \E batch \in SUBSET {e \in Exec : Due(row[e])},
       again \in SUBSET {k \in IntentKey : Reofferable(k, row[k.executionId])},
       gone \in SUBSET Stored :
        E \subseteq batch /\ maintain(batch, again, gone)

QueueExpiry(E) ==
    \E batch \in SUBSET {e \in Exec : QueueExpired(row[e])} :
        E \subseteq batch /\ expireQueuedJobs(batch)

Dispatcher ==
    \E token \in DispatchToken :
        \/ \E batch \in SUBSET {k \in IntentKey : Dispatchable(outbox[k])} :
            dispatchClaim(batch, token)
        \/ \E k \in IntentKey : dispatchAck(k, token) \/ dispatchRetry(k, token)

Next ==
    \/ \E e \in Exec : Create(e) \/ claim(e) \/ CancelQueued(e) \/ CancelActive(e)
    \/ \E l \in leases : LeaseHolder(l)
    \/ Maintenance({})
    \/ QueueExpiry({})
    \/ Dispatcher
    \/ Tick

Spec == Init /\ [][Next]_vars

\* QueuedMaintenance and QueuePipeline repeat maintain and expireQueuedJobs on a
\* timer in every API process, so a row that stays due is handled; workers,
\* users and the dispatcher owe nothing.
FairSpec ==
    /\ Spec
    /\ WF_vars(Tick)
    /\ \A e \in Exec :
        /\ WF_vars(Maintenance({e}))
        /\ WF_vars(QueueExpiry({e}))

-----------------------------------------------------------------------------
(* Properties *)

\* Every table holds values of its columns' types.
TypeOK ==
    /\ now \in Nat
    /\ row \in [Exec -> Row]
    /\ events \in [Exec -> SUBSET Event]
    /\ outbox \in [IntentKey -> Intent \cup {None}]
    /\ leases \subseteq Lease
    /\ notification \in [Exec -> Verdict \cup {None}]

\* Authority once lost never returns: a lease that valid rejects - lapsed, given
\* up by recover, or replaced by a later claim - is rejected for ever after,
\* whatever renewals, claims and maintenance do.
AuthorityNeverReturns ==
    [][\A l \in leases : ~valid(row[l.executionId], l) => ~valid(row[l.executionId], l)']_vars

\* The columns of r fit its state.
FitsState(r) ==
    /\ r.leaseToken # None <=> r.state \in ActiveStates
    /\ r.leaseExpiresAt # None <=> r.state \in ActiveStates
    /\ r.state = "ABSENT" => r = NoRow
    /\ r.state = "QUEUED" => r.attempt = 0 /\ r.cancellationRequestedAt = None
    /\ r.state \in Unfinished => r.verdict = None /\ r.failureCode = None
    /\ r.state = "FINISHED" => r.verdict \in Judgement /\ r.failureCode = None
    /\ r.state = "CANCELLED" => r.verdict = "CANCELLED" /\ r.failureCode = None
    /\ r.state = "INTERNAL_ERROR" => r.verdict = "INTERNAL_ERROR" /\ r.failureCode # None

\* The columns of a row fit its state - a lease exactly while it is active, an
\* untouched request while it is queued, an outcome exactly when it has ended -
\* and the lease of an active row is one that claim has returned to somebody.
RowShape ==
    \A e \in Exec :
        /\ FitsState(row[e])
        /\ row[e].state \in ActiveStates =>
            [executionId |-> e, attempt |-> row[e].attempt, token |-> row[e].leaseToken]
                \in leases

\* Each attempt was leased once, to one token, no later than the row's attempt:
\* two callers can never both pass valid for one execution.
OneLeasePerAttempt ==
    /\ \A l, m \in leases : l.executionId = m.executionId /\ l.attempt = m.attempt => l = m
    /\ \A l \in leases : l.attempt <= row[l.executionId].attempt

\* While a row is active its lease is bounded: by the attempt limit, by the
\* deadline of the job and by one lease period from now, however often claim and
\* renew have run.
LeaseBounded ==
    \A e \in Exec : row[e].state \in ActiveStates =>
        /\ row[e].attempt \in 1..MaxAttempts
        /\ row[e].leaseExpiresAt <= deadline(row[e])
        /\ row[e].leaseExpiresAt <= now + LeaseMs

\* After a cancellation request no renewal carries the lease past the grace
\* period of the request.
CancellationGrace ==
    [][\A e \in Exec :
        /\ row[e].cancellationRequestedAt # None
        /\ row[e].leaseExpiresAt # None /\ row'[e].leaseExpiresAt # None
        /\ row'[e].leaseExpiresAt > row[e].leaseExpiresAt
        => row'[e].leaseExpiresAt <= row[e].cancellationRequestedAt + CancelGraceMs]_vars

\* A recovery intent for the current attempt exists only once that attempt's
\* lease has lapsed, so the delivery it causes is never swallowed by claim's
\* test for a live lease.
RecoveryFollowsLapse ==
    \A k \in IntentKey :
        /\ k.kind = "EXECUTION_RECOVERY" /\ outbox[k] # None
        /\ row[k.executionId].state \in ActiveStates
        /\ row[k.executionId].attempt = k.generation
        => row[k.executionId].leaseExpiresAt <= now

\* The outcome has its cause, and the owner is told the truth: no result is recorded
\* over a cancellation request, each failure code is used for the situation it
\* names, and only a submission that ended with a verdict is announced, with
\* exactly that verdict.
OutcomeExplained ==
    \A e \in Exec :
        LET r == row[e] IN
        /\ r.state = "FINISHED" => r.cancellationRequestedAt = None /\ r.attempt > 0
        /\ r.state = "CANCELLED" => (r.cancellationRequestedAt # None <=> r.attempt > 0)
        /\ r.failureCode = "QUEUE_TIMEOUT" => r.attempt = 0 /\ r.cancellationRequestedAt = None
        /\ r.failureCode = "CANCELLATION_TIMEOUT" <=>
            r.state = "INTERNAL_ERROR" /\ r.cancellationRequestedAt # None
        /\ r.failureCode = "LEASE_EXPIRED" => r.attempt = MaxAttempts
        /\ r.failureCode = "JOB_TIMEOUT" => r.attempt < MaxAttempts /\ now >= deadline(r)
        /\ notification[e] # None =>
            /\ r.mode = "SUBMIT" /\ r.state \in {"FINISHED", "INTERNAL_ERROR"}
            /\ notification[e] = r.verdict

\* The stored events are those of the current attempt, numbered without a
\* repetition up to lastSequence; the final verdict is stored only for an ended
\* row, and then as its last event; and however events of different sizes follow
\* each other, what is stored stays within both replay limits.
EventLog ==
    \A e \in Exec :
        /\ \A ev \in events[e] :
            /\ ev.attempt = row[e].attempt /\ ev.sequence \in 1..row[e].lastSequence
            /\ ev.kind = "final_verdict" <=>
                row[e].state \in TerminalStates /\ ev.sequence = row[e].lastSequence
        /\ \A ev, fv \in events[e] : ev.sequence = fv.sequence => ev = fv
        /\ Cardinality(events[e]) <= ReplayRows /\ Bytes(events[e]) <= ReplayBytes

\* An execution ends once: the step that ends it stores its final event, and
\* from then on neither the row nor the notification changes and no event is
\* added, though its leases and intents may still be presented.
EndsOnce ==
    [][\A e \in Exec :
        /\ isTerminal(row[e]) =>
            /\ row'[e] = row[e] /\ notification'[e] = notification[e]
            /\ events'[e] \subseteq events[e]
        /\ ~isTerminal(row[e]) /\ isTerminal(row'[e]) =>
            \E ev \in events'[e] :
                ev.kind = "final_verdict" /\ ev.sequence = row'[e].lastSequence]_vars

\* Every accepted execution ends, even if no worker ever runs or every worker
\* keeps renewing without an answer.
AcceptedEnds ==
    \A e \in Exec : row[e].state \in Unfinished ~> isTerminal(row[e])

\* The database accepts every statement of the job store: no operation trips the
\* lifecycle trigger or a CHECK constraint.
Lifecycle == INSTANCE ExecutionLifecycle
AcceptedByDatabase == Lifecycle!Spec

\* What a reader of the public events sees of each execution.
PublicView ==
    [e \in Exec |-> [attempt |-> row[e].attempt, last |-> row[e].lastSequence,
                     stored |-> {ev.sequence : ev \in events[e]}, ended |-> isTerminal(row[e])]]

\* The events keep what live delivery relies on: through renewals, retries,
\* pruning and expiry the row and its events move as PublicLog allows.
Public == INSTANCE PublicLog WITH log <- PublicView
KeepsPublicLog == Public!Spec

\* The contract package's graph: the states an execution may move to.
transitions ==
    [s \in State |->
        CASE s = "QUEUED" -> {"COMPILING", "CANCELLED", "INTERNAL_ERROR"}
          [] s = "COMPILING" -> {"RUNNING", "FINISHED", "CANCELLED", "INTERNAL_ERROR"}
          [] s = "RUNNING" -> {"FINISHED", "CANCELLED", "INTERNAL_ERROR"}
          [] OTHER -> {}]

\* Every state change of a row is one the shared contract allows.  The documents
\* say SQL enforces this graph; claim leaves it by starting the next attempt of a
\* RUNNING execution.
ContractGraph ==
    [][\A e \in Exec : row[e].state # "ABSENT" /\ row'[e].state # row[e].state =>
        row'[e].state \in transitions[row[e].state]]_vars
=============================================================================
