------------------------------ MODULE Pipeline ------------------------------
(***************************************************************************)
(* The execution pipeline (apps/api/src/executions/queue.ts): the ticks of *)
(* OutboxDispatcher, the BullMQ queue it fills, and the workers that take  *)
(* jobs from it and drive JobStore with the lease they get.                *)
(*                                                                         *)
(* Between two statements of a tick or of a worker anything else may       *)
(* happen.  Processes crash, calls to PostgreSQL and Redis throw before or *)
(* after they took effect, BullMQ hands a job out again when its lock was  *)
(* not renewed, and Redis may lose its data.  Each of these costs one unit *)
(* of `faults`.                                                            *)
(***************************************************************************)
EXTENDS JobStore

CONSTANTS
    Worker,          \* processing slots: worker processes times concurrency
    MaxStalledCount, \* maxStalledCount of the BullMQ worker
    MaxFaults,       \* bound: crashes, failed calls, stalls and losses
    LastFault        \* bound: last instant at which one happens

ASSUME PipelineAssumption ==
    None \notin Worker /\ MaxStalledCount \in Nat /\ MaxFaults \in Nat /\ LastFault \in Nat

VARIABLES
    queue,    \* the BullMQ job of each job id
    sender,   \* the tick that runs under each dispatch token
    worker,   \* the job each slot processes
    lost,     \* the job ids Redis has lost at some time
    faults    \* faults that have happened

pvars == <<queue, sender, worker, lost, faults>>

-----------------------------------------------------------------------------
(* Values *)

JobId == [executionId: Exec, generation: 0..MaxAttempts]

\* Mutant: the generation is left out of the id.
jobIdShared(k) == [executionId |-> k.executionId, generation |-> 0]

\* exec-<executionId>-g<generation>
jobId(k) == [executionId |-> k.executionId, generation |-> k.generation]

\* A job is absent, waiting, active, completed or failed, as BullMQ has it.
NoJob == [status |-> "absent", lock |-> None, stalls |-> 0]

\* A tick: the intents it has claimed, and the one in hand.
NotSending == [pc |-> "idle", todo |-> {}, key |-> None]

\* A processing slot, with the lease and the AbortController of its execution.
NoSlot == [pc |-> "idle", job |-> None, lease |-> None, verdict |-> None,
           abort |-> FALSE, cleanupConfirmed |-> TRUE]

Fault == faults < MaxFaults /\ now <= LastFault /\ faults' = faults + 1

-----------------------------------------------------------------------------
(* BullMQ *)

\* queue.add: a job id the queue still knows, in whatever state, is not added.
Added(q, j) ==
    IF q[j].status = "absent" THEN [q EXCEPT ![j] = [NoJob EXCEPT !.status = "waiting"]] ELSE q

\* The processor of slot w has settled; only the holder of the lock is heard.
Settled(q, w, status) ==
    LET j == worker[w].job IN
    IF q[j].status = "active" /\ q[j].lock = w
    THEN [q EXCEPT ![j].status = status, ![j].lock = None] ELSE q

Deliver(w, j) ==
    /\ worker[w].pc = "idle" /\ queue[j].status = "waiting"
    /\ queue' = [queue EXCEPT ![j].status = "active", ![j].lock = w]
    /\ worker' = [worker EXCEPT ![w] = [NoSlot EXCEPT !.pc = "claim", !.job = j]]
    /\ UNCHANGED <<vars, sender, lost, faults>>

\* The lock of an active job ran out: its holder is gone, or is too slow.
Stall(j) ==
    LET w == queue[j].lock IN
    /\ queue[j].status = "active"
    /\ IF worker[w].job = j THEN Fault ELSE UNCHANGED faults
    /\ queue' = [queue EXCEPT ![j] =
        IF queue[j].stalls < MaxStalledCount
        THEN [status |-> "waiting", lock |-> None, stalls |-> queue[j].stalls + 1]
        ELSE [status |-> "failed", lock |-> None, stalls |-> queue[j].stalls]]
    /\ UNCHANGED <<vars, sender, worker, lost>>

\* Redis loses everything, or a retained job reaches the end of its retention.
Lose ==
    /\ Fault
    /\ \E gone \in {JobId} \cup {{j} : j \in {x \in JobId : queue[x].status \in {"completed", "failed"}}} :
        /\ queue' = [j \in JobId |-> IF j \in gone THEN NoJob ELSE queue[j]]
        /\ lost' = lost \cup gone
    /\ UNCHANGED <<vars, sender, worker>>

-----------------------------------------------------------------------------
(* OutboxDispatcher.tick *)

\* The execution still wants the job of intent k, by an API clock.
Wanted(k) ==
    LET r == row[k.executionId] IN
    /\ k.kind \in {"EXECUTION_CREATED", "EXECUTION_RECOVERY"}
    /\ \/ r.state = "QUEUED" /\ \E t \in ApiClock : r.queueExpiresAt > t
       \/ r.state \in ActiveStates /\ k.kind = "EXECUTION_RECOVERY" /\ k.generation = r.attempt

Unwanted(k) ==
    LET r == row[k.executionId] IN
    k.kind \in {"EXECUTION_CREATED", "EXECUTION_RECOVERY"} =>
        /\ r.state = "QUEUED" => \E t \in ApiClock : r.queueExpiresAt <= t
        /\ ~(r.state \in ActiveStates /\ k.kind = "EXECUTION_RECOVERY" /\ k.generation = r.attempt)

TickClaim(t) ==
    /\ sender[t].pc = "idle"
    /\ \E batch \in SUBSET {k \in IntentKey : Dispatchable(outbox[k])} :
        /\ dispatchClaim(batch, t)
        /\ sender' = [sender EXCEPT ![t] = [NotSending EXCEPT !.pc = "next", !.todo = batch]]
    /\ UNCHANGED <<queue, worker, lost, faults>>

\* The intent in hand is dealt with.
Advance(t) == sender' = [sender EXCEPT ![t] = [sender[t] EXCEPT !.pc = "next", !.key = None]]
GoTo(t, pc) == sender' = [sender EXCEPT ![t].pc = pc]

\* Look at the execution of the next intent; the read itself may throw.
TickLook(t) ==
    /\ sender[t].pc = "next"
    /\ \E k \in sender[t].todo :
        \E pc \in {"add", "ack", "retry"} :
            /\ pc = "add" => Wanted(k)
            /\ pc = "ack" => Unwanted(k)
            /\ IF pc = "retry" THEN Fault ELSE UNCHANGED faults
            /\ sender' = [sender EXCEPT ![t] =
                [pc |-> pc, todo |-> sender[t].todo \ {k}, key |-> k]]
    /\ UNCHANGED <<vars, queue, worker, lost>>

TickEnd(t) ==
    /\ sender[t].pc = "next" /\ sender[t].todo = {}
    /\ sender' = [sender EXCEPT ![t] = NotSending]
    /\ UNCHANGED <<vars, queue, worker, lost, faults>>

TickAdd(t) ==
    /\ sender[t].pc = "add"
    /\ \/ /\ queue' = Added(queue, jobId(sender[t].key))
          /\ GoTo(t, "ack") /\ UNCHANGED faults
       \/ /\ queue' \in {queue, Added(queue, jobId(sender[t].key))}
          /\ Fault /\ GoTo(t, "retry")
    /\ UNCHANGED <<vars, worker, lost>>

\* The acknowledgement changes nothing once the claim has lapsed or moved on.
TickAck(t) ==
    LET k == sender[t].key
        ack == \/ dispatchAck(k, t)
               \/ ~(Dispatching(k, t) /\ outbox[k].dispatchExpiresAt > now) /\ UNCHANGED vars
    IN
    /\ sender[t].pc = "ack"
    /\ \/ ack /\ Advance(t) /\ UNCHANGED faults
       \/ (ack \/ UNCHANGED vars) /\ Fault /\ GoTo(t, "retry")
    /\ UNCHANGED <<queue, worker, lost>>

\* A failure here escapes the loop and ends the tick.
TickRetry(t) ==
    LET k == sender[t].key
        retry == dispatchRetry(k, t) \/ (~Dispatching(k, t) /\ UNCHANGED vars)
    IN
    /\ sender[t].pc = "retry"
    /\ \/ retry /\ Advance(t) /\ UNCHANGED faults
       \/ /\ retry \/ UNCHANGED vars
          /\ Fault /\ sender' = [sender EXCEPT ![t] = NotSending]
    /\ UNCHANGED <<queue, worker, lost>>

TickCrash(t) ==
    /\ sender[t].pc # "idle" /\ Fault
    /\ sender' = [sender EXCEPT ![t] = NotSending]
    /\ UNCHANGED <<vars, queue, worker, lost>>

tick(t) == TickClaim(t) \/ TickLook(t) \/ TickEnd(t) \/ TickAdd(t) \/ TickAck(t) \/ TickRetry(t)

-----------------------------------------------------------------------------
(* The processor of startExecutionWorker, with JudgingBackend.execute *)

Step(w, pc) == worker' = [worker EXCEPT ![w].pc = pc]

\* The processor returns ("completed") or throws ("failed").
Return(w, status) ==
    /\ queue' = Settled(queue, w, status)
    /\ worker' = [worker EXCEPT ![w] = NoSlot]

\* The catch block of the processor is entered with an error that is not
\* recoverable.
Throw(w, cleanupConfirmed) ==
    worker' = [worker EXCEPT ![w] = [worker[w] EXCEPT !.pc = "fail",
                                                      !.cleanupConfirmed = cleanupConfirmed]]

\* claim finds nothing to do: the row has ended or is under a live lease.
NotClaimable(r) ==
    \/ r.state = "ABSENT" \/ isTerminal(r)
    \/ r.state \in ActiveStates /\ r.leaseExpiresAt > now

WorkerClaim(w) ==
    LET e == worker[w].job.executionId IN
    /\ worker[w].pc = "claim"
    /\ \/ \E token \in Token :
            /\ Claim(e, token)
            /\ worker' = [worker EXCEPT ![w] = [worker[w] EXCEPT
                 !.pc = "execute",
                 !.lease = [executionId |-> e, attempt |-> row[e].attempt + 1, token |-> token]]]
            /\ UNCHANGED <<queue, faults>>
       \/ /\ \/ ClaimQueueTimeout(e) \/ ClaimAbandoned(e)
             \/ NotClaimable(row[e]) /\ UNCHANGED vars
          /\ Return(w, "completed") /\ UNCHANGED faults
       \/ /\ claim(e) \/ UNCHANGED vars
          /\ Return(w, "failed") /\ Fault
    /\ UNCHANGED <<sender, lost>>

\* Mutant: only a lost lease aborts the backend, a failing database does not.
HeartbeatTrusting(w) ==
    LET l == worker[w].lease
        r == row[l.executionId]
    IN
    /\ worker[w].lease # None
    /\ renew(l) /\ worker' = [worker EXCEPT ![w].abort = @ \/ r.cancellationRequestedAt # None]
    /\ UNCHANGED <<queue, sender, lost, faults>>

\* renew every second; anything but ACTIVE, an exception included, aborts.
Heartbeat(w) ==
    LET l == worker[w].lease
        r == row[l.executionId]
        abort == worker' = [worker EXCEPT ![w].abort = TRUE]
    IN
    /\ worker[w].lease # None
    /\ \/ /\ renew(l) /\ r.cancellationRequestedAt = None
          /\ UNCHANGED <<worker, faults>>
       \/ renew(l) /\ r.cancellationRequestedAt # None /\ abort /\ UNCHANGED faults
       \/ ~(valid(r, l) /\ RenewEnd(r) > now) /\ abort /\ UNCHANGED <<vars, faults>>
       \/ (renew(l) \/ UNCHANGED vars) /\ abort /\ Fault
    /\ UNCHANGED <<queue, sender, lost>>

\* The runner answers: a judged observation, a confirmed stop after an abort, a
\* recoverable refusal, or an error with or without confirmed cleanup.
BackendAnswers(w) ==
    /\ worker[w].pc = "execute"
    /\ \/ /\ \E v \in Judgement :
              worker' = [worker EXCEPT ![w] = [worker[w] EXCEPT !.verdict = v,
                            !.pc = IF v = "COMPILATION_ERROR" THEN "finish" ELSE "mark"]]
          /\ UNCHANGED faults
       \/ worker[w].abort /\ Throw(w, TRUE) /\ UNCHANGED faults
       \/ Step(w, "recover") /\ Fault
       \/ \E confirmed \in BOOLEAN : Throw(w, confirmed) /\ Fault
    /\ UNCHANGED <<vars, queue, sender, lost>>

\* markRunning returns false, and so the backend throws, when the lease is not
\* valid or a cancellation was requested.
WorkerMark(w) ==
    LET l == worker[w].lease
        r == row[l.executionId]
    IN
    /\ worker[w].pc = "mark"
    /\ \/ markRunning(l) /\ Step(w, "print") /\ UNCHANGED faults
       \/ /\ ~(valid(r, l) /\ r.cancellationRequestedAt = None /\ r.state = "COMPILING")
          /\ Throw(w, TRUE) /\ UNCHANGED <<vars, faults>>
       \/ (markRunning(l) \/ UNCHANGED vars) /\ Throw(w, TRUE) /\ Fault
    /\ UNCHANGED <<queue, sender, lost>>

\* Any number of console chunks, then the result.
WorkerPrint(w) ==
    LET l == worker[w].lease
        r == row[l.executionId]
    IN
    /\ worker[w].pc = "print"
    /\ \/ console(l) /\ UNCHANGED <<worker, faults>>
       \/ Step(w, "finish") /\ UNCHANGED <<vars, faults>>
       \/ /\ r.mode = "RUN" /\ ~(valid(r, l) /\ r.cancellationRequestedAt = None)
          /\ Throw(w, TRUE) /\ UNCHANGED <<vars, faults>>
       \/ (console(l) \/ UNCHANGED vars) /\ Throw(w, TRUE) /\ Fault
    /\ UNCHANGED <<queue, sender, lost>>

\* finish, fail and recover return false, having changed nothing, when the lease
\* is not valid.
Refused(l) == ~valid(row[l.executionId], l) /\ UNCHANGED vars

WorkerFinish(w) ==
    LET l == worker[w].lease IN
    /\ worker[w].pc = "finish"
    /\ \/ (finish(l, worker[w].verdict) \/ Refused(l)) /\ Return(w, "completed") /\ UNCHANGED faults
       \/ /\ finish(l, worker[w].verdict) \/ UNCHANGED vars
          /\ Throw(w, TRUE) /\ Fault /\ UNCHANGED queue
    /\ UNCHANGED <<sender, lost>>

WorkerFail(w) ==
    LET l == worker[w].lease
        call == fail(l, worker[w].cleanupConfirmed)
    IN
    /\ worker[w].pc = "fail"
    /\ \/ (call \/ Refused(l)) /\ Return(w, "completed") /\ UNCHANGED faults
       \/ (call \/ UNCHANGED vars) /\ Return(w, "failed") /\ Fault
    /\ UNCHANGED <<sender, lost>>

WorkerRecover(w) ==
    LET l == worker[w].lease IN
    /\ worker[w].pc = "recover"
    /\ \/ (recover(l) \/ Refused(l)) /\ Return(w, "completed") /\ UNCHANGED faults
       \/ (recover(l) \/ UNCHANGED vars) /\ Return(w, "failed") /\ Fault
    /\ UNCHANGED <<sender, lost>>

WorkerCrash(w) ==
    /\ worker[w].pc # "idle" /\ Fault
    /\ worker' = [worker EXCEPT ![w] = NoSlot]
    /\ UNCHANGED <<vars, queue, sender, lost>>

-----------------------------------------------------------------------------
(* The specification *)

PipelineInit ==
    /\ Init
    /\ queue = [j \in JobId |-> NoJob]
    /\ sender = [t \in DispatchToken |-> NotSending]
    /\ worker = [w \in Worker |-> NoSlot]
    /\ lost = {} /\ faults = 0

\* A call of maintain.  Event rows are kept for ten minutes and nothing here reads
\* them, so that none expires: JobStore explores their deletion.
Maintain ==
    \E batch \in SUBSET {e \in Exec : Due(row[e])},
       again \in SUBSET {k \in IntentKey : Reofferable(k, row[k.executionId])} :
        maintain(batch, again, {})

\* The API processes: requests, and the two maintenance timers.
Api ==
    /\ \/ \E e \in Exec : Create(e) \/ CancelQueued(e) \/ CancelActive(e)
       \/ Maintain \/ QueueExpiry({}) \/ Tick
    /\ UNCHANGED pvars

Working(w) ==
    \/ \E j \in JobId : Deliver(w, j)
    \/ WorkerClaim(w) \/ BackendAnswers(w) \/ WorkerMark(w) \/ WorkerPrint(w)
    \/ WorkerFinish(w) \/ WorkerFail(w) \/ WorkerRecover(w)

PipelineNext ==
    \/ Api
    \/ \E t \in DispatchToken : tick(t) \/ TickCrash(t)
    \/ \E w \in Worker : Working(w) \/ Heartbeat(w) \/ WorkerCrash(w)
    \/ \E j \in JobId : Stall(j)
    \/ Lose

PipelineSpec == PipelineInit /\ [][PipelineNext]_<<vars, pvars>>

\* A pass of maintain over everything that is due.
Reconcile ==
    /\ maintain({e \in Exec : Due(row[e])},
                {k \in IntentKey : Reofferable(k, row[k.executionId])}, {})
    /\ UNCHANGED pvars

\* A tick that goes on, or one that begins and claims all there is to dispatch.
Dispatch(t) ==
    /\ tick(t)
    /\ sender[t].pc = "idle" => sender'[t].todo = {k \in IntentKey : Dispatchable(outbox[k])}

\* The heartbeat runs each second beside whatever its worker waits for; nothing
\* else is sure to go on, for a runner may never answer.
FairHeartbeat == PipelineSpec /\ \A w \in Worker : WF_<<vars, pvars>>(Heartbeat(w))

\* Every API process repeats maintain and the dispatcher's tick each second,
\* BullMQ hands out waiting jobs and looks for stalled ones, and the runner client
\* gives up after a fixed time.  Nobody has to create, cancel or crash.
Keeping ==
    /\ WF_<<vars, pvars>>(Tick /\ UNCHANGED pvars)
    /\ WF_<<vars, pvars>>(Reconcile)
    /\ \A t \in DispatchToken : WF_<<vars, pvars>>(Dispatch(t))
    /\ \A w \in Worker : WF_<<vars, pvars>>(Working(w))
    /\ WF_<<vars, pvars>>(\E j \in JobId : Stall(j) /\ UNCHANGED faults)

-----------------------------------------------------------------------------
(* Properties *)

\* A job completes only when the delivery it stands for is no longer needed: the
\* attempt it was to start, or a later one, has started, or the execution has
\* ended.  BullMQ keeps the id of a completed job and ignores every later offer
\* of it, so a completed job that was still needed would strand its execution.
DeliveryConsumed ==
    \A j \in JobId : queue[j].status = "completed" =>
        isTerminal(row[j.executionId]) \/ row[j.executionId].attempt > j.generation

\* The dispatcher backed off until after the last instant of the model's clock.
BeyondClock(e) ==
    \E k \in IntentKey : k.executionId = e /\ outbox[k] # None /\ outbox[k].nextDispatchAt > MaxTime

\* No accepted job gets lost on its way: while its time lasts, a queued execution
\* is attempted or ends, and an attempt whose lease has lapsed is followed by
\* another, through crashes of ticks and workers, unreachable databases and
\* queues, and the loss of Redis data - unless BullMQ has recorded its delivery
\* as failed.
Attempted ==
    Keeping => \A e \in Exec : \A n \in 0..MaxAttempts - 1 :
        /\ row[e].attempt = n /\ Claimable(row[e]) /\ ~Abandoned(row[e])
        ~> \/ row[e].attempt > n \/ isTerminal(row[e]) \/ ~Claimable(row[e])
           \/ queue[[executionId |-> e, generation |-> n]].status = "failed"
           \/ BeyondClock(e)

\* The backend of slot w still runs for an execution that no longer wants it.
Unheeded(w) ==
    LET l == worker[w].lease IN
    /\ l # None /\ ~worker[w].abort
    /\ ~valid(row[l.executionId], l) \/ row[l.executionId].cancellationRequestedAt # None

\* A worker whose lease was lost, or whose execution the owner cancelled, is told
\* to stop, even if it is stuck waiting for its sandbox.
AbortReaches == \A w \in Worker : Unheeded(w) ~> ~Unheeded(w)
=============================================================================
