------------------------------- MODULE Runner -------------------------------
(***************************************************************************)
(* The runner host: SupervisorClient (in the worker process), the Unix     *)
(* socket server, SandboxSupervisor, the Docker daemon and the janitor     *)
(* (apps/runner/src: client.ts, server.ts, supervisor.ts, transport.ts,    *)
(* main.ts).                                                               *)
(*                                                                         *)
(* A call is one SupervisorClient.execute, for the attempt KeyOf[c].  An   *)
(* action is one stretch of code between two awaits, of the worker, of the *)
(* supervisor process or of the daemon, which goes on with a command whose *)
(* CLI has been killed.  Source text, test cases, output and metrics are   *)
(* left out: a sandbox ends "ok" (go on with the next case), "done" (the   *)
(* observation is complete), "aborted" or "error".                         *)
(***************************************************************************)
EXTENDS Integers, FiniteSets

CONSTANTS
    Call,            \* the calls of SupervisorClient.execute
    KeyOf,           \* the attempt `${executionId}:${attempt}` of a call
    Slots,           \* executions a supervisor runs at once (2 in the code)
    MaxAdmitted,     \* requests a server holds at once (8 in the code)
    MaxSandboxes,    \* bound: sandboxes per call (compile and cases)
    MaxLife          \* bound: starts of the supervisor process

ASSUME RunnerAssumption ==
    /\ Slots \in Nat \ {0}
    /\ MaxAdmitted \in Nat \ {0}
    /\ MaxSandboxes \in Nat \ {0}
    /\ MaxLife \in Nat \ {0}
    /\ DOMAIN KeyOf = Call

VARIABLES
    client,      \* per call: answer, abort (its AbortSignal), cancel
    request,     \* per call: is its /execute request on the socket
    reply,       \* per call: the response on the socket
    process,     \* the supervisor process: state, ready, life
    task,        \* per call: what the server and the supervisor do for it
    box,         \* per call: its container, in the daemon
    expired      \* per call: has the deadline of its label passed

vars == <<client, request, reply, process, task, box, expired>>

-----------------------------------------------------------------------------
(* State *)

\* An answer is "idle" before the call, "open" while its promise is pending, and then
\* "observed"; "cancelled", which is an observation with cancellationConfirmed;
\* "retryable", a RunnerExecutionError, which the worker retries; or "unconfirmed", a
\* SandboxCleanupError, which it does not.  A /cancel request is "sent", "held" by the
\* server until it has an effect, and "over".  A container is "pending" while the daemon
\* works on `docker create`, then "created", "starting" while it works on `docker start`,
\* and "up".  `ending` says how the sandbox at hand has ended.
NoTask == [phase |-> "none", outer |-> FALSE, inner |-> FALSE,
           ending |-> "ok", done |-> 0, life |-> 0]

\* The containers `docker ps --all` lists and `docker rm` finds.
Exists(c) == box[c] \in {"created", "starting", "up"}

\* The entries of the supervisor's `active`, which are those of the server's
\* `controllers` too: both are set before the first await and deleted after
\* the last.
Active == {c \in Call : task[c].phase \notin {"none", "reading"}}

\* The requests `admitted` counts.
Admitted == {<<"execute", c>> : c \in {d \in Call : task[d].phase # "none"}}
            \cup {<<"cancel", c>> : c \in {d \in Call : client[d].cancel = "held"}}

Full == process.state = "closing" \/ Cardinality(Admitted) >= MaxAdmitted

Init ==
    /\ client = [c \in Call |-> [answer |-> "idle", abort |-> FALSE,
                                 cancel |-> "none"]]
    /\ request = [c \in Call |-> FALSE]
    /\ reply = [c \in Call |-> "none"]
    /\ process = [state |-> "up", ready |-> TRUE, life |-> 1]
    /\ task = [c \in Call |-> NoTask]
    /\ box = [c \in Call |-> "none"]
    /\ expired = [c \in Call |-> FALSE]

-----------------------------------------------------------------------------
(* SupervisorClient *)

\* execute: a signal that is aborted already sends nothing.
ClientExecute(c) ==
    /\ client[c].answer = "idle"
    /\ IF client[c].abort
       THEN /\ client' = [client EXCEPT ![c].answer = "cancelled"]
            /\ UNCHANGED request
       ELSE /\ client' = [client EXCEPT ![c].answer = "open"]
            /\ request' = [request EXCEPT ![c] = TRUE]
    /\ UNCHANGED <<reply, process, task, box, expired>>

\* The worker aborts the signal; cancel sends its first request.
ClientAbort(c) ==
    /\ ~client[c].abort
    /\ client[c].answer \in {"idle", "open"}
    /\ client' = [client EXCEPT ![c] = [client[c] EXCEPT !.abort = TRUE,
                      !.cancel = IF client[c].answer = "open" THEN "sent" ELSE "none"]]
    /\ UNCHANGED <<request, reply, process, task, box, expired>>

\* The response arrives: status 200 settles the observation, the three known
\* error codes are retryable.
ClientRead(c) ==
    /\ client[c].answer = "open"
    /\ reply[c] # "none"
    /\ client' = [client EXCEPT ![c].answer = reply[c]]
    /\ reply' = [reply EXCEPT ![c] = "none"]
    /\ UNCHANGED <<request, process, task, box, expired>>

\* req.destroy, or the connection is lost: the promise rejects with a
\* SandboxCleanupError.  A request already on the socket may still be read.
Destroyed(c) ==
    /\ client' = [client EXCEPT ![c] =
                    [client[c] EXCEPT !.cancel = "over",
                        !.answer = IF client[c].answer = "open" THEN "unconfirmed"
                                   ELSE client[c].answer]]
    /\ reply' = [reply EXCEPT ![c] = "none"]

\* The deadline of totalMs + 15 s, a timeout or an error of the socket.
ClientLose(c) ==
    /\ client[c].answer = "open"
    /\ Destroyed(c)
    /\ UNCHANGED <<request, process, task, box, expired>>

\* A /cancel request reaches the server, which holds it while it reads the
\* body or refuses it; a refusal or a dead socket destroys the call.
CancelArrive(c) ==
    /\ client[c].cancel = "sent"
    /\ IF process.state = "down" \/ Full
       THEN Destroyed(c)
       ELSE /\ client' = [client EXCEPT ![c].cancel = "held"]
            /\ UNCHANGED reply
    /\ UNCHANGED <<request, process, task, box, expired>>

\* The answer 409, treated as final: the client does not send again.
CancelHandleOnce(c) ==
    /\ client[c].cancel = "held"
    /\ task' = [d \in Call |->
                  IF d \in Active /\ KeyOf[d] = KeyOf[c]
                  THEN [task[d] EXCEPT !.outer = TRUE, !.inner = TRUE]
                  ELSE task[d]]
    /\ client' = [client EXCEPT ![c].cancel = "over"]
    /\ UNCHANGED <<request, reply, process, box, expired>>

\* /cancel: abort the controller of the attempt, or answer 409; the client
\* then sends again after 50 ms, or gives up after 5 s.
CancelHandle(c) ==
    /\ client[c].cancel = "held"
    /\ LET of == {d \in Active : KeyOf[d] = KeyOf[c]}
       IN  \/ /\ of # {}
              /\ task' = [d \in Call |->
                            IF d \in of
                            THEN [task[d] EXCEPT !.outer = TRUE, !.inner = TRUE]
                            ELSE task[d]]
              /\ client' = [client EXCEPT ![c].cancel = "over"]
              /\ UNCHANGED reply
           \/ /\ of = {}
              /\ client' = [client EXCEPT ![c].cancel =
                              IF client[c].answer = "open" THEN "sent" ELSE "over"]
              /\ UNCHANGED <<task, reply>>
    /\ UNCHANGED <<request, process, box, expired>>

\* The cancel request is not answered, or 409 is answered past the 5 s.
CancelLose(c) ==
    /\ client[c].cancel \in {"sent", "held"}
    /\ Destroyed(c)
    /\ UNCHANGED <<request, process, task, box, expired>>

-----------------------------------------------------------------------------
(* The server *)

\* c's task is over: what is left of it is the labels of its container.
Over(c) == [NoTask EXCEPT !.life = task[c].life]

\* The response of c's task: written unless the client closed the connection.
Reply(c, value) ==
    /\ reply' = [reply EXCEPT ![c] =
                   IF client[c].answer = "open" THEN value ELSE "none"]
    /\ task' = [task EXCEPT ![c] = Over(c)]

\* handle: the request is refused (RUNNER_CAPACITY) or its body is read.
Handle(c) ==
    /\ request[c]
    /\ process.state # "down"
    /\ request' = [request EXCEPT ![c] = FALSE]
    /\ IF Full
       THEN Reply(c, "retryable")
       ELSE /\ task' = [task EXCEPT ![c] = [NoTask EXCEPT !.phase = "reading"]]
            /\ UNCHANGED reply
    /\ UNCHANGED <<client, process, box, expired>>

\* 'aborted' of the request and 'close' of the response: the connection of
\* an unanswered task is gone.
HandleClose(c) ==
    /\ task[c].phase # "none"
    /\ client[c].answer # "open"
    /\ ~task[c].outer
    /\ task' = [task EXCEPT ![c] = [task[c] EXCEPT !.outer = TRUE,
                                                 !.inner = task[c].inner \/ c \in Active]]
    /\ UNCHANGED <<client, request, reply, process, box, expired>>

\* The body breaks off with the connection.
HandleBroken(c) ==
    /\ task[c].phase = "reading"
    /\ client[c].answer # "open"
    /\ Reply(c, "retryable")
    /\ UNCHANGED <<client, request, process, box, expired>>

\* The body is there: DUPLICATE_ATTEMPT, or supervisor.execute up to its
\* first await, where RUNNER_NOT_READY and RUNNER_CAPACITY become
\* EXECUTION_UNAVAILABLE.
Execute(c) ==
    /\ task[c].phase = "reading"
    /\ IF \/ \E d \in Active : KeyOf[d] = KeyOf[c]
          \/ ~process.ready
          \/ process.state = "closing"
          \/ Cardinality(Active) >= Slots
       THEN Reply(c, "retryable")
       ELSE /\ task' = [task EXCEPT ![c] =
                           [task[c] EXCEPT !.phase = "looping", !.inner = task[c].outer,
                                           !.life = process.life]]
            /\ UNCHANGED reply
    /\ UNCHANGED <<client, request, process, box, expired>>

-----------------------------------------------------------------------------
(* SandboxSupervisor.execute *)

\* The reply, when any abort counts as the caller's.
FinishedAny(c, e) ==
    Reply(c, CASE e \in {"ok", "done"} /\ ~task[c].inner -> "observed"
               [] e # "error" /\ task[c].inner -> "cancelled"
               [] OTHER -> "retryable")

\* execute returns or throws e: what the server replies.  Only an abort of
\* the server's own controller is a cancellation; the supervisor's timer and
\* stopAccepting abort the inner one.
Finished(c, e) ==
    Reply(c, CASE e \in {"ok", "done"} /\ ~task[c].outer -> "observed"
               [] e # "error" /\ task[c].outer -> "cancelled"
               [] OTHER -> "retryable")

\* The try block of sandbox is left with e: destroy starts.
Leave(c, e) ==
    task' = [task EXCEPT ![c] = [task[c] EXCEPT !.phase = "removing", !.ending = e]]

\* The next sandbox, or the return after the last.  An abort is thrown by
\* the loop, before the first sandbox of a Java call by sandbox itself.
Loop(c) ==
    /\ task[c].phase = "looping"
    /\ \/ /\ task[c].inner
          /\ Finished(c, "aborted")
          /\ UNCHANGED box
       \/ /\ task[c].inner
          /\ task[c].done = 0
          /\ Leave(c, "aborted")
          /\ UNCHANGED <<reply, box>>
       \/ /\ ~task[c].inner
          /\ task' = [task EXCEPT ![c].phase = "creating"]
          /\ box' = [box EXCEPT ![c] = "pending"]
          /\ UNCHANGED reply
    /\ UNCHANGED <<client, request, process, expired>>

\* `docker create` settles: the container is there, or the command failed,
\* timed out or was killed.
Created(c) ==
    /\ task[c].phase = "creating"
    /\ \/ /\ box[c] = "created"
          /\ ~task[c].inner
          /\ task' = [task EXCEPT ![c].phase = "verifying"]
       \/ /\ task[c].inner
          /\ Leave(c, "aborted")
       \/ Leave(c, "error")
    /\ UNCHANGED <<client, request, reply, process, box, expired>>

\* `docker inspect`, which no signal kills: the container has the settings it
\* was asked to have, or execute fails.  `docker start` follows, and is not
\* sent when the signal has been aborted meanwhile.
verifyContainer(c) ==
    /\ task[c].phase = "verifying"
    /\ \/ /\ box[c] = "created"
          /\ IF task[c].inner
             THEN Leave(c, "aborted") /\ UNCHANGED box
             ELSE /\ task' = [task EXCEPT ![c].phase = "starting"]
                  /\ box' = [box EXCEPT ![c] = "starting"]
       \/ /\ Leave(c, "error")
          /\ UNCHANGED box
    /\ UNCHANGED <<client, request, reply, process, expired>>

\* `docker start` and the extraction of the archive settle.
Started(c) ==
    /\ task[c].phase = "starting"
    /\ \/ /\ box[c] = "up"
          /\ ~task[c].inner
          /\ task' = [task EXCEPT ![c].phase = "running"]
       \/ /\ task[c].inner
          /\ Leave(c, "aborted")
       \/ Leave(c, "error")
    /\ UNCHANGED <<client, request, reply, process, box, expired>>

\* What is known of the container when the program has ended and cannot be
\* measured: it is there, running or stopped, or the inspection fails.
containerState(c) == box[c] = "up"

\* The body settles: the program ended in its container, or it hit a limit,
\* which ends the observation; a killed command leaves the program running.
Ran(c) ==
    /\ task[c].phase = "running"
    /\ \/ /\ containerState(c)
          /\ Leave(c, "ok")
       \/ Leave(c, "done")
       \/ Leave(c, "error")
    /\ UNCHANGED <<client, request, reply, process, box, expired>>

\* The signal kills the command of the body.
RanAborted(c) ==
    /\ task[c].phase = "running"
    /\ task[c].inner
    /\ Leave(c, "aborted")
    /\ UNCHANGED <<client, request, reply, process, box, expired>>

\* SandboxCleanupError, without the latch on new executions.
UnconfirmedOpen(c) ==
    /\ process' = process
    /\ Reply(c, "unconfirmed")

\* destroy threw: the supervisor takes no more executions, and the server
\* replies SANDBOX_CLEANUP_UNCONFIRMED.
Unconfirmed(c) ==
    /\ process' = [process EXCEPT !.ready = FALSE]
    /\ Reply(c, "unconfirmed")

\* `docker rm --force`, whose exit code is ignored; a command that times out
\* makes destroy throw, whether the daemon removes the container or not.
Remove(c) ==
    /\ task[c].phase = "removing"
    /\ \/ /\ task' = [task EXCEPT ![c].phase = "listing"]
          /\ box' = [box EXCEPT ![c] = IF Exists(c) THEN "none" ELSE @]
          /\ UNCHANGED <<reply, process>>
       \/ /\ Exists(c)
          /\ task' = [task EXCEPT ![c].phase = "listing"]
          /\ UNCHANGED <<box, reply, process>>
       \/ /\ Unconfirmed(c)
          /\ box' \in {box, [box EXCEPT ![c] = IF Exists(c) THEN "none" ELSE @]}
    /\ UNCHANGED <<client, request, expired>>

\* The sandbox is gone: the next case, the observation or the exception.
Confirmed(c) ==
    \/ /\ task[c].ending = "ok"
       /\ task[c].done + 1 < MaxSandboxes
       /\ task' = [task EXCEPT ![c] = [task[c] EXCEPT !.phase = "looping",
                                                    !.done = task[c].done + 1]]
       /\ UNCHANGED reply
    \/ Finished(c, task[c].ending)

\* The listing is not looked at.
ListTrusting(c) ==
    /\ task[c].phase = "listing"
    /\ Confirmed(c)
    /\ UNCHANGED <<client, request, process, box, expired>>

\* `docker ps`: the container is listed, or the command fails, or it is gone.
List(c) ==
    /\ task[c].phase = "listing"
    /\ \/ /\ ~Exists(c)
          /\ Confirmed(c)
          /\ UNCHANGED process
       \/ Unconfirmed(c)
    /\ UNCHANGED <<client, request, box, expired>>

\* The total timer of 30 s, and with it the deadline on the label.
Expire(c) ==
    /\ ~expired[c]
    /\ task[c].life > 0
    /\ expired' = [expired EXCEPT ![c] = TRUE]
    /\ task' = [task EXCEPT ![c].inner = @ \/ c \in Active]
    /\ UNCHANGED <<client, request, reply, process, box>>

-----------------------------------------------------------------------------
(* The daemon, the janitor and the process *)

\* `docker create` completes, also after its CLI was killed.
DaemonCreate(c) ==
    /\ box[c] = "pending"
    /\ box' = [box EXCEPT ![c] = "created"]
    /\ UNCHANGED <<client, request, reply, process, task, expired>>

\* `docker create` fails.
DaemonRefuse(c) ==
    /\ box[c] = "pending"
    /\ box' = [box EXCEPT ![c] = "none"]
    /\ UNCHANGED <<client, request, reply, process, task, expired>>

\* `docker start` completes, also after its CLI was killed.
DaemonStart(c) ==
    /\ box[c] = "starting"
    /\ box' = [box EXCEPT ![c] = "up"]
    /\ UNCHANGED <<client, request, reply, process, task, expired>>

\* The janitor removes only what never ran.
ReapIdle(c) ==
    /\ expired[c]
    /\ box[c] = "created"
    /\ box' = [box EXCEPT ![c] = "none"]
    /\ UNCHANGED <<client, request, reply, process, task, expired>>

\* reapExpired, in the janitor's process: a container past its deadline goes.
Reap(c) ==
    /\ expired[c]
    /\ Exists(c)
    /\ box' = [box EXCEPT ![c] = "none"]
    /\ UNCHANGED <<client, request, reply, process, task, expired>>

\* The process dies: its tasks go, the containers stay, the socket is closed.
Crash ==
    /\ process.state # "down"
    /\ process' = [process EXCEPT !.state = "down"]
    /\ task' = [c \in Call |-> Over(c)]
    /\ request' = [c \in Call |-> FALSE]
    /\ client' = [c \in Call |->
                    IF client[c].cancel # "held" THEN client[c]
                    ELSE [client[c] EXCEPT !.cancel = "over",
                            !.answer = IF client[c].answer = "open" THEN "unconfirmed"
                                       ELSE client[c].answer]]
    /\ UNCHANGED <<reply, box, expired>>

\* host.close on a signal: closing, and stopAccepting aborts every execution.
Close ==
    /\ process.state = "up"
    /\ process' = [process EXCEPT !.state = "closing"]
    /\ task' = [c \in Call |->
                  [task[c] EXCEPT !.inner = @ \/ c \in Active]]
    /\ UNCHANGED <<client, request, reply, box, expired>>

\* Every task has settled: the process ends.
Closed ==
    /\ process.state = "closing"
    /\ Admitted = {}
    /\ process' = [process EXCEPT !.state = "down"]
    /\ request' = [c \in Call |-> FALSE]
    /\ UNCHANGED <<client, reply, task, box, expired>>

\* The process once preflight has passed; if it does not, main ends.
preflight(p) == [p EXCEPT !.ready = TRUE]

\* main: preflight, a sweep of the expired containers, then the socket.
Boot ==
    /\ process.state = "down"
    /\ process.life < MaxLife
    /\ process' = preflight([process EXCEPT !.state = "up", !.life = @ + 1])
    /\ box' = [c \in Call |-> IF expired[c] /\ Exists(c) THEN "none" ELSE box[c]]
    /\ UNCHANGED <<client, request, reply, task, expired>>

Next ==
    \/ \E c \in Call :
          \/ ClientExecute(c) \/ ClientAbort(c) \/ ClientRead(c) \/ ClientLose(c)
          \/ CancelArrive(c) \/ CancelHandle(c) \/ CancelLose(c)
          \/ Handle(c) \/ HandleClose(c) \/ HandleBroken(c) \/ Execute(c)
          \/ Loop(c) \/ Created(c) \/ verifyContainer(c) \/ Started(c) \/ Ran(c) \/ RanAborted(c)
          \/ Remove(c) \/ List(c) \/ Expire(c)
          \/ DaemonCreate(c) \/ DaemonRefuse(c) \/ DaemonStart(c) \/ Reap(c)
    \/ Crash \/ Close \/ Closed \/ Boot

Spec == Init /\ [][Next]_vars

-----------------------------------------------------------------------------
(* Fairness *)

\* The steps of the code and of the daemon that nothing can hold up: the
\* commands of the supervisor settle (each has a timeout), the daemon
\* completes what it was asked, the socket delivers.
FairSteps ==
    \A c \in Call :
       /\ WF_vars(Handle(c)) /\ WF_vars(HandleClose(c))
       /\ WF_vars(HandleBroken(c) \/ Execute(c))
       /\ WF_vars(Loop(c)) /\ WF_vars(Created(c)) /\ WF_vars(verifyContainer(c))
       /\ WF_vars(Started(c))
       /\ WF_vars(RanAborted(c)) /\ WF_vars(Remove(c)) /\ WF_vars(List(c))
       /\ WF_vars(DaemonCreate(c) \/ DaemonRefuse(c)) /\ WF_vars(DaemonStart(c))

\* No response will come: the process that held the call is gone.
Disconnected(c) ==
    /\ client[c].answer = "open"
    /\ ~request[c]
    /\ reply[c] = "none"
    /\ task[c].phase = "none"

\* The client's own steps: it reads the response, sees a broken connection,
\* and its cancel requests are delivered and answered.
FairClient ==
    \A c \in Call :
       /\ WF_vars(ClientRead(c))
       /\ WF_vars(Disconnected(c) /\ ClientLose(c))
       /\ WF_vars(CancelArrive(c)) /\ WF_vars(CancelHandle(c))

\* Time passes, and systemd starts the janitor again and again.
FairHost == \A c \in Call : WF_vars(Expire(c)) /\ WF_vars(Reap(c))

-----------------------------------------------------------------------------
(* Properties *)

Runs(c) == box[c] \in {"starting", "up"}

\* A call that settles with anything but a SandboxCleanupError has no
\* container that runs or can still be started, whatever was killed, failed
\* or timed out on the way: the worker may judge, report CANCELLED or retry
\* the job without a second guest beside the first.
GuestStopped ==
    \A c \in Call :
       client[c].answer \in {"observed", "cancelled", "retryable"} => ~Runs(c)

\* Containers that one life of the supervisor started and that still run
\* never exceed its slots, those it lost track of included: a slot is only
\* free once the container is gone, or there are no new executions.
GuestBound ==
    \A l \in 1..MaxLife :
       Cardinality({c \in Call : Runs(c) /\ task[c].life = l}) <= Slots

\* A call is only reported as cancelled when a worker cancelled the attempt:
\* the total timer, a shutdown of the supervisor and a lost connection all
\* abort executions too, and none of them ends a job as CANCELLED.
HonestCancel ==
    \A c \in Call : client[c].answer = "cancelled" =>
       \E d \in Call : KeyOf[d] = KeyOf[c] /\ client[d].abort

\* An aborted call settles by the cancellation itself, with no timer and
\* although the guest never ends: the cancel request finds the execution even
\* when it overtakes it, or the client gives up for good.
AbortEnds ==
    FairClient => \A c \in Call :
       (client[c].answer = "open" /\ client[c].abort) ~> client[c].answer # "open"

\* Every execution comes to an end and leaves no container behind, whatever
\* crashed in between: by the total timer and the supervisor's own cleanup or
\* by the janitor.
Ends ==
    FairHost => \A c \in Call :
       c \in Active ~> [](c \notin Active /\ box[c] = "none")
=============================================================================
