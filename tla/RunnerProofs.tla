---------------------------- MODULE RunnerProofs ----------------------------
(***************************************************************************)
(* The runner host for any number of calls, slots, sandboxes and lives of  *)
(* the supervisor: an answer other than a SandboxCleanupError leaves no    *)
(* guest behind, the guests of one life never exceed its slots, and only a *)
(* cancelled attempt is reported as cancelled.                             *)
(***************************************************************************)
EXTENDS Runner, FiniteSetTheorems, TLAPS

-----------------------------------------------------------------------------
(* Types *)

Settled == {"observed", "cancelled", "retryable"}

Answer == {"idle", "open", "unconfirmed"} \cup Settled

Cancel == {"none", "sent", "held", "over"}

Response == {"none", "unconfirmed"} \cup Settled

Client == [answer: Answer, abort: BOOLEAN, cancel: Cancel]

Ending == {"ok", "done", "aborted", "error"}

Phase == {"none", "reading", "looping", "creating", "verifying", "starting", "running",
          "removing", "listing"}

Task == [phase: Phase, outer: BOOLEAN, inner: BOOLEAN, ending: Ending, done: Nat,
         life: Nat]

TypeOK ==
    /\ client \in [Call -> Client]
    /\ request \in [Call -> BOOLEAN]
    /\ reply \in [Call -> Response]
    /\ process \in [state: {"up", "closing", "down"}, ready: BOOLEAN, life: Nat]
    /\ task \in [Call -> Task]
    /\ box \in [Call -> {"none", "pending", "created", "starting", "up"}]
    /\ expired \in [Call -> BOOLEAN]

-----------------------------------------------------------------------------
(* The inductive invariant *)

\* Somebody has aborted the attempt of c.
Cancelled(c) == \E d \in Call : KeyOf[d] = KeyOf[c] /\ client[d].abort

\* A call that has not been read by the server has nothing there.
Unread(c) ==
    client[c].answer = "idle" \/ request[c] =>
        /\ task[c] = NoTask /\ box[c] = "none" /\ reply[c] = "none"
        /\ client[c].answer = "idle" => ~request[c]

\* The container runs only from `docker start` on; a call with a response or an answer has
\* no task any more and, unless the cleanup is unconfirmed, no container that runs.
Contained(c) ==
    /\ task[c].phase = "reading" => box[c] = "none" /\ task[c].life = 0
    /\ task[c].phase \in {"looping", "creating", "verifying"} => ~Runs(c)
    /\ reply[c] # "none" \/ client[c].answer \in Settled =>
        task[c].phase = "none" /\ ~request[c]
    /\ reply[c] \in Settled \/ client[c].answer \in Settled => ~Runs(c)

\* A task is one of the process that is up; what it has lost track of runs only while it
\* takes no new executions.
Owned(c) ==
    /\ task[c].life <= process.life
    /\ task[c].phase # "none" => process.state # "down"
    /\ c \in Active => task[c].life = process.life
    /\ process.ready /\ process.state # "down" /\ Runs(c) /\ task[c].life = process.life =>
        c \in Active

\* What stands for a cancellation has one behind it.
Asked(c) ==
    /\ client[c].cancel \in {"sent", "held"} => client[c].abort
    /\ task[c].outer /\ client[c].answer = "open" => Cancelled(c)
    /\ reply[c] = "cancelled" \/ client[c].answer = "cancelled" => Cancelled(c)

CallInv(c) == Unread(c) /\ Contained(c) /\ Owned(c) /\ Asked(c)

\* The executions of one life that are under way or have left a container that runs.
Guest(c) == c \in Active \/ Runs(c)

Guests(l) == {c \in Call : task[c].life = l /\ Guest(c)}

GuestsBound ==
    \A l \in 1..MaxLife : IsFiniteSet(Guests(l)) /\ Cardinality(Guests(l)) <= Slots

RunnerInv == TypeOK /\ (\A c \in Call : CallInv(c)) /\ GuestsBound

-----------------------------------------------------------------------------
(* Typing *)

\* A client or a task with other values in some of its fields.
LEMMA ClientAnswer == ASSUME NEW r \in Client, NEW a \in Answer
                      PROVE  [r EXCEPT !.answer = a] \in Client
  BY ZenonT(30) DEF Client

LEMMA ClientCancel == ASSUME NEW r \in Client, NEW k \in Cancel
                      PROVE  [r EXCEPT !.cancel = k] \in Client
  BY ZenonT(30) DEF Client

LEMMA ClientAborted == ASSUME NEW r \in Client, NEW k \in Cancel
                       PROVE  [r EXCEPT !.abort = TRUE, !.cancel = k] \in Client
  BY ZenonT(30) DEF Client

LEMMA ClientOver == ASSUME NEW r \in Client, NEW a \in Answer
                    PROVE  [r EXCEPT !.cancel = "over", !.answer = a] \in Client
  BY ZenonT(30) DEF Client, Cancel

LEMMA TaskPhase == ASSUME NEW t \in Task, NEW p \in Phase PROVE [t EXCEPT !.phase = p] \in Task
  BY ZenonT(30) DEF Task

LEMMA TaskInner == ASSUME NEW t \in Task, NEW b \in BOOLEAN PROVE [t EXCEPT !.inner = b] \in Task
  BY ZenonT(30) DEF Task

LEMMA TaskAborted == ASSUME NEW t \in Task, NEW b \in BOOLEAN
                     PROVE  [t EXCEPT !.outer = TRUE, !.inner = b] \in Task
  BY ZenonT(30) DEF Task

LEMMA TaskEntered == ASSUME NEW t \in Task, NEW b \in BOOLEAN, NEW n \in Nat
                     PROVE  [t EXCEPT !.phase = "looping", !.inner = b, !.life = n] \in Task
  BY ZenonT(30) DEF Task, Phase

LEMMA TaskLeft == ASSUME NEW t \in Task, NEW e \in Ending
                  PROVE  [t EXCEPT !.phase = "removing", !.ending = e] \in Task
  BY ZenonT(30) DEF Task, Phase

LEMMA TaskNext == ASSUME NEW t \in Task, NEW n \in Nat
                  PROVE  [t EXCEPT !.phase = "looping", !.done = n] \in Task
  BY ZenonT(30) DEF Task, Phase

LEMMA ReplyType ==
    ASSUME TypeOK, NEW c \in Call, NEW value \in Response, Reply(c, value)
    PROVE  reply' \in [Call -> Response] /\ task' \in [Call -> Task]
<1>1. Over(c) \in Task
  BY ZenonT(30) DEF TypeOK, Over, NoTask, Task, Phase, Ending
<1>2. (IF client[c].answer = "open" THEN value ELSE "none") \in Response
  BY DEF Response
<1> QED
  BY <1>1, <1>2 DEF TypeOK, Reply

LEMMA LeaveType ==
    ASSUME TypeOK, NEW c \in Call, NEW e \in Ending, Leave(c, e)
    PROVE  task' \in [Call -> Task]
<1>1. [task[c] EXCEPT !.phase = "removing", !.ending = e] \in Task
  BY TaskLeft DEF TypeOK
<1> QED
  BY <1>1 DEF TypeOK, Leave

LEMMA DestroyedType ==
    ASSUME TypeOK, NEW c \in Call, Destroyed(c)
    PROVE  client' \in [Call -> Client] /\ reply' \in [Call -> Response]
<1>0. client[c] \in Client /\ client[c].answer \in Answer
  BY DEF TypeOK, Client
<1> DEFINE a == IF client[c].answer = "open" THEN "unconfirmed" ELSE client[c].answer
<1>1. a \in Answer /\ "over" \in Cancel
  BY <1>0 DEF Answer, Cancel
<1>2. client' = [client EXCEPT ![c] = [client[c] EXCEPT !.cancel = "over", !.answer = a]]
  BY DEF Destroyed
<1> HIDE DEF a
<1>3. [client[c] EXCEPT !.cancel = "over", !.answer = a] \in Client
  BY <1>0, <1>1, ClientOver
<1>4. client' \in [Call -> Client]
  BY <1>2, <1>3 DEF TypeOK
<1>5. reply' \in [Call -> Response]
  BY DEF TypeOK, Destroyed, Response
<1> QED
  BY <1>4, <1>5

LEMMA ClientType ==
    ASSUME TypeOK, NEW c \in Call,
           \/ ClientExecute(c) \/ ClientAbort(c) \/ ClientRead(c) \/ ClientLose(c)
           \/ CancelArrive(c) \/ CancelHandle(c) \/ CancelLose(c)
    PROVE  TypeOK'
<1>0. client[c] \in Client /\ reply[c] \in Response
  BY DEF TypeOK
<1>a. ASSUME NEW a \in Answer PROVE [client EXCEPT ![c].answer = a] \in [Call -> Client]
  BY <1>0, ClientAnswer DEF TypeOK
<1>k. ASSUME NEW k \in Cancel PROVE [client EXCEPT ![c].cancel = k] \in [Call -> Client]
  BY <1>0, ClientCancel DEF TypeOK
<1>1. CASE ClientExecute(c)
  <2>1. client' \in [Call -> Client]
    BY <1>1, <1>a, ZenonT(30) DEF ClientExecute, Answer, Settled
  <2> QED
    BY <1>1, <2>1 DEF TypeOK, ClientExecute
<1>2. CASE ClientAbort(c)
  <2> DEFINE k == IF client[c].answer = "open" THEN "sent" ELSE "none"
  <2>1. [client[c] EXCEPT !.abort = TRUE, !.cancel = k] \in Client
    <3>1. k \in Cancel
      BY DEF Cancel
    <3> HIDE DEF k
    <3> QED
      BY <1>0, <3>1, ClientAborted, ZenonT(30)
  <2>2. client' \in [Call -> Client]
    BY <1>2, <2>1 DEF ClientAbort, TypeOK
  <2> QED
    BY <1>2, <2>2 DEF TypeOK, ClientAbort
<1>3. CASE ClientRead(c)
  <2>1. reply[c] \in Answer
    BY <1>0, <1>3 DEF ClientRead, Response, Answer
  <2>2. client' \in [Call -> Client]
    BY <1>3, <1>a, <2>1, ZenonT(30) DEF ClientRead
  <2> QED
    BY <1>3, <2>2 DEF TypeOK, ClientRead, Response
<1>4. CASE ClientLose(c) \/ CancelLose(c)
  BY <1>4, DestroyedType DEF TypeOK, ClientLose, CancelLose
<1>5. CASE CancelArrive(c)
  <2>1. client' \in [Call -> Client] /\ reply' \in [Call -> Response]
    <3>1. CASE client' = [client EXCEPT ![c].cancel = "held"] /\ reply' = reply
      BY <1>k, <3>1, ZenonT(30) DEF TypeOK, Cancel
    <3> QED
      BY <1>5, <3>1, DestroyedType, ZenonT(30) DEF CancelArrive
  <2> QED
    BY <1>5, <2>1 DEF TypeOK, CancelArrive
<1>6. CASE CancelHandle(c)
  <2>1. client' \in [Call -> Client] /\ reply' = reply
    BY <1>6, <1>k, ZenonT(30) DEF CancelHandle, Cancel
  <2>2. ASSUME NEW d \in Call PROVE [task[d] EXCEPT !.outer = TRUE, !.inner = TRUE] \in Task
    <3>1. task[d] \in Task
      BY DEF TypeOK
    <3> QED
      BY <3>1, TaskAborted, ZenonT(30)
  <2>3. task' \in [Call -> Task]
    <3>1. CASE task' = task
      BY <3>1 DEF TypeOK
    <3>2. CASE task' = [d \in Call |->
                          IF d \in {x \in Active : KeyOf[x] = KeyOf[c]}
                          THEN [task[d] EXCEPT !.outer = TRUE, !.inner = TRUE]
                          ELSE task[d]]
      <4>1. ASSUME NEW d \in Call PROVE task'[d] \in Task
        BY <2>2, <3>2 DEF TypeOK
      <4> QED
        BY <3>2, <4>1
    <3> QED
      BY <1>6, <3>1, <3>2, ZenonT(30) DEF CancelHandle
  <2> QED
    BY <1>6, <2>1, <2>3 DEF TypeOK, CancelHandle
<1> QED
  BY <1>1, <1>2, <1>3, <1>4, <1>5, <1>6

LEMMA ServerType ==
    ASSUME TypeOK, NEW c \in Call,
           Handle(c) \/ HandleClose(c) \/ HandleBroken(c) \/ Execute(c)
    PROVE  TypeOK'
<1>0. task[c] \in Task /\ task[c].inner \in BOOLEAN /\ task[c].outer \in BOOLEAN
  BY DEF TypeOK, Task
<1>1. ASSUME Reply(c, "retryable") PROVE reply' \in [Call -> Response] /\ task' \in [Call -> Task]
  BY <1>1, ReplyType DEF Response, Settled
<1>2. CASE Handle(c)
  <2>1. [NoTask EXCEPT !.phase = "reading"] \in Task
    BY DEF NoTask, Task, Phase, Ending
  <2>2. reply' \in [Call -> Response] /\ task' \in [Call -> Task]
    BY <1>1, <1>2, <2>1 DEF Handle, TypeOK
  <2> QED
    BY <1>2, <2>2 DEF TypeOK, Handle
<1>3. CASE HandleClose(c)
  <2>1. [task[c] EXCEPT !.outer = TRUE, !.inner = task[c].inner \/ c \in Active] \in Task
    BY <1>0, TaskAborted, ZenonT(30)
  <2> QED
    BY <1>3, <2>1 DEF TypeOK, HandleClose
<1>4. CASE HandleBroken(c)
  BY <1>1, <1>4 DEF TypeOK, HandleBroken
<1>5. CASE Execute(c)
  <2>1. [task[c] EXCEPT !.phase = "looping", !.inner = task[c].outer, !.life = process.life]
          \in Task
    <3>1. process.life \in Nat
      BY DEF TypeOK
    <3> QED
      BY <1>0, <3>1, TaskEntered, ZenonT(30)
  <2>2. reply' \in [Call -> Response] /\ task' \in [Call -> Task]
    BY <1>1, <1>5, <2>1 DEF Execute, TypeOK
  <2> QED
    BY <1>5, <2>2 DEF TypeOK, Execute
<1> QED
  BY <1>2, <1>3, <1>4, <1>5

LEMMA FinishedReply ==
    ASSUME NEW c \in Call, NEW e, Finished(c, e)
    PROVE  \E value \in Settled : Reply(c, value)
  BY DEF Finished, Settled

LEMMA SandboxType ==
    ASSUME TypeOK, NEW c \in Call,
           \/ Loop(c) \/ Created(c) \/ verifyContainer(c) \/ Started(c) \/ Ran(c)
           \/ RanAborted(c) \/ Remove(c) \/ List(c) \/ Expire(c)
    PROVE  TypeOK'
<1>0. task[c] \in Task /\ task[c].inner \in BOOLEAN /\ task[c].done \in Nat
  BY DEF TypeOK, Task
<1>p. ASSUME NEW p \in Phase PROVE [task EXCEPT ![c].phase = p] \in [Call -> Task]
  BY <1>0, TaskPhase DEF TypeOK
<1>f. ASSUME NEW e, Finished(c, e)
      PROVE  reply' \in [Call -> Response] /\ task' \in [Call -> Task]
  BY <1>f, FinishedReply, ReplyType, ZenonT(30) DEF Response
<1>u. ASSUME Unconfirmed(c)
      PROVE  /\ reply' \in [Call -> Response] /\ task' \in [Call -> Task]
             /\ process' \in [state: {"up", "closing", "down"}, ready: BOOLEAN, life: Nat]
  <2>1. reply' \in [Call -> Response] /\ task' \in [Call -> Task]
    BY <1>u, ReplyType DEF Unconfirmed, Response
  <2>2. process' \in [state: {"up", "closing", "down"}, ready: BOOLEAN, life: Nat]
    BY <1>u DEF Unconfirmed, TypeOK
  <2> QED
    BY <2>1, <2>2
<1>l. ASSUME NEW e \in Ending, Leave(c, e) PROVE task' \in [Call -> Task]
  BY <1>l, LeaveType
<1>1. CASE Loop(c)
  <2>1. reply' \in [Call -> Response] /\ task' \in [Call -> Task]
    <3>1. CASE Finished(c, "aborted")
      BY <1>f, <3>1
    <3>2. CASE Leave(c, "aborted") /\ UNCHANGED reply
      BY <1>l, <3>2 DEF Ending, TypeOK
    <3>3. CASE task' = [task EXCEPT ![c].phase = "creating"] /\ UNCHANGED reply
      BY <1>p, <3>3 DEF Phase, TypeOK
    <3> QED
      BY <1>1, <3>1, <3>2, <3>3 DEF Loop
  <2>2. box' = box \/ box' = [box EXCEPT ![c] = "pending"]
    BY <1>1 DEF Loop
  <2> QED
    BY <1>1, <2>1, <2>2 DEF TypeOK, Loop
<1>2. CASE Created(c) \/ Started(c) \/ Ran(c) \/ RanAborted(c)
  <2>1. task' \in [Call -> Task]
    BY <1>2, <1>p, <1>l, ZenonT(30) DEF Created, Started, Ran, RanAborted, Ending, Phase
  <2> QED
    BY <1>2, <2>1, ZenonT(30) DEF TypeOK, Created, Started, Ran, RanAborted
<1>3. CASE verifyContainer(c)
  <2>1. task' \in [Call -> Task]
    BY <1>3, <1>p, <1>l, ZenonT(30) DEF verifyContainer, Ending, Phase
  <2>2. box' = box \/ box' = [box EXCEPT ![c] = "starting"]
    BY <1>3 DEF verifyContainer
  <2> QED
    BY <1>3, <2>1, <2>2 DEF TypeOK, verifyContainer
<1>4. CASE Remove(c)
  <2>1. /\ reply' \in [Call -> Response] /\ task' \in [Call -> Task]
        /\ process' \in [state: {"up", "closing", "down"}, ready: BOOLEAN, life: Nat]
    <3>1. CASE Unconfirmed(c)
      BY <1>u, <3>1
    <3>2. CASE task' = [task EXCEPT ![c].phase = "listing"] /\ UNCHANGED <<reply, process>>
      BY <1>p, <3>2 DEF Phase, TypeOK
    <3> QED
      BY <1>4, <3>1, <3>2 DEF Remove
  <2>2. box' = box \/ box' = [box EXCEPT ![c] = IF Exists(c) THEN "none" ELSE box[c]]
    BY <1>4 DEF Remove
  <2> QED
    BY <1>4, <2>1, <2>2 DEF TypeOK, Remove
<1>5. CASE List(c)
  <2>1. /\ reply' \in [Call -> Response] /\ task' \in [Call -> Task]
        /\ process' \in [state: {"up", "closing", "down"}, ready: BOOLEAN, life: Nat]
    <3>1. CASE Unconfirmed(c)
      BY <1>u, <3>1
    <3>2. CASE Confirmed(c) /\ UNCHANGED process
      <4>1. CASE Finished(c, task[c].ending)
        BY <1>f, <3>2, <4>1 DEF TypeOK
      <4>2. CASE /\ task' = [task EXCEPT ![c] = [task[c] EXCEPT !.phase = "looping",
                                                                !.done = task[c].done + 1]]
                 /\ UNCHANGED reply
        <5> DEFINE n == task[c].done + 1
        <5>1. n \in Nat
          BY <1>0
        <5> HIDE DEF n
        <5>2. [task[c] EXCEPT !.phase = "looping", !.done = n] \in Task
          BY <1>0, <5>1, TaskNext, ZenonT(30)
        <5> QED
          BY <3>2, <4>2, <5>2 DEF TypeOK, n
      <4> QED
        BY <3>2, <4>1, <4>2 DEF Confirmed
    <3> QED
      BY <1>5, <3>1, <3>2 DEF List
  <2> QED
    BY <1>5, <2>1 DEF TypeOK, List
<1>6. CASE Expire(c)
  <2>1. [task[c] EXCEPT !.inner = task[c].inner \/ c \in Active] \in Task
    BY <1>0, TaskInner, ZenonT(30)
  <2> QED
    BY <1>6, <2>1 DEF TypeOK, Expire
<1> QED
  BY <1>1, <1>2, <1>3, <1>4, <1>5, <1>6

LEMMA DaemonType ==
    ASSUME TypeOK, NEW c \in Call,
           DaemonCreate(c) \/ DaemonRefuse(c) \/ DaemonStart(c) \/ Reap(c)
    PROVE  TypeOK'
  BY DEF TypeOK, DaemonCreate, DaemonRefuse, DaemonStart, Reap

\* What main leaves of the process record once the socket is open.
LEMMA Booted ==
    ASSUME TypeOK, Boot
    PROVE  /\ process' \in [state: {"up", "closing", "down"}, ready: BOOLEAN, life: Nat]
           /\ process'.state = "up" /\ process'.ready = TRUE
           /\ process'.life = process.life + 1
<1> DEFINE n == process.life + 1
           p == [process EXCEPT !.state = "up", !.life = n]
<1>1. process \in [state: {"up", "closing", "down"}, ready: BOOLEAN, life: Nat] /\ n \in Nat
  BY DEF TypeOK
<1>2. process' = [p EXCEPT !.ready = TRUE]
  BY DEF Boot, preflight
<1> HIDE DEF n
<1>3. /\ p \in [state: {"up", "closing", "down"}, ready: BOOLEAN, life: Nat]
      /\ p.state = "up" /\ p.life = n
  BY <1>1, ZenonT(30)
<1> HIDE DEF p
<1> QED
  BY <1>2, <1>3 DEF n

LEMMA ProcessType ==
    ASSUME TypeOK, Crash \/ Close \/ Closed \/ Boot
    PROVE  TypeOK'
<1>1. CASE Crash
  <2>1. ASSUME NEW c \in Call PROVE Over(c) \in Task
    BY ZenonT(30) DEF TypeOK, Over, NoTask, Task, Phase, Ending
  <2>2. ASSUME NEW c \in Call
        PROVE  [client[c] EXCEPT !.cancel = "over",
                   !.answer = IF client[c].answer = "open" THEN "unconfirmed"
                              ELSE client[c].answer] \in Client
    <3> DEFINE a == IF client[c].answer = "open" THEN "unconfirmed" ELSE client[c].answer
    <3>1. client[c] \in Client /\ a \in Answer
      BY DEF TypeOK, Client, Answer
    <3> HIDE DEF a
    <3>2. [client[c] EXCEPT !.cancel = "over", !.answer = a] \in Client
      BY <3>1, ClientOver
    <3> QED
      BY <3>2 DEF a
  <2>3. client' \in [Call -> Client]
    BY <1>1, <2>2, ZenonT(30) DEF TypeOK, Crash
  <2>4. process' \in [state: {"up", "closing", "down"}, ready: BOOLEAN, life: Nat]
    BY <1>1 DEF TypeOK, Crash
  <2>5. task' \in [Call -> Task]
    BY <1>1, <2>1, ZenonT(30) DEF Crash
  <2> QED
    BY <1>1, <2>3, <2>4, <2>5 DEF TypeOK, Crash
<1>2. CASE Close
  <2>1. ASSUME NEW c \in Call
        PROVE  [task[c] EXCEPT !.inner = task[c].inner \/ c \in Active] \in Task
    <3>1. task[c] \in Task /\ task[c].inner \in BOOLEAN
      BY DEF TypeOK, Task
    <3> QED
      BY <3>1, TaskInner
  <2>2. task' \in [Call -> Task]
    BY <1>2, <2>1, ZenonT(30) DEF Close
  <2> QED
    BY <1>2, <2>2 DEF TypeOK, Close
<1>3. CASE Closed
  BY <1>3 DEF TypeOK, Closed
<1>4. CASE Boot
  <2>1. process' \in [state: {"up", "closing", "down"}, ready: BOOLEAN, life: Nat]
    BY <1>4, Booted
  <2> QED
    BY <1>4, <2>1 DEF TypeOK, Boot
<1> QED
  BY <1>1, <1>2, <1>3, <1>4

LEMMA NextType == ASSUME TypeOK, [Next]_vars PROVE TypeOK'
<1>1. CASE UNCHANGED vars
  BY <1>1 DEF TypeOK, vars
<1>2. CASE Next
  BY <1>2, ClientType, ServerType, SandboxType, DaemonType, ProcessType DEF Next
<1> QED
  BY <1>1, <1>2

-----------------------------------------------------------------------------
(* What a step does to one call *)

\* The step keeps the invariant of c and makes c no new guest.
Tame(c) == CallInv(c)' /\ (Guest(c)' => Guest(c) /\ task'[c].life = task[c].life)

\* No abort is taken back, and the process neither ends nor takes executions again.
Steady ==
    /\ \A d \in Call : client[d].abort => client'[d].abort
    /\ process'.life = process.life
    /\ process'.state = "down" <=> process.state = "down"
    /\ process'.ready => process.ready

\* A call whose task stays where it is: an abort may reach it, the daemon may finish what
\* it was asked.
LEMMA Frame ==
    ASSUME TypeOK, NEW d \in Call, CallInv(d), Steady,
           client'[d].answer = client[d].answer,
           client'[d].cancel \in {"sent", "held"} => client'[d].abort,
           request'[d] = request[d], reply'[d] = reply[d],
           task[d] = NoTask => task'[d] = NoTask,
           task'[d].phase = task[d].phase, task'[d].life = task[d].life,
           task'[d].outer /\ client[d].answer = "open" => task[d].outer \/ Cancelled(d),
           box[d] = "none" => box'[d] = "none",
           Runs(d)' => Runs(d)
    PROVE  Tame(d)
<1>1. Cancelled(d) => Cancelled(d)'
  BY DEF Cancelled, Steady
<1>2. Guest(d)' <=> (d \in Active \/ Runs(d)')
  BY DEF Guest, Active
<1>3. Unread(d)' /\ Contained(d)'
  BY DEF CallInv, Unread, Contained
<1>4. Owned(d)'
  BY DEF CallInv, Owned, Active, Steady
<1>5. Asked(d)'
  BY <1>1 DEF CallInv, Asked
<1> QED
  BY <1>2, <1>3, <1>4, <1>5 DEF Tame, CallInv, Guest

\* A call that nothing in the step is about.
LEMMA Untouched ==
    ASSUME TypeOK, NEW d \in Call, CallInv(d), Steady,
           client'[d] = client[d], request'[d] = request[d], reply'[d] = reply[d],
           task'[d] = task[d], box'[d] = box[d]
    PROVE  Tame(d)
  BY Frame DEF CallInv, Asked, Runs

\* An execution goes on to another phase.
LEMMA Moved ==
    ASSUME TypeOK, NEW c \in Call, CallInv(c), Steady,
           client'[c] = client[c], request'[c] = request[c], reply'[c] = reply[c],
           c \in Active, (c \in Active)',
           task'[c].life = task[c].life, task'[c].outer = task[c].outer,
           task'[c].phase \in {"looping", "creating", "verifying"} => ~Runs(c)'
    PROVE  Tame(c)
<1>1. Cancelled(c) => Cancelled(c)'
  BY DEF Cancelled, Steady
<1>2. /\ client[c].answer # "idle" /\ ~request[c] /\ reply[c] = "none"
      /\ client[c].answer \notin Settled
  BY DEF CallInv, Unread, Contained, Active, NoTask
<1>3. Unread(c)' /\ Contained(c)'
  BY <1>2 DEF Unread, Contained, Active, Settled
<1>4. Owned(c)'
  BY DEF CallInv, Owned, Active, Steady
<1>5. Asked(c)'
  BY <1>1 DEF CallInv, Asked
<1> QED
  BY <1>3, <1>4, <1>5 DEF Tame, CallInv, Guest

LEMMA ReplyFields ==
    ASSUME TypeOK, NEW c \in Call, NEW value, Reply(c, value)
    PROVE  /\ task'[c].phase = "none" /\ ~task'[c].outer /\ task'[c].life = task[c].life
           /\ reply'[c] = IF client[c].answer = "open" THEN value ELSE "none"
           /\ \A d \in Call \ {c} : task'[d] = task[d] /\ reply'[d] = reply[d]
<1>1. /\ Over(c).phase = "none" /\ ~Over(c).outer /\ Over(c).life = task[c].life
  BY DEF Over, NoTask
<1> QED
  BY <1>1 DEF Reply, TypeOK

\* The server answers: no container that runs is left behind, or new executions stop.
LEMMA Answered ==
    ASSUME TypeOK, NEW c \in Call, CallInv(c), Steady, NEW value \in Settled \cup {"unconfirmed"},
           Reply(c, value),
           task[c].phase # "none" \/ request[c], ~request'[c], client'[c] = client[c],
           Runs(c)' => Runs(c),
           value \in Settled => ~Runs(c)',
           value = "unconfirmed" => ~process'.ready /\ task[c].phase # "none",
           value = "cancelled" => task[c].outer
    PROVE  Tame(c)
<1>1. Cancelled(c) => Cancelled(c)'
  BY DEF Cancelled, Steady
<1>2. /\ task'[c].phase = "none" /\ ~task'[c].outer /\ task'[c].life = task[c].life
      /\ reply'[c] = IF client[c].answer = "open" THEN value ELSE "none"
  BY ReplyFields
<1>3. client[c].answer # "idle"
  BY DEF CallInv, Unread, NoTask
<1>4. client[c].answer \in Settled => value \in Settled
  BY DEF CallInv, Contained
<1>5. Unread(c)'
  BY <1>3 DEF Unread
<1>6. Contained(c)'
  BY <1>2, <1>4 DEF Contained, Settled
<1>7. Owned(c)'
  BY <1>2 DEF CallInv, Owned, Active, Steady
<1>8. Asked(c)'
  BY <1>1, <1>2 DEF CallInv, Asked
<1> QED
  BY <1>2, <1>5, <1>6, <1>7, <1>8 DEF Tame, CallInv, Guest, Active

-----------------------------------------------------------------------------
(* The steps of the client *)

LEMMA DestroyedTame ==
    ASSUME TypeOK, \A d \in Call : CallInv(d), NEW c \in Call, Destroyed(c),
           UNCHANGED <<request, process, task, box, expired>>
    PROVE  \A d \in Call : Tame(d)
<1>1. /\ client'[c].cancel = "over" /\ client'[c].abort = client[c].abort
      /\ client'[c].answer = IF client[c].answer = "open" THEN "unconfirmed"
                             ELSE client[c].answer
      /\ \A d \in Call \ {c} : client'[d] = client[d]
  BY DEF Destroyed, TypeOK, Client
<1>2. reply'[c] = "none" /\ \A d \in Call \ {c} : reply'[d] = reply[d]
  BY DEF Destroyed, TypeOK
<1>3. Steady
  BY <1>1 DEF Steady
<1>4. Tame(c)
  <2>1. Cancelled(c) => Cancelled(c)'
    BY <1>3 DEF Cancelled, Steady
  <2>2. Unread(c)' /\ Contained(c)'
    BY <1>1, <1>2 DEF CallInv, Unread, Contained, Runs, Settled
  <2>3. Owned(c)'
    BY DEF CallInv, Owned, Active, Runs
  <2>4. Asked(c)'
    BY <1>1, <1>2, <2>1 DEF CallInv, Asked
  <2> QED
    BY <2>2, <2>3, <2>4 DEF Tame, CallInv, Guest, Active, Runs
<1>5. ASSUME NEW d \in Call \ {c} PROVE Tame(d)
  BY <1>1, <1>2, <1>3, <1>5, Untouched
<1> QED
  BY <1>4, <1>5

LEMMA ClientTame ==
    ASSUME TypeOK, \A d \in Call : CallInv(d), NEW c \in Call,
           ClientExecute(c) \/ ClientAbort(c) \/ ClientRead(c) \/ ClientLose(c)
    PROVE  \A d \in Call : Tame(d)
<1>0. CallInv(c)
  OBVIOUS
<1>1. CASE ClientExecute(c)
  <2>1. /\ client'[c].abort = client[c].abort /\ client'[c].cancel = client[c].cancel
        /\ client'[c].answer = IF client[c].abort THEN "cancelled" ELSE "open"
        /\ request'[c] <=> ~client[c].abort
        /\ \A d \in Call \ {c} : client'[d] = client[d] /\ request'[d] = request[d]
    <3>1. client[c].answer = "idle" /\ client[c] \in Client /\ ~request[c]
      BY <1>0, <1>1 DEF ClientExecute, TypeOK, CallInv, Unread
    <3> QED
      BY <1>1, <3>1 DEF ClientExecute, TypeOK, Client
  <2>2. Steady
    BY <1>1, <2>1 DEF Steady, ClientExecute
  <2>3. Tame(c)
    <3>1. task[c] = NoTask /\ box[c] = "none" /\ reply[c] = "none"
      BY <1>0, <1>1 DEF ClientExecute, CallInv, Unread
    <3>2. client'[c].answer = "cancelled" => Cancelled(c)'
      BY <2>1 DEF Cancelled
    <3>3. Unread(c)' /\ Contained(c)'
      BY <1>1, <2>1, <3>1 DEF ClientExecute, Unread, Contained, Runs, Settled, NoTask
    <3>4. Owned(c)'
      BY <1>0, <1>1 DEF ClientExecute, CallInv, Owned, Active, Runs
    <3>5. Asked(c)'
      BY <1>0, <1>1, <2>1, <3>1, <3>2 DEF ClientExecute, CallInv, Asked, NoTask
    <3> QED
      BY <1>1, <3>3, <3>4, <3>5 DEF ClientExecute, Tame, CallInv, Guest, Active, Runs
  <2>4. ASSUME NEW d \in Call \ {c} PROVE Tame(d)
    BY <1>1, <2>1, <2>2, <2>4, Untouched DEF ClientExecute
  <2> QED
    BY <2>3, <2>4
<1>2. CASE ClientAbort(c)
  <2>1. /\ client'[c].abort /\ client'[c].answer = client[c].answer
        /\ \A d \in Call \ {c} : client'[d] = client[d]
    BY <1>2 DEF ClientAbort, TypeOK, Client
  <2>2. Steady
    BY <1>2, <2>1 DEF Steady, ClientAbort
  <2>3. Tame(c)
    BY <1>0, <1>2, <2>1, <2>2, Frame DEF ClientAbort, Runs
  <2>4. ASSUME NEW d \in Call \ {c} PROVE Tame(d)
    BY <1>2, <2>1, <2>2, <2>4, Untouched DEF ClientAbort
  <2> QED
    BY <2>3, <2>4
<1>3. CASE ClientRead(c)
  <2>1. /\ client'[c].abort = client[c].abort /\ client'[c].cancel = client[c].cancel
        /\ client'[c].answer = reply[c] /\ reply'[c] = "none"
        /\ \A d \in Call \ {c} : client'[d] = client[d] /\ reply'[d] = reply[d]
    BY <1>3 DEF ClientRead, TypeOK, Client
  <2>2. Steady
    BY <1>3, <2>1 DEF Steady, ClientRead
  <2>3. Tame(c)
    <3>1. Cancelled(c) => Cancelled(c)'
      BY <2>2 DEF Cancelled, Steady
    <3>2. reply[c] \in Settled \cup {"unconfirmed"}
      BY <1>3 DEF ClientRead, TypeOK, Response
    <3>3. Unread(c)' /\ Contained(c)'
      BY <1>0, <1>3, <2>1, <3>2 DEF ClientRead, CallInv, Unread, Contained, Runs, Settled
    <3>4. Owned(c)'
      BY <1>0, <1>3 DEF ClientRead, CallInv, Owned, Active, Runs
    <3>5. Asked(c)'
      BY <1>0, <1>3, <2>1, <3>1, <3>2 DEF ClientRead, CallInv, Asked, Settled
    <3> QED
      BY <1>3, <3>3, <3>4, <3>5 DEF ClientRead, Tame, CallInv, Guest, Active, Runs
  <2>4. ASSUME NEW d \in Call \ {c} PROVE Tame(d)
    BY <1>3, <2>1, <2>2, <2>4, Untouched DEF ClientRead
  <2> QED
    BY <2>3, <2>4
<1>4. CASE ClientLose(c)
  BY <1>4, DestroyedTame DEF ClientLose
<1> QED
  BY <1>1, <1>2, <1>3, <1>4

LEMMA CancelTame ==
    ASSUME TypeOK, \A d \in Call : CallInv(d), NEW c \in Call,
           CancelArrive(c) \/ CancelHandle(c) \/ CancelLose(c)
    PROVE  \A d \in Call : Tame(d)
<1>0. CallInv(c)
  OBVIOUS
<1>1. CASE CancelArrive(c)
  <2>1. CASE Destroyed(c)
    BY <1>1, <2>1, DestroyedTame DEF CancelArrive
  <2>2. CASE client' = [client EXCEPT ![c].cancel = "held"] /\ reply' = reply
    <3>1. /\ client'[c].abort = client[c].abort /\ client'[c].answer = client[c].answer
          /\ client[c].abort
          /\ \A d \in Call \ {c} : client'[d] = client[d]
      BY <1>0, <1>1, <2>2 DEF CancelArrive, TypeOK, Client, CallInv, Asked
    <3>2. Steady
      BY <1>1, <3>1 DEF Steady, CancelArrive
    <3>3. Tame(c)
      BY <1>0, <1>1, <2>2, <3>1, <3>2, Frame DEF CancelArrive, Runs
    <3>4. ASSUME NEW d \in Call \ {c} PROVE Tame(d)
      BY <1>1, <2>2, <3>1, <3>2, <3>4, Untouched DEF CancelArrive
    <3> QED
      BY <3>3, <3>4
  <2> QED
    BY <1>1, <2>1, <2>2 DEF CancelArrive
<1>2. CASE CancelHandle(c)
  <2>1. client[c].abort
    BY <1>0, <1>2 DEF CancelHandle, CallInv, Asked
  <2>2. /\ client'[c].abort = client[c].abort /\ client'[c].answer = client[c].answer
        /\ \A d \in Call \ {c} : client'[d] = client[d]
    <3>1. PICK k : client' = [client EXCEPT ![c].cancel = k]
      BY <1>2, ZenonT(30) DEF CancelHandle
    <3> QED
      BY <3>1 DEF TypeOK, Client
  <2>3. Steady
    BY <1>2, <2>2 DEF Steady, CancelHandle
  <2>4. ASSUME NEW d \in Call
        PROVE  \/ task'[d] = task[d]
               \/ /\ d \in Active /\ KeyOf[d] = KeyOf[c]
                  /\ task'[d] = [task[d] EXCEPT !.outer = TRUE, !.inner = TRUE]
    BY <1>2, ZenonT(30) DEF CancelHandle
  <2>5. ASSUME NEW d \in Call
        PROVE  /\ task[d] = NoTask => task'[d] = NoTask
               /\ task'[d].phase = task[d].phase /\ task'[d].life = task[d].life
               /\ task'[d].outer => task[d].outer \/ Cancelled(d)
    <3>1. CASE task'[d] = task[d]
      BY <3>1
    <3>2. CASE d \in Active /\ KeyOf[d] = KeyOf[c]
               /\ task'[d] = [task[d] EXCEPT !.outer = TRUE, !.inner = TRUE]
      <4>1. task[d] # NoTask
        BY <3>2 DEF Active, NoTask
      <4>2. Cancelled(d)
        BY <2>1, <3>2 DEF Cancelled
      <4>3. task'[d].phase = task[d].phase /\ task'[d].life = task[d].life
        BY <3>2 DEF TypeOK, Task
      <4> QED
        BY <4>1, <4>2, <4>3
    <3> QED
      BY <2>4, <3>1, <3>2
  <2>6. ASSUME NEW d \in Call
        PROVE  /\ client'[d].answer = client[d].answer
               /\ client'[d].cancel \in {"sent", "held"} => client'[d].abort
    BY <2>1, <2>2 DEF CallInv, Asked
  <2>7. ASSUME NEW d \in Call PROVE Tame(d)
    BY <1>2, <2>3, <2>5, <2>6, <2>7, Frame DEF CancelHandle, Runs
  <2> QED
    BY <2>7
<1>3. CASE CancelLose(c)
  BY <1>3, DestroyedTame DEF CancelLose
<1> QED
  BY <1>1, <1>2, <1>3

-----------------------------------------------------------------------------
(* The steps of the server and of the supervisor *)

LEMMA HandleTame ==
    ASSUME TypeOK, \A d \in Call : CallInv(d), NEW c \in Call,
           Handle(c) \/ HandleClose(c) \/ HandleBroken(c)
    PROVE  \A d \in Call : Tame(d)
<1>0. CallInv(c)
  OBVIOUS
<1>s. Steady
  BY DEF Steady, Handle, HandleClose, HandleBroken
<1>1. CASE Handle(c)
  <2>1. task[c] = NoTask /\ box[c] = "none" /\ reply[c] = "none" /\ client[c].answer # "idle"
        /\ client[c].answer \notin Settled /\ ~request'[c]
    BY <1>0, <1>1 DEF Handle, CallInv, Unread, Contained, TypeOK
  <2>2. CASE Reply(c, "retryable")
    <3>1. Tame(c)
      <4>1. ~Runs(c)'
        BY <1>1, <2>1 DEF Handle, Runs
      <4> QED
        BY <1>0, <1>1, <1>s, <2>1, <2>2, <4>1, Answered DEF Handle, Settled
    <3>2. ASSUME NEW d \in Call \ {c} PROVE Tame(d)
      <4>1. client'[d] = client[d] /\ request'[d] = request[d] /\ box'[d] = box[d]
        BY <1>1 DEF Handle, TypeOK
      <4>2. reply'[d] = reply[d] /\ task'[d] = task[d]
        BY <2>2, ReplyFields
      <4> QED
        BY <1>s, <4>1, <4>2, Untouched
    <3> QED
      BY <3>1, <3>2
  <2>3. CASE /\ task' = [task EXCEPT ![c] = [NoTask EXCEPT !.phase = "reading"]]
             /\ UNCHANGED reply
    <3>1. /\ task'[c].phase = "reading" /\ ~task'[c].outer /\ task'[c].life = 0
          /\ \A d \in Call \ {c} : task'[d] = task[d]
      <4> DEFINE t == [NoTask EXCEPT !.phase = "reading"]
      <4>1. t.phase = "reading" /\ ~t.outer /\ t.life = 0
        BY DEF NoTask
      <4>2. task' = [task EXCEPT ![c] = t]
        BY <2>3
      <4> HIDE DEF t
      <4> QED
        BY <4>1, <4>2 DEF TypeOK
    <3>2. Tame(c)
      <4>1. Unread(c)' /\ Contained(c)'
        BY <1>1, <2>1, <2>3, <3>1 DEF Handle, Unread, Contained, Runs, Settled
      <4>2. Owned(c)'
        BY <1>1, <2>1, <3>1 DEF Handle, Owned, Active, Runs, TypeOK
      <4>3. Asked(c)'
        BY <1>0, <1>1, <2>1, <2>3, <3>1 DEF Handle, CallInv, Asked, Settled
      <4>4. ~Guest(c)'
        BY <1>1, <2>1, <3>1 DEF Handle, Guest, Active, Runs
      <4> QED
        BY <4>1, <4>2, <4>3, <4>4 DEF Tame, CallInv
    <3>3. ASSUME NEW d \in Call \ {c} PROVE Tame(d)
      BY <1>1, <1>s, <2>3, <3>1, <3>3, Untouched DEF Handle, TypeOK
    <3> QED
      BY <3>2, <3>3
  <2> QED
    BY <1>1, <2>2, <2>3 DEF Handle
<1>2. CASE HandleClose(c)
  <2>1. /\ task'[c].phase = task[c].phase /\ task'[c].life = task[c].life
        /\ \A d \in Call \ {c} : task'[d] = task[d]
    BY <1>2 DEF HandleClose, TypeOK, Task
  <2>2. Tame(c)
    BY <1>0, <1>2, <1>s, <2>1, Frame DEF HandleClose, CallInv, Asked, NoTask, Runs
  <2>3. ASSUME NEW d \in Call \ {c} PROVE Tame(d)
    BY <1>2, <1>s, <2>1, <2>3, Untouched DEF HandleClose
  <2> QED
    BY <2>2, <2>3
<1>3. CASE HandleBroken(c)
  <2>1. ~request'[c] /\ ~Runs(c)'
    BY <1>0, <1>3 DEF HandleBroken, CallInv, Unread, Contained, Runs, NoTask
  <2>2. Tame(c)
    BY <1>0, <1>3, <1>s, <2>1, Answered DEF HandleBroken, Settled
  <2>3. ASSUME NEW d \in Call \ {c} PROVE Tame(d)
    BY <1>3, <1>s, <2>3, ReplyFields, Untouched DEF HandleBroken
  <2> QED
    BY <2>2, <2>3
<1> QED
  BY <1>1, <1>2, <1>3

\* What lets an execution in.
Admits(c) ==
    /\ task[c].phase = "reading"
    /\ process.ready
    /\ process.state # "closing"
    /\ ~(Cardinality(Active) >= Slots)

\* The step either answers or makes c an execution of the life at hand.
LEMMA ExecuteTame ==
    ASSUME TypeOK, \A d \in Call : CallInv(d), NEW c \in Call, Execute(c)
    PROVE  \/ \A d \in Call : Tame(d)
           \/ /\ Admits(c) /\ CallInv(c)' /\ task'[c].life = process.life
              /\ \A d \in Call \ {c} : Tame(d)
<1>0. CallInv(c)
  OBVIOUS
<1>s. Steady
  BY DEF Steady, Execute
<1>1. box[c] = "none" /\ ~request[c] /\ reply[c] = "none" /\ client[c].answer # "idle"
      /\ client[c].answer \notin Settled
  BY <1>0 DEF Execute, CallInv, Unread, Contained, NoTask
<1>2. CASE Reply(c, "retryable")
  <2>1. ~request'[c] /\ ~Runs(c)'
    BY <1>1 DEF Execute, Runs
  <2>2. Tame(c)
    BY <1>0, <1>2, <1>s, <2>1, Answered DEF Execute, Settled
  <2>3. ASSUME NEW d \in Call \ {c} PROVE Tame(d)
    BY <1>2, <1>s, <2>3, ReplyFields, Untouched DEF Execute
  <2> QED
    BY <2>2, <2>3
<1>3. CASE /\ Admits(c)
           /\ task' = [task EXCEPT ![c] =
                          [task[c] EXCEPT !.phase = "looping", !.inner = task[c].outer,
                                          !.life = process.life]]
           /\ UNCHANGED reply
  <2>1. /\ task'[c].phase = "looping" /\ task'[c].outer = task[c].outer
        /\ task'[c].life = process.life
        /\ \A d \in Call \ {c} : task'[d] = task[d]
    <3>1. task'[c] = [task[c] EXCEPT !.phase = "looping", !.inner = task[c].outer,
                                     !.life = process.life]
      BY <1>3, ZenonT(30) DEF TypeOK
    <3>2. task[c] \in Task /\ \A d \in Call \ {c} : task'[d] = task[d]
      BY <1>3 DEF TypeOK
    <3> DEFINE t == task[c]
               b == t.outer
               n == process.life
               u == task'[c]
    <3>3. t \in Task /\ u = [t EXCEPT !.phase = "looping", !.inner = b, !.life = n]
      BY <3>1, <3>2, ZenonT(30)
    <3> HIDE DEF t, b, n, u
    <3>4. u.phase = "looping" /\ u.outer = t.outer /\ u.life = n
      BY <3>3, ZenonT(30) DEF Task
    <3> QED
      BY <3>2, <3>4 DEF t, b, n, u
  <2>2. Cancelled(c) => Cancelled(c)'
    BY <1>s DEF Cancelled, Steady
  <2>3. Unread(c)' /\ Contained(c)'
    BY <1>1, <1>3, <2>1 DEF Execute, Unread, Contained, Runs
  <2>4. Owned(c)'
    BY <1>0, <1>1, <1>3, <2>1 DEF Execute, CallInv, Owned, Active, Runs, Admits, TypeOK
  <2>5. Asked(c)'
    BY <1>0, <1>3, <2>1, <2>2 DEF Execute, CallInv, Asked
  <2>6. ASSUME NEW d \in Call \ {c} PROVE Tame(d)
    BY <1>3, <1>s, <2>1, <2>6, Untouched DEF Execute
  <2> QED
    BY <1>3, <2>1, <2>3, <2>4, <2>5, <2>6 DEF CallInv
<1> QED
  BY <1>2, <1>3 DEF Execute, Admits

\* execute ends with e: nothing of the call runs any more.
LEMMA FinishedTame ==
    ASSUME TypeOK, \A d \in Call : CallInv(d), NEW c \in Call, c \in Active, ~Runs(c), NEW e,
           Finished(c, e), UNCHANGED <<client, request, process, box>>
    PROVE  \A d \in Call : Tame(d)
<1>1. PICK value \in Settled : Reply(c, value) /\ (value = "cancelled" => task[c].outer)
  BY DEF Finished, Settled
<1>2. CallInv(c) /\ Steady /\ task[c].phase # "none"
  BY DEF Steady, Active
<1>3. ~request'[c] /\ ~Runs(c)'
  BY <1>2 DEF CallInv, Unread, NoTask, Runs
<1>4. Tame(c)
  BY <1>1, <1>2, <1>3, Answered DEF Settled
<1>5. ASSUME NEW d \in Call \ {c} PROVE Tame(d)
  BY <1>1, <1>2, <1>5, ReplyFields, Untouched
<1> QED
  BY <1>4, <1>5

\* destroy throws: what may still run is left behind, and new executions stop.
LEMMA UnconfirmedTame ==
    ASSUME TypeOK, \A d \in Call : CallInv(d), NEW c \in Call, c \in Active, Unconfirmed(c),
           UNCHANGED <<client, request>>,
           Runs(c)' => Runs(c), \A d \in Call \ {c} : box'[d] = box[d]
    PROVE  \A d \in Call : Tame(d)
<1>1. Reply(c, "unconfirmed") /\ ~process'.ready
  BY DEF Unconfirmed, TypeOK
<1>2. CallInv(c) /\ Steady /\ task[c].phase # "none"
  BY DEF Steady, Active, Unconfirmed, TypeOK
<1>3. ~request'[c]
  BY <1>2 DEF CallInv, Unread, NoTask
<1>4. Tame(c)
  BY <1>1, <1>2, <1>3, Answered DEF Settled
<1>5. ASSUME NEW d \in Call \ {c} PROVE Tame(d)
  BY <1>1, <1>2, <1>5, ReplyFields, Untouched
<1> QED
  BY <1>4, <1>5

\* The execution goes on and the rest stays: the effect of a step that does not answer.
LEMMA MovedTame ==
    ASSUME TypeOK, \A d \in Call : CallInv(d), NEW c \in Call, c \in Active,
           UNCHANGED <<client, request, reply, process>>,
           NEW t \in Task, task' = [task EXCEPT ![c] = t],
           t.phase \notin {"none", "reading"}, t.life = task[c].life, t.outer = task[c].outer,
           t.phase \in {"looping", "creating", "verifying"} => ~Runs(c)',
           \A d \in Call \ {c} : box'[d] = box[d]
    PROVE  \A d \in Call : Tame(d)
<1>1. CallInv(c) /\ Steady /\ task'[c] = t /\ \A d \in Call \ {c} : task'[d] = task[d]
  BY DEF Steady, TypeOK
<1>2. (c \in Active)'
  BY <1>1 DEF Active
<1>3. Tame(c)
  BY <1>1, <1>2, Moved
<1>4. ASSUME NEW d \in Call \ {c} PROVE Tame(d)
  BY <1>1, <1>4, Untouched
<1> QED
  BY <1>3, <1>4

LEMMA PhaseTame ==
    ASSUME TypeOK, \A d \in Call : CallInv(d), NEW c \in Call, c \in Active,
           UNCHANGED <<client, request, reply, process>>,
           NEW p \in Phase \ {"none", "reading"}, task' = [task EXCEPT ![c].phase = p],
           p \in {"looping", "creating", "verifying"} => ~Runs(c)',
           \A d \in Call \ {c} : box'[d] = box[d]
    PROVE  \A d \in Call : Tame(d)
<1> DEFINE t == [task[c] EXCEPT !.phase = p]
<1>1. t \in Task /\ task' = [task EXCEPT ![c] = t]
  BY TaskPhase DEF TypeOK
<1>2. t.phase = p /\ t.life = task[c].life /\ t.outer = task[c].outer
  BY DEF TypeOK, Task
<1> HIDE DEF t
<1> QED
  BY <1>1, <1>2, MovedTame

LEMMA LeaveTame ==
    ASSUME TypeOK, \A d \in Call : CallInv(d), NEW c \in Call, c \in Active,
           NEW e \in Ending, Leave(c, e),
           UNCHANGED <<client, request, reply, process, box>>
    PROVE  \A d \in Call : Tame(d)
<1> DEFINE t == [task[c] EXCEPT !.phase = "removing", !.ending = e]
<1>1. t \in Task /\ task' = [task EXCEPT ![c] = t]
  BY TaskLeft DEF TypeOK, Leave
<1>2. t.phase = "removing" /\ t.life = task[c].life /\ t.outer = task[c].outer
  BY ZenonT(30) DEF TypeOK, Task
<1> HIDE DEF t
<1> QED
  BY <1>1, <1>2, MovedTame

LEMMA SandboxTame ==
    ASSUME TypeOK, \A d \in Call : CallInv(d), NEW c \in Call,
           Loop(c) \/ Created(c) \/ verifyContainer(c) \/ Started(c) \/ Ran(c) \/ RanAborted(c)
    PROVE  \A d \in Call : Tame(d)
<1>0. CallInv(c) /\ c \in Active
  BY DEF Active, Loop, Created, verifyContainer, Started, Ran, RanAborted
<1>l. ASSUME NEW e \in Ending, Leave(c, e), UNCHANGED <<client, request, reply, process, box>>
      PROVE  \A d \in Call : Tame(d)
  BY <1>0, <1>l, LeaveTame
<1>p. ASSUME NEW p \in Phase \ {"none", "reading"}, task' = [task EXCEPT ![c].phase = p],
             UNCHANGED <<client, request, reply, process>>,
             p \in {"looping", "creating", "verifying"} => ~Runs(c)',
             \A d \in Call \ {c} : box'[d] = box[d]
      PROVE  \A d \in Call : Tame(d)
  BY <1>0, <1>p, PhaseTame
<1>1. CASE Loop(c)
  <2>1. ~Runs(c) /\ UNCHANGED <<client, request, process>>
    BY <1>0, <1>1 DEF Loop, CallInv, Contained
  <2>2. CASE Finished(c, "aborted") /\ UNCHANGED box
    BY <1>0, <2>1, <2>2, FinishedTame
  <2>3. CASE Leave(c, "aborted") /\ UNCHANGED <<reply, box>>
    BY <1>l, <2>1, <2>3 DEF Ending
  <2>4. CASE /\ task' = [task EXCEPT ![c].phase = "creating"]
             /\ box' = [box EXCEPT ![c] = "pending"] /\ UNCHANGED reply
    <3>1. ~Runs(c)' /\ \A d \in Call \ {c} : box'[d] = box[d]
      BY <2>4 DEF Runs, TypeOK
    <3> QED
      BY <1>p, <2>1, <2>4, <3>1 DEF Phase
  <2> QED
    BY <1>1, <2>2, <2>3, <2>4 DEF Loop
<1>2. CASE Created(c)
  <2>1. ~Runs(c) /\ UNCHANGED <<client, request, reply, process, box>>
    BY <1>0, <1>2 DEF Created, CallInv, Contained
  <2>2. CASE task' = [task EXCEPT ![c].phase = "verifying"]
    BY <1>p, <2>1, <2>2 DEF Phase, Runs
  <2>3. CASE Leave(c, "aborted") \/ Leave(c, "error")
    BY <1>l, <2>1, <2>3 DEF Ending
  <2> QED
    BY <1>2, <2>2, <2>3 DEF Created
<1>3. CASE verifyContainer(c)
  <2>1. UNCHANGED <<client, request, reply, process>>
    BY <1>3 DEF verifyContainer
  <2>2. CASE /\ task' = [task EXCEPT ![c].phase = "starting"]
             /\ box' = [box EXCEPT ![c] = "starting"]
    BY <1>p, <2>1, <2>2 DEF Phase, TypeOK
  <2>3. CASE (Leave(c, "aborted") \/ Leave(c, "error")) /\ UNCHANGED box
    BY <1>l, <2>1, <2>3 DEF Ending
  <2> QED
    BY <1>3, <2>2, <2>3 DEF verifyContainer
<1>4. CASE Started(c)
  <2>1. UNCHANGED <<client, request, reply, process, box>>
    BY <1>4 DEF Started
  <2>2. CASE task' = [task EXCEPT ![c].phase = "running"]
    BY <1>p, <2>1, <2>2 DEF Phase
  <2>3. CASE Leave(c, "aborted") \/ Leave(c, "error")
    BY <1>l, <2>1, <2>3 DEF Ending
  <2> QED
    BY <1>4, <2>2, <2>3 DEF Started
<1>5. CASE Ran(c) \/ RanAborted(c)
  BY <1>5, <1>l, ZenonT(30) DEF Ran, RanAborted, Ending
<1> QED
  BY <1>1, <1>2, <1>3, <1>4, <1>5

LEMMA DestroyTame ==
    ASSUME TypeOK, \A d \in Call : CallInv(d), NEW c \in Call, Remove(c) \/ List(c)
    PROVE  \A d \in Call : Tame(d)
<1>0. CallInv(c) /\ c \in Active /\ UNCHANGED <<client, request>>
  BY DEF Active, Remove, List
<1>1. CASE Remove(c)
  <2>1. (Runs(c)' => Runs(c)) /\ \A d \in Call \ {c} : box'[d] = box[d]
    BY <1>1 DEF Remove, Runs, Exists, TypeOK
  <2>2. CASE task' = [task EXCEPT ![c].phase = "listing"] /\ UNCHANGED <<reply, process>>
    BY <1>0, <2>1, <2>2, PhaseTame DEF Phase
  <2>3. CASE Unconfirmed(c)
    BY <1>0, <2>1, <2>3, UnconfirmedTame
  <2> QED
    BY <1>1, <2>2, <2>3 DEF Remove
<1>2. CASE List(c)
  <2>1. CASE Unconfirmed(c)
    BY <1>0, <1>2, <2>1, UnconfirmedTame DEF List, Runs
  <2>2. CASE ~Exists(c) /\ Confirmed(c) /\ UNCHANGED process
    <3>1. ~Runs(c) /\ UNCHANGED box /\ task[c].done + 1 \in Nat
      BY <1>2, <2>2 DEF List, Runs, Exists, TypeOK, Task
    <3>2. CASE Finished(c, task[c].ending)
      BY <1>0, <2>2, <3>1, <3>2, FinishedTame
    <3>3. CASE /\ task' = [task EXCEPT ![c] = [task[c] EXCEPT !.phase = "looping",
                                                              !.done = task[c].done + 1]]
               /\ UNCHANGED reply
      <4> DEFINE n == task[c].done + 1
                 t == [task[c] EXCEPT !.phase = "looping", !.done = n]
      <4>1. task' = [task EXCEPT ![c] = t] /\ n \in Nat /\ task[c] \in Task
        BY <3>1, <3>3 DEF TypeOK
      <4> HIDE DEF n
      <4>2. t \in Task
        BY <4>1, TaskNext, ZenonT(30)
      <4>3. t.phase = "looping" /\ t.life = task[c].life /\ t.outer = task[c].outer
        BY <4>1, ZenonT(30) DEF Task
      <4> HIDE DEF t
      <4>4. ~Runs(c)'
        BY <3>1 DEF Runs
      <4> QED
        BY <1>0, <2>2, <3>1, <3>3, <4>1, <4>2, <4>3, <4>4, MovedTame
    <3> QED
      BY <2>2, <3>2, <3>3 DEF Confirmed
  <2> QED
    BY <1>2, <2>1, <2>2 DEF List
<1> QED
  BY <1>1, <1>2

-----------------------------------------------------------------------------
(* The timer, the daemon, the janitor and the process *)

LEMMA HostTame ==
    ASSUME TypeOK, \A d \in Call : CallInv(d), NEW c \in Call,
           Expire(c) \/ DaemonCreate(c) \/ DaemonRefuse(c) \/ DaemonStart(c) \/ Reap(c)
    PROVE  \A d \in Call : Tame(d)
<1>0. CallInv(c) /\ Steady /\ UNCHANGED <<client, request, reply>>
  BY DEF Steady, Expire, DaemonCreate, DaemonRefuse, DaemonStart, Reap
<1>1. CASE Expire(c)
  <2>1. /\ task'[c].phase = task[c].phase /\ task'[c].life = task[c].life
        /\ task'[c].outer = task[c].outer /\ task[c] # NoTask
        /\ \A d \in Call \ {c} : task'[d] = task[d]
    BY <1>1 DEF Expire, TypeOK, Task, NoTask
  <2>2. Tame(c)
    BY <1>0, <1>1, <2>1, Frame DEF Expire, CallInv, Asked, Runs
  <2>3. ASSUME NEW d \in Call \ {c} PROVE Tame(d)
    BY <1>0, <1>1, <2>1, <2>3, Untouched DEF Expire
  <2> QED
    BY <2>2, <2>3
<1>2. CASE DaemonCreate(c) \/ DaemonRefuse(c) \/ DaemonStart(c) \/ Reap(c)
  <2>1. /\ UNCHANGED task /\ (Runs(c)' => Runs(c)) /\ (box[c] = "none" => box'[c] = "none")
        /\ \A d \in Call \ {c} : box'[d] = box[d]
    BY <1>2 DEF DaemonCreate, DaemonRefuse, DaemonStart, Reap, Runs, Exists, TypeOK
  <2>2. Tame(c)
    BY <1>0, <2>1, Frame DEF CallInv, Asked
  <2>3. ASSUME NEW d \in Call \ {c} PROVE Tame(d)
    BY <1>0, <2>1, <2>3, Untouched
  <2> QED
    BY <2>2, <2>3
<1> QED
  BY <1>1, <1>2

LEMMA CloseTame ==
    ASSUME TypeOK, \A d \in Call : CallInv(d), Close
    PROVE  \A d \in Call : Tame(d)
<1>1. Steady /\ UNCHANGED <<client, request, reply, box>>
  BY DEF Steady, Close, TypeOK
<1>2. SUFFICES ASSUME NEW d \in Call PROVE Tame(d)
  OBVIOUS
<1>3. task'[d] = [task[d] EXCEPT !.inner = task[d].inner \/ d \in Active] /\ task[d] \in Task
  BY DEF Close, TypeOK
<1>4. /\ task'[d].phase = task[d].phase /\ task'[d].life = task[d].life
      /\ task'[d].outer = task[d].outer
  BY <1>3 DEF Task
<1>5. task[d] = NoTask => task'[d] = NoTask
  <2>1. [task[d] EXCEPT !.inner = task[d].inner] = task[d]
    BY <1>3 DEF Task
  <2>2. ASSUME task[d] = NoTask
        PROVE  (task[d].inner \/ d \in Active) = task[d].inner
    <3>1. d \notin Active /\ task[d].inner \in BOOLEAN
      BY <1>3, <2>2 DEF NoTask, Active, Task
    <3> QED
      BY <3>1, ZenonT(30)
  <2> QED
    BY <1>3, <2>1, <2>2, ZenonT(30)
<1> QED
  BY <1>1, <1>4, <1>5, Frame DEF CallInv, Asked, Runs

LEMMA ClosedTame ==
    ASSUME TypeOK, \A d \in Call : CallInv(d), Closed
    PROVE  \A d \in Call : Tame(d)
<1>1. SUFFICES ASSUME NEW d \in Call PROVE Tame(d)
  OBVIOUS
<1>2. /\ task[d].phase = "none" /\ ~request'[d] /\ process'.state = "down"
      /\ process'.life = process.life /\ UNCHANGED <<client, reply, task, box>>
  <2>1. task[d].phase = "none"
    BY DEF Closed, Admitted
  <2> QED
    BY <2>1 DEF Closed, TypeOK
<1>3. Unread(d)' /\ Contained(d)'
  BY <1>2 DEF CallInv, Unread, Contained, Runs
<1>4. Owned(d)'
  BY <1>2 DEF CallInv, Owned, Active, Runs
<1>5. Asked(d)'
  BY <1>2 DEF CallInv, Asked, Cancelled
<1> QED
  BY <1>2, <1>3, <1>4, <1>5 DEF Tame, CallInv, Guest, Active, Runs

LEMMA CrashTame ==
    ASSUME TypeOK, \A d \in Call : CallInv(d), Crash
    PROVE  \A d \in Call : Tame(d)
<1>1. SUFFICES ASSUME NEW d \in Call PROVE Tame(d)
  OBVIOUS
<1>2. /\ process'.state = "down" /\ process'.life = process.life /\ ~request'[d]
      /\ UNCHANGED <<reply, box>> /\ task'[d] = Over(d)
  BY DEF Crash, TypeOK
<1>3. /\ task'[d].phase = "none" /\ ~task'[d].outer /\ task'[d].life = task[d].life
      /\ task[d] = NoTask => task'[d] = NoTask
  <2>1. Over(d).phase = "none" /\ ~Over(d).outer /\ Over(d).life = task[d].life
    BY DEF Over, NoTask
  <2>2. [task[d] EXCEPT !.life = task[d].life] = task[d]
    BY DEF TypeOK, Task
  <2>3. task[d] = NoTask => Over(d) = NoTask
    BY <2>2, ZenonT(30) DEF Over
  <2> QED
    BY <1>2, <2>1, <2>3
<1>4. ASSUME NEW e \in Call
      PROVE  /\ client'[e].abort = client[e].abort
             /\ client'[e].cancel \in {"sent", "held"} => client'[e].cancel = client[e].cancel
             /\ client'[e].answer = client[e].answer \/ client'[e].answer = "unconfirmed"
  <2>1. CASE client'[e] = client[e]
    BY <2>1
  <2>2. CASE client'[e] = [client[e] EXCEPT !.cancel = "over",
                              !.answer = IF client[e].answer = "open" THEN "unconfirmed"
                                         ELSE client[e].answer]
    <3> DEFINE a == IF client[e].answer = "open" THEN "unconfirmed" ELSE client[e].answer
               r == client[e]
               u == client'[e]
    <3>1. r \in Client /\ u = [r EXCEPT !.cancel = "over", !.answer = a]
      BY <2>2 DEF TypeOK
    <3>2. a = r.answer \/ a = "unconfirmed"
      OBVIOUS
    <3> HIDE DEF a, r, u
    <3>3. u.abort = r.abort /\ u.cancel = "over" /\ u.answer = a
      BY <3>1, ZenonT(30) DEF Client
    <3> QED
      BY <3>2, <3>3 DEF r, u
  <2> QED
    BY <2>1, <2>2 DEF Crash
<1>5. Cancelled(d) => Cancelled(d)'
  BY <1>4 DEF Cancelled
<1>6. Unread(d)' /\ Contained(d)'
  BY <1>2, <1>3, <1>4 DEF CallInv, Unread, Contained, Runs, Settled
<1>7. Owned(d)'
  BY <1>2, <1>3 DEF CallInv, Owned, Active, Runs
<1>8. Asked(d)'
  BY <1>2, <1>3, <1>4, <1>5 DEF CallInv, Asked
<1> QED
  BY <1>2, <1>3, <1>6, <1>7, <1>8 DEF Tame, CallInv, Guest, Active, Runs

LEMMA BootTame ==
    ASSUME TypeOK, \A d \in Call : CallInv(d), Boot
    PROVE  \A d \in Call : Tame(d)
<1>1. SUFFICES ASSUME NEW d \in Call PROVE Tame(d)
  OBVIOUS
<1>2. /\ process'.state = "up" /\ process'.life = process.life + 1 /\ process.state = "down"
      /\ UNCHANGED <<client, request, reply, task>>
      /\ (Runs(d)' => Runs(d)) /\ (box[d] = "none" => box'[d] = "none")
  BY Booted DEF Boot, Runs, TypeOK
<1>3. task[d].phase = "none" /\ task[d].life <= process.life
      /\ task[d].life \in Nat /\ process.life \in Nat
  BY <1>2 DEF CallInv, Owned, TypeOK, Task
<1>4. Unread(d)' /\ Contained(d)'
  BY <1>2, <1>3 DEF CallInv, Unread, Contained
<1>5. Owned(d)'
  BY <1>2, <1>3 DEF Owned, Active
<1>6. Asked(d)'
  BY <1>2 DEF CallInv, Asked, Cancelled
<1> QED
  BY <1>2, <1>4, <1>5, <1>6 DEF Tame, CallInv, Guest, Active

\* Every step but the admission of an execution is tame for every call.
LEMMA NextTame ==
    ASSUME TypeOK, \A d \in Call : CallInv(d), [Next]_vars
    PROVE  \/ \A d \in Call : Tame(d)
           \/ \E c \in Call : /\ Admits(c) /\ CallInv(c)' /\ task'[c].life = process.life
                              /\ \A d \in Call \ {c} : Tame(d)
<1>1. CASE UNCHANGED vars
  <2>1. UNCHANGED <<client, request, reply, process, task, box>>
    BY <1>1 DEF vars
  <2>2. Steady
    BY <2>1 DEF Steady
  <2> QED
    BY <2>1, <2>2, Untouched
<1>2. ASSUME NEW c \in Call,
             \/ ClientExecute(c) \/ ClientAbort(c) \/ ClientRead(c) \/ ClientLose(c)
             \/ CancelArrive(c) \/ CancelHandle(c) \/ CancelLose(c)
      PROVE  \A d \in Call : Tame(d)
  BY <1>2, ClientTame, CancelTame
<1>3. ASSUME NEW c \in Call,
             \/ Handle(c) \/ HandleClose(c) \/ HandleBroken(c)
             \/ Loop(c) \/ Created(c) \/ verifyContainer(c) \/ Started(c) \/ Ran(c)
             \/ RanAborted(c) \/ Remove(c) \/ List(c)
      PROVE  \A d \in Call : Tame(d)
  BY <1>3, HandleTame, SandboxTame, DestroyTame
<1>4. ASSUME NEW c \in Call,
             Expire(c) \/ DaemonCreate(c) \/ DaemonRefuse(c) \/ DaemonStart(c) \/ Reap(c)
      PROVE  \A d \in Call : Tame(d)
  BY <1>4, HostTame
<1>5. ASSUME Crash \/ Close \/ Closed \/ Boot PROVE \A d \in Call : Tame(d)
  BY <1>5, CrashTame, CloseTame, ClosedTame, BootTame
<1> QED
  BY <1>1, <1>2, <1>3, <1>4, <1>5, ExecuteTame DEF Next

-----------------------------------------------------------------------------
(* The guests of a life *)

\* A set whose calls were all guests of l before is no larger than before.
LEMMA GuestsKept ==
    ASSUME GuestsBound, \A d \in Call : Tame(d)
    PROVE  GuestsBound'
<1>1. SUFFICES ASSUME NEW l \in 1..MaxLife
               PROVE  IsFiniteSet(Guests(l)') /\ Cardinality(Guests(l)') <= Slots
  BY DEF GuestsBound
<1>2. Guests(l)' \subseteq Guests(l)
  BY DEF Guests, Tame
<1>3. IsFiniteSet(Guests(l)) /\ Cardinality(Guests(l)) <= Slots
  BY DEF GuestsBound
<1>4. /\ IsFiniteSet(Guests(l)') /\ Cardinality(Guests(l)') <= Cardinality(Guests(l))
  BY <1>2, <1>3, FS_Subset
<1> QED
  BY <1>2, <1>3, <1>4, FS_CardinalityType, RunnerAssumption

\* A new execution finds a free slot: the guests of this life are the active ones.
LEMMA GuestsAdmitted ==
    ASSUME TypeOK, \A d \in Call : CallInv(d), GuestsBound, NEW c \in Call, Admits(c),
           task'[c].life = process.life, \A d \in Call \ {c} : Tame(d)
    PROVE  GuestsBound'
<1>1. SUFFICES ASSUME NEW l \in 1..MaxLife
               PROVE  IsFiniteSet(Guests(l)') /\ Cardinality(Guests(l)') <= Slots
  BY DEF GuestsBound
<1>2. IsFiniteSet(Guests(l)) /\ Cardinality(Guests(l)) <= Slots
  BY DEF GuestsBound
<1>3. CASE l # process.life
  <2>1. Guests(l)' \subseteq Guests(l)
    BY <1>3 DEF Guests, Tame
  <2> QED
    BY <1>2, <2>1, FS_Subset, FS_CardinalityType, RunnerAssumption
<1>4. CASE l = process.life
  <2>1. process.state # "down" /\ process.ready
    BY DEF Admits, CallInv, Owned
  <2>2. Guests(l) = Active
    <3>1. ASSUME NEW d \in Call PROVE d \in Active <=> task[d].life = l /\ Guest(d)
      BY <1>4, <2>1, <3>1 DEF CallInv, Owned, Guest
    <3> QED
      BY <3>1 DEF Guests, Active
  <2> DEFINE G == Guests(l)
             H == G \cup {c}
  <2>3. Guests(l)' \subseteq H
    BY DEF Guests, Tame
  <2>4. IsFiniteSet(G) /\ Cardinality(G) \in Nat /\ Cardinality(G) + 1 <= Slots
    <3>1. IsFiniteSet(G) /\ Cardinality(G) \in Nat
      BY <1>2, FS_CardinalityType
    <3>2. ~(Cardinality(G) >= Slots)
      BY <2>2, ZenonT(30) DEF Admits
    <3> HIDE DEF G
    <3> QED
      BY <3>1, <3>2, RunnerAssumption
  <2> HIDE DEF G
  <2>5. /\ IsFiniteSet(H)
        /\ Cardinality(H) = IF c \in G THEN Cardinality(G) ELSE Cardinality(G) + 1
    BY <2>4, FS_AddElement, ZenonT(30)
  <2> HIDE DEF H
  <2>6. /\ IsFiniteSet(Guests(l)') /\ Cardinality(Guests(l)') <= Cardinality(H)
        /\ Cardinality(Guests(l)') \in Nat
    BY <2>3, <2>5, FS_Subset, FS_CardinalityType
  <2> QED
    BY <2>4, <2>5, <2>6, RunnerAssumption
<1> QED
  BY <1>3, <1>4

-----------------------------------------------------------------------------
(* Theorems *)

LEMMA RunnerInit == Init => RunnerInv
<1> SUFFICES ASSUME Init PROVE RunnerInv
  OBVIOUS
<1>1. TypeOK
  <2>1. NoTask \in Task
    BY DEF NoTask, Task, Phase, Ending
  <2> QED
    BY <2>1 DEF Init, TypeOK, Client, Answer, Cancel, Settled, Response
<1>2. ASSUME NEW c \in Call PROVE CallInv(c) /\ ~Guest(c)
  <2>1. /\ client[c].answer = "idle" /\ client[c].cancel = "none" /\ ~request[c]
        /\ reply[c] = "none" /\ process.life = 1 /\ process.state = "up"
        /\ task[c] = NoTask /\ box[c] = "none"
    BY DEF Init
  <2>2. task[c].phase = "none" /\ ~task[c].outer /\ task[c].life = 0
    BY <2>1 DEF NoTask
  <2>3. Unread(c) /\ Contained(c) /\ Asked(c)
    BY <2>1, <2>2 DEF Unread, Contained, Asked, Runs, Settled
  <2>4. Owned(c)
    BY <2>1, <2>2 DEF Owned, Active, Runs
  <2>5. ~Guest(c)
    BY <2>1, <2>2 DEF Guest, Active, Runs
  <2> QED
    BY <2>3, <2>4, <2>5 DEF CallInv
<1>3. GuestsBound
  <2>1. ASSUME NEW l \in 1..MaxLife PROVE Guests(l) = {}
    BY <1>2 DEF Guests
  <2> QED
    BY <2>1, FS_EmptySet, RunnerAssumption DEF GuestsBound
<1> QED
  BY <1>1, <1>2, <1>3 DEF RunnerInv

LEMMA RunnerStep == RunnerInv /\ [Next]_vars => RunnerInv'
<1> SUFFICES ASSUME RunnerInv, [Next]_vars PROVE RunnerInv'
  OBVIOUS
<1> USE DEF RunnerInv
<1>1. TypeOK'
  BY NextType
<1>2. CASE \A d \in Call : Tame(d)
  BY <1>1, <1>2, GuestsKept DEF Tame
<1>3. ASSUME NEW c \in Call, Admits(c), CallInv(c)', task'[c].life = process.life,
             \A d \in Call \ {c} : Tame(d)
      PROVE  RunnerInv'
  BY <1>1, <1>3, GuestsAdmitted DEF Tame
<1> QED
  BY <1>2, <1>3, NextTame

\* The inductive invariant holds in every reachable state.
THEOREM RunnerInvariant == Spec => []RunnerInv
  BY RunnerInit, RunnerStep, PTL DEF Spec

\* GuestStopped: an answer with which the worker judges, reports CANCELLED or retries
\* (SupervisorClient.execute of client.ts) is only given once nothing of the call runs and
\* nothing can be started any more, whatever the supervisor, the daemon and the janitor did.
THEOREM GuestStoppedHolds == Spec => []GuestStopped
<1>1. RunnerInv => GuestStopped
  BY DEF RunnerInv, CallInv, Contained, GuestStopped, Settled
<1> QED
  BY <1>1, RunnerInvariant, PTL

\* GuestBound: for any number of slots, the containers of one life of the supervisor that
\* run never exceed them, the ones behind a failed cleanup included.
THEOREM GuestBoundHolds == Spec => []GuestBound
<1>1. RunnerInv => GuestBound
  <2> SUFFICES ASSUME RunnerInv, NEW l \in 1..MaxLife
               PROVE  Cardinality({c \in Call : Runs(c) /\ task[c].life = l}) <= Slots
    BY DEF GuestBound
  <2> DEFINE R == {c \in Call : Runs(c) /\ task[c].life = l}
  <2>1. R \subseteq Guests(l)
    BY DEF Guests, Guest
  <2>2. IsFiniteSet(Guests(l)) /\ Cardinality(Guests(l)) <= Slots
    BY DEF RunnerInv, GuestsBound
  <2>3. IsFiniteSet(R) /\ Cardinality(R) <= Cardinality(Guests(l))
    BY <2>1, <2>2, FS_Subset
  <2> HIDE DEF R
  <2>4. Cardinality(R) <= Slots
    BY <2>2, <2>3, FS_CardinalityType, RunnerAssumption
  <2> QED
    BY <2>4 DEF R
<1> QED
  BY <1>1, RunnerInvariant, PTL

\* HonestCancel: "cancelled" is only answered for an attempt some worker has aborted; the
\* total timer, a shutdown and a broken connection never make one up (Finished of server.ts).
THEOREM HonestCancelHolds == Spec => []HonestCancel
<1>1. RunnerInv => HonestCancel
  BY DEF RunnerInv, CallInv, Asked, Cancelled, HonestCancel
<1> QED
  BY <1>1, RunnerInvariant, PTL
=============================================================================
