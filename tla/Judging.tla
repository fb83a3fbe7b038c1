------------------------------ MODULE Judging ------------------------------
(***************************************************************************)
(* What an execution computes, on top of Runner: the plan that             *)
(* JudgingBackend loads, the observation that SandboxSupervisor.execute    *)
(* gathers case by case in its sandboxes, and the verdict that judge draws *)
(* from it once SupervisorClient has read it.  Every step is a step of     *)
(* Runner that says in addition what it does to the observation.           *)
(*                                                                         *)
(* Text is a sequence of characters: "nul" stands for a control character, *)
(* "bad" for a byte that is not UTF-8.  Sizes are scaled down; the keys    *)
(* and numbers of the JSON, some thirty KiB in all, are left out, and so   *)
(* are the metrics and the display of public results.                      *)
(***************************************************************************)
EXTENDS Runner, Sequences

CONSTANTS
    Execution,      \* records of mode, language and plan, a set of cases
    Program,        \* what a program may print: records of stdout, stderr, exitCode
    OutputBytes,    \* CAPS.outputBytes, the budget of an execution (256 KiB)
    JudgeBytes,     \* the text judge accepts (1 MiB)
    ClientBytes     \* the response the client accepts (2 MiB)

ASSUME JudgingAssumption ==
    /\ OutputBytes \in Nat \ {0}
    /\ JudgeBytes >= 4 * OutputBytes /\ ClientBytes >= 8 * OutputBytes
    /\ \A e \in Execution : \E x \in e.plan : x.visibility = "PUBLIC"

VARIABLES
    execution,      \* per call: what it executes
    observation,    \* per call: the ExecutionObservation of the supervisor
    budget,         \* per call: the bytes of output that are left
    judged,         \* per call: what judge returned or threw
    guest           \* history, per call: what became of each case that was run

judgingVars == <<execution, observation, budget, judged, guest>>

NoExit == -1

-----------------------------------------------------------------------------
(* Text *)

\* Buffer.toString: a byte that is no UTF-8 becomes U+FFFD.
toString(bytes) == [i \in DOMAIN bytes |-> IF bytes[i] = "bad" THEN "U+FFFD" ELSE bytes[i]]

Count(text, chars) == Cardinality({i \in DOMAIN text : text[i] \in chars})

byteLength(text) == Len(text) + 2 * Count(text, {"U+FFFD"})

\* The length in JSON: two bytes for a line end, six for another control character.
stringified(text) == byteLength(text) + Count(text, {"cr", "lf"}) + 5 * Count(text, {"nul"})

\* replace(/\r\n/g, '\n')
normalized(text) ==
    LET upTo[i \in 0..Len(text)] ==
            IF i = 0 THEN <<>>
            ELSE IF text[i] = "cr" /\ i < Len(text) /\ text[i + 1] = "lf" THEN upTo[i - 1]
            ELSE Append(upTo[i - 1], text[i])
    IN  upTo[Len(text)]

compareOutput(actual, expected) ==
    LET a == normalized(actual) e == normalized(expected)
    IN  a = e \/ a = Append(e, "lf") \/ Append(a, "lf") = e

-----------------------------------------------------------------------------
(* The plan and the judge *)

\* The cases of the mode in the order of their identifiers.
SelectUnordered(e) ==
    LET cases == {x \in e.plan : e.mode = "SUBMIT" \/ x.visibility = "PUBLIC"}
    IN  [i \in 1..Cardinality(cases) |->
            CHOOSE x \in cases : Cardinality({y \in cases : y.id < x.id}) = i - 1]

\* loadJudgePlan and selectCases: the cases of the mode by their ordinals.
selectCases(e) ==
    LET cases == {x \in e.plan : e.mode = "SUBMIT" \/ x.visibility = "PUBLIC"}
    IN  [i \in 1..Cardinality(cases) |->
            CHOOSE x \in cases : Cardinality({y \in cases : y.ordinal < x.ordinal}) = i - 1]

\* All the text of an observation; a size of it is the sum of its parts' sizes.
Text(o) ==
    LET upTo[i \in 0..Len(o.cases)] ==
            IF i = 0 THEN o.compiler
            ELSE upTo[i - 1] \o o.cases[i].stdout \o o.cases[i].stderr
    IN  upTo[Len(o.cases)]

verdictOf(o, test) ==
    CASE o.failure # "none" -> o.failure
      [] o.exitCode # 0 -> "RUNTIME_ERROR"
      [] compareOutput(o.stdout, test.expectedOutput) -> "ACCEPTED"
      [] OTHER -> "WRONG_ANSWER"

\* judge, in the order of its checks.
judge(e, o, cancellationConfirmed) ==
    LET cases == selectCases(e)
        n == Len(o.cases)
        wrong == {i \in 1..n : verdictOf(o.cases[i], cases[i]) # "ACCEPTED"}
    IN  CASE byteLength(Text(o)) > JudgeBytes -> "INVALID_JUDGE_PROTOCOL"
          [] cancellationConfirmed -> "SANDBOX_CANCELLED"
          [] (e.language = "java") # (o.compilation # "none") -> "INVALID_JUDGE_PROTOCOL"
          [] o.compilation = "failed" ->
                IF n = 0 THEN "COMPILATION_ERROR" ELSE "INVALID_JUDGE_PROTOCOL"
          [] n = 0 \/ n > Len(cases) -> "INVALID_JUDGE_PROTOCOL"
          [] n # Len(cases) /\ o.cases[n].failure = "none" -> "INVALID_JUDGE_PROTOCOL"
          [] \E i \in 1..n :
                \/ o.cases[i].caseId # cases[i].id
                \/ o.cases[i].failure = "none" /\ o.cases[i].exitCode = NoExit
                \/ o.cases[i].failure # "none" /\ i # n -> "INVALID_JUDGE_PROTOCOL"
          [] wrong = {} -> "ACCEPTED"
          [] OTHER -> LET i == CHOOSE x \in wrong : \A y \in wrong : x <= y
                      IN  verdictOf(o.cases[i], cases[i])

-----------------------------------------------------------------------------
(* SandboxSupervisor.execute *)

\* Output is not taken off the budget.
SpendNothing(c, n) == budget' = budget

spend(c, n) == budget' = [budget EXCEPT ![c] = @ - n]

Compiles(c) == execution[c].language = "java" /\ observation[c].compilation = "none"

\* The case at hand.
Test(c) == selectCases(execution[c])[Len(observation[c].cases) + 1]

\* The case at hand is observed as o; it ended, by itself or not, with program p.
Observe(c, o, end, p) ==
    /\ observation' = [observation EXCEPT ![c].cases = Append(@, o)]
    /\ guest' = [guest EXCEPT ![c] = @ \cup {[id |-> Test(c).id, end |-> end, program |-> p]}]

\* It is observed without output as stopped.
ObserveStop(c, failure, end) ==
    LET nothing == [stdout |-> <<>>, stderr |-> <<>>, exitCode |-> NoExit]
    IN  Observe(c, [caseId |-> Test(c).id, stdout |-> <<>>, stderr |-> <<>>,
                    exitCode |-> NoExit, failure |-> failure], end, nothing)

\* The body of the compile sandbox.  A compiler that exceeds its limits, and classes
\* that normalizeJavaArtifacts refuses, are thrown.
compile(c) ==
    /\ Compiles(c)
    /\ Ran(c)
    /\ \/ \E p \in Program :
            /\ Len(p.stdout) <= budget[c]
            /\ task'[c].ending = IF p.exitCode = 0 THEN "ok" ELSE "done"
            /\ observation' = [observation EXCEPT
                 ![c].compilation = IF p.exitCode = 0 THEN "ok" ELSE "failed",
                 ![c].compiler = toString(p.stdout)]
            /\ spend(c, Len(p.stdout))
       \/ /\ task'[c].ending = "error"
          /\ UNCHANGED <<observation, budget>>
    /\ UNCHANGED <<execution, judged, guest>>

\* The program ends by itself.  It was killed for its memory when the oom_kill counter
\* has grown, or when the counters are gone and Docker says so of the stopped container.
ends(c) ==
    /\ ~Compiles(c)
    /\ Ran(c)
    /\ \E p \in Program, oomKilled \in BOOLEAN :
        /\ Len(p.stdout) + Len(p.stderr) <= budget[c]
        /\ task'[c].ending = IF oomKilled THEN "done" ELSE "ok"
        /\ Observe(c, [caseId |-> Test(c).id, stdout |-> toString(p.stdout),
                       stderr |-> toString(p.stderr), exitCode |-> p.exitCode,
                       failure |-> IF oomKilled THEN "MEMORY_LIMIT_EXCEEDED" ELSE "none"],
                   IF oomKilled THEN "memory" ELSE "exit", p)
        /\ spend(c, Len(p.stdout) + Len(p.stderr))
    /\ UNCHANGED <<execution, judged>>

\* The command of the program times out or prints too much.  The commands that measure
\* it are in the same try block: one that times out counts as the program's time.
stopped(c) ==
    /\ ~Compiles(c)
    /\ Ran(c)
    /\ task'[c].ending = "done"
    /\ \/ /\ \E end \in {"time", "measurement"} : ObserveStop(c, "TIME_LIMIT_EXCEEDED", end)
          /\ UNCHANGED budget
       \/ /\ ObserveStop(c, "OUTPUT_LIMIT_EXCEEDED", "output")
          /\ budget' = [budget EXCEPT ![c] = 0]
    /\ UNCHANGED <<execution, judged>>

\* Anything else is thrown: Docker fails, or a running container cannot be measured.
throws(c) ==
    /\ ~Compiles(c)
    /\ \/ Ran(c) /\ task'[c].ending = "error"
       \/ RanAborted(c)
    /\ UNCHANGED judgingVars

\* There is a case left, and the compiler, if any, has accepted the program.
More(c) ==
    /\ observation[c].compilation # "failed"
    /\ Len(observation[c].cases) < Len(selectCases(execution[c]))

\* The sandbox is gone.  The loop goes on with the next case, unless the budget is
\* spent: that case is observed as stopped, without a sandbox, and is the last.
proceed(c) ==
    /\ task[c].phase = "listing"
    /\ ~Exists(c)
    /\ Confirmed(c)
    /\ LET spent == budget[c] <= 0 /\ ~task[c].inner
       IN  /\ task[c].ending = "ok" => (task'[c].phase = "looping" <=> More(c) /\ ~spent)
           /\ IF task[c].ending = "ok" /\ More(c) /\ spent
              THEN ObserveStop(c, "OUTPUT_LIMIT_EXCEEDED", "output")
              ELSE UNCHANGED <<observation, guest>>
    /\ UNCHANGED <<client, request, process, box, expired, execution, budget, judged>>

\* The sandbox is not known to be gone.
cleanupUnconfirmed(c) ==
    /\ task[c].phase = "listing"
    /\ Unconfirmed(c)
    /\ UNCHANGED <<client, request, box, expired>> /\ UNCHANGED judgingVars

-----------------------------------------------------------------------------
(* JudgingBackend.execute *)

\* The client has the whole response; what it resolves to is judged.
settle(c) ==
    /\ stringified(Text(observation[c])) <= ClientBytes
    /\ ClientRead(c)
    /\ judged' = [judged EXCEPT ![c] =
         IF reply[c] \in {"observed", "cancelled"}
         THEN judge(execution[c], observation[c], reply[c] = "cancelled")
         ELSE @]
    /\ UNCHANGED <<execution, observation, budget, guest>>

JudgingInit ==
    /\ Init
    /\ execution \in [Call -> Execution]
    /\ observation = [c \in Call |-> [compilation |-> "none", compiler |-> <<>>, cases |-> <<>>]]
    /\ budget = [c \in Call |-> OutputBytes]
    /\ judged = [c \in Call |-> "none"]
    /\ guest = [c \in Call |-> {}]

Communicate(c) ==
    \/ ClientExecute(c) \/ ClientAbort(c) \/ ClientLose(c)
    \/ CancelArrive(c) \/ CancelHandle(c) \/ CancelLose(c)
    \/ Handle(c) \/ HandleClose(c) \/ HandleBroken(c) \/ Execute(c)

Contain(c) ==
    \/ Loop(c) \/ Created(c) \/ verifyContainer(c) \/ Started(c)
    \/ Compiles(c) /\ RanAborted(c)
    \/ Remove(c) \/ Expire(c)
    \/ DaemonCreate(c) \/ DaemonRefuse(c) \/ DaemonStart(c) \/ Reap(c)

JudgingNext ==
    \/ \E c \in Call :
          \/ compile(c) \/ ends(c) \/ stopped(c) \/ throws(c)
          \/ proceed(c) \/ cleanupUnconfirmed(c) \/ settle(c)
    \/ /\ \/ \E c \in Call : Communicate(c) \/ Contain(c)
          \/ Crash \/ Close \/ Closed \/ Boot
       /\ UNCHANGED judgingVars

JudgingSpec == JudgingInit /\ [][JudgingNext]_<<vars, judgingVars>>

FairJudgingSpec == JudgingSpec /\ FairSteps

-----------------------------------------------------------------------------
(* Properties *)

\* Client, supervisor and judge agree on the observation: whatever programs print and
\* whenever they are stopped, the response fits into what the client accepts, and the
\* judge never refuses it for its size, its shape or its completeness.
ProtocolAgreement ==
    \A c \in Call :
        /\ reply[c] = "observed" => stringified(Text(observation[c])) <= ClientBytes
        /\ judged[c] # "INVALID_JUDGE_PROTOCOL"

\* The program printed what is expected, up to one final line end.
Right(g, test) ==
    /\ g.end = "exit" /\ g.program.exitCode = 0
    /\ \E text \in {normalized(g.program.stdout), normalized(test.expectedOutput)} :
        {normalized(g.program.stdout), normalized(test.expectedOutput)}
            \subseteq {text, Append(text, "lf")}

\* The verdict is what became of the program, from the plan itself: ACCEPTED when it was
\* right in every case of the mode, and else what went wrong in the case of the lowest
\* ordinal that is not right, all before it being right.  Docker's failure to measure
\* in time is the one fault that the code lays on the program.
VerdictFaithful ==
    \A c \in Call : judged[c] \notin {"none", "SANDBOX_CANCELLED", "COMPILATION_ERROR"} =>
        LET suite == {x \in execution[c].plan :
                        execution[c].mode = "SUBMIT" \/ x.visibility = "PUBLIC"}
            right == {x \in suite : \E g \in guest[c] : g.id = x.id /\ Right(g, x)}
        IN  IF judged[c] = "ACCEPTED" THEN right = suite
            ELSE \E x \in suite \ right, g \in guest[c] :
                /\ g.id = x.id
                /\ \A y \in suite : y.ordinal < x.ordinal => y \in right
                /\ CASE g.end \in {"time", "measurement"} -> judged[c] = "TIME_LIMIT_EXCEEDED"
                     [] g.end = "memory" -> judged[c] = "MEMORY_LIMIT_EXCEEDED"
                     [] g.end = "output" -> judged[c] = "OUTPUT_LIMIT_EXCEEDED"
                     [] g.program.exitCode # 0 -> judged[c] = "RUNTIME_ERROR"
                     [] OTHER -> judged[c] = "WRONG_ANSWER"
=============================================================================
