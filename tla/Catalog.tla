------------------------------ MODULE Catalog ------------------------------
(***************************************************************************)
(* The catalogue (admin.ts, competitions.ts, discussions.ts, problems.ts   *)
(* and Executions.create): problems and their versions, competitions and   *)
(* their rounds, and what refers to them: submissions and discussions.     *)
(*                                                                         *)
(* Most handlers read rows, decide, and only then open the transaction     *)
(* that writes.  Such a handler is two steps here: the first keeps in      *)
(* `req` what it has read, the second is the transaction, which commits    *)
(* if the rows as they then are satisfy its own tests, the triggers and    *)
(* the foreign keys.  When they do not, `Fail` is the only step left.      *)
(* The identifiers are the primary keys, which are never used again: a     *)
(* slug that is taken anew belongs to another row.                         *)
(*                                                                         *)
(* A competition has one round, as a CONTEST does, with the schedule of    *)
(* the competition; `round` is its primary key.                            *)
(***************************************************************************)
EXTENDS Integers, FiniteSets, Sequences, TLC

CONSTANTS
    Problem, Competition, User,  \* rows that may be created; accounts
    Request,                     \* HTTP requests under way
    None,
    MaxOwned,        \* five upcoming or live competitions to an organizer
    CreateLead,      \* how far ahead a new competition must start
    UpdateLead,      \* how far ahead an updated one must
    MaxVersions,     \* bound: versions of a problem
    MaxRounds,       \* bound: rounds a competition is given, one after another
    MaxExecutions,   \* bound: submissions
    MaxTime,         \* bound: last instant
    Horizon          \* bound: last instant of a schedule

ASSUME CatalogAssumption ==
    /\ None \notin Competition \cup User
    /\ MaxTime <= Horizon
    /\ {MaxOwned, CreateLead, UpdateLead, MaxVersions, MaxRounds, MaxExecutions,
        MaxTime, Horizon} \subseteq Nat

VARIABLES
    now,          \* the clock of the API and the database
    problem,      \* Problem and ProblemVersion
    competition,  \* Competition, CompetitionRound, CompetitionProblem, CompetitionRegistration
    execution,    \* Execution: what each submission was entered for
    post,         \* the problems with a DiscussionPost
    req           \* what each request has read

vars == <<now, problem, competition, execution, post, req>>

-----------------------------------------------------------------------------
(* Rows *)

Row == {"none", "present", "deleted"}
Time == 0..Horizon
Schedule == {s \in [starts: Time, ends: Time] : s.starts < s.ends}

\* versions[n] says whether version n is published; current is 0 when null.
ProblemRow == [row: Row, versions: Seq(BOOLEAN), current: Nat]
NoProblem == [row |-> "none", versions |-> <<>>, current |-> 0]

CompetitionRow == [row: Row, published: BOOLEAN, starts: Nat, ends: Nat, round: Nat,
                   problems: SUBSET Problem, owner: User \cup {None}, registered: SUBSET User]
NoCompetition == [row |-> "none", published |-> FALSE, starts |-> 0, ends |-> 0, round |-> 0,
                  problems |-> {}, owner |-> None, registered |-> {}]

Execution == [problem: Problem, version: Nat, competition: Competition \cup {None},
              round: Nat, at: Nat]

Idle == [op |-> "idle"]
ProblemRequest ==
    [op: {"editProblem", "setProblemPublication", "deleteProblem", "discuss"},
     problem: Problem, publish: BOOLEAN, latest: Nat, published: BOOLEAN]
ExecutionRequest == [op: {"createExecution"}, execution: Execution]
CompetitionRequest ==
    [op: {"createCompetition", "update", "deleteCompetition"}, competition: Competition,
     owner: User \cup {None}, schedule: [starts: Nat, ends: Nat], problems: SUBSET Problem,
     published: BOOLEAN, at: Nat]

\* A version that is published; the problems that have been at some time.
Published(p, v) == v \in DOMAIN problem[p].versions /\ problem[p].versions[v]
EverPublished(p) == \E v \in DOMAIN problem[p].versions : problem[p].versions[v]

\* What the public list and detail show, and discussions and competitions accept.
Listed(p) == problem[p].current # 0 /\ Published(p, problem[p].current)

\* Foreign keys that restrict a deletion.
HasExecutions(p) == \E x \in execution : x.problem = p
InRound(p) == \E c \in Competition : p \in competition[c].problems
Entered(c) == \E x \in execution : x.competition = c /\ x.round = competition[c].round

Opened(r, q) ==
    /\ req[r] = Idle
    /\ req' = [req EXCEPT ![r] = q]
    /\ UNCHANGED <<now, problem, competition, execution, post>>

OnProblem(op, p, publish, latest, published) ==
    [op |-> op, problem |-> p, publish |-> publish, latest |-> latest, published |-> published]

Closed(r) == req' = [req EXCEPT ![r] = Idle]

-----------------------------------------------------------------------------
(* Problems *)

createProblem(p, publish) ==
    /\ problem[p].row = "none"
    /\ problem' = [problem EXCEPT ![p] =
          [row |-> "present", versions |-> <<publish>>, current |-> IF publish THEN 1 ELSE 0]]
    /\ UNCHANGED <<now, competition, execution, post, req>>

editProblem(r, p, publish) ==
    /\ problem[p].row = "present"
    /\ Opened(r, OnProblem("editProblem", p, publish, 0, FALSE))

\* The row is locked before the latest number is read.
editProblemCommit(r) ==
    LET p == req[r].problem
        number == Len(problem[p].versions) + 1 IN
    /\ req[r].op = "editProblem"
    /\ problem[p].row = "present"
    /\ number <= MaxVersions
    /\ problem' = [problem EXCEPT ![p] =
          [row |-> "present", versions |-> Append(problem[p].versions, req[r].publish),
           current |-> IF req[r].publish THEN number ELSE problem[p].current]]
    /\ Closed(r)
    /\ UNCHANGED <<now, competition, execution, post>>

setProblemPublication(r, p, publish) ==
    LET latest == Len(problem[p].versions) IN
    /\ problem[p].row = "present"
    /\ Opened(r, OnProblem("setProblemPublication", p, publish, latest, Published(p, latest)))

\* protect_published_version: a version is published once and stays as it is.
Publishable(p, v) == v \in DOMAIN problem[p].versions /\ ~problem[p].versions[v]

\* Publication that only moves the pointer.
PointerOnly(r) ==
    /\ req[r].op = "setProblemPublication"
    /\ problem[req[r].problem].row = "present"
    /\ problem' = [problem EXCEPT ![req[r].problem].current =
                      IF req[r].publish THEN req[r].latest ELSE 0]
    /\ Closed(r)
    /\ UNCHANGED <<now, competition, execution, post>>

setProblemPublicationCommit(r) ==
    LET q == req[r]
        p == q.problem
        publishing == q.publish /\ ~q.published
        versions == [v \in DOMAIN problem[p].versions |->
                        problem[p].versions[v] \/ (publishing /\ v = q.latest)] IN
    /\ q.op = "setProblemPublication"
    /\ problem[p].row = "present"
    /\ publishing => Publishable(p, q.latest)
    /\ problem' = [problem EXCEPT ![p] =
          [row |-> "present", versions |-> versions,
           current |-> IF q.publish THEN q.latest ELSE 0]]
    /\ Closed(r)
    /\ UNCHANGED <<now, competition, execution, post>>

deleteProblem(r, p) ==
    /\ problem[p].row = "present"
    /\ ~InRound(p) /\ ~EverPublished(p) /\ ~HasExecutions(p)
    /\ Opened(r, OnProblem("deleteProblem", p, FALSE, 0, FALSE))

Deleted(r, p) ==
    /\ req[r].op = "deleteProblem"
    /\ problem' = [problem EXCEPT ![p] = [NoProblem EXCEPT !.row = "deleted"]]
    /\ post' = post \ {p}
    /\ Closed(r)
    /\ UNCHANGED <<now, competition, execution>>

\* A deletion that trusts what was counted before its transaction.
DeleteTrusting(r) ==
    /\ req[r].op = "deleteProblem"
    /\ Deleted(r, req[r].problem)

\* The triggers refuse a published version, the foreign keys one that is referred to.
\* The posts go with the problem.
deleteProblemCommit(r) ==
    /\ req[r].op = "deleteProblem"
    /\ problem[req[r].problem].row = "present"
    /\ ~EverPublished(req[r].problem)
    /\ ~HasExecutions(req[r].problem)
    /\ ~InRound(req[r].problem)
    /\ Deleted(r, req[r].problem)

discuss(r, p) ==
    /\ Listed(p)
    /\ Opened(r, OnProblem("discuss", p, FALSE, 0, FALSE))

discussCommit(r) ==
    /\ req[r].op = "discuss"
    /\ problem[req[r].problem].row = "present"
    /\ post' = post \cup {req[r].problem}
    /\ Closed(r)
    /\ UNCHANGED <<now, problem, competition, execution>>

-----------------------------------------------------------------------------
(* Competitions *)

\* `at` is the instant from which the organizer's competitions are counted.
OnCompetition(op, c, owner, schedule, problems, published, at) ==
    [op |-> op, competition |-> c, owner |-> owner, schedule |-> schedule,
     problems |-> problems, published |-> published, at |-> at]

NoSchedule == [starts |-> 0, ends |-> 1]

\* An administrator's (owner None) or a user's.
createCompetition(r, c, owner, schedule, problems, published) ==
    /\ competition[c].row = "none"
    /\ owner # None => published /\ schedule.starts >= now + CreateLead
    /\ \A p \in problems : Listed(p)
    /\ Opened(r, OnCompetition("createCompetition", c, owner, schedule, problems, published, now))

Owned(u, t) == {c \in Competition : competition[c].owner = u /\ competition[c].ends > t}

\* The organizer's row is locked while their competitions are counted.
createCompetitionCommit(r) ==
    LET q == req[r] IN
    /\ q.op = "createCompetition"
    /\ competition[q.competition].row = "none"
    /\ q.owner # None => Cardinality(Owned(q.owner, q.at)) < MaxOwned
    /\ \A p \in q.problems : problem[p].row = "present"
    /\ competition' = [competition EXCEPT ![q.competition] =
          [row |-> "present", published |-> q.published, starts |-> q.schedule.starts,
           ends |-> q.schedule.ends, round |-> 1, problems |-> q.problems, owner |-> q.owner,
           registered |-> {q.owner} \ {None}]]
    /\ Closed(r)
    /\ UNCHANGED <<now, problem, execution, post>>

\* By the organizer or an administrator.
update(r, c, schedule, problems) ==
    /\ competition[c].row = "present"
    /\ now < competition[c].starts
    /\ schedule.starts >= now + UpdateLead
    /\ \A p \in problems : Listed(p)
    /\ Opened(r, OnCompetition("update", c, None, schedule, problems, FALSE, 0))

\* An update that changes the round where it stands.
UpdateInPlace(r) ==
    LET q == req[r] IN
    /\ q.op = "update"
    /\ competition[q.competition].row = "present"
    /\ \A p \in q.problems : problem[p].row = "present"
    /\ competition' = [competition EXCEPT
          ![q.competition].starts = q.schedule.starts, ![q.competition].ends = q.schedule.ends,
          ![q.competition].problems = q.problems]
    /\ Closed(r)
    /\ UNCHANGED <<now, problem, execution, post>>

\* The rounds are deleted, which a submission to one forbids, and made anew.
updateCommit(r) ==
    LET q == req[r]
        c == q.competition IN
    /\ q.op = "update"
    /\ competition[c].row = "present"
    /\ ~Entered(c)
    /\ competition[c].round < MaxRounds
    /\ \A p \in q.problems : problem[p].row = "present"
    /\ competition' = [competition EXCEPT ![c] =
          [row |-> "present", published |-> competition[c].published,
           starts |-> q.schedule.starts, ends |-> q.schedule.ends,
           round |-> competition[c].round + 1, problems |-> q.problems,
           owner |-> competition[c].owner, registered |-> competition[c].registered]]
    /\ Closed(r)
    /\ UNCHANGED <<now, problem, execution, post>>

deleteCompetition(r, c) ==
    /\ competition[c].row = "present"
    /\ ~Entered(c)
    /\ Opened(r, OnCompetition("deleteCompetition", c, None, NoSchedule, {}, FALSE, 0))

deleteCompetitionCommit(r) ==
    LET c == req[r].competition IN
    /\ req[r].op = "deleteCompetition"
    /\ competition[c].row = "present"
    /\ ~Entered(c)
    /\ competition' = [competition EXCEPT ![c] = [NoCompetition EXCEPT !.row = "deleted"]]
    /\ Closed(r)
    /\ UNCHANGED <<now, problem, execution, post>>

setCompetitionPublication(c, published) ==
    /\ competition[c].row = "present"
    /\ competition' = [competition EXCEPT ![c].published = published]
    /\ UNCHANGED <<now, problem, execution, post, req>>

register(u, c) ==
    /\ competition[c].row = "present"
    /\ competition[c].published
    /\ now < competition[c].ends
    /\ competition' = [competition EXCEPT ![c].registered = @ \cup {u}]
    /\ UNCHANGED <<now, problem, execution, post, req>>

-----------------------------------------------------------------------------
(* Submissions: what Executions.create enters a program for *)

Open(u, p, c) ==
    /\ competition[c].row = "present"
    /\ competition[c].published
    /\ competition[c].starts <= now
    /\ now < competition[c].ends
    /\ u \in competition[c].registered
    /\ p \in competition[c].problems

createExecution(r, u, p, c) ==
    /\ Cardinality(execution) < MaxExecutions
    /\ Listed(p)
    /\ c # None => Open(u, p, c)
    /\ Opened(r, [op |-> "createExecution", execution |->
          [problem |-> p, version |-> problem[p].current, competition |-> c,
           round |-> IF c = None THEN 0 ELSE competition[c].round, at |-> now]])

createExecutionCommit(r) ==
    LET x == req[r].execution IN
    /\ req[r].op = "createExecution"
    /\ Cardinality(execution) < MaxExecutions
    /\ Published(x.problem, x.version)
    /\ x.competition # None => competition[x.competition].round = x.round
    /\ execution' = execution \cup {x}
    /\ Closed(r)
    /\ UNCHANGED <<now, problem, competition, post>>

-----------------------------------------------------------------------------
(* The system *)

\* The client goes away, or a test, trigger or key has the transaction rolled back.
Fail(r) ==
    /\ req[r] # Idle
    /\ Closed(r)
    /\ UNCHANGED <<now, problem, competition, execution, post>>

Tick ==
    /\ now < MaxTime
    /\ now' = now + 1
    /\ UNCHANGED <<problem, competition, execution, post, req>>

Init ==
    /\ now = 0
    /\ problem = [p \in Problem |-> NoProblem]
    /\ competition = [c \in Competition |-> NoCompetition]
    /\ execution = {}
    /\ post = {}
    /\ req = [r \in Request |-> Idle]

problems ==
    \/ \E p \in Problem, b \in BOOLEAN : createProblem(p, b)
    \/ \E r \in Request, p \in Problem, b \in BOOLEAN :
          editProblem(r, p, b) \/ setProblemPublication(r, p, b)
    \/ \E r \in Request, p \in Problem : deleteProblem(r, p) \/ discuss(r, p)
    \/ \E r \in Request :
          \/ editProblemCommit(r)
          \/ setProblemPublicationCommit(r)
          \/ deleteProblemCommit(r)
          \/ discussCommit(r)

competitions ==
    \/ \E r \in Request, c \in Competition, s \in Schedule, ps \in SUBSET Problem \ {{}} :
          \/ \E u \in User \cup {None}, b \in BOOLEAN : createCompetition(r, c, u, s, ps, b)
          \/ update(r, c, s, ps)
    \/ \E r \in Request, c \in Competition : deleteCompetition(r, c)
    \/ \E r \in Request :
          createCompetitionCommit(r) \/ updateCommit(r) \/ deleteCompetitionCommit(r)
    \/ \E c \in Competition, b \in BOOLEAN : setCompetitionPublication(c, b)
    \/ \E u \in User, c \in Competition : register(u, c)

submissions ==
    \/ \E r \in Request, u \in User, p \in Problem, c \in Competition \cup {None} :
          createExecution(r, u, p, c)
    \/ \E r \in Request : createExecutionCommit(r)

Next == problems \/ competitions \/ submissions \/ Tick \/ \E r \in Request : Fail(r)

Spec == Init /\ [][Next]_vars

-----------------------------------------------------------------------------
(* Properties *)

\* Every row and every request has the shape the schema and the handlers give it.
TypeOK ==
    /\ now \in Nat
    /\ problem \in [Problem -> ProblemRow]
    /\ competition \in [Competition -> CompetitionRow]
    /\ execution \subseteq Execution
    /\ post \subseteq Problem
    /\ req \in [Request -> {Idle} \cup ProblemRequest \cup ExecutionRequest \cup CompetitionRequest]

\* Whatever publication, edit or deletion was overtaken by another, the version learners
\* are shown, if any, exists and is published, and so do the problems of every round
\* (setProblemPublication, editProblem and deleteProblem in admin.ts and create and update
\* in competitions.ts all decide from what they read before their transaction).
CurrentPublished ==
    /\ \A p \in Problem : problem[p].current # 0 => Published(p, problem[p].current)
    /\ \A c \in Competition : \A p \in competition[c].problems :
          problem[p].row = "present" /\ EverPublished(p)

\* What a submission was entered for stays what it was: its version is there and
\* published, and its round is there, has its problem, and was open when the submission
\* was admitted.  An update or deletion of the competition, or of the problem, that was
\* decided before the submission does not take it away (competitions.ts update reads the
\* start before its transaction; Executions.create reads the round before it inserts).
Pinned ==
    \A x \in execution :
        /\ Published(x.problem, x.version)
        /\ x.competition # None =>
              LET c == competition[x.competition] IN
              /\ c.row = "present"
              /\ c.round = x.round
              /\ x.problem \in c.problems
              /\ c.starts <= x.at /\ x.at < c.ends

\* A published version never disappears or becomes a draft again, and discussions never
\* disappear, though deleteProblem deletes versions and, by cascade, posts.
RecordsKept ==
    [][\A p \in Problem :
          /\ \A v \in DOMAIN problem[p].versions :
                problem[p].versions[v] => Published(p, v)'
          /\ p \in post => p \in post']_vars
=============================================================================
