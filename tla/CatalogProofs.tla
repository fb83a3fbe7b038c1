---------------------------- MODULE CatalogProofs ----------------------------
(***************************************************************************)
(* The catalogue for any number of problems, competitions, accounts and    *)
(* concurrent requests: what was published stays, what learners are shown  *)
(* is published, and submissions keep what they were entered for.          *)
(***************************************************************************)
EXTENDS Catalog, TLAPS

-----------------------------------------------------------------------------
(* The inductive invariant, the handlers' reads and the transactions on problems *)

\* A row that is not there has no versions, no rounds and no problems; a competition that
\* is there has a round.
Absent ==
    /\ \A p \in Problem : problem[p].row # "present" =>
          problem[p].versions = <<>> /\ problem[p].current = 0
    /\ \A c \in Competition :
          IF competition[c].row = "present" THEN competition[c].round >= 1
          ELSE competition[c].round = 0 /\ competition[c].problems = {}

\* The round of entry x, if it is still the round of the competition, admits it.
Enters(x) ==
    LET c == competition[x.competition] IN
    /\ c.row = "present"
    /\ x.problem \in c.problems
    /\ c.starts <= x.at /\ x.at < c.ends

\* What createExecution has read of a round stays true of that round, which may be
\* replaced or deleted, but does not come back.
Held(x) ==
    LET c == competition[x.competition] IN
    /\ x.round >= 1
    /\ c.row # "none"
    /\ c.row = "present" => x.round <= c.round
    /\ c.round = x.round => Enters(x)

\* What request q has read and still relies on in its transaction.
Relied(q) ==
    /\ q.op = "setProblemPublication" /\ q.published => Published(q.problem, q.latest)
    /\ q.op = "discuss" => EverPublished(q.problem)
    /\ q.op \in {"createCompetition", "update"} => \A p \in q.problems : EverPublished(p)
    /\ q.op = "createExecution" /\ q.execution.competition # None => Held(q.execution)

CatalogInv ==
    /\ TypeOK
    /\ Absent
    /\ \A p \in Problem : problem[p].current # 0 => Published(p, problem[p].current)
    /\ \A c \in Competition : \A p \in competition[c].problems : EverPublished(p)
    /\ \A p \in post : EverPublished(p)
    /\ \A r \in Request : Relied(req[r])
    /\ Pinned

-----------------------------------------------------------------------------
(* What a step keeps *)

\* Published versions stay published.
VersionsKept == \A p \in Problem : \A v : Published(p, v) => Published(p, v)'

\* What was read of rounds stays true.
RoundsKept ==
    \A x \in Execution : x.competition # None /\ Held(x) => Held(x)'

LEMMA InitiallyCatalogued == Init => CatalogInv
  <1> SUFFICES ASSUME Init PROVE CatalogInv
    OBVIOUS
  <1>1. TypeOK
    BY DEF Init, TypeOK, NoProblem, NoCompetition, ProblemRow, CompetitionRow, Row
  <1>2. Absent
    BY DEF Init, Absent, NoProblem, NoCompetition
  <1>3. \A r \in Request : Relied(req[r])
    BY DEF Init, Relied, Idle
  <1> QED BY <1>1, <1>2, <1>3 DEF Init, CatalogInv, Pinned, NoProblem, NoCompetition

LEMMA EverKept ==
    ASSUME VersionsKept, TypeOK, NEW p \in Problem, EverPublished(p)
    PROVE  EverPublished(p)'
  <1>1. PICK v \in DOMAIN problem[p].versions : problem[p].versions[v]
    BY DEF EverPublished
  <1>2. Published(p, v)'
    BY <1>1 DEF VersionsKept, Published
  <1> QED BY <1>2 DEF Published, EverPublished

\* What a request relies on survives a step that keeps versions and rounds.
LEMMA ReliedKept ==
    ASSUME TypeOK, VersionsKept, RoundsKept, NEW r \in Request, Relied(req[r]), req'[r] = req[r]
    PROVE  Relied(req[r])'
  <1>1. req[r] \in {Idle} \cup ProblemRequest \cup ExecutionRequest \cup CompetitionRequest
    BY DEF TypeOK
  <1>2. CASE req[r] = Idle
    BY <1>2 DEF Relied, Idle
  <1>3. CASE req[r] \in ProblemRequest
    BY <1>3, EverKept DEF Relied, ProblemRequest, VersionsKept
  <1>4. CASE req[r] \in ExecutionRequest
    BY <1>4 DEF Relied, ExecutionRequest, RoundsKept
  <1>5. CASE req[r] \in CompetitionRequest
    BY <1>5, EverKept DEF Relied, CompetitionRequest
  <1> QED BY <1>1, <1>2, <1>3, <1>4, <1>5

\* A step that leaves problems and competitions alone keeps both.
LEMMA NothingLost ==
    ASSUME UNCHANGED <<problem, competition>>
    PROVE  VersionsKept /\ RoundsKept
  BY DEF VersionsKept, RoundsKept, Published, Held, Enters

LEMMA OpenStep ==
    ASSUME CatalogInv, NEW r \in Request,
           NEW q \in ProblemRequest \cup ExecutionRequest \cup CompetitionRequest,
           Opened(r, q), Relied(q)
    PROVE  CatalogInv'
  <1>1. UNCHANGED <<now, problem, competition, execution, post>> /\ req' = [req EXCEPT ![r] = q]
    BY DEF Opened
  <1>2. TypeOK'
    BY <1>1 DEF CatalogInv, TypeOK
  <1>3. \A s \in Request : Relied(req[s])'
    <2>1. Relied(q)'
      BY <1>1 DEF Relied, Published, EverPublished, Held, Enters
    <2>2. ASSUME NEW s \in Request, s # r PROVE Relied(req[s])'
      BY <1>1, <2>2, NothingLost, ReliedKept DEF CatalogInv, TypeOK
    <2>3. req'[r] = q
      BY <1>1 DEF CatalogInv, TypeOK
    <2> QED BY <2>1, <2>2, <2>3
  <1> QED BY <1>1, <1>2, <1>3 DEF CatalogInv, Absent, Pinned, Published, EverPublished

\* The reads, each of which finds what its transaction will rely on.
LEMMA ReadStep ==
    ASSUME CatalogInv, NEW r \in Request,
           \/ \E p \in Problem, b \in BOOLEAN :
                 editProblem(r, p, b) \/ setProblemPublication(r, p, b)
           \/ \E p \in Problem : deleteProblem(r, p) \/ discuss(r, p)
    PROVE  CatalogInv'
  <1>1. ASSUME NEW p \in Problem, NEW b \in BOOLEAN, editProblem(r, p, b) PROVE CatalogInv'
    <2>1. OnProblem("editProblem", p, b, 0, FALSE) \in ProblemRequest
      BY DEF OnProblem, ProblemRequest
    <2>2. Relied(OnProblem("editProblem", p, b, 0, FALSE))
      BY DEF Relied, OnProblem
    <2> QED BY <1>1, <2>1, <2>2, OpenStep DEF editProblem
  <1>2. ASSUME NEW p \in Problem, NEW b \in BOOLEAN, setProblemPublication(r, p, b) PROVE CatalogInv'
    <2> DEFINE latest == Len(problem[p].versions)
               q == OnProblem("setProblemPublication", p, b, latest, Published(p, latest))
    <2>1. latest \in Nat /\ Published(p, latest) \in BOOLEAN
      BY DEF CatalogInv, TypeOK, ProblemRow, Published
    <2>2. q \in ProblemRequest
      BY <2>1 DEF OnProblem, ProblemRequest
    <2>3. Relied(q)
      BY DEF Relied, OnProblem
    <2>4. Opened(r, q)
      BY <1>2 DEF setProblemPublication
    <2> HIDE DEF q
    <2> QED BY <2>2, <2>3, <2>4, OpenStep
  <1>3. ASSUME NEW p \in Problem, deleteProblem(r, p) PROVE CatalogInv'
    <2>1. OnProblem("deleteProblem", p, FALSE, 0, FALSE) \in ProblemRequest
      BY DEF OnProblem, ProblemRequest
    <2>2. Relied(OnProblem("deleteProblem", p, FALSE, 0, FALSE))
      BY DEF Relied, OnProblem
    <2> QED BY <1>3, <2>1, <2>2, OpenStep DEF deleteProblem
  <1>4. ASSUME NEW p \in Problem, discuss(r, p) PROVE CatalogInv'
    <2>1. OnProblem("discuss", p, FALSE, 0, FALSE) \in ProblemRequest
      BY DEF OnProblem, ProblemRequest
    <2>2. Relied(OnProblem("discuss", p, FALSE, 0, FALSE))
      BY <1>4 DEF Relied, OnProblem, discuss, Listed, Published, EverPublished
    <2> QED BY <1>4, <2>1, <2>2, OpenStep DEF discuss
  <1> QED BY <1>1, <1>2, <1>3, <1>4

LEMMA OrganizerReadStep ==
    ASSUME CatalogInv, NEW r \in Request, NEW c \in Competition,
           \/ \E s \in Schedule, ps \in SUBSET Problem \ {{}} :
                 \/ \E u \in User \cup {None}, b \in BOOLEAN : createCompetition(r, c, u, s, ps, b)
                 \/ update(r, c, s, ps)
           \/ deleteCompetition(r, c)
    PROVE  CatalogInv'
  <1>0. Schedule \subseteq [starts: Nat, ends: Nat] /\ now \in Nat
    BY CatalogAssumption DEF Schedule, Time, CatalogInv, TypeOK
  <1>1. ASSUME NEW s \in Schedule, NEW ps \in SUBSET Problem, NEW u \in User \cup {None},
               NEW b \in BOOLEAN, createCompetition(r, c, u, s, ps, b)
        PROVE  CatalogInv'
    <2> DEFINE q == OnCompetition("createCompetition", c, u, s, ps, b, now)
    <2>1. q \in CompetitionRequest
      BY <1>0 DEF OnCompetition, CompetitionRequest
    <2>2. Relied(q)
      BY <1>1 DEF Relied, OnCompetition, createCompetition, Listed, Published, EverPublished
    <2>3. Opened(r, q)
      BY <1>1 DEF createCompetition
    <2> HIDE DEF q
    <2> QED BY <2>1, <2>2, <2>3, OpenStep
  <1>2. ASSUME NEW s \in Schedule, NEW ps \in SUBSET Problem, update(r, c, s, ps)
        PROVE  CatalogInv'
    <2> DEFINE q == OnCompetition("update", c, None, s, ps, FALSE, 0)
    <2>1. q \in CompetitionRequest
      BY <1>0 DEF OnCompetition, CompetitionRequest
    <2>2. Relied(q)
      BY <1>2 DEF Relied, OnCompetition, update, Listed, Published, EverPublished
    <2>3. Opened(r, q)
      BY <1>2 DEF update
    <2> HIDE DEF q
    <2> QED BY <2>1, <2>2, <2>3, OpenStep
  <1>3. ASSUME deleteCompetition(r, c) PROVE CatalogInv'
    <2> DEFINE q == OnCompetition("deleteCompetition", c, None, NoSchedule, {}, FALSE, 0)
    <2>1. q \in CompetitionRequest
      BY DEF OnCompetition, CompetitionRequest, NoSchedule
    <2>2. Relied(q)
      BY DEF Relied, OnCompetition
    <2>3. Opened(r, q)
      BY <1>3 DEF deleteCompetition
    <2> HIDE DEF q
    <2> QED BY <2>1, <2>2, <2>3, OpenStep
  <1> QED BY <1>1, <1>2, <1>3

\* The round that createExecution finds open.
LEMMA EntryReadStep ==
    ASSUME CatalogInv, NEW r \in Request, NEW u \in User, NEW p \in Problem,
           NEW c \in Competition \cup {None}, createExecution(r, u, p, c)
    PROVE  CatalogInv'
  <1> DEFINE x == [problem |-> p, version |-> problem[p].current, competition |-> c,
                   round |-> IF c = None THEN 0 ELSE competition[c].round, at |-> now]
             q == [op |-> "createExecution", execution |-> x]
  <1>1. x \in Execution
    BY CatalogAssumption DEF CatalogInv, TypeOK, ProblemRow, CompetitionRow, Execution
  <1>2. q \in ExecutionRequest
    BY <1>1 DEF ExecutionRequest
  <1>3. c # None => Held(x)
    <2> SUFFICES ASSUME c # None PROVE Held(x)
      OBVIOUS
    <2>1. Open(u, p, c) /\ c \in Competition
      BY DEF createExecution
    <2>2. competition[c] \in CompetitionRow /\ now \in Nat
      BY <2>1 DEF CatalogInv, TypeOK
    <2> QED BY <2>1, <2>2 DEF Open, Held, Enters, CatalogInv, Absent, CompetitionRow
  <1>4. Relied(q)
    BY <1>3 DEF Relied
  <1>5. Opened(r, q)
    BY DEF createExecution
  <1> HIDE DEF q
  <1> QED BY <1>2, <1>4, <1>5, OpenStep

-----------------------------------------------------------------------------
(* The transactions *)

\* No request comes to rely on anything in the step that ends one.
LEMMA EndOfRequest ==
    ASSUME CatalogInv, VersionsKept, RoundsKept,
           req' = req \/ \E r \in Request : Closed(r)
    PROVE  /\ req' \in [Request -> {Idle} \cup ProblemRequest \cup ExecutionRequest
                                     \cup CompetitionRequest]
           /\ \A s \in Request : Relied(req[s])'
  <1>1. req' \in [Request -> {Idle} \cup ProblemRequest \cup ExecutionRequest
                               \cup CompetitionRequest]
    BY DEF CatalogInv, TypeOK, Closed
  <1>2. ASSUME NEW s \in Request PROVE Relied(req[s])'
    <2>1. req'[s] = req[s] \/ req'[s] = Idle
      BY DEF CatalogInv, TypeOK, Closed
    <2>2. CASE req'[s] = req[s]
      BY <2>2, ReliedKept DEF CatalogInv
    <2>3. CASE req'[s] = Idle
      BY <2>3 DEF Relied, Idle
    <2> QED BY <2>1, <2>2, <2>3
  <1> QED BY <1>1, <1>2

\* A step of the problems and their posts.
LEMMA ProblemStep ==
    ASSUME CatalogInv, VersionsKept, UNCHANGED <<now, competition, execution>>,
           problem' \in [Problem -> ProblemRow],
           \A p \in Problem : problem'[p].row # "present" =>
               problem'[p].versions = <<>> /\ problem'[p].current = 0,
           \A p \in Problem : problem'[p].current # 0 => Published(p, problem[p].current)',
           post' \subseteq Problem, \A p \in post' : EverPublished(p)',
           req' = req \/ \E r \in Request : Closed(r)
    PROVE  CatalogInv'
  <1>1. RoundsKept
    BY DEF RoundsKept, Held, Enters
  <1>2. TypeOK'
    BY <1>1, EndOfRequest DEF CatalogInv, TypeOK
  <1>3. Absent'
    BY DEF CatalogInv, Absent
  <1>4. \A c \in Competition : \A p \in competition'[c].problems : EverPublished(p)'
    BY EverKept DEF CatalogInv, TypeOK, CompetitionRow
  <1>5. Pinned'
    <2> SUFFICES ASSUME NEW x \in execution
                 PROVE  /\ Published(x.problem, x.version)'
                        /\ x.competition # None =>
                             LET c == competition[x.competition] IN
                             /\ c.row = "present"
                             /\ c.round = x.round
                             /\ x.problem \in c.problems
                             /\ c.starts <= x.at /\ x.at < c.ends
      BY DEF Pinned
    <2>1. x.problem \in Problem
      BY DEF CatalogInv, TypeOK, Execution
    <2> QED BY <2>1 DEF CatalogInv, Pinned, VersionsKept
  <1>6. \A r \in Request : Relied(req[r])'
    BY <1>1, EndOfRequest
  <1> QED BY <1>2, <1>3, <1>4, <1>5, <1>6 DEF CatalogInv

\* A new row of a problem that has what was published, and shows what it has.
LEMMA VersionStep ==
    ASSUME CatalogInv, NEW p \in Problem, NEW new \in ProblemRow, new.row = "present",
           \A v : Published(p, v) => v \in DOMAIN new.versions /\ new.versions[v],
           new.current # 0 => new.current \in DOMAIN new.versions /\ new.versions[new.current],
           problem' = [problem EXCEPT ![p] = new],
           UNCHANGED <<now, competition, execution, post>>,
           req' = req \/ \E r \in Request : Closed(r)
    PROVE  CatalogInv' /\ VersionsKept
  <1>1. /\ problem' \in [Problem -> ProblemRow] /\ problem'[p] = new
        /\ \A q \in Problem : q # p => problem'[q] = problem[q]
    BY DEF CatalogInv, TypeOK
  <1>2. VersionsKept
    BY <1>1 DEF VersionsKept, Published
  <1>3. \A q \in Problem : problem'[q].row # "present" =>
           problem'[q].versions = <<>> /\ problem'[q].current = 0
    BY <1>1 DEF CatalogInv, Absent
  <1>4. \A q \in Problem : problem'[q].current # 0 => Published(q, problem[q].current)'
    BY <1>1 DEF CatalogInv, Published
  <1>5. \A q \in post' : EverPublished(q)'
    BY <1>2, EverKept DEF CatalogInv, TypeOK
  <1> QED BY <1>1, <1>2, <1>3, <1>4, <1>5, ProblemStep DEF CatalogInv, TypeOK

LEMMA RequestKind ==
    ASSUME TypeOK, NEW r \in Request
    PROVE  /\ req[r].op \in {"editProblem", "setProblemPublication", "deleteProblem", "discuss"}
              => req[r] \in ProblemRequest
           /\ req[r].op = "createExecution" => req[r] \in ExecutionRequest
           /\ req[r].op \in {"createCompetition", "update", "deleteCompetition"}
              => req[r] \in CompetitionRequest
  <1>1. \/ req[r] = Idle \/ req[r] \in ProblemRequest \/ req[r] \in ExecutionRequest
        \/ req[r] \in CompetitionRequest
    BY DEF TypeOK
  <1>2. req[r] = Idle => req[r].op = "idle"
    BY DEF Idle
  <1>3. req[r] \in ProblemRequest =>
          req[r].op \in {"editProblem", "setProblemPublication", "deleteProblem", "discuss"}
    BY DEF ProblemRequest
  <1>4. req[r] \in ExecutionRequest => req[r].op = "createExecution"
    BY DEF ExecutionRequest
  <1>5. req[r] \in CompetitionRequest =>
          req[r].op \in {"createCompetition", "update", "deleteCompetition"}
    BY DEF CompetitionRequest
  <1> QED BY <1>1, <1>2, <1>3, <1>4, <1>5

\* createProblem makes a row that had no versions.
LEMMA CreateProblemStep ==
    ASSUME CatalogInv, NEW p \in Problem, NEW b \in BOOLEAN, createProblem(p, b)
    PROVE  CatalogInv' /\ VersionsKept
  <1> DEFINE new == [row |-> "present", versions |-> <<b>>, current |-> IF b THEN 1 ELSE 0]
  <1>1. new \in ProblemRow /\ DOMAIN new.versions = 1..1 /\ new.versions[1] = b
    BY DEF ProblemRow, Row
  <1>2. \A v : ~ Published(p, v)
    BY DEF createProblem, CatalogInv, Absent, Published
  <1>3. new.current # 0 => new.current \in DOMAIN new.versions /\ new.versions[new.current]
    BY <1>1
  <1>4. problem' = [problem EXCEPT ![p] = new] /\ new.row = "present"
    BY DEF createProblem
  <1> HIDE DEF new
  <1> QED BY <1>1, <1>2, <1>3, <1>4, VersionStep DEF createProblem

LEMMA Appended ==
    ASSUME NEW old \in Seq(BOOLEAN), NEW b \in BOOLEAN
    PROVE  /\ Append(old, b) \in Seq(BOOLEAN) /\ Len(old) + 1 \in Nat
           /\ DOMAIN Append(old, b) = 1..Len(old) + 1 /\ DOMAIN old = 1..Len(old)
           /\ Append(old, b)[Len(old) + 1] = b
           /\ \A v \in DOMAIN old : v \in DOMAIN Append(old, b) /\ Append(old, b)[v] = old[v]
  OBVIOUS

\* editProblem appends.
LEMMA EditStep ==
    ASSUME CatalogInv, NEW r \in Request, editProblemCommit(r)
    PROVE  CatalogInv' /\ VersionsKept
  <1>1. req[r] \in ProblemRequest
    BY RequestKind DEF editProblemCommit, CatalogInv
  <1>2. PICK p \in Problem, b \in BOOLEAN : p = req[r].problem /\ b = req[r].publish
    BY <1>1 DEF ProblemRequest
  <1>3. /\ problem[p] \in ProblemRow
        /\ problem[p].current # 0 => Published(p, problem[p].current)
    BY <1>2 DEF CatalogInv, TypeOK
  <1> DEFINE old == problem[p].versions
             new == [row |-> "present", versions |-> Append(old, b),
                     current |-> IF b THEN Len(old) + 1 ELSE problem[p].current]
  <1>4. old \in Seq(BOOLEAN)
    BY <1>3 DEF ProblemRow
  <1>5. problem' = [problem EXCEPT ![p] = new]
    BY <1>2 DEF editProblemCommit
  <1>6. new \in ProblemRow /\ new.row = "present"
    BY <1>3, <1>4, Appended DEF ProblemRow, Row
  <1>7. \A v : Published(p, v) => v \in DOMAIN new.versions /\ new.versions[v]
    BY <1>4, Appended DEF Published
  <1>8. new.current # 0 => new.current \in DOMAIN new.versions /\ new.versions[new.current]
    BY <1>3, <1>4, Appended DEF Published
  <1> HIDE DEF new
  <1> QED BY <1>5, <1>6, <1>7, <1>8, VersionStep DEF editProblemCommit

\* Publication adds to what is published, and shows a version that is.
LEMMA PublicationStep ==
    ASSUME CatalogInv, NEW r \in Request, setProblemPublicationCommit(r)
    PROVE  CatalogInv' /\ VersionsKept
  <1>1. req[r] \in ProblemRequest /\ req[r].op = "setProblemPublication"
    BY RequestKind DEF setProblemPublicationCommit, CatalogInv
  <1>2. PICK p \in Problem, publish \in BOOLEAN, latest \in Nat, published \in BOOLEAN :
           /\ p = req[r].problem /\ publish = req[r].publish
           /\ latest = req[r].latest /\ published = req[r].published
    BY <1>1 DEF ProblemRequest
  <1>3. problem[p] \in ProblemRow
    BY <1>2 DEF CatalogInv, TypeOK
  <1> DEFINE old == problem[p].versions
             versions == [v \in DOMAIN old |-> old[v] \/ (publish /\ ~published /\ v = latest)]
             new == [row |-> "present", versions |-> versions,
                     current |-> IF publish THEN latest ELSE 0]
  <1>4. old \in Seq(BOOLEAN)
    BY <1>3 DEF ProblemRow
  <1>5. versions \in Seq(BOOLEAN) /\ DOMAIN versions = DOMAIN old
    BY <1>4
  <1>6. problem' = [problem EXCEPT ![p] = new]
    BY <1>2 DEF setProblemPublicationCommit
  <1>7. new \in ProblemRow /\ new.row = "present"
    BY <1>3, <1>5 DEF ProblemRow, Row
  <1>8. \A v : Published(p, v) => v \in DOMAIN new.versions /\ new.versions[v]
    BY DEF Published
  <1>9. new.current # 0 => new.current \in DOMAIN new.versions /\ new.versions[new.current]
    <2> SUFFICES ASSUME publish PROVE latest \in DOMAIN versions /\ versions[latest]
      OBVIOUS
    <2>1. CASE published
      BY <1>1, <1>2, <2>1 DEF CatalogInv, Relied, Published
    <2>2. CASE ~published
      BY <1>2, <2>2 DEF setProblemPublicationCommit, Publishable
    <2> QED BY <2>1, <2>2
  <1> HIDE DEF new
  <1> QED BY <1>6, <1>7, <1>8, <1>9, VersionStep DEF setProblemPublicationCommit

\* A problem that is deleted had nothing published, and so no posts.
LEMMA DeleteProblemStep ==
    ASSUME CatalogInv, NEW r \in Request, deleteProblemCommit(r)
    PROVE  CatalogInv' /\ VersionsKept /\ post' = post
  <1>1. req[r] \in ProblemRequest
    BY RequestKind DEF deleteProblemCommit, CatalogInv
  <1>2. PICK p \in Problem : p = req[r].problem
    BY <1>1 DEF ProblemRequest
  <1> DEFINE new == [row |-> "deleted", versions |-> <<>>, current |-> 0]
  <1>3. /\ ~EverPublished(p) /\ problem' = [problem EXCEPT ![p] = new]
        /\ post' = post \ {p} /\ UNCHANGED <<now, competition, execution>> /\ Closed(r)
    <2>1. [NoProblem EXCEPT !.row = "deleted"] = new
      BY DEF NoProblem
    <2> QED BY <1>2, <2>1 DEF deleteProblemCommit, Deleted
  <1>4. post' = post
    BY <1>3 DEF CatalogInv
  <1>5. new \in ProblemRow
    BY DEF ProblemRow, Row
  <1>6. /\ problem' \in [Problem -> ProblemRow] /\ problem'[p] = new
        /\ \A q \in Problem : q # p => problem'[q] = problem[q]
    BY <1>3, <1>5 DEF CatalogInv, TypeOK
  <1>7. VersionsKept
    BY <1>3, <1>6 DEF VersionsKept, Published, EverPublished
  <1>8. \A q \in Problem : problem'[q].row # "present" =>
           problem'[q].versions = <<>> /\ problem'[q].current = 0
    BY <1>6 DEF CatalogInv, Absent
  <1>9. \A q \in Problem : problem'[q].current # 0 => Published(q, problem[q].current)'
    BY <1>6 DEF CatalogInv, Published
  <1>10. \A q \in post' : EverPublished(q)'
    BY <1>4, <1>7, EverKept DEF CatalogInv, TypeOK
  <1> HIDE DEF new
  <1> QED BY <1>3, <1>4, <1>6, <1>7, <1>8, <1>9, <1>10, ProblemStep DEF CatalogInv, TypeOK

-----------------------------------------------------------------------------
(* The transactions on competitions, submissions and discussions, and what follows *)

\* A step of a competition: a row that keeps its round as it is, or a row without
\* entries that is given a later round, or none.
LEMMA CompetitionStep ==
    ASSUME CatalogInv, UNCHANGED <<now, problem, execution, post>>,
           req' = req \/ \E r \in Request : Closed(r),
           NEW c \in Competition, NEW new \in CompetitionRow,
           competition' = [competition EXCEPT ![c] = new],
           \A p \in new.problems : EverPublished(p),
           \/ /\ new.row = competition[c].row /\ new.round = competition[c].round
              /\ new.problems = competition[c].problems
              /\ new.starts = competition[c].starts /\ new.ends = competition[c].ends
           \/ /\ competition[c].row # "present" \/ ~Entered(c)
              /\ \/ new.row = "deleted" /\ new.round = 0 /\ new.problems = {}
                 \/ new.row = "present" /\ new.round = competition[c].round + 1
              /\ new.row = "deleted" \/ competition[c].row # "deleted"
    PROVE  CatalogInv' /\ VersionsKept
  <1>1. /\ competition' \in [Competition -> CompetitionRow] /\ competition'[c] = new
        /\ \A d \in Competition : d # c => competition'[d] = competition[d]
        /\ competition[c] \in CompetitionRow
    BY DEF CatalogInv, TypeOK
  <1>2. VersionsKept
    BY DEF VersionsKept, Published
  <1>3. RoundsKept
    <2> SUFFICES ASSUME NEW x \in Execution, x.competition # None, Held(x) PROVE Held(x)'
      BY DEF RoundsKept
    <2>1. x.competition \in Competition /\ x.round \in Nat /\ x.round >= 1
      BY DEF Execution, Held
    <2>2. CASE x.competition # c
      BY <1>1, <2>1, <2>2 DEF Held, Enters
    <2>3. CASE x.competition = c
      <3>1. /\ competition[c].row # "none" /\ competition[c].round \in Nat
            /\ competition[c].row = "present" => x.round <= competition[c].round
        BY <1>1, <2>3 DEF Held, CompetitionRow
      <3>2. CASE new.row = "deleted" /\ new.round = 0
        BY <1>1, <2>1, <2>3, <3>2 DEF Held
      <3>3. CASE new.row = "present" /\ new.round = competition[c].round + 1
                 /\ competition[c].row # "deleted"
        <4>1. competition[c].row = "present"
          BY <1>1, <3>1, <3>3 DEF CompetitionRow, Row
        <4>2. x.round <= new.round /\ x.round # new.round
          BY <2>1, <3>1, <3>3, <4>1
        <4> QED BY <1>1, <2>1, <2>3, <3>3, <4>2 DEF Held
      <3>4. CASE /\ new.row = competition[c].row /\ new.round = competition[c].round
                 /\ new.problems = competition[c].problems
                 /\ new.starts = competition[c].starts /\ new.ends = competition[c].ends
        BY <1>1, <2>3, <3>4 DEF Held, Enters
      <3> QED BY <3>2, <3>3, <3>4
    <2> QED BY <2>2, <2>3
  <1>4. TypeOK'
    BY <1>1, <1>2, <1>3, EndOfRequest DEF CatalogInv, TypeOK
  <1>5. Absent'
    BY <1>1 DEF CatalogInv, Absent, CompetitionRow
  <1>6. \A d \in Competition : \A p \in competition'[d].problems : EverPublished(p)'
    BY <1>1 DEF CatalogInv, EverPublished
  <1>7. Pinned'
    <2> SUFFICES ASSUME NEW x \in execution
                 PROVE  /\ Published(x.problem, x.version)'
                        /\ x.competition # None =>
                             LET d == competition'[x.competition] IN
                             /\ d.row = "present"
                             /\ d.round = x.round
                             /\ x.problem \in d.problems
                             /\ d.starts <= x.at /\ x.at < d.ends
      BY DEF Pinned
    <2>1. Published(x.problem, x.version)'
      BY DEF CatalogInv, Pinned, Published
    <2>2. x.competition \in Competition \cup {None}
      BY DEF CatalogInv, TypeOK, Execution
    <2>3. CASE x.competition = c
      BY <1>1, <2>1, <2>3 DEF CatalogInv, Pinned, Entered
    <2>4. CASE x.competition # c
      BY <1>1, <2>1, <2>2, <2>4 DEF CatalogInv, Pinned
    <2> QED BY <2>3, <2>4
  <1>8. \A r \in Request : Relied(req[r])'
    BY <1>2, <1>3, EndOfRequest
  <1> QED BY <1>2, <1>4, <1>5, <1>6, <1>7, <1>8 DEF CatalogInv, Published, EverPublished

LEMMA CreateCompetitionStep ==
    ASSUME CatalogInv, NEW r \in Request, createCompetitionCommit(r)
    PROVE  CatalogInv' /\ VersionsKept
  <1>1. req[r] \in CompetitionRequest /\ Relied(req[r])
    BY RequestKind DEF createCompetitionCommit, CatalogInv
  <1> DEFINE q == req[r]
             c == q.competition
             new == [row |-> "present", published |-> q.published, starts |-> q.schedule.starts,
                     ends |-> q.schedule.ends, round |-> 1, problems |-> q.problems,
                     owner |-> q.owner, registered |-> {q.owner} \ {None}]
  <1>2. c \in Competition /\ new \in CompetitionRow
    BY <1>1 DEF CompetitionRequest, CompetitionRow, Row
  <1>3. \A p \in new.problems : EverPublished(p)
    BY <1>1 DEF createCompetitionCommit, Relied
  <1>4. competition[c].row = "none" /\ competition[c].round = 0
    BY <1>2 DEF createCompetitionCommit, CatalogInv, Absent
  <1>5. competition' = [competition EXCEPT ![c] = new] /\ Closed(r)
    BY DEF createCompetitionCommit
  <1>6. new.row = "present" /\ new.round = 1
    OBVIOUS
  <1> HIDE DEF new, c, q
  <1>7. new.round = competition[c].round + 1
    BY <1>4, <1>6
  <1> QED BY <1>2, <1>3, <1>4, <1>5, <1>6, <1>7, CompetitionStep DEF createCompetitionCommit

LEMMA DeleteCompetitionStep ==
    ASSUME CatalogInv, NEW r \in Request, deleteCompetitionCommit(r)
    PROVE  CatalogInv' /\ VersionsKept
  <1>1. req[r] \in CompetitionRequest
    BY RequestKind DEF deleteCompetitionCommit, CatalogInv
  <1> DEFINE c == req[r].competition
             new == [NoCompetition EXCEPT !.row = "deleted"]
  <1>2. c \in Competition /\ competition' = [competition EXCEPT ![c] = new]
    BY <1>1 DEF CompetitionRequest, deleteCompetitionCommit
  <1>3. new \in CompetitionRow /\ new.row = "deleted" /\ new.round = 0 /\ new.problems = {}
    BY DEF NoCompetition, CompetitionRow, Row
  <1>4. ~Entered(c)
    BY DEF deleteCompetitionCommit
  <1> HIDE DEF new, c
  <1> QED BY <1>2, <1>3, <1>4, CompetitionStep DEF deleteCompetitionCommit

LEMMA UpdateStep ==
    ASSUME CatalogInv, NEW r \in Request, updateCommit(r)
    PROVE  CatalogInv' /\ VersionsKept
  <1>1. req[r] \in CompetitionRequest /\ Relied(req[r])
    BY RequestKind DEF updateCommit, CatalogInv
  <1> DEFINE q == req[r]
             c == q.competition
             new == [row |-> "present", published |-> competition[c].published,
                     starts |-> q.schedule.starts, ends |-> q.schedule.ends,
                     round |-> competition[c].round + 1, problems |-> q.problems,
                     owner |-> competition[c].owner, registered |-> competition[c].registered]
  <1>2. c \in Competition /\ competition[c] \in CompetitionRow
    BY <1>1 DEF CompetitionRequest, CatalogInv, TypeOK
  <1>3. competition' = [competition EXCEPT ![c] = new]
    BY <1>2 DEF updateCommit
  <1>4. /\ new \in CompetitionRow /\ new.row = "present"
        /\ new.round = competition[c].round + 1 /\ new.problems = q.problems
    <2>1. /\ q.schedule.starts \in Nat /\ q.schedule.ends \in Nat
          /\ q.problems \in SUBSET Problem
      BY <1>1 DEF CompetitionRequest
    <2>2. /\ competition[c].published \in BOOLEAN /\ competition[c].round + 1 \in Nat
          /\ competition[c].owner \in User \cup {None}
          /\ competition[c].registered \in SUBSET User
      BY <1>2 DEF CompetitionRow
    <2> HIDE DEF q, c
    <2> QED BY <2>1, <2>2 DEF CompetitionRow, Row
  <1>5. competition[c].row = "present" /\ ~Entered(c) /\ Closed(r)
    BY DEF updateCommit
  <1>6. \A p \in q.problems : EverPublished(p)
    BY <1>1 DEF updateCommit, Relied
  <1> HIDE DEF new, c, q
  <1> QED BY <1>2, <1>3, <1>4, <1>5, <1>6, CompetitionStep DEF updateCommit

\* Publication of a competition and registration for it leave its round alone.
LEMMA OpeningStep ==
    ASSUME CatalogInv, NEW c \in Competition,
           \/ \E b \in BOOLEAN : setCompetitionPublication(c, b)
           \/ \E u \in User : register(u, c)
    PROVE  CatalogInv' /\ VersionsKept
  <1>1. competition[c] \in CompetitionRow /\ \A p \in competition[c].problems : EverPublished(p)
    BY DEF CatalogInv, TypeOK
  <1>2. ASSUME NEW b \in BOOLEAN, setCompetitionPublication(c, b) PROVE CatalogInv' /\ VersionsKept
    <2> DEFINE new == [competition[c] EXCEPT !.published = b]
    <2>1. competition' = [competition EXCEPT ![c] = new]
      BY <1>2 DEF setCompetitionPublication
    <2>2. /\ new \in CompetitionRow /\ new.row = competition[c].row
          /\ new.round = competition[c].round /\ new.problems = competition[c].problems
          /\ new.starts = competition[c].starts /\ new.ends = competition[c].ends
      BY <1>1 DEF CompetitionRow
    <2> HIDE DEF new
    <2> QED BY <1>1, <1>2, <2>1, <2>2, CompetitionStep DEF setCompetitionPublication
  <1>3. ASSUME NEW u \in User, register(u, c) PROVE CatalogInv' /\ VersionsKept
    <2> DEFINE new == [competition[c] EXCEPT !.registered = competition[c].registered \cup {u}]
    <2>1. competition' = [competition EXCEPT ![c] = new]
      BY <1>3 DEF register
    <2>2. /\ new \in CompetitionRow /\ new.row = competition[c].row
          /\ new.round = competition[c].round /\ new.problems = competition[c].problems
          /\ new.starts = competition[c].starts /\ new.ends = competition[c].ends
      BY <1>1 DEF CompetitionRow
    <2> HIDE DEF new
    <2> QED BY <1>1, <1>3, <2>1, <2>2, CompetitionStep DEF register
  <1> QED BY <1>2, <1>3

\* A submission is entered for the round it was read for, or not at all.
LEMMA EntryStep ==
    ASSUME CatalogInv, NEW r \in Request, createExecutionCommit(r)
    PROVE  CatalogInv' /\ VersionsKept
  <1>1. req[r] \in ExecutionRequest /\ Relied(req[r])
    BY RequestKind DEF createExecutionCommit, CatalogInv
  <1>2. PICK x \in Execution : x = req[r].execution
    BY <1>1 DEF ExecutionRequest
  <1>3. /\ execution' = execution \cup {x} /\ Published(x.problem, x.version)
        /\ x.competition # None => competition[x.competition].round = x.round /\ Held(x)
        /\ UNCHANGED <<now, problem, competition, post>> /\ Closed(r)
    BY <1>1, <1>2 DEF createExecutionCommit, Relied
  <1>4. VersionsKept /\ RoundsKept
    BY <1>3, NothingLost
  <1>5. TypeOK'
    BY <1>3, <1>4, EndOfRequest DEF CatalogInv, TypeOK
  <1>6. Pinned'
    BY <1>3 DEF CatalogInv, Pinned, Published, Held, Enters
  <1>7. \A s \in Request : Relied(req[s])'
    BY <1>3, <1>4, EndOfRequest
  <1> QED BY <1>3, <1>4, <1>5, <1>6, <1>7 DEF CatalogInv, Absent, Published, EverPublished

LEMMA DiscussStep ==
    ASSUME CatalogInv, NEW r \in Request, discussCommit(r)
    PROVE  CatalogInv' /\ VersionsKept
  <1>1. req[r] \in ProblemRequest /\ Relied(req[r])
    BY RequestKind DEF discussCommit, CatalogInv
  <1>2. PICK p \in Problem : p = req[r].problem /\ EverPublished(p)
    BY <1>1 DEF ProblemRequest, Relied, discussCommit
  <1>3. /\ post' = post \cup {p} /\ UNCHANGED <<now, problem, competition, execution>> /\ Closed(r)
    BY <1>2 DEF discussCommit
  <1>4. VersionsKept
    BY <1>3, NothingLost
  <1>5. \A q \in post' : EverPublished(q)'
    BY <1>2, <1>3 DEF CatalogInv, EverPublished
  <1> QED BY <1>3, <1>4, <1>5, ProblemStep DEF CatalogInv, TypeOK, Absent, Published

LEMMA OtherStep ==
    ASSUME CatalogInv, Tick \/ (\E r \in Request : Fail(r)) \/ UNCHANGED vars
    PROVE  CatalogInv'
  <1>1. /\ UNCHANGED <<problem, competition, execution, post>>
        /\ req' = req \/ \E r \in Request : Closed(r)
    BY DEF Tick, Fail, vars
  <1>2. now' \in Nat
    BY DEF CatalogInv, TypeOK, Tick, Fail, vars
  <1>3. TypeOK' /\ \A r \in Request : Relied(req[r])'
    BY <1>1, <1>2, NothingLost, EndOfRequest DEF CatalogInv, TypeOK
  <1>4. Absent' /\ Pinned'
    BY <1>1 DEF CatalogInv, Absent, Pinned, Published
  <1>5. /\ \A p \in Problem : problem'[p].current # 0 => Published(p, problem[p].current)'
        /\ \A c \in Competition : \A p \in competition'[c].problems : EverPublished(p)'
        /\ \A p \in post' : EverPublished(p)'
    BY <1>1 DEF CatalogInv, Published, EverPublished
  <1> QED BY <1>3, <1>4, <1>5 DEF CatalogInv

-----------------------------------------------------------------------------
(* Theorems *)

\* What every step keeps: the invariant, the published versions and the posts.
AllKept == CatalogInv' /\ VersionsKept /\ post \subseteq post'

LEMMA CatalogStep == ASSUME CatalogInv, [Next]_vars PROVE AllKept
  <1>1. CASE problems
    <2>1. ASSUME NEW p \in Problem, NEW b \in BOOLEAN, createProblem(p, b) PROVE AllKept
      BY <2>1, CreateProblemStep DEF createProblem, AllKept
    <2>2. ASSUME NEW r \in Request,
                 \/ \E p \in Problem, b \in BOOLEAN :
                       editProblem(r, p, b) \/ setProblemPublication(r, p, b)
                 \/ \E p \in Problem : deleteProblem(r, p) \/ discuss(r, p)
          PROVE  AllKept
      <3>1. UNCHANGED <<problem, competition, post>>
        BY <2>2 DEF editProblem, setProblemPublication, deleteProblem, discuss, Opened
      <3> QED BY <2>2, <3>1, ReadStep, NothingLost DEF AllKept
    <2>3. ASSUME NEW r \in Request, editProblemCommit(r) PROVE AllKept
      BY <2>3, EditStep DEF editProblemCommit, AllKept
    <2>4. ASSUME NEW r \in Request, setProblemPublicationCommit(r) PROVE AllKept
      BY <2>4, PublicationStep DEF setProblemPublicationCommit, AllKept
    <2>5. ASSUME NEW r \in Request, deleteProblemCommit(r) PROVE AllKept
      BY <2>5, DeleteProblemStep DEF AllKept
    <2>6. ASSUME NEW r \in Request, discussCommit(r) PROVE AllKept
      BY <2>6, DiscussStep DEF discussCommit, AllKept
    <2> QED BY <1>1, <2>1, <2>2, <2>3, <2>4, <2>5, <2>6 DEF problems
  <1>2. CASE competitions
    <2>1. ASSUME NEW r \in Request, NEW c \in Competition,
                 \/ \E s \in Schedule, ps \in SUBSET Problem \ {{}} :
                       \/ \E u \in User \cup {None}, b \in BOOLEAN :
                             createCompetition(r, c, u, s, ps, b)
                       \/ update(r, c, s, ps)
                 \/ deleteCompetition(r, c)
          PROVE  AllKept
      <3>1. UNCHANGED <<problem, competition, post>>
        BY <2>1 DEF createCompetition, update, deleteCompetition, Opened
      <3> QED BY <2>1, <3>1, OrganizerReadStep, NothingLost DEF AllKept
    <2>2. ASSUME NEW r \in Request, createCompetitionCommit(r) PROVE AllKept
      BY <2>2, CreateCompetitionStep DEF createCompetitionCommit, AllKept
    <2>3. ASSUME NEW r \in Request, updateCommit(r) PROVE AllKept
      BY <2>3, UpdateStep DEF updateCommit, AllKept
    <2>4. ASSUME NEW r \in Request, deleteCompetitionCommit(r) PROVE AllKept
      BY <2>4, DeleteCompetitionStep DEF deleteCompetitionCommit, AllKept
    <2>5. ASSUME NEW c \in Competition,
                 \/ \E b \in BOOLEAN : setCompetitionPublication(c, b)
                 \/ \E u \in User : register(u, c)
          PROVE  AllKept
      BY <2>5, OpeningStep DEF setCompetitionPublication, register, AllKept
    <2> QED BY <1>2, <2>1, <2>2, <2>3, <2>4, <2>5 DEF competitions
  <1>3. CASE submissions
    <2>1. ASSUME NEW r \in Request, NEW u \in User, NEW p \in Problem,
                 NEW c \in Competition \cup {None}, createExecution(r, u, p, c)
          PROVE  AllKept
      <3>1. UNCHANGED <<problem, competition, post>>
        BY <2>1 DEF createExecution, Opened
      <3> QED BY <2>1, <3>1, EntryReadStep, NothingLost DEF AllKept
    <2>2. ASSUME NEW r \in Request, createExecutionCommit(r) PROVE AllKept
      BY <2>2, EntryStep DEF createExecutionCommit, AllKept
    <2> QED BY <1>3, <2>1, <2>2 DEF submissions
  <1>4. CASE Tick \/ (\E r \in Request : Fail(r)) \/ UNCHANGED vars
    <2>1. UNCHANGED <<problem, competition, post>>
      BY <1>4 DEF Tick, Fail, vars
    <2> QED BY <1>4, <2>1, OtherStep, NothingLost DEF AllKept
  <1> QED BY <1>1, <1>2, <1>3, <1>4 DEF Next

LEMMA AlwaysCatalogued == Spec => []CatalogInv
  <1>1. CatalogInv /\ [Next]_vars => CatalogInv'
    BY CatalogStep DEF AllKept
  <1> QED BY InitiallyCatalogued, <1>1, PTL DEF Spec

\* Rows and requests have the shape that the schema and the handlers give them, for any
\* number of them.
THEOREM CatalogTypes == Spec => []TypeOK
  <1>1. CatalogInv => TypeOK
    BY DEF CatalogInv
  <1> QED BY AlwaysCatalogued, <1>1, PTL

\* setProblemPublication, editProblem, deleteProblem, and create and update of
\* competitions decide on what they read before their transactions; whatever overtakes
\* them, learners are shown versions that exist and are published.
THEOREM CurrentTheorem == Spec => []CurrentPublished
  <1>1. CatalogInv => CurrentPublished
    <2> SUFFICES ASSUME CatalogInv PROVE CurrentPublished
      OBVIOUS
    <2>1. ASSUME NEW c \in Competition, NEW p \in competition[c].problems
          PROVE  problem[p].row = "present" /\ EverPublished(p)
      <3>1. p \in Problem /\ EverPublished(p)
        BY DEF CatalogInv, TypeOK, CompetitionRow
      <3> QED BY <3>1 DEF CatalogInv, Absent, EverPublished
    <2> QED BY <2>1 DEF CatalogInv, CurrentPublished
  <1> QED BY AlwaysCatalogued, <1>1, PTL

\* A submission keeps the version and the round that Executions.create entered it for,
\* though edits, publications, updates and deletions decided before it commit after it.
THEOREM PinnedTheorem == Spec => []Pinned
  <1>1. CatalogInv => Pinned
    BY DEF CatalogInv
  <1> QED BY AlwaysCatalogued, <1>1, PTL

\* No step of any handler takes a published version or a discussion away.
THEOREM KeptTheorem == Spec => RecordsKept
  <1>1. CatalogInv /\ [Next]_vars =>
          [\A p \in Problem :
              /\ \A v \in DOMAIN problem[p].versions :
                    problem[p].versions[v] => Published(p, v)'
              /\ p \in post => p \in post']_vars
    BY CatalogStep DEF AllKept, VersionsKept, Published
  <1> QED BY AlwaysCatalogued, <1>1, PTL DEF Spec, RecordsKept
=============================================================================
