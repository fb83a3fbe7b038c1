------------------------------ MODULE Standings ------------------------------
(***************************************************************************)
(* What is computed from submissions: the leaderboard of a competition,    *)
(* while its submissions are judged in any order, and the streaks of a     *)
(* public profile.                                                         *)
(***************************************************************************)
EXTENDS Integers, FiniteSets, Sequences
LOCAL INSTANCE FiniteSetsExt
LOCAL INSTANCE SequencesExt

CONSTANTS
    Entrant,         \* users, as integers in the order of their usernames
    Task,            \* the problems of the competition
    Award,           \* CompetitionProblem: records of round, problem and points
    WrongPenalty,    \* minutes for an attempt that does not solve (20)
    Horizon,         \* days of contributions a profile shows (365)
    MaxAttempts,     \* bound: submissions of one entrant
    Step,            \* bound: minutes between two instants of the competition
    MaxMinute,       \* bound: its last minute
    MaxDay           \* bound: the last day

ASSUME StandingsAssumption ==
    /\ Entrant \subseteq Int
    /\ \A a \in Award : a.problem \in Task /\ a.points \in Nat \ {0}
    /\ \A p \in Task : \E a \in Award : a.problem = p
    /\ WrongPenalty \in Nat /\ Horizon \in Nat \ {0}
    /\ MaxAttempts \in Nat /\ Step \in Nat \ {0} /\ MaxMinute \in Nat /\ MaxDay \in Nat

Never == -1

VARIABLES
    minute,      \* minutes since startsAt
    joinedAt,    \* CompetitionRegistration
    attempts,    \* the SUBMIT executions of each entrant in the order of createdAt
    today,       \* the UTC day
    days         \* the days on which a user has submitted

standingsVars == <<minute, joinedAt, attempts, today, days>>

-----------------------------------------------------------------------------
(* The leaderboard of a competition *)

\* A problem of two rounds is worth the better of the two.
points == [p \in Task |-> Max({a.points : a \in {b \in Award : b.problem = p}})]

Counts(e, i) == attempts[e][i].createdAt >= joinedAt[e]
AcceptedAt(e, i) == Counts(e, i) /\ attempts[e][i].verdict = "ACCEPTED"

\* Every acceptance of a problem replaces the one before.
SolvedByLast(e, i) ==
    /\ AcceptedAt(e, i)
    /\ \A j \in DOMAIN attempts[e] :
        AcceptedAt(e, j) /\ attempts[e][j].problem = attempts[e][i].problem => j <= i

\* Attempt i is the first that solves its problem.
Solves(e, i) ==
    /\ AcceptedAt(e, i)
    /\ \A j \in DOMAIN attempts[e] :
        AcceptedAt(e, j) /\ attempts[e][j].problem = attempts[e][i].problem => i <= j

\* An attempt on an unsolved problem that is not accepted, or not judged yet.
WrongAttempt(e, i) ==
    /\ Counts(e, i) /\ ~AcceptedAt(e, i)
    /\ \A j \in 1..i : AcceptedAt(e, j) => attempts[e][j].problem # attempts[e][i].problem

\* The entry from the attempts up to each one.
Tally(e) ==
    LET upTo[i \in 0..Len(attempts[e])] ==
            IF i = 0 THEN [username |-> e, score |-> 0, solved |-> 0, penalty |-> 0]
            ELSE LET before == upTo[i - 1] x == attempts[e][i]
                 IN  CASE Solves(e, i) -> [before EXCEPT !.score = @ + points[x.problem],
                                                         !.solved = @ + 1,
                                                         !.penalty = @ + x.createdAt]
                       [] WrongAttempt(e, i) -> [before EXCEPT !.penalty = @ + WrongPenalty]
                       [] OTHER -> before
    IN  upTo[Len(attempts[e])]

Entered == {e \in Entrant : joinedAt[e] # Never}

\* Entry x stands before entry y.
Before(x, y) ==
    \/ x.score > y.score
    \/ x.score = y.score /\ x.solved > y.solved
    \/ x.score = y.score /\ x.solved = y.solved /\ x.penalty < y.penalty
    \/ x.score = y.score /\ x.solved = y.solved /\ x.penalty = y.penalty
        /\ x.username < y.username

\* The entries with their ranks.
buildLeaderboard ==
    LET items == {Tally(e) : e \in Entered}
    IN  {<<y.username, Cardinality({x \in items : Before(x, y)}) + 1>> : y \in items}

\* Registering again keeps the first time.
enter(e) ==
    /\ joinedAt' = [joinedAt EXCEPT ![e] = IF @ = Never THEN minute ELSE @]
    /\ UNCHANGED <<minute, attempts, today, days>>

submit(e, p) ==
    /\ e \in Entered /\ Len(attempts[e]) < MaxAttempts
    /\ attempts' = [attempts EXCEPT ![e] =
        Append(@, [problem |-> p, createdAt |-> minute, verdict |-> "PENDING"])]
    /\ UNCHANGED <<minute, joinedAt, today, days>>

\* An execution ends: accepted, or in any other way.
settle(e, i, verdict) ==
    /\ attempts[e][i].verdict = "PENDING"
    /\ attempts' = [attempts EXCEPT ![e][i].verdict = verdict]
    /\ UNCHANGED <<minute, joinedAt, today, days>>

NextMinute ==
    /\ minute + Step <= MaxMinute
    /\ minute' = minute + Step
    /\ UNCHANGED <<joinedAt, attempts, today, days>>

-----------------------------------------------------------------------------
(* The streaks of a profile *)

\* The days of the GROUP BY, in order, from since on.
contributions == SetToSortSeq({d \in days : d > today - Horizon}, <)

\* A streak lasts only on the day of its last submission.
Today(day) == day = today

\* todayKey or yesterdayKey: a streak may still be continued today.
Recent(day) == day \in {today, today - 1}

\* One scan for the longest run; one backwards, up to the first gap, for the current.
streaks(list) ==
    LET n == Len(list)
        run[i \in 1..n] == IF i > 1 /\ list[i] = list[i - 1] + 1 THEN run[i - 1] + 1 ELSE 1
        gaps == {i \in 1..n - 1 : list[i + 1] # list[i] + 1}
    IN  [longestStreak |-> Max({run[i] : i \in 1..n} \cup {0}),
         currentStreak |-> IF n > 0 /\ Recent(list[n]) THEN n - Max(gaps \cup {0}) ELSE 0]

contribute ==
    /\ days' = days \cup {today}
    /\ UNCHANGED <<minute, joinedAt, attempts, today>>

NextDay ==
    /\ today < MaxDay
    /\ today' = today + 1
    /\ UNCHANGED <<minute, joinedAt, attempts, days>>

-----------------------------------------------------------------------------
(* The specification *)

StandingsInit ==
    /\ minute = 0
    /\ joinedAt = [e \in Entrant |-> Never]
    /\ attempts = [e \in Entrant |-> <<>>]
    /\ today = 1 /\ days = {}

Competing ==
    \/ \E e \in Entrant :
        \/ enter(e)
        \/ \E p \in Task : submit(e, p)
        \/ \E i \in DOMAIN attempts[e], verdict \in {"ACCEPTED", "REJECTED"} :
            settle(e, i, verdict)
    \/ NextMinute

Practising == contribute \/ NextDay

StandingsNext == Competing \/ Practising

StandingsSpec == StandingsInit /\ [][StandingsNext]_standingsVars

-----------------------------------------------------------------------------
(* Properties *)

Accepted(e) == {i \in DOMAIN attempts[e] : attempts[e][i].verdict = "ACCEPTED"}

\* Late verdicts are fair: an entrant falls behind only by an attempt of their own,
\* by somebody else's acceptance, or behind somebody who joins.  No verdict of their
\* own, in whatever order verdicts come, costs a place.
FallsForCause ==
    [][\A was \in buildLeaderboard, is \in buildLeaderboard' :
        is[1] = was[1] /\ is[2] > was[2] =>
            \/ Len(attempts'[is[1]]) > Len(attempts[is[1]])
            \/ \E f \in Entrant \ {is[1]} : Accepted(f)' # Accepted(f)
            \/ Entered' # Entered]_standingsVars

\* The two scans compute what a streak is: the longest run of successive days, and
\* the run that ends today or yesterday.
StreakExact ==
    LET seen == {d \in days : d > today - Horizon}
        Run(a, n) == a + 1 - n..a \subseteq seen
        end == IF today \in seen THEN today ELSE today - 1
    IN  streaks(contributions) =
            [longestStreak |-> Max({n \in 0..MaxDay : \E a \in 0..today : Run(a, n)}),
             currentStreak |-> Max({n \in 0..MaxDay : Run(end, n)})]
=============================================================================
