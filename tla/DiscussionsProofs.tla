------------------------- MODULE DiscussionsProofs -------------------------
(***************************************************************************)
(* The decisions on reports, for any number of moderators, reports and     *)
(* posts: they are made once, and they wait for each other in one          *)
(* direction only.  And the quota of posts, for any limit and window.      *)
(***************************************************************************)
EXTENDS Discussions, FiniteSetTheorems, TLAPS

\* All that a decision reads and writes of other decisions.
decisionVars == <<reports, lockedBy, audit, deciding>>

\* A row of ContentReport, whatever it reports.
IsReport(x) ==
    /\ x = [post |-> x.post, reporter |-> x.reporter, status |-> x.status,
            moderatorId |-> x.moderatorId]
    /\ x.status \in {"PENDING"} \cup Decision

Deciding == [op : {"locking", "checked"}, ids : SUBSET Report, status : Decision,
             postStatus : PostStatus \cup {Nobody}]

\* The shape of the reports and of the transactions that decide them.
Shape ==
    /\ reports = [r \in Report |-> reports[r]]
    /\ \A r \in Report : reports[r] = NoReport \/ IsReport(reports[r])
    /\ lockedBy \in [Report -> Moderator \cup {Nobody}]
    /\ audit = [r \in Report |-> audit[r]]
    /\ deciding \in [Moderator -> Deciding \cup {NoRequest}]

\* A lock belongs to a transaction that is under way, and was taken before the locks
\* that the transaction has yet to take.
LocksAscend ==
    \A r \in Report : lockedBy[r] # Nobody =>
        LET m == lockedBy[r] IN
        /\ deciding[m] # NoRequest /\ r \in deciding[m].ids
        /\ \A s \in deciding[m].ids : lockedBy[s] # m => r < s

\* What a transaction has checked stays so until it commits: it has all its locks, and
\* its reports are pending.
Checked ==
    \A m \in Moderator : deciding[m].op = "checked" =>
        \A r \in deciding[m].ids : lockedBy[r] = m /\ reports[r].status = "PENDING"

\* Only a decision is audited.
Audited ==
    \A r \in Report :
        audit[r] = IF reports[r].status \in {"NONE", "PENDING"} THEN {}
                   ELSE {<<reports[r].moderatorId, reports[r].status>>}

DecisionInv == Shape /\ LocksAscend /\ Checked /\ Audited

-----------------------------------------------------------------------------
(* Steps *)

LEMMA InitiallyDecided == DiscussionsInit => DecisionInv
  BY DEF DiscussionsInit, DecisionInv, Shape, LocksAscend, Checked, Audited, NoReport, NoRequest

\* Nothing else touches what decisions look at.
LEMMA OtherSteps ==
    ASSUME DecisionInv, UNCHANGED decisionVars
    PROVE  DecisionInv'
  <1>1. UNCHANGED reports /\ UNCHANGED lockedBy /\ UNCHANGED audit /\ UNCHANGED deciding
    BY DEF decisionVars
  <1>2. Shape'
    BY <1>1 DEF DecisionInv, Shape
  <1>3. LocksAscend'
    BY <1>1 DEF DecisionInv, LocksAscend
  <1>4. Checked' /\ Audited'
    BY <1>1 DEF DecisionInv, Checked, Audited
  <1> QED BY <1>2, <1>3, <1>4 DEF DecisionInv

\* A new report is pending, and nobody has checked it.
LEMMA ReportStep ==
    ASSUME DecisionInv, NEW u \in Writer, reportCommit(u)
    PROVE  DecisionInv'
  <1>1. PICK r \in Report :
           /\ reports[r] = NoReport
           /\ reports' = [reports EXCEPT ![r] = [post |-> asked[u].post, reporter |-> u,
                            status |-> "PENDING", moderatorId |-> Nobody]]
    BY DEF reportCommit, Reported
  <1>2. UNCHANGED <<lockedBy, audit, deciding>>
    BY DEF reportCommit
  <1>3. Shape'
    <2>1. \A s \in Report : reports'[s] = NoReport \/ IsReport(reports'[s])
      BY <1>1 DEF DecisionInv, Shape, IsReport
    <2> QED BY <1>1, <1>2, <2>1 DEF DecisionInv, Shape
  <1>4. LocksAscend'
    BY <1>2 DEF DecisionInv, LocksAscend
  <1>5. Checked'
    <2>1. reports = [s \in Report |-> reports[s]]
      BY DEF DecisionInv, Shape
    <2>2. \A s \in Report : reports'[s] = reports[s] \/ reports'[s].status = "PENDING"
      BY <1>1, <2>1
    <2>3. \A m \in Moderator : deciding[m].op = "checked" => deciding[m].ids \subseteq Report
      BY DEF DecisionInv, Shape, Deciding, NoRequest
    <2> QED BY <1>2, <2>2, <2>3 DEF DecisionInv, Checked
  <1>6. Audited'
    BY <1>1, <1>2 DEF DecisionInv, Shape, Audited, NoReport
  <1> QED BY <1>3, <1>4, <1>5, <1>6 DEF DecisionInv

\* A transaction that starts has no locks.
LEMMA StartStep ==
    ASSUME DecisionInv, NEW m \in Moderator, NEW ids \in SUBSET Report,
           NEW status \in Decision, NEW postStatus \in PostStatus \cup {Nobody},
           resolveReportsAtomic(m, ids, status, postStatus)
    PROVE  DecisionInv'
  <1>1. /\ deciding[m] = NoRequest
        /\ deciding' = [deciding EXCEPT ![m] =
             [op |-> "locking", ids |-> ids, status |-> status, postStatus |-> postStatus]]
        /\ UNCHANGED <<reports, lockedBy, audit>>
    BY DEF resolveReportsAtomic
  <1>2. Shape'
    BY <1>1 DEF DecisionInv, Shape, Deciding
  <1>3. LocksAscend'
    BY <1>1, DiscussionsAssumption DEF DecisionInv, Shape, LocksAscend
  <1>4. Checked'
    <2>1. \A n \in Moderator : deciding'[n] = deciding[n] \/ deciding'[n].op = "locking"
      BY <1>1 DEF DecisionInv, Shape
    <2> QED BY <1>1, <2>1 DEF DecisionInv, Checked
  <1>5. Audited'
    BY <1>1 DEF DecisionInv, Audited
  <1> QED BY <1>2, <1>3, <1>4, <1>5 DEF DecisionInv

\* The lock taken is the lowest of those that are missing.
LEMMA LockStep ==
    ASSUME DecisionInv, NEW m \in Moderator, lockRow(m)
    PROVE  DecisionInv'
  <1>1. PICK r \in Report :
           /\ deciding[m].op = "locking" /\ r \in deciding[m].ids /\ lockedBy[r] = Nobody
           /\ \A s \in deciding[m].ids : lockedBy[s] # m => r <= s
           /\ lockedBy' = [lockedBy EXCEPT ![r] = m]
    BY DEF lockRow, Wants, Missing
  <1>2. UNCHANGED <<reports, audit, deciding>>
    BY DEF lockRow
  <1>3. deciding[m] \in Deciding
    BY <1>1 DEF DecisionInv, Shape, NoRequest
  <1>4. Shape'
    BY <1>1, <1>2 DEF DecisionInv, Shape
  <1>5. LocksAscend'
    <2> SUFFICES ASSUME NEW q \in Report, lockedBy'[q] # Nobody
                 PROVE  /\ deciding[lockedBy'[q]] # NoRequest /\ q \in deciding[lockedBy'[q]].ids
                        /\ \A s \in deciding[lockedBy'[q]].ids : lockedBy'[s] # lockedBy'[q] => q < s
      BY <1>2 DEF LocksAscend
    <2>1. CASE q = r
      <3>1. lockedBy'[q] = m
        BY <1>1, <2>1 DEF DecisionInv, Shape
      <3>2. \A s \in deciding[m].ids : lockedBy'[s] # m => q < s
        BY <1>1, <1>3, <2>1, <3>1, DiscussionsAssumption DEF DecisionInv, Shape, Deciding
      <3> QED BY <1>1, <1>3, <2>1, <3>1, <3>2 DEF Deciding, NoRequest
    <2>2. CASE q # r
      <3>1. lockedBy'[q] = lockedBy[q]
        BY <1>1, <2>2 DEF DecisionInv, Shape
      <3>2. lockedBy[q] \in Moderator /\ deciding[lockedBy[q]] # NoRequest
        BY <3>1 DEF DecisionInv, Shape, LocksAscend
      <3>3. deciding[lockedBy[q]].ids \subseteq Report
        BY <3>2 DEF DecisionInv, Shape, Deciding
      <3>4. \A s \in Report : lockedBy'[s] # lockedBy[q] => lockedBy[s] # lockedBy[q]
        BY <1>1, <3>1 DEF DecisionInv, Shape
      <3> QED BY <3>1, <3>2, <3>3, <3>4 DEF DecisionInv, LocksAscend
    <2> QED BY <2>1, <2>2
  <1>6. Checked'
    <2> SUFFICES ASSUME NEW n \in Moderator, deciding[n].op = "checked",
                        NEW q \in deciding[n].ids
                 PROVE  lockedBy'[q] = n /\ reports[q].status = "PENDING"
      BY <1>2 DEF Checked
    <2>1. q \in Report /\ lockedBy[q] = n /\ reports[q].status = "PENDING"
      BY DEF DecisionInv, Shape, Checked, Deciding, NoRequest
    <2> QED BY <1>1, <2>1, DiscussionsAssumption DEF DecisionInv, Shape
  <1>7. Audited'
    BY <1>2 DEF DecisionInv, Audited
  <1> QED BY <1>4, <1>5, <1>6, <1>7 DEF DecisionInv

\* With all the locks held, the reports read are the reports that are decided.
LEMMA ReadStep ==
    ASSUME DecisionInv, NEW m \in Moderator, readReports(m)
    PROVE  DecisionInv'
  <1>1. /\ deciding[m].op = "locking"
        /\ \A r \in deciding[m].ids : lockedBy[r] = m /\ reports[r].status = "PENDING"
        /\ UNCHANGED <<reports, lockedBy, audit>>
    BY DEF readReports, Missing
  <1>2. deciding[m] \in Deciding
    BY <1>1 DEF DecisionInv, Shape, NoRequest
  <1>3. deciding' = [deciding EXCEPT ![m] = [deciding[m] EXCEPT !.op = "checked"]]
    BY DEF readReports
  <1>4. /\ deciding'[m] \in Deciding /\ deciding'[m].ids = deciding[m].ids
        /\ \A n \in Moderator : n # m => deciding'[n] = deciding[n]
    BY <1>2, <1>3 DEF DecisionInv, Shape, Deciding
  <1>5. Shape'
    BY <1>1, <1>2, <1>3 DEF DecisionInv, Shape, Deciding
  <1>6. LocksAscend'
    <2> SUFFICES ASSUME NEW q \in Report, lockedBy[q] # Nobody
                 PROVE  /\ deciding'[lockedBy[q]] # NoRequest /\ q \in deciding'[lockedBy[q]].ids
                        /\ \A s \in deciding'[lockedBy[q]].ids : lockedBy[s] # lockedBy[q] => q < s
      BY <1>1 DEF LocksAscend
    <2>1. lockedBy[q] \in Moderator
      BY DEF DecisionInv, Shape
    <2>2. deciding'[m] # NoRequest
      BY <1>4 DEF Deciding, NoRequest
    <2> QED BY <1>4, <2>1, <2>2 DEF DecisionInv, LocksAscend
  <1>7. Checked'
    BY <1>1, <1>4 DEF DecisionInv, Checked
  <1>8. Audited'
    BY <1>1 DEF DecisionInv, Audited
  <1> QED BY <1>5, <1>6, <1>7, <1>8 DEF DecisionInv

\* A transaction that ends frees its own locks, and no others.
LEMMA EndsWithItsLocks ==
    ASSUME DecisionInv, NEW m \in Moderator,
           lockedBy' = Freed(m), deciding' = [deciding EXCEPT ![m] = NoRequest]
    PROVE  /\ lockedBy' \in [Report -> Moderator \cup {Nobody}]
           /\ deciding' \in [Moderator -> Deciding \cup {NoRequest}]
           /\ \A r \in Report : lockedBy'[r] = IF lockedBy[r] = m THEN Nobody ELSE lockedBy[r]
           /\ \A n \in Moderator : deciding'[n] = IF n = m THEN NoRequest ELSE deciding[n]
           /\ LocksAscend'
  <1>1. /\ lockedBy' \in [Report -> Moderator \cup {Nobody}]
        /\ \A r \in Report : lockedBy'[r] = IF lockedBy[r] = m THEN Nobody ELSE lockedBy[r]
    BY DEF DecisionInv, Shape, Freed
  <1>2. /\ deciding' \in [Moderator -> Deciding \cup {NoRequest}]
        /\ \A n \in Moderator : deciding'[n] = IF n = m THEN NoRequest ELSE deciding[n]
    BY DEF DecisionInv, Shape
  <1>3. LocksAscend'
    <2> SUFFICES ASSUME NEW q \in Report, lockedBy'[q] # Nobody
                 PROVE  /\ deciding'[lockedBy'[q]] # NoRequest /\ q \in deciding'[lockedBy'[q]].ids
                        /\ \A s \in deciding'[lockedBy'[q]].ids : lockedBy'[s] # lockedBy'[q] => q < s
      BY DEF LocksAscend
    <2>1. lockedBy'[q] = lockedBy[q] /\ lockedBy[q] # m /\ lockedBy[q] \in Moderator
      BY <1>1 DEF DecisionInv, Shape
    <2>2. deciding'[lockedBy[q]] = deciding[lockedBy[q]]
      BY <1>2, <2>1
    <2>3. deciding[lockedBy[q]] # NoRequest /\ q \in deciding[lockedBy[q]].ids
      BY <2>1 DEF DecisionInv, LocksAscend
    <2>4. deciding[lockedBy[q]].ids \subseteq Report
      BY <2>1, <2>3 DEF DecisionInv, Shape, Deciding
    <2>5. \A s \in Report : lockedBy'[s] # lockedBy[q] => lockedBy[s] # lockedBy[q]
      BY <1>1, <2>1
    <2> QED BY <2>1, <2>2, <2>3, <2>4, <2>5 DEF DecisionInv, LocksAscend
  <1> QED BY <1>1, <1>2, <1>3

\* A rollback changes no report.
LEMMA RollbackStep ==
    ASSUME DecisionInv, NEW m \in Moderator, rollback(m)
    PROVE  DecisionInv'
  <1>1. /\ lockedBy' = Freed(m) /\ deciding' = [deciding EXCEPT ![m] = NoRequest]
        /\ UNCHANGED <<reports, audit>>
    BY DEF rollback
  <1>2. Shape' /\ LocksAscend'
    BY <1>1, EndsWithItsLocks DEF DecisionInv, Shape
  <1>3. Checked'
    <2> SUFFICES ASSUME NEW n \in Moderator, deciding'[n].op = "checked",
                        NEW q \in deciding'[n].ids
                 PROVE  lockedBy'[q] = n /\ reports[q].status = "PENDING"
      BY <1>1 DEF Checked
    <2>1. n # m /\ deciding'[n] = deciding[n]
      BY <1>1, EndsWithItsLocks DEF NoRequest
    <2>2. q \in Report
      BY <2>1 DEF DecisionInv, Shape, Deciding, NoRequest
    <2>3. lockedBy[q] = n /\ reports[q].status = "PENDING"
      BY <2>1 DEF DecisionInv, Checked
    <2> QED BY <1>1, <2>1, <2>2, <2>3, EndsWithItsLocks
  <1>4. Audited'
    BY <1>1 DEF DecisionInv, Audited
  <1> QED BY <1>2, <1>3, <1>4 DEF DecisionInv

\* A commit decides reports that it holds, so none that another transaction checked.
LEMMA DecideStep ==
    ASSUME DecisionInv, NEW m \in Moderator, decide(m)
    PROVE  DecisionInv'
  <1>1. /\ lockedBy' = Freed(m) /\ deciding' = [deciding EXCEPT ![m] = NoRequest]
        /\ deciding[m].op = "checked"
    BY DEF decide
  <1>2. deciding[m] \in Deciding
    BY <1>1 DEF DecisionInv, Shape, NoRequest
  <1>3. \A r \in deciding[m].ids : lockedBy[r] = m /\ reports[r].status = "PENDING"
    BY <1>1 DEF DecisionInv, Checked
  <1>4. reports' = [r \in Report |->
            IF r \in deciding[m].ids
            THEN [reports[r] EXCEPT !.status = deciding[m].status, !.moderatorId = m]
            ELSE reports[r]]
    BY <1>3 DEF decide
  <1>5. audit' = [r \in Report |->
            IF r \in deciding[m].ids THEN audit[r] \cup {<<m, deciding[m].status>>} ELSE audit[r]]
    BY DEF decide
  <1>6. ASSUME NEW r \in deciding[m].ids
        PROVE  /\ r \in Report /\ reports[r] # NoReport /\ audit[r] = {}
               /\ IsReport(reports'[r])
               /\ reports'[r].status = deciding[m].status /\ reports'[r].moderatorId = m
    <2>1. r \in Report /\ reports[r].status = "PENDING"
      BY <1>2, <1>3 DEF Deciding
    <2>2. IsReport(reports[r]) /\ reports[r] # NoReport /\ audit[r] = {}
      BY <2>1 DEF DecisionInv, Shape, Audited, NoReport
    <2>3. reports'[r] = [reports[r] EXCEPT !.status = deciding[m].status, !.moderatorId = m]
      BY <1>4, <2>1
    <2>4. reports'[r] = [post |-> reports[r].post, reporter |-> reports[r].reporter,
                         status |-> deciding[m].status, moderatorId |-> m]
      BY <2>2, <2>3 DEF IsReport
    <2> QED BY <1>2, <2>1, <2>2, <2>4 DEF IsReport, Deciding
  <1>7. Shape'
    <2>1. \A r \in Report : reports'[r] = NoReport \/ IsReport(reports'[r])
      BY <1>4, <1>6 DEF DecisionInv, Shape
    <2> QED BY <1>1, <1>4, <1>5, <2>1, EndsWithItsLocks DEF Shape
  <1>8. LocksAscend'
    BY <1>1, EndsWithItsLocks
  <1>9. Checked'
    <2> SUFFICES ASSUME NEW n \in Moderator, deciding'[n].op = "checked",
                        NEW q \in deciding'[n].ids
                 PROVE  lockedBy'[q] = n /\ reports'[q].status = "PENDING"
      BY DEF Checked
    <2>1. n # m /\ deciding'[n] = deciding[n]
      BY <1>1, EndsWithItsLocks DEF NoRequest
    <2>2. q \in Report
      BY <2>1 DEF DecisionInv, Shape, Deciding, NoRequest
    <2>3. lockedBy[q] = n /\ reports[q].status = "PENDING"
      BY <2>1 DEF DecisionInv, Checked
    <2>4. q \notin deciding[m].ids
      BY <1>3, <2>1, <2>3
    <2>5. reports'[q] = reports[q]
      BY <1>4, <2>2, <2>4
    <2> QED BY <1>1, <2>1, <2>2, <2>3, <2>5, EndsWithItsLocks
  <1>10. Audited'
    <2> SUFFICES ASSUME NEW r \in Report
                 PROVE  audit'[r] = IF reports'[r].status \in {"NONE", "PENDING"} THEN {}
                                    ELSE {<<reports'[r].moderatorId, reports'[r].status>>}
      BY DEF Audited
    <2>1. CASE r \in deciding[m].ids
      <3>1. reports'[r].status \notin {"NONE", "PENDING"}
        BY <1>2, <1>6, <2>1 DEF Deciding, Decision
      <3>2. audit'[r] = {<<m, deciding[m].status>>}
        BY <1>5, <1>6, <2>1
      <3> QED BY <1>6, <2>1, <3>1, <3>2
    <2>2. CASE r \notin deciding[m].ids
      BY <1>4, <1>5, <2>2 DEF DecisionInv, Audited
    <2> QED BY <2>1, <2>2
  <1> QED BY <1>7, <1>8, <1>9, <1>10 DEF DecisionInv

LEMMA EveryStep ==
    ASSUME DecisionInv, [DiscussionsNext]_discussionVars
    PROVE  DecisionInv'
  <1>1. CASE UNCHANGED discussionVars
    BY <1>1, OtherSteps DEF discussionVars, decisionVars
  <1>2. ASSUME NEW u \in Writer, discussing(u)
        PROVE  DecisionInv'
    <2>1. CASE reportCommit(u)
      BY <2>1, ReportStep
    <2>2. CASE ~ reportCommit(u)
      <3>1. UNCHANGED decisionVars
        BY <1>2, <2>2 DEF discussing, create, reply, report, like, writePost, likeCommit, refuse,
                          Ask, Answer, decisionVars
      <3> QED BY <3>1, OtherSteps
    <2> QED BY <2>1, <2>2
  <1>3. ASSUME NEW m \in Moderator, moderating(m)
        PROVE  DecisionInv'
    BY <1>3, StartStep, LockStep, ReadStep, DecideStep, RollbackStep DEF moderating
  <1>4. ASSUME NEW q \in Post, NEW status \in PostStatus, moderate(q, status)
        PROVE  DecisionInv'
    BY <1>4, OtherSteps DEF moderate, decisionVars
  <1>5. ASSUME NEW p \in Problem, setProblemPublication(p)
        PROVE  DecisionInv'
    BY <1>5, OtherSteps DEF setProblemPublication, decisionVars
  <1>6. CASE Advance
    BY <1>6, OtherSteps DEF Advance, decisionVars
  <1> QED BY <1>1, <1>2, <1>3, <1>4, <1>5, <1>6 DEF DiscussionsNext

-----------------------------------------------------------------------------
(* Theorems *)

\* resolveReportsAtomic decides a report once, and audits the decision it made: for any
\* number of racing moderators and any overlapping sets of reports.
THEOREM DecisionTheorem == DiscussionsSpec => []DecisionOnce
  <1>1. DecisionInv => DecisionOnce
    <2> SUFFICES ASSUME DecisionInv, NEW r \in Report, Reported(r)
                 PROVE  audit[r] = IF reports[r].status = "PENDING" THEN {}
                                   ELSE {<<reports[r].moderatorId, reports[r].status>>}
      BY DEF DecisionOnce
    <2>1. reports[r].status # "NONE"
      BY DEF DecisionInv, Shape, IsReport, Reported, Decision
    <2> QED BY <2>1 DEF DecisionInv, Audited
  <1> QED BY InitiallyDecided, EveryStep, <1>1, PTL DEF DiscussionsSpec

\* ORDER BY id FOR UPDATE in resolveReportsAtomic: racing decisions wait for each other
\* in the order of the ids only, so that no cycle of waits can form.
THEOREM WaitsTheorem == DiscussionsSpec => []WaitsAscend
  <1>1. DecisionInv => WaitsAscend
    <2> SUFFICES ASSUME DecisionInv, NEW m \in Moderator, NEW r \in Report, NEW s \in Report,
                        Wants(m, r), lockedBy[r] # Nobody, Wants(lockedBy[r], s)
                 PROVE  r < s
      BY DEF WaitsAscend
    <2> QED BY DEF DecisionInv, LocksAscend, Wants, Missing
  <1> QED BY InitiallyDecided, EveryStep, <1>1, PTL DEF DiscussionsSpec

-----------------------------------------------------------------------------
(* The quota of posts *)

PostRow == [problem : Problem, author : Writer, parent : Post \cup {Nobody}, status : PostStatus]
WriteRequest == [op : {"create", "reply"}, problem : Problem, parent : Post \cup {Nobody},
                 readAt : Nat]
LikeRequest == [op : {"like"}, post : Post, liked : BOOLEAN]
ReportRequest == [op : {"report"}, post : Post]

\* The shape of what writing a post reads and writes, and that the posts of reports exist:
\* a decision changes the status of no others.
Board ==
    /\ clock \in Nat /\ published \subseteq Problem
    /\ posts \in [Post -> PostRow \cup {NoPost}]
    /\ IsFiniteSet({q \in Post : Posted(q)})
    /\ written \in [Post -> Nat]
    /\ limit \in [Writer -> [count : Nat, expiresAt : Nat]]
    /\ asked \in [Writer -> WriteRequest \cup LikeRequest \cup ReportRequest \cup {NoRequest}]
    /\ \A u \in Writer : asked[u].op = "report" => Posted(asked[u].post)
    /\ \A r \in Report : Reported(r) => reports[r].post \in Post /\ Posted(reports[r].post)

\* The row of the counter is not ahead of its window, nor its count of the limit.
Row(u) == limit[u].expiresAt <= clock + Window /\ limit[u].count <= WriteLimit

\* The posts of u that were counted in the window that expires at n.
CountedAt(e, u, n) == {x \in Post : Posted(x) /\ posts[x].author = u /\ e[x] = n}

\* Every post was counted in a window of its author: e says when that window expires.  A
\* post is committed no earlier than its window starts, and before the end of the
\* transactions that start in it; two windows do not overlap; and no more posts were
\* counted in one than the counter allows.
Windows(e) ==
    /\ \A x \in Post : Posted(x) =>
        LET last == limit[posts[x].author].expiresAt IN
        /\ e[x] = last \/ e[x] + Window <= last
        /\ e[x] <= written[x] + Window /\ written[x] < e[x] + TxTimeout
    /\ \A x, y \in Post : Posted(x) /\ Posted(y) /\ posts[x].author = posts[y].author
        /\ e[x] < e[y] => e[x] + Window <= e[y]
    /\ \A u \in Writer, n \in Nat :
        Cardinality(CountedAt(e, u, n)) <=
            IF n = limit[u].expiresAt THEN limit[u].count ELSE WriteLimit

BoardInv == Board /\ (\A u \in Writer : Row(u)) /\ \E e \in [Post -> Nat] : Windows(e)

LEMMA BoardFacts ==
    ASSUME BoardInv
    PROVE  /\ Board /\ clock \in Nat /\ published \subseteq Problem
           /\ \A x \in Post : written[x] \in Nat
           /\ \A u \in Writer : /\ limit[u].count \in Nat /\ limit[u].expiresAt \in Nat
                               /\ limit[u].count <= WriteLimit
                               /\ limit[u].expiresAt <= clock + Window
  <1>1. Board /\ \A u \in Writer : Row(u)
    BY DEF BoardInv
  <1>2. \A u \in Writer : limit[u].count \in Nat /\ limit[u].expiresAt \in Nat
    BY <1>1 DEF Board
  <1>3. clock \in Nat /\ published \subseteq Problem /\ \A x \in Post : written[x] \in Nat
    BY <1>1 DEF Board
  <1> QED BY <1>1, <1>2, <1>3 DEF Row

LEMMA AskedKinds ==
    ASSUME BoardInv, NEW u \in Writer
    PROVE  /\ asked[u].op = "report" =>
                asked[u].post \in Post /\ Posted(asked[u].post)
           /\ asked[u].op \in {"create", "reply"} => asked[u] \in WriteRequest
  <1>1. Board
    BY DEF BoardInv
  <1>2. asked[u] \in WriteRequest \cup LikeRequest \cup ReportRequest \cup {NoRequest}
    BY <1>1 DEF Board
  <1>3. asked[u] \in WriteRequest => asked[u].op \in {"create", "reply"}
    BY DEF WriteRequest
  <1>4. asked[u] \in LikeRequest => asked[u].op = "like"
    BY DEF LikeRequest
  <1>5. asked[u] \in ReportRequest => asked[u].op = "report" /\ asked[u].post \in Post
    BY DEF ReportRequest
  <1>6. NoRequest.op = "idle"
    BY DEF NoRequest
  <1>7. asked[u].op = "report" => Posted(asked[u].post)
    BY <1>1 DEF Board
  <1> QED BY <1>2, <1>3, <1>4, <1>5, <1>6, <1>7

LEMMA BoardInit == DiscussionsInit => BoardInv
  <1> SUFFICES ASSUME DiscussionsInit PROVE BoardInv
    OBVIOUS
  <1>1. \A q \in Post : ~Posted(q)
    BY DEF DiscussionsInit, Posted
  <1>2. {q \in Post : Posted(q)} = {}
    BY <1>1
  <1>3. IsFiniteSet({q \in Post : Posted(q)})
    BY <1>2, FS_EmptySet
  <1>4. Board
    BY <1>3 DEF Board, DiscussionsInit, Reported, NoRequest
  <1>5. \A u \in Writer : Row(u)
    BY DiscussionsAssumption DEF Row, DiscussionsInit
  <1>6. PICK e \in [Post -> Nat] : e = [q \in Post |-> 0]
    OBVIOUS
  <1>7. \A u, n : CountedAt(e, u, n) = {} /\ Cardinality(CountedAt(e, u, n)) = 0
    <2>1. \A u, n : CountedAt(e, u, n) = {}
      BY <1>1 DEF CountedAt
    <2> QED BY <2>1, FS_EmptySet
  <1>8. Windows(e)
    BY <1>1, <1>7, DiscussionsAssumption DEF Windows, DiscussionsInit
  <1> QED BY <1>4, <1>5, <1>8 DEF BoardInv

\* No post is written, and no author changes.
PostsKept ==
    /\ \A q \in Post : /\ Posted(q)' <=> Posted(q)
                       /\ Posted(q) => posts'[q].author = posts[q].author
    /\ UNCHANGED <<limit, written>>
    /\ clock' \in Nat /\ clock <= clock'

LEMMA KeptStep ==
    ASSUME BoardInv, PostsKept, Board'
    PROVE  BoardInv'
  <1>1. PICK e \in [Post -> Nat] : Windows(e)
    BY DEF BoardInv
  <1>2. ASSUME NEW u \in Writer PROVE Row(u)'
    <2>1. Row(u) /\ limit[u].expiresAt \in Nat /\ clock \in Nat
      BY DEF BoardInv, Board
    <2> QED BY <2>1, DiscussionsAssumption DEF Row, PostsKept
  <1>3. \A u, n : CountedAt(e, u, n)' = CountedAt(e, u, n)
    BY DEF CountedAt, PostsKept
  <1>4. \A x \in Post : Posted(x)' =>
          LET last == limit'[posts'[x].author].expiresAt IN
          /\ e[x] = last \/ e[x] + Window <= last
          /\ e[x] <= written'[x] + Window /\ written'[x] < e[x] + TxTimeout
    BY <1>1 DEF Windows, PostsKept
  <1>5. \A x, y \in Post : Posted(x)' /\ Posted(y)' /\ posts'[x].author = posts'[y].author
          /\ e[x] < e[y] => e[x] + Window <= e[y]
    BY <1>1 DEF Windows, PostsKept
  <1>6. \A u \in Writer, n \in Nat :
          Cardinality(CountedAt(e, u, n)') <=
              IF n = limit'[u].expiresAt THEN limit'[u].count ELSE WriteLimit
    BY <1>1, <1>3 DEF Windows, PostsKept
  <1>7. Windows(e)'
    BY <1>4, <1>5, <1>6 DEF Windows
  <1> QED BY <1>2, <1>7 DEF BoardInv

\* The set of posts that there are does not change with a step that writes none.
LEMMA PostedKept ==
    ASSUME BoardInv, \A q \in Post : Posted(q)' <=> Posted(q)
    PROVE  IsFiniteSet({q \in Post : Posted(q)})'
  <1>1. {q \in Post : Posted(q)}' = {q \in Post : Posted(q)}
    OBVIOUS
  <1>2. IsFiniteSet({q \in Post : Posted(q)})
    BY DEF BoardInv, Board
  <1> QED BY <1>1, <1>2

\* A request is taken in: it carries what it has read.
LEMMA AskStep ==
    ASSUME BoardInv, NEW u \in Writer,
           NEW request \in WriteRequest \cup LikeRequest \cup ReportRequest,
           request.op = "report" => Posted(request.post),
           Ask(u, request)
    PROVE  BoardInv'
  <1>1. asked' = [asked EXCEPT ![u] = request] /\ UNCHANGED <<clock, published, posts, limit, reports, written>>
    BY DEF Ask
  <1>2. \A q : Posted(q)' <=> Posted(q)
    BY <1>1 DEF Posted
  <1>3. PostsKept
    BY <1>1, <1>2, BoardFacts DEF PostsKept
  <1>4. IsFiniteSet({q \in Post : Posted(q)})'
    BY <1>2, PostedKept
  <1>5. Board'
    BY <1>1, <1>2, <1>4 DEF BoardInv, Board, Reported
  <1> QED BY <1>3, <1>5, KeptStep

\* A request is answered, and nothing was written but a like or a report.
LEMMA AnswerStep ==
    ASSUME BoardInv, NEW u \in Writer, Answer(u),
           UNCHANGED <<clock, published, posts, limit, written>>,
           \A r \in Report : Reported(r)' => reports'[r].post \in Post /\ Posted(reports'[r].post)
    PROVE  BoardInv'
  <1>1. asked' = [asked EXCEPT ![u] = NoRequest]
    BY DEF Answer
  <1>2. \A q : Posted(q)' <=> Posted(q)
    BY DEF Posted
  <1>3. PostsKept
    BY <1>2, BoardFacts DEF PostsKept
  <1>4. IsFiniteSet({q \in Post : Posted(q)})'
    BY <1>2, PostedKept
  <1>5. \A v \in Writer : asked'[v].op = "report" => Posted(asked'[v].post)
    BY <1>1 DEF BoardInv, Board, NoRequest
  <1>6. asked' \in [Writer -> WriteRequest \cup LikeRequest \cup ReportRequest \cup {NoRequest}]
    BY <1>1 DEF BoardInv, Board
  <1>7. Board'
    BY <1>2, <1>4, <1>5, <1>6 DEF BoardInv, Board
  <1> QED BY <1>3, <1>7, KeptStep

\* The handlers that read before they ask.
LEMMA ReadingSteps ==
    ASSUME BoardInv, NEW u \in Writer,
           \/ \E p \in Problem : create(u, p)
           \/ \E q \in Post :
               reply(u, q) \/ report(u, q) \/ (\E liked \in BOOLEAN : like(u, q, liked))
    PROVE  BoardInv'
  <1>1. ASSUME NEW p \in Problem, create(u, p) PROVE BoardInv'
    <2>1. [op |-> "create", problem |-> p, parent |-> Nobody, readAt |-> clock] \in WriteRequest
      BY DEF WriteRequest, BoardInv, Board
    <2> QED BY <1>1, <2>1, AskStep DEF create
  <1>2. ASSUME NEW q \in Post, reply(u, q) PROVE BoardInv'
    <2>1. posts[q] \in PostRow
      BY <1>2 DEF reply, Served, Posted, BoardInv, Board
    <2>2. [op |-> "reply", problem |-> posts[q].problem, parent |-> q, readAt |-> clock]
            \in WriteRequest
      BY <2>1 DEF WriteRequest, PostRow, BoardInv, Board
    <2> QED BY <1>2, <2>2, AskStep DEF reply
  <1>3. ASSUME NEW q \in Post, report(u, q) PROVE BoardInv'
    <2>1. [op |-> "report", post |-> q] \in ReportRequest /\ Posted(q)
      BY <1>3 DEF ReportRequest, report, Served
    <2> QED BY <1>3, <2>1, AskStep DEF report
  <1>4. ASSUME NEW q \in Post, NEW liked \in BOOLEAN, like(u, q, liked) PROVE BoardInv'
    <2>1. [op |-> "like", post |-> q, liked |-> liked] \in LikeRequest
      BY DEF LikeRequest
    <2> QED BY <1>4, <2>1, AskStep DEF like
  <1> QED BY <1>1, <1>2, <1>3, <1>4

LEMMA CommitSteps ==
    ASSUME DecisionInv, BoardInv, NEW u \in Writer,
           likeCommit(u) \/ reportCommit(u) \/ refuse(u)
    PROVE  BoardInv'
  <1>1. CASE likeCommit(u) \/ refuse(u)
    <2>1. Answer(u) /\ UNCHANGED <<clock, published, posts, limit, reports, written>>
      BY <1>1 DEF likeCommit, refuse
    <2>2. \A r \in Report : Reported(r)' => reports'[r].post \in Post /\ Posted(reports'[r].post)
      BY <2>1 DEF BoardInv, Board, Reported
    <2> QED BY <2>1, <2>2, AnswerStep
  <1>2. CASE reportCommit(u)
    <2>1. PICK r \in Report :
             reports' = [reports EXCEPT ![r] = [post |-> asked[u].post, reporter |-> u,
                            status |-> "PENDING", moderatorId |-> Nobody]]
      BY <1>2 DEF reportCommit
    <2>2. Answer(u) /\ UNCHANGED <<clock, published, posts, limit, written>>
      BY <1>2 DEF reportCommit
    <2>3. asked[u].post \in Post /\ Posted(asked[u].post)
      <3>1. asked[u].op = "report"
        BY <1>2 DEF reportCommit
      <3> QED BY <3>1, AskedKinds
    <2>4. \A s \in Report : Reported(s)' => reports'[s].post \in Post /\ Posted(reports'[s].post)
      BY <2>1, <2>3 DEF BoardInv, Board, Reported, DecisionInv, Shape
    <2> QED BY <2>2, <2>4, AnswerStep
  <1> QED BY <1>1, <1>2

\* What moderators, publications and the clock change of posts and reports.
LEMMA ModeratedStep ==
    ASSUME BoardInv, clock' \in Nat, clock <= clock', published' \subseteq Problem,
           UNCHANGED <<limit, written, asked>>,
           posts' \in [Post -> PostRow \cup {NoPost}],
           \A q \in Post : /\ Posted(q)' <=> Posted(q)
                           /\ Posted(q) => posts'[q].author = posts[q].author,
           \A r \in Report : Reported(r)' => Reported(r) /\ reports'[r].post = reports[r].post
    PROVE  BoardInv'
  <1>1. PostsKept
    BY DEF PostsKept
  <1>2. IsFiniteSet({q \in Post : Posted(q)})'
    BY PostedKept
  <1>3. \A u \in Writer : asked'[u].op = "report" => posts'[asked'[u].post] # NoPost
    <2> SUFFICES ASSUME NEW u \in Writer, asked[u].op = "report"
                 PROVE  posts'[asked[u].post] # NoPost
      OBVIOUS
    <2>1. asked[u].post \in Post /\ Posted(asked[u].post)
      BY AskedKinds
    <2> QED BY <2>1 DEF Posted
  <1>4. \A r \in Report : Reported(r)' =>
          reports'[r].post \in Post /\ posts'[reports'[r].post] # NoPost
    <2> SUFFICES ASSUME NEW r \in Report, Reported(r)'
                 PROVE  reports'[r].post \in Post /\ posts'[reports'[r].post] # NoPost
      OBVIOUS
    <2>1. reports'[r].post = reports[r].post /\ reports[r].post \in Post /\ Posted(reports[r].post)
      BY DEF BoardInv, Board
    <2>2. Posted(reports[r].post)
      BY <2>1
    <2>3. \A q \in Post : Posted(q) => posts'[q] # NoPost
      BY DEF Posted
    <2> QED BY <2>1, <2>2, <2>3
  <1>5. Board'
    <2>1. /\ clock' \in Nat /\ published' \subseteq Problem
          /\ posts' \in [Post -> PostRow \cup {NoPost}] /\ written' \in [Post -> Nat]
          /\ limit' \in [Writer -> [count : Nat, expiresAt : Nat]]
          /\ asked' \in [Writer -> WriteRequest \cup LikeRequest \cup ReportRequest \cup {NoRequest}]
      BY DEF BoardInv, Board
    <2> QED BY <1>2, <1>3, <1>4, <2>1 DEF Board, Posted
  <1> QED BY <1>1, <1>5, KeptStep

LEMMA DecideKeepsPosts ==
    ASSUME DecisionInv, BoardInv, NEW m \in Moderator, decide(m)
    PROVE  BoardInv'
  <1>1. deciding[m].op = "checked" /\ deciding[m] \in Deciding
    <2>1. deciding[m].op = "checked"
      BY DEF decide
    <2> QED BY <2>1 DEF DecisionInv, Shape, NoRequest
  <1>2. ASSUME NEW r \in deciding[m].ids
        PROVE  /\ r \in Report /\ Reported(r) /\ reports'[r].post = reports[r].post
    <2>1. r \in Report /\ reports[r].status = "PENDING"
      BY <1>1 DEF DecisionInv, Checked, Deciding
    <2>2. IsReport(reports[r]) /\ reports[r] # NoReport
      BY <2>1 DEF DecisionInv, Shape, NoReport
    <2>3. reports'[r] = [reports[r] EXCEPT !.status = deciding[m].status, !.moderatorId = m]
      BY <2>1 DEF decide
    <2>4. reports'[r] = [post |-> reports[r].post, reporter |-> reports[r].reporter,
                         status |-> deciding[m].status, moderatorId |-> m]
      BY <2>2, <2>3 DEF IsReport
    <2> QED BY <2>1, <2>2, <2>4 DEF Reported
  <1>3. \A r \in Report : Reported(r)' => Reported(r) /\ reports'[r].post = reports[r].post
    <2>1. \A r \in Report \ deciding[m].ids : reports'[r] = reports[r]
      BY DEF decide
    <2> QED BY <1>2, <2>1 DEF Reported
  <1>4. ASSUME NEW q \in Post
        PROVE  /\ posts'[q] \in PostRow \cup {NoPost} /\ (Posted(q)' <=> Posted(q))
               /\ Posted(q) => posts'[q].author = posts[q].author
    <2>1. CASE deciding[m].postStatus # Nobody /\ \E r \in deciding[m].ids : reports[r].post = q
      <3>1. Posted(q)
        BY <1>2, <2>1 DEF BoardInv, Board
      <3>2. posts[q] \in PostRow /\ deciding[m].postStatus \in PostStatus
        BY <1>1, <2>1, <3>1 DEF BoardInv, Board, Posted, Deciding
      <3>3. posts'[q] = [posts[q] EXCEPT !.status = deciding[m].postStatus]
        BY <2>1 DEF decide
      <3>4. posts'[q] \in PostRow /\ posts'[q].author = posts[q].author
        BY <3>2, <3>3 DEF PostRow
      <3> QED BY <3>1, <3>4 DEF Posted, PostRow, NoPost
    <2>2. CASE ~(deciding[m].postStatus # Nobody /\ \E r \in deciding[m].ids : reports[r].post = q)
      BY <2>2 DEF decide, Posted, BoardInv, Board
    <2> QED BY <2>1, <2>2
  <1>5. posts' \in [Post -> PostRow \cup {NoPost}]
    <2>1. posts' = [q \in Post |-> posts'[q]]
      BY DEF decide
    <2> QED BY <1>4, <2>1
  <1>6. UNCHANGED <<clock, published, limit, asked, written>>
    BY DEF decide
  <1>7. clock' \in Nat /\ clock <= clock' /\ published' \subseteq Problem
    BY <1>6, BoardFacts
  <1> QED BY <1>3, <1>4, <1>5, <1>6, <1>7, ModeratedStep

LEMMA ModerationSteps ==
    ASSUME DecisionInv, BoardInv,
           \/ \E m \in Moderator : moderating(m)
           \/ \E q \in Post, status \in PostStatus : moderate(q, status)
           \/ \E p \in Problem : setProblemPublication(p)
           \/ Advance
           \/ UNCHANGED discussionVars
    PROVE  BoardInv'
  <1>1. ASSUME NEW m \in Moderator, decide(m) PROVE BoardInv'
    BY <1>1, DecideKeepsPosts
  <1>2. ASSUME NEW q \in Post, NEW status \in PostStatus, moderate(q, status) PROVE BoardInv'
    <2>1. posts[q] \in PostRow /\ posts' = [posts EXCEPT ![q] = [posts[q] EXCEPT !.status = status]]
      BY <1>2 DEF moderate, Posted, BoardInv, Board
    <2>2. [posts[q] EXCEPT !.status = status] \in PostRow
          /\ [posts[q] EXCEPT !.status = status].author = posts[q].author
      <3>1. posts[q] \in PostRow
        BY <2>1
      <3> QED BY <3>1 DEF PostRow
    <2>3. NoPost \notin PostRow
      <3>1. \A x \in PostRow : x.status # "NONE"
        BY DEF PostRow, PostStatus
      <3>2. NoPost.status = "NONE"
        BY DEF NoPost
      <3> QED BY <3>1, <3>2
    <2>4. posts' \in [Post -> PostRow \cup {NoPost}]
      BY <2>1, <2>2 DEF BoardInv, Board
    <2>5. \A x \in Post : /\ Posted(x)' <=> Posted(x)
                          /\ Posted(x) => posts'[x].author = posts[x].author
      <3>1. posts \in [Post -> PostRow \cup {NoPost}]
        BY BoardFacts DEF Board
      <3>2. /\ posts'[q] = [posts[q] EXCEPT !.status = status]
            /\ \A x \in Post \ {q} : posts'[x] = posts[x]
        BY <2>1, <3>1
      <3>3. posts[q] # NoPost /\ posts'[q] # NoPost /\ posts'[q].author = posts[q].author
        BY <2>1, <2>2, <2>3, <3>2
      <3> QED BY <3>2, <3>3 DEF Posted
    <2>6. UNCHANGED <<clock, published, limit, asked, written, reports>>
      BY <1>2 DEF moderate
    <2>7. clock' \in Nat /\ clock <= clock' /\ published' \subseteq Problem
      BY <2>6, BoardFacts
    <2>8. \A r \in Report : Reported(r)' => Reported(r) /\ reports'[r].post = reports[r].post
      BY <2>6 DEF Reported
    <2> QED BY <2>4, <2>5, <2>6, <2>7, <2>8, ModeratedStep
  <1>3. CASE UNCHANGED <<posts, limit, reports, asked, written>> /\ clock' \in {clock, clock + 1}
             /\ published' \subseteq Problem
    <2>1. clock' \in Nat /\ clock <= clock'
      BY <1>3, BoardFacts
    <2>2. posts' \in [Post -> PostRow \cup {NoPost}]
      BY <1>3 DEF BoardInv, Board
    <2>3. \A q \in Post : /\ Posted(q)' <=> Posted(q)
                          /\ Posted(q) => posts'[q].author = posts[q].author
      BY <1>3 DEF Posted
    <2>4. \A r \in Report : Reported(r)' => Reported(r) /\ reports'[r].post = reports[r].post
      BY <1>3 DEF Reported
    <2> QED BY <1>3, <2>1, <2>2, <2>3, <2>4, ModeratedStep
  <1>4. published \subseteq Problem
    BY DEF BoardInv, Board
  <1>5. ASSUME NEW m \in Moderator, moderating(m), ~decide(m) PROVE BoardInv'
    <2>1. UNCHANGED <<posts, limit, reports, asked, written, clock, published>>
      BY <1>5 DEF moderating, resolveReportsAtomic, lockRow, readReports, rollback
    <2> QED BY <1>3, <1>4, <2>1
  <1>6. ASSUME NEW p \in Problem, setProblemPublication(p) PROVE BoardInv'
    BY <1>3, <1>4, <1>6 DEF setProblemPublication
  <1>7. CASE Advance
    BY <1>3, <1>4, <1>7 DEF Advance
  <1>8. CASE UNCHANGED discussionVars
    BY <1>3, <1>4, <1>8 DEF discussionVars
  <1> QED BY <1>1, <1>2, <1>5, <1>6, <1>7, <1>8

\* A post is counted in the window of its author's counter, which is a new one if the
\* last one had expired when the transaction started.
LEMMA WriteStep ==
    ASSUME BoardInv, NEW u \in Writer, writePost(u)
    PROVE  BoardInv'
  <1>1. asked[u] \in WriteRequest
    <2>1. asked[u].op \in {"create", "reply"}
      BY DEF writePost
    <2> QED BY <2>1, AskedKinds
  <1>2. PICK start \in asked[u].readAt..clock :
          clock - start <= TxTimeout /\ consumeWriteQuota(u, start)
    BY DEF writePost
  <1>3. start \in Nat /\ start <= clock /\ clock <= start + TxTimeout /\ clock \in Nat
    BY <1>1, <1>2, DiscussionsAssumption DEF WriteRequest, BoardInv, Board
  <1>4. PICK count \in Nat, expires \in Nat :
          /\ limit' = [limit EXCEPT ![u] = [count |-> count, expiresAt |-> expires]]
          /\ count <= WriteLimit
          /\ \/ /\ limit[u].expiresAt <= start /\ expires = start + Window /\ count = 1
             \/ /\ start < limit[u].expiresAt /\ expires = limit[u].expiresAt
                /\ count = limit[u].count + 1
    <2>1. limit[u].expiresAt \in Nat /\ limit[u].count \in Nat
      BY BoardFacts
    <2>2. CASE limit[u].expiresAt <= start
      <3>1. limit' = [limit EXCEPT ![u] = [count |-> 1, expiresAt |-> start + Window]]
        BY <1>2, <2>2 DEF consumeWriteQuota, Spent
      <3>2. 1 \in Nat /\ start + Window \in Nat /\ 1 <= WriteLimit
        BY <1>3, DiscussionsAssumption
      <3> QED BY <2>2, <3>1, <3>2, Zenon
    <2>3. CASE ~(limit[u].expiresAt <= start)
      <3>1. /\ limit' = [limit EXCEPT ![u] = [count |-> limit[u].count + 1,
                                              expiresAt |-> limit[u].expiresAt]]
            /\ limit[u].count < WriteLimit
        BY <1>2, <2>3 DEF consumeWriteQuota, Spent
      <3>2. /\ limit[u].count + 1 \in Nat /\ limit[u].count + 1 <= WriteLimit
            /\ start < limit[u].expiresAt
        BY <1>3, <2>1, <2>3, <3>1, DiscussionsAssumption
      <3> QED BY <2>1, <3>1, <3>2, Zenon
    <2> QED BY <2>2, <2>3
  <1>5. PICK q \in Post :
          /\ ~Posted(q)
          /\ posts' = [posts EXCEPT ![q] = [problem |-> asked[u].problem, author |-> u,
                                            parent |-> asked[u].parent, status |-> "VISIBLE"]]
          /\ written' = [written EXCEPT ![q] = clock]
    BY DEF writePost
  <1>6. /\ asked' = [asked EXCEPT ![u] = NoRequest]
        /\ UNCHANGED <<clock, published, reports>>
    BY DEF writePost, Answer
  <1>7. /\ Posted(q)' /\ posts'[q].author = u
        /\ \A x \in Post \ {q} : posts'[x] = posts[x] /\ (Posted(x)' <=> Posted(x))
    BY <1>5 DEF Posted, NoPost, BoardInv, Board
  <1>8. IsFiniteSet({x \in Post : Posted(x)})'
    <2> DEFINE P == {x \in Post : Posted(x)}
    <2>1. P' = P \cup {q}
      BY <1>7
    <2>2. IsFiniteSet(P)
      BY DEF BoardInv, Board
    <2> HIDE DEF P
    <2>3. IsFiniteSet(P')
      BY <2>1, <2>2, FS_AddElement
    <2> QED BY <2>3 DEF P
  <1>9. Board'
    <2>1. [problem |-> asked[u].problem, author |-> u, parent |-> asked[u].parent,
           status |-> "VISIBLE"] \in PostRow
      BY <1>1 DEF WriteRequest, PostRow, PostStatus
    <2>2. posts' \in [Post -> PostRow \cup {NoPost}] /\ written' \in [Post -> Nat]
      BY <1>3, <1>5, <2>1 DEF BoardInv, Board
    <2>3. limit' \in [Writer -> [count : Nat, expiresAt : Nat]]
      BY <1>4 DEF BoardInv, Board
    <2>4. asked' \in [Writer -> WriteRequest \cup LikeRequest \cup ReportRequest \cup {NoRequest}]
      BY <1>6 DEF BoardInv, Board
    <2>5. \A v \in Writer : asked'[v].op = "report" => posts'[asked'[v].post] # NoPost
      <3> SUFFICES ASSUME NEW v \in Writer, asked'[v].op = "report"
                   PROVE  posts'[asked'[v].post] # NoPost
        OBVIOUS
      <3>1. asked'[v] = asked[v]
        BY <1>6 DEF BoardInv, Board, NoRequest
      <3>3. asked[v].post \in Post /\ Posted(asked[v].post)
        BY <3>1, AskedKinds
      <3> QED BY <1>7, <3>1, <3>3 DEF Posted
    <2>6. \A r \in Report : Reported(r)' =>
            reports'[r].post \in Post /\ posts'[reports'[r].post] # NoPost
      BY <1>6, <1>7 DEF BoardInv, Board, Reported, Posted
    <2>7. clock' \in Nat /\ published' \subseteq Problem
      BY <1>6 DEF BoardInv, Board
    <2> QED BY <1>8, <2>2, <2>3, <2>4, <2>5, <2>6, <2>7 DEF Board, Posted
  <1>10. /\ limit'[u].count = count /\ limit'[u].expiresAt = expires
         /\ \A v \in Writer \ {u} : limit'[v] = limit[v]
    BY <1>4 DEF BoardInv, Board
  <1>11. ASSUME NEW v \in Writer PROVE Row(v)'
    <2>1. Row(v) /\ limit[v] \in [count : Nat, expiresAt : Nat]
      BY DEF BoardInv, Board
    <2> QED BY <1>3, <1>4, <1>6, <1>10, <2>1, DiscussionsAssumption DEF Row
  <1>12. PICK e \in [Post -> Nat] : Windows(e)
    BY DEF BoardInv
  <1>13. PICK f \in [Post -> Nat] : f = [e EXCEPT ![q] = expires]
    OBVIOUS
  <1>14. f[q] = expires /\ \A x \in Post \ {q} : f[x] = e[x]
    BY <1>13
  <1>15. /\ expires <= clock + Window /\ clock < expires + TxTimeout
         /\ limit[u].expiresAt = expires \/ limit[u].expiresAt + Window <= expires
    <2>1. limit[u].expiresAt \in Nat /\ limit[u].expiresAt <= clock + Window
      BY BoardFacts
    <2> QED BY <1>3, <1>4, <2>1, DiscussionsAssumption
  <1>16. ASSUME NEW x \in Post, x # q, Posted(x)
         PROVE  /\ posts[x].author \in Writer /\ posts'[x].author = posts[x].author
                /\ limit[posts[x].author].expiresAt \in Nat /\ written'[x] = written[x]
                /\ e[x] = limit[posts[x].author].expiresAt
                     \/ e[x] + Window <= limit[posts[x].author].expiresAt
                /\ e[x] <= written[x] + Window /\ written[x] < e[x] + TxTimeout
    <2>1. posts[x] \in PostRow
      BY <1>16 DEF BoardInv, Board, Posted
    <2> QED BY <1>5, <1>7, <1>12, <1>16, <2>1 DEF BoardInv, Board, Windows, PostRow
  <1>17. ASSUME NEW x \in Post, Posted(x)'
         PROVE  /\ f[x] = limit'[posts'[x].author].expiresAt
                     \/ f[x] + Window <= limit'[posts'[x].author].expiresAt
                /\ f[x] <= written'[x] + Window /\ written'[x] < f[x] + TxTimeout
    <2>1. CASE x = q
      BY <1>5, <1>7, <1>10, <1>14, <1>15, <2>1 DEF BoardInv, Board
    <2>2. CASE x # q
      <3>1. Posted(x) /\ f[x] = e[x] /\ e[x] \in Nat
        BY <1>7, <1>14, <1>17, <2>2
      <3>2. CASE posts[x].author = u
        <4>1. /\ posts'[x].author = u /\ limit[u].expiresAt \in Nat
              /\ e[x] = limit[u].expiresAt \/ e[x] + Window <= limit[u].expiresAt
              /\ e[x] <= written'[x] + Window /\ written'[x] < e[x] + TxTimeout
          BY <1>16, <2>2, <3>1, <3>2
        <4>2. e[x] = expires \/ e[x] + Window <= expires
          BY <1>15, <3>1, <4>1, DiscussionsAssumption
        <4> QED BY <1>10, <3>1, <4>1, <4>2
      <3>3. CASE posts[x].author # u
        BY <1>10, <1>16, <2>2, <3>1, <3>3
      <3> QED BY <3>2, <3>3
    <2> QED BY <2>1, <2>2
  <1>18. ASSUME NEW x \in Post, NEW y \in Post, Posted(x)', Posted(y)',
                posts'[x].author = posts'[y].author, f[x] < f[y]
         PROVE  f[x] + Window <= f[y]
    <2>1. CASE x # q /\ y # q
      <3>1. /\ Posted(x) /\ Posted(y) /\ posts[x].author = posts[y].author
            /\ f[x] = e[x] /\ f[y] = e[y]
        BY <1>7, <1>14, <1>18, <2>1
      <3> QED BY <1>12, <1>18, <3>1 DEF Windows
    <2>2. CASE y = q
      <3>1. posts'[x].author = u /\ f[y] = expires
        BY <1>7, <1>14, <1>18, <2>2
      <3>2. f[x] = expires \/ f[x] + Window <= expires
        BY <1>10, <1>17, <1>18, <3>1
      <3> QED BY <1>18, <3>1, <3>2
    <2>3. CASE x = q /\ y # q
      <3>1. posts'[y].author = u /\ f[y] \in Nat
        BY <1>7, <1>18, <2>3
      <3>2. f[y] = expires \/ f[y] + Window <= expires
        BY <1>10, <1>17, <1>18, <3>1
      <3> QED BY <1>14, <1>18, <2>3, <3>1, <3>2, DiscussionsAssumption
    <2> QED BY <2>1, <2>2, <2>3
  <1>19. ASSUME NEW v \in Writer, NEW n \in Nat
         PROVE  Cardinality(CountedAt(f, v, n)') <=
                  IF n = limit'[v].expiresAt THEN limit'[v].count ELSE WriteLimit
    <2>1. /\ IsFiniteSet(CountedAt(e, v, n)) /\ Cardinality(CountedAt(e, v, n)) \in Nat
      <3>1. CountedAt(e, v, n) \subseteq {x \in Post : Posted(x)}
        BY DEF CountedAt
      <3>2. IsFiniteSet({x \in Post : Posted(x)})
        BY DEF BoardInv, Board
      <3> QED BY <3>1, <3>2, FS_Subset, FS_CardinalityType
    <2>2. Cardinality(CountedAt(e, v, n)) <=
            IF n = limit[v].expiresAt THEN limit[v].count ELSE WriteLimit
      BY <1>12 DEF Windows
    <2>3. CASE v = u /\ n = expires
      <3>1. CountedAt(f, v, n)' = CountedAt(e, v, n) \cup {q} /\ q \notin CountedAt(e, v, n)
        BY <1>5, <1>7, <1>14, <2>3 DEF CountedAt
      <3>2. Cardinality(CountedAt(e, v, n) \cup {q}) = Cardinality(CountedAt(e, v, n)) + 1
        BY <2>1, <3>1, FS_AddElement
      <3>3. CASE start < limit[u].expiresAt
        <4>1. Cardinality(CountedAt(e, v, n)) <= limit[u].count /\ count = limit[u].count + 1
              /\ limit[u].count \in Nat
          <5>1. limit[u].count \in Nat /\ limit[u].expiresAt \in Nat
            BY BoardFacts
          <5>2. expires = limit[u].expiresAt /\ count = limit[u].count + 1
            BY <1>3, <1>4, <3>3, <5>1
          <5> QED BY <2>2, <2>3, <5>1, <5>2
        <4>2. /\ Cardinality(CountedAt(f, v, n)') = Cardinality(CountedAt(e, v, n)) + 1
              /\ n = limit'[v].expiresAt /\ limit'[v].count = count
          BY <1>10, <2>3, <3>1, <3>2
        <4> QED BY <2>1, <4>1, <4>2
      <3>4. CASE ~(start < limit[u].expiresAt)
        <4>1. expires = start + Window /\ count = 1 /\ limit[u].expiresAt <= start
              /\ limit[u].expiresAt \in Nat
          BY <1>3, <1>4, <3>4, BoardFacts
        <4>2. ASSUME NEW x \in CountedAt(e, v, n) PROVE FALSE
          <5>1. x \in Post /\ Posted(x) /\ posts[x].author = u /\ e[x] = expires /\ x # q
            BY <1>5, <2>3 DEF CountedAt
          <5>2. e[x] = limit[u].expiresAt \/ e[x] + Window <= limit[u].expiresAt
            BY <1>16, <5>1
          <5> QED BY <1>3, <4>1, <5>1, <5>2, DiscussionsAssumption
        <4>3. Cardinality(CountedAt(e, v, n)) = 0
          BY <4>2, FS_EmptySet
        <4>4. /\ Cardinality(CountedAt(f, v, n)') = 1
              /\ n = limit'[v].expiresAt /\ limit'[v].count = 1
          BY <1>10, <2>3, <3>1, <3>2, <4>1, <4>3
        <4> QED BY <4>4
      <3> QED BY <3>3, <3>4
    <2>4. CASE ~(v = u /\ n = expires)
      <3>1. CountedAt(f, v, n)' = CountedAt(e, v, n)
        BY <1>5, <1>7, <1>14, <2>4 DEF CountedAt
      <3>2. CASE v = u
        <4>1. limit[u].count <= WriteLimit /\ limit[u].count \in Nat
          BY BoardFacts
        <4>2. Cardinality(CountedAt(e, v, n)) <= WriteLimit
          <5> DEFINE c == Cardinality(CountedAt(e, v, n))
          <5>1. c \in Nat /\ (c <= limit[u].count \/ c <= WriteLimit)
            BY <2>1, <2>2, <3>2
          <5> HIDE DEF c
          <5>2. c <= WriteLimit
            BY <4>1, <5>1, DiscussionsAssumption
          <5> QED BY <5>2 DEF c
        <4> QED BY <1>10, <2>4, <3>1, <3>2, <4>2
      <3>3. CASE v # u
        BY <1>10, <2>2, <3>1, <3>3
      <3> QED BY <3>2, <3>3
    <2> QED BY <2>3, <2>4
  <1>20. Windows(f)'
    BY <1>17, <1>18, <1>19 DEF Windows
  <1> QED BY <1>9, <1>11, <1>20 DEF BoardInv

LEMMA BoardStep ==
    ASSUME DecisionInv, BoardInv, [DiscussionsNext]_discussionVars
    PROVE  BoardInv'
  <1>1. ASSUME NEW u \in Writer, discussing(u) PROVE BoardInv'
    <2>1. CASE writePost(u)
      BY <2>1, WriteStep
    <2>2. CASE likeCommit(u) \/ reportCommit(u) \/ refuse(u)
      BY <2>2, CommitSteps
    <2>3. CASE \/ \E p \in Problem : create(u, p)
               \/ \E q \in Post :
                   reply(u, q) \/ report(u, q) \/ (\E liked \in BOOLEAN : like(u, q, liked))
      BY <2>3, ReadingSteps
    <2> QED BY <1>1, <2>1, <2>2, <2>3 DEF discussing
  <1> QED BY <1>1, ModerationSteps DEF DiscussionsNext

LEMMA TwoParts ==
    ASSUME NEW S, NEW A, NEW B, IsFiniteSet(A), IsFiniteSet(B), S \subseteq A \cup B,
           NEW n \in Nat, Cardinality(A) <= n, Cardinality(B) <= n
    PROVE  Cardinality(S) <= 2 * n
  <1>1. /\ IsFiniteSet(A \cup B)
        /\ Cardinality(A \cup B) = Cardinality(A) + Cardinality(B) - Cardinality(A \cap B)
    BY FS_Union
  <1>2. /\ Cardinality(A) \in Nat /\ Cardinality(B) \in Nat
        /\ Cardinality(A \cap B) \in Nat /\ Cardinality(A \cup B) \in Nat
    <2>1. IsFiniteSet(A \cap B)
      BY FS_Intersection
    <2> QED BY <1>1, <2>1, FS_CardinalityType
  <1>3. IsFiniteSet(S) /\ Cardinality(S) <= Cardinality(A \cup B) /\ Cardinality(S) \in Nat
    <2>1. IsFiniteSet(S) /\ Cardinality(S) <= Cardinality(A \cup B)
      BY <1>1, FS_Subset
    <2> QED BY <2>1, FS_CardinalityType
  <1> QED BY <1>1, <1>2, <1>3

\* Posts that were committed in so short a time were counted in two windows at most: the
\* first and the third of three windows are further apart.
LEMMA QuotaOfWindows == BoardInv => WriteQuota
  <1> SUFFICES ASSUME BoardInv, NEW q \in Post, Posted(q)
               PROVE  Cardinality({x \in Post :
                         /\ Posted(x) /\ posts[x].author = posts[q].author
                         /\ written[x] \in written[q]..written[q] + Window - TxTimeout - 1})
                      <= 2 * WriteLimit
    BY DEF WriteQuota
  <1> DEFINE w == written[q]
             S == {x \in Post : /\ Posted(x) /\ posts[x].author = posts[q].author
                                /\ written[x] \in w..w + Window - TxTimeout - 1}
  <1>1. PICK e \in [Post -> Nat] : Windows(e)
    BY DEF BoardInv
  <1>2. PICK u \in Writer : u = posts[q].author
    BY DEF BoardInv, Board, Posted, PostRow
  <1>3. /\ w \in Nat
        /\ \A x \in S : /\ x \in Post /\ Posted(x) /\ posts[x].author = u
                        /\ written[x] \in Nat /\ e[x] \in Nat
                        /\ w <= written[x] /\ written[x] <= w + Window - TxTimeout - 1
    <2>1. w \in Nat /\ \A x \in Post : written[x] \in Nat /\ e[x] \in Nat
      BY BoardFacts
    <2>2. \A x \in S : /\ x \in Post /\ Posted(x) /\ posts[x].author = u
                       /\ written[x] \in w..w + Window - TxTimeout - 1
      BY <1>2
    <2> HIDE DEF w, S
    <2>3. \A n \in Nat : n \in w..w + Window - TxTimeout - 1 =>
            w <= n /\ n <= w + Window - TxTimeout - 1
      BY <2>1, DiscussionsAssumption
    <2> QED BY <2>1, <2>2, <2>3
  <1> HIDE DEF w, S
  <1>4. ASSUME NEW x \in S
        PROVE  e[x] <= written[x] + Window /\ written[x] < e[x] + TxTimeout
    BY <1>1, <1>3 DEF Windows
  <1>5. ASSUME NEW x \in S, NEW y \in S, e[x] < e[y]
        PROVE  e[x] + Window <= e[y]
    BY <1>1, <1>3, <1>5 DEF Windows
  <1>6. ASSUME NEW x \in S, NEW y \in S, NEW z \in S, e[x] < e[y], e[y] < e[z]
        PROVE  FALSE
    <2>1. e[x] + Window <= e[y] /\ e[y] + Window <= e[z]
      BY <1>5, <1>6
    <2>2. e[z] <= written[z] + Window /\ written[x] < e[x] + TxTimeout
      BY <1>4
    <2>3. /\ written[z] <= w + Window - TxTimeout - 1 /\ w <= written[x] /\ w \in Nat
          /\ {e[x], e[y], e[z], written[x], written[z]} \subseteq Nat
      BY <1>3
    <2> QED BY <2>1, <2>2, <2>3, DiscussionsAssumption
  <1>7. \E a, b \in Nat : \A x \in S : e[x] = a \/ e[x] = b
    <2>1. CASE \E x, y \in S : e[x] < e[y]
      <3>1. PICK x \in S, y \in S : e[x] < e[y]
        BY <2>1
      <3>2. ASSUME NEW z \in S PROVE e[z] = e[x] \/ e[z] = e[y]
        BY <1>3, <1>6, <3>1
      <3> QED BY <1>3, <3>2
    <2>2. CASE ~\E x, y \in S : e[x] < e[y]
      <3>1. \A x, y \in S : e[x] = e[y]
        BY <1>3, <2>2
      <3>2. CASE S = {}
        BY <3>2
      <3>3. CASE S # {}
        BY <1>3, <3>1, <3>3
      <3> QED BY <3>2, <3>3
    <2> QED BY <2>1, <2>2
  <1>8. PICK a \in Nat, b \in Nat : \A x \in S : e[x] = a \/ e[x] = b
    BY <1>7
  <1>9. S \subseteq CountedAt(e, u, a) \cup CountedAt(e, u, b)
    BY <1>3, <1>8 DEF CountedAt
  <1>10. ASSUME NEW n \in Nat
         PROVE  /\ IsFiniteSet(CountedAt(e, u, n)) /\ Cardinality(CountedAt(e, u, n)) <= WriteLimit
    <2>1. IsFiniteSet(CountedAt(e, u, n)) /\ Cardinality(CountedAt(e, u, n)) \in Nat
      <3>1. CountedAt(e, u, n) \subseteq {x \in Post : Posted(x)}
        BY DEF CountedAt
      <3>2. IsFiniteSet({x \in Post : Posted(x)})
        BY DEF BoardInv, Board
      <3> QED BY <3>1, <3>2, FS_Subset, FS_CardinalityType
    <2>2. Cardinality(CountedAt(e, u, n)) <=
            IF n = limit[u].expiresAt THEN limit[u].count ELSE WriteLimit
      BY <1>1 DEF Windows
    <2>3. limit[u].count <= WriteLimit /\ limit[u].count \in Nat
      BY BoardFacts
    <2> QED BY <2>1, <2>2, <2>3, DiscussionsAssumption
  <1>11. Cardinality(S) <= 2 * WriteLimit
    BY <1>9, <1>10, TwoParts, DiscussionsAssumption
  <1> QED BY <1>11 DEF S, w

\* consumeWriteQuota counts in windows of the row's own, by the start of a transaction
\* that may commit later; whatever the limit, the window and the delay of transactions,
\* nobody has more than two windows' worth of posts committed in a time that is shorter
\* than a window by that delay.
THEOREM WriteQuotaTheorem == DiscussionsSpec => []WriteQuota
  BY InitiallyDecided, EveryStep, BoardInit, BoardStep, QuotaOfWindows, PTL DEF DiscussionsSpec
=============================================================================
