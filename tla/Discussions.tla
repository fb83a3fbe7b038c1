---------------------------- MODULE Discussions ----------------------------
(***************************************************************************)
(* Problem discussions and their moderation: the Discussions service, the  *)
(* moderation part of Admin, and the tables behind them.  A writer's       *)
(* handler reads in one step and writes in the transaction of a later one. *)
(* A moderator's transaction takes the row locks of its reports one after  *)
(* the other.                                                              *)
(*                                                                         *)
(* Posts and reports are never deleted: their foreign keys cascade from    *)
(* problems and users, no code deletes a user, and a problem that was ever *)
(* published, the only kind that has posts, cannot be deleted (Catalog).   *)
(***************************************************************************)
EXTENDS Naturals, FiniteSets

CONSTANTS
    Writer, Moderator, Problem,
    Post, Report,    \* identifiers, initial segments of the positive integers
    Nobody,
    WriteLimit,      \* posts of one user in a window (10)
    Window,          \* its length (1 minute)
    TxTimeout,       \* how long an interactive transaction may live (5 s)
    MaxRequests,     \* bound: requests that are handled at the same time
    MaxTime          \* bound: the last instant

ASSUME DiscussionsAssumption ==
    /\ Post \subseteq Nat \ {0} /\ Report \subseteq Nat \ {0}
    /\ Nobody \notin Writer \cup Moderator \cup Post
    /\ WriteLimit \in Nat \ {0} /\ Window \in Nat \ {0}
    /\ TxTimeout \in Nat /\ MaxRequests \in Nat /\ MaxTime \in Nat

VARIABLES
    clock,        \* PostgreSQL's clock
    published,    \* the problems whose current version is published
    posts,        \* DiscussionPost
    likes,        \* DiscussionLike
    limit,        \* DiscussionRateLimit
    reports,      \* ContentReport
    lockedBy,     \* the transaction that holds each report's row lock
    audit,        \* AuditEvent: the CONTENT_REPORT_ events of each report
    asked,        \* each user's request, between its read and its transaction
    deciding,     \* each moderator's transaction of resolveReportsAtomic
    written       \* history: when each post was committed

discussionVars == <<clock, published, posts, likes, limit, reports, lockedBy, audit,
                    asked, deciding, written>>

\* Every query asks for VISIBLE: HIDDEN stands for DELETED too.
PostStatus == {"VISIBLE", "HIDDEN"}
Decision == {"RESOLVED", "DISMISSED"}
NoPost == [status |-> "NONE"]
NoReport == [status |-> "NONE"]
NoRequest == [op |-> "idle"]

-----------------------------------------------------------------------------
(* The handlers of Discussions *)

Posted(q) == posts[q] # NoPost

\* The post is served: visible, on a published problem.
Served(q) == Posted(q) /\ posts[q].status = "VISIBLE" /\ posts[q].problem \in published

\* The row of a user who has none yet is as good as an expired one.
Spent(u, start) == IF limit[u].expiresAt <= start THEN 0 ELSE limit[u].count

\* A window that is never renewed.
QuotaWithoutRenewal(u, start) ==
    /\ Spent(u, start) < WriteLimit
    /\ limit' = [limit EXCEPT ![u] =
        [count |-> Spent(u, start) + 1,
         expiresAt |-> IF limit[u].expiresAt = 0 THEN start + Window ELSE limit[u].expiresAt]]

\* CURRENT_TIMESTAMP is the start of the transaction, and a refusal rolls it back.
consumeWriteQuota(u, start) ==
    /\ Spent(u, start) < WriteLimit
    /\ limit' = [limit EXCEPT ![u] =
        [count |-> Spent(u, start) + 1,
         expiresAt |-> IF limit[u].expiresAt <= start THEN start + Window
                       ELSE limit[u].expiresAt]]

InProgress == {u \in Writer : asked[u] # NoRequest} \cup {m \in Moderator : deciding[m] # NoRequest}

Ask(u, request) ==
    /\ asked[u] = NoRequest /\ Cardinality(InProgress) < MaxRequests
    /\ asked' = [asked EXCEPT ![u] = request]
    /\ UNCHANGED <<clock, published, posts, likes, limit, reports, lockedBy, audit,
                   deciding, written>>

Answer(u) == asked' = [asked EXCEPT ![u] = NoRequest]

create(u, p) ==
    /\ p \in published
    /\ Ask(u, [op |-> "create", problem |-> p, parent |-> Nobody, readAt |-> clock])

reply(u, q) ==
    /\ Served(q) /\ posts[q].parent = Nobody
    /\ Ask(u, [op |-> "reply", problem |-> posts[q].problem, parent |-> q, readAt |-> clock])

\* The transaction of create and of reply.  It started after the read and has not
\* timed out.  The trigger and the foreign key find the parent that was read.
writePost(u) ==
    /\ asked[u].op \in {"create", "reply"}
    /\ \E start \in asked[u].readAt..clock :
        /\ clock - start <= TxTimeout
        /\ consumeWriteQuota(u, start)
    /\ \E q \in Post :
        /\ ~Posted(q) /\ \A x \in Post : x < q => Posted(x)
        /\ posts' = [posts EXCEPT ![q] =
            [problem |-> asked[u].problem, author |-> u, parent |-> asked[u].parent,
             status |-> "VISIBLE"]]
        /\ written' = [written EXCEPT ![q] = clock]
    /\ Answer(u)
    /\ UNCHANGED <<clock, published, likes, reports, lockedBy, audit, deciding>>

like(u, q, liked) ==
    /\ Served(q)
    /\ Ask(u, [op |-> "like", post |-> q, liked |-> liked])

likeCommit(u) ==
    /\ asked[u].op = "like"
    /\ likes' = IF asked[u].liked THEN likes \cup {<<asked[u].post, u>>}
                ELSE likes \ {<<asked[u].post, u>>}
    /\ Answer(u)
    /\ UNCHANGED <<clock, published, posts, limit, reports, lockedBy, audit, deciding, written>>

report(u, q) ==
    /\ Served(q) /\ posts[q].author # u
    /\ Ask(u, [op |-> "report", post |-> q])

Reported(r) == reports[r] # NoReport

\* The index on post and reporter refuses a second report of the same post.
reportCommit(u) ==
    /\ asked[u].op = "report"
    /\ \A r \in Report :
        Reported(r) => <<reports[r].post, reports[r].reporter>> # <<asked[u].post, u>>
    /\ \E r \in Report :
        /\ ~Reported(r)
        /\ reports' = [reports EXCEPT ![r] =
            [post |-> asked[u].post, reporter |-> u, status |-> "PENDING", moderatorId |-> Nobody]]
    /\ Answer(u)
    /\ UNCHANGED <<clock, published, posts, likes, limit, lockedBy, audit, deciding, written>>

\* 429 of the quota, 409 ALREADY_REPORTED, or a fault: the transaction leaves nothing.
refuse(u) ==
    /\ asked[u] # NoRequest
    /\ Answer(u)
    /\ UNCHANGED <<clock, published, posts, likes, limit, reports, lockedBy, audit,
                   deciding, written>>

-----------------------------------------------------------------------------
(* The moderation handlers of Admin *)

\* The post that was read is still there: the handler is its transaction.
moderate(q, status) ==
    /\ Posted(q)
    /\ posts' = [posts EXCEPT ![q] = [@ EXCEPT !.status = status]]
    /\ UNCHANGED <<clock, published, likes, limit, reports, lockedBy, audit, asked,
                   deciding, written>>

\* resolveReport is the case of one id.  An unknown id ends in 404, as a rollback.
resolveReportsAtomic(m, ids, status, postStatus) ==
    /\ deciding[m] = NoRequest /\ Cardinality(InProgress) < MaxRequests
    /\ ids # {} /\ \A r \in ids : Reported(r)
    /\ deciding' = [deciding EXCEPT ![m] =
        [op |-> "locking", ids |-> ids, status |-> status, postStatus |-> postStatus]]
    /\ UNCHANGED <<clock, published, posts, likes, limit, reports, lockedBy, audit, asked, written>>

Missing(m) == {r \in deciding[m].ids : lockedBy[r] # m}

\* The rows in the order the request names them.
AnyMissing(m, r) ==
    deciding[m].op = "locking" /\ r \in Missing(m)

\* ORDER BY id FOR UPDATE: the row the statement is at.
Wants(m, r) ==
    deciding[m].op = "locking" /\ r \in Missing(m) /\ \A s \in Missing(m) : r <= s

\* The rows are read without FOR UPDATE.
ReadRow(m) ==
    /\ \E r \in Report : Wants(m, r) /\ lockedBy' = [lockedBy EXCEPT ![r] = m]
    /\ UNCHANGED <<clock, published, posts, likes, limit, reports, audit, asked, deciding, written>>

lockRow(m) ==
    /\ \E r \in Report :
        /\ Wants(m, r) /\ lockedBy[r] = Nobody
        /\ lockedBy' = [lockedBy EXCEPT ![r] = m]
    /\ UNCHANGED <<clock, published, posts, likes, limit, reports, audit, asked, deciding, written>>

\* findMany after the locks: every report is still pending.
readReports(m) ==
    /\ deciding[m].op = "locking" /\ Missing(m) = {}
    /\ \A r \in deciding[m].ids : reports[r].status = "PENDING"
    /\ deciding' = [deciding EXCEPT ![m] = [@ EXCEPT !.op = "checked"]]
    /\ UNCHANGED <<clock, published, posts, likes, limit, reports, lockedBy, audit, asked, written>>

Freed(m) == [r \in Report |-> IF lockedBy[r] = m THEN Nobody ELSE lockedBy[r]]

\* The two updateMany, the audit events of all ids, and the commit.
decide(m) ==
    /\ deciding[m].op = "checked"
    /\ posts' = [q \in Post |->
        IF deciding[m].postStatus # Nobody /\ \E r \in deciding[m].ids : reports[r].post = q
        THEN [posts[q] EXCEPT !.status = deciding[m].postStatus] ELSE posts[q]]
    /\ reports' = [r \in Report |->
        IF r \in deciding[m].ids /\ reports[r].status = "PENDING"
        THEN [reports[r] EXCEPT !.status = deciding[m].status, !.moderatorId = m]
        ELSE reports[r]]
    /\ audit' = [r \in Report |->
        IF r \in deciding[m].ids THEN audit[r] \cup {<<m, deciding[m].status>>} ELSE audit[r]]
    /\ lockedBy' = Freed(m)
    /\ deciding' = [deciding EXCEPT ![m] = NoRequest]
    /\ UNCHANGED <<clock, published, likes, limit, asked, written>>

\* 409 REPORT_ALREADY_REVIEWED, a time limit, or the victim of a deadlock on the posts.
rollback(m) ==
    /\ deciding[m] # NoRequest
    /\ lockedBy' = Freed(m)
    /\ deciding' = [deciding EXCEPT ![m] = NoRequest]
    /\ UNCHANGED <<clock, published, posts, likes, limit, reports, audit, asked, written>>

-----------------------------------------------------------------------------
(* The specification *)

\* setProblemPublication, as far as the discussions see it.
setProblemPublication(p) ==
    /\ published' = IF p \in published THEN published \ {p} ELSE published \cup {p}
    /\ UNCHANGED <<clock, posts, likes, limit, reports, lockedBy, audit, asked, deciding, written>>

Advance ==
    /\ clock < MaxTime
    /\ clock' = clock + 1
    /\ UNCHANGED <<published, posts, likes, limit, reports, lockedBy, audit, asked,
                   deciding, written>>

DiscussionsInit ==
    /\ clock = 0
    /\ published = Problem
    /\ posts = [q \in Post |-> NoPost]
    /\ likes = {}
    /\ limit = [u \in Writer |-> [count |-> 0, expiresAt |-> 0]]
    /\ reports = [r \in Report |-> NoReport]
    /\ lockedBy = [r \in Report |-> Nobody]
    /\ audit = [r \in Report |-> {}]
    /\ asked = [u \in Writer |-> NoRequest]
    /\ deciding = [m \in Moderator |-> NoRequest]
    /\ written = [q \in Post |-> 0]

discussing(u) ==
    \/ \E p \in Problem : create(u, p)
    \/ \E q \in Post :
        reply(u, q) \/ report(u, q) \/ (\E liked \in BOOLEAN : like(u, q, liked))
    \/ writePost(u) \/ likeCommit(u) \/ reportCommit(u) \/ refuse(u)

moderating(m) ==
    \/ \E ids \in SUBSET Report, status \in Decision, postStatus \in PostStatus \cup {Nobody} :
        resolveReportsAtomic(m, ids, status, postStatus)
    \/ lockRow(m) \/ readReports(m) \/ decide(m) \/ rollback(m)

DiscussionsNext ==
    \/ \E u \in Writer : discussing(u)
    \/ \E m \in Moderator : moderating(m)
    \/ \E q \in Post, status \in PostStatus : moderate(q, status)
    \/ \E p \in Problem : setProblemPublication(p)
    \/ Advance

DiscussionsSpec == DiscussionsInit /\ [][DiscussionsNext]_discussionVars

-----------------------------------------------------------------------------
(* Properties *)

\* The moderators' decisions agree with their evidence: however decisions on
\* overlapping sets of reports race, a report has one audited decision when it is
\* decided and none before, and that decision is the one in its row.
DecisionOnce ==
    \A r \in Report : Reported(r) =>
        audit[r] = IF reports[r].status = "PENDING" THEN {}
                   ELSE {<<reports[r].moderatorId, reports[r].status>>}

\* Decisions never deadlock on reports: a moderator who waits for a report waits for
\* one who is after a later report, or after none.
WaitsAscend ==
    \A m \in Moderator, r, s \in Report :
        Wants(m, r) /\ lockedBy[r] # Nobody /\ Wants(lockedBy[r], s) => r < s

\* The quota bounds what a user writes in any short time, not only in a window of the
\* counter: two windows' worth, in a window less what a transaction may lag behind.
WriteQuota ==
    \A q \in Post : Posted(q) =>
        Cardinality({x \in Post :
            /\ Posted(x) /\ posts[x].author = posts[q].author
            /\ written[x] \in written[q]..written[q] + Window - TxTimeout - 1}) <= 2 * WriteLimit
=============================================================================
