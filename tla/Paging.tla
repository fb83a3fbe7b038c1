------------------------------- MODULE Paging -------------------------------
(***************************************************************************)
(* The paged lists of the API, and a client that walks one of them page by *)
(* page while rows come and go.  A handler looks its cursor up in one query *)
(* and reads the page in the next one.                                     *)
(***************************************************************************)
EXTENDS Integers, FiniteSets

CONSTANTS
    Instant, Id,    \* creation times and identifiers, sets of integers
    PageSize,       \* 20, 30 or 50
    NoCursor

ASSUME PagingAssumption ==
    /\ Instant \subseteq Int /\ Id \subseteq Int
    /\ PageSize \in Nat \ {0}
    /\ NoCursor \notin Instant \X Id

Key == Instant \X Id
Handler == {"list", "replies", "leaderboard", "moderation", "users",
            "submissions", "history", "notifications"}

VARIABLES
    shown,    \* the rows that satisfy the handler's filter
    walk      \* the client's walk

pagingVars == <<shown, walk>>

NoWalk == [handler |-> "none"]

\* createdAt and then id: rows of one instant are told apart by their id.
Precedes(a, b) == a[1] < b[1] \/ (a[1] = b[1] /\ a[2] < b[2])

\* The order of handler h: replies read upwards, the others downwards.  The ranks of
\* the leaderboard are taken as settled, and the keys stand for them.
Comes(h, a, b) == IF h = "replies" THEN Precedes(a, b) ELSE Precedes(b, a)

FirstOf(h, rows, n) == {k \in rows : Cardinality({x \in rows : Comes(h, x, k)}) < n}

-----------------------------------------------------------------------------
(* The rows after the cursor, as each handler's query selects them *)

\* A boundary that compares the creation time alone.
BoundaryByTime(h, cursor) ==
    {k \in shown : cursor = NoCursor \/ (Comes(h, cursor, k) /\ k[1] # cursor[1])}

\* Rows strictly after the values of the boundary row, whatever became of it.
pageBoundary(h, cursor) == {k \in shown : cursor = NoCursor \/ Comes(h, cursor, k)}

\* Prisma's cursor starts at the boundary row, and skip: 1 drops the first row found.
listRows(cursor) ==
    LET from == {k \in shown : cursor = NoCursor \/ k = cursor \/ Comes("list", cursor, k)}
    IN  IF cursor = NoCursor THEN from ELSE from \ FirstOf("list", from, 1)

repliesRows(cursor) ==
    LET from == {k \in shown : cursor = NoCursor \/ k = cursor \/ Comes("replies", cursor, k)}
    IN  IF cursor = NoCursor THEN from ELSE from \ FirstOf("replies", from, 1)

\* rank > (SELECT rank ...) selects nothing when the boundary row is gone.
leaderboardRows(cursor) ==
    IF cursor # NoCursor /\ cursor \notin shown THEN {} ELSE pageBoundary("leaderboard", cursor)

moderationRows(cursor) == pageBoundary("moderation", cursor)

usersRows(cursor) == pageBoundary("users", cursor)

submissionsRows(cursor) == pageBoundary("submissions", cursor)

historyRows(cursor) == pageBoundary("history", cursor)

notificationRows(cursor) == pageBoundary("notifications", cursor)

Rows(h, cursor) ==
    CASE h = "list" -> listRows(cursor)
      [] h = "replies" -> repliesRows(cursor)
      [] h = "leaderboard" -> leaderboardRows(cursor)
      [] h = "moderation" -> moderationRows(cursor)
      [] h = "users" -> usersRows(cursor)
      [] h = "submissions" -> submissionsRows(cursor)
      [] h = "history" -> historyRows(cursor)
      [] h = "notifications" -> notificationRows(cursor)

-----------------------------------------------------------------------------
(* The walk *)

\* The client asks for the first page.
open(h) ==
    /\ walk.handler = "none"
    /\ walk' = [handler |-> h, cursor |-> NoCursor, step |-> "check", served |-> {},
                due |-> shown, again |-> FALSE, cut |-> 0]
    /\ UNCHANGED shown

Walking(step) == walk.handler # "none" /\ walk.step = step

\* The query for the cursor applies the filter of the list, except for users.
Found(h, cursor) == cursor = NoCursor \/ cursor \in shown \/ h = "users"

checkCursor ==
    /\ Walking("check")
    /\ Found(walk.handler, walk.cursor)
    /\ walk' = [walk EXCEPT !.step = "read"]
    /\ UNCHANGED shown

\* 400 INVALID_CURSOR: the client has to start again.
invalidCursor ==
    /\ Walking("check")
    /\ ~Found(walk.handler, walk.cursor)
    /\ walk' = NoWalk
    /\ UNCHANGED shown

\* One row more than a page is read; the last one served is the next cursor.
nextCursor(h, rows) ==
    IF Cardinality(rows) > PageSize
    THEN CHOOSE k \in FirstOf(h, rows, PageSize) : k \notin FirstOf(h, rows, PageSize - 1)
    ELSE NoCursor

readPage ==
    /\ Walking("read")
    /\ LET rows == Rows(walk.handler, walk.cursor)
           items == FirstOf(walk.handler, rows, PageSize)
           next == nextCursor(walk.handler, rows)
       IN  walk' = [walk EXCEPT
               !.cursor = next,
               !.step = IF next = NoCursor THEN "end" ELSE "check",
               !.served = @ \cup items,
               !.again = @ \/ items \cap walk.served # {},
               !.cut = IF walk.cursor # NoCursor /\ walk.cursor \notin shown THEN @ + 1 ELSE @]
    /\ UNCHANGED shown

close ==
    /\ Walking("end")
    /\ walk' = NoWalk
    /\ UNCHANGED shown

\* A row is written, or shown again.  Rows that commit late may come anywhere.
appear(k) ==
    /\ k \notin shown
    /\ shown' = shown \cup {k}
    /\ UNCHANGED walk

\* A post is hidden, a report decided, a profile made private, a user restricted.
\* Submissions and notifications stay.
disappear(k) ==
    /\ k \in shown
    /\ walk.handler \notin {"submissions", "history", "notifications"}
    /\ shown' = shown \ {k}
    /\ walk' = IF walk.handler = "none" \/ walk.step = "end" THEN walk
               ELSE [walk EXCEPT !.due = @ \ {k}]

PagingInit ==
    /\ shown = {}
    /\ walk = NoWalk

PagingNext ==
    \/ \E h \in Handler : open(h)
    \/ checkCursor \/ invalidCursor \/ readPage \/ close
    \/ \E k \in Key : appear(k) \/ disappear(k)

PagingSpec == PagingInit /\ [][PagingNext]_pagingVars

-----------------------------------------------------------------------------
(* Properties *)

\* No row is served twice, and a walk that reaches its end has served every row that
\* was there all the time.  The exceptions are the code's: when the boundary row goes
\* between the two queries, list and replies skip one row too many and the
\* leaderboard ends early.  The handlers with pageBoundary have no exception.
WalkComplete ==
    walk.handler # "none" =>
        /\ ~walk.again
        /\ walk.step = "end" =>
            LET missed == walk.due \ walk.served
            IN  CASE walk.handler \in {"list", "replies"} -> Cardinality(missed) <= walk.cut
                  [] walk.handler = "leaderboard" -> missed # {} => walk.cut > 0
                  [] OTHER -> missed = {}
=============================================================================
