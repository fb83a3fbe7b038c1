----------------------------- MODULE PublicLog -----------------------------
(***************************************************************************)
(* What the readers of public events may rely on: for each execution the   *)
(* attempt and the last sequence number its row shows, the numbers of the  *)
(* events that are stored, and whether it has ended.  Within an attempt    *)
(* the numbers go up by one, a new attempt begins again at one, stored     *)
(* events may be gone at any time but the newest is stored with the row    *)
(* that shows it, and nothing follows the end.  The abstract specification *)
(* of JobStore's event log.                                                *)
(***************************************************************************)
EXTENDS Integers

CONSTANT Exec    \* execution ids

VARIABLE log

\* No row yet.
NoLog == [attempt |-> 0, last |-> 0, stored |-> {}, ended |-> FALSE]

\* m is l with one more event; storing it may discard older ones.
Appended(l, m) ==
    /\ ~l.ended
    /\ m.attempt = l.attempt /\ m.last = l.last + 1
    /\ m.last \in m.stored /\ m.stored \subseteq l.stored \cup {m.last}

\* Mutant: the numbering starts again within the attempt.
RestartedSame(l, m) ==
    /\ ~l.ended /\ l.last # 0
    /\ m = [attempt |-> l.attempt, last |-> 1, stored |-> {1}, ended |-> FALSE]

\* m is the first event of the next attempt; those of the previous one are deleted.
Restarted(l, m) ==
    /\ ~l.ended /\ l.last # 0
    /\ m = [attempt |-> l.attempt + 1, last |-> 1, stored |-> {1}, ended |-> FALSE]

\* m is l with fewer stored events.
Shrunk(l, m) == m.stored \subseteq l.stored /\ m = [l EXCEPT !.stored = m.stored]

Follows(l, m) == Appended(l, m) \/ Restarted(l, m) \/ Shrunk(l, m)

Init == log = [e \in Exec |-> NoLog]

Next == \A e \in Exec : Follows(log[e], log'[e])

Spec == Init /\ [][Next]_log
=============================================================================
