------------------------- MODULE ExecutionLifecycle -------------------------
(***************************************************************************)
(* What PostgreSQL lets anybody do to the Execution table: the trigger     *)
(* protect_execution_lifecycle and the CHECK constraints on the row.  A    *)
(* statement outside this specification raises an exception and rolls its  *)
(* transaction back.  JobStore implements it: none of its operations is    *)
(* ever refused by the database.                                           *)
(***************************************************************************)
EXTENDS Integers

CONSTANTS Exec, None
VARIABLES now, row

Finished == {"FINISHED", "CANCELLED", "INTERNAL_ERROR"}
Leased == {"COMPILING", "RUNNING"}

-----------------------------------------------------------------------------
(* The CHECK constraints, on one row *)

valid_execution_terminal_fields(r) ==
    \/ /\ r.state \in {"QUEUED"} \cup Leased
       /\ r.verdict = None /\ r.failureCode = None
    \/ /\ r.state = "FINISHED" /\ r.failureCode = None
       /\ r.verdict \notin {None, "CANCELLED", "INTERNAL_ERROR"}
    \/ r.state = "CANCELLED" /\ r.verdict = "CANCELLED" /\ r.failureCode = None
    \/ r.state = "INTERNAL_ERROR" /\ r.verdict = "INTERNAL_ERROR"

valid_execution_counters(r) == r.attempt >= 0 /\ r.lastSequence >= 0

valid_execution_lease_pair(r) ==
    \/ r.leaseToken = None /\ r.leaseExpiresAt = None
    \/ r.leaseToken # None /\ r.leaseExpiresAt # None /\ r.state \in Leased

Checked(r) ==
    /\ valid_execution_terminal_fields(r)
    /\ valid_execution_counters(r)
    /\ valid_execution_lease_pair(r)

-----------------------------------------------------------------------------
(* The trigger: what it demands of an UPDATE from old to new *)

\* The authority of old has expired and new is the next attempt.
Takeover(old, new) ==
    /\ old.leaseExpiresAt # None /\ old.leaseExpiresAt <= now
    /\ new.attempt = old.attempt + 1 /\ new.leaseToken # old.leaseToken

RequestImmutable(old, new) ==
    new.mode = old.mode /\ new.queueExpiresAt = old.queueExpiresAt

CancellationImmutable(old, new) ==
    old.cancellationRequestedAt # None =>
        new.cancellationRequestedAt = old.cancellationRequestedAt

LeaseReplacement(old, new) ==
    /\ old.leaseToken # None /\ new.leaseToken # None
    /\ <<new.leaseToken, new.attempt>> # <<old.leaseToken, old.attempt>>
    => old.state \in Leased /\ new.state = "COMPILING" /\ Takeover(old, new)

TerminalImmutable(old, new) == old.state \in Finished => new = old

StateGraph(old, new) ==
    \/ new.state = old.state
    \/ old.state = "QUEUED" /\ new.state \in {"COMPILING", "CANCELLED", "INTERNAL_ERROR"}
    \/ old.state = "COMPILING" /\ new.state \in {"RUNNING"} \cup Finished
    \/ old.state = "RUNNING" /\ new.state \in Finished
    \/ old.state = "RUNNING" /\ new.state = "COMPILING" /\ Takeover(old, new)

NoRegress(old, new) ==
    \/ new.attempt > old.attempt
    \/ new.attempt = old.attempt /\ new.lastSequence >= old.lastSequence

QueueTimeoutFromQueue(old, new) ==
    new.failureCode = "QUEUE_TIMEOUT" =>
        old.state = "QUEUED" /\ new.state = "INTERNAL_ERROR"

-----------------------------------------------------------------------------
Insert(e) ==
    row[e].state = "ABSENT" /\ row'[e].state = "QUEUED" /\ Checked(row'[e])

Update(e) ==
    /\ row[e].state # "ABSENT"
    /\ RequestImmutable(row[e], row'[e])
    /\ CancellationImmutable(row[e], row'[e])
    /\ LeaseReplacement(row[e], row'[e])
    /\ TerminalImmutable(row[e], row'[e])
    /\ StateGraph(row[e], row'[e])
    /\ NoRegress(row[e], row'[e])
    /\ QueueTimeoutFromQueue(row[e], row'[e])
    /\ Checked(row'[e])

Init == \A e \in Exec : row[e].state = "ABSENT"

\* One transaction may write several rows, each at most once.
Next == \A e \in Exec : row'[e] = row[e] \/ Insert(e) \/ Update(e)

Spec == Init /\ [][Next]_<<now, row>>
=============================================================================
