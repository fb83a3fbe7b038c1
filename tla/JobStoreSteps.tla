--------------------------- MODULE JobStoreSteps ----------------------------
(***************************************************************************)
(* Type correctness of JobStore, for any number of executions, tokens and  *)
(* attempts and any lengths of leases and deadlines; then every step, seen *)
(* from one execution: the seven ways a row may move, and the three its    *)
(* event log may.  The safety theorems argue about these and no longer     *)
(* about the operations.                                                   *)
(***************************************************************************)
EXTENDS JobStore, FiniteSetTheorems, WellFoundedInduction, TLAPS

-----------------------------------------------------------------------------
(* What the shared operators return *)

\* Pruning only removes: what event keeps was there before.
LEMMA KeptSubset == ASSUME NEW S PROVE Kept(S) \subseteq S
  BY DEF Kept

\* The rows after event are event rows.
LEMMA LoggedType ==
    ASSUME NEW S \in SUBSET Event, NEW r, r.attempt \in Nat, r.lastSequence \in Nat,
           NEW kind \in EventKind, NEW b \in EventBytes
    PROVE  Logged(S, r, kind, b) \in SUBSET Event
<1> DEFINE ev == [attempt |-> r.attempt, sequence |-> r.lastSequence + 1,
                  kind |-> kind, bytes |-> b]
<1>1. ev \in Event
  BY DEF Event
<1>2. S \cup {ev} \subseteq Event
  BY <1>1
<1> QED
  BY <1>2, KeptSubset DEF Logged

\* An ended row is a row.
LEMMA EndedType ==
    ASSUME NEW r \in Row, NEW state \in State, NEW verdict \in Verdict \cup {None},
           NEW code \in FailureCode \cup {None}
    PROVE  Ended(r, state, verdict, code) \in Row
<1> DEFINE n == r.lastSequence + 1
           null == None
<1>1. n \in Nat /\ null \in Token \cup {None} /\ null \in Instant
  BY DEF Row, Instant
<1>2. Ended(r, state, verdict, code)
        = [r EXCEPT !.state = state, !.verdict = verdict, !.failureCode = code,
                    !.lastSequence = n, !.leaseToken = null, !.leaseExpiresAt = null]
  BY DEF Ended
<1> HIDE DEF n, null
<1> QED
  BY <1>1, <1>2, ZenonT(30) DEF Row

\* A new intent is an intent.
LEMMA NewIntentType == ASSUME now \in Nat PROVE NewIntent \in Intent
  BY DEF NewIntent, Intent, Instant

\* A notification is a verdict.
LEMMA NotifyType ==
    ASSUME NEW n \in Verdict \cup {None}, NEW r, NEW v \in Verdict, NEW wants \in BOOLEAN
    PROVE  notifyExecution(n, r, v, wants) \in Verdict \cup {None}
  BY DEF notifyExecution

\* Emit keeps the event table well typed.
LEMMA EmitType ==
    ASSUME TypeOK, NEW e \in Exec, NEW r, r.attempt \in Nat, r.lastSequence \in Nat,
           NEW kind \in EventKind, Emit(e, r, kind)
    PROVE  events' \in [Exec -> SUBSET Event]
<1>1. PICK b \in EventBytes : events' = [events EXCEPT ![e] = Logged(events[e], r, kind, b)]
  BY ZenonT(30) DEF Emit
<1>2. events[e] \in SUBSET Event
  BY DEF TypeOK
<1>3. Logged(events[e], r, kind, b) \in SUBSET Event
  BY <1>2, LoggedType
<1> QED
  BY <1>1, <1>3 DEF TypeOK

\* terminal keeps the tables it writes well typed.
LEMMA TerminalType ==
    ASSUME TypeOK, NEW e \in Exec, NEW state \in {"CANCELLED", "INTERNAL_ERROR"},
           NEW code \in FailureCode \cup {None}, terminal(e, state, code)
    PROVE  /\ row' \in [Exec -> Row]
           /\ events' \in [Exec -> SUBSET Event]
           /\ notification' \in [Exec -> Verdict \cup {None}]
<1>1. row[e] \in Row
  BY DEF TypeOK
<1>2. Ended(row[e], state, state, code) \in Row
  BY <1>1, EndedType DEF State, Verdict, TerminalStates
<1>3. row' \in [Exec -> Row]
  BY <1>2 DEF terminal, TypeOK
<1>4. events' \in [Exec -> SUBSET Event]
  BY <1>1, EmitType DEF terminal, Row, EventKind
<1>5. PICK wants \in BOOLEAN :
        notification' = [notification EXCEPT ![e] =
                            notifyExecution(notification[e], row[e], state, wants)]
  BY ZenonT(30) DEF terminal, Notify
<1>6. notifyExecution(notification[e], row[e], state, wants) \in Verdict \cup {None}
  BY NotifyType, ZenonT(30) DEF TypeOK, Verdict
<1> QED
  BY <1>3, <1>4, <1>5, <1>6 DEF TypeOK

-----------------------------------------------------------------------------
(* Type correctness *)

\* The instants a lease is given are instants.
LEMMA LeaseEndType ==
    ASSUME now \in Nat, NEW r \in Row
    PROVE  /\ deadline(r) \in Nat /\ LeaseEnd(r) \in Nat /\ RenewEnd(r) \in Nat
           /\ LeaseEnd(r) <= now + LeaseMs /\ LeaseEnd(r) <= deadline(r)
           /\ RenewEnd(r) <= LeaseEnd(r)
  BY ConstantsAssumption DEF deadline, LeaseEnd, RenewEnd, Least, Row, Instant

\* A step of Create preserves the types.
LEMMA CreateType == ASSUME TypeOK, NEW e \in Exec, Create(e) PROVE TypeOK'
<1>1. PICK m \in Mode, t \in ApiClock :
        row' = [row EXCEPT ![e] = [NoRow EXCEPT !.state = "QUEUED", !.mode = m,
                                                !.lastSequence = 1,
                                                !.queueExpiresAt = t + QueueTtl]]
  BY ZenonT(30) DEF Create
<1> DEFINE q == t + QueueTtl
           s == "QUEUED"
           n == 1
<1>2. q \in Nat /\ s \in State /\ n \in Nat
  BY ConstantsAssumption DEF ApiClock, TypeOK, State, Unfinished
<1>3. NoRow \in Row
  BY DEF NoRow, Row, State, Mode, Instant
<1>4. row' = [row EXCEPT ![e] = [NoRow EXCEPT !.state = s, !.mode = m, !.lastSequence = n,
                                              !.queueExpiresAt = q]]
  BY <1>1
<1> HIDE DEF q, s, n
<1>5. [NoRow EXCEPT !.state = s, !.mode = m, !.lastSequence = n, !.queueExpiresAt = q] \in Row
  BY <1>2, <1>3, ZenonT(30) DEF Row
<1>6. row' \in [Exec -> Row]
  BY <1>4, <1>5 DEF TypeOK
<1>7. events' \in [Exec -> SUBSET Event]
  BY EmitType DEF Create, TypeOK, Row, EventKind
<1>8. outbox' \in [IntentKey -> Intent \cup {None}]
  BY NewIntentType, ZenonT(30) DEF Create, TypeOK
<1> QED
  BY <1>6, <1>7, <1>8 DEF Create, TypeOK

\* A row after a claim is a row.
LEMMA ClaimedType ==
    ASSUME now \in Nat, NEW r \in Row, NEW token \in Token
    PROVE  Claimed(r, token) \in Row
<1> DEFINE s == "COMPILING"
           a == r.attempt + 1
           n == 1
           x == LeaseEnd(r)
<1>1. s \in State /\ a \in Nat /\ n \in Nat /\ x \in Instant
  BY LeaseEndType DEF Row, State, Unfinished, ActiveStates, Instant
<1>2. Claimed(r, token) = [r EXCEPT !.state = s, !.attempt = a, !.lastSequence = n,
                                    !.leaseToken = token, !.leaseExpiresAt = x]
  BY DEF Claimed
<1> HIDE DEF s, a, n, x
<1> QED
  BY <1>1, <1>2, ZenonT(30) DEF Row

\* The three ways a claim may end preserve the types.
LEMMA ClaimType == ASSUME TypeOK, NEW e \in Exec, claim(e) PROVE TypeOK'
<1>1. CASE ClaimQueueTimeout(e)
  BY <1>1, TerminalType DEF ClaimQueueTimeout, TypeOK, FailureCode
<1>2. CASE ClaimAbandoned(e)
  <2>1. AbandonCode(row[e]) \in FailureCode
    BY DEF AbandonCode, FailureCode
  <2> QED
    BY <1>2, <2>1, TerminalType DEF ClaimAbandoned, TypeOK
<1>3. ASSUME NEW token \in Token, Claim(e, token) PROVE TypeOK'
  <2> DEFINE new == Claimed(row[e], token)
             old == [new EXCEPT !.lastSequence = 0]
  <2>1. row[e] \in Row
    BY DEF TypeOK
  <2>2. new \in Row
    BY <2>1, ClaimedType DEF TypeOK
  <2> HIDE DEF new
  <2>3. row' \in [Exec -> Row]
    BY <1>3, <2>2 DEF Claim, TypeOK, new
  <2>4. PICK b \in EventBytes :
          events' = [events EXCEPT ![e] = Logged({}, old, "execution_status", b)]
    BY <1>3, ZenonT(30) DEF Claim, new
  <2>5. old.attempt \in Nat /\ old.lastSequence \in Nat
    BY <2>2 DEF Row
  <2>6. Logged({}, old, "execution_status", b) \in SUBSET Event
    <3> HIDE DEF old
    <3> QED
      BY <2>5, LoggedType DEF EventKind
  <2>7. events' \in [Exec -> SUBSET Event]
    BY <2>4, <2>6 DEF TypeOK
  <2>8. leases' \subseteq Lease
    BY <1>3, <2>2 DEF Claim, TypeOK, Lease, Row, new
  <2> QED
    BY <1>3, <2>3, <2>7, <2>8 DEF Claim, TypeOK
<1> QED
  BY <1>1, <1>2, <1>3 DEF claim

\* Every operation of a lease holder preserves the types.
LEMMA LeaseHolderType == ASSUME TypeOK, NEW l \in leases, LeaseHolder(l) PROVE TypeOK'
<1> DEFINE e == l.executionId
<1>0. e \in Exec /\ row[e] \in Row
  BY DEF TypeOK, Lease
<1>1. CASE renew(l)
  <2>1. RenewEnd(row[e]) \in Instant
    BY <1>0, LeaseEndType DEF TypeOK, Instant
  <2>2. [row[e] EXCEPT !.leaseExpiresAt = RenewEnd(row[e])] \in Row
    BY <1>0, <2>1 DEF Row
  <2> QED
    BY <1>0, <1>1, <2>2 DEF renew, TypeOK
<1>2. CASE markRunning(l)
  <2> DEFINE s == "RUNNING"
             n == row[e].lastSequence + 1
  <2>1. s \in State /\ n \in Nat
    BY <1>0 DEF Row, State, Unfinished, ActiveStates
  <2>2. row' = [row EXCEPT ![e] = [row[e] EXCEPT !.state = s, !.lastSequence = n]]
    BY <1>2 DEF markRunning
  <2> HIDE DEF s, n
  <2>3. [row[e] EXCEPT !.state = s, !.lastSequence = n] \in Row
    BY <1>0, <2>1, ZenonT(30) DEF Row
  <2>4. row' \in [Exec -> Row]
    BY <1>0, <2>2, <2>3 DEF TypeOK
  <2>5. events' \in [Exec -> SUBSET Event]
    BY <1>0, <1>2, EmitType DEF markRunning, Row, EventKind
  <2> QED
    BY <1>2, <2>4, <2>5 DEF markRunning, TypeOK
<1>3. CASE console(l)
  <2> DEFINE n == row[e].lastSequence + 1
  <2>1. n \in Nat
    BY <1>0 DEF Row
  <2>2. row' = [row EXCEPT ![e] = [row[e] EXCEPT !.lastSequence = n]]
    BY <1>3 DEF console
  <2> HIDE DEF n
  <2>3. [row[e] EXCEPT !.lastSequence = n] \in Row
    BY <1>0, <2>1 DEF Row
  <2>4. row' \in [Exec -> Row]
    BY <1>0, <2>2, <2>3 DEF TypeOK
  <2>5. events' \in [Exec -> SUBSET Event]
    BY <1>0, <1>3, EmitType DEF console, Row, EventKind
  <2> QED
    BY <1>3, <2>4, <2>5 DEF console, TypeOK
<1>4. ASSUME NEW verdict \in Judgement, finish(l, verdict) PROVE TypeOK'
  <2>1. CASE terminal(e, "CANCELLED", None)
    BY <1>0, <1>4, <2>1, TerminalType DEF finish, TypeOK
  <2>2. CASE /\ row' = [row EXCEPT ![e] = Ended(row[e], "FINISHED", verdict, None)]
             /\ Emit(e, row[e], "final_verdict")
             /\ Notify(e, verdict)
    <3>1. Ended(row[e], "FINISHED", verdict, None) \in Row
      BY <1>0, EndedType, ZenonT(30) DEF State, TerminalStates, Verdict
    <3>2. row' \in [Exec -> Row]
      BY <1>0, <2>2, <3>1 DEF TypeOK
    <3>3. events' \in [Exec -> SUBSET Event]
      BY <1>0, <2>2, EmitType DEF Row, EventKind
    <3>4. PICK wants \in BOOLEAN :
            notification' = [notification EXCEPT ![e] =
                                notifyExecution(notification[e], row[e], verdict, wants)]
      BY <2>2, ZenonT(30) DEF Notify
    <3>5. notifyExecution(notification[e], row[e], verdict, wants) \in Verdict \cup {None}
      BY <1>0, NotifyType, ZenonT(30) DEF TypeOK, Verdict
    <3>6. notification' \in [Exec -> Verdict \cup {None}]
      BY <1>0, <3>4, <3>5 DEF TypeOK
    <3> QED
      BY <1>4, <3>2, <3>3, <3>6 DEF finish, TypeOK
  <2> QED
    BY <1>4, <2>1, <2>2, ZenonT(30) DEF finish
<1>5. ASSUME NEW cleanupConfirmed \in BOOLEAN, fail(l, cleanupConfirmed) PROVE TypeOK'
  <2>1. PICK state \in {"CANCELLED", "INTERNAL_ERROR"}, code \in FailureCode \cup {None} :
          terminal(e, state, code)
    BY <1>5 DEF fail, FailureCode
  <2> QED
    BY <1>0, <1>5, <2>1, TerminalType DEF fail, TypeOK
<1>6. CASE recover(l)
  <2>1. CASE \/ terminal(e, "CANCELLED", None) /\ UNCHANGED outbox
             \/ terminal(e, "INTERNAL_ERROR", "JOB_FAILURE") /\ UNCHANGED outbox
    BY <1>0, <1>6, <2>1, TerminalType, ZenonT(30) DEF recover, TypeOK, FailureCode
  <2>2. CASE /\ row' = [row EXCEPT ![e].leaseExpiresAt = now]
             /\ outbox' = [outbox EXCEPT ![Key(e, "EXECUTION_RECOVERY", row[e].attempt)]
                                            = NewIntent]
             /\ UNCHANGED <<events, notification>>
    <3>1. [row[e] EXCEPT !.leaseExpiresAt = now] \in Row
      BY <1>0, ZenonT(30) DEF Row, TypeOK, Instant
    <3>2. row' \in [Exec -> Row]
      BY <1>0, <2>2, <3>1 DEF TypeOK
    <3>3. outbox' \in [IntentKey -> Intent \cup {None}]
      BY <2>2, NewIntentType, ZenonT(30) DEF TypeOK
    <3> QED
      BY <1>6, <2>2, <3>2, <3>3, ZenonT(30) DEF recover, TypeOK
  <2> QED
    BY <1>6, <2>1, <2>2, ZenonT(30) DEF recover
<1> QED
  BY <1>1, <1>2, <1>3, <1>4, <1>5, <1>6 DEF LeaseHolder

\* Cancellation preserves the types.
LEMMA CancelType ==
    ASSUME TypeOK, NEW e \in Exec, CancelQueued(e) \/ CancelActive(e)
    PROVE  TypeOK'
<1>1. CASE CancelQueued(e)
  <2>1. outbox' \in [IntentKey -> Intent \cup {None}]
    BY <1>1, NewIntentType, ZenonT(30) DEF CancelQueued, TypeOK
  <2> QED
    BY <1>1, <2>1, TerminalType DEF CancelQueued, TypeOK
<1>2. CASE CancelActive(e)
  <2> DEFINE n == row[e].lastSequence + 1
             x == now
  <2>0. row[e] \in Row
    BY DEF TypeOK
  <2>1. x \in Instant /\ n \in Nat
    BY <2>0 DEF Row, TypeOK, Instant
  <2>2. row' = [row EXCEPT ![e] = [row[e] EXCEPT !.cancellationRequestedAt = x,
                                                 !.lastSequence = n]]
    BY <1>2 DEF CancelActive
  <2> HIDE DEF x, n
  <2>3. [row[e] EXCEPT !.cancellationRequestedAt = x, !.lastSequence = n] \in Row
    BY <2>0, <2>1, ZenonT(30) DEF Row
  <2>4. row' \in [Exec -> Row]
    BY <2>2, <2>3 DEF TypeOK
  <2>5. events' \in [Exec -> SUBSET Event]
    BY <1>2, <2>0, EmitType, ZenonT(30) DEF CancelActive, Row, EventKind
  <2> QED
    BY <1>2, <2>4, <2>5 DEF CancelActive, TypeOK
<1> QED
  BY <1>1, <1>2

\* Maintenance preserves the types.
LEMMA MaintenanceType == ASSUME TypeOK, Maintenance({}) PROVE TypeOK'
<1>1. PICK batch \in SUBSET {e \in Exec : Due(row[e])},
           again \in SUBSET {k \in IntentKey : Reofferable(k, row[k.executionId])},
           gone \in SUBSET Stored : maintain(batch, again, gone)
  BY DEF Maintenance
<1> DEFINE ended == {e \in batch : Abandoned(row[e])}
           offered == {Key(e, "EXECUTION_RECOVERY", row[e].attempt) : e \in batch \ ended}
<1>2. \A e \in Exec : /\ AbandonCode(row[e]) \in FailureCode
                      /\ row[e] \in Row
                      /\ events[e] \in SUBSET Event
  BY DEF AbandonCode, FailureCode, TypeOK
<1>3. row' \in [Exec -> Row]
  <2>1. \A e \in Exec :
          Ended(row[e], "INTERNAL_ERROR", "INTERNAL_ERROR", AbandonCode(row[e])) \in Row
    BY <1>2, EndedType, ZenonT(30) DEF State, TerminalStates, Verdict
  <2> QED
    BY <1>1, <1>2, <2>1 DEF maintain
<1>4. events' \in [Exec -> SUBSET Event]
  <2>1. PICK b \in [Exec -> EventBytes] :
          events' = [e \in Exec |->
            (IF e \in ended THEN Logged(events[e], row[e], "final_verdict", b[e])
                            ELSE events[e]) \ {ev \in events[e] : <<e, ev>> \in gone}]
    BY <1>1 DEF maintain
  <2>2. \A e \in Exec : Logged(events[e], row[e], "final_verdict", b[e]) \in SUBSET Event
    BY <1>2, LoggedType, ZenonT(30) DEF Row, EventKind
  <2> QED
    BY <1>2, <2>1, <2>2
<1>5. notification' \in [Exec -> Verdict \cup {None}]
  <2>1. PICK wants \in [Exec -> BOOLEAN] :
          notification' = [e \in Exec |->
            IF e \in ended
            THEN notifyExecution(notification[e], row[e], "INTERNAL_ERROR", wants[e])
            ELSE notification[e]]
    BY <1>1 DEF maintain
  <2>2. \A e \in Exec :
          notifyExecution(notification[e], row[e], "INTERNAL_ERROR", wants[e])
            \in Verdict \cup {None}
    BY NotifyType, ZenonT(30) DEF TypeOK, Verdict
  <2> QED
    BY <2>1, <2>2 DEF TypeOK
<1>6. outbox' \in [IntentKey -> Intent \cup {None}]
  <2>1. outbox' = [k \in IntentKey |->
          IF k \in offered /\ outbox[k] = None THEN NewIntent
          ELSE IF k \in again THEN [outbox[k] EXCEPT !.publishedAt = None]
          ELSE outbox[k]]
    BY <1>1 DEF maintain
  <2>2. ASSUME NEW k \in again PROVE [outbox[k] EXCEPT !.publishedAt = None] \in Intent
    <3>1. outbox[k] \in Intent
      BY DEF Reofferable, TypeOK
    <3> QED
      BY <3>1 DEF Intent, Instant
  <2> QED
    BY <2>1, <2>2, NewIntentType DEF TypeOK
<1> QED
  BY <1>1, <1>3, <1>4, <1>5, <1>6, ZenonT(30) DEF maintain, TypeOK

\* The expiry of queued rows preserves the types.
LEMMA QueueExpiryType == ASSUME TypeOK, QueueExpiry({}) PROVE TypeOK'
<1>1. PICK batch \in SUBSET {e \in Exec : QueueExpired(row[e])} : expireQueuedJobs(batch)
  BY DEF QueueExpiry
<1>2. \A e \in Exec : row[e] \in Row /\ events[e] \in SUBSET Event
  BY DEF TypeOK
<1>3. row' \in [Exec -> Row]
  <2>1. \A e \in Exec :
          Ended(row[e], "INTERNAL_ERROR", "INTERNAL_ERROR", "QUEUE_TIMEOUT") \in Row
    BY <1>2, EndedType DEF State, TerminalStates, Verdict, FailureCode
  <2> QED
    BY <1>1, <1>2, <2>1 DEF expireQueuedJobs
<1>4. events' \in [Exec -> SUBSET Event]
  <2>1. PICK b \in [Exec -> EventBytes] :
          events' = [e \in Exec |->
            IF e \in batch THEN Logged(events[e], row[e], "final_verdict", b[e])
                           ELSE events[e]]
    BY <1>1 DEF expireQueuedJobs
  <2>2. \A e \in Exec : Logged(events[e], row[e], "final_verdict", b[e]) \in SUBSET Event
    BY <1>2, LoggedType, ZenonT(30) DEF Row, EventKind
  <2> QED
    BY <1>2, <2>1, <2>2, ZenonT(30)
<1>5. outbox' \in [IntentKey -> Intent \cup {None}]
  BY <1>1, NewIntentType DEF expireQueuedJobs, TypeOK
<1> QED
  BY <1>1, <1>3, <1>4, <1>5 DEF expireQueuedJobs, TypeOK

\* The dispatcher's statements preserve the types.
LEMMA DispatcherType == ASSUME TypeOK, Dispatcher PROVE TypeOK'
<1>1. PICK token \in DispatchToken :
        \/ \E batch \in SUBSET {k \in IntentKey : Dispatchable(outbox[k])} :
            dispatchClaim(batch, token)
        \/ \E k \in IntentKey : dispatchAck(k, token) \/ dispatchRetry(k, token)
  BY DEF Dispatcher
<1>2. ASSUME NEW batch \in SUBSET {k \in IntentKey : Dispatchable(outbox[k])},
             dispatchClaim(batch, token)
      PROVE  TypeOK'
  <2> DEFINE x == now + DispatchMs
  <2>1. x \in Instant
    BY ConstantsAssumption DEF TypeOK, Instant
  <2>2. outbox' = [k \in IntentKey |->
          IF k \in batch
          THEN [outbox[k] EXCEPT !.dispatchToken = token, !.dispatchExpiresAt = x]
          ELSE outbox[k]]
    BY <1>2, ZenonT(30) DEF dispatchClaim
  <2> HIDE DEF x
  <2>3. ASSUME NEW k \in batch
        PROVE  [outbox[k] EXCEPT !.dispatchToken = token, !.dispatchExpiresAt = x] \in Intent
    <3>1. outbox[k] \in Intent
      BY DEF Dispatchable, TypeOK
    <3> QED
      BY <2>1, <3>1, ZenonT(30) DEF Intent
  <2>4. outbox' \in [IntentKey -> Intent \cup {None}]
    BY <2>2, <2>3, ZenonT(30) DEF TypeOK
  <2> QED
    BY <1>2, <2>4, ZenonT(30) DEF dispatchClaim, TypeOK
<1>3. ASSUME NEW k \in IntentKey, dispatchAck(k, token) PROVE TypeOK'
  <2> DEFINE x == now
             y == None
  <2>1. x \in Instant /\ y \in Instant /\ y \in DispatchToken \cup {None}
    BY DEF TypeOK, Instant
  <2>2. outbox[k] \in Intent
    BY <1>3 DEF dispatchAck, Dispatching, TypeOK
  <2>3. outbox' = [outbox EXCEPT ![k] = [outbox[k] EXCEPT !.publishedAt = x,
                                            !.dispatchToken = y, !.dispatchExpiresAt = y]]
    BY <1>3 DEF dispatchAck
  <2> HIDE DEF x, y
  <2>4. [outbox[k] EXCEPT !.publishedAt = x, !.dispatchToken = y, !.dispatchExpiresAt = y]
          \in Intent
    BY <2>1, <2>2, ZenonT(30) DEF Intent
  <2>5. outbox' \in [IntentKey -> Intent \cup {None}]
    BY <2>3, <2>4 DEF TypeOK
  <2> QED
    BY <1>3, <2>5 DEF dispatchAck, TypeOK
<1>4. ASSUME NEW k \in IntentKey, dispatchRetry(k, token) PROVE TypeOK'
  <2>1. PICK t \in ApiClock, d \in Backoff :
          outbox' = [outbox EXCEPT ![k] = [outbox[k] EXCEPT !.dispatchToken = None,
                          !.dispatchExpiresAt = None, !.nextDispatchAt = t + d]]
    BY <1>4, ZenonT(30) DEF dispatchRetry
  <2> DEFINE x == t + d
             y == None
  <2>2. x \in Nat /\ y \in Instant /\ y \in DispatchToken \cup {None}
    BY ConstantsAssumption DEF ApiClock, TypeOK, Instant
  <2>3. outbox[k] \in Intent
    BY <1>4 DEF dispatchRetry, Dispatching, TypeOK
  <2>4. outbox' = [outbox EXCEPT ![k] = [outbox[k] EXCEPT !.dispatchToken = y,
                                            !.dispatchExpiresAt = y, !.nextDispatchAt = x]]
    BY <2>1
  <2> HIDE DEF x, y
  <2>5. [outbox[k] EXCEPT !.dispatchToken = y, !.dispatchExpiresAt = y, !.nextDispatchAt = x]
          \in Intent
    BY <2>2, <2>3, ZenonT(30) DEF Intent
  <2>6. outbox' \in [IntentKey -> Intent \cup {None}]
    BY <2>4, <2>5 DEF TypeOK
  <2> QED
    BY <1>4, <2>6 DEF dispatchRetry, TypeOK
<1> QED
  BY <1>1, <1>2, <1>3, <1>4

\* Every step preserves the types.
LEMMA NextType == ASSUME TypeOK, [Next]_vars PROVE TypeOK'
<1>1. ASSUME NEW e \in Exec, Create(e) \/ claim(e) \/ CancelQueued(e) \/ CancelActive(e)
      PROVE  TypeOK'
  BY <1>1, CreateType, ClaimType, CancelType
<1>2. CASE Tick
  BY <1>2 DEF Tick, TypeOK
<1>3. CASE UNCHANGED vars
  BY <1>3 DEF vars, TypeOK
<1> QED
  BY <1>1, <1>2, <1>3, LeaseHolderType, MaintenanceType, QueueExpiryType, DispatcherType
  DEF Next

\* The initial tables are well typed.
LEMMA InitType == Init => TypeOK
<1>1. NoRow \in Row
  BY DEF NoRow, Row, State, Mode, Instant
<1> QED
  BY <1>1 DEF Init, TypeOK

\* The tables hold values of their columns' types in every reachable state,
\* whatever the job store, its callers and the dispatcher do.
THEOREM TypeCorrect == Spec => []TypeOK
  BY InitType, NextType, PTL DEF Spec

-----------------------------------------------------------------------------
(* What a step may do to one row.  The invariants about rows follow from this *)
(* case distinction instead of from the actions.                              *)

Accepts(e) ==
    /\ row[e].state = "ABSENT"
    /\ \E m \in Mode, q \in Nat :
        row'[e] = [NoRow EXCEPT !.state = "QUEUED", !.mode = m, !.lastSequence = 1,
                                !.queueExpiresAt = q]

\* A claim: the lease is new to everybody and goes to its caller.
Takes(e) ==
    /\ Claimable(row[e]) /\ ~Abandoned(row[e])
    /\ \E token \in Token :
        /\ \A l \in leases : l.token # token
        /\ row'[e] = Claimed(row[e], token)
        /\ leases' = leases \cup
            {[executionId |-> e, attempt |-> row[e].attempt + 1, token |-> token]}

\* Somebody holds valid authority over the row.
Held(r) == r.state \in ActiveStates /\ r.leaseExpiresAt > now /\ now < deadline(r)

\* renew, or recover giving the lease up.
Extends(e) ==
    /\ Held(row[e])
    /\ \E x \in Nat :
        /\ row'[e] = [row[e] EXCEPT !.leaseExpiresAt = x]
        /\ x <= deadline(row[e]) /\ x <= now + LeaseMs
        /\ row[e].cancellationRequestedAt # None =>
            x <= row[e].cancellationRequestedAt + CancelGraceMs

\* markRunning and console.
Proceeds(e) ==
    /\ Held(row[e]) /\ row[e].cancellationRequestedAt = None
    /\ \E s \in ActiveStates :
        /\ s = "COMPILING" => row[e].state = "COMPILING"
        /\ row'[e] = [row[e] EXCEPT !.state = s, !.lastSequence = row[e].lastSequence + 1]

Asks(e) ==
    /\ row[e].state \in ActiveStates /\ row[e].cancellationRequestedAt = None
    /\ row'[e] = [row[e] EXCEPT !.cancellationRequestedAt = now,
                                !.lastSequence = row[e].lastSequence + 1]

\* The reason a row r has to end with this state, verdict and failure code.
EndCause(r, state, verdict, code) ==
    \/ /\ r.state = "QUEUED" /\ state = "INTERNAL_ERROR" /\ verdict = state
       /\ code = "QUEUE_TIMEOUT"
    \/ r.state = "QUEUED" /\ state = "CANCELLED" /\ verdict = state /\ code = None
    \/ /\ r.state \in ActiveStates /\ r.cancellationRequestedAt # None
       /\ state = "CANCELLED" /\ verdict = state /\ code = None
    \/ /\ r.state \in ActiveStates /\ r.cancellationRequestedAt = None
       /\ state = "FINISHED" /\ verdict \in Judgement /\ code = None
    \/ /\ r.state \in ActiveStates /\ r.cancellationRequestedAt = None
       /\ state = "INTERNAL_ERROR" /\ verdict = state /\ code = "JOB_FAILURE"
    \/ /\ r.state \in ActiveStates /\ r.cancellationRequestedAt # None
       /\ state = "INTERNAL_ERROR" /\ verdict = state /\ code = "CANCELLATION_TIMEOUT"
    \/ /\ r.state \in ActiveStates /\ r.cancellationRequestedAt = None
       /\ r.attempt >= MaxAttempts
       /\ state = "INTERNAL_ERROR" /\ verdict = state /\ code = "LEASE_EXPIRED"
    \/ /\ r.state \in ActiveStates /\ r.cancellationRequestedAt = None
       /\ r.attempt < MaxAttempts /\ now >= deadline(r)
       /\ state = "INTERNAL_ERROR" /\ verdict = state /\ code = "JOB_TIMEOUT"

Ends(e) ==
    \E state \in TerminalStates, verdict \in Verdict, code \in FailureCode \cup {None} :
        /\ row'[e] = Ended(row[e], state, verdict, code)
        /\ EndCause(row[e], state, verdict, code)

RowStep(e) ==
    \/ row'[e] = row[e]
    \/ Accepts(e) \/ Takes(e) \/ Extends(e) \/ Proceeds(e) \/ Asks(e) \/ Ends(e)

\* What a claim leaves in the row it takes.
LEMMA TakesFields ==
    ASSUME TypeOK, NEW e \in Exec, Takes(e)
    PROVE  \E token \in Token :
             /\ \A l \in leases : l.token # token
             /\ leases' = leases \cup
                 {[executionId |-> e, attempt |-> row[e].attempt + 1, token |-> token]}
             /\ row'[e].state = "COMPILING"
             /\ row'[e].verdict = row[e].verdict /\ row'[e].failureCode = row[e].failureCode
             /\ row'[e].mode = row[e].mode /\ row'[e].attempt = row[e].attempt + 1
             /\ row'[e].lastSequence = 1
             /\ row'[e].leaseToken = token /\ row'[e].leaseExpiresAt = LeaseEnd(row[e])
             /\ row'[e].cancellationRequestedAt = row[e].cancellationRequestedAt
             /\ row'[e].queueExpiresAt = row[e].queueExpiresAt
<1>0. row[e] \in Row
  BY DEF TypeOK
<1>1. PICK token \in Token :
        /\ \A l \in leases : l.token # token
        /\ row'[e] = Claimed(row[e], token)
        /\ leases' = leases \cup
            {[executionId |-> e, attempt |-> row[e].attempt + 1, token |-> token]}
  BY DEF Takes
<1> DEFINE x == Claimed(row[e], token)
<1>2. /\ x.state = "COMPILING" /\ x.verdict = row[e].verdict
      /\ x.failureCode = row[e].failureCode /\ x.mode = row[e].mode
      /\ x.attempt = row[e].attempt + 1 /\ x.lastSequence = 1
      /\ x.leaseToken = token /\ x.leaseExpiresAt = LeaseEnd(row[e])
      /\ x.cancellationRequestedAt = row[e].cancellationRequestedAt
      /\ x.queueExpiresAt = row[e].queueExpiresAt
  BY <1>0 DEF Claimed, Row
<1>3. row'[e] = x
  BY <1>1
<1> HIDE DEF x
<1> QED
  BY <1>1, <1>2, <1>3

\* What an end leaves in the row.
LEMMA EndsFields ==
    ASSUME TypeOK, NEW e \in Exec, Ends(e)
    PROVE  \E state \in TerminalStates, verdict \in Verdict, code \in FailureCode \cup {None} :
             /\ EndCause(row[e], state, verdict, code)
             /\ row'[e].state = state /\ row'[e].verdict = verdict
             /\ row'[e].failureCode = code
             /\ row'[e].mode = row[e].mode /\ row'[e].attempt = row[e].attempt
             /\ row'[e].lastSequence = row[e].lastSequence + 1
             /\ row'[e].leaseToken = None /\ row'[e].leaseExpiresAt = None
             /\ row'[e].cancellationRequestedAt = row[e].cancellationRequestedAt
             /\ row'[e].queueExpiresAt = row[e].queueExpiresAt
<1>0. row[e] \in Row
  BY DEF TypeOK
<1>1. PICK state \in TerminalStates, verdict \in Verdict, code \in FailureCode \cup {None} :
        /\ row'[e] = Ended(row[e], state, verdict, code)
        /\ EndCause(row[e], state, verdict, code)
  BY DEF Ends
<1> DEFINE x == Ended(row[e], state, verdict, code)
<1>2. /\ x.state = state /\ x.verdict = verdict /\ x.failureCode = code
      /\ x.mode = row[e].mode /\ x.attempt = row[e].attempt
      /\ x.lastSequence = row[e].lastSequence + 1
      /\ x.leaseToken = None /\ x.leaseExpiresAt = None
      /\ x.cancellationRequestedAt = row[e].cancellationRequestedAt
      /\ x.queueExpiresAt = row[e].queueExpiresAt
  BY <1>0 DEF Ended, Row
<1>3. row'[e] = x
  BY <1>1
<1> HIDE DEF x
<1> QED
  BY <1>1, <1>2, <1>3

\* terminal ends the one row it is called for.
LEMMA TerminalStep ==
    ASSUME TypeOK, NEW e \in Exec, NEW state \in {"CANCELLED", "INTERNAL_ERROR"},
           NEW code \in FailureCode \cup {None}, terminal(e, state, code),
           EndCause(row[e], state, state, code)
    PROVE  Ends(e) /\ \A f \in Exec \ {e} : row'[f] = row[f]
<1>1. row' = [row EXCEPT ![e] = Ended(row[e], state, state, code)]
  BY DEF terminal
<1>2. row'[e] = Ended(row[e], state, state, code) /\ \A f \in Exec \ {e} : row'[f] = row[f]
  BY <1>1 DEF TypeOK
<1>3. state \in TerminalStates /\ state \in Verdict
  BY DEF TerminalStates, Verdict
<1> QED
  BY <1>2, <1>3 DEF Ends

\* A row that claim or maintain abandons was active, and its failure code names
\* the reason.
LEMMA AbandonedCause ==
    ASSUME TypeOK, RowShape, NEW e \in Exec, Claimable(row[e]) \/ Due(row[e]),
           Abandoned(row[e])
    PROVE  /\ EndCause(row[e], "INTERNAL_ERROR", "INTERNAL_ERROR", AbandonCode(row[e]))
           /\ AbandonCode(row[e]) \in FailureCode
<1>1. row[e] \in Row
  BY DEF TypeOK
<1>2. row[e].state \in ActiveStates
  <2>1. row[e].state = "QUEUED" =>
            row[e].attempt = 0 /\ row[e].cancellationRequestedAt = None
    BY ZenonT(30) DEF RowShape, FitsState
  <2>2. ~(row[e].state = "QUEUED" /\ row[e].queueExpiresAt > now)
    BY <1>1, <2>1, ConstantsAssumption, SMTT(60) DEF Abandoned, deadline, TypeOK, Row
  <2> QED
    BY <2>2 DEF Claimable, Due
<1>3. CASE row[e].cancellationRequestedAt # None
  <2>1. AbandonCode(row[e]) = "CANCELLATION_TIMEOUT"
    BY <1>3 DEF AbandonCode
  <2> QED
    BY <1>2, <1>3, <2>1 DEF EndCause, FailureCode
<1>4. CASE row[e].cancellationRequestedAt = None /\ row[e].attempt >= MaxAttempts
  <2>1. AbandonCode(row[e]) = "LEASE_EXPIRED"
    BY <1>4 DEF AbandonCode
  <2> QED
    BY <1>2, <1>4, <2>1 DEF EndCause, FailureCode
<1>5. CASE row[e].cancellationRequestedAt = None /\ ~(row[e].attempt >= MaxAttempts)
  <2>1. AbandonCode(row[e]) = "JOB_TIMEOUT"
    BY <1>5 DEF AbandonCode
  <2>2. row[e].attempt < MaxAttempts /\ now >= deadline(row[e])
    BY <1>1, <1>5, ConstantsAssumption DEF Abandoned, Row
  <2> QED
    BY <1>2, <1>5, <2>1, <2>2 DEF EndCause, FailureCode
<1> QED
  BY <1>3, <1>4, <1>5

\* Somebody whose lease is valid holds authority.
LEMMA ValidHeld == ASSUME NEW r, NEW l, valid(r, l) PROVE Held(r)
  BY DEF valid, Held

\* Every operation of a lease holder is a row step of its execution, and leaves
\* the other rows and the leases alone.
LEMMA LeaseHolderStep ==
    ASSUME TypeOK, NEW l \in leases, LeaseHolder(l)
    PROVE  /\ \A f \in Exec : RowStep(f)
           /\ leases' = leases /\ now' = now
<1> DEFINE e == l.executionId
<1>0. e \in Exec /\ row[e] \in Row /\ now \in Nat
  BY DEF TypeOK, Lease
<1>1. CASE renew(l)
  <2>1. row' = [row EXCEPT ![e].leaseExpiresAt = RenewEnd(row[e])]
    BY <1>1 DEF renew
  <2>2. /\ row'[e] = [row[e] EXCEPT !.leaseExpiresAt = RenewEnd(row[e])]
        /\ \A f \in Exec \ {e} : row'[f] = row[f]
    BY <1>0, <2>1 DEF TypeOK
  <2>3. /\ RenewEnd(row[e]) \in Nat
        /\ RenewEnd(row[e]) <= deadline(row[e]) /\ RenewEnd(row[e]) <= now + LeaseMs
    BY <1>0, LeaseEndType, ConstantsAssumption, SMTT(60)
  <2>4. row[e].cancellationRequestedAt # None =>
            RenewEnd(row[e]) <= row[e].cancellationRequestedAt + CancelGraceMs
    BY <1>0, LeaseEndType, ConstantsAssumption DEF RenewEnd, Least, Row, Instant
  <2>5. Held(row[e])
    BY <1>1, ValidHeld DEF renew
  <2>6. Extends(e)
    BY <2>2, <2>3, <2>4, <2>5 DEF Extends
  <2> QED
    BY <1>1, <2>2, <2>6 DEF renew, RowStep
<1>2. CASE markRunning(l)
  <2>1. row' = [row EXCEPT ![e] = [row[e] EXCEPT !.state = "RUNNING",
                                    !.lastSequence = row[e].lastSequence + 1]]
    BY <1>2 DEF markRunning
  <2>2. /\ row'[e] = [row[e] EXCEPT !.state = "RUNNING",
                                    !.lastSequence = row[e].lastSequence + 1]
        /\ \A f \in Exec \ {e} : row'[f] = row[f]
    BY <1>0, <2>1, ZenonT(30) DEF TypeOK
  <2>3. Held(row[e]) /\ row[e].cancellationRequestedAt = None
    BY <1>2, ValidHeld DEF markRunning
  <2>4. Proceeds(e)
    BY <2>2, <2>3 DEF Proceeds, ActiveStates
  <2> QED
    BY <1>2, <2>2, <2>4 DEF markRunning, RowStep
<1>3. CASE console(l)
  <2>1. row' = [row EXCEPT ![e].lastSequence = row[e].lastSequence + 1]
    BY <1>3 DEF console
  <2>2. /\ row'[e] = [row[e] EXCEPT !.lastSequence = row[e].lastSequence + 1]
        /\ \A f \in Exec \ {e} : row'[f] = row[f]
    BY <1>0, <2>1 DEF TypeOK
  <2>3. Held(row[e]) /\ row[e].cancellationRequestedAt = None
    BY <1>3, ValidHeld DEF console
  <2> DEFINE s == row[e].state
             n == row[e].lastSequence + 1
  <2> HIDE DEF n
  <2>4. row'[e] = [row[e] EXCEPT !.state = s, !.lastSequence = n]
    <3>1. [row[e] EXCEPT !.lastSequence = n] = [row[e] EXCEPT !.state = s, !.lastSequence = n]
      BY <1>0, ZenonT(30) DEF Row
    <3> QED
      BY <2>2, <3>1 DEF n
  <2>5. s \in ActiveStates
    BY <2>3 DEF Held
  <2>6. Proceeds(e)
    BY <2>3, <2>4, <2>5, ZenonT(30) DEF Proceeds, n
  <2> QED
    BY <1>3, <2>2, <2>6 DEF console, RowStep
<1>4. ASSUME NEW verdict \in Judgement, finish(l, verdict)
      PROVE  (\A f \in Exec : RowStep(f)) /\ leases' = leases /\ now' = now
  <2>0. row[e].state \in ActiveStates
    BY <1>4, ZenonT(30) DEF finish, valid
  <2>1. CASE row[e].cancellationRequestedAt # None /\ terminal(e, "CANCELLED", None)
    <3>1. EndCause(row[e], "CANCELLED", "CANCELLED", None)
      BY <2>0, <2>1, ZenonT(30) DEF EndCause
    <3> QED
      BY <1>0, <1>4, <2>1, <3>1, TerminalStep, ZenonT(30) DEF finish, RowStep
  <2>2. CASE /\ row[e].cancellationRequestedAt = None
             /\ row' = [row EXCEPT ![e] = Ended(row[e], "FINISHED", verdict, None)]
    <3>1. /\ row'[e] = Ended(row[e], "FINISHED", verdict, None)
          /\ \A f \in Exec \ {e} : row'[f] = row[f]
      BY <1>0, <2>2, ZenonT(30) DEF TypeOK
    <3>2. EndCause(row[e], "FINISHED", verdict, None)
      BY <2>0, <2>2, ZenonT(30) DEF EndCause
    <3>3. Ends(e)
      BY <3>1, <3>2, ZenonT(30) DEF Ends, TerminalStates, Verdict
    <3> QED
      BY <1>4, <3>1, <3>3, ZenonT(30) DEF finish, RowStep
  <2> QED
    BY <1>4, <2>1, <2>2, ZenonT(30) DEF finish
<1>5. ASSUME NEW cleanupConfirmed \in BOOLEAN, fail(l, cleanupConfirmed)
      PROVE  (\A f \in Exec : RowStep(f)) /\ leases' = leases /\ now' = now
  <2>0. row[e].state \in ActiveStates
    BY <1>5, ZenonT(30) DEF fail, valid
  <2>1. PICK state \in {"CANCELLED", "INTERNAL_ERROR"}, code \in FailureCode \cup {None} :
          terminal(e, state, code) /\ EndCause(row[e], state, state, code)
    BY <1>5, <2>0, ZenonT(30) DEF fail, FailureCode, EndCause
  <2> QED
    BY <1>0, <1>5, <2>1, TerminalStep, ZenonT(30) DEF fail, RowStep
<1>6. CASE recover(l)
  <2>0. row[e].state \in ActiveStates /\ Held(row[e])
    BY <1>6, ValidHeld, ZenonT(30) DEF recover, valid
  <2>1. CASE \E state \in {"CANCELLED", "INTERNAL_ERROR"}, code \in FailureCode \cup {None} :
                terminal(e, state, code) /\ EndCause(row[e], state, state, code)
    BY <1>0, <1>6, <2>1, TerminalStep, ZenonT(30) DEF recover, RowStep
  <2>2. CASE /\ row[e].cancellationRequestedAt = None
             /\ row' = [row EXCEPT ![e].leaseExpiresAt = now]
    <3>1. /\ row'[e] = [row[e] EXCEPT !.leaseExpiresAt = now]
          /\ \A f \in Exec \ {e} : row'[f] = row[f]
      BY <1>0, <2>2, ZenonT(30) DEF TypeOK
    <3>2. now <= deadline(row[e]) /\ now <= now + LeaseMs
      BY <1>0, <2>0, LeaseEndType, ConstantsAssumption DEF Held
    <3>3. Extends(e)
      BY <1>0, <2>0, <2>2, <3>1, <3>2, ZenonT(30) DEF Extends
    <3> QED
      BY <1>6, <3>1, <3>3 DEF recover, RowStep
  <2> QED
    BY <1>6, <2>0, <2>1, <2>2 DEF recover, FailureCode, EndCause
<1> QED
  BY <1>1, <1>2, <1>3, <1>4, <1>5, <1>6, ZenonT(30) DEF LeaseHolder

\* A claim is a row step of its execution.
LEMMA ClaimStep ==
    ASSUME TypeOK, RowShape, NEW e \in Exec, claim(e)
    PROVE  (\A f \in Exec : RowStep(f)) /\ now' = now
<1>1. CASE ClaimQueueTimeout(e)
  <2>1. EndCause(row[e], "INTERNAL_ERROR", "INTERNAL_ERROR", "QUEUE_TIMEOUT")
    BY <1>1, ZenonT(30) DEF ClaimQueueTimeout, EndCause
  <2> QED
    BY <1>1, <2>1, TerminalStep, ZenonT(30) DEF ClaimQueueTimeout, RowStep, FailureCode
<1>2. CASE ClaimAbandoned(e)
  <2>1. /\ EndCause(row[e], "INTERNAL_ERROR", "INTERNAL_ERROR", AbandonCode(row[e]))
        /\ AbandonCode(row[e]) \in FailureCode
    BY <1>2, AbandonedCause DEF ClaimAbandoned
  <2> QED
    BY <1>2, <2>1, TerminalStep, ZenonT(30) DEF ClaimAbandoned, RowStep
<1>3. ASSUME NEW token \in Token, Claim(e, token)
      PROVE  (\A f \in Exec : RowStep(f)) /\ now' = now
  <2>0. row[e] \in Row
    BY DEF TypeOK
  <2>1. row' = [row EXCEPT ![e] = Claimed(row[e], token)]
    BY <1>3 DEF Claim
  <2>2. row'[e] = Claimed(row[e], token) /\ \A f \in Exec \ {e} : row'[f] = row[f]
    BY <2>1 DEF TypeOK
  <2>3. leases' = leases \cup
            {[executionId |-> e, attempt |-> row[e].attempt + 1, token |-> token]}
    <3>1. Claimed(row[e], token).attempt = row[e].attempt + 1
      BY <2>0 DEF Claimed, Row
    <3> QED
      BY <1>3, <3>1 DEF Claim
  <2>4. Takes(e)
    BY <1>3, <2>2, <2>3 DEF Claim, Takes
  <2> QED
    BY <1>3, <2>2, <2>4 DEF Claim, RowStep
<1> QED
  BY <1>1, <1>2, <1>3, ZenonT(30) DEF claim

\* Acceptance and cancellation are row steps of their execution.
LEMMA UserStep ==
    ASSUME TypeOK, NEW e \in Exec, Create(e) \/ CancelQueued(e) \/ CancelActive(e)
    PROVE  (\A f \in Exec : RowStep(f)) /\ leases' = leases /\ now' = now
<1>1. CASE Create(e)
  <2>1. PICK m \in Mode, t \in ApiClock :
          row' = [row EXCEPT ![e] = [NoRow EXCEPT !.state = "QUEUED", !.mode = m,
                                                  !.lastSequence = 1,
                                                  !.queueExpiresAt = t + QueueTtl]]
    BY <1>1, ZenonT(30) DEF Create
  <2> DEFINE q == t + QueueTtl
  <2>2. q \in Nat
    BY ConstantsAssumption DEF ApiClock, TypeOK
  <2>3. row' = [row EXCEPT ![e] = [NoRow EXCEPT !.state = "QUEUED", !.mode = m,
                                                !.lastSequence = 1, !.queueExpiresAt = q]]
    BY <2>1
  <2> HIDE DEF q
  <2>4. /\ row'[e] = [NoRow EXCEPT !.state = "QUEUED", !.mode = m,
                                   !.lastSequence = 1, !.queueExpiresAt = q]
        /\ \A f \in Exec \ {e} : row'[f] = row[f]
    BY <2>3 DEF TypeOK
  <2>5. Accepts(e)
    BY <1>1, <2>2, <2>4, ZenonT(30) DEF Create, Accepts
  <2> QED
    BY <1>1, <2>4, <2>5, ZenonT(30) DEF Create, RowStep
<1>2. CASE CancelQueued(e)
  <2>1. EndCause(row[e], "CANCELLED", "CANCELLED", None)
    BY <1>2 DEF CancelQueued, EndCause
  <2> QED
    BY <1>2, <2>1, TerminalStep, ZenonT(30) DEF CancelQueued, RowStep
<1>3. CASE CancelActive(e)
  <2>1. row' = [row EXCEPT ![e] = [row[e] EXCEPT !.cancellationRequestedAt = now,
                                    !.lastSequence = row[e].lastSequence + 1]]
    BY <1>3 DEF CancelActive
  <2>2. /\ row'[e] = [row[e] EXCEPT !.cancellationRequestedAt = now,
                                    !.lastSequence = row[e].lastSequence + 1]
        /\ \A f \in Exec \ {e} : row'[f] = row[f]
    BY <2>1 DEF TypeOK
  <2>3. Asks(e)
    BY <1>3, <2>2 DEF CancelActive, Asks
  <2> QED
    BY <1>3, <2>2, <2>3 DEF CancelActive, RowStep
<1> QED
  BY <1>1, <1>2, <1>3

\* The batch operations take a row step of every execution in their batch.
LEMMA BatchStep ==
    ASSUME TypeOK, RowShape, Maintenance({}) \/ QueueExpiry({})
    PROVE  (\A f \in Exec : RowStep(f)) /\ leases' = leases /\ now' = now
<1>0. "INTERNAL_ERROR" \in TerminalStates /\ "INTERNAL_ERROR" \in Verdict
  BY DEF TerminalStates, Verdict
<1>1. CASE Maintenance({})
  <2>1. PICK batch \in SUBSET {e \in Exec : Due(row[e])},
             again \in SUBSET {k \in IntentKey : Reofferable(k, row[k.executionId])},
             gone \in SUBSET Stored : maintain(batch, again, gone)
    BY <1>1 DEF Maintenance
  <2> DEFINE ended == {e \in batch : Abandoned(row[e])}
  <2>2. row' = [e \in Exec |->
                 IF e \in ended
                 THEN Ended(row[e], "INTERNAL_ERROR", "INTERNAL_ERROR", AbandonCode(row[e]))
                 ELSE row[e]]
    BY <2>1, ZenonT(30) DEF maintain
  <2>3. ASSUME NEW f \in ended PROVE Ends(f)
    <3>1. /\ EndCause(row[f], "INTERNAL_ERROR", "INTERNAL_ERROR", AbandonCode(row[f]))
          /\ AbandonCode(row[f]) \in FailureCode
      BY AbandonedCause, ZenonT(30)
    <3>2. row'[f] = Ended(row[f], "INTERNAL_ERROR", "INTERNAL_ERROR", AbandonCode(row[f]))
      BY <2>2, ZenonT(30)
    <3> QED
      BY <1>0, <3>1, <3>2, ZenonT(30) DEF Ends
  <2>4. \A f \in Exec \ ended : row'[f] = row[f]
    BY <2>2, ZenonT(30)
  <2> QED
    BY <2>1, <2>3, <2>4, ZenonT(30) DEF maintain, RowStep
<1>2. CASE QueueExpiry({})
  <2>1. PICK batch \in SUBSET {e \in Exec : QueueExpired(row[e])} : expireQueuedJobs(batch)
    BY <1>2, ZenonT(30) DEF QueueExpiry
  <2>2. row' = [e \in Exec |->
                 IF e \in batch
                 THEN Ended(row[e], "INTERNAL_ERROR", "INTERNAL_ERROR", "QUEUE_TIMEOUT")
                 ELSE row[e]]
    BY <2>1, ZenonT(30) DEF expireQueuedJobs
  <2>3. ASSUME NEW f \in batch PROVE Ends(f)
    <3>1. EndCause(row[f], "INTERNAL_ERROR", "INTERNAL_ERROR", "QUEUE_TIMEOUT")
      BY DEF QueueExpired, EndCause
    <3>2. row'[f] = Ended(row[f], "INTERNAL_ERROR", "INTERNAL_ERROR", "QUEUE_TIMEOUT")
      BY <2>2
    <3> QED
      BY <1>0, <3>1, <3>2, ZenonT(30) DEF Ends, FailureCode
  <2>4. \A f \in Exec \ batch : row'[f] = row[f]
    BY <2>2, ZenonT(30)
  <2> QED
    BY <2>1, <2>3, <2>4 DEF expireQueuedJobs, RowStep
<1> QED
  BY <1>1, <1>2

\* The clock never goes back, leases are never forgotten, and every step of the
\* system is a row step of every execution.
LEMMA NextStep ==
    ASSUME TypeOK, RowShape, [Next]_vars
    PROVE  /\ \A f \in Exec : RowStep(f)
           /\ now' \in {now, now + 1}
           /\ leases' # leases => now' = now /\ \E f \in Exec : Takes(f)
<1>1. ASSUME NEW e \in Exec, Create(e) \/ CancelQueued(e) \/ CancelActive(e)
      PROVE  (\A f \in Exec : RowStep(f)) /\ leases' = leases /\ now' = now
  BY <1>1, UserStep, ZenonT(30)
<1>2. ASSUME NEW e \in Exec, claim(e)
      PROVE  /\ \A f \in Exec : RowStep(f)
             /\ now' = now
             /\ leases' # leases => Takes(e)
  <2>1. (\A f \in Exec : RowStep(f)) /\ now' = now
    BY <1>2, ClaimStep
  <2>2. ASSUME NEW token \in Token, Claim(e, token) PROVE Takes(e)
    <3>0. row[e] \in Row
      BY DEF TypeOK
    <3>1. row'[e] = Claimed(row[e], token)
      BY <2>2 DEF Claim, TypeOK
    <3>2. leases' = leases \cup
              {[executionId |-> e, attempt |-> row[e].attempt + 1, token |-> token]}
      <4>1. Claimed(row[e], token).attempt = row[e].attempt + 1
        BY <3>0 DEF Claimed, Row
      <4> QED
        BY <2>2, <4>1 DEF Claim
    <3> QED
      BY <2>2, <3>1, <3>2 DEF Claim, Takes
  <2> QED
    BY <1>2, <2>1, <2>2 DEF claim, ClaimQueueTimeout, ClaimAbandoned
<1>3. ASSUME NEW l \in leases, LeaseHolder(l)
      PROVE  (\A f \in Exec : RowStep(f)) /\ leases' = leases /\ now' = now
  BY <1>3, LeaseHolderStep
<1>4. CASE Maintenance({}) \/ QueueExpiry({})
  BY <1>4, BatchStep
<1>5. CASE Dispatcher
  BY <1>5, ZenonT(30) DEF Dispatcher, dispatchClaim, dispatchAck, dispatchRetry, RowStep
<1>6. CASE Tick
  BY <1>6 DEF Tick, RowStep
<1>7. CASE UNCHANGED vars
  BY <1>7 DEF vars, RowStep
<1> QED
  BY <1>1, <1>2, <1>3, <1>4, <1>5, <1>6, <1>7, ZenonT(30) DEF Next

-----------------------------------------------------------------------------
(* The event log: what pruning keeps *)

\* A set of natural numbers that is not empty has a least element.
LEMMA LeastOf ==
    ASSUME NEW T, T \subseteq Nat, T # {}
    PROVE  \E x \in T : \A y \in T : x <= y
<1>1. PICK x \in T : \A y \in T : ~(<<y, x>> \in OpToRel(<, Nat))
  BY NatLessThanWellFounded, WFMin, Zenon
<1>2. \A y \in T : ~(y < x)
  BY Zenon, <1>1 DEF OpToRel
<1> QED
  BY <1>2

\* No event is larger than the replay limit.
LEMMA SizeOf == ASSUME NEW b \in EventBytes PROVE b \in Nat /\ b <= ReplayBytes
<1>1. EventBytes \subseteq 0..ReplayBytes /\ ReplayBytes \in Nat
  BY ConstantsAssumption
<1> QED
  BY <1>1

\* The bytes of events are finitely many, and more events have no fewer bytes.
LEMMA BytesGrow ==
    ASSUME NEW S, S \subseteq Event, IsFiniteSet(S), NEW T, T \subseteq S
    PROVE  Bytes(T) \in Nat /\ Bytes(S) \in Nat /\ Bytes(T) <= Bytes(S)
<1> DEFINE all(X) == UNION {{ev} \X (1..ev.bytes) : ev \in X}
<1>1. all(S) \subseteq S \X (1..ReplayBytes)
  <2> SUFFICES ASSUME NEW ev \in S, NEW b \in {ev} \X (1..ev.bytes)
               PROVE  b \in S \X (1..ReplayBytes)
    OBVIOUS
  <2>1. ev.bytes \in 0..ReplayBytes
    BY Zenon, ConstantsAssumption DEF Event
  <2> QED
    BY <2>1, ConstantsAssumption
<1>2. IsFiniteSet(S \X (1..ReplayBytes))
  <2>1. ReplayBytes \in Int
    BY ConstantsAssumption
  <2>2. IsFiniteSet(1..ReplayBytes)
    BY <2>1, FS_Interval
  <2> QED
    BY Zenon, <2>2, FS_Product
<1>3. IsFiniteSet(all(S)) /\ all(T) \subseteq all(S)
  BY <1>1, <1>2, FS_Subset
<1> HIDE DEF all
<1>4. IsFiniteSet(all(T)) /\ Cardinality(all(T)) <= Cardinality(all(S))
  BY <1>3, FS_Subset
<1>5. Cardinality(all(T)) \in Nat /\ Cardinality(all(S)) \in Nat
  BY <1>3, <1>4, FS_CardinalityType
<1> QED
  BY <1>4, <1>5 DEF Bytes, all

\* One event has its own bytes.
LEMMA BytesOne == ASSUME NEW ev \in Event PROVE Bytes({ev}) = ev.bytes
<1>1. ev.bytes \in Nat
  <2>1. ev.bytes \in EventBytes
    BY DEF Event
  <2> QED
    BY Zenon, <2>1, SizeOf
<1>2. UNION {{x} \X (1..x.bytes) : x \in {ev}} = {ev} \X (1..ev.bytes)
  OBVIOUS
<1>3. IsFiniteSet(1..ev.bytes) /\ Cardinality(1..ev.bytes) = ev.bytes
  <2> DEFINE n == ev.bytes
  <2>1. 1 \in Int /\ n \in Int
    BY <1>1
  <2> HIDE DEF n
  <2>2. IsFiniteSet(1..n) /\ Cardinality(1..n) = IF 1 > n THEN 0 ELSE n - 1 + 1
    BY Zenon, <2>1, FS_Interval
  <2>3. (IF 1 > n THEN 0 ELSE n - 1 + 1) = n
    BY <1>1 DEF n
  <2> QED
    BY <2>2, <2>3 DEF n
<1>4. Cardinality({ev} \X (1..ev.bytes)) = 1 * ev.bytes
  <2>1. IsFiniteSet({ev}) /\ Cardinality({ev}) = 1
    BY Zenon, FS_Singleton
  <2>2. Cardinality({ev} \X (1..ev.bytes)) = Cardinality({ev}) * Cardinality(1..ev.bytes)
    BY Zenon, <1>3, <2>1, FS_Product
  <2> QED
    BY Zenon, <1>3, <2>1, <2>2
<1>5. 1 * ev.bytes = ev.bytes
  BY <1>1
<1> QED
  BY Zenon, <1>2, <1>4, <1>5 DEF Bytes

\* No event has no bytes.
LEMMA BytesNone == Bytes({}) = 0
<1>1. UNION {{x} \X (1..x.bytes) : x \in {}} = {}
  OBVIOUS
<1> QED
  BY <1>1, FS_EmptySet DEF Bytes

\* The newest event is kept, whatever its size.
LEMMA NewestKept ==
    ASSUME NEW S, S \subseteq Event, NEW ev \in Event,
           \A x \in S : x.attempt = ev.attempt /\ x.sequence < ev.sequence
    PROVE  ev \in Kept(S \cup {ev})
<1>1. Since(S \cup {ev}, ev) = {ev}
  BY DEF Since, Event
<1>2. Cardinality({ev}) = 1 /\ 1 <= ReplayRows
  <2>1. Cardinality({ev}) = 1
    BY Zenon, FS_Singleton
  <2> QED
    BY <2>1, ConstantsAssumption
<1>3. Bytes({ev}) <= ReplayBytes
  <2>1. ev.bytes \in EventBytes
    BY DEF Event
  <2> QED
    BY Zenon, <2>1, BytesOne, SizeOf
<1> QED
  BY Zenon, <1>1, <1>2, <1>3 DEF Kept

\* What is kept of the events of one attempt is within both limits: it is what is no
\* older than the oldest event that is kept.
LEMMA KeptWithin ==
    ASSUME NEW S, S \subseteq Event, IsFiniteSet(S),
           \A x, y \in S : x.attempt = y.attempt
    PROVE  Cardinality(Kept(S)) <= ReplayRows /\ Bytes(Kept(S)) <= ReplayBytes
<1>1. CASE Kept(S) = {}
  BY <1>1, FS_EmptySet, BytesNone, ConstantsAssumption
<1>2. CASE Kept(S) # {}
  <2> DEFINE T == {x.sequence : x \in Kept(S)}
  <2>1. T \subseteq Nat /\ T # {}
    BY <1>2, KeptSubset DEF Event
  <2>2. PICK n \in T : \A m \in T : n <= m
    BY Zenon, <2>1, LeastOf
  <2>3. PICK ev \in Kept(S) : \A x \in Kept(S) : ev.sequence <= x.sequence
    BY <2>2
  <2>4. Kept(S) \subseteq Since(S, ev)
    BY <2>3, KeptSubset DEF Since, Event
  <2>5. Since(S, ev) \subseteq S
    BY DEF Since
  <2>6. Cardinality(Since(S, ev)) <= ReplayRows /\ Bytes(Since(S, ev)) <= ReplayBytes
    BY DEF Kept
  <2>7. IsFiniteSet(Since(S, ev)) /\ IsFiniteSet(Kept(S))
    BY <2>4, <2>5, FS_Subset
  <2>8. /\ Cardinality(Kept(S)) <= Cardinality(Since(S, ev))
        /\ Cardinality(Kept(S)) \in Nat /\ Cardinality(Since(S, ev)) \in Nat
    BY <2>4, <2>7, FS_Subset, FS_CardinalityType
  <2>9. /\ Bytes(Kept(S)) <= Bytes(Since(S, ev))
        /\ Bytes(Kept(S)) \in Nat /\ Bytes(Since(S, ev)) \in Nat
    BY <2>4, <2>5, <2>7, BytesGrow
  <2> QED
    BY <2>6, <2>8, <2>9, ConstantsAssumption
<1> QED
  BY <1>1, <1>2

-----------------------------------------------------------------------------
(* The event log: what a step may do to one row and its events *)

\* Nothing is said; stored events may go.
Quiet(e) ==
    /\ row'[e].attempt = row[e].attempt /\ row'[e].lastSequence = row[e].lastSequence
    /\ isTerminal(row'[e]) <=> isTerminal(row[e])
    /\ row[e].state = "ABSENT" => row'[e].state = "ABSENT"
    /\ events'[e] \subseteq events[e]

\* One event is added, the final one exactly when the row ends; older ones may go.
Writes(e) ==
    /\ ~isTerminal(row[e])
    /\ row'[e].attempt = row[e].attempt /\ row'[e].lastSequence = row[e].lastSequence + 1
    /\ \E kind \in EventKind, b \in EventBytes :
        /\ kind = "final_verdict" <=> isTerminal(row'[e])
        /\ events'[e] \subseteq Logged(events[e], row[e], kind, b)
        /\ Logged(events[e], row[e], kind, b) \subseteq events'[e] \cup events[e]

\* A new attempt begins with its first event.
Restarts(e) ==
    /\ row[e].state \in Unfinished /\ row'[e].state = "COMPILING"
    /\ row'[e].attempt = row[e].attempt + 1 /\ row'[e].lastSequence = 1
    /\ \E b \in EventBytes :
        events'[e] = Kept({[attempt |-> row[e].attempt + 1, sequence |-> 1,
                            kind |-> "execution_status", bytes |-> b]})

LogStep(e) == Quiet(e) \/ Writes(e) \/ Restarts(e)

\* A row that has not ended.
LEMMA OpenRow == ASSUME NEW r, r.state \in Unfinished PROVE ~isTerminal(r) /\ r.state # "ABSENT"
  BY DEF Unfinished, ActiveStates, isTerminal, TerminalStates

\* A row that a step leaves alone, with its events.
LEMMA LeftAlone ==
    ASSUME NEW e \in Exec, row'[e] = row[e], events'[e] = events[e]
    PROVE  LogStep(e)
  BY Zenon DEF LogStep, Quiet

\* event, called for a row that has not ended, with the number it has counted on.
LEMMA EmitWrites ==
    ASSUME TypeOK, NEW e \in Exec, NEW kind \in EventKind, Emit(e, row[e], kind),
           ~isTerminal(row[e]), kind = "final_verdict" <=> isTerminal(row'[e]),
           row'[e].attempt = row[e].attempt, row'[e].lastSequence = row[e].lastSequence + 1,
           \A f \in Exec \ {e} : row'[f] = row[f]
    PROVE  \A f \in Exec : LogStep(f)
<1>1. PICK b \in EventBytes : events' = [events EXCEPT ![e] = Logged(events[e], row[e], kind, b)]
  BY ZenonT(30) DEF Emit
<1>2. /\ events'[e] = Logged(events[e], row[e], kind, b)
      /\ \A f \in Exec \ {e} : events'[f] = events[f]
  BY <1>1, ZenonT(30) DEF TypeOK
<1>3. Writes(e)
  BY <1>2, ZenonT(30) DEF Writes
<1> QED
  BY <1>2, <1>3, LeftAlone, ZenonT(30) DEF LogStep

\* The writes that end a row add its final event.
LEMMA EndWrites ==
    ASSUME TypeOK, NEW e \in Exec, row[e].state \in Unfinished, NEW state \in TerminalStates,
           NEW verdict, NEW code, Emit(e, row[e], "final_verdict"),
           row' = [row EXCEPT ![e] = Ended(row[e], state, verdict, code)]
    PROVE  \A f \in Exec : LogStep(f)
<1>1. /\ row'[e] = Ended(row[e], state, verdict, code)
      /\ \A f \in Exec \ {e} : row'[f] = row[f]
  BY ZenonT(30) DEF TypeOK
<1>2. /\ row'[e].state = state /\ row'[e].attempt = row[e].attempt
      /\ row'[e].lastSequence = row[e].lastSequence + 1
  BY <1>1 DEF TypeOK, Row, Ended
<1>3. isTerminal(row'[e]) /\ ~isTerminal(row[e])
  BY <1>2, OpenRow DEF isTerminal
<1> QED
  BY <1>1, <1>2, <1>3, EmitWrites, ZenonT(30) DEF EventKind

LEMMA TerminalWrites ==
    ASSUME TypeOK, NEW e \in Exec, row[e].state \in Unfinished,
           NEW state \in {"CANCELLED", "INTERNAL_ERROR"}, NEW code, terminal(e, state, code)
    PROVE  \A f \in Exec : LogStep(f)
<1>1. state \in TerminalStates
  BY DEF TerminalStates
<1> QED
  BY <1>1, EndWrites, ZenonT(30) DEF terminal

LEMMA UserWrites ==
    ASSUME TypeOK, RowShape, NEW e \in Exec, Create(e) \/ CancelQueued(e) \/ CancelActive(e)
    PROVE  \A f \in Exec : LogStep(f)
<1>0. row[e] \in Row
  BY DEF TypeOK
<1>1. CASE Create(e)
  <2>1. PICK m \in Mode, t \in ApiClock :
          row' = [row EXCEPT ![e] = [NoRow EXCEPT !.state = "QUEUED", !.mode = m,
                                                  !.lastSequence = 1,
                                                  !.queueExpiresAt = t + QueueTtl]]
    BY <1>1, ZenonT(30) DEF Create
  <2>2. /\ row'[e] = [NoRow EXCEPT !.state = "QUEUED", !.mode = m, !.lastSequence = 1,
                                   !.queueExpiresAt = t + QueueTtl]
        /\ \A f \in Exec \ {e} : row'[f] = row[f]
    BY <2>1, ZenonT(30) DEF TypeOK
  <2>3. row'[e].state = "QUEUED" /\ row'[e].attempt = 0 /\ row'[e].lastSequence = 1
    BY <2>2 DEF NoRow
  <2>4. row[e].state = "ABSENT"
    BY Zenon, <1>1 DEF Create
  <2>5. row[e].attempt = 0 /\ row[e].lastSequence = 0
    <3>1. row[e] = NoRow
      BY Zenon, <2>4 DEF RowShape, FitsState
    <3> QED
      BY <3>1 DEF NoRow
  <2>6. ~isTerminal(row[e]) /\ ~isTerminal(row'[e])
    BY <2>3, <2>4 DEF isTerminal, TerminalStates
  <2>7. row'[e].attempt = row[e].attempt /\ row'[e].lastSequence = row[e].lastSequence + 1
    BY <2>3, <2>5
  <2> QED
    BY <1>1, <2>2, <2>6, <2>7, EmitWrites, ZenonT(30) DEF Create, EventKind
<1>2. CASE CancelQueued(e)
  <2>1. row[e].state \in Unfinished
    BY <1>2 DEF CancelQueued, Unfinished
  <2> QED
    BY <1>2, <2>1, TerminalWrites, ZenonT(30) DEF CancelQueued
<1>3. CASE CancelActive(e)
  <2>1. /\ row'[e] = [row[e] EXCEPT !.cancellationRequestedAt = now,
                                    !.lastSequence = row[e].lastSequence + 1]
        /\ \A f \in Exec \ {e} : row'[f] = row[f]
    BY <1>3 DEF CancelActive, TypeOK
  <2>2. /\ row'[e].state = row[e].state /\ row'[e].attempt = row[e].attempt
        /\ row'[e].lastSequence = row[e].lastSequence + 1
    BY <1>0, <2>1 DEF Row
  <2>3. ~isTerminal(row[e]) /\ ~isTerminal(row'[e])
    BY <1>3, <2>2 DEF CancelActive, isTerminal, ActiveStates, TerminalStates
  <2> QED
    BY <1>3, <2>1, <2>2, <2>3, EmitWrites, ZenonT(30) DEF CancelActive, EventKind
<1> QED
  BY <1>1, <1>2, <1>3

LEMMA ClaimWrites ==
    ASSUME TypeOK, NEW e \in Exec, claim(e) PROVE \A f \in Exec : LogStep(f)
<1>0. row[e] \in Row
  BY DEF TypeOK
<1>1. CASE ClaimQueueTimeout(e)
  <2>1. row[e].state \in Unfinished
    BY <1>1 DEF ClaimQueueTimeout, Unfinished
  <2> QED
    BY <1>1, <2>1, TerminalWrites, ZenonT(30) DEF ClaimQueueTimeout
<1>2. CASE ClaimAbandoned(e)
  <2>1. row[e].state \in Unfinished
    BY <1>2 DEF ClaimAbandoned, Claimable, Unfinished
  <2> QED
    BY <1>2, <2>1, TerminalWrites, ZenonT(30) DEF ClaimAbandoned
<1>3. ASSUME NEW token \in Token, Claim(e, token) PROVE \A f \in Exec : LogStep(f)
  <2> DEFINE new == Claimed(row[e], token)
             first == [new EXCEPT !.lastSequence = 0]
  <2>1. row[e].state \in Unfinished
    BY <1>3 DEF Claim, Claimable, Unfinished
  <2>2. row'[e] = new /\ \A f \in Exec \ {e} : row'[f] = row[f]
    BY <1>3 DEF Claim, TypeOK
  <2>3. new.state = "COMPILING" /\ new.attempt = row[e].attempt + 1 /\ new.lastSequence = 1
    BY <1>0 DEF Claimed, Row
  <2>4. first.attempt = row[e].attempt + 1 /\ first.lastSequence = 0
    BY <1>0 DEF Claimed, Row
  <2>5. PICK b \in EventBytes :
          events' = [events EXCEPT ![e] = Logged({}, first, "execution_status", b)]
    BY <1>3, ZenonT(30) DEF Claim
  <2> HIDE DEF new, first
  <2>6. /\ events'[e] = Logged({}, first, "execution_status", b)
        /\ \A f \in Exec \ {e} : events'[f] = events[f]
    BY <2>5, ZenonT(30) DEF TypeOK
  <2>7. events'[e] = Kept({[attempt |-> row[e].attempt + 1, sequence |-> 1,
                            kind |-> "execution_status", bytes |-> b]})
    <3>1. {} \cup {[attempt |-> first.attempt, sequence |-> first.lastSequence + 1,
                    kind |-> "execution_status", bytes |-> b]}
          = {[attempt |-> row[e].attempt + 1, sequence |-> 1,
              kind |-> "execution_status", bytes |-> b]}
      BY <2>4
    <3> QED
      BY Zenon, <2>6, <3>1 DEF Logged
  <2>8. Restarts(e)
    BY <2>1, <2>2, <2>3, <2>7, ZenonT(30) DEF Restarts
  <2> QED
    BY <2>2, <2>6, <2>8, LeftAlone, ZenonT(30) DEF LogStep
<1> QED
  BY <1>1, <1>2, <1>3, ZenonT(30) DEF claim

LEMMA HolderWrites ==
    ASSUME TypeOK, NEW l \in leases, LeaseHolder(l) PROVE \A f \in Exec : LogStep(f)
<1> DEFINE e == l.executionId
<1>0. e \in Exec /\ row[e] \in Row
  BY DEF TypeOK, Lease
<1>1. CASE valid(row[e], l)
  <2>0. row[e].state \in ActiveStates /\ row[e].state \in Unfinished
    BY <1>1 DEF valid, Unfinished
  <2>1. ASSUME NEW x, row' = [row EXCEPT ![e].leaseExpiresAt = x], UNCHANGED events
        PROVE  \A f \in Exec : LogStep(f)
    <3>1. /\ row'[e] = [row[e] EXCEPT !.leaseExpiresAt = x]
          /\ \A f \in Exec \ {e} : row'[f] = row[f]
      BY <1>0, <2>1 DEF TypeOK
    <3>2. /\ row'[e].state = row[e].state /\ row'[e].attempt = row[e].attempt
          /\ row'[e].lastSequence = row[e].lastSequence
      BY <1>0, <3>1 DEF Row
    <3>3. Quiet(e)
      BY <2>1, <3>2, ZenonT(30) DEF Quiet, isTerminal
    <3> QED
      BY <2>1, <3>1, <3>3, LeftAlone, ZenonT(30) DEF LogStep
  <2>2. ASSUME NEW s \in ActiveStates, NEW kind \in {"execution_status", "console_output"},
               row'[e].state = s, row'[e].attempt = row[e].attempt,
               row'[e].lastSequence = row[e].lastSequence + 1,
               \A f \in Exec \ {e} : row'[f] = row[f], Emit(e, row[e], kind)
        PROVE  \A f \in Exec : LogStep(f)
    <3>1. ~isTerminal(row[e]) /\ ~isTerminal(row'[e])
      BY <2>0, <2>2 DEF isTerminal, ActiveStates, TerminalStates
    <3>2. kind \in EventKind /\ kind # "final_verdict"
      BY DEF EventKind
    <3> QED
      BY <1>0, <2>2, <3>1, <3>2, EmitWrites, ZenonT(30)
  <2>3. CASE renew(l)
    BY <2>1, <2>3, ZenonT(30) DEF renew
  <2>4. CASE markRunning(l)
    <3>1. /\ row'[e] = [row[e] EXCEPT !.state = "RUNNING",
                                      !.lastSequence = row[e].lastSequence + 1]
          /\ \A f \in Exec \ {e} : row'[f] = row[f]
      BY <1>0, <2>4, ZenonT(30) DEF markRunning, TypeOK
    <3>2. /\ row'[e].state = "RUNNING" /\ row'[e].attempt = row[e].attempt
          /\ row'[e].lastSequence = row[e].lastSequence + 1
      BY <1>0, <3>1 DEF Row
    <3> QED
      BY <2>2, <2>4, <3>1, <3>2, ZenonT(30) DEF markRunning, ActiveStates
  <2>5. CASE console(l)
    <3>1. /\ row'[e] = [row[e] EXCEPT !.lastSequence = row[e].lastSequence + 1]
          /\ \A f \in Exec \ {e} : row'[f] = row[f]
      BY <1>0, <2>5 DEF console, TypeOK
    <3>2. /\ row'[e].state = row[e].state /\ row'[e].attempt = row[e].attempt
          /\ row'[e].lastSequence = row[e].lastSequence + 1
      BY <1>0, <3>1 DEF Row
    <3> QED
      BY <2>0, <2>2, <2>5, <3>1, <3>2, ZenonT(30) DEF console
  <2>6. ASSUME NEW verdict \in Judgement, finish(l, verdict) PROVE \A f \in Exec : LogStep(f)
    <3>1. \/ terminal(e, "CANCELLED", None)
          \/ /\ row' = [row EXCEPT ![e] = Ended(row[e], "FINISHED", verdict, None)]
             /\ Emit(e, row[e], "final_verdict")
      BY <2>6 DEF finish
    <3>2. "FINISHED" \in TerminalStates
      BY DEF TerminalStates
    <3> QED
      BY <1>0, <2>0, <3>1, <3>2, TerminalWrites, EndWrites, ZenonT(30)
  <2>7. ASSUME NEW confirmed \in BOOLEAN, fail(l, confirmed) PROVE \A f \in Exec : LogStep(f)
    <3>1. \/ terminal(e, "CANCELLED", None)
          \/ terminal(e, "INTERNAL_ERROR", "CANCELLATION_TIMEOUT")
          \/ terminal(e, "INTERNAL_ERROR", "JOB_FAILURE")
      BY <2>7 DEF fail
    <3> QED
      BY <1>0, <2>0, <3>1, TerminalWrites, ZenonT(30)
  <2>8. CASE recover(l)
    <3>1. \/ terminal(e, "CANCELLED", None)
          \/ terminal(e, "INTERNAL_ERROR", "JOB_FAILURE")
          \/ row' = [row EXCEPT ![e].leaseExpiresAt = now] /\ UNCHANGED events
      BY <2>8 DEF recover
    <3> QED
      BY <1>0, <2>0, <2>1, <3>1, TerminalWrites, ZenonT(30)
  <2> QED
    BY <2>3, <2>4, <2>5, <2>6, <2>7, <2>8, ZenonT(30) DEF LeaseHolder
<1> QED
  BY <1>1, ZenonT(30) DEF LeaseHolder, renew, markRunning, console, finish, fail, recover

LEMMA BatchWrites ==
    ASSUME TypeOK, Maintenance({}) \/ QueueExpiry({}) PROVE \A f \in Exec : LogStep(f)
<1>0. "INTERNAL_ERROR" \in TerminalStates /\ "final_verdict" \in EventKind
  BY DEF TerminalStates, EventKind
<1>1. ASSUME NEW f \in Exec, row[f].state \in Unfinished, NEW code, NEW b \in EventBytes,
             row'[f] = Ended(row[f], "INTERNAL_ERROR", "INTERNAL_ERROR", code),
             events'[f] \subseteq Logged(events[f], row[f], "final_verdict", b),
             Logged(events[f], row[f], "final_verdict", b) \subseteq events'[f] \cup events[f]
      PROVE  LogStep(f)
  <2>1. /\ row'[f].state = "INTERNAL_ERROR" /\ row'[f].attempt = row[f].attempt
        /\ row'[f].lastSequence = row[f].lastSequence + 1
    BY <1>1 DEF TypeOK, Row, Ended
  <2>2. isTerminal(row'[f]) /\ ~isTerminal(row[f])
    BY <1>0, <1>1, <2>1, OpenRow DEF isTerminal
  <2> QED
    BY <1>0, <1>1, <2>1, <2>2, ZenonT(30) DEF LogStep, Writes
<1>2. CASE Maintenance({})
  <2>1. PICK batch \in SUBSET {e \in Exec : Due(row[e])},
             again \in SUBSET {k \in IntentKey : Reofferable(k, row[k.executionId])},
             gone \in SUBSET Stored : maintain(batch, again, gone)
    BY <1>2 DEF Maintenance
  <2> DEFINE ended == {e \in batch : Abandoned(row[e])}
  <2>2. row' = [e \in Exec |->
                 IF e \in ended
                 THEN Ended(row[e], "INTERNAL_ERROR", "INTERNAL_ERROR", AbandonCode(row[e]))
                 ELSE row[e]]
    BY <2>1, ZenonT(30) DEF maintain
  <2>3. PICK b \in [Exec -> EventBytes] : events' = [e \in Exec |->
            (IF e \in ended THEN Logged(events[e], row[e], "final_verdict", b[e])
                            ELSE events[e]) \ {ev \in events[e] : <<e, ev>> \in gone}]
    BY <2>1, ZenonT(30) DEF maintain
  <2>4. ASSUME NEW f \in Exec PROVE LogStep(f)
    <3>1. events'[f] = (IF f \in ended THEN Logged(events[f], row[f], "final_verdict", b[f])
                        ELSE events[f]) \ {ev \in events[f] : <<f, ev>> \in gone}
      BY <2>3, ZenonT(30)
    <3>2. CASE f \in ended
      <4>1. row[f].state \in Unfinished
        BY <3>2 DEF Due, Unfinished
      <4>2. row'[f] = Ended(row[f], "INTERNAL_ERROR", "INTERNAL_ERROR", AbandonCode(row[f]))
        BY <2>2, <3>2, ZenonT(30)
      <4>3. /\ events'[f] \subseteq Logged(events[f], row[f], "final_verdict", b[f])
            /\ Logged(events[f], row[f], "final_verdict", b[f]) \subseteq events'[f] \cup events[f]
        BY <3>1, <3>2, ZenonT(30)
      <4> QED
        BY <1>1, <4>1, <4>2, <4>3, ZenonT(30)
    <3>3. CASE f \notin ended
      <4>1. row'[f] = row[f]
        BY <2>2, <3>3, ZenonT(30)
      <4>2. events'[f] \subseteq events[f]
        BY <3>1, <3>3, ZenonT(30)
      <4> QED
        BY <4>1, <4>2, ZenonT(30) DEF LogStep, Quiet
    <3> QED
      BY <3>2, <3>3
  <2> QED
    BY <2>4
<1>3. CASE QueueExpiry({})
  <2>1. PICK batch \in SUBSET {e \in Exec : QueueExpired(row[e])} : expireQueuedJobs(batch)
    BY <1>3, ZenonT(30) DEF QueueExpiry
  <2>2. row' = [e \in Exec |->
                 IF e \in batch
                 THEN Ended(row[e], "INTERNAL_ERROR", "INTERNAL_ERROR", "QUEUE_TIMEOUT")
                 ELSE row[e]]
    BY <2>1, ZenonT(30) DEF expireQueuedJobs
  <2>3. PICK b \in [Exec -> EventBytes] : events' = [e \in Exec |->
            IF e \in batch THEN Logged(events[e], row[e], "final_verdict", b[e])
                           ELSE events[e]]
    BY <2>1, ZenonT(30) DEF expireQueuedJobs
  <2>4. ASSUME NEW f \in Exec PROVE LogStep(f)
    <3>1. CASE f \in batch
      <4>1. row[f].state \in Unfinished
        BY <3>1 DEF QueueExpired, Unfinished
      <4>2. /\ row'[f] = Ended(row[f], "INTERNAL_ERROR", "INTERNAL_ERROR", "QUEUE_TIMEOUT")
            /\ events'[f] = Logged(events[f], row[f], "final_verdict", b[f])
        BY <2>2, <2>3, <3>1, ZenonT(30)
      <4> QED
        BY <1>1, <4>1, <4>2, ZenonT(30)
    <3>2. CASE f \notin batch
      BY <2>2, <2>3, <3>2, LeftAlone, ZenonT(30)
    <3> QED
      BY <3>1, <3>2
  <2> QED
    BY <2>4
<1> QED
  BY <1>2, <1>3

\* Every step of the system is a step of the log of every execution.
LEMMA LogSteps ==
    ASSUME TypeOK, RowShape, [Next]_vars PROVE \A f \in Exec : LogStep(f)
<1>1. CASE Dispatcher \/ Tick \/ UNCHANGED vars
  <2>1. row' = row /\ events' = events
    BY <1>1, ZenonT(30) DEF Dispatcher, dispatchClaim, dispatchAck, dispatchRetry, Tick, vars
  <2> QED
    BY <2>1, LeftAlone, ZenonT(30)
<1> QED
  BY <1>1, UserWrites, ClaimWrites, HolderWrites, BatchWrites, ZenonT(30) DEF Next
=============================================================================
