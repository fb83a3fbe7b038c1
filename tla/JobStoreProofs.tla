--------------------------- MODULE JobStoreProofs ---------------------------
(***************************************************************************)
(* The shape of rows, authority, the limits of leases, recovery intents,   *)
(* the trigger and CHECK constraints of the Execution table, outcomes and  *)
(* the event log, from the type invariant and the steps of JobStoreSteps.  *)
(***************************************************************************)
EXTENDS JobStoreSteps

-----------------------------------------------------------------------------
(* The shape of rows *)

\* Each kind of row step keeps the columns of the row in keeping with its state.
LEMMA FitsStep ==
    ASSUME TypeOK, NEW e \in Exec, FitsState(row[e]), RowStep(e)
    PROVE  FitsState(row'[e])
<1>0. row[e] \in Row /\ now \in Nat
  BY DEF TypeOK
<1>1. CASE row'[e] = row[e]
  BY <1>1, ZenonT(30)
<1>2. CASE Accepts(e)
  <2>1. /\ row'[e].state = "QUEUED" /\ row'[e].leaseToken = None
        /\ row'[e].leaseExpiresAt = None /\ row'[e].attempt = 0
        /\ row'[e].cancellationRequestedAt = None
        /\ row'[e].verdict = None /\ row'[e].failureCode = None
    BY <1>2, ZenonT(30) DEF Accepts, NoRow
  <2> QED
    BY <2>1 DEF FitsState, ActiveStates
<1>3. CASE Takes(e)
  <2>2. PICK token \in Token :
          /\ row'[e].state = "COMPILING" /\ row'[e].leaseToken = token
          /\ row'[e].leaseExpiresAt = LeaseEnd(row[e])
          /\ row'[e].verdict = row[e].verdict /\ row'[e].failureCode = row[e].failureCode
    BY <1>3, TakesFields
  <2>3. token # None /\ LeaseEnd(row[e]) # None
    BY <1>0, LeaseEndType, ConstantsAssumption, ZenonT(30)
  <2>4. row[e].state \in Unfinished
    BY <1>3, ZenonT(30) DEF Takes, Claimable, Unfinished
  <2> QED
    BY <2>2, <2>3, <2>4, ZenonT(30) DEF FitsState, ActiveStates, Unfinished
<1>4. CASE Extends(e)
  <2>1. PICK x \in Nat : row'[e] = [row[e] EXCEPT !.leaseExpiresAt = x]
    BY <1>4 DEF Extends
  <2>2. /\ row'[e].state = row[e].state /\ row'[e].leaseToken = row[e].leaseToken
        /\ row'[e].leaseExpiresAt = x
        /\ row'[e].verdict = row[e].verdict /\ row'[e].failureCode = row[e].failureCode
    BY <1>0, <2>1 DEF Row
  <2>3. row[e].state \in ActiveStates /\ x # None
    BY <1>4, ConstantsAssumption, ZenonT(30) DEF Extends, Held
  <2> QED
    BY <2>2, <2>3 DEF FitsState, ActiveStates, Unfinished
<1>5. CASE Proceeds(e)
  <2>1. PICK s \in ActiveStates :
          row'[e] = [row[e] EXCEPT !.state = s, !.lastSequence = row[e].lastSequence + 1]
    BY <1>5, ZenonT(30) DEF Proceeds
  <2>2. /\ row'[e].state = s /\ row'[e].leaseToken = row[e].leaseToken
        /\ row'[e].leaseExpiresAt = row[e].leaseExpiresAt
        /\ row'[e].verdict = row[e].verdict /\ row'[e].failureCode = row[e].failureCode
    BY <1>0, <2>1 DEF Row
  <2>3. row[e].state \in ActiveStates
    BY <1>5, ZenonT(30) DEF Proceeds, Held
  <2> QED
    BY <2>2, <2>3 DEF FitsState, ActiveStates, Unfinished
<1>6. CASE Asks(e)
  <2>1. /\ row'[e].state = row[e].state /\ row'[e].leaseToken = row[e].leaseToken
        /\ row'[e].leaseExpiresAt = row[e].leaseExpiresAt
        /\ row'[e].verdict = row[e].verdict /\ row'[e].failureCode = row[e].failureCode
    BY <1>0, <1>6 DEF Asks, Row
  <2>2. row[e].state \in ActiveStates
    BY <1>6, ZenonT(30) DEF Asks
  <2> QED
    BY <2>1, <2>2 DEF FitsState, ActiveStates, Unfinished
<1>7. CASE Ends(e)
  <2>1. PICK state \in TerminalStates, verdict \in Verdict, code \in FailureCode \cup {None} :
          /\ EndCause(row[e], state, verdict, code)
          /\ row'[e].state = state /\ row'[e].leaseToken = None
          /\ row'[e].leaseExpiresAt = None
          /\ row'[e].verdict = verdict /\ row'[e].failureCode = code
    BY <1>7, EndsFields, ZenonT(30)
  <2>3. /\ state = "FINISHED" => verdict \in Judgement /\ code = None
        /\ state = "CANCELLED" => verdict = "CANCELLED" /\ code = None
        /\ state = "INTERNAL_ERROR" => verdict = "INTERNAL_ERROR" /\ code # None
    BY <2>1, NullAssumption DEF EndCause, FailureCode
  <2> QED
    BY <2>1, <2>3, ZenonT(30) DEF FitsState, ActiveStates, Unfinished, TerminalStates
<1> QED
  BY <1>1, <1>2, <1>3, <1>4, <1>5, <1>6, <1>7, ZenonT(30) DEF RowStep

\* How a row step moves the attempt and the lease of a row.
LEMMA AttemptStep ==
    ASSUME TypeOK, RowShape, NEW e \in Exec, RowStep(e)
    PROVE  /\ row'[e].attempt >= row[e].attempt
           /\ \/ Takes(e)
              \/ row'[e].attempt = row[e].attempt /\ row'[e].leaseToken = row[e].leaseToken
              \/ row'[e].state \notin ActiveStates /\ row'[e].attempt = row[e].attempt
<1>0. row[e] \in Row /\ row[e].attempt \in Nat
  BY DEF TypeOK, Row
<1>1. CASE row'[e] = row[e]
  BY <1>0, <1>1
<1>5. CASE Extends(e)
  <2>1. row'[e].attempt = row[e].attempt /\ row'[e].leaseToken = row[e].leaseToken
    BY <1>0, <1>5, ZenonT(30) DEF Extends, Row
  <2> QED
    BY <1>0, <2>1
<1>6. CASE Proceeds(e)
  <2>1. row'[e].attempt = row[e].attempt /\ row'[e].leaseToken = row[e].leaseToken
    BY <1>0, <1>6, ZenonT(30) DEF Proceeds, Row
  <2> QED
    BY <1>0, <2>1
<1>7. CASE Asks(e)
  <2>1. row'[e].attempt = row[e].attempt /\ row'[e].leaseToken = row[e].leaseToken
    BY <1>0, <1>7 DEF Asks, Row
  <2> QED
    BY <1>0, <2>1
<1>2. CASE Accepts(e)
  <2>1. row[e].attempt = 0
    <3>1. row[e] = NoRow
      BY <1>2, ZenonT(30) DEF Accepts, RowShape, FitsState
    <3> QED
      BY <3>1 DEF NoRow
  <2>2. row'[e].attempt = 0 /\ row'[e].state = "QUEUED"
    BY <1>2, ZenonT(30) DEF Accepts, NoRow
  <2> QED
    BY <2>1, <2>2 DEF ActiveStates
<1>3. CASE Takes(e)
  BY <1>0, <1>3, TakesFields, SMTT(60)
<1>4. CASE Ends(e)
  <2>2. row'[e].state \in TerminalStates /\ row'[e].attempt = row[e].attempt
    BY <1>4, EndsFields
  <2> QED
    BY <1>0, <2>2, SMTT(60) DEF TerminalStates, ActiveStates
<1> QED
  BY <1>1, <1>2, <1>3, <1>4, <1>5, <1>6, <1>7, ZenonT(30) DEF RowStep

\* Every step keeps the shape of rows.
LEMMA RowShapeStep == ASSUME TypeOK, RowShape, [Next]_vars PROVE RowShape'
<1>1. \A e \in Exec : RowStep(e)
  BY NextStep
<1>2. leases \subseteq leases'
  BY NextStep, ZenonT(30) DEF Takes
<1>3. ASSUME NEW e \in Exec, row'[e].state \in ActiveStates
      PROVE  [executionId |-> e, attempt |-> row'[e].attempt, token |-> row'[e].leaseToken]
                \in leases'
  <2>0. row[e] \in Row
    BY ZenonT(30) DEF TypeOK
  <2>1. CASE Takes(e)
    BY <2>1, TakesFields, ZenonT(30)
  <2>2. CASE row'[e].attempt = row[e].attempt /\ row'[e].leaseToken = row[e].leaseToken
    <3>1. FitsState(row'[e])
      BY <1>1, FitsStep, ZenonT(30) DEF RowShape
    <3>2. row'[e].leaseToken # None
      BY <1>3, <3>1 DEF FitsState
    <3>3. row[e].state \in ActiveStates
      BY <2>2, <3>2, ZenonT(30) DEF RowShape, FitsState
    <3> QED
      BY <1>2, <2>2, <3>3 DEF RowShape
  <2> QED
    BY <1>1, <1>3, <2>1, <2>2, AttemptStep, ZenonT(30)
<1> QED
  BY <1>1, <1>3, FitsStep, ZenonT(30) DEF RowShape

\* The columns of every row fit its state, and an active row is leased to
\* somebody, in every reachable state.
THEOREM ShapeCorrect == Spec => []RowShape
<1>1. Init => RowShape
  BY DEF Init, RowShape, FitsState, NoRow, ActiveStates, Unfinished
<1>2. TypeOK /\ RowShape /\ [Next]_vars => RowShape'
  BY RowShapeStep
<1> QED
  BY <1>1, <1>2, TypeCorrect, PTL DEF Spec

-----------------------------------------------------------------------------
(* Authority *)

\* A lease that carries authority after a row step either carried it before, or
\* was granted by that step under a token nobody held.
LEMMA AuthorityStep ==
    ASSUME TypeOK, TypeOK', RowShape, [Next]_vars, NEW l \in leases,
           valid(row[l.executionId], l)'
    PROVE  valid(row[l.executionId], l)
<1> DEFINE e == l.executionId
<1>0. e \in Exec /\ row[e] \in Row /\ now \in Nat
  BY DEF TypeOK, Lease
<1>1. RowStep(e) /\ now' >= now
  BY <1>0, NextStep
<1>2. /\ row'[e].state \in ActiveStates
      /\ row'[e].attempt = l.attempt /\ row'[e].leaseToken = l.token
      /\ row'[e].leaseExpiresAt > now' /\ now' < row'[e].queueExpiresAt + JobWindow
  BY DEF valid, deadline
<1>3. CASE row'[e] = row[e]
  <2>1. row[e].leaseExpiresAt \in Nat
    <3>1. row[e].state \in ActiveStates
      BY <1>2, <1>3
    <3> QED
      BY <1>0, <3>1, ZenonT(30) DEF RowShape, FitsState, Row, Instant
  <2>2. row[e].queueExpiresAt + JobWindow \in Nat
    BY <1>0, ConstantsAssumption DEF Row
  <2>3. now' \in Nat
    BY DEF TypeOK
  <2> QED
    BY <1>0, <1>1, <1>2, <1>3, <2>1, <2>2, <2>3 DEF valid, deadline
<1>4. CASE Accepts(e)
  BY <1>2, <1>4 DEF Accepts, NoRow, ActiveStates
<1>5. CASE Takes(e)
  BY <1>0, <1>2, <1>5, TakesFields
<1>6. CASE Extends(e)
  <2>1. /\ row'[e].attempt = row[e].attempt /\ row'[e].leaseToken = row[e].leaseToken
    BY <1>0, <1>6 DEF Extends, Row
  <2> QED
    BY <1>2, <1>6, <2>1 DEF Extends, Held, valid
<1>7. CASE Proceeds(e)
  <2>1. /\ row'[e].attempt = row[e].attempt /\ row'[e].leaseToken = row[e].leaseToken
    BY <1>0, <1>7, ZenonT(30) DEF Proceeds, Row
  <2> QED
    BY <1>2, <1>7, <2>1 DEF Proceeds, Held, valid
<1>8. CASE Asks(e)
  <2>1. /\ row'[e].state = row[e].state /\ row'[e].attempt = row[e].attempt
        /\ row'[e].leaseToken = row[e].leaseToken
        /\ row'[e].leaseExpiresAt = row[e].leaseExpiresAt
        /\ row'[e].queueExpiresAt = row[e].queueExpiresAt
    BY <1>0, <1>8 DEF Asks, Row
  <2>2. row[e].leaseExpiresAt \in Nat
    <3>1. row[e].state \in ActiveStates
      BY <1>8 DEF Asks
    <3> QED
      BY <1>0, <3>1, ZenonT(30) DEF RowShape, FitsState, Row, Instant
  <2>3. row[e].queueExpiresAt + JobWindow \in Nat
    BY <1>0, ConstantsAssumption DEF Row
  <2>4. now' \in Nat
    BY DEF TypeOK
  <2> QED
    BY <1>0, <1>1, <1>2, <2>1, <2>2, <2>3, <2>4, SMTT(60) DEF valid, deadline
<1>9. CASE Ends(e)
  <2>1. row'[e].state \in TerminalStates
    BY <1>0, <1>9, EndsFields, ZenonT(30)
  <2> QED
    BY <1>2, <2>1 DEF TerminalStates, ActiveStates
<1> QED
  BY <1>1, <1>3, <1>4, <1>5, <1>6, <1>7, <1>8, <1>9, ZenonT(30) DEF RowStep

\* Authority once lost never returns: no renewal, claim or maintenance revives a
\* lease that valid has rejected.
THEOREM AuthorityTheorem == Spec => AuthorityNeverReturns
<1>1. TypeOK /\ TypeOK' /\ RowShape /\ [Next]_vars =>
        [\A l \in leases :
            ~valid(row[l.executionId], l) => ~valid(row[l.executionId], l)']_vars
  BY AuthorityStep
<1> QED
  BY <1>1, TypeCorrect, ShapeCorrect, PTL DEF Spec, AuthorityNeverReturns

-----------------------------------------------------------------------------
(* Leases *)

\* A step grants at most the next attempt of one row.
LEMMA LeaseStep ==
    ASSUME TypeOK, RowShape, OneLeasePerAttempt, [Next]_vars
    PROVE  OneLeasePerAttempt'
<1>0. \A e \in Exec : row[e] \in Row /\ row[e].attempt \in Nat
  BY DEF TypeOK, Row
<1>1. \A e \in Exec : RowStep(e)
  BY NextStep
<1>2. \A e \in Exec : row'[e].attempt \in Nat /\ row'[e].attempt >= row[e].attempt
  BY <1>1, AttemptStep, NextType, ZenonT(30) DEF TypeOK, Row
<1>3. \A l \in leases : /\ l.executionId \in Exec /\ l.attempt \in Nat
                        /\ l.attempt <= row'[l.executionId].attempt
  BY <1>0, <1>2 DEF OneLeasePerAttempt, TypeOK, Lease
<1>4. CASE leases' = leases
  BY <1>3, <1>4 DEF OneLeasePerAttempt
<1>5. CASE leases' # leases
  <2>1. PICK e \in Exec : Takes(e)
    BY <1>5, NextStep
  <2>2. PICK token \in Token :
          /\ row'[e].attempt = row[e].attempt + 1
          /\ leases' = leases \cup
              {[executionId |-> e, attempt |-> row[e].attempt + 1, token |-> token]}
    BY <2>1, TakesFields
  <2>3. row'[e].attempt = row[e].attempt + 1
    BY <2>2
  <2> DEFINE new == [executionId |-> e, attempt |-> row[e].attempt + 1, token |-> token]
  <2>4. \A l \in leases : l.executionId = e => l.attempt # new.attempt
    BY <1>0 DEF OneLeasePerAttempt, TypeOK, Lease
  <2>5. new.executionId = e /\ new.attempt = row'[e].attempt
    BY <2>3
  <2>6. leases' = leases \cup {new}
    BY <2>2
  <2> HIDE DEF new
  <2>7. \A l, m \in leases' : l.executionId = m.executionId /\ l.attempt = m.attempt => l = m
    BY <2>4, <2>5, <2>6 DEF OneLeasePerAttempt
  <2>8. \A l \in leases' : l.attempt <= row'[l.executionId].attempt
    BY <1>2, <1>3, <2>5, <2>6
  <2> QED
    BY <2>7, <2>8 DEF OneLeasePerAttempt
<1> QED
  BY <1>4, <1>5

\* No two leases were ever granted for one attempt of an execution, and none for
\* an attempt beyond the row's: at most one caller passes valid at a time.
THEOREM LeaseTheorem == Spec => []OneLeasePerAttempt
<1>1. Init => OneLeasePerAttempt
  BY DEF Init, OneLeasePerAttempt
<1>2. TypeOK /\ RowShape /\ OneLeasePerAttempt /\ [Next]_vars => OneLeasePerAttempt'
  BY LeaseStep
<1> QED
  BY <1>1, <1>2, TypeCorrect, ShapeCorrect, PTL DEF Spec

\* A row step keeps the lease of its row within the limits, and the passing of
\* time can only help.
LEMMA BoundStep ==
    ASSUME TypeOK, TypeOK', RowShape, RowShape', LeaseBounded, [Next]_vars
    PROVE  LeaseBounded'
<1> SUFFICES ASSUME NEW e \in Exec, row'[e].state \in ActiveStates
             PROVE  /\ row'[e].attempt \in 1..MaxAttempts
                    /\ row'[e].leaseExpiresAt <= row'[e].queueExpiresAt + JobWindow
                    /\ row'[e].leaseExpiresAt <= now' + LeaseMs
  BY DEF LeaseBounded, deadline
<1>0. row[e] \in Row /\ now \in Nat /\ now' \in Nat
  BY DEF TypeOK
<1>1. RowStep(e) /\ now' >= now
  BY <1>0, NextStep
<1>2. row[e].state \in ActiveStates =>
        /\ row[e].attempt \in 1..MaxAttempts
        /\ row[e].leaseExpiresAt \in Nat
        /\ row[e].leaseExpiresAt <= row[e].queueExpiresAt + JobWindow
        /\ row[e].leaseExpiresAt <= now + LeaseMs
  BY <1>0, ZenonT(30) DEF LeaseBounded, deadline, RowShape, FitsState, Row, Instant
<1>3. CASE \/ row'[e] = row[e]
           \/ Proceeds(e)
           \/ Asks(e)
  <2>1. /\ row'[e].attempt = row[e].attempt
        /\ row'[e].leaseExpiresAt = row[e].leaseExpiresAt
        /\ row'[e].queueExpiresAt = row[e].queueExpiresAt
        /\ row[e].state \in ActiveStates
    <3>1. CASE row'[e] = row[e]
      BY <3>1
    <3>2. CASE Proceeds(e)
      BY <1>0, <3>2 DEF Proceeds, Held, Row
    <3>3. CASE Asks(e)
      BY <1>0, <3>3 DEF Asks, Row
    <3> QED
      BY <1>3, <3>1, <3>2, <3>3
  <2> QED
    BY <1>0, <1>1, <1>2, <2>1, ConstantsAssumption, SMTT(60) DEF Row
<1>4. CASE Accepts(e)
  BY <1>4 DEF Accepts, NoRow, ActiveStates
<1>5. CASE Takes(e)
  <2>1. /\ row'[e].attempt = row[e].attempt + 1
        /\ row'[e].leaseExpiresAt = LeaseEnd(row[e])
        /\ row'[e].queueExpiresAt = row[e].queueExpiresAt
    BY <1>5, TakesFields, ZenonT(30)
  <2>2. row[e].attempt \in Nat /\ row[e].attempt < MaxAttempts
    BY <1>0, <1>5, ConstantsAssumption, SMTT(60) DEF Takes, Abandoned, Row
  <2> QED
    BY <1>0, <1>1, <2>1, <2>2, LeaseEndType, ConstantsAssumption, SMTT(60) DEF deadline
<1>6. CASE Extends(e)
  <2>1. PICK x \in Nat :
          /\ row'[e] = [row[e] EXCEPT !.leaseExpiresAt = x]
          /\ x <= deadline(row[e]) /\ x <= now + LeaseMs
    BY <1>6 DEF Extends
  <2>2. /\ row'[e].attempt = row[e].attempt /\ row'[e].leaseExpiresAt = x
        /\ row'[e].queueExpiresAt = row[e].queueExpiresAt
    BY <1>0, <2>1 DEF Row
  <2>3. row[e].state \in ActiveStates
    BY <1>6 DEF Extends, Held
  <2> QED
    BY <1>0, <1>1, <1>2, <2>1, <2>2, <2>3, ConstantsAssumption, SMTT(60) DEF deadline
<1>7. CASE Ends(e)
  <2>1. row'[e].state \in TerminalStates
    BY <1>7, EndsFields
  <2> QED
    BY <2>1 DEF TerminalStates, ActiveStates
<1> QED
  BY <1>1, <1>3, <1>4, <1>5, <1>6, <1>7 DEF RowStep

\* However often claim and renew run, an active row is within its attempt limit
\* and its lease within the job's deadline and one lease period from now.
THEOREM BoundTheorem == Spec => []LeaseBounded
<1>1. Init => LeaseBounded
  BY DEF Init, LeaseBounded, NoRow, ActiveStates
<1>2. TypeOK /\ TypeOK' /\ RowShape /\ RowShape' /\ LeaseBounded /\ [Next]_vars
        => LeaseBounded'
  BY BoundStep
<1> QED
  BY <1>1, <1>2, TypeCorrect, ShapeCorrect, PTL DEF Spec

\* After a cancellation request a renewal never carries a lease past the grace
\* period.
THEOREM GraceTheorem == Spec => CancellationGrace
<1>1. ASSUME TypeOK, RowShape, [Next]_vars, NEW e \in Exec,
             row[e].cancellationRequestedAt # None,
             row[e].leaseExpiresAt # None, row'[e].leaseExpiresAt # None,
             row'[e].leaseExpiresAt > row[e].leaseExpiresAt
      PROVE  row'[e].leaseExpiresAt <= row[e].cancellationRequestedAt + CancelGraceMs
  <2>0. row[e] \in Row /\ now \in Nat /\ row[e].leaseExpiresAt \in Nat
    BY <1>1 DEF TypeOK, Row, Instant
  <2>1. RowStep(e)
    BY <1>1, NextStep
  <2>2. CASE Extends(e)
    BY <1>1, <2>0, <2>2 DEF Extends, Row
  <2>3. ~Accepts(e)
    BY <1>1, ZenonT(30) DEF Accepts, NoRow
  <2>4. ~Takes(e)
    BY <1>1, ZenonT(30) DEF Takes, Abandoned
  <2>5. ~Ends(e)
    BY <1>1, EndsFields
  <2>6. ~Proceeds(e) /\ ~Asks(e)
    BY <1>1, ZenonT(30) DEF Proceeds, Asks
  <2> QED
    BY <1>1, <2>0, <2>1, <2>2, <2>3, <2>4, <2>5, <2>6, SMTT(60) DEF RowStep
<1>2. TypeOK /\ RowShape /\ [Next]_vars =>
        [\A e \in Exec :
            /\ row[e].cancellationRequestedAt # None
            /\ row[e].leaseExpiresAt # None /\ row'[e].leaseExpiresAt # None
            /\ row'[e].leaseExpiresAt > row[e].leaseExpiresAt
            => row'[e].leaseExpiresAt <= row[e].cancellationRequestedAt + CancelGraceMs]_vars
  BY <1>1
<1> QED
  BY <1>2, TypeCorrect, ShapeCorrect, PTL DEF Spec, CancellationGrace


-----------------------------------------------------------------------------
(* Recovery intents *)

\* The attempt the intent k replaces is over.
Lapsed(k) ==
    LET r == row'[k.executionId] IN
    /\ now' = now
    /\ r.attempt = k.generation /\ r.leaseExpiresAt <= now

Recovery(k) == k.kind = "EXECUTION_RECOVERY"

\* No recovery intent is ahead of its row.
RecoveryBehind ==
    \A k \in IntentKey : Recovery(k) /\ outbox[k] # None =>
        k.generation <= row[k.executionId].attempt

\* A step creates a recovery intent only for an attempt whose lease has lapsed.
LEMMA IntentStep ==
    ASSUME TypeOK, RowShape, [Next]_vars, NEW k \in IntentKey, Recovery(k), outbox'[k] # None
    PROVE  outbox[k] # None \/ Lapsed(k)
<1>1. ASSUME NEW e \in Exec, Create(e) \/ CancelQueued(e) PROVE outbox[k] # None
  <2>1. k # Key(e, "EXECUTION_CREATED", 0) /\ k # Key(e, "EXECUTION_CANCELLED", 0)
    BY DEF Recovery, Key
  <2>2. outbox'[k] = outbox[k]
    BY <1>1, <2>1, ZenonT(30) DEF Create, CancelQueued, TypeOK
  <2> QED
    BY <2>2
<1>2. ASSUME NEW e \in Exec, claim(e) \/ CancelActive(e) PROVE outbox[k] # None
  BY <1>2, ZenonT(30) DEF claim, ClaimQueueTimeout, ClaimAbandoned, Claim, CancelActive
<1>3. ASSUME NEW l \in leases, LeaseHolder(l) PROVE outbox[k] # None \/ Lapsed(k)
  <2> DEFINE e == l.executionId
  <2>0. e \in Exec /\ row[e] \in Row /\ now \in Nat
    BY DEF TypeOK, Lease
  <2>1. CASE UNCHANGED outbox
    BY <2>1
  <2>2. CASE /\ now' = now
             /\ row' = [row EXCEPT ![e].leaseExpiresAt = now]
             /\ outbox' = [outbox EXCEPT ![Key(e, "EXECUTION_RECOVERY", row[e].attempt)]
                                            = NewIntent]
    <3>1. CASE k = Key(e, "EXECUTION_RECOVERY", row[e].attempt)
      <4>1. k.executionId = e /\ k.generation = row[e].attempt
        BY <3>1, ZenonT(30) DEF Key
      <4>2. row'[e].attempt = row[e].attempt /\ row'[e].leaseExpiresAt = now
        BY <2>0, <2>2, ZenonT(30) DEF TypeOK, Row
      <4> QED
        BY <2>0, <2>2, <4>1, <4>2, SMTT(60) DEF Lapsed
    <3>2. CASE k # Key(e, "EXECUTION_RECOVERY", row[e].attempt)
      BY <2>2, <3>2 DEF TypeOK
    <3> QED
      BY <3>1, <3>2
  <2>3. UNCHANGED outbox \/ recover(l)
    BY <1>3, ZenonT(30) DEF LeaseHolder, renew, markRunning, console, finish, fail
  <2> QED
    BY <2>1, <2>2, <2>3, ZenonT(30) DEF recover
<1>4. CASE Maintenance({})
  <2>1. PICK batch \in SUBSET {e \in Exec : Due(row[e])},
             again \in SUBSET {x \in IntentKey : Reofferable(x, row[x.executionId])},
             gone \in SUBSET Stored : maintain(batch, again, gone)
    BY <1>4, ZenonT(30) DEF Maintenance
  <2> DEFINE ended == {e \in batch : Abandoned(row[e])}
             offered == {Key(e, "EXECUTION_RECOVERY", row[e].attempt) : e \in batch \ ended}
  <2>2. outbox' = [x \in IntentKey |->
          IF x \in offered /\ outbox[x] = None THEN NewIntent
          ELSE IF x \in again THEN [outbox[x] EXCEPT !.publishedAt = None]
          ELSE outbox[x]]
    BY <2>1 DEF maintain
  <2>3. CASE k \in offered
    <3>1. PICK e \in batch \ ended : k = Key(e, "EXECUTION_RECOVERY", row[e].attempt)
      BY <2>3
    <3>2. k.executionId = e /\ k.generation = row[e].attempt
      BY <3>1, ZenonT(30) DEF Key
    <3>3. row'[e] = row[e] /\ now' = now
      BY <2>1, <3>1, ZenonT(30) DEF maintain
    <3>4. row[e].cancellationRequestedAt = None
      BY <3>1, ZenonT(30) DEF Abandoned
    <3>5. row[e].leaseExpiresAt <= now
      BY <3>1, <3>4 DEF Due
    <3> QED
      BY <3>2, <3>3, <3>5 DEF Lapsed
  <2>4. CASE k \notin offered
    <3>1. k \in again => outbox[k] # None
      BY DEF Reofferable
    <3> QED
      BY <2>2, <2>4, <3>1, ZenonT(30)
  <2> QED
    BY <2>3, <2>4
<1>5. CASE QueueExpiry({})
  BY <1>5 DEF QueueExpiry, expireQueuedJobs, Recovery
<1>6. CASE Dispatcher
  <2>1. PICK token \in DispatchToken :
          \/ \E batch \in SUBSET {x \in IntentKey : Dispatchable(outbox[x])} :
              dispatchClaim(batch, token)
          \/ \E x \in IntentKey : dispatchAck(x, token) \/ dispatchRetry(x, token)
    BY <1>6 DEF Dispatcher
  <2>2. ASSUME NEW batch \in SUBSET {x \in IntentKey : Dispatchable(outbox[x])},
               dispatchClaim(batch, token)
        PROVE  outbox[k] # None
    BY <2>2, ZenonT(30) DEF dispatchClaim, Dispatchable
  <2>3. ASSUME NEW x \in IntentKey, dispatchAck(x, token) \/ dispatchRetry(x, token)
        PROVE  outbox[k] # None
    <3>1. CASE x = k
      BY <2>3, <3>1, ZenonT(30) DEF dispatchAck, dispatchRetry, Dispatching
    <3>2. CASE x # k
      BY <2>3, <3>2, ZenonT(30) DEF dispatchAck, dispatchRetry, TypeOK
    <3> QED
      BY <3>1, <3>2
  <2> QED
    BY <2>1, <2>2, <2>3, ZenonT(30)
<1>7. CASE Tick \/ UNCHANGED vars
  BY <1>7, ZenonT(30) DEF Tick, vars
<1> QED
  BY <1>1, <1>2, <1>3, <1>4, <1>5, <1>6, <1>7, ZenonT(30) DEF Next

\* Recovery intents stay behind their rows and behind the end of their leases.
LEMMA RecoveryStep ==
    ASSUME TypeOK, TypeOK', RowShape, RecoveryBehind, RecoveryFollowsLapse, [Next]_vars
    PROVE  RecoveryBehind' /\ RecoveryFollowsLapse'
<1> SUFFICES ASSUME NEW k \in IntentKey, Recovery(k), outbox'[k] # None
             PROVE  /\ k.generation <= row'[k.executionId].attempt
                    /\ /\ row'[k.executionId].state \in ActiveStates
                       /\ row'[k.executionId].attempt = k.generation
                       => row'[k.executionId].leaseExpiresAt <= now'
  BY DEF RecoveryBehind, RecoveryFollowsLapse, Recovery
<1> DEFINE e == k.executionId
<1>0. /\ e \in Exec /\ k.generation \in Nat
      /\ row[e] \in Row /\ row'[e] \in Row /\ now \in Nat /\ now' \in Nat
  BY ConstantsAssumption DEF IntentKey, TypeOK
<1>1. RowStep(e) /\ now' >= now
  BY <1>0, NextStep, SMTT(60)
<1>2. row[e].attempt \in Nat /\ row'[e].attempt \in Nat /\ row'[e].attempt >= row[e].attempt
  BY <1>0, <1>1, AttemptStep, ZenonT(30) DEF Row
<1>3. CASE Lapsed(k)
  BY <1>0, <1>2, <1>3, SMTT(60) DEF Lapsed
<1>4. CASE outbox[k] # None
  <2>1. k.generation <= row'[e].attempt
    BY <1>0, <1>2, <1>4, SMTT(60) DEF RecoveryBehind
  <2>2. ASSUME row'[e].state \in ActiveStates, row'[e].attempt = k.generation
        PROVE  row'[e].leaseExpiresAt <= now'
    <3>1. row[e].attempt = k.generation
      BY <1>0, <1>2, <1>4, <2>2, SMTT(60) DEF RecoveryBehind
    <3>2. row[e].state \in ActiveStates => row[e].leaseExpiresAt <= now
      BY <1>4, <3>1 DEF RecoveryFollowsLapse, Recovery
    <3>3. row[e].state \in ActiveStates => row[e].leaseExpiresAt \in Nat
      BY <1>0, ZenonT(30) DEF RowShape, FitsState, Row, Instant
    <3>4. CASE row'[e] = row[e]
      BY <1>0, <1>1, <2>2, <3>2, <3>3, <3>4, SMTT(60)
    <3>5. CASE Asks(e)
      <4>1. row'[e].leaseExpiresAt = row[e].leaseExpiresAt /\ row[e].state \in ActiveStates
        BY <1>0, <3>5 DEF Asks, Row
      <4> QED
        BY <1>0, <1>1, <3>2, <3>3, <4>1, SMTT(60)
    <3>6. ~Extends(e) /\ ~Proceeds(e)
      <4>1. ~Held(row[e])
        BY <1>0, <3>2, <3>3, SMTT(60) DEF Held
      <4> QED
        BY <4>1, ZenonT(30) DEF Extends, Proceeds
    <3>7. ~Takes(e)
      BY <1>0, <1>2, <2>2, <3>1, TakesFields
    <3>8. ~Accepts(e)
      BY <2>2, ZenonT(30) DEF Accepts, NoRow, ActiveStates
    <3>9. ~Ends(e)
      <4>1. Ends(e) => row'[e].state \in TerminalStates
        BY <1>0, EndsFields, ZenonT(30)
      <4> QED
        BY <2>2, <4>1 DEF TerminalStates, ActiveStates
    <3> QED
      BY <1>1, <3>4, <3>5, <3>6, <3>7, <3>8, <3>9, ZenonT(30) DEF RowStep
  <2> QED
    BY <2>1, <2>2, ZenonT(30)
<1> QED
  BY <1>3, <1>4, IntentStep, ZenonT(30)

\* A recovery intent for the current attempt exists only once that attempt's
\* lease has lapsed: the delivery it causes always finds a claimable row.
THEOREM RecoveryTheorem == Spec => []RecoveryFollowsLapse
<1>1. Init => RecoveryBehind /\ RecoveryFollowsLapse
  BY DEF Init, RecoveryBehind, RecoveryFollowsLapse
<1>2. /\ TypeOK /\ TypeOK' /\ RowShape /\ RecoveryBehind /\ RecoveryFollowsLapse
      /\ [Next]_vars
      => RecoveryBehind' /\ RecoveryFollowsLapse'
  BY RecoveryStep, ZenonT(30)
<1> QED
  BY <1>1, <1>2, TypeCorrect, ShapeCorrect, PTL DEF Spec

-----------------------------------------------------------------------------
(* The database accepts every statement *)

\* A row step is one the lifecycle trigger and the CHECK constraints allow.
LEMMA DatabaseStep ==
    ASSUME TypeOK, TypeOK', RowShape, RowShape', [Next]_vars, NEW e \in Exec
    PROVE  row'[e] = row[e] \/ Lifecycle!Insert(e) \/ Lifecycle!Update(e)
<1>0. row[e] \in Row /\ row'[e] \in Row /\ now \in Nat
  BY DEF TypeOK
<1>1. RowStep(e)
  BY NextStep
<1>2. FitsState(row[e]) /\ FitsState(row'[e])
  BY ZenonT(30) DEF RowShape
<1>3. row'[e].state # "ABSENT" => Lifecycle!Checked(row'[e])
  <2>1. row'[e].state # "ABSENT" => Lifecycle!valid_execution_terminal_fields(row'[e])
    BY <1>0, <1>2, JudgementAssumption, NullAssumption, ZenonT(30)
    DEF FitsState, Lifecycle!valid_execution_terminal_fields, Lifecycle!Leased, Row, State,
        Unfinished, ActiveStates, TerminalStates, Verdict
  <2>2. Lifecycle!valid_execution_counters(row'[e])
    BY <1>0, SMTT(60) DEF Lifecycle!valid_execution_counters, Row
  <2>3. Lifecycle!valid_execution_lease_pair(row'[e])
    BY <1>2 DEF FitsState, Lifecycle!valid_execution_lease_pair, Lifecycle!Leased,
                ActiveStates
  <2> QED
    BY <2>1, <2>2, <2>3, ZenonT(30) DEF Lifecycle!Checked
<1>4. CASE Accepts(e)
  <2>1. row'[e].state = "QUEUED"
    BY <1>4, ZenonT(30) DEF Accepts, NoRow
  <2> QED
    BY <1>3, <1>4, <2>1 DEF Accepts, Lifecycle!Insert
<1>5. ASSUME row[e].state \in Unfinished, row'[e].state # "ABSENT",
             row'[e].mode = row[e].mode, row'[e].queueExpiresAt = row[e].queueExpiresAt,
             row[e].cancellationRequestedAt # None =>
                row'[e].cancellationRequestedAt = row[e].cancellationRequestedAt,
             Lifecycle!LeaseReplacement(row[e], row'[e]),
             Lifecycle!StateGraph(row[e], row'[e]),
             Lifecycle!NoRegress(row[e], row'[e]),
             Lifecycle!QueueTimeoutFromQueue(row[e], row'[e])
      PROVE  Lifecycle!Update(e)
  BY <1>3, <1>5
  DEF Lifecycle!Update, Lifecycle!RequestImmutable, Lifecycle!CancellationImmutable,
      Lifecycle!TerminalImmutable, Lifecycle!Finished, Unfinished, ActiveStates
<1>6. row'[e].state \in Unfinished => Lifecycle!QueueTimeoutFromQueue(row[e], row'[e])
  <2>1. row'[e].state \in Unfinished => row'[e].failureCode = None
    BY <1>2, ZenonT(30) DEF FitsState
  <2> QED
    BY <2>1, NullAssumption, ZenonT(30) DEF Lifecycle!QueueTimeoutFromQueue, FailureCode
<1>7. CASE Takes(e)
  <2>1. PICK token \in Token :
          /\ \A l \in leases : l.token # token
          /\ row'[e].state = "COMPILING" /\ row'[e].mode = row[e].mode
          /\ row'[e].queueExpiresAt = row[e].queueExpiresAt
          /\ row'[e].cancellationRequestedAt = row[e].cancellationRequestedAt
          /\ row'[e].attempt = row[e].attempt + 1 /\ row'[e].leaseToken = token
    BY <1>7, TakesFields, ZenonT(30)
  <2>2. /\ row'[e].state = "COMPILING" /\ row'[e].mode = row[e].mode
        /\ row'[e].queueExpiresAt = row[e].queueExpiresAt
        /\ row'[e].cancellationRequestedAt = row[e].cancellationRequestedAt
        /\ row'[e].attempt = row[e].attempt + 1 /\ row'[e].leaseToken = token
    BY <2>1, ZenonT(30)
  <2>3. \/ row[e].state = "QUEUED" /\ row[e].leaseToken = None
        \/ /\ row[e].state \in ActiveStates /\ row[e].leaseToken # token
           /\ row[e].leaseExpiresAt # None /\ row[e].leaseExpiresAt <= now
    <3>1. CASE row[e].state = "QUEUED"
      BY <1>2, <3>1, ZenonT(30) DEF FitsState, ActiveStates
    <3>2. CASE row[e].state \in ActiveStates /\ row[e].leaseExpiresAt <= now
      <4>1. [executionId |-> e, attempt |-> row[e].attempt, token |-> row[e].leaseToken]
              \in leases
        BY <3>2, ZenonT(30) DEF RowShape
      <4>2. row[e].leaseToken # token
        BY <2>1, <4>1, ZenonT(30)
      <4> QED
        BY <1>2, <3>2, <4>2, ZenonT(30) DEF FitsState
    <3> QED
      BY <1>7, <3>1, <3>2, ZenonT(30) DEF Takes, Claimable
  <2>4. row[e].attempt \in Nat
    BY <1>0 DEF Row
  <2>5. Lifecycle!NoRegress(row[e], row'[e])
    BY <2>2, <2>4, SMTT(60) DEF Lifecycle!NoRegress
  <2>6. Lifecycle!LeaseReplacement(row[e], row'[e]) /\ Lifecycle!StateGraph(row[e], row'[e])
    BY <2>2, <2>3, ZenonT(30)
    DEF Lifecycle!LeaseReplacement, Lifecycle!StateGraph, Lifecycle!Takeover,
        Lifecycle!Leased, ActiveStates
  <2>7. row[e].state \in Unfinished /\ row'[e].state \in Unfinished
    BY <2>2, <2>3, ZenonT(30) DEF Unfinished, ActiveStates
  <2> QED
    BY <1>5, <1>6, <2>2, <2>5, <2>6, <2>7, ZenonT(30)
<1>8. ASSUME row[e].state \in ActiveStates, row'[e].state \in ActiveStates,
             row[e].state = "RUNNING" => row'[e].state = "RUNNING",
             row'[e].mode = row[e].mode, row'[e].queueExpiresAt = row[e].queueExpiresAt,
             row[e].cancellationRequestedAt # None =>
                row'[e].cancellationRequestedAt = row[e].cancellationRequestedAt,
             row'[e].leaseToken = row[e].leaseToken, row'[e].attempt = row[e].attempt,
             row'[e].lastSequence >= row[e].lastSequence
      PROVE  Lifecycle!Update(e)
  <2>1. Lifecycle!NoRegress(row[e], row'[e]) /\ Lifecycle!LeaseReplacement(row[e], row'[e])
    BY <1>8, ZenonT(30) DEF Lifecycle!NoRegress, Lifecycle!LeaseReplacement
  <2>2. Lifecycle!StateGraph(row[e], row'[e])
    BY <1>8, ZenonT(30) DEF Lifecycle!StateGraph, ActiveStates
  <2>3. row[e].state \in Unfinished /\ row'[e].state \in Unfinished
    BY <1>8, ZenonT(30) DEF Unfinished
  <2> QED
    BY <1>5, <1>6, <1>8, <2>1, <2>2, <2>3, ZenonT(30) DEF Unfinished, ActiveStates
<1>9. CASE Extends(e) \/ Proceeds(e) \/ Asks(e)
  <2>0. row[e].lastSequence \in Nat
    BY <1>0, ZenonT(30) DEF Row
  <2>1. CASE Extends(e)
    <3>1. /\ row'[e].state = row[e].state /\ row'[e].mode = row[e].mode
          /\ row'[e].queueExpiresAt = row[e].queueExpiresAt
          /\ row'[e].cancellationRequestedAt = row[e].cancellationRequestedAt
          /\ row'[e].leaseToken = row[e].leaseToken /\ row'[e].attempt = row[e].attempt
          /\ row'[e].lastSequence = row[e].lastSequence
          /\ row[e].state \in ActiveStates
      BY <1>0, <2>1 DEF Extends, Held, Row
    <3> QED
      BY <1>8, <2>0, <3>1, SMTT(60)
  <2>2. CASE Proceeds(e)
    <3>1. PICK s \in ActiveStates :
            /\ s = "COMPILING" => row[e].state = "COMPILING"
            /\ row'[e] = [row[e] EXCEPT !.state = s, !.lastSequence = row[e].lastSequence + 1]
      BY <2>2, ZenonT(30) DEF Proceeds
    <3>2. /\ row'[e].state = s /\ row'[e].mode = row[e].mode
          /\ row'[e].queueExpiresAt = row[e].queueExpiresAt
          /\ row'[e].cancellationRequestedAt = row[e].cancellationRequestedAt
          /\ row'[e].leaseToken = row[e].leaseToken /\ row'[e].attempt = row[e].attempt
          /\ row'[e].lastSequence = row[e].lastSequence + 1
      BY <1>0, <3>1 DEF Row
    <3>3. row[e].state \in ActiveStates /\ row[e].state = "RUNNING" => s = "RUNNING"
      BY <3>1 DEF ActiveStates
    <3>4. row[e].state \in ActiveStates
      BY <2>2, ZenonT(30) DEF Proceeds, Held
    <3>5. row'[e].lastSequence >= row[e].lastSequence
      BY <2>0, <3>2, SMTT(60)
    <3> QED
      BY <1>8, <3>1, <3>2, <3>3, <3>4, <3>5, ZenonT(30)
  <2>3. CASE Asks(e)
    <3>1. /\ row'[e].state = row[e].state /\ row'[e].mode = row[e].mode
          /\ row'[e].queueExpiresAt = row[e].queueExpiresAt
          /\ row[e].cancellationRequestedAt = None
          /\ row'[e].leaseToken = row[e].leaseToken /\ row'[e].attempt = row[e].attempt
          /\ row'[e].lastSequence = row[e].lastSequence + 1
          /\ row[e].state \in ActiveStates
      BY <1>0, <2>3, ZenonT(30) DEF Asks, Row
    <3> QED
      BY <1>8, <2>0, <3>1, SMTT(60)
  <2> QED
    BY <1>9, <2>1, <2>2, <2>3, ZenonT(30)
<1>10. CASE Ends(e)
  <2>1. PICK state \in TerminalStates, verdict \in Verdict, code \in FailureCode \cup {None} :
          /\ EndCause(row[e], state, verdict, code)
          /\ row'[e].state = state /\ row'[e].failureCode = code
          /\ row'[e].mode = row[e].mode /\ row'[e].queueExpiresAt = row[e].queueExpiresAt
          /\ row'[e].cancellationRequestedAt = row[e].cancellationRequestedAt
          /\ row'[e].attempt = row[e].attempt /\ row'[e].leaseToken = None
          /\ row'[e].lastSequence = row[e].lastSequence + 1
    BY <1>10, EndsFields, ZenonT(30)
  <2>2. /\ row'[e].state = state /\ row'[e].failureCode = code
        /\ row'[e].mode = row[e].mode /\ row'[e].queueExpiresAt = row[e].queueExpiresAt
        /\ row'[e].cancellationRequestedAt = row[e].cancellationRequestedAt
        /\ row'[e].attempt = row[e].attempt /\ row'[e].leaseToken = None
        /\ row'[e].lastSequence = row[e].lastSequence + 1
    BY <2>1, ZenonT(30)
  <2>3. /\ row[e].state \in Unfinished
        /\ row[e].state = "QUEUED" => state # "FINISHED"
        /\ code = "QUEUE_TIMEOUT" => row[e].state = "QUEUED" /\ state = "INTERNAL_ERROR"
    BY <2>1, NullAssumption, ZenonT(30) DEF EndCause, Unfinished, ActiveStates, FailureCode
  <2>4. Lifecycle!NoRegress(row[e], row'[e])
    BY <1>0, <2>2, SMTT(60) DEF Lifecycle!NoRegress, Row
  <2>5. /\ Lifecycle!LeaseReplacement(row[e], row'[e])
        /\ Lifecycle!QueueTimeoutFromQueue(row[e], row'[e])
    BY <2>2, <2>3, ZenonT(30) DEF Lifecycle!LeaseReplacement, Lifecycle!QueueTimeoutFromQueue
  <2>6. Lifecycle!StateGraph(row[e], row'[e])
    BY <2>2, <2>3, ZenonT(30)
    DEF Lifecycle!StateGraph, Lifecycle!Finished, Unfinished, ActiveStates, TerminalStates
  <2>7. row'[e].state # "ABSENT"
    BY <2>2 DEF TerminalStates
  <2> QED
    BY <1>5, <2>2, <2>3, <2>4, <2>5, <2>6, <2>7, ZenonT(30)
<1> QED
  BY <1>1, <1>4, <1>7, <1>9, <1>10, ZenonT(30) DEF RowStep

\* JobStore implements ExecutionLifecycle: no operation, in any interleaving, is
\* refused by the trigger or a CHECK constraint of the Execution table.
THEOREM DatabaseTheorem == Spec => AcceptedByDatabase
<1>1. Init => Lifecycle!Init
  BY DEF Init, Lifecycle!Init, NoRow
<1>2. TypeOK /\ TypeOK' /\ RowShape /\ RowShape' /\ [Next]_vars
        => [Lifecycle!Next]_<<now, row>>
  BY DatabaseStep DEF Lifecycle!Next
<1> QED
  BY <1>1, <1>2, TypeCorrect, ShapeCorrect, PTL
  DEF Spec, AcceptedByDatabase, Lifecycle!Spec

-----------------------------------------------------------------------------
(* Outcomes and notifications *)

\* The outcome of row r has its cause.
Caused(r) ==
    /\ r.state = "FINISHED" => r.cancellationRequestedAt = None /\ r.attempt > 0
    /\ r.state = "CANCELLED" => (r.cancellationRequestedAt # None <=> r.attempt > 0)
    /\ r.failureCode = "QUEUE_TIMEOUT" => r.attempt = 0 /\ r.cancellationRequestedAt = None
    /\ r.failureCode = "CANCELLATION_TIMEOUT" <=>
        r.state = "INTERNAL_ERROR" /\ r.cancellationRequestedAt # None
    /\ r.failureCode = "LEASE_EXPIRED" => r.attempt = MaxAttempts
    /\ r.failureCode = "JOB_TIMEOUT" => r.attempt < MaxAttempts /\ now >= deadline(r)

\* The notification of execution e, if any, is that of its outcome.
Announced(e) ==
    notification[e] # None =>
        /\ row[e].mode = "SUBMIT" /\ row[e].state \in {"FINISHED", "INTERNAL_ERROR"}
        /\ notification[e] = row[e].verdict

\* The step that ends e tells its owner.
Announces(e) ==
    /\ row[e].leaseToken # None
    /\ row'[e].mode = "SUBMIT" /\ row'[e].state \in TerminalStates
    /\ notification'[e] = row'[e].verdict /\ notification'[e] # "CANCELLED"

\* A row that has not ended has no failure code.
LEMMA OpenCode ==
    ASSUME NEW r, FitsState(r), r.state \in State \ TerminalStates
    PROVE  r.failureCode \notin {"QUEUE_TIMEOUT", "CANCELLATION_TIMEOUT",
                                 "LEASE_EXPIRED", "JOB_TIMEOUT"}
<1>1. r.failureCode = None
  <2>1. CASE r.state = "ABSENT"
    BY <2>1 DEF FitsState, NoRow
  <2>2. CASE r.state \in Unfinished
    BY <2>2, ZenonT(30) DEF FitsState
  <2> QED
    BY <2>1, <2>2 DEF State
<1> QED
  BY <1>1, NullAssumption DEF FailureCode

\* A row ends with a cause.
LEMMA EndCaused ==
    ASSUME TypeOK, RowShape, LeaseBounded, NEW e \in Exec, Ends(e), now' \in Nat, now' >= now
    PROVE  Caused(row[e])'
<1> DEFINE r == row[e]
<1>0. r \in Row /\ now \in Nat
  BY DEF TypeOK
<1>1. PICK state \in TerminalStates, verdict \in Verdict, code \in FailureCode \cup {None} :
        /\ EndCause(r, state, verdict, code)
        /\ row'[e].state = state /\ row'[e].failureCode = code
        /\ row'[e].attempt = r.attempt
        /\ row'[e].cancellationRequestedAt = r.cancellationRequestedAt
        /\ row'[e].queueExpiresAt = r.queueExpiresAt
  BY EndsFields, ZenonT(30)
<1>2. r.state = "QUEUED" => r.attempt = 0 /\ r.cancellationRequestedAt = None
  BY ZenonT(30) DEF RowShape, FitsState
<1>3. r.state \in ActiveStates => r.attempt \in 1..MaxAttempts
  BY ZenonT(30) DEF LeaseBounded
<1>4. deadline(r) \in Nat /\ deadline(row'[e]) = deadline(r)
  BY <1>0, <1>1, ConstantsAssumption DEF deadline, Row
<1>5. None \notin {"QUEUE_TIMEOUT", "CANCELLATION_TIMEOUT", "LEASE_EXPIRED", "JOB_TIMEOUT"}
  BY NullAssumption DEF FailureCode
<1>6. /\ state = "FINISHED" => r.cancellationRequestedAt = None /\ r.attempt > 0
      /\ state = "CANCELLED" => (r.cancellationRequestedAt # None <=> r.attempt > 0)
      /\ code = "QUEUE_TIMEOUT" => r.attempt = 0 /\ r.cancellationRequestedAt = None
      /\ code = "CANCELLATION_TIMEOUT" <=>
          state = "INTERNAL_ERROR" /\ r.cancellationRequestedAt # None
      /\ code = "LEASE_EXPIRED" => r.attempt = MaxAttempts
      /\ code = "JOB_TIMEOUT" => r.attempt < MaxAttempts /\ now >= deadline(r)
  BY <1>0, <1>1, <1>2, <1>3, <1>5, ConstantsAssumption, SMTT(60) DEF EndCause, ActiveStates
<1>7. now >= deadline(r) => now' >= deadline(r)
  BY <1>0, <1>4
<1> HIDE DEF r
<1> QED
  BY <1>1, <1>4, <1>6, <1>7, ZenonT(60) DEF Caused

\* The statement that ends a row announces nothing but its end.
LEMMA NotifyOne ==
    ASSUME TypeOK, NEW e \in Exec, NEW f \in Exec, NEW state \in TerminalStates,
           NEW verdict, NEW code, Notify(e, verdict),
           row' = [row EXCEPT ![e] = Ended(row[e], state, verdict, code)]
    PROVE  notification'[f] = notification[f] \/ Announces(f)
<1>1. PICK wants \in BOOLEAN : notification' =
        [notification EXCEPT ![e] = notifyExecution(notification[e], row[e], verdict, wants)]
  BY Zenon DEF Notify
<1>2. CASE f # e
  BY <1>1, <1>2 DEF TypeOK
<1>3. CASE f = e
  <2>1. /\ notification'[e] = notifyExecution(notification[e], row[e], verdict, wants)
        /\ row'[e] = Ended(row[e], state, verdict, code)
    BY <1>1 DEF TypeOK
  <2>2. row'[e].mode = row[e].mode /\ row'[e].state = state /\ row'[e].verdict = verdict
    BY <2>1 DEF TypeOK, Row, Ended
  <2> QED
    BY <1>3, <2>1, <2>2, ZenonT(30) DEF notifyExecution, Announces
<1> QED
  BY <1>2, <1>3

\* A step that touches a notification ends its execution with the verdict it tells.
LEMMA NotifyStep ==
    ASSUME TypeOK, [Next]_vars, NEW f \in Exec
    PROVE  notification'[f] = notification[f] \/ Announces(f)
<1> DEFINE Goal == notification'[f] = notification[f] \/ Announces(f)
<1>0. {"FINISHED", "CANCELLED", "INTERNAL_ERROR"} = TerminalStates
  BY DEF TerminalStates
<1>1. ASSUME NEW e \in Exec, NEW state \in {"CANCELLED", "INTERNAL_ERROR"}, NEW code,
             terminal(e, state, code)
      PROVE  Goal
  BY Zenon, <1>0, <1>1, NotifyOne DEF terminal
<1>2. ASSUME NEW e \in Exec, Create(e) \/ claim(e) \/ CancelQueued(e) \/ CancelActive(e)
      PROVE  Goal
  <2>1. \/ notification' = notification
        \/ terminal(e, "INTERNAL_ERROR", "QUEUE_TIMEOUT")
        \/ terminal(e, "INTERNAL_ERROR", AbandonCode(row[e]))
        \/ terminal(e, "CANCELLED", None)
    BY <1>2, ZenonT(30) DEF Create, claim, ClaimQueueTimeout, ClaimAbandoned, Claim,
                            CancelQueued, CancelActive
  <2> QED
    BY <1>1, <2>1
<1>3. ASSUME NEW l \in leases, LeaseHolder(l) PROVE Goal
  <2> DEFINE e == l.executionId
  <2>0. e \in Exec
    BY DEF TypeOK, Lease
  <2>1. \/ notification' = notification
        \/ terminal(e, "CANCELLED", None)
        \/ terminal(e, "INTERNAL_ERROR", "CANCELLATION_TIMEOUT")
        \/ terminal(e, "INTERNAL_ERROR", "JOB_FAILURE")
        \/ \E verdict \in Judgement : finish(l, verdict)
    BY <1>3, ZenonT(30) DEF LeaseHolder, renew, markRunning, console, fail, recover
  <2>2. ASSUME NEW verdict \in Judgement, finish(l, verdict) PROVE Goal
    <3>1. \/ terminal(e, "CANCELLED", None)
          \/ /\ row' = [row EXCEPT ![e] = Ended(row[e], "FINISHED", verdict, None)]
             /\ Notify(e, verdict)
      BY <2>2 DEF finish
    <3> QED
      BY <1>0, <1>1, <2>0, <3>1, NotifyOne
  <2> QED
    BY <1>1, <2>0, <2>1, <2>2, ZenonT(30)
<1>4. CASE Maintenance({})
  <2>1. PICK batch \in SUBSET {e \in Exec : Due(row[e])},
             again \in SUBSET {x \in IntentKey : Reofferable(x, row[x.executionId])},
             gone \in SUBSET Stored : maintain(batch, again, gone)
    BY <1>4, ZenonT(30) DEF Maintenance
  <2> DEFINE ended == {e \in batch : Abandoned(row[e])}
  <2>2. PICK wants \in [Exec -> BOOLEAN] : notification' = [e \in Exec |->
            IF e \in ended
            THEN notifyExecution(notification[e], row[e], "INTERNAL_ERROR", wants[e])
            ELSE notification[e]]
    BY <2>1 DEF maintain
  <2>3. f \in ended =>
          row'[f] = Ended(row[f], "INTERNAL_ERROR", "INTERNAL_ERROR", AbandonCode(row[f]))
    BY <2>1, ZenonT(30) DEF maintain
  <2>4. notification'[f] = IF f \in ended
            THEN notifyExecution(notification[f], row[f], "INTERNAL_ERROR", wants[f])
            ELSE notification[f]
    BY <2>2
  <2>5. f \in ended =>
          /\ row'[f].mode = row[f].mode
          /\ row'[f].state = "INTERNAL_ERROR" /\ row'[f].verdict = "INTERNAL_ERROR"
    BY Zenon, <2>3 DEF TypeOK, Row, Ended
  <2> QED
    BY <1>0, <2>4, <2>5, ZenonT(30) DEF notifyExecution, Announces
<1>5. CASE QueueExpiry({})
  BY <1>5, ZenonT(30) DEF QueueExpiry, expireQueuedJobs
<1>6. CASE Dispatcher \/ Tick \/ UNCHANGED vars
  BY <1>6, ZenonT(30) DEF Dispatcher, dispatchClaim, dispatchAck, dispatchRetry, Tick, vars
<1> QED
  BY <1>2, <1>3, <1>4, <1>5, <1>6, ZenonT(30) DEF Next

\* A row that has ended does not move.
LEMMA EndedStays ==
    ASSUME NEW e \in Exec, RowStep(e), row[e].state \in TerminalStates
    PROVE  row'[e] = row[e]
<1>1. row[e].state \notin {"ABSENT", "QUEUED"} \cup ActiveStates
  BY DEF TerminalStates, ActiveStates
<1>2. ~Accepts(e) /\ ~Takes(e) /\ ~Extends(e) /\ ~Proceeds(e) /\ ~Asks(e)
  BY <1>1, ZenonT(30) DEF Accepts, Takes, Claimable, Extends, Proceeds, Held, Asks
<1>3. ~Ends(e)
  BY <1>1, ZenonT(30) DEF Ends, EndCause
<1> QED
  BY <1>2, <1>3, ZenonT(30) DEF RowStep

LEMMA OutcomeStep ==
    ASSUME TypeOK, TypeOK', RowShape, RowShape', LeaseBounded, [Next]_vars,
           NEW e \in Exec, Caused(row[e]), Announced(e)
    PROVE  Caused(row[e])' /\ Announced(e)'
<1>0. /\ row[e] \in Row /\ row'[e] \in Row /\ now \in Nat /\ now' \in Nat
      /\ FitsState(row[e]) /\ FitsState(row'[e])
  BY Zenon DEF TypeOK, RowShape
<1>1. RowStep(e) /\ now' >= now
  BY <1>0, NextStep, SMTT(60)
<1>2. Caused(row[e])'
  <2>1. CASE row'[e].state \notin TerminalStates
    <3>1. row'[e].state \in State \ TerminalStates
      BY <1>0, <2>1 DEF Row
    <3>2. row'[e].failureCode \notin {"QUEUE_TIMEOUT", "CANCELLATION_TIMEOUT",
                                     "LEASE_EXPIRED", "JOB_TIMEOUT"}
      BY <1>0, <3>1, OpenCode
    <3>3. row'[e].state \notin {"FINISHED", "CANCELLED", "INTERNAL_ERROR"}
      BY <2>1 DEF TerminalStates
    <3> QED
      BY <3>2, <3>3, ZenonT(30) DEF Caused
  <2>2. CASE row[e].state \in TerminalStates
    <3>1. row'[e] = row[e]
      BY <1>1, <2>2, EndedStays
    <3>2. deadline(row[e]) \in Nat
      BY <1>0, ConstantsAssumption DEF deadline, Row
    <3>3. now >= deadline(row[e]) => now' >= deadline(row[e])
      BY <1>0, <1>1, <3>2
    <3> QED
      BY <3>1, <3>3, ZenonT(30) DEF Caused, deadline
  <2>3. CASE Ends(e)
    BY <1>0, <1>1, <2>3, EndCaused
  <2>4. ASSUME row[e].state \notin TerminalStates, row'[e].state \in TerminalStates PROVE Ends(e)
    <3>1. row'[e].state # row[e].state /\ row'[e].state \notin {"QUEUED"} \cup ActiveStates
      BY <2>4 DEF TerminalStates, ActiveStates
    <3>2. ~Accepts(e) /\ ~Extends(e) /\ ~Proceeds(e) /\ ~Asks(e)
      BY Zenon, <1>0, <3>1 DEF Accepts, Extends, Proceeds, Asks, NoRow, Row
    <3>3. ~Takes(e)
      BY <3>1, TakesFields DEF ActiveStates
    <3> QED
      BY <1>1, <3>1, <3>2, <3>3, ZenonT(30) DEF RowStep
  <2> QED
    BY <2>1, <2>2, <2>3, <2>4
<1>3. Announced(e)'
  <2>1. CASE notification'[e] = notification[e]
    <3>1. notification[e] # None => row[e].state \in TerminalStates
      BY ZenonT(30) DEF Announced, TerminalStates
    <3>2. notification[e] # None => row'[e] = row[e]
      BY <1>1, <3>1, EndedStays
    <3> QED
      BY <2>1, <3>2, ZenonT(30) DEF Announced
  <2>2. CASE Announces(e)
    <3>1. row'[e].state # "CANCELLED"
      BY <1>0, <2>2, ZenonT(30) DEF Announces, FitsState
    <3> QED
      BY <2>2, <3>1 DEF Announces, Announced, TerminalStates
  <2> QED
    BY <2>1, <2>2, NotifyStep
<1> QED
  BY <1>2, <1>3

\* Every outcome has its cause - a verdict was reached without a cancellation
\* request, a cancellation was asked for, a timeout really passed - and the owner
\* is told the verdict of a finished submission and nothing else.
THEOREM OutcomeTheorem == Spec => []OutcomeExplained
<1>0. OutcomeExplained <=> \A e \in Exec : Caused(row[e]) /\ Announced(e)
  BY ZenonT(60) DEF OutcomeExplained, Caused, Announced
<1>1. Init => OutcomeExplained
  <2> SUFFICES ASSUME Init, NEW e \in Exec PROVE Caused(row[e]) /\ Announced(e)
    BY <1>0
  <2>1. row[e] = NoRow /\ notification[e] = None
    BY DEF Init
  <2> QED
    BY <2>1, NullAssumption DEF Caused, Announced, NoRow, FailureCode
<1>2. /\ TypeOK /\ TypeOK' /\ RowShape /\ RowShape' /\ LeaseBounded
      /\ OutcomeExplained /\ [Next]_vars
      => OutcomeExplained'
  <2> SUFFICES ASSUME TypeOK, TypeOK', RowShape, RowShape', LeaseBounded,
                      \A e \in Exec : Caused(row[e]) /\ Announced(e), [Next]_vars,
                      NEW e \in Exec
               PROVE  Caused(row[e])' /\ Announced(e)'
    BY <1>0, ZenonT(60) DEF OutcomeExplained, Caused, Announced
  <2> QED
    BY OutcomeStep, ZenonT(30)
<1> QED
  BY <1>1, <1>2, TypeCorrect, ShapeCorrect, BoundTheorem, PTL DEF Spec

-----------------------------------------------------------------------------
(* The event log *)

\* The events S of the row r are in order.
LogOf(r, S) ==
    /\ IsFiniteSet(S) /\ S \subseteq Event
    /\ r.state # "ABSENT" => r.lastSequence > 0
    /\ \A ev \in S :
        /\ ev.attempt = r.attempt /\ ev.sequence \in 1..r.lastSequence
        /\ ev.kind = "final_verdict" <=>
            r.state \in TerminalStates /\ ev.sequence = r.lastSequence
    /\ \A ev, fv \in S : ev.sequence = fv.sequence => ev = fv
    /\ Cardinality(S) <= ReplayRows /\ Bytes(S) <= ReplayBytes

\* Fewer events are within the limits, too.
LEMMA FewerWithin ==
    ASSUME NEW S, S \subseteq Event, IsFiniteSet(S), NEW T, T \subseteq S,
           Cardinality(S) <= ReplayRows, Bytes(S) <= ReplayBytes
    PROVE  IsFiniteSet(T) /\ Cardinality(T) <= ReplayRows /\ Bytes(T) <= ReplayBytes
<1>1. IsFiniteSet(T) /\ Cardinality(T) <= Cardinality(S)
  BY FS_Subset
<1>2. Cardinality(T) \in Nat /\ Cardinality(S) \in Nat
  BY <1>1, FS_CardinalityType
<1>3. Bytes(T) \in Nat /\ Bytes(S) \in Nat /\ Bytes(T) <= Bytes(S)
  BY BytesGrow
<1>4. ReplayRows \in Nat /\ ReplayBytes \in Nat
  BY ConstantsAssumption
<1> QED
  BY <1>1, <1>2, <1>3, <1>4

\* A log in order with one more event, the newest, is in order, whatever is pruned.
LEMMA LogMore ==
    ASSUME NEW r, NEW S, NEW ev \in Event, NEW T, T \subseteq Kept(S \cup {ev}),
           S \subseteq Event, IsFiniteSet(S), ev.sequence > 0,
           r.attempt = ev.attempt, r.lastSequence = ev.sequence,
           ev.kind = "final_verdict" <=> r.state \in TerminalStates,
           \A x \in S : /\ x.attempt = ev.attempt /\ x.sequence \in 1..ev.sequence - 1
                        /\ x.kind # "final_verdict",
           \A x, y \in S : x.sequence = y.sequence => x = y
    PROVE  LogOf(r, T)
<1> DEFINE all == S \cup {ev}
<1>0. ev.sequence \in Nat
  BY DEF Event
<1>1. all \subseteq Event /\ IsFiniteSet(all)
  BY FS_AddElement
<1>2. \A x, y \in all : x.attempt = y.attempt
  OBVIOUS
<1>3. \A x \in all : x = ev \/ (x \in S /\ x.sequence < ev.sequence /\ x.sequence \in 1..ev.sequence)
  BY <1>0
<1>4. T \subseteq all /\ Kept(all) \subseteq all
  BY KeptSubset
<1>5. IsFiniteSet(Kept(all))
  BY Zenon, <1>1, <1>4, FS_Subset
<1>6. Cardinality(Kept(all)) <= ReplayRows /\ Bytes(Kept(all)) <= ReplayBytes
  BY <1>1, <1>2, KeptWithin
<1>7. IsFiniteSet(T) /\ Cardinality(T) <= ReplayRows /\ Bytes(T) <= ReplayBytes
  BY <1>1, <1>4, <1>5, <1>6, FewerWithin, ZenonT(30)
<1>8. \A x \in all :
        /\ x.attempt = r.attempt /\ x.sequence \in 1..r.lastSequence
        /\ x.kind = "final_verdict" <=> r.state \in TerminalStates /\ x.sequence = r.lastSequence
  BY <1>0, <1>3
<1>9. \A x, y \in all : x.sequence = y.sequence => x = y
  BY <1>0, <1>3
<1> HIDE DEF all
<1> QED
  BY <1>1, <1>4, <1>7, <1>8, <1>9, ZenonT(30) DEF LogOf

\* The newest event of a step that writes is new, and stored.
LEMMA WrittenStored ==
    ASSUME TypeOK, NEW e \in Exec, LogOf(row[e], events[e]), Writes(e)
    PROVE  \E ev \in Event :
             /\ ev.attempt = row'[e].attempt /\ ev.sequence = row'[e].lastSequence
             /\ ev.kind = "final_verdict" <=> isTerminal(row'[e])
             /\ events'[e] \subseteq Kept(events[e] \cup {ev})
             /\ ev \in events'[e]
<1>1. PICK kind \in EventKind, b \in EventBytes :
        /\ kind = "final_verdict" <=> isTerminal(row'[e])
        /\ events'[e] \subseteq Logged(events[e], row[e], kind, b)
        /\ Logged(events[e], row[e], kind, b) \subseteq events'[e] \cup events[e]
  BY ZenonT(30) DEF Writes
<1> DEFINE n == row[e].lastSequence + 1
           ev == [attempt |-> row[e].attempt, sequence |-> n, kind |-> kind, bytes |-> b]
<1>2. row[e].attempt \in Nat /\ row[e].lastSequence \in Nat /\ n \in Nat
  BY DEF TypeOK, Row
<1>3. row'[e].attempt = row[e].attempt /\ row'[e].lastSequence = n
  BY Zenon DEF Writes
<1>4. Logged(events[e], row[e], kind, b) = Kept(events[e] \cup {ev})
  BY Zenon DEF Logged
<1>5. \A x \in events[e] : x.attempt = row[e].attempt /\ x.sequence < n
  BY <1>2 DEF LogOf
<1> HIDE DEF n
<1>6. ev \in Event
  BY <1>2 DEF Event
<1>7. ev.attempt = row[e].attempt /\ ev.sequence = n /\ ev.kind = kind
  OBVIOUS
<1> HIDE DEF ev
<1>8. ev \in Kept(events[e] \cup {ev})
  BY Zenon, <1>5, <1>6, <1>7, NewestKept DEF LogOf
<1>9. ev \notin events[e]
  <2>1. ~(n < n)
    BY <1>2
  <2> QED
    BY Zenon, <1>5, <1>7, <2>1
<1> QED
  BY <1>1, <1>3, <1>4, <1>6, <1>7, <1>8, <1>9, ZenonT(30)

\* The first event of an attempt is stored, and nothing else.
LEMMA RestartStored ==
    ASSUME TypeOK, NEW e \in Exec, Restarts(e)
    PROVE  \E ev \in Event :
             /\ ev.attempt = row'[e].attempt /\ ev.sequence = 1
             /\ ev.kind = "execution_status" /\ events'[e] = {ev}
             /\ events'[e] = Kept({} \cup {ev})
<1>1. PICK b \in EventBytes :
        events'[e] = Kept({[attempt |-> row[e].attempt + 1, sequence |-> 1,
                            kind |-> "execution_status", bytes |-> b]})
  BY ZenonT(30) DEF Restarts
<1> DEFINE a == row[e].attempt + 1
           ev == [attempt |-> a, sequence |-> 1, kind |-> "execution_status", bytes |-> b]
<1>2. a \in Nat /\ row'[e].attempt = a
  BY DEF TypeOK, Row, Restarts
<1> HIDE DEF a
<1>3. ev \in Event
  BY <1>2 DEF Event, EventKind
<1>4. ev.attempt = a /\ ev.sequence = 1 /\ ev.kind = "execution_status"
  OBVIOUS
<1>5. events'[e] = Kept({ev})
  BY Zenon, <1>1 DEF a
<1> HIDE DEF ev
<1>6. ev \in Kept({} \cup {ev})
  BY Zenon, <1>3, NewestKept
<1>7. {} \cup {ev} = {ev}
  OBVIOUS
<1>8. Kept({ev}) = {ev}
  BY <1>6, <1>7, KeptSubset
<1> QED
  BY <1>2, <1>3, <1>4, <1>5, <1>7, <1>8, ZenonT(30)

LEMMA LogOfStep ==
    ASSUME TypeOK, TypeOK', NEW e \in Exec, LogOf(row[e], events[e]), LogStep(e)
    PROVE  LogOf(row'[e], events'[e])
<1>0. row[e] \in Row /\ row'[e] \in Row /\ events[e] \subseteq Event
  BY DEF TypeOK
<1>1. CASE Quiet(e)
  <2>1. events'[e] \subseteq events[e]
    BY <1>1 DEF Quiet
  <2>2. /\ IsFiniteSet(events'[e])
        /\ Cardinality(events'[e]) <= ReplayRows /\ Bytes(events'[e]) <= ReplayBytes
    BY <2>1, FewerWithin, ZenonT(30) DEF LogOf
  <2> QED
    BY <1>0, <1>1, <2>1, <2>2, ZenonT(30) DEF LogOf, Quiet, isTerminal
<1>2. CASE Writes(e)
  <2>1. PICK ev \in Event :
          /\ ev.attempt = row'[e].attempt /\ ev.sequence = row'[e].lastSequence
          /\ ev.kind = "final_verdict" <=> isTerminal(row'[e])
          /\ events'[e] \subseteq Kept(events[e] \cup {ev})
    BY <1>2, WrittenStored, ZenonT(30)
  <2>2. /\ row'[e].attempt = row[e].attempt /\ row'[e].lastSequence = row[e].lastSequence + 1
        /\ ~isTerminal(row[e])
    BY <1>2, Zenon DEF Writes
  <2>3. row[e].lastSequence \in Nat
    BY <1>0 DEF Row
  <2>4. ev.sequence > 0 /\ row[e].lastSequence = ev.sequence - 1
    BY <2>1, <2>2, <2>3
  <2>5. \A x \in events[e] : /\ x.attempt = ev.attempt /\ x.sequence \in 1..ev.sequence - 1
                             /\ x.kind # "final_verdict"
    BY <2>1, <2>2, <2>4, ZenonT(30) DEF LogOf, isTerminal
  <2>6. /\ IsFiniteSet(events[e]) /\ \A x, y \in events[e] : x.sequence = y.sequence => x = y
        /\ ev.kind = "final_verdict" <=> row'[e].state \in TerminalStates
        /\ row'[e].attempt = ev.attempt /\ row'[e].lastSequence = ev.sequence
    BY Zenon, <2>1 DEF LogOf, isTerminal
  <2> QED
    BY Zenon, <1>0, <2>1, <2>4, <2>5, <2>6, LogMore
<1>3. CASE Restarts(e)
  <2>1. PICK ev \in Event :
          /\ ev.attempt = row'[e].attempt /\ ev.sequence = 1
          /\ ev.kind = "execution_status" /\ events'[e] = Kept({} \cup {ev})
    BY <1>3, RestartStored, ZenonT(30)
  <2>2. /\ row'[e].attempt = ev.attempt /\ row'[e].lastSequence = ev.sequence
        /\ row'[e].state \notin TerminalStates
    BY <1>3, <2>1 DEF Restarts, TerminalStates
  <2>3. /\ ev.kind # "final_verdict" /\ ev.sequence > 0
        /\ IsFiniteSet({}) /\ {} \subseteq Event
    BY <2>1, FS_EmptySet
  <2>4. events'[e] \subseteq Kept({} \cup {ev})
    BY <2>1
  <2> QED
    BY <2>2, <2>3, <2>4, LogMore, ZenonT(30)
<1> QED
  BY <1>1, <1>2, <1>3 DEF LogStep

LogInv == \A e \in Exec : LogOf(row[e], events[e])

LEMMA LogInvariant == Spec => []LogInv
<1>1. Init => LogInv
  <2> SUFFICES ASSUME Init, NEW e \in Exec PROVE LogOf(row[e], events[e])
    BY DEF LogInv
  <2>1. row[e] = NoRow /\ events[e] = {}
    BY DEF Init
  <2>2. row[e].state = "ABSENT"
    BY <2>1 DEF NoRow
  <2>3. IsFiniteSet({}) /\ Cardinality({}) <= ReplayRows /\ Bytes({}) <= ReplayBytes
    BY FS_EmptySet, BytesNone, ConstantsAssumption
  <2> QED
    BY <2>1, <2>2, <2>3, ZenonT(30) DEF LogOf
<1>2. TypeOK /\ TypeOK' /\ RowShape /\ LogInv /\ [Next]_vars => LogInv'
  BY LogSteps, LogOfStep, ZenonT(30) DEF LogInv
<1> QED
  BY <1>1, <1>2, TypeCorrect, ShapeCorrect, PTL DEF Spec

\* event numbers and prunes the public events of an execution, claim starts them
\* again and maintain lets them expire: what is stored is of the current attempt, in
\* order, ends with the verdict and is within both replay limits.
THEOREM EventLogTheorem == Spec => []EventLog
<1>1. LogInv => EventLog
  BY ZenonT(30) DEF LogInv, LogOf, EventLog
<1> QED
  BY <1>1, LogInvariant, PTL

\* finish, fail, recover, cancel, claim and maintenance compete for the end of an
\* execution: one of them ends it, storing its final event, and nothing changes it after.
THEOREM EndsOnceTheorem == Spec => EndsOnce
<1> DEFINE Once(e) ==
        /\ isTerminal(row[e]) =>
            /\ row'[e] = row[e] /\ notification'[e] = notification[e]
            /\ events'[e] \subseteq events[e]
        /\ ~isTerminal(row[e]) /\ isTerminal(row'[e]) =>
            \E ev \in events'[e] :
                ev.kind = "final_verdict" /\ ev.sequence = row'[e].lastSequence
<1>1. ASSUME TypeOK, TypeOK', RowShape, LogInv, [Next]_vars, NEW e \in Exec PROVE Once(e)
  <2>0. LogStep(e) /\ RowStep(e) /\ LogOf(row[e], events[e])
    BY <1>1, LogSteps, NextStep, ZenonT(30) DEF LogInv
  <2>1. ~isTerminal(row[e]) \/ Quiet(e)
    BY <2>0, OpenRow, ZenonT(30) DEF LogStep, Writes, Restarts
  <2>2. ASSUME isTerminal(row[e])
        PROVE  /\ row'[e] = row[e] /\ notification'[e] = notification[e]
               /\ events'[e] \subseteq events[e]
    <3>1. row'[e] = row[e]
      BY <2>0, <2>2, EndedStays DEF isTerminal
    <3>2. row[e].leaseToken = None
      <4>1. row[e].state \notin ActiveStates
        BY <2>2 DEF isTerminal, TerminalStates, ActiveStates
      <4> QED
        BY <1>1, <4>1, ZenonT(30) DEF RowShape, FitsState
    <3>3. notification'[e] = notification[e]
      BY <1>1, <3>2, NotifyStep, ZenonT(30) DEF Announces
    <3> QED
      BY <2>1, <2>2, <3>1, <3>3 DEF Quiet
  <2>3. ASSUME ~isTerminal(row[e]), isTerminal(row'[e])
        PROVE  \E ev \in events'[e] :
                ev.kind = "final_verdict" /\ ev.sequence = row'[e].lastSequence
    <3>1. ~Restarts(e)
      BY <2>3 DEF Restarts, isTerminal, TerminalStates
    <3>2. Writes(e)
      BY <2>0, <2>3, <3>1, ZenonT(30) DEF LogStep, Quiet
    <3> QED
      BY <1>1, <2>0, <2>3, <3>2, WrittenStored, ZenonT(30)
  <2> QED
    BY <2>2, <2>3
<1>2. TypeOK /\ TypeOK' /\ RowShape /\ LogInv /\ [Next]_vars => [\A e \in Exec : Once(e)]_vars
  BY <1>1
<1> QED
  BY <1>2, TypeCorrect, ShapeCorrect, LogInvariant, PTL DEF Spec, EndsOnce

\* JobStore implements PublicLog, the specification that live delivery relies on:
\* through renewals, retries, pruning and expiry, the row and its events move as
\* PublicLog allows.
THEOREM PublicLogTheorem == Spec => KeepsPublicLog
<1>1. Init => Public!Init
  <2> SUFFICES ASSUME Init PROVE PublicView = [e \in Exec |-> Public!NoLog]
    BY DEF Public!Init
  <2>1. ASSUME NEW e \in Exec
        PROVE  [attempt |-> row[e].attempt, last |-> row[e].lastSequence,
                stored |-> {ev.sequence : ev \in events[e]}, ended |-> isTerminal(row[e])]
               = Public!NoLog
    <3>1. row[e] = NoRow /\ events[e] = {}
      BY DEF Init
    <3>2. row[e].attempt = 0 /\ row[e].lastSequence = 0 /\ isTerminal(row[e]) = FALSE
      BY <3>1 DEF NoRow, isTerminal, TerminalStates
    <3>3. {ev.sequence : ev \in events[e]} = {}
      BY <3>1
    <3> QED
      BY Zenon, <3>2, <3>3 DEF Public!NoLog
  <2> QED
    BY Zenon, <2>1 DEF PublicView
<1>2. ASSUME TypeOK, TypeOK', RowShape, LogInv, LogInv', [Next]_vars, NEW e \in Exec
      PROVE  Public!Follows(PublicView[e], PublicView'[e])
  <2> DEFINE l == PublicView[e]
             m == PublicView'[e]
  <2>1. /\ l.attempt = row[e].attempt /\ l.last = row[e].lastSequence
        /\ l.stored = {ev.sequence : ev \in events[e]} /\ l.ended = isTerminal(row[e])
        /\ l = [attempt |-> l.attempt, last |-> l.last, stored |-> l.stored, ended |-> l.ended]
    BY Zenon DEF PublicView
  <2>2. /\ m.attempt = row'[e].attempt /\ m.last = row'[e].lastSequence
        /\ m.stored = {ev.sequence : ev \in events'[e]} /\ m.ended = isTerminal(row'[e])
        /\ m = [attempt |-> m.attempt, last |-> m.last, stored |-> m.stored, ended |-> m.ended]
    BY Zenon DEF PublicView
  <2> HIDE DEF l, m
  <2>3. LogStep(e) /\ LogOf(row[e], events[e])
    BY <1>2, LogSteps, ZenonT(30) DEF LogInv
  <2>4. CASE Quiet(e)
    <3>0. m.ended = l.ended
      <4>1. row'[e].state \in TerminalStates <=> row[e].state \in TerminalStates
        BY Zenon, <2>4 DEF Quiet, isTerminal
      <4>2. (row'[e].state \in TerminalStates) = (row[e].state \in TerminalStates)
        BY <4>1
      <4> QED
        BY Zenon, <2>1, <2>2, <4>2 DEF isTerminal
    <3>1. m.attempt = l.attempt /\ m.last = l.last /\ m.ended = l.ended
      BY Zenon, <2>1, <2>2, <2>4, <3>0 DEF Quiet
    <3>2. m.stored \subseteq l.stored
      BY <2>1, <2>2, <2>4 DEF Quiet
    <3>3. [l EXCEPT !.stored = m.stored]
            = [attempt |-> l.attempt, last |-> l.last, stored |-> m.stored, ended |-> l.ended]
      <4>1. PICK a, n, s, d : l = [attempt |-> a, last |-> n, stored |-> s, ended |-> d]
        BY Zenon, <2>1
      <4> QED
        BY <4>1
    <3>4. m = [l EXCEPT !.stored = m.stored]
      <4>1. [attempt |-> m.attempt, last |-> m.last, stored |-> m.stored, ended |-> m.ended]
            = [attempt |-> l.attempt, last |-> l.last, stored |-> m.stored, ended |-> l.ended]
        BY <3>1
      <4> QED
        BY <2>2, <3>3, <4>1
    <3> QED
      BY Zenon, <3>2, <3>4 DEF Public!Follows, Public!Shrunk, l, m
  <2>5. CASE Writes(e)
    <3>1. PICK ev \in Event :
            /\ ev.sequence = row'[e].lastSequence
            /\ events'[e] \subseteq Kept(events[e] \cup {ev}) /\ ev \in events'[e]
      BY <1>2, <2>3, <2>5, WrittenStored, ZenonT(30)
    <3>2. events'[e] \subseteq events[e] \cup {ev}
      BY <3>1, KeptSubset
    <3>3. m.last \in m.stored /\ m.stored \subseteq l.stored \cup {m.last}
      BY <2>1, <2>2, <3>1, <3>2
    <3>4. ~l.ended /\ m.attempt = l.attempt /\ m.last = l.last + 1
      BY <2>1, <2>2, <2>5 DEF Writes
    <3> QED
      BY Zenon, <3>3, <3>4 DEF Public!Follows, Public!Appended, l, m
  <2>6. CASE Restarts(e)
    <3>1. PICK ev \in Event : ev.sequence = 1 /\ events'[e] = {ev}
      BY <1>2, <2>6, RestartStored, ZenonT(30)
    <3>2. m.stored = {1}
      BY <2>2, <3>1
    <3>3. ~isTerminal(row[e]) /\ row[e].state # "ABSENT"
      BY <2>6, OpenRow DEF Restarts
    <3>4. l.last # 0
      BY <2>1, <2>3, <3>3 DEF LogOf
    <3>a. m.ended = FALSE
      <4>1. isTerminal(row'[e]) = FALSE
        BY <2>6 DEF Restarts, isTerminal, TerminalStates
      <4> QED
        BY Zenon, <2>2, <4>1
    <3>5. m.attempt = l.attempt + 1 /\ m.last = 1 /\ m.ended = FALSE /\ ~l.ended
      BY Zenon, <2>1, <2>2, <2>6, <3>3, <3>a DEF Restarts
    <3> QED
      BY Zenon, <2>2, <3>2, <3>4, <3>5 DEF Public!Follows, Public!Restarted, l, m
  <2> QED
    BY <2>3, <2>4, <2>5, <2>6 DEF LogStep
<1>3. TypeOK /\ TypeOK' /\ RowShape /\ LogInv /\ LogInv' /\ [Next]_vars
        => [Public!Next]_PublicView
  BY <1>2 DEF Public!Next
<1> QED
  BY <1>1, <1>3, TypeCorrect, ShapeCorrect, LogInvariant, PTL
  DEF Spec, KeepsPublicLog, Public!Spec
=============================================================================
