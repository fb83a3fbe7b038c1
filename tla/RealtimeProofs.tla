--------------------------- MODULE RealtimeProofs ---------------------------
(***************************************************************************)
(* Live delivery for any number of executions, attempts, events, sockets   *)
(* and messages on their way: no event is skipped, and what the browser    *)
(* shows never goes back.                                                  *)
(***************************************************************************)
EXTENDS Realtime, SequenceTheorems, TLAPS

-----------------------------------------------------------------------------
(* Types *)

Cursor == [attempt: Nat, after: Nat]

View == [Exec -> Cursor]

Result == [attempt: Nat, last: Nat, replayAvailable: BOOLEAN]

Event == [type: {"event"}, e: Exec, attempt: Nat, sequence: Nat]

Snapshot == [type: {"ack", "sync"}, e: Exec, result: Result, from: Nat]

Message == Event \cup Snapshot

Asking == [type: {"subscribe"}, e: Exec, cursor: Cursor]

Leaving == [type: {"unsubscribe"}, e: Exec]

Unanswered == [pc: {"wait", "read"}, e: Exec, cursor: Cursor, result: {None}]

Answering == [pc: {"reply"}, e: Exec, cursor: Cursor, result: Result]

Client == [connected: BOOLEAN, subscriptions: [Exec -> Cursor \cup {None}], commandBusy: BOOLEAN]

Between == [socket: Socket, pc: {"next"}, seen: SUBSET Exec, e: {None}, cursor: {None},
            result: {None}]

Emitting == [socket: Socket, pc: {"emit"}, seen: SUBSET Exec, e: Exec, cursor: Cursor,
             result: Result]

TypeOK ==
    /\ log \in [Exec -> Log]
    /\ client \in [Socket -> Client]
    /\ command \in [Socket -> SUBSET (Unanswered \cup Answering)]
    /\ pass \in {NoPass} \cup Between \cup Emitting
    /\ current \in Socket \cup {None}
    /\ sent \in Seq(Asking \cup Leaving)
    /\ received \in Seq(Message)
    /\ view \in View

-----------------------------------------------------------------------------
(* The inductive invariant *)

\* Cursor a is not ahead of cursor b.
AtMost(a, b) == a.attempt < b.attempt \/ (a.attempt = b.attempt /\ a.after <= b.after)

\* The cursor at the end of a result, of a message, and of the log.
Snap(result) == [attempt |-> result.attempt, after |-> result.last]

Reached(m) == IF m.type = "event" THEN [attempt |-> m.attempt, after |-> m.sequence]
              ELSE Snap(m.result)

Tip(e) == [attempt |-> log[e].attempt, after |-> log[e].last]

\* The message m continues the view v, and makes it w.
Continues(v, m, w) ==
    /\ m \in Message
    /\ w = [v EXCEPT ![m.e] = Reached(m)]
    /\ AtMost(v[m.e], Reached(m))
    /\ m.type = "event" => m.attempt = v[m.e].attempt /\ m.sequence = v[m.e].after + 1
    /\ m.type = "ack" /\ m.result.replayAvailable =>
        m.result.attempt = v[m.e].attempt /\ m.from <= v[m.e].after

\* The messages lead from the view v to the view w: p has the views between them.
Leads(v, messages, w) ==
    \E p \in [0..Len(messages) -> View] :
        /\ p[0] = v /\ p[Len(messages)] = w
        /\ \A i \in 1..Len(messages) : Continues(p[i - 1], messages[i], p[i])
        /\ \A i \in 0..Len(messages), e \in Exec : AtMost(p[i][e], w[e])

\* A socket has one handler in flight, which has waited for the pass before it reads.
OneHandler(s) ==
    /\ \A c, d \in command[s] : c = d
    /\ command[s] # {} => client[s].commandBusy
    /\ \A c \in command[s] : c.pc # "wait" => ~polling(s)

\* What replay has returned.
Read(e, cursor, result) ==
    /\ AtMost(Snap(result), Tip(e))
    /\ result.replayAvailable => cursor.attempt = result.attempt /\ cursor.after <= result.last

Replayed ==
    /\ pass.pc = "emit" => Read(pass.e, pass.cursor, pass.result)
    /\ \A s \in Socket : \A c \in command[s] : c.pc = "reply" => Read(c.e, c.cursor, c.result)

\* With w the browser has seen everything under way on socket s: its view is the cursor of
\* each subscription and of the pass, and not ahead of what a handler is about to send.
\* The cursors it has sent itself are not ahead of it.
Agrees(s, w) ==
    /\ \A e \in Exec : client[s].subscriptions[e] # None => client[s].subscriptions[e] = w[e]
    /\ polling(s) /\ pass.pc = "emit" => /\ pass.cursor = w[pass.e]
                                         /\ AtMost(w[pass.e], Snap(pass.result))
    /\ \A c \in command[s] : /\ AtMost(c.cursor, w[c.e])
                             /\ c.pc = "reply" => AtMost(w[c.e], Snap(c.result))
    /\ \A i \in 1..Len(sent) : sent[i].type = "subscribe" => AtMost(sent[i].cursor, w[sent[i].e])

Delivered(w) ==
    /\ Leads(view, received, w)
    /\ \A e \in Exec : AtMost(w[e], Tip(e))
    /\ current # None => Agrees(current, w)

RealtimeInv ==
    /\ TypeOK
    /\ current = None => sent = <<>>
    /\ \A s \in Socket : OneHandler(s)
    /\ Replayed
    /\ \E w \in View : Delivered(w)

-----------------------------------------------------------------------------
(* Cursors and messages *)

\* AtMost is an order on cursors.
LEMMA Order ==
    ASSUME NEW a \in Cursor, NEW b \in Cursor, NEW c \in Cursor, AtMost(a, b), AtMost(b, c)
    PROVE  AtMost(a, c)
  BY DEF AtMost, Cursor

LEMMA Same == ASSUME NEW a \in Cursor PROVE AtMost(a, a)
  BY DEF AtMost, Cursor

LEMMA SnapType == ASSUME NEW r \in Result PROVE Snap(r) \in Cursor
  BY DEF Snap, Result, Cursor

LEMMA ReachedType == ASSUME NEW m \in Message PROVE Reached(m) \in Cursor /\ m.e \in Exec
  <1>1. CASE m \in Event
    BY <1>1 DEF Event, Reached, Cursor
  <1>2. CASE m \in Snapshot
    <2>1. m.type # "event" /\ m.result \in Result /\ m.e \in Exec
      BY <1>2 DEF Snapshot
    <2> QED BY <2>1, SnapType DEF Reached
  <1> QED BY <1>1, <1>2 DEF Message

LEMMA TipType == ASSUME TypeOK, NEW e \in Exec PROVE Tip(e) \in Cursor
  <1>1. log[e] \in Log
    BY DEF TypeOK
  <1> QED BY <1>1, RealtimeAssumption DEF Log, Tip, Cursor

\* A message that continues v goes forward, in its execution only.
LEMMA ContinuesForward ==
    ASSUME NEW v \in View, NEW m, NEW w, Continues(v, m, w)
    PROVE  w \in View /\ \A e \in Exec : AtMost(v[e], w[e])
  <1>1. m.e \in Exec /\ Reached(m) \in Cursor
    BY ReachedType DEF Continues
  <1>2. w \in View
    BY <1>1 DEF Continues, View
  <1>3. ASSUME NEW e \in Exec PROVE AtMost(v[e], w[e])
    <2>1. CASE e = m.e
      BY <2>1, <1>1 DEF Continues, View
    <2>2. CASE e # m.e
      BY <2>2, <1>1, Same DEF Continues, View
    <2> QED BY <2>1, <2>2
  <1> QED BY <1>2, <1>3

\* Nothing under way: the view stays.
LEMMA LeadsNowhere == ASSUME NEW v \in View PROVE Leads(v, <<>>, v)
  <1> DEFINE p == [i \in 0..0 |-> v]
  <1>1. Len(<<>>) = 0
    OBVIOUS
  <1>2. p \in [0..0 -> View] /\ p[0] = v
    OBVIOUS
  <1>3. \A i \in 0..0, e \in Exec : AtMost(p[i][e], v[e])
    BY Same DEF View
  <1>4. \A i \in 1..0 : Continues(p[i - 1], <<>>[i], p[i])
    OBVIOUS
  <1> HIDE DEF p
  <1> QED BY <1>1, <1>2, <1>3, <1>4 DEF Leads

\* One message.
LEMMA LeadsOne ==
    ASSUME NEW v \in View, NEW m \in Message, NEW w, Continues(v, m, w)
    PROVE  Leads(v, <<m>>, w)
  <1> DEFINE p == [i \in 0..1 |-> IF i = 0 THEN v ELSE w]
  <1>1. w \in View /\ \A e \in Exec : AtMost(v[e], w[e])
    BY ContinuesForward
  <1>2. Len(<<m>>) = 1 /\ <<m>>[1] = m
    OBVIOUS
  <1>3. p \in [0..1 -> View] /\ p[0] = v /\ p[1] = w
    BY <1>1
  <1>4. \A i \in 1..1 : Continues(p[i - 1], <<m>>[i], p[i])
    BY <1>2, <1>3
  <1>5. ASSUME NEW i \in 0..1, NEW e \in Exec PROVE AtMost(p[i][e], w[e])
    BY <1>1, Same DEF View
  <1> HIDE DEF p
  <1> QED BY <1>2, <1>3, <1>4, <1>5 DEF Leads

\* One after the other.
LEMMA LeadsOn ==
    ASSUME NEW a \in Seq(Message), NEW b \in Seq(Message), NEW u, NEW v, NEW w,
           Leads(u, a, v), Leads(v, b, w)
    PROVE  Leads(u, a \o b, w)
  <1> DEFINE m == Len(a)
             n == Len(b)
             ab == a \o b
  <1>1. m \in Nat /\ n \in Nat /\ ab \in Seq(Message) /\ Len(ab) = m + n
    OBVIOUS
  <1>2. /\ \A i \in 1..m : ab[i] = a[i]
        /\ \A i \in m + 1..m + n : ab[i] = b[i - m]
    OBVIOUS
  <1>3. PICK p \in [0..m -> View] :
            /\ p[0] = u /\ p[m] = v
            /\ \A i \in 1..m : Continues(p[i - 1], a[i], p[i])
            /\ \A i \in 0..m, e \in Exec : AtMost(p[i][e], v[e])
    BY Zenon DEF Leads
  <1>4. PICK q \in [0..n -> View] :
            /\ q[0] = v /\ q[n] = w
            /\ \A i \in 1..n : Continues(q[i - 1], b[i], q[i])
            /\ \A i \in 0..n, e \in Exec : AtMost(q[i][e], w[e])
    BY Zenon DEF Leads
  <1> HIDE DEF m, n, ab
  <1> DEFINE r == [i \in 0..m + n |-> IF i <= m THEN p[i] ELSE q[i - m]]
  <1>5. r \in [0..m + n -> View]
    BY <1>1
  <1>6. r[0] = u /\ r[m + n] = w
    BY <1>1, <1>3, <1>4
  <1>7. ASSUME NEW i \in 0..n PROVE r[m + i] = q[i]
    <2>1. CASE i = 0
      BY <2>1, <1>1, <1>3, <1>4
    <2>2. CASE i # 0
      <3>1. m + i \in 0..m + n /\ ~(m + i <= m) /\ (m + i) - m = i
        BY <2>2, <1>1
      <3> QED BY <3>1
    <2> QED BY <2>1, <2>2
  <1>8. ASSUME NEW i \in 1..m + n PROVE Continues(r[i - 1], ab[i], r[i])
    <2>1. CASE i <= m
      <3>1. i \in 1..m /\ i \in 0..m + n /\ i - 1 \in 0..m + n /\ i - 1 <= m
        BY <2>1, <1>1
      <3>2. r[i] = p[i] /\ r[i - 1] = p[i - 1]
        BY <2>1, <3>1
      <3> HIDE DEF r
      <3> QED BY <3>1, <3>2, <1>2, <1>3
    <2>2. CASE i > m
      <3>1. i - m \in 1..n /\ i - m - 1 \in 0..n /\ m + (i - m) = i /\ m + (i - m - 1) = i - 1
        BY <2>2, <1>1
      <3>2. r[i] = q[i - m] /\ r[i - 1] = q[i - m - 1]
        <4> HIDE DEF r
        <4> QED BY <3>1, <1>7
      <3>3. i \in m + 1..m + n
        BY <2>2, <1>1
      <3>4. ab[i] = b[i - m]
        BY <3>3, <1>2
      <3> HIDE DEF r
      <3> QED BY <3>1, <3>2, <3>4, <1>4
    <2> QED BY <2>1, <2>2, <1>1
  <1>9. ASSUME NEW i \in 0..m + n, NEW e \in Exec PROVE AtMost(r[i][e], w[e])
    <2>1. v \in View /\ w \in View /\ AtMost(v[e], w[e])
      BY <1>1, <1>3, <1>4
    <2>2. CASE i <= m
      <3>1. i \in 0..m /\ r[i] = p[i] /\ p[i] \in View
        BY <2>2, <1>1
      <3>2. AtMost(p[i][e], v[e])
        BY <3>1, <1>3
      <3> HIDE DEF r
      <3> QED BY <3>1, <3>2, <2>1, Order DEF View
    <2>3. CASE i > m
      <3>1. i - m \in 0..n /\ r[i] = q[i - m]
        BY <2>3, <1>1
      <3> QED BY <3>1, <1>4
    <2> QED BY <2>2, <2>3, <1>1
  <1> HIDE DEF r
  <1>10. Len(ab) = m + n
    BY <1>1
  <1> QED BY Zenon, <1>5, <1>6, <1>8, <1>9, <1>10 DEF Leads, ab

\* The first message, and the others after it.
LEMMA LeadsFrom ==
    ASSUME NEW a \in Seq(Message), a # <<>>, NEW u \in View, NEW w, Leads(u, a, w)
    PROVE  \E v \in View : Continues(u, Head(a), v) /\ Leads(v, Tail(a), w)
  <1> DEFINE n == Len(a)
             b == Tail(a)
  <1>1. n \in Nat \ {0} /\ b \in Seq(Message) /\ Len(b) = n - 1 /\ Head(a) = a[1]
    OBVIOUS
  <1>2. \A i \in 1..n - 1 : b[i] = a[i + 1]
    OBVIOUS
  <1>3. PICK p \in [0..n -> View] :
            /\ p[0] = u /\ p[n] = w
            /\ \A i \in 1..n : Continues(p[i - 1], a[i], p[i])
            /\ \A i \in 0..n, e \in Exec : AtMost(p[i][e], w[e])
    BY DEF Leads
  <1> HIDE DEF n, b
  <1> DEFINE q == [i \in 0..n - 1 |-> p[i + 1]]
  <1>4. q \in [0..n - 1 -> View] /\ q[0] = p[1] /\ q[n - 1] = w
    BY <1>1, <1>3
  <1>5. \A i \in 1..n - 1 : Continues(q[i - 1], b[i], q[i])
    BY <1>1, <1>2, <1>3
  <1>6. \A i \in 0..n - 1, e \in Exec : AtMost(q[i][e], w[e])
    BY <1>1, <1>3
  <1>7. Continues(u, Head(a), p[1]) /\ p[1] \in View
    BY <1>1, <1>3
  <1> HIDE DEF q
  <1>8. Leads(p[1], b, w)
    BY Zenon, <1>1, <1>4, <1>5, <1>6 DEF Leads
  <1> QED BY <1>7, <1>8 DEF b

LEMMA LeadsForward ==
    ASSUME NEW a \in Seq(Message), NEW v, NEW w, Leads(v, a, w)
    PROVE  v \in View /\ w \in View /\ \A e \in Exec : AtMost(v[e], w[e])
  <1>1. Len(a) \in Nat
    OBVIOUS
  <1> QED BY <1>1 DEF Leads

\* What the pass sends leads from the cursor it has read to the end of its result: one event
\* after the other, or a snapshot.
LEMMA LeadsLive ==
    ASSUME NEW w \in View, NEW e \in Exec, NEW result \in Result, AtMost(w[e], Snap(result)),
           result.replayAvailable => w[e].attempt = result.attempt /\ w[e].after <= result.last
    PROVE  /\ Live(e, w[e], result) \in Seq(Message)
           /\ Leads(w, Live(e, w[e], result), [w EXCEPT ![e] = Snap(result)])
  <1> DEFINE x == [w EXCEPT ![e] = Snap(result)]
  <1>1. w[e] \in Cursor /\ Snap(result) \in Cursor
    BY SnapType DEF View
  <1>2. CASE ~result.replayAvailable
    <2> DEFINE m == [type |-> "sync", e |-> e, result |-> result, from |-> 0]
    <2>1. m \in Message
      BY DEF Message, Snapshot
    <2>2. Live(e, w[e], result) = <<m>>
      BY <1>2 DEF Live
    <2>3. Continues(w, m, x)
      BY <2>1 DEF Continues, Reached
    <2> HIDE DEF m, x
    <2>4. Leads(w, <<m>>, x)
      BY <2>1, <2>3, LeadsOne
    <2> QED BY <2>1, <2>2, <2>4 DEF x
  <1>3. CASE result.replayAvailable
    <2> DEFINE n == result.last - w[e].after
               m(i) == [type |-> "event", e |-> e, attempt |-> result.attempt,
                        sequence |-> w[e].after + i]
               at(i) == [attempt |-> result.attempt, after |-> w[e].after + i]
               p == [i \in 0..n |-> [w EXCEPT ![e] = at(i)]]
               ms == Live(e, w[e], result)
    <2>1. n \in Nat /\ w[e].after \in Nat /\ result.attempt \in Nat /\ result.last \in Nat
          /\ w[e].attempt = result.attempt /\ w[e].after + n = result.last
      BY <1>1, <1>3 DEF Cursor, Result
    <2>2. ms = [i \in 1..n |-> m(i)]
      BY <1>3 DEF Live
    <2>3. \A i \in 1..n : m(i) \in Message
      BY <2>1 DEF Message, Event
    <2>4. \A i \in 0..n : at(i) \in Cursor
      BY <2>1 DEF Cursor
    <2> HIDE DEF n, m
    <2>5. ms \in Seq(Message) /\ Len(ms) = n
      BY <2>1, <2>2, <2>3
    <2>6. p \in [0..n -> View]
      BY <2>1, <2>4 DEF View
    <2>7. at(0) = w[e] /\ at(n) = Snap(result)
      BY <1>1, <2>1 DEF Cursor, Snap
    <2>8. p[0] = w /\ p[n] = x
      <3>1. p[0] = [w EXCEPT ![e] = at(0)] /\ p[n] = [w EXCEPT ![e] = at(n)]
        BY <2>1
      <3>2. [w EXCEPT ![e] = w[e]] = w
        BY DEF View
      <3> HIDE DEF p, at
      <3> QED BY <3>1, <3>2, <2>7
    <2>9. ASSUME NEW i \in 1..n PROVE Continues(p[i - 1], ms[i], p[i])
      <3>1. i \in 0..n /\ i - 1 \in 0..n /\ ms[i] = m(i)
        BY <2>1, <2>2
      <3>2. /\ m(i).e = e /\ m(i).type = "event" /\ m(i).attempt = result.attempt
            /\ m(i).sequence = w[e].after + i
        BY DEF m
      <3>3. Reached(m(i)) = at(i)
        BY <3>2 DEF Reached
      <3>4. p[i - 1][e] = at(i - 1) /\ p[i] = [p[i - 1] EXCEPT ![e] = at(i)]
        BY Zenon, <3>1 DEF View
      <3>5. AtMost(at(i - 1), at(i))
        BY <2>1 DEF AtMost
      <3>6. at(i - 1).attempt = result.attempt /\ w[e].after + i = at(i - 1).after + 1
        BY <2>1
      <3> HIDE DEF p, at
      <3> QED BY <3>1, <3>2, <3>3, <3>4, <3>5, <3>6, <2>3 DEF Continues
    <2>10. ASSUME NEW i \in 0..n, NEW f \in Exec PROVE AtMost(p[i][f], x[f])
      <3>1. CASE f = e
        <4>1. p[i][f] = at(i) /\ x[f] = at(n)
          BY <3>1, <2>7 DEF View
        <4>2. AtMost(at(i), at(n))
          BY <2>1 DEF AtMost
        <4> QED BY <4>1, <4>2
      <3>2. CASE f # e
        <4>1. p[i][f] = w[f] /\ x[f] = w[f] /\ w[f] \in Cursor
          BY <3>2 DEF View
        <4> QED BY <4>1, Same
      <3> QED BY <3>1, <3>2
    <2> HIDE DEF p, ms, x
    <2>11. Leads(w, ms, x)
      BY <2>5, <2>6, <2>8, <2>9, <2>10 DEF Leads
    <2> QED BY <2>5, <2>11 DEF ms, x
  <1> QED BY <1>2, <1>3

\* replay reads the row as it is.
LEMMA ReplayRead ==
    ASSUME TypeOK, NEW e \in Exec, NEW cursor \in Cursor, NEW result \in replay(e, cursor)
    PROVE  result \in Result /\ Snap(result) = Tip(e) /\ Read(e, cursor, result)
  <1>1. log[e] \in Log
    BY DEF TypeOK
  <1>2. log[e].attempt \in Nat /\ log[e].last \in Nat
    BY <1>1, RealtimeAssumption DEF Log
  <1>3. /\ result.attempt = log[e].attempt /\ result.last = log[e].last
        /\ result \in Result
        /\ result.replayAvailable => cursor.attempt = log[e].attempt /\ cursor.after <= log[e].last
    <2> DEFINE wanted == cursor.after + 1 .. log[e].last
    <2>1. PICK seen \in SUBSET (log[e].stored \cap wanted) :
            result = [attempt |-> log[e].attempt, last |-> log[e].last,
                      replayAvailable |-> cursor.attempt = log[e].attempt
                                          /\ cursor.after <= log[e].last /\ seen = wanted]
      BY DEF replay
    <2>2. result.replayAvailable \in BOOLEAN
      BY <2>1
    <2> QED BY Zenon, <1>2, <2>1, <2>2 DEF Result
  <1>4. Snap(result) = Tip(e)
    BY <1>3 DEF Snap, Tip
  <1>5. Tip(e) \in Cursor
    BY TipType
  <1> QED BY <1>3, <1>4, <1>5, Same DEF Read

\* The log only goes forward.
LEMMA LogGrows ==
    ASSUME NEW l \in Log, NEW m \in Log, Follows(l, m)
    PROVE  AtMost([attempt |-> l.attempt, after |-> l.last],
                  [attempt |-> m.attempt, after |-> m.last])
  <1>1. /\ l.attempt \in Nat /\ l.last \in Nat
        /\ m.attempt \in Nat /\ m.last \in Nat
    BY RealtimeAssumption DEF Log
  <1>2. CASE Appended(l, m)
    BY <1>1, <1>2 DEF Appended, AtMost
  <1>3. CASE Restarted(l, m)
    BY <1>1, <1>3 DEF Restarted, AtMost
  <1>4. CASE Shrunk(l, m)
    <2>1. m.attempt = l.attempt /\ m.last = l.last
      BY <1>4 DEF Shrunk, Log
    <2> QED BY <1>1, <2>1 DEF AtMost
  <1> QED BY <1>2, <1>3, <1>4 DEF Follows

-----------------------------------------------------------------------------
(* What the types say of handlers, the pass and commands *)

LEMMA ClientFacts ==
    ASSUME TypeOK, NEW s \in Socket
    PROVE  /\ client[s] \in Client
           /\ client[s].connected \in BOOLEAN /\ client[s].commandBusy \in BOOLEAN
           /\ client[s].subscriptions \in [Exec -> Cursor \cup {None}]
           /\ \A e \in Subscribed(s) : e \in Exec /\ client[s].subscriptions[e] \in Cursor
  <1>1. client[s] \in Client
    BY DEF TypeOK
  <1>2. client[s].subscriptions \in [Exec -> Cursor \cup {None}]
    BY <1>1 DEF Client
  <1> QED BY <1>1, <1>2 DEF Client, Subscribed

LEMMA CommandFacts ==
    ASSUME TypeOK, NEW s \in Socket, NEW c \in command[s]
    PROVE  /\ c \in Unanswered \cup Answering
           /\ c.e \in Exec /\ c.cursor \in Cursor
           /\ c.pc = "reply" => c.result \in Result
           /\ c.pc # "reply" => c \in Unanswered
  <1>1. c \in Unanswered \cup Answering
    BY DEF TypeOK
  <1> QED BY <1>1 DEF Unanswered, Answering

LEMMA PassFacts ==
    ASSUME TypeOK
    PROVE  /\ pass.pc = "next" => pass \in Between
           /\ pass.pc = "emit" => pass \in Emitting
           /\ pass # NoPass => pass.socket \in Socket /\ pass.seen \in SUBSET Exec
           /\ pass.socket \in Socket => pass # NoPass
  <1>1. pass \in {NoPass} \cup Between \cup Emitting
    BY DEF TypeOK
  <1>2. NoPass.pc = "idle" /\ NoPass.socket = None
    BY DEF NoPass
  <1>3. pass \in Between => pass.pc = "next" /\ pass.socket \in Socket /\ pass.seen \in SUBSET Exec
    BY DEF Between
  <1>4. pass \in Emitting => pass.pc = "emit" /\ pass.socket \in Socket /\ pass.seen \in SUBSET Exec
    BY DEF Emitting
  <1> QED BY <1>1, <1>2, <1>3, <1>4, RealtimeAssumption

LEMMA SentFacts ==
    ASSUME TypeOK, sent # <<>>
    PROVE  /\ Head(sent) = sent[1] /\ 1 \in 1..Len(sent) /\ Head(sent).e \in Exec
           /\ Head(sent).type = "subscribe" => Head(sent).cursor \in Cursor
           /\ Tail(sent) \in Seq(Asking \cup Leaving)
           /\ Len(Tail(sent)) = Len(sent) - 1
           /\ \A i \in 1..Len(Tail(sent)) : i + 1 \in 1..Len(sent) /\ Tail(sent)[i] = sent[i + 1]
  <1>1. sent \in Seq(Asking \cup Leaving)
    BY DEF TypeOK
  <1>2. Head(sent) = sent[1] /\ Head(sent) \in Asking \cup Leaving /\ 1 \in 1..Len(sent)
    BY <1>1
  <1>3. /\ Tail(sent) \in Seq(Asking \cup Leaving)
        /\ Len(Tail(sent)) = Len(sent) - 1
        /\ \A i \in 1..Len(Tail(sent)) : i + 1 \in 1..Len(sent) /\ Tail(sent)[i] = sent[i + 1]
    BY <1>1
  <1>4. Head(sent).e \in Exec /\ (Head(sent).type = "subscribe" => Head(sent).cursor \in Cursor)
    BY <1>2 DEF Asking, Leaving
  <1> QED BY <1>2, <1>3, <1>4

-----------------------------------------------------------------------------
(* What is delivered, when nothing is sent, and when a connection goes down *)

LEMMA StillDelivered ==
    ASSUME RealtimeInv, UNCHANGED <<log, received, view, current>>,
           \A w \in View : current # None /\ Agrees(current, w)
                /\ (\A e \in Exec : AtMost(w[e], Tip(e))) => Agrees(current, w)'
    PROVE  \E w \in View : Delivered(w)'
  <1>1. PICK w \in View : Delivered(w)
    BY DEF RealtimeInv
  <1>2. Leads(view', received', w)
    BY <1>1 DEF Delivered
  <1>3. \A e \in Exec : AtMost(w[e], Tip(e))'
    BY <1>1 DEF Delivered, Tip
  <1>4. current' # None => Agrees(current, w)'
    BY <1>1 DEF Delivered
  <1> QED BY <1>2, <1>3, <1>4 DEF Delivered

\* The view is not ahead of the log.
LEMMA ViewBehind ==
    ASSUME RealtimeInv, NEW e \in Exec
    PROVE  AtMost(view[e], Tip(e))
  <1>1. PICK w \in View : Delivered(w)
    BY DEF RealtimeInv
  <1>2. received \in Seq(Message) /\ TypeOK
    BY DEF RealtimeInv, TypeOK
  <1>3. view \in View /\ AtMost(view[e], w[e])
    BY <1>1, <1>2, LeadsForward DEF Delivered
  <1>4. AtMost(w[e], Tip(e)) /\ Tip(e) \in Cursor
    BY <1>1, <1>2, TipType DEF Delivered
  <1> QED BY <1>3, <1>4, Order DEF View

LEMMA Disconnected ==
    ASSUME RealtimeInv, UNCHANGED <<log, view>>, received' = <<>>, current' = None
    PROVE  \E w \in View : Delivered(w)'
  <1>1. view \in View
    BY DEF RealtimeInv, TypeOK
  <1>2. Leads(view', received', view)
    BY <1>1, LeadsNowhere
  <1>3. \A e \in Exec : AtMost(view[e], Tip(e))'
    BY ViewBehind DEF Tip
  <1> QED BY <1>1, <1>2, <1>3 DEF Delivered

\* A socket that leaves takes what is under way with it if it was the browser's.
LEMMA DroppedStep ==
    ASSUME RealtimeInv, NEW s \in Socket, NEW busy \in BOOLEAN, Dropped(s, busy),
           UNCHANGED <<log, view>>, \A t \in Socket \ {s} : command'[t] = command[t],
           pass' = pass \/ pass' = NoPass
    PROVE  /\ client' \in [Socket -> Client] /\ current' \in Socket \cup {None}
           /\ sent' \in Seq(Asking \cup Leaving) /\ received' \in Seq(Message)
           /\ current' = None => sent' = <<>>
           /\ client'[s].commandBusy = busy
           /\ \A t \in Socket \ {s} : client'[t] = client[t]
           /\ \E w \in View : Delivered(w)'
  <1> DEFINE gone == [NotConnected EXCEPT !.commandBusy = busy]
  <1>1. gone \in Client /\ gone.commandBusy = busy
    BY Zenon DEF Client, NotConnected
  <1>2. client \in [Socket -> Client] /\ client' = [client EXCEPT ![s] = gone]
    BY DEF RealtimeInv, TypeOK, Dropped
  <1> HIDE DEF gone
  <1>3. /\ client' \in [Socket -> Client] /\ client'[s].commandBusy = busy
        /\ \A t \in Socket \ {s} : client'[t] = client[t]
    BY <1>1, <1>2
  <1>4. CASE current = s
    <2>1. current' = None /\ sent' = <<>> /\ received' = <<>>
      BY <1>4 DEF Dropped
    <2>2. \E w \in View : Delivered(w)'
      BY <2>1, Disconnected
    <2> QED BY <1>3, <2>1, <2>2
  <1>5. CASE current # s
    <2>1. UNCHANGED <<current, sent, received>>
      BY <1>5 DEF Dropped
    <2>2. current \in Socket \cup {None} /\ sent \in Seq(Asking \cup Leaving)
          /\ received \in Seq(Message) /\ (current = None => sent = <<>>)
      BY DEF RealtimeInv, TypeOK
    <2>3. ASSUME NEW w \in View, current # None, Agrees(current, w) PROVE Agrees(current, w)'
      <3>1. current \in Socket \ {s} /\ current' = current
        BY <2>1, <2>2, <2>3, <1>5
      <3>2. client'[current] = client[current] /\ command'[current] = command[current]
        BY <3>1, <1>3
      <3>3. CASE pass' = pass
        BY <2>1, <2>3, <3>1, <3>2, <3>3 DEF Agrees, polling
      <3>4. CASE pass' = NoPass
        <4>1. pass'.pc # "emit"
          BY <3>4 DEF NoPass
        <4> QED BY <2>1, <2>3, <3>1, <3>2, <4>1 DEF Agrees, polling
      <3> QED BY <3>3, <3>4
    <2>4. \E w \in View : Delivered(w)'
      BY <2>1, <2>3, StillDelivered
    <2> QED BY <1>3, <2>1, <2>2, <2>4
  <1> QED BY <1>4, <1>5

-----------------------------------------------------------------------------
(* The invariant holds initially *)

LEMMA InitInv == ASSUME RealtimeInit PROVE RealtimeInv
  <1>1. NoLog \in Log
    BY RealtimeAssumption DEF NoLog, Log
  <1>2. NotConnected \in Client /\ Start \in Cursor
    BY DEF NotConnected, Client, Start, Cursor
  <1>3. view \in View
    BY <1>2 DEF RealtimeInit, View
  <1>4. TypeOK
    BY <1>1, <1>2, <1>3 DEF RealtimeInit, Init, TypeOK
  <1>5. \A s \in Socket : OneHandler(s)
    BY DEF RealtimeInit, OneHandler
  <1>6. Replayed
    BY DEF RealtimeInit, Replayed, NoPass
  <1>7. Leads(view, received, view)
    BY <1>3, LeadsNowhere DEF RealtimeInit
  <1>8. ASSUME NEW e \in Exec PROVE AtMost(view[e], Tip(e))
    BY DEF RealtimeInit, Init, Start, NoLog, Tip, AtMost
  <1>9. Delivered(view)
    BY <1>7, <1>8 DEF Delivered, RealtimeInit
  <1> QED BY <1>3, <1>4, <1>5, <1>6, <1>9 DEF RealtimeInv, RealtimeInit

-----------------------------------------------------------------------------
(* Every action preserves the invariant: connections *)

LEMMA ConnectStep == ASSUME RealtimeInv, NEW s \in Socket, Connect(s) PROVE RealtimeInv'
  <1> USE DEF Connect
  <1>1. TypeOK /\ client[s] \in Client
    BY ClientFacts DEF RealtimeInv
  <1> DEFINE joined == [client[s] EXCEPT !.connected = TRUE]
  <1>2. joined \in Client /\ joined.subscriptions = client[s].subscriptions
        /\ joined.commandBusy = client[s].commandBusy
    BY Zenon, <1>1 DEF Client
  <1>3. client' = [client EXCEPT ![s] = joined] /\ client \in [Socket -> Client]
    BY <1>1 DEF TypeOK
  <1> HIDE DEF joined
  <1>4. /\ client' \in [Socket -> Client]
        /\ \A t \in Socket : client'[t].subscriptions = client[t].subscriptions
                              /\ client'[t].commandBusy = client[t].commandBusy
    BY Zenon, <1>2, <1>3
  <1>5. TypeOK'
    BY <1>1, <1>4 DEF TypeOK
  <1>6. \A t \in Socket : OneHandler(t)'
    BY <1>4 DEF RealtimeInv, OneHandler, polling
  <1>7. Replayed'
    BY DEF RealtimeInv, Replayed, Read, Tip
  <1>8. PICK w \in View : Delivered(w)
    BY DEF RealtimeInv
  <1>9. \A e \in Exec : client'[s].subscriptions[e] = None
    BY <1>4 DEF NotConnected
  <1>10. Delivered(w)'
    <2>1. Leads(view', received', w) /\ \A e \in Exec : AtMost(w[e], Tip(e))'
      BY <1>8 DEF Delivered, Tip
    <2>2. sent' = <<>> /\ current' = s /\ pass'.socket # s /\ command'[s] = {}
      BY DEF RealtimeInv, polling
    <2>3. Agrees(current, w)'
      BY <2>2, <1>9 DEF Agrees, polling
    <2> QED BY <2>1, <2>3 DEF Delivered
  <1>11. current' # None
    BY RealtimeAssumption
  <1> QED BY <1>5, <1>6, <1>7, <1>10, <1>11 DEF RealtimeInv

LEMMA BreakStep == ASSUME RealtimeInv, Break PROVE RealtimeInv'
  <1> USE DEF Break
  <1>1. TypeOK'
    BY DEF RealtimeInv, TypeOK
  <1>2. \A t \in Socket : OneHandler(t)'
    BY DEF RealtimeInv, OneHandler, polling
  <1>3. Replayed'
    BY DEF RealtimeInv, Replayed, Read, Tip
  <1>4. \E w \in View : Delivered(w)'
    BY Disconnected
  <1> QED BY <1>1, <1>2, <1>3, <1>4 DEF RealtimeInv

LEMMA DisconnectStep == ASSUME RealtimeInv, NEW s \in Socket, Disconnect(s) PROVE RealtimeInv'
  <1> USE DEF Disconnect
  <1>1. client[s].commandBusy \in BOOLEAN
    BY ClientFacts DEF RealtimeInv
  <1>2. /\ client' \in [Socket -> Client] /\ current' \in Socket \cup {None}
        /\ sent' \in Seq(Asking \cup Leaving) /\ received' \in Seq(Message)
        /\ current' = None => sent' = <<>>
        /\ client'[s].commandBusy = client[s].commandBusy
        /\ \A t \in Socket \ {s} : client'[t] = client[t]
        /\ \E w \in View : Delivered(w)'
    BY <1>1, DroppedStep
  <1>3. TypeOK'
    BY <1>2 DEF RealtimeInv, TypeOK
  <1>4. \A t \in Socket : OneHandler(t)'
    BY <1>2 DEF RealtimeInv, OneHandler, polling
  <1>5. Replayed'
    BY DEF RealtimeInv, Replayed, Read, Tip
  <1> QED BY <1>2, <1>3, <1>4, <1>5 DEF RealtimeInv

-----------------------------------------------------------------------------
(* The handlers *)

\* A socket whose handler is in flight has no other.
LEMMA OnlyHandler ==
    ASSUME RealtimeInv, NEW s \in Socket, NEW c \in command[s]
    PROVE  command[s] = {c} /\ client[s].commandBusy
  <1>1. OneHandler(s)
    BY DEF RealtimeInv
  <1>2. command[s] # {} /\ client[s].commandBusy
    BY <1>1 DEF OneHandler
  <1>3. \A d \in command[s] : d = c
    BY <1>1 DEF OneHandler
  <1> QED BY <1>2, <1>3

\* A step that leaves the handlers of a socket alone, and does not take the pass to the
\* socket, keeps the socket to one handler.
LEMMA HandlersKept ==
    ASSUME RealtimeInv, NEW s \in Socket, command'[s] = command[s],
           client'[s].commandBusy = client[s].commandBusy, polling(s)' => polling(s)
    PROVE  OneHandler(s)'
  <1>1. OneHandler(s)
    BY DEF RealtimeInv
  <1> QED BY Zenon, <1>1 DEF OneHandler

LEMMA SubscribeStep == ASSUME RealtimeInv, NEW s \in Socket, Subscribe(s) PROVE RealtimeInv'
  <1> DEFINE m == Head(sent)
             c == [pc |-> "wait", e |-> m.e, cursor |-> m.cursor, result |-> None]
             busy == [client[s] EXCEPT !.commandBusy = TRUE]
  <1>1. /\ s = current /\ sent # <<>> /\ m.type = "subscribe" /\ sent' = Tail(sent)
        /\ UNCHANGED <<log, pass, current, received, view>>
        /\ \/ /\ ~client[s].commandBusy
              /\ client' = [client EXCEPT ![s] = busy]
              /\ command' = [command EXCEPT ![s] = command[s] \cup {c}]
           \/ UNCHANGED <<client, command>>
    BY DEF Subscribe
  <1>2. TypeOK /\ current # None
    BY <1>1, RealtimeAssumption DEF RealtimeInv
  <1>3. /\ m = sent[1] /\ 1 \in 1..Len(sent) /\ m.e \in Exec /\ m.cursor \in Cursor
        /\ sent' \in Seq(Asking \cup Leaving)
        /\ \A i \in 1..Len(sent') : i + 1 \in 1..Len(sent) /\ sent'[i] = sent[i + 1]
    BY <1>1, <1>2, SentFacts
  <1>4. c \in Unanswered /\ c.pc = "wait" /\ c.e = m.e /\ c.cursor = m.cursor
    BY <1>3 DEF Unanswered
  <1>5. busy \in Client /\ busy.commandBusy = TRUE /\ busy.subscriptions = client[s].subscriptions
    BY Zenon, <1>2, ClientFacts DEF Client
  <1>6. client \in [Socket -> Client] /\ command \in [Socket -> SUBSET (Unanswered \cup Answering)]
    BY <1>2 DEF TypeOK
  <1> HIDE DEF m, c, busy
  <1>7. /\ client' \in [Socket -> Client]
        /\ command' \in [Socket -> SUBSET (Unanswered \cup Answering)]
        /\ \A t \in Socket \ {s} : client'[t] = client[t] /\ command'[t] = command[t]
        /\ client'[s].subscriptions = client[s].subscriptions
    BY <1>1, <1>4, <1>5, <1>6
  <1>8. \/ /\ ~client[s].commandBusy /\ client'[s].commandBusy
           /\ command'[s] = command[s] \cup {c}
        \/ client'[s] = client[s] /\ command'[s] = command[s]
    BY <1>1, <1>5, <1>6
  <1>9. \A t \in Socket : OneHandler(t)'
    <2>1. ASSUME NEW t \in Socket, t # s PROVE OneHandler(t)'
      BY <2>1, <1>1, <1>7 DEF RealtimeInv, OneHandler, polling
    <2>2. OneHandler(s)
      BY DEF RealtimeInv
    <2>3. OneHandler(s)'
      <3>1. CASE client'[s] = client[s] /\ command'[s] = command[s]
        BY <2>2, <3>1, <1>1 DEF OneHandler, polling
      <3>2. CASE /\ ~client[s].commandBusy /\ client'[s].commandBusy
                 /\ command'[s] = command[s] \cup {c}
        <4>1. command'[s] = {c}
          BY <2>2, <3>2 DEF OneHandler
        <4> QED BY <4>1, <3>2, <1>4 DEF OneHandler
      <3> QED BY <3>1, <3>2, <1>8
    <2> QED BY <2>1, <2>3
  <1>10. \A t \in Socket : \A d \in command'[t] : d \in command[t] \/ (t = s /\ d = c)
    BY <1>7, <1>8
  <1>11. Replayed'
    <2>1. \A t \in Socket : \A d \in command'[t] : d.pc = "reply" => d \in command[t]
      BY <1>4, <1>10
    <2> QED BY <2>1, <1>1 DEF RealtimeInv, Replayed, Read, Tip
  <1>12. ASSUME NEW w \in View, Agrees(current, w) PROVE Agrees(current, w)'
    <2>1. AtMost(m.cursor, w[m.e])
      BY <1>1, <1>3, <1>12 DEF Agrees
    <2>2. \A d \in command'[s] : d \in command[s] \/ d = c
      BY <1>10
    <2>3. \A d \in command'[s] : /\ AtMost(d.cursor, w[d.e])
                                 /\ d.pc = "reply" => AtMost(w[d.e], Snap(d.result))
      BY <2>1, <2>2, <1>1, <1>4, <1>12 DEF Agrees
    <2>4. \A i \in 1..Len(sent') :
            sent'[i].type = "subscribe" => AtMost(sent'[i].cursor, w[sent'[i].e])
      BY <1>3, <1>12 DEF Agrees
    <2> QED BY <2>3, <2>4, <1>1, <1>7, <1>12 DEF Agrees, polling
  <1>13. \E w \in View : Delivered(w)'
    BY <1>1, <1>12, StillDelivered
  <1>14. TypeOK'
    BY <1>1, <1>3, <1>7, <1>2 DEF TypeOK
  <1> QED BY <1>1, <1>2, <1>9, <1>11, <1>13, <1>14 DEF RealtimeInv

LEMMA UnsubscribeStep == ASSUME RealtimeInv, NEW s \in Socket, Unsubscribe(s) PROVE RealtimeInv'
  <1> DEFINE m == Head(sent)
             left == [client[s] EXCEPT !.subscriptions =
                        [client[s].subscriptions EXCEPT ![m.e] = None]]
  <1>1. /\ s = current /\ sent # <<>> /\ sent' = Tail(sent)
        /\ client' = [client EXCEPT ![s] = left]
        /\ UNCHANGED <<log, command, pass, current, received, view>>
    BY DEF Unsubscribe
  <1>2. TypeOK /\ current # None
    BY <1>1, RealtimeAssumption DEF RealtimeInv
  <1>3. /\ m.e \in Exec /\ sent' \in Seq(Asking \cup Leaving)
        /\ \A i \in 1..Len(sent') : i + 1 \in 1..Len(sent) /\ sent'[i] = sent[i + 1]
    BY <1>1, <1>2, SentFacts
  <1>4. /\ left \in Client /\ left.commandBusy = client[s].commandBusy
        /\ \A e \in Exec : left.subscriptions[e] = None
                            \/ left.subscriptions[e] = client[s].subscriptions[e]
    BY <1>2, ClientFacts DEF Client
  <1>5. client \in [Socket -> Client]
    BY <1>2 DEF TypeOK
  <1> HIDE DEF m, left
  <1>6. /\ client' \in [Socket -> Client] /\ client'[s] = left
        /\ \A t \in Socket : client'[t].commandBusy = client[t].commandBusy
    BY <1>1, <1>4, <1>5
  <1>7. \A t \in Socket : OneHandler(t)'
    BY <1>1, <1>6 DEF RealtimeInv, OneHandler, polling
  <1>8. Replayed'
    BY <1>1 DEF RealtimeInv, Replayed, Read, Tip
  <1>9. ASSUME NEW w \in View, Agrees(current, w) PROVE Agrees(current, w)'
    <2>1. \A i \in 1..Len(sent') :
            sent'[i].type = "subscribe" => AtMost(sent'[i].cursor, w[sent'[i].e])
      BY <1>3, <1>9 DEF Agrees
    <2>2. \A e \in Exec : client'[s].subscriptions[e] # None => client'[s].subscriptions[e] = w[e]
      BY <1>1, <1>4, <1>6, <1>9 DEF Agrees
    <2> QED BY <2>1, <2>2, <1>1, <1>9 DEF Agrees, polling
  <1>10. \E w \in View : Delivered(w)'
    BY <1>1, <1>9, StillDelivered
  <1>11. TypeOK'
    BY <1>1, <1>3, <1>6, <1>2 DEF TypeOK
  <1> QED BY <1>1, <1>2, <1>7, <1>8, <1>10, <1>11 DEF RealtimeInv

\* The handler goes on: what it has read, it has read now.
LEMMA HandlerMoves ==
    ASSUME RealtimeInv, NEW s \in Socket, NEW c \in command[s], NEW d,
           d \in Unanswered \cup Answering, d.pc # "wait", ~polling(s),
           d.e = c.e, d.cursor = c.cursor,
           d.pc = "reply" => Read(c.e, c.cursor, d.result) /\ Snap(d.result) = Tip(c.e),
           command' = [command EXCEPT ![s] = (command[s] \ {c}) \cup {d}],
           UNCHANGED <<log, client, pass, current, sent, received, view>>
    PROVE  RealtimeInv'
  <1>1. TypeOK /\ command \in [Socket -> SUBSET (Unanswered \cup Answering)]
    BY DEF RealtimeInv, TypeOK
  <1>2. command[s] = {c} /\ client[s].commandBusy
    BY OnlyHandler
  <1>3. /\ command'[s] = {d} /\ \A t \in Socket \ {s} : command'[t] = command[t]
        /\ command' \in [Socket -> SUBSET (Unanswered \cup Answering)]
    BY <1>1, <1>2
  <1>4. TypeOK'
    BY <1>1, <1>3 DEF TypeOK
  <1>5. \A t \in Socket : OneHandler(t)'
    <2>1. ASSUME NEW t \in Socket, t # s PROVE OneHandler(t)'
      BY Zenon, <2>1, <1>3, HandlersKept DEF polling
    <2>2. OneHandler(s)'
      BY <1>2, <1>3 DEF OneHandler, polling
    <2> QED BY <2>1, <2>2
  <1>6. Replayed'
    <2>1. \A t \in Socket : \A x \in command'[t] : x \in command[t] \/ x = d
      BY <1>3
    <2>2. d.pc = "reply" => Read(d.e, d.cursor, d.result)
      OBVIOUS
    <2> QED BY <2>1, <2>2 DEF RealtimeInv, Replayed, Read, Tip
  <1>7. ASSUME NEW w \in View, current # None, Agrees(current, w),
               \A e \in Exec : AtMost(w[e], Tip(e))
        PROVE  Agrees(current, w)'
    <2>1. CASE current = s
      <3>1. c.e \in Exec
        BY <1>1, CommandFacts
      <3>2. AtMost(d.cursor, w[d.e]) /\ (d.pc = "reply" => AtMost(w[d.e], Snap(d.result)))
        BY <1>7, <2>1, <3>1 DEF Agrees
      <3> QED BY <1>3, <1>7, <2>1, <3>2 DEF Agrees, polling
    <2>2. CASE current # s
      <3>1. command'[current] = command[current]
        BY <1>1, <1>3, <1>7, <2>2 DEF TypeOK
      <3> QED BY <1>7, <3>1 DEF Agrees, polling
    <2> QED BY <2>1, <2>2
  <1>8. \E w \in View : Delivered(w)'
    BY <1>7, StillDelivered
  <1> QED BY <1>4, <1>5, <1>6, <1>8 DEF RealtimeInv

\* A handler that is over leaves its socket without one.
LEMMA HandlerOver ==
    ASSUME RealtimeInv, NEW s \in Socket, NEW c \in command[s], Answered(s, c),
           client' \in [Socket -> Client], \A t \in Socket \ {s} : client'[t] = client[t],
           UNCHANGED <<log, pass>>
    PROVE  /\ command' \in [Socket -> SUBSET (Unanswered \cup Answering)]
           /\ command'[s] = {} /\ \A t \in Socket \ {s} : command'[t] = command[t]
           /\ \A t \in Socket : OneHandler(t)'
           /\ Replayed'
  <1>1. command \in [Socket -> SUBSET (Unanswered \cup Answering)]
    BY DEF RealtimeInv, TypeOK
  <1>2. command[s] = {c}
    BY OnlyHandler
  <1>3. /\ command' \in [Socket -> SUBSET (Unanswered \cup Answering)]
        /\ command'[s] = {} /\ \A t \in Socket \ {s} : command'[t] = command[t]
    BY <1>1, <1>2 DEF Answered
  <1>4. ASSUME NEW t \in Socket PROVE OneHandler(t)'
    <2>1. CASE t = s
      BY <1>3, <2>1 DEF OneHandler
    <2>2. CASE t # s
      BY Zenon, <1>3, <2>2, HandlersKept DEF polling
    <2> QED BY <2>1, <2>2
  <1>5. Replayed'
    <2>1. \A t \in Socket : \A x \in command'[t] : x \in command[t]
      BY <1>3
    <2> QED BY <2>1 DEF RealtimeInv, Replayed, Read, Tip
  <1> QED BY <1>3, <1>4, <1>5

LEMMA HandlerFails ==
    ASSUME RealtimeInv, NEW s \in Socket, NEW c \in command[s], Answered(s, c),
           client' = [client EXCEPT ![s].commandBusy = FALSE],
           UNCHANGED <<log, pass, current, sent, received, view>>
    PROVE  RealtimeInv'
  <1> DEFINE free == [client[s] EXCEPT !.commandBusy = FALSE]
  <1>1. TypeOK /\ client \in [Socket -> Client]
    BY DEF RealtimeInv, TypeOK
  <1>2. free \in Client /\ free.subscriptions = client[s].subscriptions
    BY Zenon, <1>1, ClientFacts DEF Client
  <1>3. client' = [client EXCEPT ![s] = free]
    OBVIOUS
  <1> HIDE DEF free
  <1>4. /\ client' \in [Socket -> Client] /\ \A t \in Socket \ {s} : client'[t] = client[t]
        /\ \A t \in Socket : client'[t].subscriptions = client[t].subscriptions
    BY Zenon, <1>1, <1>2, <1>3
  <1>5. /\ command' \in [Socket -> SUBSET (Unanswered \cup Answering)]
        /\ command'[s] = {} /\ \A t \in Socket \ {s} : command'[t] = command[t]
        /\ \A t \in Socket : OneHandler(t)'
        /\ Replayed'
    BY Zenon, <1>4, HandlerOver
  <1>6. TypeOK'
    BY <1>1, <1>4, <1>5 DEF TypeOK
  <1>7. ASSUME NEW w \in View, current # None, Agrees(current, w) PROVE Agrees(current, w)'
    <2>1. current \in Socket
      BY <1>1, <1>7 DEF TypeOK
    <2>2. /\ \A x \in command'[current] : x \in command[current]
          /\ client'[current].subscriptions = client[current].subscriptions
      BY <2>1, <1>4, <1>5
    <2> QED BY <1>7, <2>2 DEF Agrees, polling
  <1>8. \E w \in View : Delivered(w)'
    BY <1>7, StillDelivered
  <1> QED BY <1>5, <1>6, <1>8 DEF RealtimeInv

LEMMA SubscribeWaitStep ==
    ASSUME RealtimeInv, NEW s \in Socket, SubscribeWait(s)
    PROVE  RealtimeInv'
  <1>1. PICK c \in command[s] :
            /\ c.pc = "wait" /\ ~polling(s)
            /\ IF client[s].connected
               THEN /\ command' = [command EXCEPT ![s] =
                                    (command[s] \ {c}) \cup {[c EXCEPT !.pc = "read"]}]
                    /\ UNCHANGED client
               ELSE /\ Answered(s, c)
                    /\ client' = [client EXCEPT ![s].commandBusy = FALSE]
            /\ UNCHANGED <<log, pass, current, sent, received, view>>
    BY DEF SubscribeWait
  <1> DEFINE d == [c EXCEPT !.pc = "read"]
  <1>2. c \in Unanswered
    BY <1>1, CommandFacts DEF RealtimeInv
  <1>3. d \in Unanswered /\ d.pc = "read" /\ d.e = c.e /\ d.cursor = c.cursor
    BY <1>2 DEF Unanswered
  <1> HIDE DEF d
  <1>4. CASE client[s].connected
    <2>1. command' = [command EXCEPT ![s] = (command[s] \ {c}) \cup {d}]
      BY <1>1, <1>4 DEF d
    <2> QED BY Zenon, <1>1, <1>3, <1>4, <2>1, HandlerMoves
  <1>5. CASE ~client[s].connected
    BY <1>1, <1>5, HandlerFails
  <1> QED BY <1>4, <1>5

LEMMA SubscribeReadStep ==
    ASSUME RealtimeInv, NEW s \in Socket, SubscribeRead(s)
    PROVE  RealtimeInv'
  <1>1. PICK c \in command[s] :
            /\ c.pc = "read"
            /\ \/ /\ \E result \in replay(c.e, c.cursor) :
                        command' = [command EXCEPT ![s] = (command[s] \ {c}) \cup
                            {[pc |-> "reply", e |-> c.e, cursor |-> c.cursor, result |-> result]}]
                  /\ UNCHANGED <<client, current, sent, received>>
               \/ /\ Answered(s, c)
                  /\ client' = [client EXCEPT ![s].commandBusy = FALSE]
                  /\ UNCHANGED <<current, sent, received>>
               \/ /\ Answered(s, c)
                  /\ Dropped(s, FALSE)
            /\ UNCHANGED <<log, pass, view>>
    BY Zenon DEF SubscribeRead
  <1>2. TypeOK /\ c.e \in Exec /\ c.cursor \in Cursor
    BY CommandFacts DEF RealtimeInv
  <1>3. ASSUME NEW result \in replay(c.e, c.cursor),
               command' = [command EXCEPT ![s] = (command[s] \ {c}) \cup
                   {[pc |-> "reply", e |-> c.e, cursor |-> c.cursor, result |-> result]}],
               UNCHANGED <<client, current, sent, received>>
        PROVE  RealtimeInv'
    <2> DEFINE d == [pc |-> "reply", e |-> c.e, cursor |-> c.cursor, result |-> result]
    <2>1. /\ result \in Result /\ Snap(result) = Tip(c.e)
          /\ Read(c.e, c.cursor, result)
      BY <1>2, ReplayRead
    <2>2. d \in Answering /\ d.pc = "reply" /\ d.e = c.e /\ d.cursor = c.cursor /\ d.result = result
      BY <1>2, <2>1 DEF Answering
    <2>3. ~polling(s)
      BY <1>1 DEF RealtimeInv, OneHandler
    <2>4. command' = [command EXCEPT ![s] = (command[s] \ {c}) \cup {d}]
      BY <1>3
    <2> HIDE DEF d
    <2> QED BY Zenon, <1>1, <1>3, <2>1, <2>2, <2>3, <2>4, HandlerMoves
  <1>4. CASE /\ Answered(s, c)
             /\ client' = [client EXCEPT ![s].commandBusy = FALSE]
             /\ UNCHANGED <<current, sent, received>>
    BY Zenon, <1>1, <1>4, HandlerFails
  <1>5. CASE Answered(s, c) /\ Dropped(s, FALSE)
    <2>1. \A t \in Socket \ {s} : command'[t] = command[t]
      BY <1>5, <1>2 DEF Answered, TypeOK
    <2>2. /\ client' \in [Socket -> Client] /\ current' \in Socket \cup {None}
          /\ sent' \in Seq(Asking \cup Leaving) /\ received' \in Seq(Message)
          /\ current' = None => sent' = <<>>
          /\ \A t \in Socket \ {s} : client'[t] = client[t]
          /\ \E w \in View : Delivered(w)'
      BY Zenon, <1>1, <1>5, <2>1, DroppedStep
    <2>3. /\ command' \in [Socket -> SUBSET (Unanswered \cup Answering)]
          /\ \A t \in Socket : OneHandler(t)'
          /\ Replayed'
      BY <1>1, <1>5, <2>2, HandlerOver
    <2>4. TypeOK'
      BY <1>1, <1>2, <2>2, <2>3 DEF TypeOK
    <2> QED BY <2>2, <2>3, <2>4 DEF RealtimeInv
  <1> QED BY Zenon, <1>1, <1>3, <1>4, <1>5

\* The acknowledgement carries a result that is not behind anything sent before, and the
\* subscription starts where it ends.
LEMMA SubscribeReplyStep ==
    ASSUME RealtimeInv, NEW s \in Socket, SubscribeReply(s)
    PROVE  RealtimeInv'
  <1> DEFINE tip(r) == [attempt |-> r.attempt, after |-> r.last]
  <1>1. PICK c \in command[s] :
            /\ c.pc = "reply"
            /\ Answered(s, c)
            /\ IF client[s].connected
               THEN /\ client' = [client EXCEPT ![s] = [connected |-> TRUE, commandBusy |-> FALSE,
                            subscriptions |-> [client[s].subscriptions EXCEPT ![c.e] = tip(c.result)]]]
                    /\ Send(s, <<[type |-> "ack", e |-> c.e, result |-> c.result,
                                  from |-> c.cursor.after]>>)
               ELSE /\ client' = [client EXCEPT ![s].commandBusy = FALSE]
                    /\ UNCHANGED received
            /\ UNCHANGED <<log, pass, current, sent, view>>
    BY Zenon DEF SubscribeReply
  <1>2. TypeOK /\ c.e \in Exec /\ c.cursor \in Cursor /\ c.result \in Result
    BY <1>1, CommandFacts DEF RealtimeInv
  <1>3. CASE ~client[s].connected
    BY <1>1, <1>3, HandlerFails
  <1>4. CASE client[s].connected
    <2> DEFINE subs == [client[s].subscriptions EXCEPT ![c.e] = Snap(c.result)]
               new == [connected |-> TRUE, commandBusy |-> FALSE, subscriptions |-> subs]
               m == [type |-> "ack", e |-> c.e, result |-> c.result, from |-> c.cursor.after]
    <2>1. Snap(c.result) \in Cursor /\ tip(c.result) = Snap(c.result)
      BY <1>2, SnapType DEF Snap
    <2>2. client' = [client EXCEPT ![s] = new] /\ Send(s, <<m>>)
      BY <1>1, <1>4, <2>1
    <2>3. client[s].subscriptions \in [Exec -> Cursor \cup {None}] /\ client \in [Socket -> Client]
      BY <1>2, ClientFacts DEF TypeOK
    <2>4. new \in Client /\ new.subscriptions = subs
      BY <2>1, <2>3, <1>2 DEF Client
    <2>5. subs[c.e] = Snap(c.result) /\ \A e \in Exec \ {c.e} : subs[e] = client[s].subscriptions[e]
      BY <2>3, <1>2
    <2>6. m \in Message /\ m.e = c.e /\ m.type = "ack" /\ m.result = c.result
          /\ m.from = c.cursor.after
      BY <1>2 DEF Message, Snapshot, Cursor
    <2> HIDE DEF subs, new, m, tip
    <2>7. /\ client' \in [Socket -> Client] /\ \A t \in Socket \ {s} : client'[t] = client[t]
          /\ client'[s].subscriptions = subs
      BY <2>2, <2>3, <2>4
    <2>8. /\ command' \in [Socket -> SUBSET (Unanswered \cup Answering)]
          /\ command'[s] = {} /\ \A t \in Socket \ {s} : command'[t] = command[t]
          /\ \A t \in Socket : OneHandler(t)'
          /\ Replayed'
      BY <1>1, <2>7, HandlerOver
    <2>9. received \in Seq(Message) /\ <<m>> \in Seq(Message)
      BY <1>2, <2>6 DEF TypeOK
    <2>10. received' \in Seq(Message)
      BY <2>2, <2>9 DEF Send
    <2>11. TypeOK'
      BY <1>1, <1>2, <2>7, <2>8, <2>10 DEF TypeOK
    <2>12. CASE current # s
      <3>1. received' = received
        BY <2>2, <2>12 DEF Send
      <3>2. ASSUME NEW w \in View, current # None, Agrees(current, w) PROVE Agrees(current, w)'
        <4>1. current \in Socket \ {s}
          BY <1>2, <2>12, <3>2 DEF TypeOK
        <4>2. command'[current] = command[current] /\ client'[current] = client[current]
          BY <4>1, <2>7, <2>8
        <4> QED BY <1>1, <3>2, <4>2 DEF Agrees, polling
      <3>3. \E w \in View : Delivered(w)'
        BY <1>1, <3>1, <3>2, StillDelivered
      <3> QED BY <1>1, <2>8, <2>11, <3>3 DEF RealtimeInv
    <2>13. CASE current = s
      <3>1. PICK w \in View : Delivered(w)
        BY DEF RealtimeInv
      <3>2. Agrees(s, w) /\ Leads(view, received, w) /\ \A e \in Exec : AtMost(w[e], Tip(e))
        BY <2>13, <3>1, RealtimeAssumption DEF Delivered
      <3> DEFINE x == [w EXCEPT ![c.e] = Snap(c.result)]
      <3>3. /\ AtMost(c.cursor, w[c.e]) /\ AtMost(w[c.e], Snap(c.result))
            /\ Read(c.e, c.cursor, c.result) /\ ~polling(s)
        BY <1>1, <3>2 DEF Agrees, RealtimeInv, Replayed, OneHandler
      <3>4. /\ c.result.replayAvailable =>
                c.result.attempt = w[c.e].attempt /\ c.cursor.after <= w[c.e].after
        BY <1>2, <3>3 DEF AtMost, Read, Snap, Cursor, Result, View
      <3>5. Reached(m) = Snap(c.result)
        BY <2>6 DEF Reached
      <3>6. Continues(w, m, x)
        BY <2>6, <3>3, <3>4, <3>5 DEF Continues
      <3>7. x \in View /\ Leads(w, <<m>>, x)
        BY <3>6, <2>6, ContinuesForward, LeadsOne
      <3>8. x[c.e] = Snap(c.result) /\ \A e \in Exec \ {c.e} : x[e] = w[e]
        BY <1>2 DEF View
      <3> HIDE DEF x
      <3>9. received' = received \o <<m>>
        BY <2>2, <2>13 DEF Send
      <3>10. Leads(view', received', x)
        BY Zenon, <1>1, <2>9, <3>2, <3>7, <3>9, LeadsOn
      <3>11. \A e \in Exec : AtMost(x[e], Tip(e))'
        BY <1>1, <3>2, <3>3, <3>8 DEF Read, Tip
      <3>12. \A e \in Exec : AtMost(w[e], x[e])
        BY <3>6, ContinuesForward
      <3>13. \A i \in 1..Len(sent) : sent[i].type = "subscribe" => AtMost(sent[i].cursor, x[sent[i].e])
        <4> SUFFICES ASSUME NEW i \in 1..Len(sent), sent[i].type = "subscribe"
                     PROVE  AtMost(sent[i].cursor, x[sent[i].e])
          OBVIOUS
        <4>1. sent[i] \in Asking \cup Leaving
          BY <1>2 DEF TypeOK
        <4>2. sent[i].cursor \in Cursor /\ sent[i].e \in Exec
          BY <4>1 DEF Asking, Leaving
        <4>3. AtMost(sent[i].cursor, w[sent[i].e])
          BY <3>2 DEF Agrees
        <4> QED BY <4>2, <4>3, <3>7, <3>12, Order DEF View
      <3>14. \A e \in Exec : subs[e] # None => subs[e] = x[e]
        BY <2>5, <3>2, <3>8 DEF Agrees
      <3>15. Agrees(s, x)'
        BY <1>1, <2>7, <2>8, <3>3, <3>13, <3>14 DEF Agrees, polling
      <3>16. Delivered(x)'
        BY <1>1, <2>13, <3>10, <3>11, <3>15 DEF Delivered
      <3> QED BY <1>1, <2>8, <2>11, <3>7, <3>16 DEF RealtimeInv
    <2> QED BY <2>12, <2>13
  <1> QED BY <1>3, <1>4

-----------------------------------------------------------------------------
(* The polling pass *)

\* The pass is elsewhere, or between two subscriptions.
LEMMA PassMoves ==
    ASSUME RealtimeInv, pass' \in {NoPass} \cup Between,
           \A s \in Socket : pass'.socket = s => pass.socket = s \/ command[s] = {},
           UNCHANGED <<log, client, command, current, sent, received, view>>
    PROVE  RealtimeInv'
  <1>1. pass'.pc # "emit"
    BY DEF NoPass, Between
  <1>2. TypeOK'
    BY DEF RealtimeInv, TypeOK
  <1>3. \A t \in Socket : OneHandler(t)'
    BY DEF RealtimeInv, OneHandler, polling
  <1>4. Replayed'
    BY <1>1 DEF RealtimeInv, Replayed, Read, Tip
  <1>5. ASSUME NEW w \in View, Agrees(current, w) PROVE Agrees(current, w)'
    BY <1>1, <1>5 DEF Agrees, polling
  <1>6. \E w \in View : Delivered(w)'
    BY <1>5, StillDelivered
  <1> QED BY <1>2, <1>3, <1>4, <1>6 DEF RealtimeInv

LEMMA PollStartStep == ASSUME RealtimeInv, NEW s \in Socket, PollStart(s) PROVE RealtimeInv'
  <1>1. pass' \in Between /\ pass'.socket = s
    BY DEF PollStart, At, Between
  <1>2. command[s] = {}
    BY DEF PollStart, RealtimeInv, OneHandler
  <1> QED BY Zenon, <1>1, <1>2, PassMoves DEF PollStart

LEMMA PollEndStep == ASSUME RealtimeInv, PollEnd PROVE RealtimeInv'
  <1>1. pass' = NoPass /\ \A s \in Socket : pass'.socket # s
    BY RealtimeAssumption DEF PollEnd, NoPass
  <1> QED BY <1>1, PassMoves DEF PollEnd

LEMMA PollDropStep == ASSUME RealtimeInv, PollDrop PROVE RealtimeInv'
  <1> DEFINE s == pass.socket
  <1>1. TypeOK /\ s \in Socket
    BY PassFacts DEF RealtimeInv, PollDrop
  <1>2. client[s].commandBusy \in BOOLEAN
    BY <1>1, ClientFacts
  <1>3. /\ Dropped(s, client[s].commandBusy) /\ pass' = NoPass
        /\ UNCHANGED <<log, command, view>>
    BY DEF PollDrop
  <1> HIDE DEF s
  <1>4. /\ client' \in [Socket -> Client] /\ current' \in Socket \cup {None}
        /\ sent' \in Seq(Asking \cup Leaving) /\ received' \in Seq(Message)
        /\ current' = None => sent' = <<>>
        /\ client'[s].commandBusy = client[s].commandBusy
        /\ \A t \in Socket \ {s} : client'[t] = client[t]
        /\ \E w \in View : Delivered(w)'
    BY <1>1, <1>2, <1>3, DroppedStep
  <1>5. pass'.pc # "emit" /\ \A t \in Socket : pass'.socket # t
    BY <1>3, RealtimeAssumption DEF NoPass
  <1>6. TypeOK'
    BY <1>1, <1>3, <1>4 DEF TypeOK
  <1>7. \A t \in Socket : OneHandler(t)'
    BY <1>3, <1>4, <1>5 DEF RealtimeInv, OneHandler, polling
  <1>8. Replayed'
    BY <1>3, <1>5 DEF RealtimeInv, Replayed, Read, Tip
  <1> QED BY <1>4, <1>6, <1>7, <1>8 DEF RealtimeInv

LEMMA PollReadStep == ASSUME RealtimeInv, PollRead PROVE RealtimeInv'
  <1> DEFINE s == pass.socket
  <1>1. TypeOK /\ pass \in Between /\ s \in Socket /\ pass.seen \in SUBSET Exec
    BY PassFacts DEF RealtimeInv, PollRead, Between
  <1>2. PICK e \in Subscribed(s) : \E result \in replay(e, client[s].subscriptions[e]) :
            pass' = [socket |-> s, pc |-> "emit", seen |-> pass.seen \cup {e}, e |-> e,
                     cursor |-> client[s].subscriptions[e], result |-> result]
    BY Zenon DEF PollRead
  <1>a. PICK result \in replay(e, client[s].subscriptions[e]) :
            pass' = [socket |-> s, pc |-> "emit", seen |-> pass.seen \cup {e}, e |-> e,
                     cursor |-> client[s].subscriptions[e], result |-> result]
    BY Zenon, <1>2
  <1>3. UNCHANGED <<log, client, command, current, sent, received, view>>
    BY DEF PollRead
  <1>4. e \in Exec /\ client[s].subscriptions[e] \in Cursor /\ client[s].subscriptions[e] # None
    BY <1>1, ClientFacts DEF Subscribed
  <1> DEFINE cursor == client[s].subscriptions[e]
  <1>5. result \in Result /\ Snap(result) = Tip(e) /\ Read(e, cursor, result)
    BY <1>1, <1>4, ReplayRead
  <1>6. /\ pass' \in Emitting /\ pass'.socket = s /\ pass'.e = e /\ pass'.cursor = cursor
        /\ pass'.result = result
    BY <1>1, <1>a, <1>4, <1>5 DEF Emitting
  <1>7. TypeOK'
    BY <1>1, <1>3, <1>6 DEF TypeOK
  <1>8. \A t \in Socket : OneHandler(t)'
    BY Zenon, <1>3, <1>6 DEF RealtimeInv, OneHandler, polling
  <1>9. Replayed'
    BY <1>3, <1>5, <1>6 DEF RealtimeInv, Replayed, Read, Tip
  <1>10. ASSUME NEW w \in View, current # None, Agrees(current, w),
                \A f \in Exec : AtMost(w[f], Tip(f))
         PROVE  Agrees(current, w)'
    <2>1. polling(current)' => cursor = w[e] /\ AtMost(w[e], Snap(result))
      <3> SUFFICES ASSUME current = s PROVE cursor = w[e] /\ AtMost(w[e], Snap(result))
        BY <1>3, <1>6 DEF polling
      <3> QED BY Zenon, <1>4, <1>5, <1>10 DEF Agrees
    <2> HIDE DEF cursor, s
    <2> QED BY Zenon, <1>3, <1>6, <1>10, <2>1 DEF Agrees
  <1>11. \E w \in View : Delivered(w)'
    BY <1>3, <1>10, StillDelivered
  <1> QED BY <1>3, <1>7, <1>8, <1>9, <1>11 DEF RealtimeInv

\* What the pass emits continues what was sent before: on the browser's socket nothing else
\* has been sent since the pass has read.
LEMMA PollEmitStep == ASSUME RealtimeInv, PollEmit PROVE RealtimeInv'
  <1> DEFINE s == pass.socket
             e == pass.e
             r == pass.result
             live == Live(e, pass.cursor, r)
             old == client[s].subscriptions
             subs == [old EXCEPT ![e] = IF old[e] = None THEN None ELSE Snap(r)]
             new == [client[s] EXCEPT !.subscriptions = subs]
  <1>1. TypeOK /\ pass \in Emitting
    BY PassFacts DEF RealtimeInv, PollEmit
  <1>2. s \in Socket /\ pass.seen \in SUBSET Exec /\ e \in Exec /\ pass.cursor \in Cursor
        /\ r \in Result /\ pass.pc = "emit"
    BY <1>1 DEF Emitting
  <1>3. CASE ~client[s].connected
    <2>1. pass' = NoPass /\ UNCHANGED <<log, client, command, current, sent, received, view>>
      BY <1>3 DEF PollEmit
    <2>2. \A t \in Socket : pass'.socket # t
      BY <2>1, RealtimeAssumption DEF NoPass
    <2> QED BY <2>1, <2>2, PassMoves
  <1>4. CASE client[s].connected
    <2>1. Snap(r) \in Cursor /\ Snap(r) = [attempt |-> r.attempt, after |-> r.last]
      BY <1>2, SnapType DEF Snap
    <2>2. /\ Send(s, live) /\ client' = [client EXCEPT ![s] = new]
          /\ pass' = At(s, pass.seen)
          /\ UNCHANGED <<log, command, current, sent, view>>
      BY <1>4, <2>1 DEF PollEmit
    <2>3. old \in [Exec -> Cursor \cup {None}] /\ client \in [Socket -> Client]
          /\ client[s] \in Client
      BY <1>1, <1>2, ClientFacts DEF TypeOK
    <2>4. /\ subs \in [Exec -> Cursor \cup {None}]
          /\ subs[e] # None => subs[e] = Snap(r)
          /\ \A f \in Exec \ {e} : subs[f] = old[f]
      BY <1>2, <2>1, <2>3
    <2> HIDE DEF subs
    <2>5. new \in Client /\ new.subscriptions = subs /\ new.commandBusy = client[s].commandBusy
      BY Zenon, <2>3, <2>4 DEF Client
    <2> HIDE DEF new
    <2>6. /\ client' \in [Socket -> Client] /\ client'[s].subscriptions = subs
          /\ \A t \in Socket \ {s} : client'[t] = client[t]
          /\ \A t \in Socket : client'[t].commandBusy = client[t].commandBusy
      BY <1>2, <2>2, <2>3, <2>5
    <2>7. pass' \in Between /\ pass'.socket = s /\ pass'.pc # "emit"
      BY <1>2, <2>2 DEF At, Between
    <2>8. \A t \in Socket : OneHandler(t)'
      BY Zenon, <1>2, <2>2, <2>6, <2>7, HandlersKept DEF polling
    <2>9. Replayed'
      BY Zenon, <2>2, <2>7 DEF RealtimeInv, Replayed, Read, Tip
    <2>10. CASE current # s
      <3>1. received' = received
        BY <2>2, <2>10 DEF Send
      <3>2. TypeOK'
        BY <1>1, <2>2, <2>6, <2>7, <3>1 DEF TypeOK
      <3>3. ASSUME NEW w \in View, current # None, Agrees(current, w) PROVE Agrees(current, w)'
        <4>1. client'[current] = client[current]
          BY <1>1, <2>6, <2>10, <3>3 DEF TypeOK
        <4> QED BY Zenon, <2>2, <2>7, <3>3, <4>1 DEF Agrees, polling
      <3>4. \E w \in View : Delivered(w)'
        BY <2>2, <3>1, <3>3, StillDelivered
      <3> QED BY <2>2, <2>8, <2>9, <3>2, <3>4 DEF RealtimeInv
    <2>11. CASE current = s
      <3>1. PICK w \in View : Delivered(w)
        BY DEF RealtimeInv
      <3>2. Agrees(s, w) /\ Leads(view, received, w) /\ \A f \in Exec : AtMost(w[f], Tip(f))
        BY Zenon, <1>2, <2>11, <3>1, RealtimeAssumption DEF Delivered
      <3>3. pass.cursor = w[e] /\ AtMost(w[e], Snap(r)) /\ Read(e, w[e], r)
        BY Zenon, <1>2, <3>2 DEF Agrees, polling, RealtimeInv, Replayed
      <3>a. PICK x : x = [w EXCEPT ![e] = Snap(r)]
        BY Zenon
      <3>4. live \in Seq(Message) /\ Leads(w, live, x)
        BY Zenon, <1>2, <3>3, <3>a, LeadsLive DEF Read
      <3>5. x \in View /\ x[e] = Snap(r) /\ \A f \in Exec \ {e} : x[f] = w[f]
        BY <1>2, <2>1, <3>a DEF View
      <3> HIDE DEF live
      <3>6. received \in Seq(Message)
        BY <1>1 DEF TypeOK
      <3>7. received' = received \o live
        BY <2>2, <2>11 DEF Send
      <3>b. received' \in Seq(Message)
        BY <3>4, <3>6, <3>7
      <3>c. Leads(view, received \o live, x)
        BY Zenon, <3>2, <3>4, <3>6, LeadsOn
      <3>8. received' \in Seq(Message) /\ Leads(view', received', x)
        BY Zenon, <2>2, <3>b, <3>c, <3>7
      <3>9. TypeOK'
        BY <1>1, <2>2, <2>6, <2>7, <3>8 DEF TypeOK
      <3>10. \A f \in Exec : AtMost(x[f], Tip(f))'
        BY <2>2, <3>2, <3>3, <3>5 DEF Read, Tip
      <3>11. \A f \in Exec : AtMost(w[f], x[f])
        BY <3>4, LeadsForward
      <3>12. \A i \in 1..Len(sent) : sent[i].type = "subscribe" => AtMost(sent[i].cursor, x[sent[i].e])
        <4> SUFFICES ASSUME NEW i \in 1..Len(sent), sent[i].type = "subscribe"
                     PROVE  AtMost(sent[i].cursor, x[sent[i].e])
          OBVIOUS
        <4>1. sent[i] \in Asking \cup Leaving
          BY <1>1 DEF TypeOK
        <4>2. sent[i].cursor \in Cursor /\ sent[i].e \in Exec
          BY <4>1 DEF Asking, Leaving
        <4>3. AtMost(sent[i].cursor, w[sent[i].e])
          BY <3>2 DEF Agrees
        <4> QED BY <4>2, <4>3, <3>5, <3>11, Order DEF View
      <3>13. \A c \in command[s] : c.pc = "wait" /\ AtMost(c.cursor, x[c.e])
        <4> SUFFICES ASSUME NEW c \in command[s] PROVE c.pc = "wait" /\ AtMost(c.cursor, x[c.e])
          OBVIOUS
        <4>1. c.pc = "wait"
          BY <1>2 DEF RealtimeInv, OneHandler, polling
        <4>2. c.cursor \in Cursor /\ c.e \in Exec
          BY <1>1, <1>2, CommandFacts
        <4>3. AtMost(c.cursor, w[c.e])
          BY <3>2 DEF Agrees
        <4> QED BY <4>1, <4>2, <4>3, <3>5, <3>11, Order DEF View
      <3>14. \A f \in Exec : subs[f] # None => subs[f] = x[f]
        BY <2>4, <3>2, <3>5 DEF Agrees
      <3>15. Agrees(current, x)'
        <4>1. /\ client'[current'].subscriptions = subs /\ command'[current'] = command[s]
              /\ sent' = sent /\ pass'.pc # "emit"
          BY <2>2, <2>6, <2>7, <2>11
        <4> HIDE DEF s
        <4> QED BY <4>1, <3>12, <3>13, <3>14 DEF Agrees
      <3>16. Delivered(x)'
        BY <2>2, <2>11, <3>8, <3>10, <3>15 DEF Delivered
      <3> QED BY Zenon, <2>2, <2>8, <2>9, <2>11, <3>5, <3>9, <3>16 DEF RealtimeInv
    <2> QED BY <2>10, <2>11
  <1> QED BY <1>3, <1>4

-----------------------------------------------------------------------------
(* The browser and the writers of the log *)

\* The command that is sent is no subscription, or one with the view the browser has.
LEMMA CommandSent ==
    ASSUME RealtimeInv, NEW m \in Asking \cup Leaving,
           m.type = "subscribe" => m.cursor = view[m.e],
           current # None, sent' = Append(sent, m),
           UNCHANGED <<log, client, command, pass, current, received, view>>
    PROVE  RealtimeInv'
  <1>1. TypeOK /\ sent \in Seq(Asking \cup Leaving) /\ received \in Seq(Message)
    BY DEF RealtimeInv, TypeOK
  <1>2. /\ sent' \in Seq(Asking \cup Leaving)
        /\ \A i \in 1..Len(sent') : (i \in 1..Len(sent) /\ sent'[i] = sent[i]) \/ sent'[i] = m
    BY <1>1
  <1>3. TypeOK'
    BY <1>1, <1>2 DEF TypeOK
  <1>4. \A t \in Socket : OneHandler(t)'
    BY DEF RealtimeInv, OneHandler, polling
  <1>5. Replayed'
    BY DEF RealtimeInv, Replayed, Read, Tip
  <1>6. PICK w \in View : Delivered(w)
    BY DEF RealtimeInv
  <1>7. Leads(view, received, w) /\ Agrees(current, w) /\ \A e \in Exec : AtMost(w[e], Tip(e))
    BY <1>6 DEF Delivered
  <1>8. m.e \in Exec
    BY DEF Asking, Leaving
  <1>9. m.type = "subscribe" => AtMost(m.cursor, w[m.e])
    BY <1>1, <1>7, <1>8, LeadsForward
  <1>10. \A i \in 1..Len(sent') :
            sent'[i].type = "subscribe" => AtMost(sent'[i].cursor, w[sent'[i].e])
    BY <1>2, <1>7, <1>9 DEF Agrees
  <1>11. Agrees(current, w)'
    BY Zenon, <1>7, <1>10 DEF Agrees, polling
  <1>12. Delivered(w)'
    BY <1>7, <1>11 DEF Delivered, Tip
  <1> QED BY <1>3, <1>4, <1>5, <1>12 DEF RealtimeInv

LEMMA SendSubscribeStep ==
    ASSUME RealtimeInv, NEW e \in Exec, SendSubscribe(e)
    PROVE  RealtimeInv'
  <1> DEFINE m == [type |-> "subscribe", e |-> e, cursor |-> view[e]]
  <1>1. view[e] \in Cursor
    BY DEF RealtimeInv, TypeOK, View
  <1>2. m \in Asking /\ m.cursor = view[m.e]
    BY <1>1 DEF Asking
  <1>3. sent' = Append(sent, m)
    BY DEF SendSubscribe
  <1> HIDE DEF m
  <1> QED BY <1>2, <1>3, CommandSent DEF SendSubscribe

LEMMA SendUnsubscribeStep ==
    ASSUME RealtimeInv, NEW e \in Exec, SendUnsubscribe(e)
    PROVE  RealtimeInv'
  <1> DEFINE m == [type |-> "unsubscribe", e |-> e]
  <1>1. m \in Leaving /\ m.type # "subscribe"
    BY DEF Leaving
  <1>2. sent' = Append(sent, m)
    BY DEF SendUnsubscribe
  <1> HIDE DEF m
  <1> QED BY <1>1, <1>2, CommandSent DEF SendUnsubscribe

\* What is received next continues the view, and the browser applies it.
LEMMA Received ==
    ASSUME RealtimeInv, Receive
    PROVE  /\ Continues(view, Head(received), view')
           /\ \A w : Leads(view, received, w) => Leads(view', received', w)
  <1> DEFINE m == Head(received)
  <1>1. received \in Seq(Message) /\ received # <<>> /\ received' = Tail(received) /\ view \in View
    BY DEF RealtimeInv, TypeOK, Receive
  <1>2. view' = [view EXCEPT ![m.e] =
            IF m.type # "event" THEN [attempt |-> m.result.attempt, after |-> m.result.last]
            ELSE IF Stale(view[m.e], m) THEN view[m.e]
            ELSE [attempt |-> m.attempt, after |-> m.sequence]]
    BY DEF Receive
  <1> HIDE DEF m
  <1>3. ASSUME NEW v \in View, Continues(view, m, v) PROVE v = view'
    <2>1. CASE m.type # "event"
      BY <1>2, <1>3, <2>1 DEF Continues, Reached, Snap
    <2>2. CASE m.type = "event"
      <3>1. m \in Event /\ m.e \in Exec
        BY <2>2, <1>3 DEF Continues, Message, Snapshot, Event
      <3>2. /\ view[m.e].attempt \in Nat /\ view[m.e].after \in Nat
            /\ m.attempt = view[m.e].attempt /\ m.sequence = view[m.e].after + 1
        BY <1>1, <1>3, <2>2, <3>1 DEF Continues, View, Cursor
      <3>3. ~Stale(view[m.e], m)
        BY <3>2 DEF Stale
      <3> QED BY <1>2, <1>3, <2>2, <3>3 DEF Continues, Reached
    <2> QED BY <2>1, <2>2
  <1>4. ASSUME NEW w, Leads(view, received, w)
        PROVE  Continues(view, m, view') /\ Leads(view', received', w)
    <2>1. PICK v \in View : Continues(view, m, v) /\ Leads(v, Tail(received), w)
      BY <1>1, <1>4, LeadsFrom DEF m
    <2> QED BY <1>1, <1>3, <2>1
  <1>5. PICK w \in View : Delivered(w)
    BY DEF RealtimeInv
  <1>6. Continues(view, m, view')
    BY <1>4, <1>5 DEF Delivered
  <1> QED BY <1>4, <1>6 DEF m

LEMMA ReceiveStep == ASSUME RealtimeInv, Receive PROVE RealtimeInv'
  <1>1. UNCHANGED <<log, client, command, pass, current, sent>>
    BY DEF Receive
  <1>2. TypeOK /\ received \in Seq(Message) /\ view \in View
    BY DEF RealtimeInv, TypeOK
  <1>3. received' \in Seq(Message)
    BY <1>2 DEF Receive
  <1>4. view' \in View
    BY <1>2, Received, ContinuesForward
  <1>5. TypeOK'
    BY <1>1, <1>2, <1>3, <1>4 DEF TypeOK
  <1>6. \A t \in Socket : OneHandler(t)'
    BY <1>1 DEF RealtimeInv, OneHandler, polling
  <1>7. Replayed'
    BY <1>1 DEF RealtimeInv, Replayed, Read, Tip
  <1>8. PICK w \in View : Delivered(w)
    BY DEF RealtimeInv
  <1>9. Leads(view', received', w)
    BY <1>8, Received DEF Delivered
  <1>10. \A e \in Exec : AtMost(w[e], Tip(e))'
    BY Zenon, <1>1, <1>8 DEF Delivered, Tip
  <1>11. current' # None => Agrees(current, w)'
    BY <1>1, <1>8 DEF Delivered, Agrees, polling
  <1>12. Delivered(w)'
    BY <1>9, <1>10, <1>11 DEF Delivered
  <1> QED BY <1>1, <1>5, <1>6, <1>7, <1>12 DEF RealtimeInv

LEMMA WriteStep == ASSUME RealtimeInv, NEW e \in Exec, Write(e) PROVE RealtimeInv'
  <1>1. PICK l \in Log : Follows(log[e], l) /\ log' = [log EXCEPT ![e] = l]
    BY Zenon DEF Write
  <1>2. UNCHANGED <<client, command, pass, current, sent, received, view>>
    BY DEF Write
  <1>3. TypeOK /\ log \in [Exec -> Log]
    BY DEF RealtimeInv, TypeOK
  <1>4. log' \in [Exec -> Log]
    BY <1>1, <1>3
  <1>5. TypeOK'
    BY <1>2, <1>3, <1>4 DEF TypeOK
  <1>6. ASSUME NEW f \in Exec PROVE AtMost(Tip(f), Tip(f)') /\ Tip(f) \in Cursor /\ Tip(f)' \in Cursor
    <2>1. Tip(f) \in Cursor
      BY <1>3, TipType
    <2>2. log'[f] \in Log
      BY <1>4
    <2>3. Tip(f)' \in Cursor
      <3>1. log'[f].attempt \in Nat /\ log'[f].last \in Nat
        BY <2>2, RealtimeAssumption DEF Log
      <3> QED BY Zenon, <3>1 DEF Tip, Cursor
    <2>4. CASE f = e
      <3>1. log'[f] = l /\ log[f] \in Log /\ Follows(log[f], l)
        BY <1>1, <1>3, <2>4
      <3>2. AtMost([attempt |-> log[f].attempt, after |-> log[f].last],
                   [attempt |-> l.attempt, after |-> l.last])
        BY <3>1, LogGrows
      <3>3. AtMost(Tip(f), Tip(f)')
        BY <3>1, <3>2 DEF Tip
      <3> QED BY <3>3, <2>1, <2>3
    <2>5. CASE f # e
      BY <1>1, <1>3, <2>1, <2>5, Same DEF Tip
    <2> QED BY <2>1, <2>3, <2>4, <2>5
  <1>7. ASSUME NEW f \in Exec, NEW a \in Cursor, AtMost(a, Tip(f)) PROVE AtMost(a, Tip(f)')
    BY <1>6, <1>7, Order
  <1>8. \A t \in Socket : OneHandler(t)'
    BY <1>2 DEF RealtimeInv, OneHandler, polling
  <1>9. Replayed'
    <2>1. ASSUME pass.pc = "emit" PROVE Read(pass.e, pass.cursor, pass.result)'
      <3>1. pass \in Emitting /\ Read(pass.e, pass.cursor, pass.result)
        BY <1>3, <2>1, PassFacts DEF RealtimeInv, Replayed
      <3>2. pass.e \in Exec /\ Snap(pass.result) \in Cursor
        BY <3>1, SnapType DEF Emitting
      <3>3. AtMost(Snap(pass.result), Tip(pass.e))
        BY <3>1 DEF Read
      <3>4. AtMost(Snap(pass.result), [attempt |-> log'[pass.e].attempt, after |-> log'[pass.e].last])
        BY <1>7, <3>2, <3>3 DEF Tip
      <3> QED BY <1>2, <3>1, <3>4 DEF Read, Tip
    <2>2. ASSUME NEW t \in Socket, NEW c \in command[t], c.pc = "reply"
          PROVE  Read(c.e, c.cursor, c.result)'
      <3>1. c.e \in Exec /\ c.result \in Result /\ Read(c.e, c.cursor, c.result)
        BY <1>3, <2>2, CommandFacts DEF RealtimeInv, Replayed
      <3>2. Snap(c.result) \in Cursor
        BY <3>1, SnapType
      <3> QED BY <3>1, <3>2, <1>7 DEF Read
    <2> QED BY <1>2, <2>1, <2>2 DEF Replayed
  <1>10. PICK w \in View : Delivered(w)
    BY DEF RealtimeInv
  <1>11. Leads(view', received', w)
    BY <1>2, <1>10 DEF Delivered
  <1>12. \A f \in Exec : AtMost(w[f], Tip(f)')
    BY <1>7, <1>10 DEF Delivered, View
  <1>13. current' # None => Agrees(current, w)'
    BY <1>2, <1>10 DEF Delivered, Agrees, polling
  <1>14. Delivered(w)'
    BY <1>11, <1>12, <1>13 DEF Delivered
  <1> QED BY <1>2, <1>5, <1>8, <1>9, <1>14 DEF RealtimeInv

-----------------------------------------------------------------------------
(* The theorems *)

LEMMA NextInv == ASSUME RealtimeInv, [RealtimeNext]_vars PROVE RealtimeInv'
  <1>1. CASE UNCHANGED vars
    <2>1. TypeOK'
      BY <1>1 DEF RealtimeInv, TypeOK, vars
    <2>2. \A t \in Socket : OneHandler(t)'
      BY <1>1 DEF RealtimeInv, OneHandler, polling, vars
    <2>3. Replayed'
      BY <1>1 DEF RealtimeInv, Replayed, Read, Tip, vars
    <2>4. \A w \in View : Agrees(current, w) => Agrees(current, w)'
      BY <1>1 DEF Agrees, polling, vars
    <2>5. \E w \in View : Delivered(w)'
      BY <1>1, <2>4, StillDelivered DEF vars
    <2> QED BY <1>1, <2>1, <2>2, <2>3, <2>5 DEF RealtimeInv, vars
  <1>2. CASE Break \/ PollRead \/ PollEmit \/ PollEnd \/ PollDrop \/ Receive
    BY <1>2, BreakStep, PollReadStep, PollEmitStep, PollEndStep, PollDropStep, ReceiveStep
  <1>3. ASSUME NEW s \in Socket,
               Connect(s) \/ Disconnect(s) \/ Subscribe(s) \/ Unsubscribe(s) \/ PollStart(s)
        PROVE  RealtimeInv'
    BY <1>3, ConnectStep, DisconnectStep, SubscribeStep, UnsubscribeStep, PollStartStep
  <1>4. ASSUME NEW s \in Socket, handlers(s) PROVE RealtimeInv'
    BY <1>4, SubscribeWaitStep, SubscribeReadStep, SubscribeReplyStep DEF handlers
  <1>5. ASSUME NEW e \in Exec, SendSubscribe(e) \/ SendUnsubscribe(e) \/ Write(e)
        PROVE  RealtimeInv'
    BY <1>5, SendSubscribeStep, SendUnsubscribeStep, WriteStep
  <1> QED BY <1>1, <1>2, <1>3, <1>4, <1>5 DEF RealtimeNext, poll

\* The invariant of live delivery: the messages under way lead the browser's view step by
\* step to the cursor that the server keeps, which is not ahead of the log.
THEOREM RealtimeInvariant == RealtimeSpec => []RealtimeInv
  <1>1. RealtimeInit => RealtimeInv
    BY InitInv
  <1>2. RealtimeInv /\ [RealtimeNext]_vars => RealtimeInv'
    BY NextInv
  <1> QED BY <1>1, <1>2, PTL DEF RealtimeSpec

\* No event is skipped: what reaches the browser next continues what it has seen of that
\* attempt, or is a snapshot to start again from (subscribe, replay and poll).
THEOREM NoGapHolds == RealtimeSpec => []NoGap
  <1>1. RealtimeInv => NoGap
    <2> SUFFICES ASSUME RealtimeInv, received # <<>>
                 PROVE  LET m == Head(received)
                            v == view[m.e]
                        IN  /\ m.type = "event" => m.attempt = v.attempt /\ m.sequence <= v.after + 1
                            /\ m.type = "ack" /\ m.result.replayAvailable =>
                                m.result.attempt = v.attempt /\ m.from <= v.after
      BY DEF NoGap
    <2>1. received \in Seq(Message) /\ view \in View
      BY DEF RealtimeInv, TypeOK
    <2>2. PICK w \in View : Leads(view, received, w)
      BY DEF RealtimeInv, Delivered
    <2>3. PICK v \in View : Continues(view, Head(received), v)
      BY <2>1, <2>2, LeadsFrom
    <2>4. Head(received).e \in Exec
      BY <2>3, ReachedType DEF Continues
    <2>5. view[Head(received).e].after \in Nat
      BY <2>1, <2>4 DEF View, Cursor
    <2> DEFINE m == Head(received)
               c == view[m.e]
    <2>6. m.type = "event" => m.attempt = c.attempt /\ m.sequence = c.after + 1
      BY Zenon, <2>3 DEF Continues
    <2>7. m.type = "ack" /\ m.result.replayAvailable => m.result.attempt = c.attempt /\ m.from <= c.after
      BY Zenon, <2>3 DEF Continues
    <2> HIDE DEF m, c
    <2>8. m.type = "event" => m.attempt = c.attempt /\ m.sequence <= c.after + 1
      BY <2>5, <2>6 DEF c, m
    <2> QED BY <2>7, <2>8 DEF c, m
  <1> QED BY RealtimeInvariant, <1>1, PTL

\* What the browser shows never goes back to an earlier event or attempt, although it
\* restores every snapshot that a handler or the pass sends.
THEOREM ForwardHolds == RealtimeSpec => Forward
  <1>1. RealtimeInv /\ [RealtimeNext]_vars =>
            [\A e \in Exec :
                \/ view'[e].attempt > view[e].attempt
                \/ view'[e].attempt = view[e].attempt /\ view'[e].after >= view[e].after]_vars
    <2> SUFFICES ASSUME RealtimeInv, RealtimeNext, NEW e \in Exec
                 PROVE  \/ view'[e].attempt > view[e].attempt
                        \/ view'[e].attempt = view[e].attempt /\ view'[e].after >= view[e].after
      OBVIOUS
    <2>1. view[e] \in Cursor /\ view \in View
      BY DEF RealtimeInv, TypeOK, View
    <2>2. CASE Receive
      <3>1. view' \in View /\ AtMost(view[e], view'[e])
        BY <2>1, <2>2, Received, ContinuesForward
      <3> QED BY <2>1, <3>1 DEF AtMost, View, Cursor
    <2>3. CASE view' = view
      BY <2>1, <2>3 DEF Cursor
    <2>4. Receive \/ view' = view
      <3>1. CASE Break \/ PollRead \/ PollEmit \/ PollEnd \/ PollDrop
        BY <3>1 DEF Break, PollRead, PollEmit, PollEnd, PollDrop
      <3>2. ASSUME NEW s \in Socket,
                   Connect(s) \/ Disconnect(s) \/ Subscribe(s) \/ Unsubscribe(s) \/ PollStart(s)
            PROVE  view' = view
        BY <3>2 DEF Connect, Disconnect, Subscribe, Unsubscribe, PollStart
      <3>3. ASSUME NEW s \in Socket, handlers(s) PROVE view' = view
        BY Zenon, <3>3 DEF handlers, SubscribeWait, SubscribeRead, SubscribeReply
      <3>4. ASSUME NEW f \in Exec, SendSubscribe(f) \/ SendUnsubscribe(f) \/ Write(f)
            PROVE  view' = view
        BY <3>4 DEF SendSubscribe, SendUnsubscribe, Write
      <3> QED BY <3>1, <3>2, <3>3, <3>4 DEF RealtimeNext, poll
    <2> QED BY <2>2, <2>3, <2>4
  <1> QED BY RealtimeInvariant, <1>1, PTL DEF RealtimeSpec, Forward
=============================================================================
