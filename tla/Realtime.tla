------------------------------ MODULE Realtime ------------------------------
(***************************************************************************)
(* Live delivery (apps/api/src/executions/realtime.ts, with replay of      *)
(* job-store.ts): the subscribe and unsubscribe handlers of a socket, the  *)
(* polling pass that runs beside them, and a browser that follows the      *)
(* protocol of docs/STAGE_5_PIPELINE.md through lost connections.          *)
(*                                                                         *)
(* A handler runs without interruption from one await to the next; at each *)
(* await other handlers, the polling pass and the writers of the log go    *)
(* on.                                                                     *)
(***************************************************************************)
EXTENDS PublicLog, Sequences, FiniteSets

CONSTANTS
    Socket,            \* connections the browser opens, one after the other
    None,
    MaxSubscriptions,  \* subscriptions of a socket
    MaxAttempt,        \* bound: attempts
    MaxLast,           \* bound: events of an attempt
    MaxSent,           \* bound: commands on their way
    MaxBacklog         \* bound: messages on their way when a command is sent

ASSUME RealtimeAssumption ==
    /\ None \notin Socket /\ None \notin Exec
    /\ {MaxSubscriptions, MaxAttempt, MaxLast, MaxSent, MaxBacklog} \subseteq Nat

VARIABLES
    client,   \* ClientState of each socket: connected, its cursors, commandBusy
    command,  \* the subscribe handlers in flight on each socket
    pass,     \* the polling pass
    current,  \* the socket the browser listens on
    sent,     \* commands from the browser, in order
    received, \* messages to the browser, in order
    view      \* what the browser has seen of each execution

vars == <<log, client, command, pass, current, sent, received, view>>

-----------------------------------------------------------------------------
(* Values *)

Log == [attempt: 0..MaxAttempt, last: 0..MaxLast, stored: SUBSET (1..MaxLast), ended: BOOLEAN]

\* A cursor: the last event seen of an attempt.
Start == [attempt |-> 0, after |-> 0]

NotConnected == [connected |-> FALSE, subscriptions |-> [e \in Exec |-> None],
                 commandBusy |-> FALSE]

NoPass == [socket |-> None, pc |-> "idle", seen |-> {}, e |-> None, cursor |-> None,
           result |-> None]

\* The pass at socket s, between two of its subscriptions.
At(s, seen) == [socket |-> s, pc |-> "next", seen |-> seen, e |-> None, cursor |-> None,
                result |-> None]

Subscribed(s) == {e \in Exec : client[s].subscriptions[e] # None}

\* The pass is at this socket.
polling(s) == pass.socket = s

-----------------------------------------------------------------------------
(* JobStore.replay *)

\* The events of the row's attempt after the cursor, less those that have expired
\* by the reader's clock, are sent along only if none is missing.
replay(e, cursor) ==
    LET l == log[e]
        wanted == cursor.after + 1 .. l.last
    IN
    {[attempt |-> l.attempt, last |-> l.last,
      replayAvailable |-> cursor.attempt = l.attempt /\ cursor.after <= l.last /\ seen = wanted] :
        seen \in SUBSET (l.stored \cap wanted)}

\* The messages of a result that starts from `cursor`, as the polling pass sends it.
Live(e, cursor, result) ==
    IF result.replayAvailable
    THEN [i \in 1..result.last - cursor.after |->
            [type |-> "event", e |-> e, attempt |-> result.attempt, sequence |-> cursor.after + i]]
    ELSE <<[type |-> "sync", e |-> e, result |-> result, from |-> 0]>>

\* Only the socket the browser listens on gets anything through.
Send(s, messages) == received' = IF s = current THEN received \o messages ELSE received

-----------------------------------------------------------------------------
(* Connections *)

Connect(s) ==
    /\ current = None /\ client[s] = NotConnected /\ command[s] = {} /\ ~polling(s)
    /\ current' = s
    /\ client' = [client EXCEPT ![s].connected = TRUE]
    /\ UNCHANGED <<log, command, pass, sent, received, view>>

\* The connection is lost with what is under way; the server has not noticed.
Break ==
    /\ current # None
    /\ current' = None /\ sent' = <<>> /\ received' = <<>>
    /\ UNCHANGED <<log, client, command, pass, view>>

\* disconnect: the socket leaves `clients`; its handlers notice after their await.
Dropped(s, busy) ==
    /\ client' = [client EXCEPT ![s] = [NotConnected EXCEPT !.commandBusy = busy]]
    /\ IF current = s THEN current' = None /\ sent' = <<>> /\ received' = <<>>
                      ELSE UNCHANGED <<current, sent, received>>

Disconnect(s) ==
    /\ client[s].connected /\ current # s
    /\ Dropped(s, client[s].commandBusy)
    /\ UNCHANGED <<log, command, pass, view>>

-----------------------------------------------------------------------------
(* subscribe_execution and unsubscribe_execution *)

\* The handler up to its first await.  It refuses a command that comes while
\* another is in flight, is one too many for the minute, or would subscribe to
\* too much.
Subscribe(s) ==
    LET c == Head(sent)
        admitted == /\ ~client[s].commandBusy
                    /\ c.e \in Subscribed(s) \/ Cardinality(Subscribed(s)) < MaxSubscriptions
    IN
    /\ s = current /\ client[s].connected /\ sent # <<>> /\ Head(sent).type = "subscribe"
    /\ sent' = Tail(sent)
    /\ \/ /\ admitted
          /\ client' = [client EXCEPT ![s].commandBusy = TRUE]
          /\ command' = [command EXCEPT ![s] = @ \cup
                {[pc |-> "wait", e |-> c.e, cursor |-> c.cursor, result |-> None]}]
       \/ UNCHANGED <<client, command>>
    /\ UNCHANGED <<log, pass, current, received, view>>

\* The handler is over.
Answered(s, c) ==
    command' = [command EXCEPT ![s] = @ \ {c}]

\* Mutant: the handler does not wait for the pass that is at its socket.
SubscribeWaitNot(s) ==
    \E c \in command[s] :
        /\ c.pc = "wait" /\ client[s].connected
        /\ command' = [command EXCEPT ![s] = (@ \ {c}) \cup {[c EXCEPT !.pc = "read"]}]
        /\ UNCHANGED <<log, client, pass, current, sent, received, view>>

\* After `await client.polling`; the session is looked up next.
SubscribeWait(s) ==
    \E c \in command[s] :
        /\ c.pc = "wait" /\ ~polling(s)
        /\ IF client[s].connected
           THEN /\ command' = [command EXCEPT ![s] = (@ \ {c}) \cup {[c EXCEPT !.pc = "read"]}]
                /\ UNCHANGED client
           ELSE /\ Answered(s, c)
                /\ client' = [client EXCEPT ![s].commandBusy = FALSE]
        /\ UNCHANGED <<log, pass, current, sent, received, view>>

\* Mutant: a handler that fails leaves the socket busy.
SubscribeReadStuck(s) ==
    \E c \in command[s] :
        /\ c.pc = "read"
        /\ \/ /\ log[c.e].last > 0
              /\ \E result \in replay(c.e, c.cursor) :
                    command' = [command EXCEPT ![s] =
                        (@ \ {c}) \cup
                            {[pc |-> "reply", e |-> c.e, cursor |-> c.cursor, result |-> result]}]
           \/ Answered(s, c)
        /\ UNCHANGED <<log, client, pass, current, sent, received, view>>

\* replay has read; or it has failed, or the session is gone.
SubscribeRead(s) ==
    \E c \in command[s] :
        /\ c.pc = "read"
        /\ \/ /\ log[c.e].last > 0
              /\ \E result \in replay(c.e, c.cursor) :
                    command' = [command EXCEPT ![s] =
                        (@ \ {c}) \cup
                            {[pc |-> "reply", e |-> c.e, cursor |-> c.cursor, result |-> result]}]
              /\ UNCHANGED <<client, current, sent, received>>
           \/ /\ Answered(s, c)
              /\ client' = [client EXCEPT ![s].commandBusy = FALSE]
              /\ UNCHANGED <<current, sent, received>>
           \/ /\ Answered(s, c)
              /\ Dropped(s, FALSE)
        /\ UNCHANGED <<log, pass, view>>

\* The subscription is set and the acknowledgement sent in one go.
SubscribeReply(s) ==
    \E c \in command[s] :
        /\ c.pc = "reply"
        /\ Answered(s, c)
        /\ IF client[s].connected
           THEN /\ client' = [client EXCEPT ![s] = [connected |-> TRUE, commandBusy |-> FALSE,
                    subscriptions |-> [client[s].subscriptions EXCEPT ![c.e] =
                        [attempt |-> c.result.attempt, after |-> c.result.last]]]]
                /\ Send(s, <<[type |-> "ack", e |-> c.e, result |-> c.result,
                              from |-> c.cursor.after]>>)
           ELSE /\ client' = [client EXCEPT ![s].commandBusy = FALSE]
                /\ UNCHANGED received
        /\ UNCHANGED <<log, pass, current, sent, view>>

Unsubscribe(s) ==
    /\ s = current /\ client[s].connected /\ sent # <<>> /\ Head(sent).type = "unsubscribe"
    /\ sent' = Tail(sent)
    /\ client' = [client EXCEPT ![s].subscriptions[Head(sent).e] = None]
    /\ UNCHANGED <<log, command, pass, current, received, view>>

-----------------------------------------------------------------------------
(* poll: one pass visits the sockets one after the other *)

PollStart(s) ==
    /\ pass = NoPass /\ client[s].connected /\ ~client[s].commandBusy
    /\ pass' = At(s, {})
    /\ UNCHANGED <<log, client, command, current, sent, received, view>>

\* The session is gone, the transport is not writable or a query has failed.
PollDrop ==
    /\ pass # NoPass /\ client[pass.socket].connected
    /\ Dropped(pass.socket, client[pass.socket].commandBusy)
    /\ pass' = NoPass
    /\ UNCHANGED <<log, command, view>>

\* The next subscription of the socket; a Map's iterator skips what was deleted.
PollRead ==
    /\ pass.pc = "next"
    /\ \E e \in Subscribed(pass.socket) \ pass.seen :
        \E result \in replay(e, client[pass.socket].subscriptions[e]) :
            pass' = [socket |-> pass.socket, pc |-> "emit", seen |-> pass.seen \cup {e}, e |-> e,
                     cursor |-> client[pass.socket].subscriptions[e], result |-> result]
    /\ UNCHANGED <<log, client, command, current, sent, received, view>>

\* Emit what was read, also when the subscription has been deleted meanwhile, and
\* move the cursor to the snapshot.
PollEmit ==
    LET s == pass.socket IN
    /\ pass.pc = "emit"
    /\ IF client[s].connected
       THEN /\ Send(s, Live(pass.e, pass.cursor, pass.result))
            /\ client' = [client EXCEPT ![s].subscriptions[pass.e] =
                  IF @ = None THEN None
                  ELSE [attempt |-> pass.result.attempt, after |-> pass.result.last]]
            /\ pass' = At(s, pass.seen)
       ELSE pass' = NoPass /\ UNCHANGED <<client, received>>
    /\ UNCHANGED <<log, command, current, sent, view>>

PollEnd ==
    /\ pass.pc = "next" /\ Subscribed(pass.socket) \subseteq pass.seen
    /\ pass' = NoPass
    /\ UNCHANGED <<log, client, command, current, sent, received, view>>

-----------------------------------------------------------------------------
(* The browser, as the documentation asks for *)

SendSubscribe(e) ==
    /\ current # None /\ Len(sent) < MaxSent /\ Len(received) <= MaxBacklog
    /\ sent' = Append(sent, [type |-> "subscribe", e |-> e, cursor |-> view[e]])
    /\ UNCHANGED <<log, client, command, pass, current, received, view>>

SendUnsubscribe(e) ==
    /\ current # None /\ Len(sent) < MaxSent /\ Len(received) <= MaxBacklog
    /\ sent' = Append(sent, [type |-> "unsubscribe", e |-> e])
    /\ UNCHANGED <<log, client, command, pass, current, received, view>>

\* The message m adds nothing to what v has seen.
Stale(v, m) == m.attempt < v.attempt \/ (m.attempt = v.attempt /\ m.sequence <= v.after)

\* Apply replayed and live events in order, without duplicates; restore a snapshot
\* that comes without events.
Receive ==
    LET m == Head(received)
        v == view[m.e]
    IN
    /\ received # <<>>
    /\ received' = Tail(received)
    /\ view' = [view EXCEPT ![m.e] =
            IF m.type # "event" THEN [attempt |-> m.result.attempt, after |-> m.result.last]
            ELSE IF Stale(v, m) THEN v
            ELSE [attempt |-> m.attempt, after |-> m.sequence]]
    /\ UNCHANGED <<log, client, command, pass, current, sent>>

-----------------------------------------------------------------------------
(* The specification *)

Write(e) ==
    /\ \E l \in Log : Follows(log[e], l) /\ log' = [log EXCEPT ![e] = l]
    /\ UNCHANGED <<client, command, pass, current, sent, received, view>>

RealtimeInit ==
    /\ Init
    /\ client = [s \in Socket |-> NotConnected]
    /\ command = [s \in Socket |-> {}]
    /\ pass = NoPass /\ current = None /\ sent = <<>> /\ received = <<>>
    /\ view = [e \in Exec |-> Start]

handlers(s) == SubscribeWait(s) \/ SubscribeRead(s) \/ SubscribeReply(s)
poll == PollRead \/ PollEmit \/ PollEnd

RealtimeNext ==
    \/ \E s \in Socket :
        \/ Connect(s) \/ Disconnect(s) \/ Subscribe(s) \/ Unsubscribe(s)
        \/ handlers(s) \/ PollStart(s)
    \/ Break \/ poll \/ PollDrop \/ Receive
    \/ \E e \in Exec : SendSubscribe(e) \/ SendUnsubscribe(e) \/ Write(e)

RealtimeSpec == RealtimeInit /\ [][RealtimeNext]_vars

\* The pass is repeated every half second and visits every socket that is not
\* busy; handlers go on after their awaits, and messages arrive.
FairRealtime ==
    /\ RealtimeSpec
    /\ WF_vars(poll) /\ WF_vars(Receive)
    /\ \A s \in Socket : WF_vars(handlers(s)) /\ SF_vars(PollStart(s))

-----------------------------------------------------------------------------
(* Properties *)

\* No event is skipped: what reaches the browser next continues what it has seen
\* of that attempt - whole in an acknowledgement with replay, one by one in live
\* delivery - or is a snapshot to start again from.  Cursors are kept on the
\* server across passes, handlers and concurrent writes.
NoGap ==
    received # <<>> =>
        LET m == Head(received)
            v == view[m.e]
        IN
        /\ m.type = "event" => m.attempt = v.attempt /\ m.sequence <= v.after + 1
        /\ m.type = "ack" /\ m.result.replayAvailable =>
            m.result.attempt = v.attempt /\ m.from <= v.after

\* What the browser shows never goes back to an earlier event or attempt, though
\* it restores every snapshot it is sent: no handler and no pass sends one that
\* was read before something already sent.
Forward ==
    [][\A e \in Exec :
        \/ view'[e].attempt > view[e].attempt
        \/ view'[e].attempt = view[e].attempt /\ view'[e].after >= view[e].after]_vars

\* A subscribed browser sees the end: once an execution has ended, its browser
\* gets to the last event, unless it unsubscribes or the connection goes down,
\* however its other commands fail.
EndSeen ==
    \A e \in Exec, s \in Socket :
        log[e].ended /\ current = s /\ e \in Subscribed(s)
        ~> \/ view[e] = [attempt |-> log[e].attempt, after |-> log[e].last]
           \/ current # s \/ e \notin Subscribed(s)
=============================================================================
