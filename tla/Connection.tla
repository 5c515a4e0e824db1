----------------------------- MODULE Connection -----------------------------
(***************************************************************************)
(* One websocket connection of the server, from the end of its handshake   *)
(* on: the receiving loop (Connection), the two tasks and the handle that  *)
(* share its sink (ConnectionHandle), the two watch channels between them, *)
(* the peer, the clock and the worker threads of the runtime.              *)
(*                                                                         *)
(*   "conn"    the task that runs Connection::run in a loop                *)
(*   "shared"  the task of spawn_shared_state_task                         *)
(*   "ping"    the task of spawn_ping_task                                 *)
(*   "owner"   whoever holds the ConnectionHandle: sends, then drops it    *)
(*                                                                         *)
(* An operator X_Y is a wrong version of the X defined after it, a mistake *)
(* this code could make; no action uses it.  The properties are tested by  *)
(* putting it in X's place.                                                *)
(***************************************************************************)
EXTENDS Integers, Sequences, FiniteSets, WatchChannel

CONSTANTS
  Payloads,      \* payloads the ping task draws (random, taken as fresh): their
                 \* number also bounds the pings in use at a time
  NoPayload,     \* the payload of what carries none
  Bogus,         \* a pong payload the server never sent
  PingInterval,  \* ConnectionConfig::ping_interval, in clock ticks
  PongTimeout,   \* ConnectionConfig::pong_timeout, in clock ticks
  Workers,       \* worker threads of the runtime
  Backpressure,  \* TRUE if a flush may have to wait for the peer to read
  PeerSends,     \* what the peer and the network may do besides answering pings
  MaxInbox,      \* bound: items on their way from the peer
  MaxBacklog     \* bound: pings the peer has still to answer, and stray pongs

Actors == {"conn", "shared", "ping", "owner"}
Closers == {"shared", "owner"}

\* The outcomes of the peer's stream that end the connection with a report,
\* the report, and the result of the task.
Endings == {"close", "closed", "text", "reset", "error"}
ReportOf == [close  |-> "ClientClosedNormally",
             closed |-> "ClientClosedNormally",
             text   |-> "ClientSentIllegalData",
             reset  |-> "ClientClosedWithoutHandshake",
             error  |-> "Unknown"]
ResultOf == [close |-> "ok", closed |-> "ok", text |-> "error",
             reset |-> "ok", error |-> "error"]

Kinds == Endings \cup {"binary", "ping", "pong", "eof"}
Deeds == (Kinds \ {"pong"}) \cup {"bogus", "break"}

ConnectionStatuses ==
  {"Normal", "ClientClosedNormally", "ClientSentIllegalData",
   "ClientClosedWithoutHandshake", "ConnectionTerminated", "Unknown"}

\* The HandleStatuses that end the connection; the others are Normal and SendPing.
Terminations == {"ServerClosedNormally", "PingTaskTerminated"}

ASSUME PayloadsAssumption ==
  NoPayload \notin Payloads /\ Bogus \notin Payloads /\ Bogus # NoPayload
ASSUME TimesAssumption ==
  PingInterval \in Nat \ {0} /\ PongTimeout \in Nat
ASSUME RuntimeAssumption ==
  Workers \in Nat \ {0} /\ Backpressure \in BOOLEAN
ASSUME PeerAssumption ==
  PeerSends \subseteq Deeds /\ MaxInbox \in Nat /\ MaxBacklog \in Nat

VARIABLES
  pc,                    \* where each actor is
  lockQueue,             \* FIFO of the sink's mutex: its head holds the lock
  wire,                  \* our sending direction of the websocket
  has_sent_close_frame,  \* the AtomicBool shared by the two closers
  handleStatus,          \* watch channel HandleHalf -> ConnectionHalf
  connectionStatus,      \* watch channel ConnectionHalf -> HandleHalf
  ping_queue,            \* pings awaiting their pong, with the time left to each
  pong_payload_queue,    \* payloads of the pongs read so far
  payload,               \* the ping task's local payload
  interval,              \* the ping task's interval: time to the next tick, tick due
  inbox,                 \* what the peer sent and the loop has not read yet
  unanswered,            \* pings the peer received and will answer, in order
  cancelled,             \* the cancellation token
  receiverOpen           \* the Client still holds the receiver of the items

vars == <<pc, lockQueue, wire, has_sent_close_frame, handleStatus, connectionStatus,
          ping_queue, pong_payload_queue, payload, interval, inbox, unanswered,
          cancelled, receiverOpen>>

sinkVars == <<lockQueue, wire, has_sent_close_frame>>
pingTaskVars == <<payload, interval>>
outsideVars == <<cancelled, receiverOpen>>

-----------------------------------------------------------------------------
(* Values *)

HandleStatus(type, p) == [type |-> type, payload |-> p]
HandleStatusSet ==
  [type : {"SendPing"}, payload : Payloads]
    \cup [type : {"Normal"} \cup Terminations, payload : {NoPayload}]
PingContexts == [payload : Payloads, left : 0 .. PongTimeout]
Items ==
  [kind : {"pong"}, payload : Payloads \cup {Bogus}]
    \cup [kind : Kinds \ {"pong"}, payload : {NoPayload}]
Intervals == [left : 1 .. PingInterval, due : BOOLEAN]

\* Stages of send_close_frame_if, in order: the flag was loaded, the frame is
\* waiting for the lock, it is being flushed, the sink is closed.
Closing == {"checked", "blocked", "flushing", "closed"}
States == Closing \cup {"running", "ok", "error", "watching", "done", "idle", "locking",
                        "sending", "sent", "dropped"}

TypeOK ==
  /\ pc \in [Actors -> States]
  /\ pc["conn"] \in {"running", "ok", "error"}
  /\ pc["shared"] \in {"watching", "done"} \cup Closing
  /\ pc["ping"] \in {"idle", "locking", "sending", "sent", "done"}
  /\ pc["owner"] \in {"idle", "locking", "sending", "dropped"} \cup Closing
  /\ lockQueue \in Seq(Actors)
  /\ wire \in {"open", "peerClosed", "closed", "broken"}
  /\ has_sent_close_frame \in BOOLEAN
  /\ handleStatus \in Channels(HandleStatusSet)
  /\ connectionStatus \in Channels(ConnectionStatuses)
  /\ ping_queue \in Seq(PingContexts)
  /\ pong_payload_queue \in Seq(Payloads \cup {Bogus})
  /\ payload \in IF pc["ping"] \in {"locking", "sending", "sent"} THEN Payloads ELSE {NoPayload}
  /\ interval \in Intervals
  /\ inbox \in Seq(Items)
  /\ unanswered \in Seq(Payloads)
  /\ cancelled \in BOOLEAN
  /\ receiverOpen \in BOOLEAN

Running == pc["conn"] = "running"

\* The sink lives as long as a strong reference to it: the shared task's, and
\* those upgraded for the time of a send or of a drop.
SinkAlive ==
  \/ pc["shared"] # "done"
  \/ pc["owner"] \in {"locking", "sending", "checked", "blocked", "flushing"}
  \/ pc["ping"] \in {"locking", "sending"}

\* Actors that keep a worker thread to themselves: block_on does not yield it,
\* and neither does the ping task between its send and its notification.
Busy == {c \in Closers : pc[c] \in Closing}
          \cup (IF pc["ping"] = "sent" THEN {"ping"} ELSE {})
FreeWorker == Cardinality(Busy) < Workers

FrontDue_StreamFirst == ping_queue # <<>> /\ Head(ping_queue).left = 0 /\ inbox = <<>>
FrontDue == ping_queue # <<>> /\ Head(ping_queue).left = 0

FrontAnswered ==
  /\ pong_payload_queue # <<>>
  /\ Head(pong_payload_queue) = Head(ping_queue).payload

Holds(a) == lockQueue # <<>> /\ Head(lockQueue) = a
Goto(a, state) == pc' = [pc EXCEPT ![a] = state]

-----------------------------------------------------------------------------
(* Notifications *)

\* ConnectionHalf::notify.  A receiver is left: see HandleListens.
NotifyHandle(status) == connectionStatus' = Send(connectionStatus, status)

\* HandleHalf::notify.  The send fails once the connection, the only receiver,
\* is gone; a failure is only logged.
NotifyConnection(type, p) ==
  handleStatus' =
    IF Running THEN Send(handleStatus, HandleStatus(type, p)) ELSE handleStatus

-----------------------------------------------------------------------------
\* The two watch channels, in their default values.
InitSharedState ==
  /\ handleStatus = Channel(HandleStatus("Normal", NoPayload))
  /\ connectionStatus = Channel("Normal")

InitConnection ==
  /\ ping_queue = <<>>
  /\ pong_payload_queue = <<>>
  /\ inbox = <<>>

\* The sink in its mutex, the flag, and the two tasks that new() starts.
InitHandle ==
  /\ lockQueue = <<>>
  /\ wire = "open"
  /\ has_sent_close_frame = FALSE
  /\ payload = NoPayload
  /\ interval = [left |-> PingInterval, due |-> TRUE]  \* the first tick is immediate

Init ==
  /\ pc = [a \in Actors |-> CASE a = "conn" -> "running"
                              [] a = "shared" -> "watching"
                              [] OTHER -> "idle"]
  /\ InitSharedState
  /\ InitConnection
  /\ InitHandle
  /\ unanswered = <<>>
  /\ cancelled = FALSE
  /\ receiverOpen = TRUE

-----------------------------------------------------------------------------
(* The connection's loop.  Each action is one turn of run(): its select! is  *)
(* biased, so the deadline goes before the handle's status and that before   *)
(* the stream.                                                               *)

\* The task ends and drops the Connection with its queues; what the peer sends
\* from now on is read by nobody.
End(result) ==
  /\ Goto("conn", result)
  /\ ping_queue' = <<>>
  /\ pong_payload_queue' = <<>>
  /\ inbox' = <<>>
  /\ unanswered' = <<>>

LoopTurn == Running /\ FreeWorker

PopPong_Peeks == UNCHANGED pong_payload_queue
PopPong == pong_payload_queue' = Tail(pong_payload_queue)

PongAccepted ==
  /\ LoopTurn
  /\ FrontDue
  /\ FrontAnswered
  /\ PopPong
  /\ ping_queue' = Tail(ping_queue)
  /\ UNCHANGED <<pc, sinkVars, handleStatus, connectionStatus, pingTaskVars,
                 inbox, unanswered, outsideVars>>

PongMissed ==
  /\ LoopTurn
  /\ FrontDue
  /\ ~FrontAnswered
  /\ NotifyHandle("ConnectionTerminated")
  /\ End("ok")
  /\ UNCHANGED <<sinkVars, handleStatus, pingTaskVars, outsideVars>>

HandleChanged_Unbiased == LoopTurn /\ handleStatus.unseen
HandleChanged == LoopTurn /\ ~FrontDue /\ handleStatus.unseen

\* PingContext::new: the deadline counts from the registration, not from the send.
NewPing == [payload |-> handleStatus.value.payload, left |-> PongTimeout]

PushPing_Front == ping_queue' = <<NewPing>> \o ping_queue
PushPing_Only == ping_queue' = <<NewPing>>
PushPing == ping_queue' = Append(ping_queue, NewPing)

RegisterPing ==
  /\ HandleChanged
  /\ handleStatus.value.type = "SendPing"
  /\ handleStatus' = BorrowAndUpdate(handleStatus)
  /\ PushPing
  /\ UNCHANGED <<pc, sinkVars, connectionStatus, pong_payload_queue, pingTaskVars,
                 inbox, unanswered, outsideVars>>

ClosedByHandle ==
  /\ HandleChanged
  /\ handleStatus.value.type \in Terminations
  /\ handleStatus' = BorrowAndUpdate(handleStatus)
  /\ End("ok")
  /\ UNCHANGED <<sinkVars, connectionStatus, pingTaskVars, outsideVars>>

\* The stream's turn: the item is handed to process_peer_message.
Received(kind) ==
  /\ LoopTurn
  /\ ~FrontDue
  /\ ~handleStatus.unseen
  /\ inbox # <<>>
  /\ Head(inbox).kind = kind

Ignore ==
  /\ Received("ping") \/ (Received("binary") /\ receiverOpen)
  /\ inbox' = Tail(inbox)
  /\ UNCHANGED <<pc, sinkVars, handleStatus, connectionStatus, ping_queue,
                 pong_payload_queue, pingTaskVars, unanswered, outsideVars>>

PushPong_Front(p) == pong_payload_queue' = <<p>> \o pong_payload_queue
PushPong(p) == pong_payload_queue' = Append(pong_payload_queue, p)

ReadPong ==
  /\ Received("pong")
  /\ PushPong(Head(inbox).payload)
  /\ inbox' = Tail(inbox)
  /\ UNCHANGED <<pc, sinkVars, handleStatus, connectionStatus, ping_queue,
                 pingTaskVars, unanswered, outsideVars>>

\* Once a Close was read, or a failure was reported, sending fails; a reset or
\* an error of the reading direction may leave the sending one usable.
ReadEnding ==
  \E kind \in Endings :
    /\ Received(kind)
    /\ NotifyHandle(ReportOf[kind])
    /\ End(ResultOf[kind])
    /\ \/ kind \in {"close", "closed"} /\ wire' = IF wire = "open" THEN "peerClosed" ELSE wire
       \/ kind \in {"reset", "error"} /\ wire' = IF wire = "open" THEN "broken" ELSE wire
       \/ kind \in {"text", "reset", "error"} /\ wire' = wire
    /\ UNCHANGED <<lockQueue, has_sent_close_frame, handleStatus, pingTaskVars, outsideVars>>

\* The stream is exhausted, or nobody takes the item: the task ends, and the
\* handle is told nothing.
ReadNothing ==
  /\ Received("eof") \/ (Received("binary") /\ ~receiverOpen)
  /\ End("ok")
  /\ UNCHANGED <<sinkVars, handleStatus, connectionStatus, pingTaskVars, outsideVars>>

\* The cancellable task drops the run() it is waiting for.
ConnCancelled ==
  /\ LoopTurn
  /\ cancelled
  /\ End("ok")
  /\ UNCHANGED <<sinkVars, handleStatus, connectionStatus, pingTaskVars, outsideVars>>

ConnStep ==
  \/ PongAccepted \/ PongMissed
  \/ RegisterPing \/ ClosedByHandle
  \/ Ignore \/ ReadPong \/ ReadEnding \/ ReadNothing

-----------------------------------------------------------------------------
(* The shared-state task. *)

\* The terminal status makes it close the sink, unless the handle's drop has
\* already begun to: send_close_frame_if loads the flag here and stores it later.
Answer_NotTerminated ==
  Goto("shared", IF has_sent_close_frame \/ connectionStatus.value = "ConnectionTerminated"
                 THEN "done" ELSE "checked")
Answer == Goto("shared", IF has_sent_close_frame THEN "done" ELSE "checked")

SharedStatus ==
  /\ pc["shared"] = "watching"
  /\ FreeWorker
  /\ connectionStatus.unseen
  /\ connectionStatus' = BorrowAndUpdate(connectionStatus)
  /\ Answer
  /\ UNCHANGED <<sinkVars, handleStatus, ping_queue, pong_payload_queue, pingTaskVars,
                 inbox, unanswered, outsideVars>>

\* The connection is gone without a word: the task ends, without a close frame.
Leave_Closing == Goto("shared", "checked")
Leave_Never == Goto("shared", "watching")
Leave == Goto("shared", "done")

SharedGone ==
  /\ pc["shared"] = "watching"
  /\ FreeWorker
  /\ ~connectionStatus.unseen
  /\ ~Running
  /\ Leave
  /\ UNCHANGED <<sinkVars, handleStatus, connectionStatus, ping_queue, pong_payload_queue,
                 pingTaskVars, inbox, unanswered, outsideVars>>

-----------------------------------------------------------------------------
(* send_close_frame_if, run by the shared-state task or by the drop of the   *)
(* handle.  The caller's worker thread is taken from the first stage to the  *)
(* last.                                                                     *)

Finish(c) == Goto(c, IF c = "shared" THEN "done" ELSE "dropped")

CloserStore(c) ==
  /\ pc[c] = "checked"
  /\ has_sent_close_frame' = TRUE
  /\ lockQueue' = Append(lockQueue, c)
  /\ Goto(c, "blocked")
  /\ UNCHANGED <<wire, handleStatus, connectionStatus, ping_queue, pong_payload_queue,
                 pingTaskVars, inbox, unanswered, outsideVars>>

Unlock_UnlessBroken == lockQueue' = IF wire = "broken" THEN lockQueue ELSE Tail(lockQueue)
Unlock == lockQueue' = Tail(lockQueue)

\* flush() and close() done, or failed; both release the lock.
CloseSink(c) ==
  /\ wire' = IF wire = "broken" THEN "broken" ELSE "closed"
  /\ Unlock
  /\ Goto(c, "closed")

\* The lock is granted.  The flush has to wait only if the socket is full.
CloserClose(c) ==
  /\ pc[c] = "blocked"
  /\ Holds(c)
  /\ \/ CloseSink(c)
     \/ /\ Backpressure
        /\ wire \in {"open", "peerClosed"}
        /\ Goto(c, "flushing")
        /\ UNCHANGED <<wire, lockQueue>>
  /\ UNCHANGED <<has_sent_close_frame, handleStatus, connectionStatus, ping_queue,
                 pong_payload_queue, pingTaskVars, inbox, unanswered, outsideVars>>

\* The socket became writable: it takes a worker that is not blocked to see it.
CloserFlushed(c) ==
  /\ pc[c] = "flushing"
  /\ FreeWorker
  /\ CloseSink(c)
  /\ UNCHANGED <<has_sent_close_frame, handleStatus, connectionStatus, ping_queue,
                 pong_payload_queue, pingTaskVars, inbox, unanswered, outsideVars>>

CloserNotify(c) ==
  /\ pc[c] = "closed"
  /\ NotifyConnection("ServerClosedNormally", NoPayload)
  /\ Finish(c)
  /\ UNCHANGED <<sinkVars, connectionStatus, ping_queue, pong_payload_queue, pingTaskVars,
                 inbox, unanswered, outsideVars>>

CloserStep(c) ==
  CloserStore(c) \/ CloserClose(c) \/ CloserFlushed(c) \/ CloserNotify(c)

SharedStep == SharedStatus \/ SharedGone \/ CloserStep("shared")

-----------------------------------------------------------------------------
(* The ping task. *)

\* Payloads in use anywhere: ten random bytes differ from all of them.
Outstanding ==
  {ping_queue[i].payload : i \in DOMAIN ping_queue}
    \cup {pong_payload_queue[i] : i \in DOMAIN pong_payload_queue}
    \cup {inbox[i].payload : i \in DOMAIN inbox}
    \cup {unanswered[i] : i \in DOMAIN unanswered}
    \cup (IF handleStatus.unseen THEN {handleStatus.value.payload} ELSE {})

PingFails_Silent ==
  /\ Goto("ping", "done")
  /\ payload' = NoPayload
  /\ UNCHANGED <<handleStatus, unanswered>>

PingFails ==
  /\ NotifyConnection("PingTaskTerminated", NoPayload)
  /\ Goto("ping", "done")
  /\ payload' = NoPayload
  /\ unanswered' = unanswered

\* The ping reached the peer, which will answer it, or will not.
PingSucceeds(p) ==
  /\ Goto("ping", "sent")
  /\ payload' = p
  /\ \/ unanswered' = unanswered
     \/ /\ Running
        /\ Len(unanswered) < MaxBacklog
        /\ unanswered' = Append(unanswered, p)
  /\ handleStatus' = handleStatus

\* Sends p with the lock held, "queue" being the lock's queue with this task at
\* its head.  The guard is released before the connection hears of the ping.
SendPing(p, queue) ==
  \/ wire # "open" /\ PingFails /\ lockQueue' = Tail(queue)
  \/ wire = "open" /\ PingSucceeds(p) /\ lockQueue' = Tail(queue)
  \/ /\ wire = "open"
     /\ Backpressure
     /\ Goto("ping", "sending")
     /\ payload' = p
     /\ lockQueue' = queue
     /\ UNCHANGED <<unanswered, handleStatus>>

TakeTick_Again == interval' = interval
TakeTick == interval' = [interval EXCEPT !.due = FALSE]

PingTick ==
  /\ pc["ping"] = "idle"
  /\ FreeWorker
  /\ interval.due
  /\ TakeTick
  /\ \/ ~SinkAlive /\ PingFails /\ lockQueue' = lockQueue
     \/ /\ SinkAlive
        /\ \E p \in Payloads \ Outstanding :
             \/ lockQueue = <<>> /\ SendPing(p, <<"ping">>)
             \/ /\ lockQueue # <<>>
                /\ lockQueue' = Append(lockQueue, "ping")
                /\ Goto("ping", "locking")
                /\ payload' = p
                /\ UNCHANGED <<unanswered, handleStatus>>
  /\ UNCHANGED <<wire, has_sent_close_frame, connectionStatus, ping_queue,
                 pong_payload_queue, inbox, outsideVars>>

PingLocked ==
  /\ pc["ping"] = "locking"
  /\ FreeWorker
  /\ Holds("ping")
  /\ SendPing(payload, lockQueue)
  /\ UNCHANGED <<wire, has_sent_close_frame, connectionStatus, ping_queue,
                 pong_payload_queue, interval, inbox, outsideVars>>

PingFlushed ==
  /\ pc["ping"] = "sending"
  /\ FreeWorker
  /\ IF wire = "broken" THEN PingFails ELSE PingSucceeds(payload)
  /\ lockQueue' = Tail(lockQueue)
  /\ UNCHANGED <<wire, has_sent_close_frame, connectionStatus, ping_queue,
                 pong_payload_queue, interval, inbox, outsideVars>>

PingNotify ==
  /\ pc["ping"] = "sent"
  /\ NotifyConnection("SendPing", payload)
  /\ Goto("ping", "idle")
  /\ payload' = NoPayload
  /\ UNCHANGED <<sinkVars, connectionStatus, ping_queue, pong_payload_queue, interval,
                 inbox, unanswered, outsideVars>>

PingStep == PingTick \/ PingLocked \/ PingFlushed \/ PingNotify

-----------------------------------------------------------------------------
(* The owner of the ConnectionHandle. *)

OwnerUnchanged == UNCHANGED <<wire, has_sent_close_frame, handleStatus, connectionStatus,
                              ping_queue, pong_payload_queue, pingTaskVars, inbox,
                              unanswered, outsideVars>>

\* A send that has to wait, for the lock or for the peer.  Any other send is over
\* at once and leaves no trace in this state.
OwnerSend ==
  /\ pc["owner"] = "idle"
  /\ FreeWorker
  /\ SinkAlive
  /\ \/ lockQueue # <<>> /\ Goto("owner", "locking")
     \/ lockQueue = <<>> /\ wire = "open" /\ Backpressure /\ Goto("owner", "sending")
  /\ lockQueue' = Append(lockQueue, "owner")
  /\ OwnerUnchanged

OwnerLocked ==
  /\ pc["owner"] = "locking"
  /\ FreeWorker
  /\ Holds("owner")
  /\ \/ Goto("owner", "idle") /\ lockQueue' = Tail(lockQueue)
     \/ wire = "open" /\ Backpressure /\ Goto("owner", "sending") /\ UNCHANGED lockQueue
  /\ OwnerUnchanged

OwnerFlushed ==
  /\ pc["owner"] = "sending"
  /\ FreeWorker
  /\ Goto("owner", "idle")
  /\ lockQueue' = Tail(lockQueue)
  /\ OwnerUnchanged

\* Drop: nothing to close if the sink is gone or another closer has begun.
OwnerDrop ==
  /\ pc["owner"] = "idle"
  /\ FreeWorker
  /\ Goto("owner", IF SinkAlive /\ ~has_sent_close_frame THEN "checked" ELSE "dropped")
  /\ UNCHANGED lockQueue
  /\ OwnerUnchanged

OwnerWait == OwnerLocked \/ OwnerFlushed

-----------------------------------------------------------------------------
(* The peer, the network, the application and the clock. *)

Arrives(item) == Running /\ Len(inbox) < MaxInbox /\ inbox' = Append(inbox, item)

PeerPong ==
  /\ unanswered # <<>>
  /\ Arrives([kind |-> "pong", payload |-> Head(unanswered)])
  /\ unanswered' = Tail(unanswered)
  /\ UNCHANGED <<pc, sinkVars, handleStatus, connectionStatus, ping_queue,
                 pong_payload_queue, pingTaskVars, outsideVars>>

PeerSend ==
  /\ \/ \E kind \in PeerSends \cap Kinds :
          Arrives([kind |-> kind, payload |-> NoPayload])
     \/ /\ "bogus" \in PeerSends  \* an unsolicited pong
        /\ Len(pong_payload_queue) < MaxBacklog
        /\ Arrives([kind |-> "pong", payload |-> Bogus])
  /\ UNCHANGED <<pc, sinkVars, handleStatus, connectionStatus, ping_queue,
                 pong_payload_queue, pingTaskVars, unanswered, outsideVars>>

WireBreaks ==
  /\ "break" \in PeerSends
  /\ SinkAlive
  /\ wire \in {"open", "peerClosed"}
  /\ wire' = "broken"
  /\ UNCHANGED <<pc, lockQueue, has_sent_close_frame, handleStatus, connectionStatus,
                 ping_queue, pong_payload_queue, pingTaskVars, inbox, unanswered,
                 outsideVars>>

\* The listener's cancellation token, and the Client letting go of the receiver.
Cancel ==
  /\ Running /\ ~cancelled
  /\ cancelled' = TRUE
  /\ UNCHANGED <<pc, sinkVars, handleStatus, connectionStatus, ping_queue,
                 pong_payload_queue, pingTaskVars, inbox, unanswered, receiverOpen>>

ReceiverDrop ==
  /\ Running /\ receiverOpen
  /\ receiverOpen' = FALSE
  /\ UNCHANGED <<pc, sinkVars, handleStatus, connectionStatus, ping_queue,
                 pong_payload_queue, pingTaskVars, inbox, unanswered, cancelled>>

Countdown_NoFloor(n) == n - 1
Countdown(n) == IF n > 0 THEN n - 1 ELSE 0

\* A tick the task did not take in time is taken late, once, and the next one is
\* where it would have been (MissedTickBehavior::Skip).
Tick ==
  /\ pc["ping"] # "done" \/ ping_queue # <<>>
  /\ ping_queue' = [i \in DOMAIN ping_queue |->
                      [ping_queue[i] EXCEPT !.left = Countdown(@)]]
  /\ interval' = IF pc["ping"] = "done" THEN interval
                 ELSE IF interval.left > 1 THEN [interval EXCEPT !.left = @ - 1]
                 ELSE [left |-> PingInterval, due |-> TRUE]
  /\ UNCHANGED <<pc, sinkVars, handleStatus, connectionStatus, pong_payload_queue,
                 payload, inbox, unanswered, outsideVars>>

Finished ==
  /\ ~Running
  /\ pc["shared"] = "done"
  /\ pc["ping"] = "done"
  /\ pc["owner"] = "dropped"
  /\ UNCHANGED vars

-----------------------------------------------------------------------------
ServerStep == ConnStep \/ ConnCancelled \/ SharedStep \/ PingStep \/ OwnerWait
                \/ CloserStep("owner")

Outside == OwnerSend \/ OwnerDrop \/ PeerPong \/ PeerSend \/ WireBreaks
             \/ Cancel \/ ReceiverDrop

Next == ServerStep \/ Outside \/ Tick \/ Finished

Spec == Init /\ [][Next]_vars

\* The runtime polls what is ready, the clock advances, and a peer that makes a
\* flush wait reads in the end.  Nothing makes the owner drop the handle, nor the
\* peer answer or send.
Fairness ==
  /\ WF_vars(ConnStep) /\ WF_vars(ConnCancelled)
  /\ WF_vars(SharedStep)
  /\ WF_vars(PingStep)
  /\ WF_vars(OwnerWait) /\ WF_vars(CloserStep("owner"))
  /\ WF_vars(Tick)

FairSpec == Spec /\ Fairness
=============================================================================
