------------------------------- MODULE Client -------------------------------
(***************************************************************************)
(* The pair an application gets for a peer: the Client, a cancellable task *)
(* that turns the items of its connection into models, and the             *)
(* ClientHandle, which sends models and closes.  The connection below is   *)
(* its Session.                                                            *)
(*                                                                         *)
(*   "client"   the task that runs Client::run in a loop                   *)
(*   "app"      the holder of the ClientHandle: sends, closes, drops it    *)
(*   "reactor"  the task of spawn_handle_task: drops the connection's      *)
(*              handle after an ill-formed model                           *)
(*                                                                         *)
(* An operator X_Y is a wrong version of the X defined after it, used only *)
(* to test the properties.                                                 *)
(***************************************************************************)
EXTENDS Integers, Sequences, WatchChannel

CONSTANTS
  Models,     \* items from which a model can be built
  IllFormed,  \* an item from which none can
  SelfEnds,   \* how a connection may end without its handle's doing
  MaxItems    \* bound: items the connection receives

Items == Models \cup {IllFormed}

ASSUME ItemsAssumption == IllFormed \notin Models /\ MaxItems \in Nat
ASSUME EndsAssumption == SelfEnds \subseteq {"fail", "depart", "leave", "lose"}

VARIABLES
  task, told, handle, frame,  \* the connection: see Session
  received,      \* every item the connection's callback accepted (history)
  incoming,      \* those of them the Client has not received yet
  delivered,     \* the models the application's callback took
  client,        \* the Client: "new", "running", or the result of its task
  stopped,       \* the application cancelled the Client, refused a model or dropped it
  clientStatus,  \* watch channel ClientHalf -> HandleHalf
  inner,         \* TRUE while the mutex of the ClientHandle holds Some(handle)
  holder,        \* who has that mutex
  app,
  reactor,
  outcome        \* what its last call of send returned

conn == <<task, told, handle, frame>>
items == <<received, incoming, delivered>>
lock == <<inner, holder>>

vars == <<conn, items, client, stopped, clientStatus, lock, app, reactor, outcome>>

Conn == INSTANCE Session

-----------------------------------------------------------------------------
ClientStatuses == {"Normal", "InvalidModel"}
SendErrors == {"SendModel", "DroppedConnection"}
Clients == {"new", "running", "ok", "error"}
AppWaiting == {"sendWait", "closeWait"}
AppWithLock == {"sending", "closing"}

TypeOK ==
  /\ task \in {"running", "ok", "error"}
  /\ told \in {"Normal"} \cup Conn!Faults \cup Conn!Goodbyes
  /\ handle \in {"held", "released"}
  /\ frame \in {"unsent", "sent", "lost", "abandoned"}
  /\ received \in Seq(Items)
  /\ incoming \in Seq(Items)
  /\ delivered \in Seq(Models)
  /\ client \in Clients
  /\ stopped \in BOOLEAN
  /\ clientStatus \in Channels(ClientStatuses)
  /\ inner \in BOOLEAN
  /\ holder \in {"nobody", "app", "reactor"}
  /\ app \in {"new", "idle", "dropping", "gone"} \cup AppWaiting \cup AppWithLock
  /\ reactor \in {"none", "watching", "locking", "dropping", "done"}
  /\ outcome \in {"none", "ok"} \cup SendErrors

ReceiverOpen == client \in {"new", "running"}

\* The application still owns the ClientHandle: the Weak can be upgraded.
HandleOwned == app \in {"idle"} \cup AppWaiting \cup AppWithLock

\* The notifier goes to the Client, its receiver to the reactor.
InitSharedState == clientStatus = Channel("Normal")

Init ==
  /\ Conn!Init
  /\ received = <<>> /\ incoming = <<>> /\ delivered = <<>>
  /\ client = "new"
  /\ stopped = FALSE
  /\ InitSharedState
  /\ inner = TRUE
  /\ holder = "nobody"
  /\ app = "new"
  /\ reactor = "none"
  /\ outcome = "none"

-----------------------------------------------------------------------------
(* The connection below. *)

\* The callback given to the connection: it hands the item over, or, without a
\* receiver, makes the connection's task end.
Forward ==
  /\ task = "running"
  /\ ReceiverOpen
  /\ Len(received) < MaxItems
  /\ \E item \in Items :
       /\ received' = Append(received, item)
       /\ incoming' = Append(incoming, item)
  /\ UNCHANGED <<conn, delivered, client, stopped, clientStatus, lock, app, reactor, outcome>>

Unforwarded ==
  /\ ~ReceiverOpen
  /\ Conn!Leave
  /\ UNCHANGED <<items, client, stopped, clientStatus, lock, app, reactor, outcome>>

ConnClosed == handle = "released" /\ Conn!Leave

ConnEnds ==
  /\ \/ "fail" \in SelfEnds /\ Conn!Fail
     \/ "depart" \in SelfEnds /\ Conn!Depart
     \/ "leave" \in SelfEnds /\ Conn!Leave
     \/ "lose" \in SelfEnds /\ Conn!Lose
     \/ ConnClosed
  /\ UNCHANGED <<items, client, stopped, clientStatus, lock, app, reactor, outcome>>

Close ==
  /\ Conn!SendFrame \/ Conn!Abandon
  /\ UNCHANGED <<items, client, stopped, clientStatus, lock, app, reactor, outcome>>

-----------------------------------------------------------------------------
(* The Client. *)

\* spawn_with_callback: new_handle moves the connection's handle to the mutex of a
\* new ClientHandle and starts the reactor.
Spawn ==
  /\ client = "new"
  /\ client' = "running"
  /\ app' = "idle"
  /\ reactor' = "watching"
  /\ UNCHANGED <<conn, items, stopped, clientStatus, lock, outcome>>

\* A Client that is dropped instead drops its receiver and its connection's handle.
Discard ==
  /\ client = "new"
  /\ client' = "ok"
  /\ stopped' = TRUE
  /\ app' = "dropping"
  /\ Conn!Release
  /\ inner' = FALSE
  /\ incoming' = <<>>
  /\ UNCHANGED <<received, delivered, clientStatus, holder, reactor, outcome>>

\* The task is over: what it has not received is dropped with the receiver.
EndClient(result) == client' = result /\ incoming' = <<>>

Parses_Anything(item) == TRUE
Parses(item) == item \in Models

Deliver ==
  /\ client = "running"
  /\ incoming # <<>>
  /\ Parses(Head(incoming))
  /\ \/ /\ delivered' = Append(delivered, Head(incoming))
        /\ incoming' = Tail(incoming)
        /\ UNCHANGED <<client, stopped>>
     \/ /\ EndClient("ok")  \* the callback refused it
        /\ stopped' = TRUE
        /\ delivered' = delivered
  /\ UNCHANGED <<conn, received, clientStatus, lock, app, reactor, outcome>>

\* ClientHalf::notify and the error.  A receiver is left: the reactor waits until
\* it has read this, or until the Client is gone.
Notify_Nobody == clientStatus' = clientStatus
Notify == clientStatus' = Send(clientStatus, "InvalidModel")

Reject ==
  /\ client = "running"
  /\ incoming # <<>>
  /\ ~Parses(Head(incoming))
  /\ Notify
  /\ EndClient("error")
  /\ UNCHANGED <<conn, received, delivered, stopped, lock, app, reactor, outcome>>

\* recv() returns None only when the channel is empty and the connection is over.
NoMoreItems_Early == task # "running"
NoMoreItems_OwnSender == FALSE
NoMoreItems == incoming = <<>> /\ task # "running"

Exhausted ==
  /\ client = "running"
  /\ NoMoreItems
  /\ EndClient("ok")
  /\ UNCHANGED <<conn, received, delivered, stopped, clientStatus, lock, app, reactor, outcome>>

\* The cancellable task drops the run() it is waiting for.
ClientCancelled ==
  /\ client = "running"
  /\ stopped
  /\ EndClient("ok")
  /\ UNCHANGED <<conn, received, delivered, stopped, clientStatus, lock, app, reactor, outcome>>

ClientStep == Deliver \/ Reject \/ Exhausted \/ ClientCancelled

Cancel ==
  /\ client = "running" /\ ~stopped
  /\ stopped' = TRUE
  /\ UNCHANGED <<conn, items, client, clientStatus, lock, app, reactor, outcome>>

-----------------------------------------------------------------------------
(* The mutex of the ClientHandle: fair, and with two users at most. *)

Lock(user) == holder' = IF holder = "nobody" THEN user ELSE holder

AppUnlock == holder' = IF holder # "app" THEN holder
                       ELSE IF reactor = "locking" THEN "reactor" ELSE "nobody"

ReactorUnlock == holder' = IF app \in AppWaiting THEN "app" ELSE "nobody"

\* Drops the connection's handle, if nobody did before: send_close_frame_if.
Take == inner' = FALSE /\ Conn!Release
Keep == UNCHANGED <<inner, conn>>

-----------------------------------------------------------------------------
(* The reactor. *)

ReactorSees ==
  /\ reactor = "watching"
  /\ clientStatus.unseen
  /\ clientStatus' = BorrowAndUpdate(clientStatus)
  /\ \/ HandleOwned /\ reactor' = "locking" /\ Lock("reactor")
     \/ ~HandleOwned /\ reactor' = "done" /\ holder' = holder
  /\ UNCHANGED <<conn, items, client, stopped, inner, app, outcome>>

ClientGone_First == ~ReceiverOpen
ClientGone == ~ReceiverOpen /\ ~clientStatus.unseen

ReactorLeaves ==
  /\ reactor = "watching"
  /\ ClientGone
  /\ reactor' = "done"
  /\ UNCHANGED <<conn, items, client, stopped, clientStatus, lock, app, outcome>>

Granted_Unlocked(user) == TRUE
Granted(user) == holder = user

ReactorTakes ==
  /\ reactor = "locking"
  /\ Granted("reactor")
  /\ \/ inner /\ Take /\ reactor' = "dropping" /\ holder' = holder
     \/ ~inner /\ Keep /\ reactor' = "done" /\ ReactorUnlock
  /\ UNCHANGED <<items, client, stopped, clientStatus, app, outcome>>

\* The close of the sink returns, and with it the statement that holds the guard.
ReactorDone ==
  /\ reactor = "dropping"
  /\ reactor' = "done"
  /\ ReactorUnlock
  /\ UNCHANGED <<conn, items, client, stopped, clientStatus, inner, app, outcome>>

ReactorStep == ReactorSees \/ ReactorLeaves \/ ReactorTakes \/ ReactorDone

-----------------------------------------------------------------------------
(* The application's calls. *)

CallSend ==
  /\ app = "idle"
  /\ app' = "sendWait"
  /\ Lock("app")
  /\ UNCHANGED <<conn, items, client, stopped, clientStatus, inner, reactor, outcome>>

SendGranted ==
  /\ app = "sendWait"
  /\ Granted("app")
  /\ \/ inner /\ app' = "sending" /\ UNCHANGED <<holder, outcome>>
     \/ ~inner /\ app' = "idle" /\ AppUnlock /\ outcome' = "DroppedConnection"
  /\ UNCHANGED <<conn, items, client, stopped, clientStatus, inner, reactor>>

\* ConnectionHandle::send fails once the sink is closed, broken or dropped, or the
\* peer's close was read.
SendDone ==
  /\ app = "sending"
  /\ \/ frame = "unsent" /\ told # "ClientClosedNormally" /\ outcome' = "ok"
     \/ (frame # "unsent" \/ task # "running") /\ outcome' = "SendModel"
  /\ app' = "idle"
  /\ AppUnlock
  /\ UNCHANGED <<conn, items, client, stopped, clientStatus, inner, reactor>>

CallClose ==
  /\ app = "idle"
  /\ app' = "closeWait"
  /\ Lock("app")
  /\ UNCHANGED <<conn, items, client, stopped, clientStatus, inner, reactor, outcome>>

CloseGranted ==
  /\ app = "closeWait"
  /\ Granted("app")
  /\ \/ inner /\ Take /\ app' = "closing" /\ holder' = holder
     \/ ~inner /\ Keep /\ app' = "idle" /\ AppUnlock
  /\ UNCHANGED <<items, client, stopped, clientStatus, reactor, outcome>>

CloseDone ==
  /\ app = "closing"
  /\ app' = "idle"
  /\ AppUnlock
  /\ UNCHANGED <<conn, items, client, stopped, clientStatus, inner, reactor, outcome>>

\* A future that is dropped where it waits leaves the queue, or releases the lock.
GiveUp ==
  /\ app \in AppWaiting \cup {"sending"}
  /\ app' = "idle"
  /\ AppUnlock
  /\ UNCHANGED <<conn, items, client, stopped, clientStatus, inner, reactor, outcome>>

\* The ClientHandle is dropped; what is in the mutex goes with the last reference,
\* and the reactor may have one.
LastReference_Never == FALSE
LastReference == reactor \notin {"locking", "dropping"}

DropHandle ==
  /\ app = "idle"
  /\ \/ inner /\ LastReference /\ Take /\ app' = "dropping"
     \/ ~(inner /\ LastReference) /\ Keep /\ app' = "gone"
  /\ UNCHANGED <<items, client, stopped, clientStatus, holder, reactor, outcome>>

DropDone ==
  /\ app = "dropping"
  /\ app' = "gone"
  /\ UNCHANGED <<conn, items, client, stopped, clientStatus, lock, reactor, outcome>>

AppProgress == SendGranted \/ SendDone \/ CloseGranted \/ CloseDone \/ DropDone
AppChoice == Spawn \/ Discard \/ CallSend \/ CallClose \/ GiveUp \/ DropHandle \/ Cancel

Finished ==
  /\ task # "running"
  /\ ~ReceiverOpen
  /\ reactor \in {"none", "done"}
  /\ app = "gone"
  /\ frame # "unsent"
  /\ UNCHANGED vars

-----------------------------------------------------------------------------
Next ==
  \/ Forward \/ Unforwarded \/ ConnEnds \/ Close
  \/ ClientStep \/ ReactorStep
  \/ AppProgress \/ AppChoice
  \/ Finished

Spec == Init /\ [][Next]_vars

\* The runtime polls what is ready, a send or a close ends (the peer reads, or the
\* wire breaks), and the connection keeps what its session lets one wait for.
\* Nothing makes the application call anything, nor the peer send or leave.
Fairness ==
  /\ WF_vars(ClientStep)
  /\ WF_vars(ReactorStep)
  /\ WF_vars(AppProgress)
  /\ WF_vars(ConnEnds /\ handle = "released")
  /\ WF_vars(Close /\ (told # "Normal" \/ handle = "released"))

FairSpec == Spec /\ Fairness
=============================================================================
