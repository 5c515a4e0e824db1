---------------------------- MODULE ClientProofs ----------------------------
(***************************************************************************)
(* Proofs about a Client, for every value of its constants.                *)
(***************************************************************************)
EXTENDS ClientProperties, WatchChannelProofs, SequenceTheorems, TLAPS

\* The initial state satisfies the invariant.
LEMMA InitIInv == Init => IInv
<1> SUFFICES ASSUME Init PROVE IInv
  OBVIOUS
<1>1. TypeOK
  <2>1. clientStatus \in Channels(ClientStatuses)
    <3>1. "Normal" \in ClientStatuses
      BY DEF ClientStatuses
    <3>2. Channel("Normal") \in Channels(ClientStatuses)
      BY <3>1, ChannelFacts
    <3> QED
      BY <3>2 DEF Init, InitSharedState
  <2>2. /\ received \in Seq(Items) /\ incoming \in Seq(Items)
        /\ delivered \in Seq(Models)
    BY DEF Init
  <2>3. /\ task = "running" /\ told = "Normal" /\ handle = "held" /\ frame = "unsent"
        /\ client = "new" /\ stopped = FALSE /\ inner = TRUE /\ holder = "nobody"
        /\ app = "new" /\ reactor = "none" /\ outcome = "none"
    BY DEF Init, Conn!Init
  <2> QED
    BY <2>1, <2>2, <2>3 DEF TypeOK, Clients, SendErrors
<1>2. Phases /\ InnerLock /\ HandleAccounted /\ ErrorHeard
  BY DEF Init, InitSharedState, Channel, Conn!Init, Phases, InnerLock, HandleAccounted, ErrorHeard, AppWaiting, AppWithLock
<1>3. Delivery
  BY DEF Init, Delivery
<1> QED
  BY <1>1, <1>2, <1>3 DEF IInv

-----------------------------------------------------------------------------
(* Types *)

ConnOK ==
  /\ task \in {"running", "ok", "error"}
  /\ told \in {"Normal"} \cup Conn!Faults \cup Conn!Goodbyes
  /\ handle \in {"held", "released"}
  /\ frame \in {"unsent", "sent", "lost", "abandoned"}

\* The steps of the session keep its types.
LEMMA TypeSession == ConnOK /\ [Conn!Next]_conn => ConnOK'
BY DEF ConnOK, conn, Conn!Next, Conn!Fail, Conn!Depart, Conn!Leave, Conn!Release,
       Conn!FrameStep, Conn!SendFrame, Conn!Lose, Conn!Abandon

\* Whatever a Client does, its connection sees its session.
LEMMA SessionStep == [Next]_vars => [Conn!Next]_conn
<1> SUFFICES ASSUME [Next]_vars PROVE [Conn!Next]_conn
  OBVIOUS
<1>1. CASE Forward \/ Unforwarded \/ ConnEnds \/ Close
  BY <1>1 DEF Forward, Unforwarded, ConnEnds, ConnClosed, Close, Conn!Next, Conn!FrameStep, conn
<1>2. CASE ClientStep
  BY <1>2 DEF ClientStep, Deliver, Reject, Exhausted, ClientCancelled, conn
<1>3. CASE ReactorStep
  BY <1>3 DEF ReactorStep, ReactorSees, ReactorLeaves, ReactorTakes, ReactorDone, Take, Keep,
              Conn!Next, conn
<1>4. CASE AppProgress
  BY <1>4 DEF AppProgress, SendGranted, SendDone, CloseGranted, CloseDone, DropDone, Take, Keep,
              Conn!Next, conn
<1>5. CASE AppChoice
  BY <1>5 DEF AppChoice, Spawn, Discard, CallSend, CallClose, GiveUp, DropHandle, Cancel, Take,
              Keep, Conn!Next, conn
<1>6. CASE Finished \/ UNCHANGED vars
  BY <1>6 DEF Finished, vars, conn
<1> QED
  BY <1>1, <1>2, <1>3, <1>4, <1>5, <1>6 DEF Next

ItemsOK ==
  received \in Seq(Items) /\ incoming \in Seq(Items) /\ delivered \in Seq(Models)

\* Every step keeps the types of the items.
LEMMA TypeItems == ItemsOK /\ [Next]_vars => ItemsOK'
<1> SUFFICES ASSUME ItemsOK, [Next]_vars PROVE ItemsOK'
  OBVIOUS
<1>1. CASE Forward
  BY <1>1 DEF Forward, ItemsOK
<1>2. CASE Deliver
  <2>1. Tail(incoming) \in Seq(Items) /\ <<>> \in Seq(Items)
    BY <1>2 DEF Deliver, ItemsOK
  <2>2. Append(delivered, Head(incoming)) \in Seq(Models)
    BY <1>2 DEF Deliver, Parses, ItemsOK
  <2> QED
    BY <1>2, <2>1, <2>2 DEF Deliver, EndClient, ItemsOK
<1>3. CASE Reject \/ Exhausted \/ ClientCancelled \/ Discard
  <2>1. incoming' = <<>> /\ UNCHANGED <<received, delivered>>
    BY <1>3 DEF Reject, Exhausted, ClientCancelled, EndClient, Discard
  <2> QED
    BY <2>1 DEF ItemsOK
<1>4. CASE UNCHANGED items
  BY <1>4 DEF items, ItemsOK
<1> QED
  BY <1>1, <1>2, <1>3, <1>4
  DEF Next, ClientStep, Unforwarded, ConnEnds, Close, ReactorStep, ReactorSees, ReactorLeaves,
      ReactorTakes, ReactorDone, AppProgress, SendGranted, SendDone, CloseGranted, CloseDone,
      DropDone, AppChoice, Spawn, CallSend, CallClose, GiveUp, DropHandle, Cancel, Finished, vars

TasksOK ==
  /\ client \in Clients
  /\ stopped \in BOOLEAN
  /\ clientStatus \in Channels(ClientStatuses)
  /\ inner \in BOOLEAN
  /\ holder \in {"nobody", "app", "reactor"}
  /\ app \in {"new", "idle", "dropping", "gone"} \cup AppWaiting \cup AppWithLock
  /\ reactor \in {"none", "watching", "locking", "dropping", "done"}
  /\ outcome \in {"none", "ok"} \cup SendErrors

\* Every step keeps the types of the rest.
LEMMA TypeTasks == TasksOK /\ [Next]_vars => TasksOK'
<1> SUFFICES ASSUME TasksOK, [Next]_vars PROVE TasksOK'
  OBVIOUS
<1> USE DEF TasksOK, Clients, SendErrors, AppWaiting, AppWithLock
<1>1. CASE Forward \/ Unforwarded \/ ConnEnds \/ Close
  BY <1>1 DEF Forward, Unforwarded, ConnEnds, Close, lock
<1>2. CASE Deliver \/ Exhausted \/ ClientCancelled
  BY <1>2 DEF Deliver, Exhausted, ClientCancelled, EndClient, lock
<1>3. CASE Reject
  <2>1. Send(clientStatus, "InvalidModel") \in Channels(ClientStatuses)
    BY SendFacts DEF ClientStatuses
  <2> QED
    BY <1>3, <2>1 DEF Reject, Notify, EndClient, lock
<1>4. CASE ReactorSees
  <2>1. BorrowAndUpdate(clientStatus) \in Channels(ClientStatuses)
    BY ReadFacts
  <2> QED
    BY <1>4, <2>1 DEF ReactorSees, Lock
<1>5. CASE ReactorLeaves \/ ReactorTakes \/ ReactorDone
  BY <1>5 DEF ReactorLeaves, ReactorTakes, ReactorDone, ReactorUnlock, Take, Keep, lock
<1>6. CASE AppProgress
  BY <1>6 DEF AppProgress, SendGranted, SendDone, CloseGranted, CloseDone, DropDone, AppUnlock,
              Take, Keep, lock
<1>7. CASE Spawn \/ Discard \/ Cancel \/ DropHandle
  BY <1>7 DEF Spawn, Discard, Cancel, DropHandle, Take, Keep, lock
<1>8. CASE CallSend \/ CallClose \/ GiveUp
  BY <1>8 DEF CallSend, CallClose, GiveUp, Lock, AppUnlock
<1>9. CASE Finished \/ UNCHANGED vars
  BY <1>9 DEF Finished, vars, lock
<1> QED
  BY <1>1, <1>2, <1>3, <1>4, <1>5, <1>6, <1>7, <1>8, <1>9
  DEF Next, ClientStep, ReactorStep, AppChoice

\* Every step keeps the types.
LEMMA TypeNext == TypeOK /\ [Next]_vars => TypeOK'
<1> SUFFICES ASSUME TypeOK, [Next]_vars PROVE TypeOK'
  OBVIOUS
<1>1. ConnOK /\ ItemsOK /\ TasksOK
  BY DEF TypeOK, ConnOK, ItemsOK, TasksOK
<1>2. ConnOK' /\ ItemsOK' /\ TasksOK'
  BY <1>1, TypeSession, SessionStep, TypeItems, TypeTasks
<1> QED
  BY <1>2 DEF TypeOK, ConnOK, ItemsOK, TasksOK

-----------------------------------------------------------------------------
(* The mutex and who owns the connection's handle *)

\* The reactor watches, having seen everything, until the Client is over.
LEMMA PhasesNext == TypeOK /\ Phases /\ [Next]_vars => Phases'
<1> SUFFICES ASSUME TypeOK, Phases, [Next]_vars PROVE Phases'
  OBVIOUS
<1> USE DEF Phases
<1>1. CASE Forward \/ Unforwarded \/ ConnEnds \/ Close
  BY <1>1 DEF Forward, Unforwarded, ConnEnds, Close, lock
<1>2. CASE ClientStep
  BY <1>2 DEF ClientStep, Deliver, Reject, Exhausted, ClientCancelled, EndClient, lock
<1>3. CASE ReactorStep
  BY <1>3 DEF ReactorStep, ReactorSees, ReactorLeaves, ReactorTakes, ReactorDone, ClientGone,
              ReceiverOpen, Take, Keep, lock
<1>4. CASE AppProgress
  BY <1>4 DEF AppProgress, SendGranted, SendDone, CloseGranted, CloseDone, DropDone, Take,
              Keep, lock
<1>5. CASE Spawn
  BY <1>5 DEF Spawn, lock
<1>6. CASE Discard \/ CallSend \/ CallClose \/ GiveUp \/ DropHandle \/ Cancel
  BY <1>6 DEF Discard, CallSend, CallClose, GiveUp, DropHandle, Cancel, AppWaiting,
              Take, Keep, lock
<1>7. CASE Finished \/ UNCHANGED vars
  BY <1>7 DEF Finished, vars, lock
<1> QED
  BY <1>1, <1>2, <1>3, <1>4, <1>5, <1>6, <1>7 DEF Next, AppChoice

\* Nobody sends or closes without the mutex, and nobody waits for a free one.
LEMMA LockNext ==
  TypeOK /\ Phases /\ InnerLock /\ [Next]_vars => InnerLock'
<1> SUFFICES ASSUME TypeOK, Phases, InnerLock, [Next]_vars PROVE InnerLock'
  OBVIOUS
<1> USE DEF InnerLock, AppWaiting, AppWithLock
<1>1. CASE Forward \/ Unforwarded \/ ConnEnds \/ Close
  BY <1>1 DEF Forward, Unforwarded, ConnEnds, Close, lock
<1>2. CASE ClientStep
  BY <1>2 DEF ClientStep, Deliver, Reject, Exhausted, ClientCancelled, lock
<1>3. CASE ReactorSees
  BY <1>3 DEF ReactorSees, Lock
<1>4. CASE ReactorLeaves
  BY <1>4 DEF ReactorLeaves, lock
<1>5. CASE ReactorTakes
  BY <1>5 DEF ReactorTakes, Granted, Take, Keep, ReactorUnlock
<1>6. CASE ReactorDone
  BY <1>6 DEF ReactorDone, ReactorUnlock
<1>7. CASE SendGranted
  BY <1>7 DEF SendGranted, Granted, AppUnlock
<1>8. CASE SendDone \/ CloseDone \/ GiveUp
  BY <1>8 DEF SendDone, CloseDone, GiveUp, AppUnlock
<1>9. CASE CloseGranted
  BY <1>9 DEF CloseGranted, Granted, Take, Keep, AppUnlock
<1>10. CASE CallSend \/ CallClose
  BY <1>10 DEF CallSend, CallClose, Lock
<1>11. CASE DropHandle
  BY <1>11 DEF DropHandle, Take, Keep
<1>12. CASE Discard \/ Spawn
  BY <1>12 DEF Discard, Spawn, Phases, lock
<1>13. CASE DropDone \/ Cancel
  BY <1>13 DEF DropDone, Cancel, lock
<1>14. CASE Finished \/ UNCHANGED vars
  BY <1>14 DEF Finished, vars, lock
<1> QED
  BY <1>1, <1>2, <1>3, <1>4, <1>5, <1>6, <1>7, <1>8, <1>9, <1>10, <1>11, <1>12, <1>13, <1>14
  DEF Next, ReactorStep, AppProgress, AppChoice

\* Whoever lets go of the mutex last drops the connection's handle.
LEMMA HandleNext ==
  TypeOK /\ Phases /\ InnerLock /\ HandleAccounted /\ [Next]_vars => HandleAccounted'
<1> SUFFICES ASSUME TypeOK, Phases, InnerLock, HandleAccounted, [Next]_vars
    PROVE  HandleAccounted'
  OBVIOUS
<1> USE DEF HandleAccounted, HandleOwned, AppWaiting, AppWithLock
<1>1. CASE Forward \/ Unforwarded \/ ConnEnds \/ Close
  BY <1>1 DEF Forward, Unforwarded, ConnEnds, ConnClosed, Close, lock, conn,
     Conn!Fail, Conn!Depart, Conn!Leave, Conn!Lose, Conn!SendFrame, Conn!Abandon
<1>2. CASE ClientStep
  BY <1>2 DEF ClientStep, Deliver, Reject, Exhausted, ClientCancelled, EndClient, lock, conn
<1>3. CASE ReactorSees \/ ReactorLeaves \/ ReactorDone
  BY <1>3 DEF ReactorSees, ReactorLeaves, ReactorDone, lock, conn
<1>4. CASE ReactorTakes
  BY <1>4 DEF ReactorTakes, Take, Keep, Conn!Release, conn
<1>5. CASE SendGranted \/ SendDone \/ CloseDone \/ CallSend \/ CallClose \/ GiveUp
  BY <1>5 DEF SendGranted, SendDone, CloseDone, CallSend, CallClose, GiveUp, conn
<1>6. CASE CloseGranted
  BY <1>6 DEF CloseGranted, Take, Keep, Conn!Release, conn
<1>7. CASE DropHandle
  BY <1>7 DEF DropHandle, LastReference, Take, Keep, Conn!Release, conn, Phases, TypeOK
<1>8. CASE Spawn \/ Discard
  BY <1>8 DEF Spawn, Discard, Conn!Release, lock, conn
<1>9. CASE DropDone \/ Cancel
  BY <1>9 DEF DropDone, Cancel, lock, conn
<1>10. CASE Finished \/ UNCHANGED vars
  BY <1>10 DEF Finished, vars, lock, conn
<1> QED
  BY <1>1, <1>2, <1>3, <1>4, <1>5, <1>6, <1>7, <1>8, <1>9, <1>10
  DEF Next, ReactorStep, AppProgress, AppChoice

\* A reactor that leaves after an ill-formed model leaves no handle behind.
LEMMA ErrorNext ==
  TypeOK /\ Phases /\ HandleAccounted /\ ErrorHeard /\ [Next]_vars => ErrorHeard'
<1> SUFFICES ASSUME TypeOK, Phases, HandleAccounted, ErrorHeard, [Next]_vars
    PROVE  ErrorHeard'
  OBVIOUS
<1> USE DEF ErrorHeard
<1>1. CASE Forward \/ Unforwarded \/ ConnEnds \/ Close
  BY <1>1 DEF Forward, Unforwarded, ConnEnds, ConnClosed, Close,
     Conn!Fail, Conn!Depart, Conn!Leave, Conn!Lose, Conn!SendFrame, Conn!Abandon, conn
<1>2. CASE Deliver \/ Exhausted \/ ClientCancelled
  BY <1>2 DEF Deliver, Exhausted, ClientCancelled, EndClient
<1>3. CASE Reject
  <2>1. Send(clientStatus, "InvalidModel").unseen
    BY SendFacts DEF TypeOK, ClientStatuses
  <2>2. reactor = "watching"
    BY <1>3 DEF Reject, Phases
  <2> QED
    BY <1>3, <2>1, <2>2 DEF Reject, Notify
<1>4. CASE ReactorSees
  <2>1. ~HandleOwned /\ client = "error" => handle = "released"
    BY <1>4 DEF ReactorSees, HandleAccounted, TypeOK
  <2> QED
    BY <1>4, <2>1 DEF ReactorSees, conn
<1>5. CASE ReactorLeaves
  BY <1>5 DEF ReactorLeaves, ClientGone, conn
<1>6. CASE ReactorTakes
  BY <1>6 DEF ReactorTakes, Take, Keep, Conn!Release, HandleAccounted, TypeOK, conn
<1>7. CASE ReactorDone
  BY <1>7 DEF ReactorDone, conn
<1>8. CASE AppProgress
  BY <1>8 DEF AppProgress, SendGranted, SendDone, CloseGranted, CloseDone, DropDone, Take, Keep,
              Conn!Release, conn
<1>9. CASE AppChoice
  BY <1>9 DEF AppChoice, Spawn, Discard, CallSend, CallClose, GiveUp, DropHandle, Cancel, Take,
              Keep, Conn!Release, conn
<1>10. CASE Finished \/ UNCHANGED vars
  BY <1>10 DEF Finished, vars, conn
<1> QED
  BY <1>1, <1>2, <1>3, <1>4, <1>5, <1>6, <1>7, <1>8, <1>9, <1>10
  DEF Next, ClientStep, ReactorStep
-----------------------------------------------------------------------------
(* What the application gets *)

\* Passing the oldest item on keeps the whole sequence.
LEMMA PassOn ==
  ASSUME NEW S, NEW done \in Seq(S), NEW left \in Seq(S), left # <<>>
  PROVE  Append(done, Head(left)) \o Tail(left) = done \o left
<1>1. Len(Tail(left)) = Len(left) - 1 /\ Len(left) > 0
  OBVIOUS
<1>2. Append(done, Head(left)) \in Seq(S) /\ Tail(left) \in Seq(S)
  OBVIOUS
<1>3. Len(Append(done, Head(left)) \o Tail(left)) = Len(done \o left)
  BY <1>1
<1>4. ASSUME NEW i \in 1 .. Len(done \o left)
      PROVE  (Append(done, Head(left)) \o Tail(left))[i] = (done \o left)[i]
  BY <1>1, <1>4
<1> QED
  BY <1>2, <1>3, <1>4

\* A step that leaves the items and the Client alone keeps what was delivered.
LEMMA DeliveryKept ==
  Delivery /\ UNCHANGED <<items, client, stopped>> => Delivery'
BY DEF Delivery, items

\* No step loses, repeats or reorders an item, nor passes an ill-formed one on.
LEMMA DeliveryNext == TypeOK /\ Phases /\ Delivery /\ [Next]_vars => Delivery'
<1> SUFFICES ASSUME TypeOK, Phases, Delivery, [Next]_vars PROVE Delivery'
  OBVIOUS
<1>1. /\ received \in Seq(Items) /\ incoming \in Seq(Items)
      /\ delivered \in Seq(Models) /\ delivered \in Seq(Items)
  BY DEF TypeOK, Items
<1>2. CASE Forward
  <2>1. PICK item \in Items :
          received' = Append(received, item) /\ incoming' = Append(incoming, item)
    BY <1>2 DEF Forward
  <2>2. ReceiverOpen /\ client' = client /\ delivered' = delivered
    BY <1>2 DEF Forward
  <2>3. received = delivered \o incoming
    BY <2>2 DEF ReceiverOpen, Delivery
  <2>4. received' = delivered' \o incoming'
    <3>1. Append(incoming, item) = incoming \o <<item>> /\ received' = received \o <<item>>
      BY <1>1, <2>1, AppendIsConcat
    <3>2. received \o <<item>> = delivered \o (incoming \o <<item>>)
      BY <1>1, <2>3, ConcatAssociative
    <3> QED
      BY <2>1, <2>2, <3>1, <3>2
  <2> QED
    BY <2>2, <2>4 DEF ReceiverOpen, Delivery
<1>3. CASE Deliver
  <2>1. client = "running" /\ incoming # <<>> /\ received' = received
    BY <1>3 DEF Deliver
  <2>2. received = delivered \o incoming
    BY <2>1 DEF Delivery
  <2>3. CASE /\ delivered' = Append(delivered, Head(incoming))
             /\ incoming' = Tail(incoming)
             /\ UNCHANGED <<client, stopped>>
    <3>1. received' = delivered' \o incoming'
      BY <1>1, <2>1, <2>2, <2>3, PassOn
    <3> QED
      BY <2>1, <2>3, <3>1 DEF Delivery
  <2>4. CASE EndClient("ok") /\ stopped' = TRUE
    BY <2>4 DEF EndClient, Delivery
  <2> QED
    BY <1>3, <2>3, <2>4 DEF Deliver
<1>4. CASE Reject
  <2>1. /\ client = "running" /\ incoming # <<>> /\ Head(incoming) \notin Models
        /\ client' = "error" /\ UNCHANGED <<received, delivered>>
    BY <1>4 DEF Reject, Parses, EndClient
  <2>2. received = delivered \o incoming
    BY <2>1 DEF Delivery
  <2>3. Head(incoming) = IllFormed
    BY <1>1, <2>1 DEF Items
  <2>4. Len(delivered) < Len(received) /\ received[Len(delivered) + 1] = Head(incoming)
    BY <1>1, <2>1, <2>2
  <2>5. \A i \in 1 .. Len(delivered) : received[i] = delivered[i]
    BY <1>1, <2>2
  <2> QED
    BY <2>1, <2>3, <2>4, <2>5 DEF Delivery
<1>5. CASE Exhausted
  <2>1. /\ client = "running" /\ incoming = <<>> /\ client' = "ok"
        /\ UNCHANGED <<received, delivered>>
    BY <1>5 DEF Exhausted, NoMoreItems, EndClient
  <2>2. received = delivered
    BY <1>1, <2>1 DEF Delivery
  <2> QED
    BY <2>1, <2>2 DEF Delivery
<1>6. CASE ClientCancelled
  BY <1>6 DEF ClientCancelled, EndClient, Delivery
<1>7. CASE Spawn \/ Cancel
  BY <1>7 DEF Spawn, Cancel, Delivery, items
<1>8. CASE Discard
  BY <1>8 DEF Discard, Delivery
<1>9. CASE UNCHANGED <<items, client, stopped>>
  BY <1>9, DeliveryKept
<1> QED
  BY <1>2, <1>3, <1>4, <1>5, <1>6, <1>7, <1>8, <1>9
  DEF Next, ClientStep, Unforwarded, ConnEnds, Close, ReactorStep, ReactorSees, ReactorLeaves,
      ReactorTakes, ReactorDone, AppProgress, SendGranted, SendDone, CloseGranted, CloseDone,
      DropDone, AppChoice, CallSend, CallClose, GiveUp, DropHandle, Finished, vars

-----------------------------------------------------------------------------
(* Theorems *)

\* Every step keeps the invariant.
LEMMA IInvNext == IInv /\ [Next]_vars => IInv'
BY TypeNext, PhasesNext, LockNext, HandleNext, ErrorNext, DeliveryNext DEF IInv

\* The invariant of a Client holds in every reachable state.
THEOREM ClientInvariant == Spec => []IInv
<1>1. Init => IInv
  BY InitIInv
<1>2. IInv /\ [Next]_vars => IInv'
  BY IInvNext
<1> QED
  BY <1>1, <1>2, PTL DEF Spec

\* Type correctness of a Client and its ClientHandle (client/mod.rs, client_handle.rs).
THEOREM ClientTypes == Spec => []TypeOK
<1>1. IInv => TypeOK
  BY DEF IInv
<1> QED
  BY <1>1, ClientInvariant, PTL

\* Client::run passes models on in order, once each, up to the first ill-formed item, and
\* a Client that ends by itself kept none back, whatever Models is and however many items
\* arrive (client/mod.rs:93-113).
THEOREM ModelsDelivered == Spec => []Delivery
<1>1. IInv => Delivery
  BY DEF IInv
<1> QED
  BY <1>1, ClientInvariant, PTL

\* ClientHandle::send keeps the connection's handle in the mutex until it is done, and
\* close() and the reactor drop it under the mutex (client_handle.rs:45-47, 61-66, 94-110).
THEOREM InnerLockSafe == Spec => []InnerLock
<1>1. IInv => InnerLock
  BY DEF IInv
<1> QED
  BY <1>1, ClientInvariant, PTL

\* The connection's handle is never leaked in the mutex, whoever of the ClientHandle and
\* the reactor's upgraded reference goes last (client_handle.rs:22, 62).
THEOREM HandleNeverLeaked == Spec => []HandleAccounted
<1>1. IInv => HandleAccounted
  BY DEF IInv
<1> QED
  BY <1>1, ClientInvariant, PTL

\* The notification of an ill-formed model is pending, handled or done with: the reactor
\* never leaves before it (client/mod.rs:98-102, client_handle.rs:49-81).
THEOREM ErrorNeverForgotten == Spec => []ErrorHeard
<1>1. IInv => ErrorHeard
  BY DEF IInv
<1> QED
  BY <1>1, ClientInvariant, PTL
=============================================================================
