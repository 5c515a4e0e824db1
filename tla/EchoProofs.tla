----------------------------- MODULE EchoProofs -----------------------------
(***************************************************************************)
(* Proofs about the example, for every set of models and number of items.  *)
(***************************************************************************)
EXTENDS EchoProperties, ClientProofs

-----------------------------------------------------------------------------
(* The example uses its Client as any application may. *)

\* A step of the example is a step of its Client, or leaves it alone.
LEMMA StepsOfClient == [EchoNext]_allVars => [Next]_vars
<1> SUFFICES ASSUME [EchoNext]_allVars PROVE [Next]_vars
  OBVIOUS
<1>1. CASE Below
  BY <1>1 DEF Below, Next, ClientStep, AppChoice
<1>2. CASE EchoDeliver
  BY <1>2 DEF EchoDeliver, Next, ClientStep
<1>3. CASE EchoStep
  BY <1>3
  DEF EchoStep, EchoSpawn, EchoReceive, EchoLock, EchoSent, EchoLeave, EchoDropDone, EchoGone,
      Next, AppProgress, AppChoice
<1>4. CASE Freeze \/ EchoFinished \/ UNCHANGED allVars
  BY <1>4 DEF Freeze, EchoFinished, allVars
<1> QED
  BY <1>1, <1>2, <1>3, <1>4 DEF EchoNext

\* And so what is proved of a Client holds below the example.
LEMMA ClientBelow == EchoSpec => []IInv
<1>1. EchoInit => Init
  BY DEF EchoInit
<1>2. EchoSpec => Spec
  BY <1>1, StepsOfClient, PTL DEF EchoSpec, Spec
<1> QED
  BY <1>2, ClientInvariant, PTL

-----------------------------------------------------------------------------
(* What each step does to the models on their way. *)

\* Nothing is on its way at first.
LEMMA InitEchoInv == EchoInit => EchoInv
<1> SUFFICES ASSUME EchoInit PROVE EchoInv
  OBVIOUS
<1>1. /\ rx = <<>> /\ msg = <<>> /\ echoed = <<>> /\ delivered = <<>> /\ received = <<>>
      /\ rxOpen = TRUE /\ panicked = FALSE /\ frozen = FALSE /\ client = "new" /\ app = "new"
  BY DEF EchoInit, Init
<1>2. <<>> \in Seq(Models) /\ Len(<<>>) = 0 /\ (<<>> \o <<>>) \o <<>> = <<>>
  <2>1. <<>> \in Seq(Models)
    OBVIOUS
  <2> QED
    BY <2>1, ConcatEmptySeq, EmptySeq
<1>3. EchoTypeOK
  <2>1. rx \in Seq(Models) /\ msg \in Seq(Models) /\ echoed \in Seq(Models) /\ Len(msg) <= 1
    BY <1>1, <1>2
  <2> QED
    BY <1>1, <2>1 DEF EchoTypeOK
<1> QED
  BY <1>1, <1>2, <1>3 DEF EchoInv, MsgSending, Echoes

\* A step of the others leaves the application and the models delivered alone, and
\* neither starts the Client again nor takes its cancellation back.
LEMMA BelowStep ==
  ASSUME Below, TypeOK
  PROVE  /\ UNCHANGED <<delivered, app, echoVars>>
         /\ client' # client => client' = "ok"
         /\ received' # received => ReceiverOpen
         /\ stopped => stopped'
<1>1. CASE Forward \/ Unforwarded \/ ConnEnds \/ Close
  BY <1>1 DEF Below, Polled, echoVars, Forward, Unforwarded, ConnEnds, Close, items
<1>2. CASE Exhausted \/ ClientCancelled \/ Cancel
  BY <1>2 DEF Below, Polled, echoVars, Exhausted, ClientCancelled, EndClient, Cancel, items
<1>3. CASE ReactorStep
  BY <1>3 DEF Below, Polled, echoVars, ReactorStep, ReactorSees, ReactorLeaves, ReactorTakes, ReactorDone, items
<1> QED
  BY <1>1, <1>2, <1>3 DEF Below

\* What is appended to the second part is appended to the whole.
LEMMA AppendBehind ==
  \A s, t \in Seq(Models), e \in Models : Append(s \o t, e) = s \o Append(t, e)
<1> TAKE s, t \in Seq(Models), e \in Models
<1>1. <<e>> \in Seq(Models) /\ s \o t \in Seq(Models)
  OBVIOUS
<1>2. Append(s \o t, e) = (s \o t) \o <<e>>
  BY <1>1, AppendIsConcat
<1>3. Append(t, e) = t \o <<e>>
  BY AppendIsConcat
<1>4. (s \o t) \o <<e>> = s \o (t \o <<e>>)
  BY <1>1, ConcatAssociative
<1> QED
  BY <1>2, <1>3, <1>4

\* The model the Client delivers goes to the end of the channel.
LEMMA DeliverStep ==
  ASSUME Polled, EchoDeliver, IInv, EchoInv
  PROVE  EchoInv'
<1>1. /\ client = "running" /\ incoming # <<>> /\ Head(incoming) \in Models
      /\ UNCHANGED <<received, app, rxOpen, msg, panicked, echoed>>
  BY DEF EchoDeliver, Deliver, Parses
<1>2. CASE rxOpen
  <2>1. /\ delivered' = Append(delivered, Head(incoming)) /\ rx' = Append(rx, Head(incoming))
        /\ UNCHANGED <<client, stopped>>
    BY <1>2 DEF EchoDeliver, Deliver
  <2>2. ASSUME ~panicked
        PROVE  delivered' = echoed' \o msg' \o rx'
    <3>1. delivered = echoed \o msg \o rx
      BY <1>2, <2>2 DEF EchoInv, Echoes
    <3>2. echoed \o msg \in Seq(Models) /\ rx \in Seq(Models)
      BY DEF EchoInv, EchoTypeOK
    <3>3. Append((echoed \o msg) \o rx, Head(incoming))
            = (echoed \o msg) \o Append(rx, Head(incoming))
      BY <1>1, <3>2, AppendBehind, Zenon
    <3> QED
      BY <1>1, <2>1, <3>1, <3>3
  <2>3. app \in {"dropping", "gone"} => panicked
    BY <1>1 DEF EchoInv, MsgSending, ReceiverOpen
  <2>4. rx' \in Seq(Models)
    BY <1>1, <2>1 DEF EchoInv, EchoTypeOK
  <2> QED
    BY <1>1, <1>2, <2>1, <2>2, <2>3, <2>4 DEF EchoInv, EchoTypeOK, Polled, MsgSending, Echoes
<1>3. CASE ~rxOpen
  <2>1. delivered' = delivered /\ rx' = rx /\ (client' = client \/ client' = "ok")
    BY <1>3 DEF EchoDeliver, Deliver, EndClient
  <2>2. app = "gone" /\ panicked
    BY <1>1, <1>3 DEF EchoInv, MsgSending, ReceiverOpen
  <2> QED
    BY <1>1, <1>3, <2>1, <2>2 DEF EchoInv, EchoTypeOK, Polled, MsgSending, Echoes
<1> QED
  BY <1>2, <1>3

\* The oldest model of the channel is taken.
LEMMA ReceiveStep ==
  ASSUME Polled, EchoReceive, EchoInv
  PROVE  EchoInv'
<1>1. /\ app = "idle" /\ app' = "sendWait" /\ ~panicked /\ rx # <<>>
      /\ msg' = <<Head(rx)>> /\ rx' = Tail(rx)
      /\ UNCHANGED <<received, delivered, client, stopped, rxOpen, panicked, echoed>>
  BY DEF EchoReceive, TakeNext, CallSend, items
<1>2. msg = <<>> /\ rxOpen
  BY <1>1 DEF EchoInv, MsgSending
<1>3. echoed \in Seq(Models) /\ rx \in Seq(Models)
  BY DEF EchoInv, EchoTypeOK
<1>4. /\ <<Head(rx)>> \in Seq(Models) /\ Tail(rx) \in Seq(Models)
      /\ Len(<<Head(rx)>>) = 1 /\ rx = <<Head(rx)>> \o Tail(rx)
  BY <1>1, <1>3
<1>5. (echoed \o msg) \o rx = (echoed \o <<Head(rx)>>) \o Tail(rx)
  <2>1. echoed \o msg = echoed
    BY <1>2, <1>3, ConcatEmptySeq
  <2> QED
    BY <1>3, <1>4, <2>1, ConcatAssociative
<1> QED
  BY <1>1, <1>2, <1>3, <1>4, <1>5 DEF EchoInv, EchoTypeOK, Polled, MsgSending, Echoes

\* The send of it waits for the mutex, is done or fails.
LEMMA SendStep ==
  ASSUME Polled, EchoLock \/ EchoSent, EchoInv
  PROVE  EchoInv'
<1>1. /\ app \in {"sendWait", "sending"}
      /\ UNCHANGED <<received, delivered, client, stopped, rx, rxOpen>>
  BY DEF EchoLock, EchoSent, taskVars, SendGranted, SendDone, items
<1>2. msg # <<>> /\ ~panicked /\ rxOpen
  BY <1>1 DEF EchoInv, MsgSending
<1>3. CASE EchoLock
  <2>1. app' = "sending" /\ UNCHANGED <<msg, panicked, echoed>>
    BY <1>3 DEF EchoLock, taskVars
  <2> QED
    BY <1>1, <1>2, <2>1 DEF EchoInv, EchoTypeOK, Polled, MsgSending, Echoes
<1>4. CASE EchoSent
  <2>1. /\ app' = "idle" /\ msg' = <<>>
        /\ \/ echoed' = echoed \o msg /\ panicked' = FALSE
           \/ echoed' = echoed /\ panicked' = TRUE
    BY <1>2, <1>4 DEF EchoSent, EchoInv, EchoTypeOK
  <2>2. echoed \o msg \in Seq(Models)
    BY DEF EchoInv, EchoTypeOK
  <2>3. (echoed \o msg) \o <<>> = echoed \o msg
    BY <2>2, ConcatEmptySeq
  <2>4. echoed' \in Seq(Models) /\ msg' \in Seq(Models) /\ Len(msg') <= 1
    <3>1. <<>> \in Seq(Models) /\ Len(<<>>) <= 1
      OBVIOUS
    <3>2. echoed \in Seq(Models)
      BY DEF EchoInv, EchoTypeOK
    <3> QED
      BY <2>1, <2>2, <3>1, <3>2
  <2> QED
    BY <1>1, <1>2, <2>1, <2>2, <2>3, <2>4 DEF EchoInv, EchoTypeOK, Polled, MsgSending, Echoes
<1> QED
  BY <1>3, <1>4

\* A loop that ended without a panic has sent everything.
LEMMA LeaveStep ==
  ASSUME Polled, EchoLeave \/ EchoDropDone, IInv, EchoInv
  PROVE  EchoInv'
<1>1. /\ app \in {"idle", "dropping"} /\ app' \in {"dropping", "gone"}
      /\ UNCHANGED <<received, delivered, incoming, client, stopped, taskVars>>
  BY DEF EchoLeave, DropHandle, EchoDropDone, DropDone, items, taskVars
<1>2. msg = <<>> /\ rxOpen /\ client # "error"
  BY <1>1 DEF EchoInv, MsgSending
<1>3. ~panicked => ~ReceiverOpen /\ rx = <<>>
  BY <1>1 DEF EchoLeave, Drained, EchoDropDone, DropDone, EchoInv, MsgSending
<1>4. ASSUME ~panicked, ~stopped
      PROVE  echoed = received
  <2>1. client = "ok"
    BY <1>2, <1>3, <1>4 DEF IInv, TypeOK, Clients, ReceiverOpen
  <2>2. received = delivered
    BY <1>4, <2>1 DEF IInv, Delivery
  <2>3. delivered = (echoed \o <<>>) \o <<>> /\ echoed \in Seq(Models)
    BY <1>2, <1>3, <1>4 DEF EchoInv, EchoTypeOK, Echoes
  <2> QED
    BY <2>2, <2>3, ConcatEmptySeq
<1> QED
  BY <1>1, <1>2, <1>3, <1>4
  DEF EchoInv, EchoTypeOK, Polled, MsgSending, Echoes, taskVars, ReceiverOpen

\* Then the receiver goes.
LEMMA GoneStep ==
  ASSUME Polled, EchoGone, EchoInv
  PROVE  EchoInv'
<1>1. /\ app = "gone" /\ rxOpen' = FALSE /\ rx' = <<>>
      /\ UNCHANGED <<received, delivered, client, stopped, app, msg, panicked, echoed>>
  BY DEF EchoGone, vars, items
<1>2. rx' \in Seq(Models)
  BY <1>1
<1> QED
  BY <1>1, <1>2 DEF EchoInv, EchoTypeOK, Polled, MsgSending, Echoes, ReceiverOpen

\* Every step keeps the invariant.
LEMMA EchoInvNext == IInv /\ EchoInv /\ [EchoNext]_allVars => EchoInv'
<1> SUFFICES ASSUME IInv, EchoInv, [EchoNext]_allVars PROVE EchoInv'
  OBVIOUS
<1>1. CASE Below
  <2>1. /\ UNCHANGED <<delivered, app, rx, rxOpen, msg, panicked, echoed, frozen>>
        /\ client' # client => client' = "ok"
        /\ received' # received => ReceiverOpen
        /\ stopped => stopped'
    BY <1>1, BelowStep DEF IInv, echoVars, taskVars
  <2> QED
    BY <2>1 DEF EchoInv, EchoTypeOK, MsgSending, Echoes, ReceiverOpen
<1>2. CASE Polled /\ EchoSpawn
  <2>1. /\ app = "new" /\ app' = "idle" /\ client' = "running"
        /\ UNCHANGED <<received, delivered, stopped, rx, rxOpen, msg, panicked, echoed, frozen>>
    BY <1>2 DEF Polled, EchoSpawn, Spawn, taskVars, items, IInv, Phases
  <2> QED
    BY <2>1 DEF EchoInv, EchoTypeOK, MsgSending, Echoes, ReceiverOpen
<1>3. CASE Freeze \/ EchoFinished \/ UNCHANGED allVars
  <2>1. /\ UNCHANGED <<received, delivered, client, stopped, app, rx, rxOpen, msg, panicked, echoed>>
        /\ frozen' \in {TRUE, frozen}
    BY <1>3 DEF Freeze, EchoFinished, allVars, vars, echoVars, taskVars, items
  <2> QED
    BY <2>1 DEF EchoInv, EchoTypeOK, MsgSending, Echoes, ReceiverOpen
<1> QED
  BY <1>1, <1>2, <1>3, DeliverStep, ReceiveStep, SendStep, LeaveStep, GoneStep
  DEF EchoNext, EchoStep, EchoDeliver

-----------------------------------------------------------------------------
(* The theorems *)

\* The invariant holds in every reachable state of the example.
THEOREM EchoInvariant == EchoSpec => []EchoInv
<1>1. EchoInit => EchoInv
  BY InitEchoInv
<1>2. IInv /\ EchoInv /\ [EchoNext]_allVars => EchoInv'
  BY EchoInvNext
<1> QED
  BY <1>1, <1>2, ClientBelow, PTL DEF EchoSpec

\* The variables of the example keep their types, and one model at a time is on its way.
THEOREM EchoTypes == EchoSpec => []EchoTypeOK
<1>1. EchoInv => EchoTypeOK
  BY DEF EchoInv
<1> QED
  BY <1>1, EchoInvariant, PTL

\* The example sends back what it gets, in order and once, up to a send that fails, and
\* stops only when everything was sent (examples/echo.rs:39-41).
THEOREM EchoesInOrder == EchoSpec => []Echoes
<1>1. EchoInv => Echoes
  BY DEF EchoInv
<1> QED
  BY <1>1, EchoInvariant, PTL
=============================================================================
