-------------------------------- MODULE Echo --------------------------------
(***************************************************************************)
(* The documented application (examples/echo.rs) on top of a Client: the   *)
(* callback puts each model into a channel, and a task takes them out and  *)
(* sends them back.  The holder of the ClientHandle, free to do anything   *)
(* in Client, is this task here; its steps are those of a Client, with the *)
(* state of the task beside them.                                          *)
(*                                                                         *)
(* All tasks share the worker of #[tokio::main(flavor = "current_thread")]. *)
(* Who closes the sink blocks it until it has the sink's lock and the peer *)
(* has read, and as nobody else runs meanwhile, that may be for ever.      *)
(*                                                                         *)
(* An operator X_Y is a wrong version of the X defined after it, used only *)
(* to test the properties.                                                 *)
(***************************************************************************)
EXTENDS Client

VARIABLES
  rx,        \* the models in the channel
  rxOpen,    \* the task still has the receiver
  msg,       \* the model it is sending, if any, as a sequence
  panicked,  \* a send failed, and its unwrap() with it
  echoed,    \* the models that were sent back (history)
  frozen     \* the worker waits for something that takes a worker to happen

taskVars == <<rx, rxOpen, msg, panicked, echoed>>
echoVars == <<taskVars, frozen>>
allVars == <<vars, echoVars>>

EchoInit ==
  /\ Init
  /\ rx = <<>>
  /\ rxOpen = TRUE
  /\ msg = <<>>
  /\ panicked = FALSE
  /\ echoed = <<>>
  /\ frozen = FALSE

-----------------------------------------------------------------------------
(* The worker. *)

\* A step of a task takes the worker.
Polled == ~frozen /\ UNCHANGED frozen

\* A close of the sink that does not return: the shared task's, which answers an end
\* that was reported, or that of the drop of the handle.  A ping or a send in progress
\* has the lock, or the socket is full; a sink that was closed blocks nobody.
Freeze ==
  /\ ~frozen
  /\ told # "Normal" \/ app = "dropping"
  /\ frame \in {"unsent", "lost"}
  /\ frozen' = TRUE
  /\ UNCHANGED <<vars, taskVars>>

-----------------------------------------------------------------------------
(* The callback. *)

\* Model::try_from() takes everything: no item is ill-formed.
WellFormed == \A i \in DOMAIN received' : received'[i] \in Models

\* tx.send(msg).unwrap(): without the receiver it panics in the Client's task, which
\* ends as it does when a callback refuses a model.
EchoDeliver ==
  /\ Polled
  /\ Deliver
  /\ \/ rxOpen /\ delivered' # delivered /\ rx' = Append(rx, Head(incoming))
     \/ ~rxOpen /\ delivered' = delivered /\ rx' = rx
  /\ UNCHANGED <<rxOpen, msg, panicked, echoed>>

-----------------------------------------------------------------------------
(* The task of handle_client. *)

EchoSpawn == Spawn /\ UNCHANGED taskVars

TakeNext_All ==
  /\ msg' = rx
  /\ rx' = <<>>
TakeNext_Newest ==
  /\ msg' = <<rx[Len(rx)]>>
  /\ rx' = SubSeq(rx, 1, Len(rx) - 1)
TakeNext ==
  /\ msg' = <<Head(rx)>>
  /\ rx' = Tail(rx)

EchoReceive ==
  /\ app = "idle" /\ ~panicked
  /\ rx # <<>>
  /\ TakeNext
  /\ CallSend
  /\ UNCHANGED <<rxOpen, panicked, echoed>>

EchoLock ==
  /\ SendGranted
  /\ app' = "sending"
  /\ UNCHANGED taskVars

EchoSent ==
  /\ SendGranted \/ SendDone
  /\ app' = "idle"
  /\ \/ outcome' = "ok" /\ echoed' = echoed \o msg /\ panicked' = panicked
     \/ outcome' # "ok" /\ echoed' = echoed /\ panicked' = TRUE
  /\ msg' = <<>>
  /\ UNCHANGED <<rx, rxOpen>>

\* rx.recv() returns None: the callback is gone with the Client's task, and nothing is
\* left in the channel.
Drained_OwnSender == FALSE
Drained_Early == ~ReceiverOpen
Drained == ~ReceiverOpen /\ rx = <<>>

\* The loop ends, or panics: first the ClientHandle is dropped, then the receiver.
EchoLeave ==
  /\ app = "idle"
  /\ panicked \/ Drained
  /\ DropHandle
  /\ UNCHANGED taskVars

\* The drop returns: the sink was closed at once, or it was another closer's.
EchoDropDone == DropDone /\ UNCHANGED taskVars

EchoGone ==
  /\ app = "gone"
  /\ rxOpen
  /\ rxOpen' = FALSE
  /\ rx' = <<>>
  /\ UNCHANGED <<vars, msg, panicked, echoed>>

EchoStep ==
  /\ Polled
  /\ \/ EchoSpawn \/ EchoReceive \/ EchoLock \/ EchoSent
     \/ EchoLeave \/ EchoDropDone \/ EchoGone

-----------------------------------------------------------------------------
\* What goes on without the task: the connection, the Client, its reactor, the token.
Below ==
  /\ Polled
  /\ \/ Forward \/ Unforwarded \/ ConnEnds \/ Close
     \/ Exhausted \/ ClientCancelled \/ ReactorStep
     \/ Cancel
  /\ WellFormed
  /\ UNCHANGED taskVars

EchoFinished ==
  /\ (Finished /\ ~rxOpen) \/ frozen
  /\ UNCHANGED allVars

EchoNext == Below \/ EchoDeliver \/ EchoStep \/ Freeze \/ EchoFinished

EchoSpec == EchoInit /\ [][EchoNext]_allVars

\* As in Client, on a worker that is not blocked; the application's calls are code here,
\* and the runtime polls its task.  A send ends if the worker is there to see it.
EchoFairness ==
  /\ WF_allVars(EchoDeliver \/ (Below /\ (Exhausted \/ ClientCancelled)))
  /\ WF_allVars(Below /\ ReactorStep)
  /\ WF_allVars(Below /\ ConnEnds /\ handle = "released")
  /\ WF_allVars(Below /\ Close /\ (told # "Normal" \/ handle = "released"))
  /\ WF_allVars(EchoStep)

FairEchoSpec == EchoSpec /\ EchoFairness
=============================================================================
