--------------------------- MODULE EchoProperties ---------------------------
(***************************************************************************)
(* What the documented application does for its peer.                      *)
(***************************************************************************)
EXTENDS Echo, ClientProperties

\* One model at a time is taken out of the channel.
EchoTypeOK ==
  /\ rx \in Seq(Models)
  /\ rxOpen \in BOOLEAN
  /\ msg \in Seq(Models) /\ Len(msg) <= 1
  /\ panicked \in BOOLEAN
  /\ echoed \in Seq(Models)
  /\ frozen \in BOOLEAN

\* The peer gets back what it sent, in order and once: the echoes, the one on its way
\* and those in the channel are the models delivered so far.  A task that left its loop
\* without a panic, and whose Client nobody stopped, has echoed all that was received.
Echoes ==
  /\ rxOpen /\ ~panicked => delivered = echoed \o msg \o rx
  /\ app = "gone" /\ ~panicked /\ ~stopped => echoed = received

\* What makes it inductive: a model is on its way while the application is in a send, the
\* task leaves its loop for a reason, and the Client found nothing ill-formed.
MsgSending ==
  /\ client # "error"
  /\ app \in {"sendWait", "sending"} <=> msg # <<>>
  /\ msg # <<>> => ~panicked
  /\ ~rxOpen => app = "gone"
  /\ app \in {"dropping", "gone"} /\ ~panicked => ~ReceiverOpen /\ rx = <<>>

\* The inductive invariant of the example, on top of that of a Client.
EchoInv == EchoTypeOK /\ MsgSending /\ Echoes

\* Every model delivered is echoed, also when its Client is over by then, unless a send
\* fails, or the worker is blocked in the answer to an end the connection reported.
Answered ==
  \A n \in 1 .. MaxItems :
    (Len(delivered) >= n) ~> (Len(echoed) >= n \/ panicked \/ (frozen /\ told # "Normal"))

\* The end of the connection, or the cancellation of the Client, is enough for everything
\* to be released: each task hears of it from the one below, and the example keeps
\* nothing alive by itself.  Only a close that blocks the worker may stop that.
EchoReleased ==
  (task # "running" \/ stopped) ~>
    \/ /\ task # "running" /\ frame # "unsent"
       /\ ~ReceiverOpen /\ reactor = "done"
       /\ app = "gone" /\ ~rxOpen
    \/ frozen
=============================================================================
