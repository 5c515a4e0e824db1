------------------------------ MODULE Session ------------------------------
(***************************************************************************)
(* What a connection promises, without its tasks, lock and channels: a     *)
(* task that ends once and tells the handle why at most once, and a close  *)
(* frame that goes out at most once, and only after a reason to close.  An *)
(* end that was told is never left without one while the peer could still  *)
(* be written to.                                                          *)
(***************************************************************************)
VARIABLES
  task,    \* the cancellable task: "running", then its result
  told,    \* the last status the connection gave to the handle
  handle,  \* the ConnectionHandle: "held", then "released"
  frame    \* our close frame: "unsent", then "sent", or "lost" with the wire, or
           \* "abandoned" with a sink that nobody closed

session == <<task, told, handle, frame>>

Faults == {"ClientSentIllegalData", "Unknown"}
Goodbyes == {"ClientClosedNormally", "ClientClosedWithoutHandshake", "ConnectionTerminated"}

Init ==
  /\ task = "running"
  /\ told = "Normal"
  /\ handle = "held"
  /\ frame = "unsent"

\* The peer broke the protocol, or its stream failed: the task fails.
Fail ==
  /\ task = "running"
  /\ task' = "error"
  /\ told' \in Faults
  /\ frame' = frame \/ (frame = "unsent" /\ frame' = "lost")
  /\ handle' = handle

\* The peer left, or did not answer a ping.
Depart ==
  /\ task = "running"
  /\ task' = "ok"
  /\ told' \in Goodbyes
  /\ frame' = frame \/ (frame = "unsent" /\ frame' = "lost")
  /\ handle' = handle

\* The handle closed the connection, it was cancelled, or nobody wants its items.
Leave ==
  /\ task = "running"
  /\ task' = "ok"
  /\ UNCHANGED <<told, handle, frame>>

Release ==
  /\ handle = "held"
  /\ handle' = "released"
  /\ UNCHANGED <<task, told, frame>>

\* The close frame answers the end that was reported, or the handle's release.
SendFrame ==
  /\ frame = "unsent"
  /\ told # "Normal" \/ handle = "released"
  /\ frame' = "sent"
  /\ UNCHANGED <<task, told, handle>>

Lose ==
  /\ frame = "unsent"
  /\ frame' = "lost"
  /\ UNCHANGED <<task, told, handle>>

\* The task ended without a word, and the last reference to the sink went while the
\* handle was held: who drops the handle closes the sink it finds.
Abandon ==
  /\ frame = "unsent"
  /\ task # "running"
  /\ told = "Normal"
  /\ handle = "held"
  /\ frame' = "abandoned"
  /\ UNCHANGED <<task, told, handle>>

FrameStep == SendFrame \/ Lose \/ Abandon

Next == Fail \/ Depart \/ Leave \/ Release \/ FrameStep

Spec == Init /\ [][Next]_session

-----------------------------------------------------------------------------
(* What the layers above may wait for. *)

\* Releasing the handle ends the task: close() "closes both sending and receiving
\* halves" (client_handle.rs:42), even if the notification of a ping replaces that
\* of the close.
ReleaseEnds == (handle = "released") ~> (task # "running")

\* An end that was told, and a release, settle what becomes of the close frame.
FrameSettles == (handle = "released" \/ told # "Normal") ~> (frame # "unsent")
=============================================================================
