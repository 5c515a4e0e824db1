---------------------------- MODULE MCConnection ----------------------------
(***************************************************************************)
(* Small instances of a connection for TLC.                                *)
(***************************************************************************)
EXTENDS ConnectionProperties, TLC

Symmetry == Permutations(Payloads)

AllDeeds == Deeds
Silence == {}
Talk == {"binary", "close"}

\* A peer that does not read: a flush that waits for it may wait for ever.
StalledSpec ==
  /\ Spec
  /\ WF_vars(ConnStep) /\ WF_vars(ConnCancelled)
  /\ WF_vars(SharedStatus \/ SharedGone)
  /\ WF_vars(PingTick \/ PingLocked \/ PingNotify)
  /\ WF_vars(OwnerLocked)
  /\ \A c \in Closers : WF_vars(CloserStore(c) \/ CloserClose(c) \/ CloserNotify(c))
  /\ WF_vars(Tick)
=============================================================================
