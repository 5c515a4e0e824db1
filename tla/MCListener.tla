----------------------------- MODULE MCListener -----------------------------
(***************************************************************************)
(* Small instances of a Listener for TLC.                                  *)
(***************************************************************************)
EXTENDS ListenerProperties

LeftOrFailed == {"ClientClosedNormally", "Unknown"}
NoReports == {}
=============================================================================
