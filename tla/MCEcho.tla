------------------------------- MODULE MCEcho -------------------------------
(***************************************************************************)
(* Small instances of the example for TLC.                                 *)
(***************************************************************************)
EXTENDS EchoProperties

AllEnds == {"fail", "depart", "leave", "lose"}
=============================================================================
