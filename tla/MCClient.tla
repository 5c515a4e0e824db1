------------------------------ MODULE MCClient ------------------------------
(***************************************************************************)
(* Small instances of a Client for TLC.                                    *)
(***************************************************************************)
EXTENDS ClientProperties

AllEnds == {"fail", "depart", "leave", "lose"}
NoEnds == {}
=============================================================================
