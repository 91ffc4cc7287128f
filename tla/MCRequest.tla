------------------------------ MODULE MCRequest ------------------------------
(***************************************************************************)
(* Request for TLC.  Every request has a role of its own in these runs, so *)
(* there is no symmetry.                                                   *)
(***************************************************************************)
EXTENDS Request, TLC
=============================================================================
