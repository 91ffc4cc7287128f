---------------------------- MODULE MCLogModule ----------------------------
(***************************************************************************)
(* LogModule for TLC.                                                       *)
(***************************************************************************)
EXTENDS LogModule
=============================================================================
