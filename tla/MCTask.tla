------------------------------- MODULE MCTask -------------------------------
(***************************************************************************)
(* Task for TLC.  Submitters are interchangeable, and so are workers.      *)
(***************************************************************************)
EXTENDS Task, TLC

Symmetry == Permutations(Submitters) \cup Permutations(Workers)
=============================================================================
