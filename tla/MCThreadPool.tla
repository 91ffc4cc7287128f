---------------------------- MODULE MCThreadPool ----------------------------
(***************************************************************************)
(* ThreadPool for TLC.                                                     *)
(***************************************************************************)
EXTENDS ThreadPool, TLC

(* Requests of the same kind are interchangeable.                           *)
Symmetry == Permutations(Requests \ BarrierReqs) \cup Permutations(BarrierReqs)

(* So are workers when mod_init starts all of them.                         *)
WorkerSymmetry == Symmetry \cup Permutations(Workers)
=============================================================================
