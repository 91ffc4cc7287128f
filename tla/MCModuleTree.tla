---------------------------- MODULE MCModuleTree ----------------------------
(***************************************************************************)
(* ModuleTree for TLC: a program with two modules and a container of one    *)
(* more between them.  The container overrides the phases after resolve.    *)
(***************************************************************************)
EXTENDS ModuleTree, TLC

CONSTANTS root, box, a, b, c, x, s

Deps == (root :> <<a, box, b>>) @@ (box :> <<c>>)
Virtual == ({a, b, c, x, s} \X (DOMAIN Phases)) \cup ({box} \X (3..7))
=============================================================================
