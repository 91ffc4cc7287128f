------------------------------- MODULE MCDHash -------------------------------
(***************************************************************************)
(* DHash for TLC: two elements with the same key, two that share a chain    *)
(* until the table is rebuilt, and a key that no element has.               *)
(***************************************************************************)
EXTENDS DHash, TLC

CONSTANTS e1, e2, e3, e4, a, b, c, d

KeyOf == (e1 :> a) @@ (e2 :> a) @@ (e3 :> b) @@ (e4 :> c)
Hash == (a :> 0) @@ (b :> 3) @@ (c :> 1) @@ (d :> 0)
=============================================================================
