----------------------------- MODULE MCKeyServer -----------------------------
(***************************************************************************)
(* KeyServer for TLC: two keys of one user are generated and one of them is *)
(* queried.                                                                 *)
(***************************************************************************)
EXTENDS KeyServer, TLC

CONSTANTS g1, g2, q, u, v1, v2

MethodOf == (g1 :> "generate_key") @@ (g2 :> "generate_key") @@ (q :> "query_pub_key")
SlotOf == (g1 :> <<u, v1>>) @@ (g2 :> <<u, v2>>) @@ (q :> <<u, v1>>)
=============================================================================
