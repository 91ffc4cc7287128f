----------------------------- MODULE MCUserCache -----------------------------
(***************************************************************************)
(* UserCache for TLC: a key of the first user is on the server already.     *)
(***************************************************************************)
EXTENDS UserCache

CONSTANTS u1, u2, u3, v1

FirstKeys == {<<u1, v1>>}
=============================================================================
