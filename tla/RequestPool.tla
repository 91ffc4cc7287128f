----------------------------- MODULE RequestPool -----------------------------
(***************************************************************************)
(* What the thread pool promises the threads that schedule requests on it  *)
(* (include/di/request.h): a request the pool has taken is executed once,  *)
(* and a barrier it has deferred starts after every request taken before   *)
(* it is done and before any request taken later starts.  How requests     *)
(* reach a thread is left open.                                            *)
(***************************************************************************)

CONSTANT Requests

VARIABLES
    status,         \* how far a request has come
    deferred,       \* the requests that act as barriers
    behind          \* for such a request, those taken before it

vars == <<status, deferred, behind>>

Init ==
    /\ status = [r \in Requests |-> "new"]
    /\ deferred = {}
    /\ behind = [r \in Requests |-> {}]

(* The pool takes a request.                                                *)
Accept(r) ==
    /\ status[r] = "new"
    /\ status' = [status EXCEPT ![r] = "accepted"]
    /\ UNCHANGED <<deferred, behind>>

(* The pool takes a barrier while other requests are active.                *)
Defer(r) ==
    /\ status[r] = "new"
    /\ status' = [status EXCEPT ![r] = "accepted"]
    /\ deferred' = deferred \cup {r}
    /\ behind' = [behind EXCEPT ![r] = {x \in Requests : status[x] # "new"}]

(* No barrier keeps r from running.                                         *)
InTurn(r) ==
    /\ r \in deferred => \A x \in behind[r] : status[x] = "done"
    /\ \A b \in deferred \ {r} :
          r \notin behind[b] => status[b] \in {"running", "done"}

(* A worker starts r, or its caller runs it before schedule returns.        *)
Start(r) ==
    /\ status[r] = "accepted"
    /\ InTurn(r)
    /\ status' = [status EXCEPT ![r] = "running"]
    /\ UNCHANGED <<deferred, behind>>

RunInline(r) ==
    /\ status[r] = "accepted"
    /\ InTurn(r)
    /\ status' = [status EXCEPT ![r] = "done"]
    /\ UNCHANGED <<deferred, behind>>

Finish(r) ==
    /\ status[r] = "running"
    /\ status' = [status EXCEPT ![r] = "done"]
    /\ UNCHANGED <<deferred, behind>>

Next ==
    \E r \in Requests :
        Accept(r) \/ Defer(r) \/ Start(r) \/ RunInline(r) \/ Finish(r)

Spec == Init /\ [][Next]_vars
=============================================================================
