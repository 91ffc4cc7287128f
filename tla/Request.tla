------------------------------- MODULE Request -------------------------------
(***************************************************************************)
(* A Request between the thread that schedules it and waits for it, the    *)
(* worker that executes it and the thread that completes it later when the *)
(* module keeps it on a queue (common/di/request.cpp, lines 47-105).       *)
(*                                                                         *)
(* mod_get_lock maps every request to a lock of its module.  The model has *)
(* one such lock, mtx, which all requests share.  rq_mod and rq_cv are     *)
(* pointers: TRUE stands for one that is not null.                         *)
(***************************************************************************)
EXTENDS Naturals

CONSTANTS
    Requests,       \* the requests, each with a waiter of its own
    BarrierReqs,    \* those passed to schedule_barrier
    KeptReqs        \* those mod_exec may put on a queue of the module

ASSUME RequestAssumption ==
    BarrierReqs \subseteq Requests /\ KeptReqs \subseteq Requests

(* The threads that call req_done.                                          *)
Doers == {"worker", "completion"}

VARIABLES
    rq_mod,
    rq_done_flgs,   \* the flags complete and barrier; waiting is {}
    rq_cv,
    link,           \* the list a request is chained to
    cpc,            \* where a request's caller is
    dpc,            \* where a request's worker and completion thread are
    mtx,            \* who holds the module's lock inside req_done
    handled,        \* calls of mod_exec
    notified        \* calls of req_done_notif

vars == <<rq_mod, rq_done_flgs, rq_cv, link, cpc, dpc, mtx, handled, notified>>

Free == <<>>

-----------------------------------------------------------------------------
(* rq_mod is null, or set by req_reset.                                     *)
Init ==
    /\ rq_mod \in [Requests -> BOOLEAN]
    /\ rq_done_flgs = [r \in Requests |-> {}]
    /\ rq_cv = [r \in Requests |-> FALSE]
    /\ link = [r \in Requests |-> "none"]
    /\ cpc = [r \in Requests |-> "init"]
    /\ dpc = [r \in Requests |-> [t \in Doers |-> "idle"]]
    /\ mtx = Free
    /\ handled = [r \in Requests |-> 0]
    /\ notified = [r \in Requests |-> 0]

Aborted ==
    \E r \in Requests : cpc[r] = "abort" \/ \E t \in Doers : dpc[r][t] = "abort"

-----------------------------------------------------------------------------
(* The caller.                                                              *)

(* The request goes to the pool, with its module set and flags added.       *)
Submit(r, flags, sets) ==
    /\ ~Aborted
    /\ cpc[r] = "init"
    /\ cpc' = [cpc EXCEPT ![r] = "wait"]
    /\ link' = [link EXCEPT ![r] = "pool"]
    /\ rq_mod' = [rq_mod EXCEPT ![r] = IF sets THEN TRUE ELSE @]
    /\ rq_done_flgs' = [rq_done_flgs EXCEPT ![r] = @ \cup flags]
    /\ UNCHANGED <<rq_cv, dpc, mtx, handled, notified>>

(* Mutant: the module is not recorded.                                      *)
schedule_no_mod(r) == r \notin BarrierReqs /\ Submit(r, {}, FALSE)

schedule(r) == r \notin BarrierReqs /\ Submit(r, {}, TRUE)

(* While other requests are active; otherwise it is schedule.               *)
schedule_barrier_deferred(r) ==
    r \in BarrierReqs /\ Submit(r, {"barrier"}, FALSE)

schedule_barrier_regular(r) == r \in BarrierReqs /\ Submit(r, {}, TRUE)

CallerStep(r, from, to) ==
    /\ ~Aborted
    /\ cpc[r] = from
    /\ cpc' = [cpc EXCEPT ![r] = to]
    /\ UNCHANGED <<rq_mod, rq_done_flgs, link, dpc, mtx, handled, notified>>

(* req_wait, line 54.                                                       *)
wait_enter(r) ==
    /\ CallerStep(r, "wait", IF rq_mod[r] /\ ~rq_cv[r] THEN "test" ELSE "abort")
    /\ UNCHANGED rq_cv

(* Mutant: the caller leaves without waiting.                               *)
NeverWaits(r) == FALSE

(* The condition of the loop of req_wait.                                   *)
Waits(r) == rq_done_flgs[r] = {}

(* req_wait, lines 59-64: with the lock, wait or leave.                     *)
wait_test(r) ==
    /\ mtx = Free
    /\ CallerStep(r, "test", IF Waits(r) THEN "sleep" ELSE "clear")
    /\ rq_cv' = [rq_cv EXCEPT ![r] = IF Waits(r) THEN TRUE ELSE @]

spurious_wakeup(r) ==
    /\ CallerStep(r, "sleep", "test")
    /\ UNCHANGED rq_cv

(* req_wait, line 65: after the lock is released.                           *)
wait_clear(r) ==
    /\ CallerStep(r, "clear", "returned")
    /\ rq_cv' = [rq_cv EXCEPT ![r] = FALSE]

-----------------------------------------------------------------------------
(* The worker, and the thread that completes a request the module kept.     *)

DoerStep(r, t, from, to) ==
    /\ ~Aborted
    /\ dpc[r][t] = from
    /\ dpc' = [dpc EXCEPT ![r][t] = to]
    /\ UNCHANGED <<rq_mod, rq_cv>>

(* The pool hands the request to a worker.                                  *)
worker_dequeue(r) ==
    /\ link[r] = "pool"
    /\ DoerStep(r, "worker", "idle", "exec")
    /\ link' = [link EXCEPT ![r] = "none"]
    /\ UNCHANGED <<rq_done_flgs, cpc, mtx, handled, notified>>

(* Request::req_exec_task, lines 97-101: mod_exec handles the request, or   *)
(* calls Module::mod_exec to keep it on a queue.                            *)
exec_mod(r) ==
    /\ DoerStep(r, "worker", "exec", "check")
    /\ IF rq_mod[r]
       THEN /\ handled' = [handled EXCEPT ![r] = @ + 1]
            /\ \/ UNCHANGED link
               \/ r \in KeptReqs /\ link' = [link EXCEPT ![r] = "module"]
       ELSE UNCHANGED <<link, handled>>
    /\ UNCHANGED <<rq_done_flgs, cpc, mtx, notified>>

(* Request::req_exec_task, lines 102-103.                                   *)
exec_check(r) ==
    /\ DoerStep(r, "worker", "check", IF link[r] = "none" THEN "done" ELSE "idle")
    /\ UNCHANGED <<rq_done_flgs, link, cpc, mtx, handled, notified>>

(* The module takes a request it kept off its queue, to complete it.        *)
completion_dequeue(r) ==
    /\ link[r] = "module"
    /\ DoerStep(r, "completion", "idle", "done")
    /\ link' = [link EXCEPT ![r] = "none"]
    /\ UNCHANGED <<rq_done_flgs, cpc, mtx, handled, notified>>

(* req_done, lines 75-80, up to the test of rq_cv.                          *)
Complete(r, t, flags) ==
    /\ IF rq_mod[r]
       THEN /\ mtx = Free
            /\ mtx' = <<r, t>>
            /\ rq_done_flgs' = [rq_done_flgs EXCEPT ![r] = flags]
            /\ DoerStep(r, t, "done", IF rq_cv[r] THEN "signal" ELSE "tail")
       ELSE /\ DoerStep(r, t, "done", "tail")
            /\ UNCHANGED <<mtx, rq_done_flgs>>
    /\ UNCHANGED <<link, cpc, handled, notified>>

(* Mutants: an undefined flag is set; rq_cv is tested without the lock.     *)
done_other_flag(r, t) == Complete(r, t, {"complete", "aborted"})
done_nolock(r, t) ==
    /\ DoerStep(r, t, "done", IF rq_cv[r] THEN "signal" ELSE "tail")
    /\ rq_done_flgs' = [rq_done_flgs EXCEPT ![r] = {"complete"}]
    /\ UNCHANGED <<link, cpc, mtx, handled, notified>>

done_set(r, t) == Complete(r, t, {"complete"})

(* Mutant: the signal is skipped.                                           *)
signal_skipped(r, t) ==
    /\ DoerStep(r, t, "signal", "tail")
    /\ UNCHANGED <<cpc, rq_done_flgs, link, mtx, handled, notified>>

(* req_done, line 81.                                                       *)
done_signal(r, t) ==
    /\ DoerStep(r, t, "signal", "tail")
    /\ cpc' = [cpc EXCEPT ![r] = IF @ = "sleep" THEN "test" ELSE @]
    /\ UNCHANGED <<rq_done_flgs, link, mtx, handled, notified>>

(* Mutant: the request is completed a second time.                          *)
done_again(r, t) ==
    /\ DoerStep(r, t, "tail", IF notified[r] = 0 THEN "done" ELSE "idle")
    /\ mtx' = Free
    /\ notified' = [notified EXCEPT ![r] = @ + 1]
    /\ UNCHANGED <<rq_done_flgs, link, cpc, handled>>

(* req_done, lines 83-86.                                                   *)
done_tail(r, t) ==
    /\ DoerStep(r, t, "tail", IF link[r] = "none" THEN "idle" ELSE "abort")
    /\ mtx' = IF mtx = <<r, t>> THEN Free ELSE mtx
    /\ notified' = [notified EXCEPT ![r] = @ + (IF link[r] = "none" THEN 1 ELSE 0)]
    /\ UNCHANGED <<rq_done_flgs, link, cpc, handled>>

-----------------------------------------------------------------------------

Scheduled(r) ==
    schedule(r) \/ schedule_barrier_deferred(r) \/ schedule_barrier_regular(r)

Waiter(r) == wait_enter(r) \/ wait_test(r) \/ wait_clear(r)

Worker(r) == worker_dequeue(r) \/ exec_mod(r) \/ exec_check(r)

Done(r, t) == done_set(r, t) \/ done_signal(r, t) \/ done_tail(r, t)

Next ==
    \E r \in Requests :
        \/ Scheduled(r) \/ Waiter(r) \/ spurious_wakeup(r)
        \/ Worker(r) \/ completion_dequeue(r)
        \/ \E t \in Doers : Done(r, t)

Spec == Init /\ [][Next]_vars

(* Every thread that can run does, and the module completes what it keeps.  *)
Fairness ==
    \A r \in Requests :
        /\ WF_vars(Waiter(r))
        /\ WF_vars(Worker(r))
        /\ WF_vars(completion_dequeue(r))
        /\ \A t \in Doers : WF_vars(Done(r, t))

FairSpec == Spec /\ Fairness

-----------------------------------------------------------------------------
(* Properties.                                                              *)

TypeOK ==
    /\ rq_mod \in [Requests -> BOOLEAN]
    /\ rq_done_flgs \in [Requests -> SUBSET {"complete", "barrier"}]
    /\ rq_cv \in [Requests -> BOOLEAN]
    /\ link \in [Requests -> {"none", "pool", "module"}]
    /\ cpc \in [Requests -> {"init", "wait", "test", "sleep", "clear",
                             "returned", "abort"}]
    /\ dpc \in [Requests -> [Doers -> {"idle", "exec", "check", "done", "signal",
                                       "tail", "abort"}]]
    /\ handled \in [Requests -> Nat]
    /\ notified \in [Requests -> Nat]

(* "Block the caller until req_done() is called" (request.h, line 69): who  *)
(* leaves the loop of req_wait finds a request that req_done has completed. *)
(* A barrier is not meant: schedule_barrier sets a flag that ends the loop. *)
AwaitsDone(r) ==
    cpc[r] \in {"clear", "returned"} => "complete" \in rq_done_flgs[r]

WaitsForDone == \A r \in Requests \ BarrierReqs : AwaitsDone(r)

CompletedOnce(r) ==
    /\ notified[r] <= 1
    /\ \A t \in Doers :
          dpc[r][t] \in {"done", "signal", "tail"} => notified[r] = 0

(* A request that mod_exec does not keep is completed once, whatever its    *)
(* way through the pool (lines 97-103).                                     *)
DoneOnce == \A r \in Requests \ KeptReqs : CompletedOnce(r)

(* The condition variable req_done signals is one of a frame of req_wait    *)
(* that is still waiting on it: line 65 clears rq_cv without the lock.      *)
SignalInScope ==
    \A r \in Requests \ KeptReqs : \A t \in Doers :
        dpc[r][t] = "signal" => rq_cv[r] /\ cpc[r] \in {"sleep", "test"}

(* A request scheduled for a module is handled by it before it is done,     *)
(* also when the module keeps it for a while (lines 99-103).                *)
HandledFirst ==
    \A r \in Requests \ BarrierReqs :
        notified[r] > 0 \/ (\E t \in Doers : dpc[r][t] = "done") => handled[r] = 1

(* Who waits for a request gets it back.                                    *)
WaitReturns ==
    \A r \in Requests : cpc[r] = "wait" ~> (cpc[r] = "returned" \/ Aborted)
=============================================================================
