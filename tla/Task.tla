-------------------------------- MODULE Task --------------------------------
(***************************************************************************)
(* Task: the light-weight request of include/di/request.h that any number  *)
(* of threads submit and a thread pool runs.  Submissions are coalesced:   *)
(* tsk_pend counts the submissions that no pass of task_handler has paid   *)
(* for yet, the submission that finds it at zero hands the task to the     *)
(* pool, and req_exec_task repeats the handler until one pass has paid for *)
(* every submission.  The atomic operations on tsk_pend are the only       *)
(* synchronisation, so each of them is a step of its own.                  *)
(***************************************************************************)
EXTENDS Naturals

CONSTANTS
    Submitters,     \* threads that call task_submit
    Workers,        \* threads of the pool that may run the task
    MaxSubmit       \* bound on the number of task_submit calls

ASSUME MaxSubmitAssumption == MaxSubmit \in Nat

VARIABLES
    tsk_pend,       \* the atomic counter of the task
    chained,        \* obj_is_chained(): the task is on a queue of the pool
    spc,            \* where each submitter is in task_submit
    wpc,            \* where each worker is in req_exec_task
    pending,        \* each worker's local variable of that name
    loop,           \* each worker's local variable of that name
    submits,        \* number of task_submit calls so far
    unserved        \* submissions that no handler pass started after

vars == <<tsk_pend, chained, spc, wpc, pending, loop, submits, unserved>>

-----------------------------------------------------------------------------

Init ==
    /\ tsk_pend = 0
    /\ chained = FALSE
    /\ spc = [s \in Submitters |-> "idle"]
    /\ wpc = [w \in Workers |-> "idle"]
    /\ pending = [w \in Workers |-> 0]
    /\ loop = [w \in Workers |-> 0]
    /\ submits = 0
    /\ unserved = 0

(* A submission is counted; the thread goes on to schedule the task iff     *)
(* schedules holds.                                                        *)
Submit(s, schedules) ==
    /\ spc[s] = "idle"
    /\ submits < MaxSubmit
    /\ submits' = submits + 1
    /\ unserved' = unserved + 1
    /\ tsk_pend' = tsk_pend + 1
    /\ spc' = [spc EXCEPT ![s] = IF schedules THEN "schedule" ELSE "idle"]
    /\ UNCHANGED <<chained, wpc, pending, loop>>

(* Mutant: every submission schedules the task.                             *)
submit_always(s) == Submit(s, TRUE)

(* task_submit, line 114: only the thread that moved the counter off zero   *)
(* goes on to schedule the task.                                           *)
task_submit_add(s) == Submit(s, tsk_pend = 0)

(* task_submit, lines 115-116: ThreadPool::schedule chains the task.        *)
task_submit_schedule(s) ==
    /\ spc[s] = "schedule"
    /\ chained' = TRUE
    /\ spc' = [spc EXCEPT ![s] = "idle"]
    /\ UNCHANGED <<tsk_pend, wpc, pending, loop, submits, unserved>>

(* The pool takes the task off its queue and calls req_exec_task.           *)
worker_dequeue(w) ==
    /\ wpc[w] = "idle"
    /\ chained
    /\ chained' = FALSE
    /\ wpc' = [wpc EXCEPT ![w] = "load"]
    /\ loop' = [loop EXCEPT ![w] = 0]
    /\ UNCHANGED <<tsk_pend, spc, pending, submits, unserved>>

(* req_exec_task, lines 129-130.                                            *)
exec_load(w) ==
    /\ wpc[w] = "load"
    /\ pending' = [pending EXCEPT ![w] = tsk_pend]
    /\ wpc' = [wpc EXCEPT ![w] = "handler"]
    /\ UNCHANGED <<tsk_pend, chained, spc, loop, submits, unserved>>

(* req_exec_task, lines 131-134: the handler sees the effect of every       *)
(* submission made before it started.                                      *)
exec_handler(w) ==
    /\ wpc[w] = "handler"
    /\ unserved' = 0
    /\ loop' = [loop EXCEPT ![w] = @ + 1]
    /\ wpc' = [wpc EXCEPT ![w] = "sub"]
    /\ UNCHANGED <<tsk_pend, chained, spc, pending, submits>>

(* The end of a pass: the counter becomes pend, and the worker leaves the   *)
(* loop iff leaves holds.                                                  *)
EndPass(w, pend, leaves) ==
    /\ wpc[w] = "sub"
    /\ tsk_pend' = pend
    /\ wpc' = [wpc EXCEPT ![w] = IF leaves THEN "idle" ELSE "load"]
    /\ UNCHANGED <<chained, spc, pending, loop, submits, unserved>>

(* Mutants: the pass pays for one submission too many; the counter is       *)
(* cleared instead of reduced.                                              *)
sub_too_many(w) == EndPass(w, tsk_pend - pending[w] - 1, tsk_pend = pending[w])
sub_clears(w) == EndPass(w, 0, TRUE)

(* req_exec_task, line 135: leave when this pass paid for every submission. *)
exec_sub(w) == EndPass(w, tsk_pend - pending[w], tsk_pend = pending[w])

Next ==
    \/ \E s \in Submitters : task_submit_add(s) \/ task_submit_schedule(s)
    \/ \E w \in Workers : \/ worker_dequeue(w)
                          \/ exec_load(w)
                          \/ exec_handler(w)
                          \/ exec_sub(w)

Spec == Init /\ [][Next]_vars

(* A thread inside task_submit or req_exec_task is running code, and the    *)
(* pool has a worker for every request it holds; no thread has to submit.   *)
Fairness ==
    /\ \A s \in Submitters : WF_vars(task_submit_schedule(s))
    /\ WF_vars(\E w \in Workers : worker_dequeue(w))
    /\ \A w \in Workers : WF_vars(exec_load(w) \/ exec_handler(w) \/ exec_sub(w))

FairSpec == Spec /\ Fairness

-----------------------------------------------------------------------------

TypeOK ==
    /\ tsk_pend \in Nat
    /\ chained \in BOOLEAN
    /\ spc \in [Submitters -> {"idle", "schedule"}]
    /\ wpc \in [Workers -> {"idle", "load", "handler", "sub"}]
    /\ pending \in [Workers -> Nat]
    /\ loop \in [Workers -> Nat]
    /\ submits \in Nat
    /\ unserved \in Nat

Running(w) == wpc[w] # "idle"

(* The task has one owner: a submitter about to schedule it, the pool's     *)
(* queue or one worker.  task_handler is therefore never run by two workers *)
(* at once, though no lock protects it.                                     *)
OneOwner ==
    /\ \A s, t \in Submitters :
          spc[s] = "schedule" /\ spc[t] = "schedule" => s = t
    /\ \A v, w \in Workers : Running(v) /\ Running(w) => v = w
    /\ \A s \in Submitters, w \in Workers :
          ~(spc[s] = "schedule" /\ Running(w))
    /\ chained => /\ \A s \in Submitters : spc[s] # "schedule"
                  /\ \A w \in Workers : ~Running(w)

(* The assertions of task_submit (line 115, the task is not chained) and of *)
(* req_exec_task (line 130, pending > 0) never fail.                        *)
AssertsHold ==
    /\ \A s \in Submitters : spc[s] = "schedule" => ~chained
    /\ \A w \in Workers :
          /\ wpc[w] = "load" => tsk_pend > 0
          /\ wpc[w] \in {"handler", "sub"} => pending[w] > 0

(* A submission that no handler pass has seen keeps the task owned, and a   *)
(* worker past its load that owns such a task will go round again.          *)
NoLostSubmit ==
    unserved > 0 =>
        \/ chained
        \/ \E s \in Submitters : spc[s] = "schedule"
        \/ \E w \in Workers : \/ wpc[w] \in {"load", "handler"}
                              \/ wpc[w] = "sub" /\ tsk_pend # pending[w]

(* The loop of req_exec_task goes round at most once per submission: the    *)
(* assertion loop < 1000 of line 134 can only fail after 1000 submissions.  *)
LoopBounded ==
    \A w \in Workers : loop[w] <= submits

(* Every submission is followed by a handler pass that starts after it.     *)
SubmitServed == unserved > 0 ~> unserved = 0
=============================================================================
