---------------------------- MODULE Request_proofs ----------------------------
(***************************************************************************)
(* Proofs about Request, for any number of requests.                       *)
(***************************************************************************)
EXTENDS Request, TLAPS

LEMMA InitType == Init => TypeOK
BY DEF Init, TypeOK, Doers

(* The flag barrier is only set for a barrier.                              *)
LEMMA SubmitFlags ==
    ASSUME NEW r \in Requests, Scheduled(r)
    PROVE  \E flags \in SUBSET {"barrier"}, sets \in BOOLEAN :
              /\ r \notin BarrierReqs => flags = {}
              /\ Submit(r, flags, sets)
<1>1. CASE schedule(r)
  BY <1>1, Zenon DEF schedule
<1>2. CASE schedule_barrier_deferred(r)
  <2>1. r \in BarrierReqs /\ Submit(r, {"barrier"}, FALSE)
    BY <1>2 DEF schedule_barrier_deferred
  <2>2. QED
    BY <2>1, Zenon
<1>3. CASE schedule_barrier_regular(r)
  BY <1>3, Zenon DEF schedule_barrier_regular
<1>4. QED
  BY <1>1, <1>2, <1>3 DEF Scheduled

LEMMA StepType == ASSUME TypeOK, [Next]_vars PROVE TypeOK'
<1> USE DEF TypeOK, Doers
<1>1. ASSUME NEW r \in Requests, Scheduled(r) PROVE TypeOK'
  <2>1. PICK flags \in SUBSET {"barrier"}, sets \in BOOLEAN :
           Submit(r, flags, sets)
    BY <1>1, SubmitFlags
  <2>2. rq_mod' \in [Requests -> BOOLEAN]
    BY <2>1 DEF Submit
  <2>3. rq_done_flgs' \in [Requests -> SUBSET {"complete", "barrier"}]
    <3>1. rq_done_flgs[r] \cup flags \in SUBSET {"complete", "barrier"}
      OBVIOUS
    <3>2. rq_done_flgs' = [rq_done_flgs EXCEPT ![r] = @ \cup flags]
      BY <2>1 DEF Submit
    <3>3. QED
      BY <3>1, <3>2
  <2>4. QED
    BY <2>1, <2>2, <2>3 DEF Submit
<1>2. ASSUME NEW r \in Requests, Waiter(r) \/ spurious_wakeup(r) PROVE TypeOK'
  BY <1>2 DEF Waiter, wait_enter, wait_test, wait_clear, spurious_wakeup,
        CallerStep, Waits
<1>3. ASSUME NEW r \in Requests, Worker(r) PROVE TypeOK'
  <2>1. CASE worker_dequeue(r)
    BY <2>1 DEF worker_dequeue, DoerStep
  <2>2. CASE exec_mod(r)
    BY <2>2 DEF exec_mod, DoerStep
  <2>3. CASE exec_check(r)
    BY <2>3 DEF exec_check, DoerStep
  <2>4. QED
    BY <1>3, <2>1, <2>2, <2>3 DEF Worker
<1>4. ASSUME NEW r \in Requests, completion_dequeue(r) PROVE TypeOK'
  BY <1>4 DEF completion_dequeue, DoerStep
<1>5. ASSUME NEW r \in Requests, NEW t \in Doers, Done(r, t) PROVE TypeOK'
  <2>1. CASE done_set(r, t)
    <3>1. CASE rq_mod[r]
      BY <2>1, <3>1, SMTT(60) DEF done_set, Complete, DoerStep
    <3>2. CASE ~rq_mod[r]
      BY <2>1, <3>2, SMTT(60) DEF done_set, Complete, DoerStep
    <3>3. QED
      BY <3>1, <3>2
  <2>2. CASE done_signal(r, t)
    BY <2>2 DEF done_signal, DoerStep
  <2>3. CASE done_tail(r, t)
    BY <2>3 DEF done_tail, DoerStep
  <2>4. QED
    BY <1>5, <2>1, <2>2, <2>3 DEF Done
<1>6. CASE UNCHANGED vars
  BY <1>6 DEF vars
<1>7. QED
  BY <1>1, <1>2, <1>3, <1>4, <1>5, <1>6 DEF Next

(* The state of requests, their callers and their doers has its type, for   *)
(* any requests, barriers and kept requests: in particular no undefined     *)
(* flag is ever set in rq_done_flgs, which req_wait tests as a whole.       *)
THEOREM RequestTypeCorrect == Spec => []TypeOK
BY InitType, StepType, PTL DEF Spec

-----------------------------------------------------------------------------
(* The only flag of a request that is no barrier is complete, so a caller   *)
(* that finds a flag finds that one.                                        *)

OnlyComplete ==
    \A r \in Requests \ BarrierReqs : rq_done_flgs[r] \in {{}, {"complete"}}

WaitInv == TypeOK /\ OnlyComplete /\ WaitsForDone

LEMMA StepWait ==
    ASSUME WaitInv, [Next]_vars PROVE WaitInv'
<1> USE DEF WaitInv, OnlyComplete, WaitsForDone, AwaitsDone, TypeOK
<1>1. ASSUME NEW r \in Requests, Scheduled(r)
      PROVE  OnlyComplete' /\ WaitsForDone'
  <2>1. PICK flags \in SUBSET {"barrier"}, sets \in BOOLEAN :
           (r \notin BarrierReqs => flags = {}) /\ Submit(r, flags, sets)
    BY <1>1, SubmitFlags
  <2>2. \A x \in Requests \ BarrierReqs : rq_done_flgs'[x] = rq_done_flgs[x]
    BY <2>1 DEF Submit
  <2>3. QED
    BY <2>1, <2>2 DEF Submit
<1>2. ASSUME NEW r \in Requests, Waiter(r) \/ spurious_wakeup(r)
      PROVE  OnlyComplete' /\ WaitsForDone'
  BY <1>2, ZenonT(60) DEF Waiter, wait_enter, wait_test, wait_clear, spurious_wakeup,
        CallerStep, Waits
<1>3. ASSUME NEW r \in Requests, Worker(r) \/ completion_dequeue(r)
      PROVE  OnlyComplete' /\ WaitsForDone'
  BY <1>3 DEF Worker, worker_dequeue, exec_mod, exec_check, completion_dequeue
<1>4. ASSUME NEW r \in Requests, NEW t \in Doers, Done(r, t)
      PROVE  OnlyComplete' /\ WaitsForDone'
  BY <1>4, SMTT(60) DEF Done, done_set, done_signal, done_tail, Complete
<1>5. CASE UNCHANGED vars
  BY <1>5 DEF vars
<1>6. TypeOK'
  BY StepType
<1>7. QED
  BY <1>1, <1>2, <1>3, <1>4, <1>5, <1>6 DEF Next

(* "Block the caller until req_done() is called" holds of req_wait, however *)
(* the module completes the request, of every request that is no barrier.   *)
THEOREM WaitBlocksUntilDone == Spec => []WaitsForDone
<1>1. Init => WaitInv
  BY InitType DEF Init, WaitInv, OnlyComplete, WaitsForDone, AwaitsDone
<1>2. WaitInv => WaitsForDone
  BY DEF WaitInv
<1>3. QED
  BY StepWait, <1>1, <1>2, PTL DEF Spec

-----------------------------------------------------------------------------
(* The worker is the only one to complete a request that the module does    *)
(* not keep, once, and it holds the lock from the test of rq_cv to the      *)
(* signal.                                                                  *)

WorkerOnly(r) == link[r] # "module" /\ dpc[r]["completion"] = "idle"

(* Where the request is before the worker completes it.                     *)
Phases(r) ==
    /\ notified[r] \in {0, 1}
    /\ cpc[r] = "init" => link[r] = "none" /\ dpc[r]["worker"] = "idle"
    /\ cpc[r] = "init" \/ link[r] = "pool" =>
          dpc[r]["worker"] = "idle" /\ notified[r] = 0
    /\ dpc[r]["worker"] \in {"exec", "check", "done", "signal", "tail"} =>
          link[r] = "none" /\ notified[r] = 0

(* The flag complete is set by req_done alone.                              *)
CompleteLast(r) ==
    "complete" \in rq_done_flgs[r] =>
        dpc[r]["worker"] \in {"signal", "tail", "abort"} \/ notified[r] = 1

(* A registered condition variable is being waited on until a flag is set.  *)
CvInUse(r) ==
    /\ rq_cv[r] => cpc[r] \in {"sleep", "test", "clear"}
    /\ rq_cv[r] => "barrier" \notin rq_done_flgs[r]
    /\ rq_cv[r] /\ rq_done_flgs[r] = {} => cpc[r] \in {"sleep", "test"}
    /\ dpc[r]["worker"] = "signal" =>
          mtx = <<r, "worker">> /\ rq_cv[r] /\ cpc[r] \in {"sleep", "test"}

Direct(r) == WorkerOnly(r) /\ Phases(r) /\ CompleteLast(r) /\ CvInUse(r)

DoneInv == TypeOK /\ \A r \in Requests \ KeptReqs : Direct(r)

(* A step of request r, by any of its threads.                              *)
StepOf(r) ==
    \/ Scheduled(r) \/ Waiter(r) \/ spurious_wakeup(r)
    \/ Worker(r) \/ completion_dequeue(r)
    \/ \E t \in Doers : Done(r, t)

(* What another request's step leaves alone of x: all of its state, and the *)
(* lock if the worker of x has it.                                          *)
Untouched(x) ==
    /\ rq_done_flgs'[x] = rq_done_flgs[x] /\ rq_cv'[x] = rq_cv[x]
    /\ link'[x] = link[x] /\ cpc'[x] = cpc[x] /\ dpc'[x] = dpc[x]
    /\ notified'[x] = notified[x]
    /\ mtx = <<x, "worker">> => mtx' = mtx

LEMMA StepFrame ==
    ASSUME TypeOK, NEW r \in Requests, StepOf(r), NEW x \in Requests, x # r
    PROVE  Untouched(x)
<1> USE DEF TypeOK, Doers, Untouched
<1>1. CASE Scheduled(r)
  <2>1. PICK flags \in SUBSET {"barrier"}, sets \in BOOLEAN : Submit(r, flags, sets)
    BY <1>1, SubmitFlags
  <2>2. QED
    BY <2>1 DEF Submit
<1>2. CASE Waiter(r) \/ spurious_wakeup(r)
  BY <1>2 DEF Waiter, wait_enter, wait_test, wait_clear, spurious_wakeup, CallerStep
<1>3. CASE Worker(r) \/ completion_dequeue(r)
  BY <1>3 DEF Worker, worker_dequeue, exec_mod, exec_check, completion_dequeue,
        DoerStep
<1>4. ASSUME NEW t \in Doers, Done(r, t) PROVE Untouched(x)
  <2>1. CASE done_set(r, t)
    BY <2>1 DEF done_set, Complete, DoerStep, Free
  <2>2. CASE done_signal(r, t)
    BY <2>2 DEF done_signal, DoerStep
  <2>3. CASE done_tail(r, t)
    BY <2>3 DEF done_tail, DoerStep
  <2>4. QED
    BY <1>4, <2>1, <2>2, <2>3 DEF Done
<1>5. QED
  BY <1>1, <1>2, <1>3, <1>4 DEF StepOf

(* A request's own steps keep its invariant.                                *)
LEMMA StepDirect ==
    ASSUME TypeOK, NEW r \in Requests \ KeptReqs, StepOf(r), Direct(r)
    PROVE  Direct(r)'
<1> USE DEF Direct, WorkerOnly, Phases, CompleteLast, CvInUse, TypeOK, Doers
<1>1. CASE Scheduled(r)
  <2>1. PICK flags \in SUBSET {"barrier"}, sets \in BOOLEAN : Submit(r, flags, sets)
    BY <1>1, SubmitFlags
  <2>2. cpc[r] = "init" /\ ~rq_cv[r]
    BY <2>1 DEF Submit
  <2>3. QED
    BY <2>1, <2>2 DEF Submit
<1>2. CASE wait_enter(r) \/ spurious_wakeup(r)
  BY <1>2 DEF wait_enter, spurious_wakeup, CallerStep
<1>3. CASE wait_test(r)
  BY <1>3 DEF wait_test, CallerStep, Waits, Free
<1>4. CASE wait_clear(r)
  BY <1>4 DEF wait_clear, CallerStep
<1>5. CASE worker_dequeue(r)
  BY <1>5 DEF worker_dequeue, DoerStep
<1>6. CASE exec_mod(r)
  BY <1>6 DEF exec_mod, DoerStep
<1>7. CASE exec_check(r)
  BY <1>7 DEF exec_check, DoerStep
<1>8. CASE completion_dequeue(r)
  BY <1>8 DEF completion_dequeue
<1>9. ASSUME NEW t \in Doers, done_set(r, t) PROVE Direct(r)'
  <2>1. t = "worker" /\ dpc[r]["worker"] = "done"
    BY <1>9 DEF done_set, Complete, DoerStep
  <2>2. "complete" \notin rq_done_flgs[r]
    BY <2>1
  <2>3. rq_cv[r] => cpc[r] \in {"sleep", "test"}
    <3>1. rq_cv[r] => rq_done_flgs[r] = {}
      BY <2>2
    <3>2. QED
      BY <3>1
  <2>4. CASE rq_mod[r]
    BY <1>9, <2>1, <2>3, <2>4 DEF done_set, Complete, DoerStep
  <2>5. CASE ~rq_mod[r]
    BY <1>9, <2>1, <2>2, <2>5 DEF done_set, Complete, DoerStep
  <2>6. QED
    BY <2>4, <2>5
<1>10. ASSUME NEW t \in Doers, done_signal(r, t) PROVE Direct(r)'
  BY <1>10 DEF done_signal, DoerStep
<1>11. ASSUME NEW t \in Doers, done_tail(r, t) PROVE Direct(r)'
  BY <1>11 DEF done_tail, DoerStep
<1>12. QED
  BY <1>1, <1>2, <1>3, <1>4, <1>5, <1>6, <1>7, <1>8, <1>9, <1>10, <1>11
  DEF StepOf, Waiter, Worker, Done

LEMMA StepDone == ASSUME DoneInv, [Next]_vars PROVE DoneInv'
<1>1. TypeOK'
  BY StepType DEF DoneInv
<1>2. ASSUME NEW x \in Requests \ KeptReqs PROVE Direct(x)'
  <2>1. TypeOK /\ Direct(x)
    BY DEF DoneInv
  <2>2. ASSUME NEW r \in Requests, StepOf(r) PROVE Direct(x)'
    <3>1. CASE x = r
      BY <2>1, <2>2, <3>1, StepDirect
    <3>2. CASE x # r
      <4>1. Untouched(x)
        BY <2>1, <2>2, <3>2, StepFrame
      <4>2. QED
        BY <2>1, <4>1
        DEF Untouched, Direct, WorkerOnly, Phases, CompleteLast, CvInUse
    <3>3. QED
      BY <3>1, <3>2
  <2>3. CASE UNCHANGED vars
    BY <2>1, <2>3 DEF vars, Direct, WorkerOnly, Phases, CompleteLast, CvInUse
  <2>4. QED
    BY <2>2, <2>3 DEF Next, StepOf
<1>3. QED
  BY <1>1, <1>2 DEF DoneInv

LEMMA InitDone == Init => DoneInv
BY InitType DEF Init, DoneInv, Direct, WorkerOnly, Phases, CompleteLast, CvInUse,
   Doers

(* A request the module does not keep is completed, and its waiter          *)
(* signalled, once, whatever becomes of the requests it does keep.          *)
THEOREM DirectDoneOnce == Spec => []DoneOnce
<1>1. DoneInv => DoneOnce
  <2> SUFFICES ASSUME DoneInv, NEW r \in Requests \ KeptReqs
               PROVE  CompletedOnce(r)
    BY DEF DoneOnce
  <2>1. Direct(r)
    BY DEF DoneInv
  <2>2. notified[r] <= 1
    BY <2>1 DEF Direct, Phases
  <2>3. QED
    BY <2>1, <2>2 DEF CompletedOnce, Direct, WorkerOnly, Phases, Doers
<1>2. QED
  BY InitDone, StepDone, <1>1, PTL DEF Spec

(* req_done never signals the condition variable of a call of req_wait that *)
(* has returned, though that call clears rq_cv without the lock.            *)
THEOREM SignalsInScope == Spec => []SignalInScope
<1>1. DoneInv => SignalInScope
  BY DEF DoneInv, Direct, WorkerOnly, CvInUse, SignalInScope, Doers
<1>2. QED
  BY InitDone, StepDone, <1>1, PTL DEF Spec

-----------------------------------------------------------------------------
(* mod_exec is called once, on the way from the pool's queue to the check   *)
(* of line 102; nothing completes the request before that.                  *)

Unhandled(r) == cpc[r] = "init" \/ link[r] = "pool" \/ dpc[r]["worker"] = "exec"

HandleInv(r) ==
    /\ handled[r] = IF Unhandled(r) THEN 0 ELSE 1
    /\ Unhandled(r) =>
          /\ notified[r] = 0 /\ link[r] # "module"
          /\ dpc[r]["completion"] = "idle" /\ dpc[r]["worker"] \in {"idle", "exec"}
    /\ cpc[r] = "init" => link[r] = "none" /\ dpc[r]["worker"] = "idle"
    /\ link[r] = "pool" => dpc[r]["worker"] = "idle"
    /\ cpc[r] # "init" => rq_mod[r]

HandledInv == TypeOK /\ \A r \in Requests \ BarrierReqs : HandleInv(r)

(* A step of another request does not change what HandleInv is about.       *)
LEMMA HandleFrame ==
    ASSUME TypeOK, NEW r \in Requests, StepOf(r), NEW x \in Requests, x # r,
           HandleInv(x)
    PROVE  HandleInv(x)'
<1>1. Untouched(x)
  BY StepFrame
<1>2. rq_mod'[x] = rq_mod[x] /\ handled'[x] = handled[x]
  <2> USE DEF TypeOK
  <2>1. CASE Scheduled(r)
    <3>1. PICK flags \in SUBSET {"barrier"}, sets \in BOOLEAN : Submit(r, flags, sets)
      BY <2>1, SubmitFlags
    <3>2. QED
      BY <3>1 DEF Submit
  <2>2. CASE ~Scheduled(r)
    BY <2>2 DEF StepOf, Waiter, wait_enter, wait_test, wait_clear, spurious_wakeup,
          CallerStep, Worker, worker_dequeue, exec_mod, exec_check,
          completion_dequeue, Done, done_set, done_signal, done_tail, Complete,
          DoerStep
  <2>3. QED
    BY <2>1, <2>2
<1>3. QED
  BY <1>1, <1>2 DEF Untouched, HandleInv, Unhandled

LEMMA StepHandle ==
    ASSUME TypeOK, NEW r \in Requests \ BarrierReqs, StepOf(r), HandleInv(r)
    PROVE  HandleInv(r)'
<1> USE DEF HandleInv, Unhandled, TypeOK, Doers
<1>1. CASE Scheduled(r)
  BY <1>1 DEF Scheduled, schedule, schedule_barrier_deferred,
        schedule_barrier_regular, Submit
<1>2. CASE Waiter(r) \/ spurious_wakeup(r)
  BY <1>2 DEF Waiter, wait_enter, wait_test, wait_clear, spurious_wakeup, CallerStep
<1>3. CASE worker_dequeue(r)
  BY <1>3 DEF worker_dequeue, DoerStep
<1>4. CASE exec_mod(r)
  BY <1>4 DEF exec_mod, DoerStep
<1>5. CASE exec_check(r)
  BY <1>5 DEF exec_check, DoerStep
<1>6. CASE completion_dequeue(r)
  BY <1>6 DEF completion_dequeue, DoerStep
<1>7. ASSUME NEW t \in Doers, done_set(r, t) PROVE HandleInv(r)'
  BY <1>7 DEF done_set, Complete, DoerStep
<1>8. ASSUME NEW t \in Doers, done_signal(r, t) PROVE HandleInv(r)'
  BY <1>8 DEF done_signal, DoerStep
<1>9. ASSUME NEW t \in Doers, done_tail(r, t) PROVE HandleInv(r)'
  BY <1>9 DEF done_tail, DoerStep
<1>10. QED
  BY <1>1, <1>2, <1>3, <1>4, <1>5, <1>6, <1>7, <1>8, <1>9
  DEF StepOf, Worker, Done

(* A request passed to schedule is handled by its module, once, before it   *)
(* is completed by the worker or by the module's completion thread.         *)
THEOREM HandledBeforeDone == Spec => []HandledFirst
<1>1. Init => HandledInv
  BY InitType DEF Init, HandledInv, HandleInv, Unhandled, Doers
<1>2. ASSUME HandledInv, [Next]_vars PROVE HandledInv'
  <2>1. TypeOK'
    BY <1>2, StepType DEF HandledInv
  <2>2. ASSUME NEW x \in Requests \ BarrierReqs PROVE HandleInv(x)'
    <3>1. TypeOK /\ HandleInv(x)
      BY <1>2 DEF HandledInv
    <3>2. ASSUME NEW r \in Requests, StepOf(r) PROVE HandleInv(x)'
      BY <3>1, <3>2, StepHandle, HandleFrame
    <3>3. CASE UNCHANGED vars
      BY <3>1, <3>3 DEF vars, HandleInv, Unhandled
    <3>4. QED
      BY <1>2, <3>2, <3>3 DEF Next, StepOf
  <2>3. QED
    BY <2>1, <2>2 DEF HandledInv
<1>3. HandledInv => HandledFirst
  BY DEF HandledInv, HandleInv, Unhandled, HandledFirst, Doers
<1>4. QED
  BY <1>1, <1>2, <1>3, PTL DEF Spec
=============================================================================
