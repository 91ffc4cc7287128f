----------------------------- MODULE ThreadPool -----------------------------
(***************************************************************************)
(* ThreadPool, WorkerThread and Request of common/di/request.cpp.          *)
(*                                                                         *)
(* Every section the code runs under m_mod_mtx, and every section of       *)
(* worker_enqueue under wrk_mtx, is one step.  A worker holds its wrk_mtx   *)
(* over several steps (HoldsLock), which worker_enqueue waits for, while    *)
(* thp_stop, thp_thread_terminate and thp_promote_barrier_lck change its    *)
(* state and signal wrk_cv without that lock, as the code does.            *)
(*                                                                         *)
(* A request is scheduled once, by a thread of its own.  The lists that    *)
(* track workers are kept as the list each worker is on: which of the      *)
(* workers of a list is at its front is left open.                         *)
(***************************************************************************)
EXTENDS Integers, Sequences, FiniteSets

CONSTANTS
    Workers,        \* thp_workers, thp_max of them
    InitWorkers,    \* the first thp_min workers, started by mod_init
    Requests,       \* the requests that may be scheduled
    BarrierReqs,    \* those passed to schedule_barrier
    QueueNos,       \* the qno values callers use
    ReqMaxRR,       \* req_max_rr, 8 in the code
    StopPolicy,     \* when thp_stop may be called, see thp_stop
    MayFail,        \* workers for which pthread_create may return an error
    MaySpuriouslyWake,  \* pthread_cond_wait may return without a signal
    None            \* the null pointer

CommonQueues == {"fast", "slow"}
ParkQueues == {"time_wait", "suspend"}
StatNames == {"sched", "served", "direct", "common", "fast", "slow", "shutdown"}
ReqQueues == CommonQueues \cup ParkQueues \cup {"barrier"}

ASSUME PoolAssumption ==
    /\ InitWorkers \subseteq Workers
    /\ IsFiniteSet(Workers)
    /\ InitWorkers # {}
    /\ BarrierReqs \subseteq Requests
    /\ QueueNos \subseteq CommonQueues \cup ParkQueues
    /\ ReqMaxRR \in Nat
    /\ StopPolicy \in {"never", "quiet", "any"}
    /\ MayFail \subseteq Workers
    /\ MaySpuriouslyWake \in BOOLEAN
    /\ None \notin Workers \cup Requests

VARIABLES
    thp_shutdown,
    thp_barrier_cnt,
    thp_sched_req,
    thp_run_thds,
    m_queue,        \* the pool's queues of requests
    flagged,        \* requests whose rq_done_flgs has Request::barrier
    wrk_list,       \* the thp_queue a worker is on, "none" if untracked
    wrk_state,
    wrk_queue,      \* a worker's own queue; wrk_reqcnt is its length
    wrk_thr_id,     \* wrk_thr_id # 0
    wpc,            \* where a worker is in worker_loop, "none": no thread
    cur,            \* the request a worker executes
    cpc,            \* where a request's caller is in schedule
    target,         \* schedule's local variable wrk
    stop_pc,        \* where the caller of thp_stop is
    executed,       \* how often req_exec_task has run for a request
    prior,          \* requests scheduled before a call of schedule_barrier
    stat            \* the counters thp_dump_stat audits, summed over workers

poolVars == <<thp_shutdown, thp_barrier_cnt, thp_sched_req, thp_run_thds>>
reqVars  == <<m_queue, flagged, prior>>
wrkVars  == <<wrk_list, wrk_state, wrk_queue, wrk_thr_id, wpc, cur>>
callVars == <<cpc, target>>
vars == <<poolVars, reqVars, wrkVars, callVars, stop_pc, executed, stat>>

-----------------------------------------------------------------------------
(* Helpers.                                                                 *)

Listed(l) == {w \in Workers : wrk_list[w] = l}

(* Mutant: the list is reset when a request is put on it.                   *)
EnqueueAlone(q, r) == [m_queue EXCEPT ![q] = <<r>>]

Enqueue(q, r) == [m_queue EXCEPT ![q] = Append(@, r)]

(* Mutant: the front of a queue is read but not removed.                    *)
Peek(q) == m_queue

Dequeue(q) == [m_queue EXCEPT ![q] = Tail(@)]

Bump(fields) == [f \in DOMAIN stat |-> stat[f] + (IF f \in fields THEN 1 ELSE 0)]

(* Mutant: the list is stored as the state.                                 *)
update_raw(w, l) == [wrk_state EXCEPT ![w] = l]

(* worker_update_state for the list l: terminate is never overwritten.      *)
worker_update_state(w, l) ==
    [wrk_state EXCEPT ![w] = IF @ = "terminate" \/ l = "dorman"
                             THEN "terminate" ELSE l]

(* Mutant: the worker leaves its list but joins no other.                   *)
swap_forgets(w, l) ==
    /\ wrk_state' = worker_update_state(w, l)
    /\ wrk_list' = [wrk_list EXCEPT ![w] = "none"]

thp_swap_queue(w, l) ==
    /\ wrk_state' = worker_update_state(w, l)
    /\ wrk_list' = [wrk_list EXCEPT ![w] = l]

(* Mutant: nobody is signalled.                                             *)
NoSignal(S) == UNCHANGED wpc

(* pthread_cond_signal on the wrk_cv of every worker in S: it reaches only  *)
(* a worker that is already waiting.                                        *)
Signal(S) ==
    wpc' = [w \in Workers |->
               IF w \in S /\ wpc[w] = "sleep" THEN "loop" ELSE wpc[w]]

(* Mutant: wrk_mtx is not taken.                                            *)
HoldsNothing(w) == FALSE

HoldsLock(w) == wpc[w] \in {"pop", "recheck", "verify", "wait"}

(* Mutant: terminate at once.                                               *)
terminates_early(w) == wrk_state[w] = "terminate" /\ wrk_queue[w] = <<>>

wrk_can_terminate(w) ==
    /\ wrk_state[w] = "terminate"
    /\ wrk_queue[w] = <<>>
    /\ thp_barrier_cnt = 0
    /\ thp_sched_req = 0

Chained(r) ==
    \/ \E q \in ReqQueues : \E i \in 1..Len(m_queue[q]) : m_queue[q][i] = r
    \/ \E w \in Workers : \E i \in 1..Len(wrk_queue[w]) : wrk_queue[w][i] = r

(* An assert or verify of the code has failed and ended the process.        *)
Aborted ==
    \/ \E w \in Workers : wpc[w] = "abort"
    \/ \E r \in Requests : cpc[r] = "abort"

Accepted(r) == cpc[r] \notin {"init", "schedule"}

-----------------------------------------------------------------------------
(* The state mod_init leaves: the workers in up have a thread, the others   *)
(* are dormant (all those past thp_min, and any whose pthread_create        *)
(* failed).                                                                 *)
Init ==
    \E up \in SUBSET InitWorkers :
        /\ InitWorkers \ MayFail \subseteq up
        /\ thp_shutdown = FALSE
        /\ thp_barrier_cnt = 0
        /\ thp_sched_req = 0
        /\ thp_run_thds = Cardinality(up)
        /\ m_queue = [q \in ReqQueues |-> <<>>]
        /\ flagged = {}
        /\ wrk_list = [w \in Workers |-> IF w \in up THEN "none" ELSE "dorman"]
        /\ wrk_state = [w \in Workers |->
                           IF w \in up THEN "spawning" ELSE "terminate"]
        /\ wrk_queue = [w \in Workers |-> <<>>]
        /\ wrk_thr_id = [w \in Workers |-> w \in up]
        /\ wpc = [w \in Workers |-> IF w \in up THEN "start" ELSE "none"]
        /\ cur = [w \in Workers |-> None]
        /\ cpc = [r \in Requests |-> "init"]
        /\ target = [r \in Requests |-> None]
        /\ stop_pc = "run"
        /\ executed = [r \in Requests |-> 0]
        /\ prior = [r \in Requests |-> {}]
        /\ stat = [f \in StatNames |-> 0]

-----------------------------------------------------------------------------
(* Scheduling a request.                                                    *)

(* A caller is free to enter the pool: always, or only before thp_stop.     *)
MayCall == StopPolicy = "any" \/ stop_pc = "run"

(* schedule is entered by the caller of a plain request, or from            *)
(* schedule_barrier when it found the pool quiet.                           *)
Entered(r) ==
    \/ r \notin BarrierReqs /\ cpc[r] = "init" /\ MayCall
    \/ cpc[r] = "schedule"

(* Behind a barrier: the request waits on the barrier queue.                *)
schedule_deferred(r) ==
    /\ ~Aborted
    /\ Entered(r)
    /\ thp_barrier_cnt > 0
    /\ thp_barrier_cnt' = thp_barrier_cnt + 1
    /\ m_queue' = Enqueue("barrier", r)
    /\ cpc' = [cpc EXCEPT ![r] = "done"]
    /\ stat' = Bump({"sched"})
    /\ UNCHANGED <<thp_shutdown, thp_sched_req, thp_run_thds, flagged, prior,
                   wrkVars, target, stop_pc, executed>>

(* What the paths past the barrier test share.                              *)
Admit(r) ==
    /\ ~Aborted
    /\ Entered(r)
    /\ thp_barrier_cnt = 0
    /\ thp_sched_req' = thp_sched_req + 1
    /\ stat' = Bump({"sched"})
    /\ UNCHANGED <<thp_shutdown, thp_barrier_cnt, thp_run_thds, flagged, prior,
                   wrk_queue, wrk_thr_id, wpc, cur, stop_pc, executed>>

(* The caller leaves the locked section for step pc with worker w.          *)
Goto(r, pc, w) ==
    /\ cpc' = [cpc EXCEPT ![r] = pc]
    /\ target' = [target EXCEPT ![r] = w]

(* time_wait and suspend: the request is parked.                            *)
schedule_parked(r, q) ==
    /\ q \in ParkQueues
    /\ Admit(r)
    /\ m_queue' = Enqueue(q, r)
    /\ Goto(r, "done", None)
    /\ UNCHANGED <<wrk_list, wrk_state>>

(* A worker of the list the queue maps to, w, has room.                     *)
schedule_direct(r, q, w) ==
    /\ q \in CommonQueues
    /\ w \in Listed(q)
    /\ Len(wrk_queue[w]) <= ReqMaxRR
    /\ Admit(r)
    /\ thp_swap_queue(w, q)
    /\ Goto(r, "enqueue", w)
    /\ UNCHANGED m_queue

(* Round robin: w has too much to do, and v is next on the list (w itself   *)
(* if there is no other).  w stays tracked at the tail unless it is alone;  *)
(* v stays tracked only while it has little to do.                          *)
schedule_round_robin(r, q, w, v) ==
    /\ q \in CommonQueues
    /\ w \in Listed(q)
    /\ Len(wrk_queue[w]) > ReqMaxRR
    /\ v \in Listed(q)
    /\ v = w => Listed(q) = {w}
    /\ Admit(r)
    /\ wrk_state' = worker_update_state(w, q)
    /\ wrk_list' = [wrk_list EXCEPT
          ![v] = IF v # w /\ Len(wrk_queue[v]) < ReqMaxRR THEN @ ELSE "none"]
    /\ Goto(r, "enqueue", v)
    /\ UNCHANGED m_queue

(* An idle worker is taken off the idle list, and left off every list.      *)
schedule_idle(r, q, w) ==
    /\ q \in CommonQueues
    /\ Listed(q) = {}
    /\ w \in Listed("idle")
    /\ Admit(r)
    /\ wrk_list' = [wrk_list EXCEPT ![w] = "none"]
    /\ Goto(r, "enqueue", w)
    /\ UNCHANGED <<m_queue, wrk_state>>

(* Nobody is at hand: the request goes to the pool's queue, and a dormant   *)
(* worker, if there is one, is taken off its list to be started.            *)
schedule_common(r, q) ==
    /\ q \in CommonQueues
    /\ Listed(q) = {} /\ Listed("idle") = {}
    /\ ~thp_shutdown
    /\ Admit(r)
    /\ m_queue' = Enqueue(q, r)
    /\ \/ /\ Listed("dorman") = {}
          /\ Goto(r, "done", None)
          /\ UNCHANGED wrk_list
       \/ \E w \in Listed("dorman") :
             /\ wrk_list' = [wrk_list EXCEPT ![w] = "none"]
             /\ Goto(r, "spawn", w)
    /\ UNCHANGED wrk_state

(* Nobody is at hand and the pool is shut down: the caller will run it.     *)
schedule_inline(r, q) ==
    /\ q \in CommonQueues
    /\ Listed(q) = {} /\ Listed("idle") = {}
    /\ thp_shutdown
    /\ Admit(r)
    /\ Goto(r, "inline", None)
    /\ UNCHANGED <<m_queue, wrk_list, wrk_state>>

(* schedule_barrier: defer behind the requests that are active, or go on to *)
(* schedule as a regular request.                                           *)
schedule_barrier(r) ==
    /\ ~Aborted
    /\ r \in BarrierReqs
    /\ cpc[r] = "init" /\ MayCall
    /\ prior' = [prior EXCEPT ![r] = {x \in Requests : Accepted(x)}]
    /\ IF thp_sched_req >= 1
       THEN /\ thp_barrier_cnt' = thp_barrier_cnt + 1
            /\ flagged' = flagged \cup {r}
            /\ m_queue' = Enqueue("barrier", r)
            /\ cpc' = [cpc EXCEPT ![r] = "done"]
            /\ stat' = Bump({"sched"})
       ELSE /\ cpc' = [cpc EXCEPT ![r] = "schedule"]
            /\ UNCHANGED <<thp_barrier_cnt, flagged, m_queue, stat>>
    /\ UNCHANGED <<thp_shutdown, thp_sched_req, thp_run_thds, wrkVars, target,
                   stop_pc, executed>>

-----------------------------------------------------------------------------
(* The rest of schedule, after m_mod_mtx is released.                       *)

(* worker_enqueue.                                                          *)
worker_enqueue(r) ==
    LET w == target[r] IN
    /\ ~Aborted
    /\ cpc[r] = "enqueue"
    /\ ~HoldsLock(w)
    /\ IF wrk_state[w] # "terminate"
       THEN /\ wrk_queue' = [wrk_queue EXCEPT ![w] = Append(@, r)]
            /\ Signal({w})
            /\ stat' = Bump({"direct", IF wrk_state[w] = "fast"
                                       THEN "fast" ELSE "slow"})
            /\ cpc' = [cpc EXCEPT ![r] = "done"]
       ELSE /\ cpc' = [cpc EXCEPT ![r] = "inline"]
            /\ UNCHANGED <<wrk_queue, wpc, stat>>
    /\ UNCHANGED <<poolVars, reqVars, wrk_list, wrk_state, wrk_thr_id, cur,
                   target, stop_pc, executed>>

(* Request::req_exec_task in the caller's thread (lines 448, 458 and 669),  *)
(* which asserts that the request is on no list.                            *)
exec_inline(r) ==
    /\ ~Aborted
    /\ cpc[r] = "inline"
    /\ stat' = Bump({"shutdown"})
    /\ IF Chained(r)
       THEN /\ cpc' = [cpc EXCEPT ![r] = "abort"]
            /\ UNCHANGED executed
       ELSE /\ cpc' = [cpc EXCEPT ![r] = "done"]
            /\ executed' = [executed EXCEPT ![r] = @ + 1]
    /\ UNCHANGED <<poolVars, reqVars, wrkVars, target, stop_pc>>

(* The caller's next step in worker_spawn_thr.                              *)
SpawnStep(r, from, to) ==
    /\ ~Aborted
    /\ cpc[r] = from
    /\ cpc' = [cpc EXCEPT ![r] = to]
    /\ UNCHANGED <<thp_shutdown, thp_barrier_cnt, thp_sched_req, reqVars,
                   wrk_queue, cur, target, stop_pc, executed, stat>>

(* Mutant: the test looks for a worker that is not yet terminated.          *)
spawns_other(w) == ~thp_shutdown /\ wrk_state[w] # "terminate"

(* schedule, line 455: neither flag is read under a lock.                   *)
MaySpawn(w) == ~thp_shutdown /\ wrk_state[w] = "terminate"

spawn_check(r) ==
    /\ SpawnStep(r, "spawn", IF MaySpawn(target[r]) THEN "spawn_state" ELSE "inline")
    /\ UNCHANGED <<thp_run_thds, wrk_list, wrk_state, wrk_thr_id, wpc>>

(* worker_spawn_thr, lines 614-621.                                         *)
spawn_state(r) ==
    LET w == target[r]
        ok == ~wrk_thr_id[w] /\ wrk_state[w] = "terminate" IN
    /\ SpawnStep(r, "spawn_state", IF ok THEN "spawn_count" ELSE "done")
    /\ wrk_state' = [wrk_state EXCEPT ![w] = IF ok THEN "spawning" ELSE @]
    /\ UNCHANGED <<thp_run_thds, wrk_list, wrk_thr_id, wpc>>

(* worker_spawn_thr, lines 629-630.                                         *)
spawn_count(r) ==
    /\ SpawnStep(r, "spawn_count", "spawn_create")
    /\ thp_run_thds' = thp_run_thds + 1
    /\ UNCHANGED <<wrk_list, wrk_state, wrk_thr_id, wpc>>

(* worker_spawn_thr, line 631: pthread_create succeeds.                     *)
spawn_create(r) ==
    /\ SpawnStep(r, "spawn_create", "done")
    /\ wrk_thr_id' = [wrk_thr_id EXCEPT ![target[r]] = TRUE]
    /\ wpc' = [wpc EXCEPT ![target[r]] = "start"]
    /\ UNCHANGED <<thp_run_thds, wrk_list, wrk_state>>

(* worker_spawn_thr, lines 633-638: pthread_create fails.                   *)
SpawnFails(r, left) ==
    /\ target[r] \in MayFail
    /\ SpawnStep(r, "spawn_create", "spawn_undo")
    /\ thp_run_thds' = left
    /\ UNCHANGED <<wrk_list, wrk_state, wrk_thr_id, wpc>>

(* Mutant: the thread that was not created stays counted.                   *)
fail_counted(r) == SpawnFails(r, thp_run_thds)

spawn_fail(r) == SpawnFails(r, thp_run_thds - 1)

(* worker_spawn_thr, line 639.                                              *)
spawn_undo(r) ==
    /\ SpawnStep(r, "spawn_undo", "done")
    /\ thp_swap_queue(target[r], "dorman")
    /\ UNCHANGED <<thp_run_thds, wrk_thr_id, wpc>>

-----------------------------------------------------------------------------
(* The worker thread.                                                       *)

(* A step of worker w from one place of worker_loop to another.             *)
WorkerStep(w, from, to) ==
    /\ ~Aborted
    /\ wpc[w] = from
    /\ wpc' = [wpc EXCEPT ![w] = to]
    /\ UNCHANGED <<callVars, stop_pc, thp_shutdown>>

(* worker_loop, line 684.                                                   *)
worker_start(w) ==
    /\ WorkerStep(w, "start", "loop")
    /\ thp_swap_queue(w, "fast")
    /\ UNCHANGED <<poolVars, reqVars, wrk_queue, wrk_thr_id, cur, executed, stat>>

(* worker_loop, lines 686-688 and 710: take wrk_mtx and test the loop       *)
(* condition; lines 712-714 when it ends the loop.                          *)
worker_check(w) ==
    /\ WorkerStep(w, "loop", IF wrk_can_terminate(w) THEN "exit" ELSE "pop")
    /\ wrk_thr_id' = [wrk_thr_id EXCEPT ![w] = @ /\ ~wrk_can_terminate(w)]
    /\ UNCHANGED <<poolVars, reqVars, wrk_list, wrk_state, wrk_queue, cur,
                   executed, stat>>

(* worker_loop, lines 689 and 702-706: a request of the worker's own queue. *)
worker_pop(w) ==
    /\ wrk_queue[w] # <<>>
    /\ WorkerStep(w, "pop", "exec")
    /\ cur' = [cur EXCEPT ![w] = Head(wrk_queue[w])]
    /\ wrk_queue' = [wrk_queue EXCEPT ![w] = Tail(@)]
    /\ stat' = Bump({"served"})
    /\ UNCHANGED <<poolVars, reqVars, wrk_list, wrk_state, wrk_thr_id, executed>>

(* get_req_or_put_idle: the fast queue comes first, then the slow queue.    *)
ServedStats(q) == {"served", "common", q}

get_common(w, q) ==
    /\ wrk_queue[w] = <<>>
    /\ m_queue[q] # <<>>
    /\ q = "slow" => m_queue["fast"] = <<>>
    /\ WorkerStep(w, "pop", "exec")
    /\ cur' = [cur EXCEPT ![w] = Head(m_queue[q])]
    /\ m_queue' = Dequeue(q)
    /\ thp_swap_queue(w, q)
    /\ stat' = Bump(ServedStats(q))
    /\ UNCHANGED <<poolVars, flagged, prior, wrk_queue, wrk_thr_id, executed>>

(* Mutant: the fast queue is not looked at again.                           *)
NothingSlow(w) == wrk_queue[w] = <<>> /\ m_queue["slow"] = <<>>

NothingCommon(w) ==
    wrk_queue[w] = <<>> /\ m_queue["fast"] = <<>> /\ m_queue["slow"] = <<>>

(* get_req_or_put_idle: nothing to do, or a barrier that has to wait.       *)
put_idle(w) ==
    /\ NothingCommon(w)
    /\ thp_barrier_cnt = 0 \/ thp_sched_req > 0
    /\ WorkerStep(w, "pop", "recheck")
    /\ thp_swap_queue(w, "idle")
    /\ UNCHANGED <<poolVars, reqVars, wrk_queue, wrk_thr_id, cur, executed, stat>>

(* Mutant: requests are promoted past the next barrier.                     *)
PromotesAll(bq, k) == k = Len(bq)

(* thp_promote_barrier_lck: the k requests at the front of bq are regular   *)
(* and become ready; the next one, if any, is a barrier and stays.          *)
Promotes(bq, k) ==
    /\ \A i \in 1..k : bq[i] \notin flagged
    /\ k < Len(bq) => bq[k + 1] \in flagged

(* get_req_or_put_idle with thp_promote_barrier_lck: the barrier at the     *)
(* front is taken once nothing is active; the regular requests behind it    *)
(* move to the fast queue, and each takes an idle worker, while there are   *)
(* any, to the fast list and signals it.                                    *)
get_barrier(w) ==
    LET rest == Tail(m_queue["barrier"]) IN
    /\ ~Aborted
    /\ NothingCommon(w)
    /\ thp_barrier_cnt > 0 /\ thp_sched_req <= 0
    /\ wpc[w] = "pop"
    /\ cur' = [cur EXCEPT ![w] = Head(m_queue["barrier"])]
    /\ \E k \in 0..Len(rest), S \in SUBSET Listed("idle") :
          /\ Promotes(rest, k)
          /\ Cardinality(S) = k \/ (S = Listed("idle") /\ Cardinality(S) < k)
          /\ thp_sched_req' = thp_sched_req + 1 + k
          /\ thp_barrier_cnt' = thp_barrier_cnt - 1 - k
          /\ m_queue' = [m_queue EXCEPT
                            !["fast"] = @ \o SubSeq(rest, 1, k),
                            !["barrier"] = SubSeq(rest, k + 1, Len(rest))]
          /\ wrk_list' = [v \in Workers |->
                             IF v \in S THEN "fast" ELSE wrk_list[v]]
          /\ wrk_state' = [v \in Workers |->
                             IF v \in S /\ wrk_state[v] # "terminate"
                             THEN "fast" ELSE wrk_state[v]]
          /\ wpc' = [v \in Workers |->
                        IF v = w THEN "exec"
                        ELSE IF v \in S /\ wpc[v] = "sleep" THEN "loop"
                        ELSE wpc[v]]
    /\ stat' = Bump({"served"})
    /\ UNCHANGED <<thp_shutdown, thp_run_thds, flagged, prior, wrk_queue,
                   wrk_thr_id, callVars, stop_pc, executed>>

(* worker_loop, lines 694-696, and 712-714 when it leaves the loop.         *)
worker_recheck(w) ==
    /\ WorkerStep(w, "recheck", IF wrk_can_terminate(w) THEN "exit" ELSE "verify")
    /\ wrk_thr_id' = [wrk_thr_id EXCEPT ![w] = @ /\ ~wrk_can_terminate(w)]
    /\ UNCHANGED <<poolVars, reqVars, wrk_list, wrk_state, wrk_queue, cur,
                   executed, stat>>

(* worker_loop, line 697: the assertion before the wait.                    *)
worker_verify(w) ==
    /\ WorkerStep(w, "verify",
          IF wrk_state[w] \in {"idle", "terminate"} THEN "wait" ELSE "abort")
    /\ UNCHANGED <<poolVars, reqVars, wrk_list, wrk_state, wrk_queue, wrk_thr_id,
                   cur, executed, stat>>

(* worker_loop, line 698: from here on a signal reaches the worker.         *)
worker_wait(w) ==
    /\ WorkerStep(w, "wait", "sleep")
    /\ UNCHANGED <<poolVars, reqVars, wrk_list, wrk_state, wrk_queue, wrk_thr_id,
                   cur, executed, stat>>

(* pthread_cond_wait may return without a signal.                           *)
spurious_wakeup(w) ==
    /\ MaySpuriouslyWake
    /\ WorkerStep(w, "sleep", "loop")
    /\ UNCHANGED <<poolVars, reqVars, wrk_list, wrk_state, wrk_queue, wrk_thr_id,
                   cur, executed, stat>>

(* worker_loop, line 708.                                                   *)
worker_exec(w) ==
    /\ WorkerStep(w, "exec", "finish")
    /\ executed' = [executed EXCEPT ![cur[w]] = @ + 1]
    /\ UNCHANGED <<poolVars, reqVars, wrk_list, wrk_state, wrk_queue, wrk_thr_id,
                   cur, stat>>

(* worker_loop, line 709.                                                   *)
FinishWith(w, active) ==
    /\ WorkerStep(w, "finish", "loop")
    /\ thp_sched_req' = active
    /\ cur' = [cur EXCEPT ![w] = None]
    /\ UNCHANGED <<thp_barrier_cnt, thp_run_thds, reqVars, wrk_list, wrk_state,
                   wrk_queue, wrk_thr_id, executed, stat>>

(* Mutant: the request stays counted.                                       *)
finish_keeps(w) == FinishWith(w, thp_sched_req)

worker_finish(w) == FinishWith(w, thp_sched_req - 1)

(* thp_thread_terminate.                                                    *)
thp_thread_terminate(w) ==
    /\ ~Aborted
    /\ wpc[w] = "exit"
    /\ thp_run_thds' = thp_run_thds - 1
    /\ thp_swap_queue(w, "dorman")
    /\ wpc' = [v \in Workers |->
                  IF v = w THEN "none"
                  ELSE IF wrk_list[v] = "idle" /\ wpc[v] = "sleep" THEN "loop"
                  ELSE wpc[v]]
    /\ stop_pc' = IF thp_shutdown /\ thp_run_thds' = 0 /\ stop_pc = "wait"
                  THEN "woken" ELSE stop_pc
    /\ UNCHANGED <<thp_shutdown, thp_barrier_cnt, thp_sched_req, reqVars,
                   wrk_queue, wrk_thr_id, cur, callVars, executed, stat>>

-----------------------------------------------------------------------------
(* thp_stop.                                                                *)

(* The test of the loop around pthread_cond_wait(&thp_cv).                  *)
StopTest == IF thp_run_thds > 0 THEN "wait" ELSE "stopped"

(* Lines 318-325.  StopPolicy says what the pool's users guarantee: they    *)
(* never stop it, they stop it when no call of schedule is under way and    *)
(* call it no more, or they stop it at any time.                            *)
thp_stop ==
    /\ ~Aborted
    /\ stop_pc = "run"
    /\ \/ StopPolicy = "any"
       \/ StopPolicy = "quiet" /\ \A r \in Requests : cpc[r] \in {"init", "done"}
    /\ thp_shutdown' = TRUE
    /\ wrk_state' = [w \in Workers |-> "terminate"]
    /\ Signal(Workers)
    /\ stop_pc' = StopTest
    /\ UNCHANGED <<thp_barrier_cnt, thp_sched_req, thp_run_thds, reqVars,
                   wrk_list, wrk_queue, wrk_thr_id, cur, callVars, executed, stat>>

thp_stop_woken ==
    /\ ~Aborted
    /\ stop_pc = "woken"
    /\ stop_pc' = StopTest
    /\ UNCHANGED <<poolVars, reqVars, wrkVars, callVars, executed, stat>>

-----------------------------------------------------------------------------

CallerStep(r) ==
    \/ worker_enqueue(r)
    \/ exec_inline(r)
    \/ spawn_check(r)
    \/ spawn_state(r)
    \/ spawn_count(r)
    \/ spawn_create(r)
    \/ spawn_fail(r)
    \/ spawn_undo(r)

Schedule(r) ==
    \/ schedule_deferred(r)
    \/ \E q \in QueueNos :
          \/ schedule_parked(r, q)
          \/ \E w \in Workers : schedule_direct(r, q, w) \/ schedule_idle(r, q, w)
          \/ \E w, v \in Workers : schedule_round_robin(r, q, w, v)
          \/ schedule_common(r, q)
          \/ schedule_inline(r, q)

WorkerThread(w) ==
    \/ worker_start(w)
    \/ worker_check(w)
    \/ worker_pop(w)
    \/ \E q \in CommonQueues : get_common(w, q)
    \/ put_idle(w)
    \/ get_barrier(w)
    \/ worker_recheck(w)
    \/ worker_verify(w)
    \/ worker_wait(w)
    \/ worker_exec(w)
    \/ worker_finish(w)
    \/ thp_thread_terminate(w)

Next ==
    \/ \E r \in Requests : schedule_barrier(r) \/ Schedule(r) \/ CallerStep(r)
    \/ \E w \in Workers : WorkerThread(w) \/ spurious_wakeup(w)
    \/ thp_stop
    \/ thp_stop_woken

Spec == Init /\ [][Next]_vars

(* The operating system runs every thread that can run, and a request's     *)
(* req_exec_task returns.  Nobody has to call the pool, and pthread_create  *)
(* and pthread_cond_wait need not favour the pool.                          *)
Fairness ==
    /\ \A r \in Requests :
          /\ WF_vars(CallerStep(r))
          /\ WF_vars(cpc[r] = "schedule" /\ Schedule(r))
    /\ \A w \in Workers : WF_vars(WorkerThread(w))
    /\ WF_vars(thp_stop_woken)

FairSpec == Spec /\ Fairness

-----------------------------------------------------------------------------
(* Properties.                                                              *)

WorkerLists == {"idle", "fast", "slow", "dorman", "none"}
WorkerStates == {"idle", "spawning", "fast", "slow", "terminate"}
WorkerPCs == {"none", "start", "loop", "pop", "recheck", "verify", "wait",
              "sleep", "exec", "finish", "exit", "abort"}
CallerPCs == {"init", "schedule", "enqueue", "inline", "spawn", "spawn_state",
              "spawn_count", "spawn_create", "spawn_undo", "done", "abort"}

PoolType ==
    /\ thp_shutdown \in BOOLEAN
    /\ thp_barrier_cnt \in Int
    /\ thp_sched_req \in Int
    /\ thp_run_thds \in Int
    /\ stop_pc \in {"run", "wait", "woken", "stopped"}

RequestType ==
    /\ m_queue \in [ReqQueues -> Seq(Requests)]
    /\ flagged \subseteq BarrierReqs
    /\ prior \in [Requests -> SUBSET Requests]
    /\ executed \in [Requests -> Nat]

WorkerType ==
    /\ wrk_list \in [Workers -> WorkerLists]
    /\ wrk_state \in [Workers -> WorkerStates]
    /\ wrk_queue \in [Workers -> Seq(Requests)]
    /\ wrk_thr_id \in [Workers -> BOOLEAN]
    /\ wpc \in [Workers -> WorkerPCs]
    /\ cur \in [Workers -> Requests \cup {None}]
    /\ \A w \in Workers : wpc[w] \in {"exec", "finish"} => cur[w] \in Requests

CallerType ==
    /\ cpc \in [Requests -> CallerPCs]
    /\ target \in [Requests -> Workers \cup {None}]
    /\ \A r \in Requests :
          cpc[r] \in {"enqueue", "spawn", "spawn_state", "spawn_count",
                      "spawn_create", "spawn_undo"} => target[r] \in Workers

StatType == stat \in [StatNames -> Nat]

(* The type invariant: among the rest, a caller that goes on with a worker  *)
(* has one, and a worker that executes has a request.                       *)
TypeOK ==
    PoolType /\ RequestType /\ WorkerType /\ CallerType /\ StatType

(* The slots of a family of queues that hold request r.                     *)
Slots(queues, r) ==
    UNION {{q} \X {i \in DOMAIN queues[q] : queues[q][i] = r} : q \in DOMAIN queues}

(* The places that hold request r: slots of the queues, workers about to    *)
(* execute it, its caller's hands, and its executions.                      *)
Held(r) ==
    Cardinality(Slots(m_queue, r))
  + Cardinality(Slots(wrk_queue, r))
  + Cardinality({w \in Workers : wpc[w] = "exec" /\ cur[w] = r})
  + (IF cpc[r] \in {"enqueue", "inline"} THEN 1 ELSE 0)
  + executed[r]

(* No request is lost, held twice or executed twice: from its acceptance    *)
(* on, exactly one place holds it or it has been executed once.             *)
HeldOnce == \A r \in Requests : Held(r) = IF Accepted(r) THEN 1 ELSE 0

(* The requests that thp_sched_req counts: accepted ones that are not       *)
(* behind a barrier and whose worker has not returned from them.            *)
Active ==
    {r \in Requests :
        \/ cpc[r] = "enqueue"
        \/ \E q \in ReqQueues \ {"barrier"} :
              \E i \in 1..Len(m_queue[q]) : m_queue[q][i] = r
        \/ \E w \in Workers :
              \/ cur[w] = r
              \/ \E i \in 1..Len(wrk_queue[w]) : wrk_queue[w][i] = r}

(* The two counters that decide when a barrier may run and when a worker    *)
(* may terminate (lines 507 and request-impl.h 83-84) are exact, though     *)
(* they are changed under different locks or none.                          *)
CountersExact ==
    /\ thp_sched_req = Cardinality(Active)
    /\ thp_barrier_cnt = Len(m_queue["barrier"])

(* A worker that will look at the queues before it next sleeps.             *)
Looking(w) == wpc[w] \in {"start", "loop", "pop", "exec", "finish"}

Spawning(r) == cpc[r] \in {"spawn", "spawn_state", "spawn_count", "spawn_create"}

(* A worker with requests of its own never sleeps or goes to sleep: the      *)
(* signal of worker_enqueue cannot fall between the worker's look at its    *)
(* queue (line 689) and its wait (line 698).                                *)
NoWakeupLost == \A w \in Workers : wrk_queue[w] # <<>> => Looking(w)

(* Work for any worker: a common request, or a barrier nothing holds back.  *)
ReadyWork ==
    \/ \E q \in CommonQueues : m_queue[q] # <<>>
    \/ thp_barrier_cnt > 0 /\ thp_sched_req = 0

(* Work on the pool's queues is not left behind by workers that all sleep   *)
(* (get_req_or_put_idle, lines 497-524).  A pool that could not start a     *)
(* single thread is not meant.                                              *)
NoneStranded ==
    ReadyWork /\ (\E w \in Workers : wpc[w] # "none")
    => \/ \E w \in Workers : Looking(w)
       \/ \E r \in Requests : Spawning(r) \/ cpc[r] = "enqueue"

(* schedule and worker_loop account for all work: every accepted request is *)
(* in one place, the counters that gate barriers and termination know of    *)
(* it, and it is not left to workers that all sleep.                        *)
WorkAccounted == HeldOnce /\ CountersExact /\ NoneStranded

(* A sleeping worker can be found again: it is on a list schedule takes     *)
(* workers from, or some caller is about to hand it a request.              *)
SleepersTracked ==
    \A w \in Workers :
        wpc[w] = "sleep" => \/ wrk_list[w] \in {"idle", "fast"}
                            \/ \E r \in Requests :
                                  cpc[r] = "enqueue" /\ target[r] = w

Started(r) == executed[r] > 0 \/ \E w \in Workers : cur[w] = r

InOrder(b) ==
    /\ Started(b) => \A x \in prior[b] : executed[x] > 0
    /\ \A x \in Requests \ (prior[b] \cup {b}) : Started(x) => Started(b)

(* A barrier that schedule_barrier deferred starts after every request      *)
(* scheduled before it has been executed, and before any scheduled after it.*)
DeferredBarrierInOrder == \A b \in flagged : InOrder(b)

(* No assert or verify of the code fails.                                   *)
NoAbort == ~Aborted

(* What thp_stop and mod_shutdown verify once no thread runs (lines 329-336 *)
(* and 202-204), with every worker back on the dormant list.                *)
StopVerified ==
    stop_pc = "stopped" =>
        /\ thp_run_thds = 0
        /\ \A w \in Workers : /\ wrk_state[w] = "terminate"
                              /\ wrk_queue[w] = <<>>
                              /\ wpc[w] = "none"
                              /\ wrk_list[w] = "dorman"
        /\ \A q \in ReqQueues : m_queue[q] = <<>>

(* The audit of the request counters of thp_dump_stat at shutdown, lines    *)
(* 270-272.  The threads that entered and left worker_loop (line 269) are   *)
(* not counted; StopVerified says that none is left.                        *)
AuditMatches ==
    stop_pc = "stopped" =>
        /\ stat["sched"] = stat["served"]
        /\ stat["direct"] + stat["common"] = stat["sched"]
        /\ stat["shutdown"] + stat["fast"] + stat["slow"] = stat["sched"]

(* A stop of the pool passes the verifications of thp_stop and mod_shutdown *)
(* and the audit of the requests in thp_dump_stat.                          *)
ShutdownVerified == StopVerified /\ AuditMatches

(* thp_run_thds, changed with no lock by spawning callers and under the     *)
(* pool's lock by leaving workers, counts the threads thp_stop waits for.   *)
ThreadsCounted ==
    thp_run_thds = Cardinality({w \in Workers : wpc[w] # "none"})
                 + Cardinality({r \in Requests : cpc[r] = "spawn_create"})

(* Whatever happens around thp_stop, no accepted request is dropped.        *)
NeverLost == \A r \in Requests : Accepted(r) => Held(r) > 0 \/ Aborted

(* How far a request has come, as its scheduler sees it; "again" is a       *)
(* second execution, which the promise knows nothing of.                    *)
Progress(r) ==
    LET running == \E w \in Workers : wpc[w] = "exec" /\ cur[w] = r IN
    CASE executed[r] + (IF running THEN 1 ELSE 0) > 1 -> "again"
      [] executed[r] = 1 /\ ~running -> "done"
      [] executed[r] = 0 /\ running -> "running"
      [] executed[r] = 0 /\ ~running /\ Accepted(r) -> "accepted"
      [] OTHER -> "new"

Promise == INSTANCE RequestPool WITH
    status <- [r \in Requests |-> Progress(r)],
    deferred <- flagged,
    behind <- [r \in Requests |-> IF r \in flagged THEN prior[r] ELSE {}]

(* The pool implements RequestPool: queues, workers, spawned threads and    *)
(* wake-ups never make a request run twice or out of turn.                  *)
Implements == Promise!Spec

(* Every accepted request is executed (unless an assertion ends the         *)
(* process).                                                                *)
AllServed == \A r \in Requests : Accepted(r) ~> (executed[r] = 1 \/ Aborted)

(* thp_stop returns.                                                        *)
StopReturns == stop_pc # "run" ~> (stop_pc = "stopped" \/ Aborted)
=============================================================================
