-------------------------- MODULE ThreadPool_proofs --------------------------
(***************************************************************************)
(* Proofs about ThreadPool for any number of workers and requests, any     *)
(* stop policy and any outcome of pthread_create, in three parts.          *)
(*                                                                         *)
(* The first is about types and threads.  The second is about where        *)
(* requests are: nothing is lost or executed twice, the counters are       *)
(* exact, barriers keep their order, a stop leaves nothing behind, and the *)
(* pool implements RequestPool.  The third is about stopping:              *)
(* thp_run_thds counts the threads and no accepted request is dropped,     *)
(* whenever thp_stop is called; and with callers that are out of schedule  *)
(* when it is, a stop passes the verifications of thp_stop, mod_shutdown   *)
(* and thp_dump_stat.                                                      *)
(***************************************************************************)
EXTENDS ThreadPool, FiniteSetTheorems, SequenceTheorems, TLAPS

-----------------------------------------------------------------------------
(* The helpers keep the types of what they change.                          *)

LEMMA BumpType ==
    ASSUME stat \in [StatNames -> Nat], NEW S
    PROVE  Bump(S) \in [StatNames -> Nat]
BY DEF Bump, StatNames

LEMMA EnqueueType ==
    ASSUME m_queue \in [ReqQueues -> Seq(Requests)],
           NEW q \in ReqQueues, NEW r \in Requests
    PROVE  Enqueue(q, r) \in [ReqQueues -> Seq(Requests)]
BY DEF Enqueue

LEMMA DequeueType ==
    ASSUME m_queue \in [ReqQueues -> Seq(Requests)],
           NEW q \in ReqQueues, m_queue[q] # <<>>
    PROVE  /\ Dequeue(q) \in [ReqQueues -> Seq(Requests)]
           /\ Head(m_queue[q]) \in Requests
BY DEF Dequeue

LEMMA UpdateStateType ==
    ASSUME wrk_state \in [Workers -> WorkerStates], NEW w \in Workers,
           NEW l \in {"idle", "fast", "slow", "dorman"}
    PROVE  worker_update_state(w, l) \in [Workers -> WorkerStates]
BY DEF worker_update_state, WorkerStates

LEMMA QueueNames ==
    /\ CommonQueues \subseteq ReqQueues /\ ParkQueues \subseteq ReqQueues
    /\ "barrier" \in ReqQueues /\ "fast" \in ReqQueues /\ "slow" \in ReqQueues
    /\ "barrier" \notin CommonQueues /\ "barrier" \notin ParkQueues
BY DEF CommonQueues, ParkQueues, ReqQueues

-----------------------------------------------------------------------------
(* Type correctness.  get_barrier takes the head of the barrier queue when   *)
(* thp_barrier_cnt says there is one, so the counter has to be exact for    *)
(* the type invariant to be inductive.                                      *)

BarrierCounted == thp_barrier_cnt = Len(m_queue["barrier"])

TInv == TypeOK /\ BarrierCounted

LEMMA InitType == Init => TInv
<1> SUFFICES ASSUME Init PROVE TInv
  OBVIOUS
<1>1. PICK up \in SUBSET InitWorkers : thp_run_thds = Cardinality(up)
  BY DEF Init
<1>2. thp_run_thds \in Int
  BY <1>1, FS_CardinalityType, FS_Subset, PoolAssumption
<1>3. PoolType
  <2>1. thp_shutdown \in BOOLEAN
    BY DEF Init
  <2>2. /\ thp_barrier_cnt \in Int /\ thp_sched_req \in Int
        /\ stop_pc \in {"run", "wait", "woken", "stopped"}
    BY DEF Init
  <2>3. QED
    BY <1>2, <2>1, <2>2 DEF PoolType
<1>4. RequestType
  BY DEF Init, RequestType
<1>5. WorkerType
  BY DEF Init, WorkerType, WorkerLists, WorkerStates, WorkerPCs
<1>6. CallerType
  BY DEF Init, CallerType, CallerPCs
<1>7. BarrierCounted
  BY QueueNames DEF Init, BarrierCounted
<1>8. StatType
  BY DEF Init, StatType
<1>9. QED
  BY <1>3, <1>4, <1>5, <1>6, <1>7, <1>8 DEF TInv, TypeOK

LEMMA Type_schedule_barrier ==
    ASSUME TInv, NEW r \in Requests, schedule_barrier(r)
    PROVE  TInv'
<1>1. PoolType'
  BY DEF TInv, TypeOK, PoolType, poolVars, schedule_barrier
<1>2. RequestType'
  <2>1. m_queue' \in [ReqQueues -> Seq(Requests)]
    BY QueueNames, EnqueueType DEF TInv, TypeOK, RequestType, schedule_barrier
  <2>2. /\ flagged' \subseteq BarrierReqs
        /\ prior' \in [Requests -> SUBSET Requests]
    BY DEF TInv, TypeOK, RequestType, schedule_barrier
  <2>3. QED
    BY <2>1, <2>2 DEF TInv, TypeOK, RequestType, schedule_barrier
<1>3. CallerType'
  BY DEF TInv, TypeOK, CallerType, CallerPCs, callVars, schedule_barrier
<1>4. StatType'
  BY BumpType DEF TInv, TypeOK, StatType, schedule_barrier
<1>5. BarrierCounted'
  BY QueueNames DEF TInv, TypeOK, BarrierCounted, Enqueue, RequestType,
        PoolType, poolVars, reqVars, schedule_barrier
<1>6. WorkerType'
  BY DEF TInv, TypeOK, WorkerType, poolVars, reqVars, wrkVars, callVars,
        schedule_barrier
<1>7. QED
  BY <1>1, <1>2, <1>3, <1>4, <1>5, <1>6 DEF TInv, TypeOK

LEMMA Type_schedule_deferred ==
    ASSUME TInv, NEW r \in Requests, schedule_deferred(r)
    PROVE  TInv'
<1>1. PoolType'
  BY DEF TInv, TypeOK, PoolType, poolVars, schedule_deferred, Entered
<1>2. RequestType'
  BY QueueNames, PoolAssumption, EnqueueType DEF TInv, TypeOK, RequestType,
        reqVars, schedule_deferred, Entered
<1>3. CallerType'
  BY DEF TInv, TypeOK, CallerType, CallerPCs, callVars, schedule_deferred,
        Entered
<1>4. StatType'
  BY BumpType DEF TInv, TypeOK, StatType, schedule_deferred, Entered
<1>5. BarrierCounted'
  BY QueueNames DEF TInv, TypeOK, BarrierCounted, Enqueue, RequestType,
        PoolType, poolVars, reqVars, schedule_deferred, Entered
<1>6. WorkerType'
  BY DEF TInv, TypeOK, WorkerType, poolVars, reqVars, wrkVars, callVars,
        schedule_deferred
<1>7. QED
  BY <1>1, <1>2, <1>3, <1>4, <1>5, <1>6 DEF TInv, TypeOK

LEMMA Type_schedule_parked ==
    ASSUME TInv, NEW r \in Requests, NEW q \in QueueNos, schedule_parked(r, q)
    PROVE  TInv'
<1>1. PoolType'
  BY DEF TInv, TypeOK, PoolType, poolVars, schedule_parked, Admit, Goto,
        Entered
<1>2. RequestType'
  BY QueueNames, PoolAssumption, EnqueueType DEF TInv, TypeOK, RequestType,
        reqVars, schedule_parked, Admit, Goto, Entered
<1>3. CallerType'
  BY DEF TInv, TypeOK, CallerType, CallerPCs, callVars, schedule_parked,
        Admit, Goto, Entered
<1>4. StatType'
  BY BumpType DEF TInv, TypeOK, StatType, schedule_parked, Admit, Goto,
        Entered
<1>5. BarrierCounted'
  BY QueueNames DEF TInv, TypeOK, BarrierCounted, Enqueue, RequestType,
        schedule_parked, Admit
<1>6. WorkerType'
  BY DEF TInv, TypeOK, WorkerType, poolVars, reqVars, wrkVars, callVars,
        schedule_parked, Admit, Goto
<1>7. QED
  BY <1>1, <1>2, <1>3, <1>4, <1>5, <1>6 DEF TInv, TypeOK

LEMMA Type_schedule_direct ==
    ASSUME TInv,
           NEW r \in Requests, NEW q \in QueueNos, NEW w \in Workers,
           schedule_direct(r, q, w)
    PROVE  TInv'
<1>1. PoolType'
  BY DEF TInv, TypeOK, PoolType, poolVars, schedule_direct, Admit, Goto,
        Listed, thp_swap_queue, worker_update_state
<1>2. WorkerType'
  <2>1. q \in {"fast", "slow"}
    BY DEF schedule_direct, CommonQueues
  <2>2. wrk_state' \in [Workers -> WorkerStates]
    BY <2>1, UpdateStateType DEF TInv, TypeOK, WorkerType, schedule_direct,
          thp_swap_queue
  <2>3. wrk_list' \in [Workers -> WorkerLists]
    BY <2>1 DEF TInv, TypeOK, WorkerType, schedule_direct, thp_swap_queue,
          WorkerLists
  <2>4. QED
    BY <2>2, <2>3 DEF TInv, TypeOK, WorkerType, schedule_direct, Admit
<1>3. CallerType'
  BY DEF TInv, TypeOK, CallerType, CallerPCs, callVars, schedule_direct,
        Admit, Goto, Listed, thp_swap_queue, worker_update_state
<1>4. StatType'
  BY BumpType DEF TInv, TypeOK, StatType, schedule_direct, Admit, Goto,
        Listed, thp_swap_queue, worker_update_state
<1>5. RequestType' /\ BarrierCounted'
  BY DEF TInv, TypeOK, RequestType, BarrierCounted, poolVars, reqVars,
        wrkVars, callVars, schedule_direct, Admit, Goto
<1>6. QED
  BY <1>1, <1>2, <1>3, <1>4, <1>5 DEF TInv, TypeOK

LEMMA Type_schedule_round_robin ==
    ASSUME TInv,
           NEW r \in Requests, NEW q \in QueueNos, NEW w \in Workers,
           NEW v \in Workers,
           schedule_round_robin(r, q, w, v)
    PROVE  TInv'
<1>1. PoolType'
  BY DEF TInv, TypeOK, PoolType, poolVars, schedule_round_robin, Admit, Goto,
        Listed, worker_update_state
<1>2. WorkerType'
  <2>1. q \in {"fast", "slow"}
    BY DEF schedule_round_robin, CommonQueues
  <2>2. wrk_state' \in [Workers -> WorkerStates]
    BY <2>1, UpdateStateType DEF TInv, TypeOK, WorkerType,
          schedule_round_robin
  <2>3. wrk_list' \in [Workers -> WorkerLists]
    BY <2>1 DEF TInv, TypeOK, WorkerType, schedule_round_robin, WorkerLists
  <2>4. QED
    BY <2>2, <2>3 DEF TInv, TypeOK, WorkerType, schedule_round_robin, Admit
<1>3. CallerType'
  BY DEF TInv, TypeOK, CallerType, CallerPCs, callVars, schedule_round_robin,
        Admit, Goto, Listed, worker_update_state
<1>4. StatType'
  BY BumpType DEF TInv, TypeOK, StatType, schedule_round_robin, Admit, Goto,
        Listed, worker_update_state
<1>5. RequestType' /\ BarrierCounted'
  BY DEF TInv, TypeOK, RequestType, BarrierCounted, poolVars, reqVars,
        wrkVars, callVars, schedule_round_robin, Admit, Goto
<1>6. QED
  BY <1>1, <1>2, <1>3, <1>4, <1>5 DEF TInv, TypeOK

LEMMA Type_schedule_idle ==
    ASSUME TInv,
           NEW r \in Requests, NEW q \in QueueNos, NEW w \in Workers,
           schedule_idle(r, q, w)
    PROVE  TInv'
<1>1. PoolType'
  BY DEF TInv, TypeOK, PoolType, poolVars, schedule_idle, Admit, Goto, Listed
<1>2. WorkerType'
  BY QueueNames, PoolAssumption DEF TInv, TypeOK, WorkerType, WorkerLists,
        WorkerStates, WorkerPCs, wrkVars, schedule_idle, Admit, Goto, Listed
<1>3. CallerType'
  BY DEF TInv, TypeOK, CallerType, CallerPCs, callVars, schedule_idle, Admit,
        Goto, Listed
<1>4. StatType'
  BY BumpType DEF TInv, TypeOK, StatType, schedule_idle, Admit, Goto, Listed
<1>5. RequestType' /\ BarrierCounted'
  BY DEF TInv, TypeOK, RequestType, BarrierCounted, poolVars, reqVars,
        wrkVars, callVars, schedule_idle, Admit, Goto
<1>6. QED
  BY <1>1, <1>2, <1>3, <1>4, <1>5 DEF TInv, TypeOK

LEMMA Type_schedule_common ==
    ASSUME TInv, NEW r \in Requests, NEW q \in QueueNos, schedule_common(r, q)
    PROVE  TInv'
<1>1. PoolType'
  BY DEF TInv, TypeOK, PoolType, poolVars, schedule_common, Admit, Goto,
        Listed
<1>2. RequestType'
  BY QueueNames, PoolAssumption, EnqueueType DEF TInv, TypeOK, RequestType,
        reqVars, schedule_common, Admit, Goto, Listed
<1>3. WorkerType'
  BY QueueNames, PoolAssumption DEF TInv, TypeOK, WorkerType, WorkerLists,
        WorkerStates, WorkerPCs, wrkVars, schedule_common, Admit, Goto,
        Listed
<1>4. CallerType'
  BY DEF TInv, TypeOK, CallerType, CallerPCs, callVars, schedule_common,
        Admit, Goto, Listed
<1>5. StatType'
  BY BumpType DEF TInv, TypeOK, StatType, schedule_common, Admit, Goto, Listed
<1>6. BarrierCounted'
  BY QueueNames DEF TInv, TypeOK, BarrierCounted, Enqueue, RequestType,
        schedule_common, Admit
<1>7. QED
  BY <1>1, <1>2, <1>3, <1>4, <1>5, <1>6 DEF TInv, TypeOK

LEMMA Type_schedule_inline ==
    ASSUME TInv, NEW r \in Requests, NEW q \in QueueNos, schedule_inline(r, q)
    PROVE  TInv'
<1>1. PoolType'
  BY DEF TInv, TypeOK, PoolType, poolVars, schedule_inline, Admit, Goto
<1>2. CallerType'
  BY DEF TInv, TypeOK, CallerType, CallerPCs, callVars, schedule_inline,
        Admit, Goto
<1>3. StatType'
  BY BumpType DEF TInv, TypeOK, StatType, schedule_inline, Admit, Goto
<1>4. RequestType' /\ WorkerType' /\ BarrierCounted'
  BY DEF TInv, TypeOK, RequestType, WorkerType, BarrierCounted, poolVars,
        reqVars, wrkVars, callVars, schedule_inline, Admit, Goto
<1>5. QED
  BY <1>1, <1>2, <1>3, <1>4 DEF TInv, TypeOK

LEMMA Type_worker_enqueue ==
    ASSUME TInv, NEW r \in Requests, worker_enqueue(r)
    PROVE  TInv'
<1>1. WorkerType'
  <2>1. wrk_queue \in [Workers -> Seq(Requests)] /\ target[r] \in Workers
    BY DEF TInv, TypeOK, WorkerType, CallerType, worker_enqueue
  <2>2. wrk_queue' \in [Workers -> Seq(Requests)]
    <3>1. CASE wrk_queue' = [wrk_queue EXCEPT ![target[r]] = Append(@, r)]
      BY <2>1, <3>1
    <3>2. CASE wrk_queue' = wrk_queue
      BY <2>1, <3>2
    <3>3. QED
      BY <3>1, <3>2 DEF worker_enqueue
  <2>3. wpc' \in [Workers -> WorkerPCs]
    BY DEF TInv, TypeOK, WorkerType, worker_enqueue, Signal, WorkerPCs
  <2>4. \A w \in Workers :
           wpc'[w] \in {"exec", "finish"} => wpc[w] \in {"exec", "finish"}
    BY DEF TInv, TypeOK, WorkerType, worker_enqueue, Signal
  <2>5. QED
    BY <2>2, <2>3, <2>4 DEF TInv, TypeOK, WorkerType, worker_enqueue
<1>2. CallerType'
  BY DEF TInv, TypeOK, CallerType, CallerPCs, callVars, worker_enqueue, Signal
<1>3. StatType'
  BY BumpType DEF TInv, TypeOK, StatType, worker_enqueue, Signal
<1>4. PoolType' /\ RequestType' /\ BarrierCounted'
  BY DEF TInv, TypeOK, PoolType, RequestType, BarrierCounted, poolVars,
        reqVars, wrkVars, callVars, worker_enqueue
<1>5. QED
  BY <1>1, <1>2, <1>3, <1>4 DEF TInv, TypeOK

LEMMA Type_exec_inline ==
    ASSUME TInv, NEW r \in Requests, exec_inline(r)
    PROVE  TInv'
<1>1. RequestType'
  <2>1. executed' \in [Requests -> Nat]
    <3>1. CASE Chained(r)
      BY <3>1 DEF TInv, TypeOK, RequestType, exec_inline
    <3>2. CASE ~Chained(r)
      BY <3>2 DEF TInv, TypeOK, RequestType, exec_inline
    <3>3. QED
      BY <3>1, <3>2
  <2>2. QED
    BY <2>1 DEF TInv, TypeOK, RequestType, exec_inline, reqVars
<1>2. CallerType'
  BY DEF TInv, TypeOK, CallerType, CallerPCs, callVars, exec_inline
<1>3. StatType'
  BY BumpType DEF TInv, TypeOK, StatType, exec_inline
<1>4. PoolType' /\ WorkerType' /\ BarrierCounted'
  BY DEF TInv, TypeOK, PoolType, WorkerType, BarrierCounted, poolVars,
        reqVars, wrkVars, callVars, exec_inline
<1>5. QED
  BY <1>1, <1>2, <1>3, <1>4 DEF TInv, TypeOK

LEMMA Type_spawn_check ==
    ASSUME TInv, NEW r \in Requests, spawn_check(r)
    PROVE  TInv'
<1>1. CallerType'
  BY DEF TInv, TypeOK, CallerType, CallerPCs, callVars, spawn_check, SpawnStep
<1>2. PoolType' /\ RequestType' /\ WorkerType' /\ StatType' /\ BarrierCounted'
  BY DEF TInv, TypeOK, PoolType, RequestType, WorkerType, StatType,
        BarrierCounted, poolVars, reqVars, wrkVars, callVars, spawn_check,
        SpawnStep
<1>3. QED
  BY <1>1, <1>2 DEF TInv, TypeOK

LEMMA Type_spawn_state ==
    ASSUME TInv, NEW r \in Requests, spawn_state(r)
    PROVE  TInv'
<1>1. WorkerType'
  BY QueueNames, PoolAssumption DEF TInv, TypeOK, WorkerType, WorkerLists,
        WorkerStates, WorkerPCs, wrkVars, spawn_state, SpawnStep
<1>2. CallerType'
  BY DEF TInv, TypeOK, CallerType, CallerPCs, callVars, spawn_state, SpawnStep
<1>3. PoolType' /\ RequestType' /\ StatType' /\ BarrierCounted'
  BY DEF TInv, TypeOK, PoolType, RequestType, StatType, BarrierCounted,
        poolVars, reqVars, wrkVars, callVars, spawn_state, SpawnStep
<1>4. QED
  BY <1>1, <1>2, <1>3 DEF TInv, TypeOK

LEMMA Type_spawn_count ==
    ASSUME TInv, NEW r \in Requests, spawn_count(r)
    PROVE  TInv'
<1>1. PoolType'
  BY DEF TInv, TypeOK, PoolType, poolVars, spawn_count, SpawnStep
<1>2. CallerType'
  BY DEF TInv, TypeOK, CallerType, CallerPCs, callVars, spawn_count, SpawnStep
<1>3. RequestType' /\ WorkerType' /\ StatType' /\ BarrierCounted'
  BY DEF TInv, TypeOK, RequestType, WorkerType, StatType, BarrierCounted,
        poolVars, reqVars, wrkVars, callVars, spawn_count, SpawnStep
<1>4. QED
  BY <1>1, <1>2, <1>3 DEF TInv, TypeOK

LEMMA Type_spawn_create ==
    ASSUME TInv, NEW r \in Requests, spawn_create(r)
    PROVE  TInv'
<1>1. WorkerType'
  BY QueueNames, PoolAssumption DEF TInv, TypeOK, WorkerType, WorkerLists,
        WorkerStates, WorkerPCs, wrkVars, spawn_create, SpawnStep
<1>2. CallerType'
  BY DEF TInv, TypeOK, CallerType, CallerPCs, callVars, spawn_create,
        SpawnStep
<1>3. PoolType' /\ RequestType' /\ StatType' /\ BarrierCounted'
  BY DEF TInv, TypeOK, PoolType, RequestType, StatType, BarrierCounted,
        poolVars, reqVars, wrkVars, callVars, spawn_create, SpawnStep
<1>4. QED
  BY <1>1, <1>2, <1>3 DEF TInv, TypeOK

LEMMA Type_spawn_fail ==
    ASSUME TInv, NEW r \in Requests, spawn_fail(r)
    PROVE  TInv'
<1>1. PoolType'
  BY DEF TInv, TypeOK, PoolType, poolVars, spawn_fail, SpawnStep, SpawnFails
<1>2. CallerType'
  BY DEF TInv, TypeOK, CallerType, CallerPCs, callVars, spawn_fail,
        SpawnStep, SpawnFails
<1>3. RequestType' /\ WorkerType' /\ StatType' /\ BarrierCounted'
  BY DEF TInv, TypeOK, RequestType, WorkerType, StatType, BarrierCounted,
        poolVars, reqVars, wrkVars, callVars, spawn_fail, SpawnStep,
        SpawnFails
<1>4. QED
  BY <1>1, <1>2, <1>3 DEF TInv, TypeOK

LEMMA Type_spawn_undo ==
    ASSUME TInv, NEW r \in Requests, spawn_undo(r)
    PROVE  TInv'
<1>1. WorkerType'
  BY QueueNames, PoolAssumption DEF TInv, TypeOK, WorkerType, WorkerLists,
        WorkerStates, WorkerPCs, wrkVars, spawn_undo, SpawnStep,
        thp_swap_queue, worker_update_state
<1>2. CallerType'
  BY DEF TInv, TypeOK, CallerType, CallerPCs, callVars, spawn_undo,
        SpawnStep, thp_swap_queue, worker_update_state
<1>3. PoolType' /\ RequestType' /\ StatType' /\ BarrierCounted'
  BY DEF TInv, TypeOK, PoolType, RequestType, StatType, BarrierCounted,
        poolVars, reqVars, wrkVars, callVars, spawn_undo, SpawnStep
<1>4. QED
  BY <1>1, <1>2, <1>3 DEF TInv, TypeOK

LEMMA Type_worker_start ==
    ASSUME TInv, NEW w \in Workers, worker_start(w)
    PROVE  TInv'
<1>1. WorkerType'
  BY QueueNames, PoolAssumption DEF TInv, TypeOK, WorkerType, WorkerLists,
        WorkerStates, WorkerPCs, wrkVars, worker_start, WorkerStep,
        thp_swap_queue, worker_update_state
<1>2. PoolType' /\ RequestType' /\ CallerType' /\ StatType' /\ BarrierCounted'
  BY DEF TInv, TypeOK, PoolType, RequestType, CallerType, StatType,
        BarrierCounted, poolVars, reqVars, wrkVars, callVars, worker_start,
        WorkerStep
<1>3. QED
  BY <1>1, <1>2 DEF TInv, TypeOK

LEMMA Type_worker_check ==
    ASSUME TInv, NEW w \in Workers, worker_check(w)
    PROVE  TInv'
<1>1. WorkerType'
  BY QueueNames, PoolAssumption DEF TInv, TypeOK, WorkerType, WorkerLists,
        WorkerStates, WorkerPCs, wrkVars, worker_check, WorkerStep
<1>2. PoolType' /\ RequestType' /\ CallerType' /\ StatType' /\ BarrierCounted'
  BY DEF TInv, TypeOK, PoolType, RequestType, CallerType, StatType,
        BarrierCounted, poolVars, reqVars, wrkVars, callVars, worker_check,
        WorkerStep
<1>3. QED
  BY <1>1, <1>2 DEF TInv, TypeOK

LEMMA Type_worker_pop ==
    ASSUME TInv, NEW w \in Workers, worker_pop(w)
    PROVE  TInv'
<1>1. WorkerType'
  BY QueueNames, PoolAssumption DEF TInv, TypeOK, WorkerType, WorkerLists,
        WorkerStates, WorkerPCs, wrkVars, worker_pop, WorkerStep
<1>2. StatType'
  BY BumpType DEF TInv, TypeOK, StatType, worker_pop, WorkerStep
<1>3. PoolType' /\ RequestType' /\ CallerType' /\ BarrierCounted'
  BY DEF TInv, TypeOK, PoolType, RequestType, CallerType, BarrierCounted,
        poolVars, reqVars, wrkVars, callVars, worker_pop, WorkerStep
<1>4. QED
  BY <1>1, <1>2, <1>3 DEF TInv, TypeOK

LEMMA Type_get_common ==
    ASSUME TInv, NEW w \in Workers, NEW q \in CommonQueues, get_common(w, q)
    PROVE  TInv'
<1>1. RequestType'
  BY QueueNames, DequeueType DEF TInv, TypeOK, RequestType, get_common
<1>2. WorkerType'
  <2>1. Head(m_queue[q]) \in Requests
    BY QueueNames, DequeueType DEF TInv, TypeOK, RequestType, get_common
  <2>2. q \in {"fast", "slow"}
    BY DEF CommonQueues
  <2>3. wrk_state' \in [Workers -> WorkerStates]
    BY <2>2, UpdateStateType DEF TInv, TypeOK, WorkerType, get_common,
          thp_swap_queue
  <2>4. QED
    BY <2>1, <2>2, <2>3 DEF TInv, TypeOK, WorkerType, WorkerLists, WorkerPCs,
          get_common, thp_swap_queue, WorkerStep
<1>3. StatType'
  BY BumpType DEF TInv, TypeOK, StatType, get_common, WorkerStep,
        thp_swap_queue, worker_update_state
<1>4. BarrierCounted'
  BY QueueNames DEF TInv, TypeOK, BarrierCounted, Dequeue, RequestType,
        get_common, poolVars
<1>5. PoolType' /\ CallerType'
  BY DEF TInv, TypeOK, PoolType, CallerType, poolVars, reqVars, wrkVars,
        callVars, get_common, WorkerStep
<1>6. QED
  BY <1>1, <1>2, <1>3, <1>4, <1>5 DEF TInv, TypeOK

LEMMA Type_put_idle ==
    ASSUME TInv, NEW w \in Workers, put_idle(w)
    PROVE  TInv'
<1>1. WorkerType'
  BY QueueNames, PoolAssumption DEF TInv, TypeOK, WorkerType, WorkerLists,
        WorkerStates, WorkerPCs, wrkVars, put_idle, WorkerStep,
        thp_swap_queue, worker_update_state
<1>2. PoolType' /\ RequestType' /\ CallerType' /\ StatType' /\ BarrierCounted'
  BY DEF TInv, TypeOK, PoolType, RequestType, CallerType, StatType,
        BarrierCounted, poolVars, reqVars, wrkVars, callVars, put_idle,
        WorkerStep
<1>3. QED
  BY <1>1, <1>2 DEF TInv, TypeOK

LEMMA Type_get_barrier ==
    ASSUME TInv, NEW w \in Workers, get_barrier(w)
    PROVE  TInv'
<1>1. PoolType'
  BY DEF TInv, TypeOK, PoolType, poolVars, get_barrier, Listed
<1>2. RequestType'
  <2> DEFINE rest == Tail(m_queue["barrier"])
  <2>1. rest \in Seq(Requests) /\ m_queue \in [ReqQueues -> Seq(Requests)]
    BY QueueNames DEF TInv, TypeOK, RequestType, BarrierCounted, get_barrier
  <2>2. PICK k \in 0..Len(rest) :
           m_queue' = [m_queue EXCEPT !["fast"] = @ \o SubSeq(rest, 1, k),
                                      !["barrier"] = SubSeq(rest, k + 1, Len(rest))]
    BY DEF get_barrier
  <2> DEFINE ready == SubSeq(rest, 1, k)
             later == SubSeq(rest, k + 1, Len(rest))
  <2>3. ready \in Seq(Requests) /\ later \in Seq(Requests)
    BY <2>1
  <2>4. m_queue["fast"] \o ready \in Seq(Requests)
    BY <2>1, <2>3, QueueNames
  <2>5. m_queue' = [m_queue EXCEPT !["fast"] = @ \o ready, !["barrier"] = later]
    BY <2>2
  <2>6. m_queue' \in [ReqQueues -> Seq(Requests)]
    <3> HIDE DEF ready, later, rest
    <3> QED
      BY <2>1, <2>3, <2>4, <2>5, QueueNames
  <2>7. QED
    BY <2>6 DEF TInv, TypeOK, RequestType, get_barrier
<1>3. WorkerType'
  <2>1. Head(m_queue["barrier"]) \in Requests
    BY QueueNames DEF TInv, TypeOK, RequestType, BarrierCounted, get_barrier
  <2>2. /\ wrk_state' \in [Workers -> WorkerStates]
        /\ wrk_list' \in [Workers -> WorkerLists]
        /\ wpc' \in [Workers -> WorkerPCs]
    BY DEF TInv, TypeOK, WorkerType, get_barrier, WorkerStates, WorkerLists,
          WorkerPCs
  <2>3. cur' \in [Workers -> Requests \cup {None}]
    BY <2>1 DEF TInv, TypeOK, WorkerType, get_barrier
  <2>4. \A v \in Workers : wpc'[v] \in {"exec", "finish"} => cur'[v] \in Requests
    BY <2>1 DEF TInv, TypeOK, WorkerType, get_barrier
  <2>5. QED
    BY <2>2, <2>3, <2>4 DEF TInv, TypeOK, WorkerType, get_barrier
<1>4. StatType'
  BY BumpType DEF TInv, TypeOK, StatType, get_barrier, Listed
<1>5. BarrierCounted'
  BY QueueNames DEF TInv, TypeOK, BarrierCounted, Enqueue, RequestType,
        PoolType, poolVars, reqVars, get_barrier, Listed
<1>6. CallerType'
  BY DEF TInv, TypeOK, CallerType, poolVars, reqVars, wrkVars, callVars,
        get_barrier
<1>7. QED
  BY <1>1, <1>2, <1>3, <1>4, <1>5, <1>6 DEF TInv, TypeOK

LEMMA Type_worker_recheck ==
    ASSUME TInv, NEW w \in Workers, worker_recheck(w)
    PROVE  TInv'
<1>1. WorkerType'
  BY QueueNames, PoolAssumption DEF TInv, TypeOK, WorkerType, WorkerLists,
        WorkerStates, WorkerPCs, wrkVars, worker_recheck, WorkerStep
<1>2. PoolType' /\ RequestType' /\ CallerType' /\ StatType' /\ BarrierCounted'
  BY DEF TInv, TypeOK, PoolType, RequestType, CallerType, StatType,
        BarrierCounted, poolVars, reqVars, wrkVars, callVars, worker_recheck,
        WorkerStep
<1>3. QED
  BY <1>1, <1>2 DEF TInv, TypeOK

LEMMA Type_worker_verify ==
    ASSUME TInv, NEW w \in Workers, worker_verify(w)
    PROVE  TInv'
<1>1. WorkerType'
  BY QueueNames, PoolAssumption DEF TInv, TypeOK, WorkerType, WorkerLists,
        WorkerStates, WorkerPCs, wrkVars, worker_verify, WorkerStep
<1>2. PoolType' /\ RequestType' /\ CallerType' /\ StatType' /\ BarrierCounted'
  BY DEF TInv, TypeOK, PoolType, RequestType, CallerType, StatType,
        BarrierCounted, poolVars, reqVars, wrkVars, callVars, worker_verify,
        WorkerStep
<1>3. QED
  BY <1>1, <1>2 DEF TInv, TypeOK

LEMMA Type_worker_wait ==
    ASSUME TInv, NEW w \in Workers, worker_wait(w)
    PROVE  TInv'
<1>1. WorkerType'
  BY QueueNames, PoolAssumption DEF TInv, TypeOK, WorkerType, WorkerLists,
        WorkerStates, WorkerPCs, wrkVars, worker_wait, WorkerStep
<1>2. PoolType' /\ RequestType' /\ CallerType' /\ StatType' /\ BarrierCounted'
  BY DEF TInv, TypeOK, PoolType, RequestType, CallerType, StatType,
        BarrierCounted, poolVars, reqVars, wrkVars, callVars, worker_wait,
        WorkerStep
<1>3. QED
  BY <1>1, <1>2 DEF TInv, TypeOK

LEMMA Type_spurious_wakeup ==
    ASSUME TInv, NEW w \in Workers, spurious_wakeup(w)
    PROVE  TInv'
<1>1. WorkerType'
  BY QueueNames, PoolAssumption DEF TInv, TypeOK, WorkerType, WorkerLists,
        WorkerStates, WorkerPCs, wrkVars, spurious_wakeup, WorkerStep
<1>2. PoolType' /\ RequestType' /\ CallerType' /\ StatType' /\ BarrierCounted'
  BY DEF TInv, TypeOK, PoolType, RequestType, CallerType, StatType,
        BarrierCounted, poolVars, reqVars, wrkVars, callVars,
        spurious_wakeup, WorkerStep
<1>3. QED
  BY <1>1, <1>2 DEF TInv, TypeOK

LEMMA Type_worker_exec ==
    ASSUME TInv, NEW w \in Workers, worker_exec(w)
    PROVE  TInv'
<1>1. RequestType'
  BY DEF TInv, TypeOK, RequestType, WorkerType, worker_exec, reqVars,
        WorkerStep
<1>2. WorkerType'
  BY QueueNames, PoolAssumption DEF TInv, TypeOK, WorkerType, WorkerLists,
        WorkerStates, WorkerPCs, wrkVars, worker_exec, WorkerStep
<1>3. PoolType' /\ CallerType' /\ StatType' /\ BarrierCounted'
  BY DEF TInv, TypeOK, PoolType, CallerType, StatType, BarrierCounted,
        poolVars, reqVars, wrkVars, callVars, worker_exec, WorkerStep
<1>4. QED
  BY <1>1, <1>2, <1>3 DEF TInv, TypeOK

LEMMA Type_worker_finish ==
    ASSUME TInv, NEW w \in Workers, worker_finish(w)
    PROVE  TInv'
<1>1. PoolType'
  BY DEF TInv, TypeOK, PoolType, poolVars, worker_finish, WorkerStep,
        FinishWith
<1>2. WorkerType'
  BY QueueNames, PoolAssumption DEF TInv, TypeOK, WorkerType, WorkerLists,
        WorkerStates, WorkerPCs, wrkVars, worker_finish, WorkerStep,
        FinishWith
<1>3. RequestType' /\ CallerType' /\ StatType' /\ BarrierCounted'
  BY DEF TInv, TypeOK, RequestType, CallerType, StatType, BarrierCounted,
        poolVars, reqVars, wrkVars, callVars, worker_finish, WorkerStep,
        FinishWith
<1>4. QED
  BY <1>1, <1>2, <1>3 DEF TInv, TypeOK

LEMMA Type_thp_thread_terminate ==
    ASSUME TInv, NEW w \in Workers, thp_thread_terminate(w)
    PROVE  TInv'
<1>1. PoolType'
  BY DEF TInv, TypeOK, PoolType, poolVars, thp_thread_terminate,
        thp_swap_queue, worker_update_state
<1>2. WorkerType'
  BY QueueNames, PoolAssumption DEF TInv, TypeOK, WorkerType, WorkerLists,
        WorkerStates, WorkerPCs, wrkVars, thp_thread_terminate,
        thp_swap_queue, worker_update_state
<1>3. RequestType' /\ CallerType' /\ StatType' /\ BarrierCounted'
  BY DEF TInv, TypeOK, RequestType, CallerType, StatType, BarrierCounted,
        poolVars, reqVars, wrkVars, callVars, thp_thread_terminate
<1>4. QED
  BY <1>1, <1>2, <1>3 DEF TInv, TypeOK

LEMMA Type_thp_stop ==
    ASSUME TInv, thp_stop
    PROVE  TInv'
<1>1. PoolType'
  BY DEF TInv, TypeOK, PoolType, poolVars, thp_stop, Signal, StopTest
<1>2. WorkerType'
  BY QueueNames, PoolAssumption DEF TInv, TypeOK, WorkerType, WorkerLists,
        WorkerStates, WorkerPCs, wrkVars, thp_stop, Signal, StopTest
<1>3. RequestType' /\ CallerType' /\ StatType' /\ BarrierCounted'
  BY DEF TInv, TypeOK, RequestType, CallerType, StatType, BarrierCounted,
        poolVars, reqVars, wrkVars, callVars, thp_stop
<1>4. QED
  BY <1>1, <1>2, <1>3 DEF TInv, TypeOK

LEMMA Type_thp_stop_woken ==
    ASSUME TInv, thp_stop_woken
    PROVE  TInv'
<1>1. PoolType'
  BY DEF TInv, TypeOK, PoolType, poolVars, thp_stop_woken, StopTest
<1>2. RequestType' /\ WorkerType' /\ CallerType' /\ StatType' /\ BarrierCounted'
  BY DEF TInv, TypeOK, RequestType, WorkerType, CallerType, StatType,
        BarrierCounted, poolVars, reqVars, wrkVars, callVars, thp_stop_woken
<1>3. QED
  BY <1>1, <1>2 DEF TInv, TypeOK

LEMMA StepType == ASSUME TInv, [Next]_vars PROVE TInv'
<1>1. CASE UNCHANGED vars
  BY <1>1 DEF vars, poolVars, reqVars, wrkVars, callVars, TInv, TypeOK,
        PoolType, RequestType, WorkerType, CallerType, StatType,
        BarrierCounted
<1>2. ASSUME NEW r \in Requests, Schedule(r) PROVE TInv'
  BY <1>2, Type_schedule_deferred, Type_schedule_parked, Type_schedule_direct,
     Type_schedule_idle, Type_schedule_round_robin, Type_schedule_common,
     Type_schedule_inline DEF Schedule
<1>3. ASSUME NEW r \in Requests, CallerStep(r) PROVE TInv'
  BY <1>3, Type_worker_enqueue, Type_exec_inline, Type_spawn_check,
     Type_spawn_state, Type_spawn_count, Type_spawn_create, Type_spawn_fail,
     Type_spawn_undo DEF CallerStep
<1>4. ASSUME NEW w \in Workers, WorkerThread(w) PROVE TInv'
  BY <1>4, Type_worker_start, Type_worker_check, Type_worker_pop,
     Type_get_common, Type_put_idle, Type_get_barrier, Type_worker_recheck,
     Type_worker_verify, Type_worker_wait, Type_worker_exec,
     Type_worker_finish, Type_thp_thread_terminate DEF WorkerThread
<1>5. QED
  BY <1>1, <1>2, <1>3, <1>4, Type_schedule_barrier, Type_spurious_wakeup,
     Type_thp_stop, Type_thp_stop_woken DEF Next

(* The type invariant holds: schedule and worker_spawn_thr never go on      *)
(* without a worker, no worker executes a null request, and the barrier     *)
(* counter never runs ahead of the barrier queue, whose front is taken      *)
(* without a test (request.cpp, lines 513-516).                             *)
THEOREM PoolTypeCorrect == Spec => []TypeOK
<1>1. TInv => TypeOK
  BY DEF TInv
<1>2. QED
  BY InitType, StepType, <1>1, PTL DEF Spec

-----------------------------------------------------------------------------
(* No wake-up is lost and no sleeper forgotten, when the pool is stopped    *)
(* only while no call of schedule is under way.                             *)

SpawnPCs == {"spawn", "spawn_state", "spawn_count", "spawn_create", "spawn_undo"}

(* A call of schedule and thp_stop do not overlap.                          *)
QuietStop ==
    stop_pc # "run" => \A r \in Requests : cpc[r] \in {"init", "done"}

(* Before thp_stop no thread is told to terminate, so none leaves its loop. *)
RunningStates ==
    stop_pc = "run" =>
        \A w \in Workers :
            wpc[w] # "exit" /\ (wpc[w] # "none" => wrk_state[w] # "terminate")

(* A caller that starts a worker has it to itself.                          *)
SpawnTargets ==
    \A r \in Requests :
        cpc[r] \in SpawnPCs =>
            /\ wpc[target[r]] = "none" /\ wrk_list[target[r]] = "none"
            /\ \A x \in Requests :
                  cpc[x] \in SpawnPCs /\ target[x] = target[r] => x = r

(* worker_spawn_thr has set the state before it creates the thread.         *)
SpawnStates ==
    \A r \in Requests :
        cpc[r] \in {"spawn_count", "spawn_create"} =>
            wrk_state[target[r]] # "terminate"

(* The workers on the dormant list have no thread, those on the other lists *)
(* and those that are about to get a request have one.                      *)
ListedThreads ==
    /\ \A w \in Workers : wrk_list[w] = "dorman" => wpc[w] = "none"
    /\ \A w \in Workers : wrk_list[w] \in {"idle", "fast", "slow"} => wpc[w] # "none"
    /\ \A r \in Requests : cpc[r] = "enqueue" => wpc[target[r]] # "none"

(* SleepersTracked, from the step that puts the worker on the idle list on. *)
RestersTracked ==
    \A w \in Workers :
        wpc[w] \in {"recheck", "verify", "wait", "sleep"} =>
            \/ wrk_list[w] \in {"idle", "fast"}
            \/ \E r \in Requests : cpc[r] = "enqueue" /\ target[r] = w

Threads ==
    QuietStop /\ RunningStates /\ SpawnTargets /\ SpawnStates /\ ListedThreads

Wakes == NoWakeupLost /\ RestersTracked

WInv == TInv /\ Threads /\ Wakes

LEMMA InitWake == Init => WInv
<1> SUFFICES ASSUME Init PROVE WInv
  OBVIOUS
<1>1. TInv
  BY InitType
<1>2. QuietStop /\ SpawnTargets /\ SpawnStates
  BY DEF Init, QuietStop, SpawnTargets, SpawnStates, SpawnPCs
<1>3. RunningStates /\ ListedThreads
  BY DEF Init, RunningStates, ListedThreads
<1>4. Wakes
  BY DEF Init, Wakes, NoWakeupLost, RestersTracked
<1>5. QED
  BY <1>1, <1>2, <1>3, <1>4 DEF WInv, Threads

(* One step per action: Threads and Wakes together where the provers take   *)
(* both at once.                                                            *)
LEMMA StepWake ==
    ASSUME WInv, [Next]_vars, StopPolicy # "any"
    PROVE  WInv'
<1> USE PoolAssumption
    DEF WInv, Threads, Wakes, TInv, TypeOK, WorkerType, CallerType, WorkerPCs,
        CallerPCs, SpawnPCs, QuietStop, RunningStates, SpawnTargets,
        SpawnStates, ListedThreads, NoWakeupLost, Looking, RestersTracked,
        poolVars, wrkVars, callVars
<1>1. ASSUME NEW r \in Requests, schedule_barrier(r)
      PROVE  (Threads /\ Wakes)'
  BY <1>1 DEF schedule_barrier, Entered, MayCall
<1>2. ASSUME NEW r \in Requests, schedule_deferred(r)
      PROVE  (Threads /\ Wakes)'
  BY <1>2 DEF schedule_deferred, Entered, MayCall
<1>3. ASSUME NEW r \in Requests, NEW q \in QueueNos, schedule_parked(r, q)
      PROVE  (Threads /\ Wakes)'
  BY <1>3 DEF schedule_parked, Admit, Goto, Entered, MayCall
<1>4. ASSUME NEW r \in Requests, NEW q \in QueueNos, NEW w \in Workers,
             schedule_direct(r, q, w)
      PROVE  (Threads /\ Wakes)'
  <2> USE <1>4
  <2>1. q \in {"fast", "slow"}
    BY DEF schedule_direct, CommonQueues
  <2>2. QuietStop' /\ RunningStates' /\ SpawnTargets' /\ SpawnStates'
    BY <2>1 DEF schedule_direct, Admit, Goto, Listed, thp_swap_queue,
          worker_update_state, Entered, MayCall
  <2>3. ListedThreads'
    <3>1. wpc[w] # "none" /\ wpc' = wpc
      BY <2>1 DEF schedule_direct, Listed, Admit
    <3>2. /\ wrk_list' = [wrk_list EXCEPT ![w] = q]
          /\ cpc' = [cpc EXCEPT ![r] = "enqueue"]
          /\ target' = [target EXCEPT ![r] = w]
      BY DEF schedule_direct, Goto, thp_swap_queue
    <3>3. QED
      BY <2>1, <3>1, <3>2
  <2>4. NoWakeupLost' /\ RestersTracked'
    BY DEF schedule_direct, Admit, Entered, Goto, Listed, thp_swap_queue
  <2>5. QED
    BY <2>2, <2>3, <2>4
<1>5. ASSUME NEW r \in Requests, NEW q \in QueueNos,
             NEW w \in Workers, NEW v \in Workers,
             schedule_round_robin(r, q, w, v)
      PROVE  (Threads /\ Wakes)'
  <2> USE <1>5
  <2>1. q \in {"fast", "slow"}
    BY DEF schedule_round_robin, CommonQueues
  <2>2. QuietStop' /\ RunningStates' /\ SpawnTargets' /\ SpawnStates'
    BY <2>1 DEF schedule_round_robin, Admit, Goto, Listed,
          worker_update_state, Entered, MayCall
  <2>3. ListedThreads'
    <3>1. wpc[v] # "none" /\ wpc' = wpc
      BY <2>1 DEF schedule_round_robin, Listed, Admit
    <3>2. /\ cpc' = [cpc EXCEPT ![r] = "enqueue"]
          /\ target' = [target EXCEPT ![r] = v]
      BY DEF schedule_round_robin, Goto
    <3>3. \A x \in Workers : wrk_list'[x] \in {wrk_list[x], "none"}
      BY DEF schedule_round_robin
    <3>4. QED
      BY <3>1, <3>2, <3>3
  <2>4. NoWakeupLost' /\ RestersTracked'
    BY DEF schedule_round_robin, Admit, Entered, Goto, Listed
  <2>5. QED
    BY <2>2, <2>3, <2>4
<1>6. ASSUME NEW r \in Requests, NEW q \in QueueNos, NEW w \in Workers,
             schedule_idle(r, q, w)
      PROVE  (Threads /\ Wakes)'
  BY <1>6 DEF schedule_idle, Admit, Goto, Listed, Entered, MayCall
<1>7. ASSUME NEW r \in Requests, NEW q \in QueueNos, schedule_common(r, q)
      PROVE  (Threads /\ Wakes)'
  <2> USE <1>7
  <2>1. /\ cpc[r] \in {"init", "schedule"} /\ stop_pc = "run"
        /\ UNCHANGED <<wpc, wrk_state, wrk_queue, stop_pc>>
    BY DEF schedule_common, Admit, Entered, MayCall
  <2>2. CASE Goto(r, "done", None) /\ UNCHANGED wrk_list
    BY <2>1, <2>2 DEF Goto
  <2>3. ASSUME NEW w \in Listed("dorman"),
               wrk_list' = [wrk_list EXCEPT ![w] = "none"], Goto(r, "spawn", w)
        PROVE  (Threads /\ Wakes)'
    <3>1. w \in Workers /\ wrk_list[w] = "dorman" /\ wpc[w] = "none"
      BY DEF Listed
    <3>2. QuietStop' /\ RunningStates' /\ SpawnStates'
      BY <2>1, <2>3, <3>1 DEF Goto
    <3>3. SpawnTargets'
      BY <2>1, <2>3, <3>1 DEF Goto
    <3>4. ListedThreads' /\ NoWakeupLost'
      BY <2>1, <2>3, <3>1 DEF Goto
    <3>5. RestersTracked'
      BY <2>1, <2>3, <3>1 DEF Goto
    <3>6. QED
      BY <3>2, <3>3, <3>4, <3>5
  <2>4. QED
    BY <2>2, <2>3 DEF schedule_common
<1>8. ASSUME NEW r \in Requests, NEW q \in QueueNos, schedule_inline(r, q)
      PROVE  (Threads /\ Wakes)'
  BY <1>8 DEF schedule_inline, Admit, Goto, Entered, MayCall
<1>9. ASSUME NEW r \in Requests, worker_enqueue(r)
      PROVE  (Threads /\ Wakes)'
  <2> USE <1>9
  <2> DEFINE w == target[r]
  <2>1. w \in Workers /\ cpc[r] = "enqueue" /\ stop_pc = "run"
    BY DEF worker_enqueue
  <2>2. wpc[w] \in {"start", "loop", "sleep", "exec", "finish"}
    <3>1. wpc[w] \in WorkerPCs /\ wpc[w] \notin {"none", "exit"}
      BY <2>1
    <3>2. wpc[w] \notin {"abort", "pop", "recheck", "verify", "wait"}
      BY <2>1 DEF worker_enqueue, HoldsLock, Aborted
    <3>3. QED
      BY <3>1, <3>2
  <2>3. wrk_state[w] # "terminate"
    BY <2>1
  <2>4. /\ wrk_queue' = [wrk_queue EXCEPT ![w] = Append(@, r)]
        /\ cpc' = [cpc EXCEPT ![r] = "done"]
        /\ UNCHANGED <<target, stop_pc, wrk_list, wrk_state>>
    BY <2>3 DEF worker_enqueue
  <2>5. wpc' = [v \in Workers |->
                   IF v = w /\ wpc[v] = "sleep" THEN "loop" ELSE wpc[v]]
    <3>1. Signal({w})
      BY <2>3 DEF worker_enqueue
    <3> HIDE DEF w
    <3>2. QED
      BY <3>1 DEF Signal
  <2>6. QuietStop' /\ RunningStates' /\ SpawnTargets' /\ SpawnStates'
    BY <2>1, <2>4, <2>5
  <2>7. ListedThreads'
    BY <2>1, <2>4, <2>5
  <2>8. NoWakeupLost'
    BY <2>1, <2>2, <2>4, <2>5
  <2>9. RestersTracked'
    BY <2>1, <2>2, <2>4, <2>5
  <2>10. QED
    BY <2>6, <2>7, <2>8, <2>9
<1>10. ASSUME NEW r \in Requests, exec_inline(r)
      PROVE  (Threads /\ Wakes)'
  <2> USE <1>10
  <2>1. /\ cpc[r] = "inline"
        /\ UNCHANGED <<wpc, wrk_list, wrk_state, wrk_queue, target, stop_pc>>
        /\ \E pc \in {"abort", "done"} : cpc' = [cpc EXCEPT ![r] = pc]
    BY DEF exec_inline
  <2>2. QuietStop'
    <3>1. stop_pc = "run"
      BY <2>1
    <3>2. QED
      BY <2>1, <3>1
  <2>3. RunningStates'
    BY <2>1
  <2>4. SpawnStates'
    BY <2>1
  <2>5. SpawnTargets'
    BY <2>1
  <2>6. ListedThreads'
    BY <2>1
  <2>7. NoWakeupLost'
    BY <2>1
  <2>8. RestersTracked'
    BY <2>1
  <2>9. QED
    BY <2>2, <2>3, <2>4, <2>5, <2>6, <2>7, <2>8
<1>11. ASSUME NEW r \in Requests, spawn_check(r)
      PROVE  (Threads /\ Wakes)'
  BY <1>11 DEF spawn_check, SpawnStep
<1>12. ASSUME NEW r \in Requests, spawn_state(r)
      PROVE  (Threads /\ Wakes)'
  BY <1>12 DEF spawn_state, SpawnStep
<1>13. ASSUME NEW r \in Requests, spawn_count(r)
      PROVE  (Threads /\ Wakes)'
  BY <1>13 DEF spawn_count, SpawnStep
<1>14. ASSUME NEW r \in Requests, spawn_create(r)
      PROVE  (Threads /\ Wakes)'
  BY <1>14 DEF spawn_create, SpawnStep
<1>15. ASSUME NEW r \in Requests, spawn_fail(r)
      PROVE  (Threads /\ Wakes)'
  BY <1>15 DEF spawn_fail, SpawnStep, SpawnFails
<1>16. ASSUME NEW r \in Requests, spawn_undo(r)
      PROVE  (Threads /\ Wakes)'
  BY <1>16 DEF spawn_undo, SpawnStep, thp_swap_queue, worker_update_state
<1>17. ASSUME NEW w \in Workers, worker_start(w)
      PROVE  (Threads /\ Wakes)'
  BY <1>17 DEF worker_start, WorkerStep, thp_swap_queue, worker_update_state
<1>18. ASSUME NEW w \in Workers, worker_check(w)
      PROVE  (Threads /\ Wakes)'
  BY <1>18 DEF worker_check, WorkerStep, wrk_can_terminate
<1>19. ASSUME NEW w \in Workers, worker_pop(w)
      PROVE  (Threads /\ Wakes)'
  BY <1>19 DEF worker_pop, WorkerStep
<1>20. ASSUME NEW w \in Workers, NEW q \in CommonQueues, get_common(w, q)
      PROVE  (Threads /\ Wakes)'
  <2> USE <1>20
  <2>1. q \in {"fast", "slow"}
    BY DEF CommonQueues
  <2>2. QuietStop' /\ RunningStates' /\ SpawnTargets' /\ SpawnStates'
    BY <2>1 DEF get_common, WorkerStep, thp_swap_queue, worker_update_state
  <2>3. ListedThreads' /\ NoWakeupLost' /\ RestersTracked'
    BY <2>1 DEF get_common, WorkerStep, thp_swap_queue
  <2>4. QED
    BY <2>2, <2>3
<1>21. ASSUME NEW w \in Workers, put_idle(w)
      PROVE  (Threads /\ Wakes)'
  <2> USE <1>21
  <2>1. Threads'
    BY DEF put_idle, WorkerStep, thp_swap_queue, worker_update_state
  <2>2. Wakes'
    BY DEF put_idle, WorkerStep, thp_swap_queue, NothingCommon
  <2>3. QED
    BY <2>1, <2>2
<1>22. ASSUME NEW w \in Workers, get_barrier(w)
      PROVE  (Threads /\ Wakes)'
  BY <1>22 DEF get_barrier, Listed
<1>23. ASSUME NEW w \in Workers, worker_recheck(w)
      PROVE  (Threads /\ Wakes)'
  BY <1>23 DEF worker_recheck, WorkerStep, wrk_can_terminate
<1>24. ASSUME NEW w \in Workers, worker_verify(w)
      PROVE  (Threads /\ Wakes)'
  BY <1>24 DEF worker_verify, WorkerStep
<1>25. ASSUME NEW w \in Workers, worker_wait(w)
      PROVE  (Threads /\ Wakes)'
  BY <1>25 DEF worker_wait, WorkerStep
<1>26. ASSUME NEW w \in Workers, spurious_wakeup(w)
      PROVE  (Threads /\ Wakes)'
  BY <1>26 DEF spurious_wakeup, WorkerStep
<1>27. ASSUME NEW w \in Workers, worker_exec(w)
      PROVE  (Threads /\ Wakes)'
  BY <1>27 DEF worker_exec, WorkerStep
<1>28. ASSUME NEW w \in Workers, worker_finish(w)
      PROVE  (Threads /\ Wakes)'
  BY <1>28 DEF worker_finish, WorkerStep, FinishWith
<1>29. ASSUME NEW w \in Workers, thp_thread_terminate(w)
      PROVE  (Threads /\ Wakes)'
  <2> USE <1>29
  <2>1. stop_pc # "run" /\ stop_pc' # "run" /\ UNCHANGED callVars
    BY DEF thp_thread_terminate
  <2>2. QuietStop' /\ RunningStates' /\ SpawnTargets' /\ SpawnStates'
    BY <2>1
  <2>3. ListedThreads'
    <3>1. wrk_list' = [wrk_list EXCEPT ![w] = "dorman"] /\ wpc'[w] = "none"
      BY DEF thp_thread_terminate, thp_swap_queue
    <3>2. \A v \in Workers : v # w => (wpc'[v] = "none" <=> wpc[v] = "none")
      BY DEF thp_thread_terminate
    <3>3. \A r \in Requests : cpc'[r] # "enqueue"
      BY <2>1
    <3>4. QED
      BY <3>1, <3>2, <3>3
  <2>4. Wakes'
    BY DEF thp_thread_terminate, thp_swap_queue
  <2>5. QED
    BY <2>2, <2>3, <2>4
<1>30. ASSUME thp_stop PROVE (Threads /\ Wakes)'
  BY <1>30 DEF thp_stop, Signal, StopTest
<1>31. ASSUME thp_stop_woken PROVE (Threads /\ Wakes)'
  BY <1>31 DEF thp_stop_woken, StopTest
<1>32. ASSUME UNCHANGED vars PROVE (Threads /\ Wakes)'
  BY <1>32 DEF vars
<1>33. TInv'
  BY StepType
<1>34. (Threads /\ Wakes)'
  <2> HIDE DEF WInv, Threads, Wakes, TInv
  <2>1. ASSUME NEW r \in Requests, Schedule(r) PROVE (Threads /\ Wakes)'
    BY <2>1, <1>2, <1>3, <1>4, <1>5, <1>6, <1>7, <1>8 DEF Schedule
  <2>2. ASSUME NEW r \in Requests, CallerStep(r) PROVE (Threads /\ Wakes)'
    BY <2>2, <1>9, <1>10, <1>11, <1>12, <1>13, <1>14, <1>15, <1>16
          DEF CallerStep
  <2>3. ASSUME NEW w \in Workers, WorkerThread(w) PROVE (Threads /\ Wakes)'
    BY <2>3, <1>17, <1>18, <1>19, <1>20, <1>21, <1>22, <1>23, <1>24, <1>25,
          <1>27, <1>28, <1>29 DEF WorkerThread
  <2>4. QED
    BY <2>1, <2>2, <2>3, <1>1, <1>26, <1>30, <1>31, <1>32 DEF Next
<1>35. QED
  BY <1>33, <1>34

(* However many workers and requests there are, the signal of               *)
(* worker_enqueue is never lost between a worker's look at its queue and    *)
(* its wait (request.cpp, lines 689-698), if the pool is not stopped under  *)
(* a running call of schedule.                                              *)
THEOREM NoLostWakeup ==
    ASSUME StopPolicy # "any" PROVE Spec => []NoWakeupLost
<1>1. WInv => NoWakeupLost
  BY DEF WInv, Wakes
<1>2. QED
  BY InitWake, StepWake, <1>1, PTL DEF Spec

(* A sleeping worker stays on a list where schedule finds it, or is about   *)
(* to be handed a request.                                                  *)
THEOREM SleepersAreFound ==
    ASSUME StopPolicy # "any" PROVE Spec => []SleepersTracked
<1>1. WInv => SleepersTracked
  BY DEF WInv, Wakes, RestersTracked, SleepersTracked
<1>2. QED
  BY InitWake, StepWake, <1>1, PTL DEF Spec

-----------------------------------------------------------------------------
(* Queues as sets.                                                          *)

Elems(s) == {s[i] : i \in DOMAIN s}

Distinct(s) == \A i, j \in DOMAIN s : s[i] = s[j] => i = j

LEMMA AppendElems ==
    ASSUME NEW S, NEW s \in Seq(S), NEW r \in S
    PROVE  /\ Elems(Append(s, r)) = Elems(s) \cup {r}
           /\ Distinct(s) /\ r \notin Elems(s) => Distinct(Append(s, r))
<1>1. /\ DOMAIN Append(s, r) = 1..(Len(s) + 1)
      /\ \A i \in 1..Len(s) : Append(s, r)[i] = s[i]
      /\ Append(s, r)[Len(s) + 1] = r
      /\ Len(s) \in Nat /\ DOMAIN s = 1..Len(s)
  OBVIOUS
<1> DEFINE t == Append(s, r)
<1> HIDE DEF t
<1>2. QED
  BY <1>1 DEF Elems, Distinct

LEMMA TailElems ==
    ASSUME NEW S, NEW s \in Seq(S), s # <<>>, Distinct(s)
    PROVE  /\ Head(s) \in Elems(s) /\ Head(s) \in S
           /\ Elems(Tail(s)) = Elems(s) \ {Head(s)}
           /\ Distinct(Tail(s))
<1>1. /\ Tail(s) \in Seq(S) /\ Len(s) \in Nat \ {0} /\ DOMAIN s = 1..Len(s)
      /\ DOMAIN Tail(s) = 1..(Len(s) - 1)
      /\ \A i \in 1..(Len(s) - 1) : Tail(s)[i] = s[i + 1]
      /\ Head(s) = s[1] /\ Head(s) \in S
  OBVIOUS
<1> DEFINE t == Tail(s)
<1> HIDE DEF t
<1>2. Elems(Tail(s)) = Elems(s) \ {Head(s)}
  <2>1. ASSUME NEW x \in Elems(Tail(s)) PROVE x \in Elems(s) \ {Head(s)}
    BY <1>1, <2>1 DEF Elems, Distinct
  <2>2. ASSUME NEW x \in Elems(s), x # Head(s) PROVE x \in Elems(Tail(s))
    <3>1. PICK i \in 1..Len(s) : s[i] = x
      BY <1>1 DEF Elems
    <3>2. i - 1 \in 1..(Len(s) - 1) /\ Tail(s)[i - 1] = x
      BY <1>1, <2>2, <3>1
    <3>3. QED
      BY <1>1, <3>2 DEF Elems
  <2>3. QED
    BY <2>1, <2>2
<1>3. QED
  BY <1>1, <1>2, SMTT(60) DEF Elems, Distinct

-----------------------------------------------------------------------------
(* Threads and their shutdown.                                              *)

StopFlag == thp_shutdown <=> stop_pc # "run"

(* Nothing is executed in a caller's thread.                                *)
NoneInline == \A r \in Requests : cpc[r] \notin {"inline", "abort"}

(* Once thp_stop has run, every worker is told to terminate.                *)
Stopping == stop_pc # "run" => \A w \in Workers : wrk_state[w] = "terminate"

(* A worker with no thread is on the dormant list, or a caller is about to  *)
(* start it.                                                                *)
Spare ==
    \A w \in Workers : wpc[w] = "none" =>
        \/ wrk_list[w] = "dorman"
        \/ \E r \in Requests : cpc[r] \in SpawnPCs /\ target[r] = w

(* Such a worker has terminated, until worker_spawn_thr changes its state.  *)
Dormant ==
    /\ \A w \in Workers : wrk_list[w] = "dorman" => wrk_state[w] = "terminate"
    /\ \A r \in Requests :
          cpc[r] \in {"spawn", "spawn_state"} => wrk_state[target[r]] = "terminate"

(* wrk_thr_id tells a worker that has no thread from one that has.          *)
Threadless ==
    \A w \in Workers : wpc[w] \in {"none", "exit"} => ~wrk_thr_id[w]

Control ==
    StopFlag /\ NoneInline /\ Stopping /\ Spare /\ Dormant /\ Threadless

SInv == WInv /\ Control

LEMMA InitControl == Init => Control
<1> SUFFICES ASSUME Init PROVE Control
  OBVIOUS
<1>1. StopFlag
  BY DEF Init, StopFlag
<1>2. NoneInline /\ Stopping
  BY DEF Init, NoneInline, Stopping
<1>3. Spare /\ Dormant
  BY DEF Init, Spare, Dormant
<1>4. Threadless
  <2>1. PICK up \in SUBSET InitWorkers :
           /\ wrk_thr_id = [w \in Workers |-> w \in up]
           /\ wpc = [w \in Workers |-> IF w \in up THEN "start" ELSE "none"]
    BY DEF Init
  <2>2. ASSUME NEW w \in Workers, wpc[w] \in {"none", "exit"}
        PROVE  ~wrk_thr_id[w]
    <3>1. w \notin up
      BY <2>1, <2>2
    <3>2. QED
      BY <2>1, <3>1
  <2>3. QED
    BY <2>2 DEF Threadless
<1>5. QED
  BY <1>1, <1>2, <1>3, <1>4 DEF Control

LEMMA StepControl ==
    ASSUME SInv, [Next]_vars, StopPolicy # "any"
    PROVE  Control'
<1> USE PoolAssumption
    DEF SInv, WInv, Threads, TInv, TypeOK, WorkerType, CallerType, PoolType, WorkerPCs,
        WorkerStates, CallerPCs, SpawnPCs, QuietStop, RunningStates, SpawnTargets,
        SpawnStates, ListedThreads, Control, StopFlag, NoneInline, Stopping,
        Spare, Dormant, Threadless, poolVars, wrkVars, callVars
<1>1. ASSUME NEW r \in Requests, schedule_barrier(r)
      PROVE  Control'
  <2>1. StopFlag'
    BY <1>1 DEF schedule_barrier, MayCall
  <2>2. NoneInline' /\ Stopping'
    BY <1>1 DEF schedule_barrier, MayCall
  <2>3. Spare'
    <3>1. \A x \in Requests :
             cpc[x] \in SpawnPCs => cpc'[x] = cpc[x] /\ target'[x] = target[x]
      BY <1>1 DEF schedule_barrier, MayCall
    <3>2. \A x \in Workers :
             wpc'[x] = "none" => wpc[x] = "none" /\ wrk_list'[x] = wrk_list[x]
      BY <1>1 DEF schedule_barrier, MayCall
    <3>3. QED
      BY <3>1, <3>2
  <2>4. Dormant'
    BY <1>1 DEF schedule_barrier, MayCall
  <2>5. Threadless'
    BY <1>1 DEF schedule_barrier, MayCall
  <2>6. QED
    BY <2>1, <2>2, <2>3, <2>4, <2>5
<1>2. ASSUME NEW r \in Requests, schedule_deferred(r)
      PROVE  Control'
  <2>1. StopFlag'
    BY <1>2 DEF schedule_deferred, Entered, MayCall
  <2>2. NoneInline' /\ Stopping'
    BY <1>2 DEF schedule_deferred, Entered, MayCall
  <2>3. Spare'
    <3>1. \A x \in Requests :
             cpc[x] \in SpawnPCs => cpc'[x] = cpc[x] /\ target'[x] = target[x]
      BY <1>2 DEF schedule_deferred, Entered, MayCall
    <3>2. \A x \in Workers :
             wpc'[x] = "none" => wpc[x] = "none" /\ wrk_list'[x] = wrk_list[x]
      BY <1>2 DEF schedule_deferred, Entered, MayCall
    <3>3. QED
      BY <3>1, <3>2
  <2>4. Dormant'
    BY <1>2 DEF schedule_deferred, Entered, MayCall
  <2>5. Threadless'
    BY <1>2 DEF schedule_deferred, Entered, MayCall
  <2>6. QED
    BY <2>1, <2>2, <2>3, <2>4, <2>5
<1>3. ASSUME NEW r \in Requests, NEW q \in QueueNos, schedule_parked(r, q)
      PROVE  Control'
  <2>1. StopFlag'
    BY <1>3 DEF schedule_parked, Admit, Goto, Entered, MayCall
  <2>2. NoneInline' /\ Stopping'
    BY <1>3 DEF schedule_parked, Admit, Goto, Entered, MayCall
  <2>3. Spare'
    BY <1>3 DEF schedule_parked, Admit, Goto, Entered, MayCall
  <2>4. Dormant'
    BY <1>3 DEF schedule_parked, Admit, Goto, Entered, MayCall
  <2>5. Threadless'
    BY <1>3 DEF schedule_parked, Admit, Goto, Entered, MayCall
  <2>6. QED
    BY <2>1, <2>2, <2>3, <2>4, <2>5
<1>4. ASSUME NEW r \in Requests, NEW q \in QueueNos, NEW w \in Workers,
             schedule_direct(r, q, w)
      PROVE  Control'
  <2>1. StopFlag'
    BY <1>4 DEF schedule_direct, Admit, Goto, Entered, MayCall, Listed,
          thp_swap_queue, worker_update_state
  <2>2. NoneInline' /\ Stopping'
    BY <1>4 DEF schedule_direct, Admit, Goto, Entered, MayCall, Listed,
          thp_swap_queue, worker_update_state
  <2>3. Spare'
    <3>1. \A x \in Requests :
             cpc[x] \in SpawnPCs => cpc'[x] = cpc[x] /\ target'[x] = target[x]
      BY <1>4 DEF schedule_direct, Admit, Goto, Entered, MayCall, Listed,
          thp_swap_queue, worker_update_state
    <3>2. \A x \in Workers :
             wpc'[x] = "none" => wpc[x] = "none" /\ wrk_list'[x] = wrk_list[x]
      BY <1>4 DEF schedule_direct, Admit, Goto, Entered, MayCall, Listed,
          thp_swap_queue, worker_update_state
    <3>3. QED
      BY <3>1, <3>2
  <2>4. Dormant'
    BY <1>4 DEF schedule_direct, Admit, Goto, Entered, MayCall, Listed,
          thp_swap_queue, worker_update_state
  <2>5. Threadless'
    BY <1>4 DEF schedule_direct, Admit, Goto, Entered, MayCall, Listed,
          thp_swap_queue, worker_update_state
  <2>6. QED
    BY <2>1, <2>2, <2>3, <2>4, <2>5
<1>5. ASSUME NEW r \in Requests, NEW q \in QueueNos, NEW w \in Workers, NEW v
             \in Workers, schedule_round_robin(r, q, w, v)
      PROVE  Control'
  <2>1. StopFlag'
    BY <1>5 DEF schedule_round_robin, Admit, Goto, Entered, MayCall, Listed,
          worker_update_state
  <2>2. NoneInline' /\ Stopping'
    BY <1>5 DEF schedule_round_robin, Admit, Goto, Entered, MayCall, Listed,
          worker_update_state
  <2>3. Spare'
    <3>1. \A x \in Requests : cpc[x] \in SpawnPCs => x # r
      BY <1>5 DEF schedule_round_robin, Admit, Entered
    <3>2. wpc[v] # "none" /\ wpc' = wpc
      BY <1>5 DEF schedule_round_robin, Admit, Listed, CommonQueues
    <3>3. \A x \in Workers \ {v} : wrk_list'[x] = wrk_list[x]
      BY <1>5 DEF schedule_round_robin
    <3>4. /\ cpc' = [cpc EXCEPT ![r] = "enqueue"]
          /\ target' = [target EXCEPT ![r] = v]
      BY <1>5 DEF schedule_round_robin, Goto
    <3>5. ASSUME NEW x \in Workers, wpc'[x] = "none"
          PROVE  \/ wrk_list'[x] = "dorman"
                 \/ \E y \in Requests : cpc'[y] \in SpawnPCs /\ target'[y] = x
      <4>1. wpc[x] = "none" /\ wrk_list'[x] = wrk_list[x]
        BY <3>2, <3>3, <3>5
      <4>2. ASSUME NEW y \in Requests, cpc[y] \in SpawnPCs, target[y] = x
            PROVE  cpc'[y] \in SpawnPCs /\ target'[y] = x
        BY <3>1, <3>4, <4>2
      <4>3. QED
        BY <4>1, <4>2
    <3>6. QED
      BY <3>5
  <2>4. Dormant'
    BY <1>5 DEF schedule_round_robin, Admit, Goto, Entered, MayCall, Listed,
          worker_update_state
  <2>5. Threadless'
    BY <1>5 DEF schedule_round_robin, Admit, Goto, Entered, MayCall, Listed,
          worker_update_state
  <2>6. QED
    BY <2>1, <2>2, <2>3, <2>4, <2>5
<1>6. ASSUME NEW r \in Requests, NEW q \in QueueNos, NEW w \in Workers,
             schedule_idle(r, q, w)
      PROVE  Control'
  <2>1. StopFlag'
    BY <1>6 DEF schedule_idle, Admit, Goto, Entered, MayCall, Listed
  <2>2. NoneInline' /\ Stopping'
    BY <1>6 DEF schedule_idle, Admit, Goto, Entered, MayCall, Listed
  <2>3. Spare'
    <3>1. \A x \in Requests :
             cpc[x] \in SpawnPCs => cpc'[x] = cpc[x] /\ target'[x] = target[x]
      BY <1>6 DEF schedule_idle, Admit, Goto, Entered, MayCall, Listed
    <3>2. \A x \in Workers :
             wpc'[x] = "none" => wpc[x] = "none" /\ wrk_list'[x] = wrk_list[x]
      BY <1>6 DEF schedule_idle, Admit, Goto, Entered, MayCall, Listed
    <3>3. QED
      BY <3>1, <3>2
  <2>4. Dormant'
    BY <1>6 DEF schedule_idle, Admit, Goto, Entered, MayCall, Listed
  <2>5. Threadless'
    BY <1>6 DEF schedule_idle, Admit, Goto, Entered, MayCall, Listed
  <2>6. QED
    BY <2>1, <2>2, <2>3, <2>4, <2>5
<1>7. ASSUME NEW r \in Requests, NEW q \in QueueNos, schedule_common(r, q)
      PROVE  Control'
  <2>1. StopFlag'
    BY <1>7 DEF schedule_common, Admit, Goto, Entered, MayCall, Listed
  <2>2. NoneInline' /\ Stopping'
    BY <1>7 DEF schedule_common, Admit, Goto, Entered, MayCall, Listed
  <2>3. Spare'
    BY <1>7 DEF schedule_common, Admit, Goto, Entered, MayCall, Listed
  <2>4. Dormant'
    <3>1. wrk_state' = wrk_state
      BY <1>7 DEF schedule_common
    <3>2. CASE Goto(r, "done", None) /\ UNCHANGED wrk_list
      BY <3>1, <3>2 DEF Goto
    <3>3. ASSUME NEW w \in Listed("dorman"), Goto(r, "spawn", w),
                 wrk_list' = [wrk_list EXCEPT ![w] = "none"]
          PROVE  Dormant'
      BY <3>1, <3>3 DEF Goto, Listed
    <3>4. QED
      BY <1>7, <3>2, <3>3 DEF schedule_common
  <2>5. Threadless'
    BY <1>7 DEF schedule_common, Admit, Goto, Entered, MayCall, Listed
  <2>6. QED
    BY <2>1, <2>2, <2>3, <2>4, <2>5
<1>8. ASSUME NEW r \in Requests, NEW q \in QueueNos, schedule_inline(r, q)
      PROVE  Control'
  <2>1. StopFlag'
    BY <1>8 DEF schedule_inline, Admit, Goto, Entered, MayCall
  <2>2. NoneInline' /\ Stopping'
    BY <1>8 DEF schedule_inline, Admit, Goto, Entered, MayCall
  <2>3. Spare'
    BY <1>8 DEF schedule_inline, Admit, Goto, Entered, MayCall
  <2>4. Dormant'
    BY <1>8 DEF schedule_inline, Admit, Goto, Entered, MayCall
  <2>5. Threadless'
    BY <1>8 DEF schedule_inline, Admit, Goto, Entered, MayCall
  <2>6. QED
    BY <2>1, <2>2, <2>3, <2>4, <2>5
<1>9. ASSUME NEW r \in Requests, worker_enqueue(r)
      PROVE  Control'
  <2>1. StopFlag'
    BY <1>9 DEF worker_enqueue, Signal
  <2>2. NoneInline' /\ Stopping'
    BY <1>9 DEF worker_enqueue, Signal
  <2>3. Spare'
    <3>1. \A x \in Requests :
             cpc[x] \in SpawnPCs => cpc'[x] = cpc[x] /\ target'[x] = target[x]
      BY <1>9 DEF worker_enqueue, Signal
    <3>2. \A x \in Workers :
             wpc'[x] = "none" => wpc[x] = "none" /\ wrk_list'[x] = wrk_list[x]
      BY <1>9 DEF worker_enqueue, Signal
    <3>3. QED
      BY <3>1, <3>2
  <2>4. Dormant'
    BY <1>9 DEF worker_enqueue, Signal
  <2>5. Threadless'
    BY <1>9 DEF worker_enqueue, Signal
  <2>6. QED
    BY <2>1, <2>2, <2>3, <2>4, <2>5
<1>10. ASSUME NEW r \in Requests, exec_inline(r)
      PROVE  Control'
  <2>1. StopFlag'
    BY <1>10 DEF exec_inline
  <2>2. NoneInline' /\ Stopping'
    BY <1>10 DEF exec_inline
  <2>3. Spare'
    BY <1>10 DEF exec_inline
  <2>4. Dormant'
    BY <1>10 DEF exec_inline
  <2>5. Threadless'
    BY <1>10 DEF exec_inline
  <2>6. QED
    BY <2>1, <2>2, <2>3, <2>4, <2>5
<1>11. ASSUME NEW r \in Requests, spawn_check(r)
      PROVE  Control'
  <2>1. StopFlag'
    BY <1>11 DEF spawn_check, SpawnStep, MaySpawn
  <2>2. NoneInline' /\ Stopping'
    <3>1. ~thp_shutdown /\ wrk_state[target[r]] = "terminate"
      BY <1>11 DEF spawn_check, SpawnStep
    <3>2. cpc' = [cpc EXCEPT ![r] = "spawn_state"]
      BY <1>11, <3>1 DEF spawn_check, SpawnStep, MaySpawn
    <3>3. QED
      BY <1>11, <3>2 DEF spawn_check, SpawnStep
  <2>3. Spare'
    BY <1>11 DEF spawn_check, SpawnStep, MaySpawn
  <2>4. Dormant'
    BY <1>11 DEF spawn_check, SpawnStep, MaySpawn
  <2>5. Threadless'
    BY <1>11 DEF spawn_check, SpawnStep, MaySpawn
  <2>6. QED
    BY <2>1, <2>2, <2>3, <2>4, <2>5
<1>12. ASSUME NEW r \in Requests, spawn_state(r)
      PROVE  Control'
  <2>1. StopFlag'
    BY <1>12 DEF spawn_state, SpawnStep
  <2>2. NoneInline' /\ Stopping'
    BY <1>12 DEF spawn_state, SpawnStep
  <2>3. Spare'
    BY <1>12 DEF spawn_state, SpawnStep
  <2>4. Dormant'
    BY <1>12 DEF spawn_state, SpawnStep
  <2>5. Threadless'
    BY <1>12 DEF spawn_state, SpawnStep
  <2>6. QED
    BY <2>1, <2>2, <2>3, <2>4, <2>5
<1>13. ASSUME NEW r \in Requests, spawn_count(r)
      PROVE  Control'
  <2>1. StopFlag'
    BY <1>13 DEF spawn_count, SpawnStep
  <2>2. NoneInline' /\ Stopping'
    BY <1>13 DEF spawn_count, SpawnStep
  <2>3. Spare'
    BY <1>13 DEF spawn_count, SpawnStep
  <2>4. Dormant'
    BY <1>13 DEF spawn_count, SpawnStep
  <2>5. Threadless'
    BY <1>13 DEF spawn_count, SpawnStep
  <2>6. QED
    BY <2>1, <2>2, <2>3, <2>4, <2>5
<1>14. ASSUME NEW r \in Requests, spawn_create(r)
      PROVE  Control'
  <2>1. StopFlag'
    BY <1>14 DEF spawn_create, SpawnStep
  <2>2. NoneInline' /\ Stopping'
    BY <1>14 DEF spawn_create, SpawnStep
  <2>3. Spare'
    BY <1>14 DEF spawn_create, SpawnStep
  <2>4. Dormant'
    BY <1>14 DEF spawn_create, SpawnStep
  <2>5. Threadless'
    BY <1>14 DEF spawn_create, SpawnStep
  <2>6. QED
    BY <2>1, <2>2, <2>3, <2>4, <2>5
<1>15. ASSUME NEW r \in Requests, spawn_fail(r)
      PROVE  Control'
  <2>1. StopFlag'
    BY <1>15 DEF spawn_fail, SpawnFails, SpawnStep
  <2>2. NoneInline' /\ Stopping'
    BY <1>15 DEF spawn_fail, SpawnFails, SpawnStep
  <2>3. Spare'
    BY <1>15 DEF spawn_fail, SpawnFails, SpawnStep
  <2>4. Dormant'
    BY <1>15 DEF spawn_fail, SpawnFails, SpawnStep
  <2>5. Threadless'
    BY <1>15 DEF spawn_fail, SpawnFails, SpawnStep
  <2>6. QED
    BY <2>1, <2>2, <2>3, <2>4, <2>5
<1>16. ASSUME NEW r \in Requests, spawn_undo(r)
      PROVE  Control'
  <2>1. StopFlag'
    BY <1>16 DEF spawn_undo, SpawnStep, thp_swap_queue, worker_update_state
  <2>2. NoneInline' /\ Stopping'
    BY <1>16 DEF spawn_undo, SpawnStep, thp_swap_queue, worker_update_state
  <2>3. Spare'
    BY <1>16 DEF spawn_undo, SpawnStep, thp_swap_queue, worker_update_state
  <2>4. Dormant'
    BY <1>16 DEF spawn_undo, SpawnStep, thp_swap_queue, worker_update_state
  <2>5. Threadless'
    BY <1>16 DEF spawn_undo, SpawnStep, thp_swap_queue, worker_update_state
  <2>6. QED
    BY <2>1, <2>2, <2>3, <2>4, <2>5
<1>17. ASSUME NEW w \in Workers, worker_start(w)
      PROVE  Control'
  <2>1. StopFlag'
    BY <1>17 DEF worker_start, WorkerStep, thp_swap_queue, worker_update_state
  <2>2. NoneInline' /\ Stopping'
    BY <1>17 DEF worker_start, WorkerStep, thp_swap_queue, worker_update_state
  <2>3. Spare'
    BY <1>17 DEF worker_start, WorkerStep, thp_swap_queue, worker_update_state
  <2>4. Dormant'
    BY <1>17 DEF worker_start, WorkerStep, thp_swap_queue, worker_update_state
  <2>5. Threadless'
    BY <1>17 DEF worker_start, WorkerStep, thp_swap_queue, worker_update_state
  <2>6. QED
    BY <2>1, <2>2, <2>3, <2>4, <2>5
<1>18. ASSUME NEW w \in Workers, worker_check(w)
      PROVE  Control'
  <2>1. StopFlag'
    BY <1>18 DEF worker_check, WorkerStep, wrk_can_terminate
  <2>2. NoneInline' /\ Stopping'
    BY <1>18 DEF worker_check, WorkerStep, wrk_can_terminate
  <2>3. Spare'
    BY <1>18 DEF worker_check, WorkerStep, wrk_can_terminate
  <2>4. Dormant'
    BY <1>18 DEF worker_check, WorkerStep, wrk_can_terminate
  <2>5. Threadless'
    <3>1. CASE wrk_can_terminate(w)
      <4>1. ~wrk_thr_id'[w]
        <5>1. wrk_thr_id'[w] = (wrk_thr_id[w] /\ ~wrk_can_terminate(w))
          BY <1>18 DEF worker_check
        <5>2. QED
          BY <3>1, <5>1
      <4>2. \A v \in Workers \ {w} : UNCHANGED <<wrk_thr_id[v], wpc[v]>>
        BY <1>18 DEF worker_check, WorkerStep
      <4>3. QED
        BY <4>1, <4>2
    <3>2. CASE ~wrk_can_terminate(w)
      <4>1. wpc'[w] \notin {"none", "exit"}
        BY <1>18, <3>2 DEF worker_check, WorkerStep
      <4>2. \A v \in Workers \ {w} : UNCHANGED <<wrk_thr_id[v], wpc[v]>>
        BY <1>18 DEF worker_check, WorkerStep
      <4>3. QED
        BY <4>1, <4>2
    <3>3. QED
      BY <3>1, <3>2
  <2>6. QED
    BY <2>1, <2>2, <2>3, <2>4, <2>5
<1>19. ASSUME NEW w \in Workers, worker_pop(w)
      PROVE  Control'
  <2>1. StopFlag'
    BY <1>19 DEF worker_pop, WorkerStep
  <2>2. NoneInline' /\ Stopping'
    BY <1>19 DEF worker_pop, WorkerStep
  <2>3. Spare'
    BY <1>19 DEF worker_pop, WorkerStep
  <2>4. Dormant'
    BY <1>19 DEF worker_pop, WorkerStep
  <2>5. Threadless'
    BY <1>19 DEF worker_pop, WorkerStep
  <2>6. QED
    BY <2>1, <2>2, <2>3, <2>4, <2>5
<1>20. ASSUME NEW w \in Workers, NEW q \in CommonQueues, get_common(w, q)
      PROVE  Control'
  <2>1. StopFlag'
    BY <1>20 DEF get_common, WorkerStep, thp_swap_queue, worker_update_state,
          CommonQueues
  <2>2. NoneInline' /\ Stopping'
    BY <1>20 DEF get_common, WorkerStep, thp_swap_queue, worker_update_state,
          CommonQueues
  <2>3. Spare'
    BY <1>20 DEF get_common, WorkerStep, thp_swap_queue, worker_update_state,
          CommonQueues
  <2>4. Dormant'
    BY <1>20 DEF get_common, WorkerStep, thp_swap_queue, worker_update_state,
          CommonQueues
  <2>5. Threadless'
    BY <1>20 DEF get_common, WorkerStep, thp_swap_queue, worker_update_state,
          CommonQueues
  <2>6. QED
    BY <2>1, <2>2, <2>3, <2>4, <2>5
<1>21. ASSUME NEW w \in Workers, put_idle(w)
      PROVE  Control'
  <2>1. StopFlag'
    BY <1>21 DEF put_idle, WorkerStep, thp_swap_queue, worker_update_state
  <2>2. NoneInline' /\ Stopping'
    BY <1>21 DEF put_idle, WorkerStep, thp_swap_queue, worker_update_state
  <2>3. Spare'
    BY <1>21 DEF put_idle, WorkerStep, thp_swap_queue, worker_update_state
  <2>4. Dormant'
    BY <1>21 DEF put_idle, WorkerStep, thp_swap_queue, worker_update_state
  <2>5. Threadless'
    BY <1>21 DEF put_idle, WorkerStep, thp_swap_queue, worker_update_state
  <2>6. QED
    BY <2>1, <2>2, <2>3, <2>4, <2>5
<1>22. ASSUME NEW w \in Workers, get_barrier(w)
      PROVE  Control'
  <2>1. StopFlag'
    BY <1>22 DEF get_barrier, Listed
  <2>2. NoneInline' /\ Stopping'
    BY <1>22 DEF get_barrier, Listed
  <2>3. Spare'
    BY <1>22 DEF get_barrier, Listed
  <2>4. Dormant'
    BY <1>22 DEF get_barrier, Listed
  <2>5. Threadless'
    BY <1>22 DEF get_barrier, Listed
  <2>6. QED
    BY <2>1, <2>2, <2>3, <2>4, <2>5
<1>23. ASSUME NEW w \in Workers, worker_recheck(w)
      PROVE  Control'
  <2>1. StopFlag'
    BY <1>23 DEF worker_recheck, WorkerStep, wrk_can_terminate
  <2>2. NoneInline' /\ Stopping'
    BY <1>23 DEF worker_recheck, WorkerStep, wrk_can_terminate
  <2>3. Spare'
    BY <1>23 DEF worker_recheck, WorkerStep, wrk_can_terminate
  <2>4. Dormant'
    BY <1>23 DEF worker_recheck, WorkerStep, wrk_can_terminate
  <2>5. Threadless'
    <3>1. CASE wrk_can_terminate(w)
      <4>1. ~wrk_thr_id'[w]
        <5>1. wrk_thr_id'[w] = (wrk_thr_id[w] /\ ~wrk_can_terminate(w))
          BY <1>23 DEF worker_recheck
        <5>2. QED
          BY <3>1, <5>1
      <4>2. \A v \in Workers \ {w} : UNCHANGED <<wrk_thr_id[v], wpc[v]>>
        BY <1>23 DEF worker_recheck, WorkerStep
      <4>3. QED
        BY <4>1, <4>2
    <3>2. CASE ~wrk_can_terminate(w)
      <4>1. wpc'[w] \notin {"none", "exit"}
        BY <1>23, <3>2 DEF worker_recheck, WorkerStep
      <4>2. \A v \in Workers \ {w} : UNCHANGED <<wrk_thr_id[v], wpc[v]>>
        BY <1>23 DEF worker_recheck, WorkerStep
      <4>3. QED
        BY <4>1, <4>2
    <3>3. QED
      BY <3>1, <3>2
  <2>6. QED
    BY <2>1, <2>2, <2>3, <2>4, <2>5
<1>24. ASSUME NEW w \in Workers, worker_verify(w)
      PROVE  Control'
  <2>1. StopFlag'
    BY <1>24 DEF worker_verify, WorkerStep
  <2>2. NoneInline' /\ Stopping'
    BY <1>24 DEF worker_verify, WorkerStep
  <2>3. Spare'
    BY <1>24 DEF worker_verify, WorkerStep
  <2>4. Dormant'
    BY <1>24 DEF worker_verify, WorkerStep
  <2>5. Threadless'
    BY <1>24 DEF worker_verify, WorkerStep
  <2>6. QED
    BY <2>1, <2>2, <2>3, <2>4, <2>5
<1>25. ASSUME NEW w \in Workers, worker_wait(w)
      PROVE  Control'
  <2>1. StopFlag'
    BY <1>25 DEF worker_wait, WorkerStep
  <2>2. NoneInline' /\ Stopping'
    BY <1>25 DEF worker_wait, WorkerStep
  <2>3. Spare'
    BY <1>25 DEF worker_wait, WorkerStep
  <2>4. Dormant'
    BY <1>25 DEF worker_wait, WorkerStep
  <2>5. Threadless'
    BY <1>25 DEF worker_wait, WorkerStep
  <2>6. QED
    BY <2>1, <2>2, <2>3, <2>4, <2>5
<1>26. ASSUME NEW w \in Workers, spurious_wakeup(w)
      PROVE  Control'
  <2>1. StopFlag'
    BY <1>26 DEF spurious_wakeup, WorkerStep
  <2>2. NoneInline' /\ Stopping'
    BY <1>26 DEF spurious_wakeup, WorkerStep
  <2>3. Spare'
    BY <1>26 DEF spurious_wakeup, WorkerStep
  <2>4. Dormant'
    BY <1>26 DEF spurious_wakeup, WorkerStep
  <2>5. Threadless'
    BY <1>26 DEF spurious_wakeup, WorkerStep
  <2>6. QED
    BY <2>1, <2>2, <2>3, <2>4, <2>5
<1>27. ASSUME NEW w \in Workers, worker_exec(w)
      PROVE  Control'
  <2>1. StopFlag'
    BY <1>27 DEF worker_exec, WorkerStep
  <2>2. NoneInline' /\ Stopping'
    BY <1>27 DEF worker_exec, WorkerStep
  <2>3. Spare'
    BY <1>27 DEF worker_exec, WorkerStep
  <2>4. Dormant'
    BY <1>27 DEF worker_exec, WorkerStep
  <2>5. Threadless'
    BY <1>27 DEF worker_exec, WorkerStep
  <2>6. QED
    BY <2>1, <2>2, <2>3, <2>4, <2>5
<1>28. ASSUME NEW w \in Workers, worker_finish(w)
      PROVE  Control'
  <2>1. StopFlag'
    BY <1>28 DEF worker_finish, FinishWith, WorkerStep
  <2>2. NoneInline' /\ Stopping'
    BY <1>28 DEF worker_finish, FinishWith, WorkerStep
  <2>3. Spare'
    BY <1>28 DEF worker_finish, FinishWith, WorkerStep
  <2>4. Dormant'
    BY <1>28 DEF worker_finish, FinishWith, WorkerStep
  <2>5. Threadless'
    BY <1>28 DEF worker_finish, FinishWith, WorkerStep
  <2>6. QED
    BY <2>1, <2>2, <2>3, <2>4, <2>5
<1>29. ASSUME NEW w \in Workers, thp_thread_terminate(w)
      PROVE  Control'
  <2>1. StopFlag'
    BY <1>29 DEF thp_thread_terminate, thp_swap_queue, worker_update_state
  <2>2. NoneInline' /\ Stopping'
    BY <1>29 DEF thp_thread_terminate, thp_swap_queue, worker_update_state
  <2>3. Spare'
    BY <1>29 DEF thp_thread_terminate, thp_swap_queue, worker_update_state
  <2>4. Dormant'
    BY <1>29 DEF thp_thread_terminate, thp_swap_queue, worker_update_state
  <2>5. Threadless'
    BY <1>29 DEF thp_thread_terminate, thp_swap_queue, worker_update_state
  <2>6. QED
    BY <2>1, <2>2, <2>3, <2>4, <2>5
<1>30. ASSUME thp_stop
      PROVE  Control'
  <2>1. StopFlag'
    BY <1>30 DEF thp_stop, Signal, StopTest
  <2>2. NoneInline' /\ Stopping'
    BY <1>30 DEF thp_stop, Signal, StopTest
  <2>3. Spare'
    BY <1>30 DEF thp_stop, Signal, StopTest
  <2>4. Dormant'
    BY <1>30 DEF thp_stop, Signal, StopTest
  <2>5. Threadless'
    BY <1>30 DEF thp_stop, Signal, StopTest
  <2>6. QED
    BY <2>1, <2>2, <2>3, <2>4, <2>5
<1>31. ASSUME thp_stop_woken
      PROVE  Control'
  <2>1. StopFlag'
    BY <1>31 DEF thp_stop_woken, StopTest
  <2>2. NoneInline' /\ Stopping'
    BY <1>31 DEF thp_stop_woken, StopTest
  <2>3. Spare'
    BY <1>31 DEF thp_stop_woken, StopTest
  <2>4. Dormant'
    BY <1>31 DEF thp_stop_woken, StopTest
  <2>5. Threadless'
    BY <1>31 DEF thp_stop_woken, StopTest
  <2>6. QED
    BY <2>1, <2>2, <2>3, <2>4, <2>5
<1>32. ASSUME UNCHANGED vars PROVE Control'
  BY <1>32 DEF vars
<1>33. Control'
  <2> HIDE DEF SInv, Control
  <2>1. ASSUME NEW r \in Requests, Schedule(r) PROVE Control'
    BY <2>1, <1>2, <1>3, <1>4, <1>5, <1>6, <1>7, <1>8 DEF Schedule
  <2>2. ASSUME NEW r \in Requests, CallerStep(r) PROVE Control'
    BY <2>2, <1>9, <1>10, <1>11, <1>12, <1>13, <1>14, <1>15, <1>16
          DEF CallerStep
  <2>3. ASSUME NEW w \in Workers, WorkerThread(w) PROVE Control'
    BY <2>3, <1>17, <1>18, <1>19, <1>20, <1>21, <1>22, <1>23, <1>24, <1>25,
          <1>27, <1>28, <1>29 DEF WorkerThread
  <2>4. QED
    BY <2>1, <2>2, <2>3, <1>1, <1>26, <1>30, <1>31, <1>32 DEF Next
<1>34. QED
  BY <1>33

-----------------------------------------------------------------------------
(* Where the requests are.                                                  *)

(* The requests on each queue of the pool and of the workers.               *)
Pooled == [q \in ReqQueues |-> Elems(m_queue[q])]

Own == [w \in Workers |-> Elems(wrk_queue[w])]

(* The request is not on a queue and not executed: it is yet to be          *)
(* scheduled, or its caller is about to hand it to a worker.                *)
Outside(r) == cpc[r] \in {"init", "schedule", "enqueue"}

Distincts ==
    /\ \A q \in ReqQueues : Distinct(m_queue[q])
    /\ \A w \in Workers : Distinct(wrk_queue[w])

(* A request is in at most one place, and not executed while it waits.      *)
Single ==
    \A r \in Requests :
        /\ \A q \in ReqQueues : r \in Pooled[q] =>
              /\ executed[r] = 0
              /\ \A p \in ReqQueues \ {q} : r \notin Pooled[p]
              /\ \A w \in Workers : r \notin Own[w] /\ cur[w] # r
        /\ \A w \in Workers : r \in Own[w] =>
              /\ executed[r] = 0
              /\ \A v \in Workers \ {w} : r \notin Own[v]
              /\ \A v \in Workers : cur[v] # r
        /\ \A w \in Workers : cur[w] = r =>
              \A v \in Workers \ {w} : cur[v] # r

(* Nothing else holds a request whose caller still has it.                  *)
CallersOwn ==
    \A r \in Requests : Outside(r) =>
        /\ executed[r] = 0
        /\ \A q \in ReqQueues : r \notin Pooled[q]
        /\ \A w \in Workers : r \notin Own[w] /\ cur[w] # r

(* What a caller has let go of is somewhere, or has been executed once.     *)
Kept ==
    \A r \in Requests : ~Outside(r) =>
        \/ executed[r] = 1
        \/ \E q \in ReqQueues : r \in Pooled[q]
        \/ \E w \in Workers : r \in Own[w] \/ cur[w] = r

(* A worker has a request while it executes it and until it has counted it. *)
Executing ==
    \A w \in Workers : cur[w] # None =>
        \/ wpc[w] = "exec" /\ executed[cur[w]] = 0
        \/ wpc[w] = "finish" /\ executed[cur[w]] = 1

Held1 == Single /\ CallersOwn /\ Kept /\ Executing

Typed ==
    /\ Pooled \in [ReqQueues -> SUBSET Requests]
    /\ Own \in [Workers -> SUBSET Requests]
    /\ cpc \in [Requests -> CallerPCs]
    /\ wpc \in [Workers -> WorkerPCs]
    /\ cur \in [Workers -> Requests \cup {None}]
    /\ executed \in [Requests -> Nat]
    /\ thp_sched_req \in Int
    /\ \A w \in Workers : wpc[w] \in {"exec", "finish"} => cur[w] \in Requests

LEMMA TypedFromType == TypeOK => Typed
<1> SUFFICES ASSUME TypeOK PROVE Typed
  OBVIOUS
<1>1. Pooled \in [ReqQueues -> SUBSET Requests]
  BY DEF TypeOK, RequestType, Pooled, Elems
<1>2. Own \in [Workers -> SUBSET Requests]
  BY DEF TypeOK, WorkerType, Own, Elems
<1>3. QED
  BY <1>1, <1>2 DEF TypeOK, RequestType, WorkerType, CallerType, PoolType, Typed

(* What the steps of the pool do to requests.  No step stops a worker that  *)
(* executes a request.                                                      *)

Busy == {"exec", "finish"}

RunsKept ==
    \A w \in Workers : wpc'[w] = wpc[w] \/ (wpc[w] \notin Busy /\ wpc'[w] \notin Busy)

(* Requests stay where they are.                                            *)
Still ==
    /\ Pooled' = Pooled /\ Own' = Own /\ cur' = cur /\ executed' = executed
    /\ thp_sched_req' = thp_sched_req
    /\ RunsKept
    /\ \A r \in Requests :
          \/ cpc'[r] = cpc[r]
          \/ cpc[r] = "init" /\ cpc'[r] = "schedule"
          \/ ~Outside(r) /\ ~Outside(r)'

(* schedule has found a worker for r.                                       *)
Handed(r) ==
    /\ Pooled' = Pooled /\ Own' = Own /\ cur' = cur /\ executed' = executed
    /\ thp_sched_req' = thp_sched_req + 1
    /\ RunsKept
    /\ cpc[r] \in {"init", "schedule"}
    /\ cpc' = [cpc EXCEPT ![r] = "enqueue"]

(* schedule has put r on a queue of the pool.                               *)
Taken(r, q) ==
    /\ q \in ReqQueues
    /\ Pooled' = [Pooled EXCEPT ![q] = @ \cup {r}]
    /\ Own' = Own /\ cur' = cur /\ executed' = executed
    /\ thp_sched_req' = thp_sched_req + (IF q = "barrier" THEN 0 ELSE 1)
    /\ RunsKept
    /\ cpc[r] \in {"init", "schedule"}
    /\ \E pc \in {"done", "spawn"} : cpc' = [cpc EXCEPT ![r] = pc]

(* worker_enqueue has put r on the queue of w.                              *)
Given(r, w) ==
    /\ Own' = [Own EXCEPT ![w] = @ \cup {r}]
    /\ Pooled' = Pooled /\ cur' = cur /\ executed' = executed
    /\ thp_sched_req' = thp_sched_req
    /\ RunsKept
    /\ cpc[r] = "enqueue"
    /\ cpc' = [cpc EXCEPT ![r] = "done"]

(* w has taken r from its own queue, from queue q of the pool, or from the  *)
(* barrier queue, where the requests in K have become ready with it.        *)
Runs(r, w) ==
    /\ executed' = executed /\ cpc' = cpc
    /\ wpc[w] = "pop" /\ wpc'[w] = "exec"
    /\ \A v \in Workers \ {w} :
          wpc'[v] = wpc[v] \/ (wpc[v] \notin Busy /\ wpc'[v] \notin Busy)
    /\ cur' = [cur EXCEPT ![w] = r]

Popped(r, w) ==
    /\ Runs(r, w)
    /\ r \in Own[w]
    /\ Own' = [Own EXCEPT ![w] = @ \ {r}] /\ Pooled' = Pooled
    /\ thp_sched_req' = thp_sched_req

Fetched(r, w, q) ==
    /\ Runs(r, w)
    /\ q \in CommonQueues
    /\ r \in Pooled[q]
    /\ Pooled' = [Pooled EXCEPT ![q] = @ \ {r}] /\ Own' = Own
    /\ thp_sched_req' = thp_sched_req

Released(r, w, K) ==
    /\ Runs(r, w)
    /\ r \in Pooled["barrier"] /\ K \subseteq Pooled["barrier"] \ {r}
    /\ Pooled' = [q \in ReqQueues |->
                     IF q = "barrier" THEN Pooled[q] \ (K \cup {r})
                     ELSE IF q = "fast" THEN Pooled[q] \cup K ELSE Pooled[q]]
    /\ Own' = Own
    /\ thp_sched_req <= 0
    /\ IsFiniteSet(K)
    /\ thp_sched_req' = thp_sched_req + 1 + Cardinality(K)

(* w has executed its request, and has counted it.                          *)
Ran(w) ==
    /\ wpc[w] = "exec" /\ wpc' = [wpc EXCEPT ![w] = "finish"]
    /\ executed' = [executed EXCEPT ![cur[w]] = @ + 1]
    /\ Pooled' = Pooled /\ Own' = Own /\ cur' = cur /\ cpc' = cpc
    /\ thp_sched_req' = thp_sched_req

Ended(w) ==
    /\ wpc[w] = "finish" /\ wpc' = [wpc EXCEPT ![w] = "loop"]
    /\ cur' = [cur EXCEPT ![w] = None]
    /\ Pooled' = Pooled /\ Own' = Own /\ executed' = executed /\ cpc' = cpc
    /\ thp_sched_req' = thp_sched_req - 1

Move ==
    \/ Still
    \/ \E r \in Requests : Handed(r)
    \/ \E r \in Requests : \E q \in ReqQueues : Taken(r, q)
    \/ \E r \in Requests : \E w \in Workers : Given(r, w)
    \/ \E r \in Requests : \E w \in Workers : Popped(r, w)
    \/ \E r \in Requests : \E w \in Workers : \E q \in CommonQueues :
          Fetched(r, w, q)
    \/ \E r \in Requests : \E w \in Workers : \E K \in SUBSET Requests :
          Released(r, w, K)
    \/ \E w \in Workers : Ran(w)
    \/ \E w \in Workers : Ended(w)

(* Every step keeps a request in one place.                                 *)
LEMMA MoveKeeps ==
    ASSUME Typed, Typed', Held1, Move
    PROVE  Held1'
<1> USE PoolAssumption DEF Typed, Held1, Single, CallersOwn, Kept, Executing,
        Outside, RunsKept, Busy, CallerPCs
<1>1. CASE Still
  <2>1. Single'
    BY <1>1 DEF Still
  <2>2. CallersOwn'
    BY <1>1 DEF Still
  <2>3. Kept'
    BY <1>1 DEF Still
  <2>4. Executing'
    BY <1>1 DEF Still
  <2>5. QED
    BY <2>1, <2>2, <2>3, <2>4
<1>2. ASSUME NEW r \in Requests, Handed(r) PROVE Held1'
  <2>1. Single'
    BY <1>2 DEF Handed
  <2>2. CallersOwn'
    BY <1>2 DEF Handed
  <2>3. Kept'
    BY <1>2 DEF Handed
  <2>4. Executing'
    BY <1>2 DEF Handed
  <2>5. QED
    BY <2>1, <2>2, <2>3, <2>4
<1>3. ASSUME NEW r \in Requests, NEW q \in ReqQueues, Taken(r, q)
      PROVE  Held1'
  <2>1. Single'
    BY <1>3 DEF Taken
  <2>2. CallersOwn'
    BY <1>3 DEF Taken
  <2>3. Kept'
    BY <1>3 DEF Taken
  <2>4. Executing'
    BY <1>3 DEF Taken
  <2>5. QED
    BY <2>1, <2>2, <2>3, <2>4
<1>4. ASSUME NEW r \in Requests, NEW w \in Workers, Given(r, w)
      PROVE  Held1'
  <2>1. Single'
    BY <1>4 DEF Given
  <2>2. CallersOwn'
    BY <1>4 DEF Given
  <2>3. Kept'
    BY <1>4 DEF Given
  <2>4. Executing'
    BY <1>4 DEF Given
  <2>5. QED
    BY <2>1, <2>2, <2>3, <2>4
<1>5. ASSUME NEW r \in Requests, NEW w \in Workers, Popped(r, w)
      PROVE  Held1'
  <2>1. Single'
    BY <1>5 DEF Popped, Runs
  <2>2. CallersOwn'
    BY <1>5 DEF Popped, Runs
  <2>3. Kept'
    BY <1>5 DEF Popped, Runs
  <2>4. Executing'
    <3>1. executed'[r] = 0 /\ cur'[w] = r /\ wpc'[w] = "exec"
      BY <1>5 DEF Popped, Runs
    <3>2. /\ executed' = executed
          /\ \A v \in Workers \ {w} :
                /\ cur'[v] = cur[v]
                /\ wpc[v] \in {"exec", "finish"} => wpc'[v] = wpc[v]
      BY <1>5 DEF Popped, Runs
    <3>3. QED
      BY <3>1, <3>2
  <2>5. QED
    BY <2>1, <2>2, <2>3, <2>4
<1>6. ASSUME NEW r \in Requests, NEW w \in Workers, NEW q \in CommonQueues,
             Fetched(r, w, q)
      PROVE  Held1'
  <2>1. Single'
    BY <1>6, QueueNames DEF Fetched, Runs
  <2>2. CallersOwn'
    BY <1>6, QueueNames DEF Fetched, Runs
  <2>3. Kept'
    BY <1>6, QueueNames DEF Fetched, Runs
  <2>4. Executing'
    <3>1. executed'[r] = 0 /\ cur'[w] = r /\ wpc'[w] = "exec"
      BY <1>6, QueueNames DEF Fetched, Runs
    <3>2. /\ executed' = executed
          /\ \A v \in Workers \ {w} :
                /\ cur'[v] = cur[v]
                /\ wpc[v] \in {"exec", "finish"} => wpc'[v] = wpc[v]
      BY <1>6 DEF Fetched, Runs
    <3>3. QED
      BY <3>1, <3>2
  <2>5. QED
    BY <2>1, <2>2, <2>3, <2>4
<1>7. ASSUME NEW r \in Requests, NEW w \in Workers, NEW K \in SUBSET Requests,
             Released(r, w, K)
      PROVE  Held1'
  <2>1. Single'
    BY <1>7, QueueNames DEF Released, Runs
  <2>2. CallersOwn'
    BY <1>7, QueueNames DEF Released, Runs
  <2>3. Kept'
    BY <1>7, QueueNames DEF Released, Runs
  <2>4. Executing'
    <3>1. executed'[r] = 0 /\ cur'[w] = r /\ wpc'[w] = "exec"
      BY <1>7, QueueNames DEF Released, Runs
    <3>2. /\ executed' = executed
          /\ \A v \in Workers \ {w} :
                /\ cur'[v] = cur[v]
                /\ wpc[v] \in {"exec", "finish"} => wpc'[v] = wpc[v]
      BY <1>7 DEF Released, Runs
    <3>3. QED
      BY <3>1, <3>2
  <2>5. QED
    BY <2>1, <2>2, <2>3, <2>4
<1>8. ASSUME NEW w \in Workers, Ran(w) PROVE Held1'
  BY <1>8 DEF Ran
<1>9. ASSUME NEW w \in Workers, Ended(w) PROVE Held1'
  BY <1>9 DEF Ended
<1>10. QED
  BY <1>1, <1>2, <1>3, <1>4, <1>5, <1>6, <1>7, <1>8, <1>9 DEF Move

-----------------------------------------------------------------------------
(* Every step is such a move.                                               *)

LEMMA EnqueueMoves ==
    ASSUME TypeOK, Distincts, NEW r \in Requests, NEW q \in ReqQueues,
           m_queue' = Enqueue(q, r)
    PROVE  /\ Pooled' = [Pooled EXCEPT ![q] = @ \cup {r}]
           /\ r \notin Pooled[q] => \A p \in ReqQueues : Distinct(m_queue'[p])
<1>1. /\ m_queue \in [ReqQueues -> Seq(Requests)]
      /\ m_queue' = [m_queue EXCEPT ![q] = Append(m_queue[q], r)]
  BY DEF TypeOK, RequestType, Enqueue
<1>2. /\ Elems(Append(m_queue[q], r)) = Elems(m_queue[q]) \cup {r}
      /\ r \notin Pooled[q] => Distinct(Append(m_queue[q], r))
  BY <1>1, AppendElems DEF Distincts, Pooled
<1>3. QED
  BY <1>1, <1>2 DEF Distincts, Pooled

LEMMA DequeueMoves ==
    ASSUME TypeOK, Distincts, NEW q \in ReqQueues, m_queue[q] # <<>>,
           m_queue' = Dequeue(q)
    PROVE  /\ Head(m_queue[q]) \in Requests /\ Head(m_queue[q]) \in Pooled[q]
           /\ Pooled' = [Pooled EXCEPT ![q] = @ \ {Head(m_queue[q])}]
           /\ \A p \in ReqQueues : Distinct(m_queue'[p])
<1>1. /\ m_queue \in [ReqQueues -> Seq(Requests)]
      /\ m_queue' = [m_queue EXCEPT ![q] = Tail(m_queue[q])]
  BY DEF TypeOK, RequestType, Dequeue
<1>2. /\ Head(m_queue[q]) \in Elems(m_queue[q]) /\ Head(m_queue[q]) \in Requests
      /\ Elems(Tail(m_queue[q])) = Elems(m_queue[q]) \ {Head(m_queue[q])}
      /\ Distinct(Tail(m_queue[q]))
  BY <1>1, TailElems DEF Distincts
<1>3. QED
  BY <1>1, <1>2 DEF Distincts, Pooled

LEMMA PoolKept ==
    ASSUME Distincts, UNCHANGED m_queue
    PROVE  Pooled' = Pooled /\ \A q \in ReqQueues : Distinct(m_queue'[q])
BY DEF Distincts, Pooled

LEMMA OwnKept ==
    ASSUME Distincts, UNCHANGED wrk_queue
    PROVE  Own' = Own /\ \A w \in Workers : Distinct(wrk_queue'[w])
BY DEF Distincts, Own

(* The barrier queue, whose front is taken and whose next k requests move.  *)
LEMMA FrontBackItems ==
    ASSUME NEW s \in Seq(Requests), s # <<>>, NEW k \in 0..Len(Tail(s))
    PROVE  LET front == SubSeq(Tail(s), 1, k)
               back == SubSeq(Tail(s), k + 1, Len(Tail(s)))
               n == Len(s) - 1 - k
           IN  /\ front \in Seq(Requests) /\ Len(front) = k /\ DOMAIN front = 1..k
               /\ \A i \in 1..k : front[i] = s[i + 1]
               /\ back \in Seq(Requests) /\ Len(back) = n /\ DOMAIN back = 1..n
               /\ \A i \in 1..n : back[i] = s[i + k + 1]
<1> DEFINE t == Tail(s)
           n == Len(s) - 1 - k
<1>1. /\ Len(s) \in Nat \ {0} /\ DOMAIN s = 1..Len(s)
      /\ t \in Seq(Requests) /\ Len(t) = Len(s) - 1
      /\ \A i \in 1..(Len(s) - 1) : t[i] = s[i + 1]
      /\ Head(s) = s[1] /\ k \in Nat /\ k <= Len(s) - 1
      /\ n \in Nat /\ Len(s) = n + k + 1
  OBVIOUS
<1> HIDE DEF t
<1> DEFINE front == SubSeq(t, 1, k)
           back == SubSeq(t, k + 1, Len(t))
<1>2. /\ front \in Seq(Requests) /\ Len(front) = k /\ DOMAIN front = 1..k
      /\ \A i \in 1..k : front[i] = s[i + 1]
  BY <1>1
<1>3. /\ back \in Seq(Requests) /\ Len(back) = n /\ DOMAIN back = 1..n
      /\ \A i \in 1..n : back[i] = s[i + k + 1]
  <2>1. /\ back \in Seq(Requests) /\ Len(back) = n /\ DOMAIN back = 1..n
        /\ \A i \in 1..n : back[i] = t[i + k]
    <3>1. /\ k + 1 \in 1..(Len(t) + 1) /\ Len(t) \in Nat
          /\ Len(t) - (k + 1) + 1 = n
      BY <1>1
    <3>2. /\ back \in Seq(Requests) /\ Len(back) = n
          /\ \A i \in 1..n : back[i] = t[(k + 1) + i - 1]
      <4>1. \A i \in (k + 1)..Len(t) : t[i] \in Requests
        BY <1>1
      <4>2. k + 1 \in Int /\ Len(t) \in Int
        BY <1>1
      <4>3. /\ back \in Seq(Requests)
            /\ Len(back) = IF k + 1 <= Len(t) THEN Len(t) - (k + 1) + 1 ELSE 0
            /\ \A i \in 1..(Len(t) - (k + 1) + 1) : back[i] = t[(k + 1) + i - 1]
        <5> DEFINE m == k + 1
                   l == Len(t)
        <5>1. m \in Int /\ l \in Int /\ \A i \in m..l : t[i] \in Requests
          BY <4>1, <4>2
        <5>2. back = SubSeq(t, m, l)
          OBVIOUS
        <5> HIDE DEF m, l, back, n, t
        <5>3. /\ SubSeq(t, m, l) \in Seq(Requests)
              /\ Len(SubSeq(t, m, l)) = IF m <= l THEN l - m + 1 ELSE 0
              /\ \A i \in 1..(l - m + 1) : SubSeq(t, m, l)[i] = t[m + i - 1]
          BY <5>1, SubSeqProperties
        <5>4. QED
          BY <5>2, <5>3 DEF m, l
      <4> HIDE DEF back, n
      <4>4. Len(back) = n
        BY <1>1, <3>1, <4>3
      <4>5. QED
        BY <3>1, <4>3, <4>4
    <3> HIDE DEF back, n
    <3>3. /\ \A i \in 1..n : (k + 1) + i - 1 = i + k
          /\ DOMAIN back = 1..n
      BY <1>1, <3>2
    <3>4. QED
      BY <3>2, <3>3
  <2>2. \A i \in 1..n : i + k \in 1..(Len(s) - 1) /\ (i + k) + 1 = i + k + 1
    BY <1>1
  <2>3. QED
    BY <1>1, <2>1, <2>2
<1>4. QED
  BY <1>2, <1>3 DEF front, back, t, n

LEMMA FrontAndBack ==
    ASSUME NEW s \in Seq(Requests), s # <<>>, NEW k \in 0..Len(Tail(s)),
           Distinct(s)
    PROVE  LET front == SubSeq(Tail(s), 1, k)
               back == SubSeq(Tail(s), k + 1, Len(Tail(s)))
           IN  /\ front \in Seq(Requests) /\ Len(front) = k
               /\ back \in Seq(Requests) /\ Len(back) = Len(s) - 1 - k
               /\ \A i \in 1..k : front[i] = s[i + 1]
               /\ \A i \in 1..(Len(s) - 1 - k) : back[i] = s[i + k + 1]
               /\ Distinct(front) /\ Distinct(back)
               /\ Elems(front) \subseteq Elems(s) \ {Head(s)}
               /\ Elems(back) = Elems(s) \ (Elems(front) \cup {Head(s)})
<1> DEFINE t == Tail(s)
           n == Len(s) - 1 - k
<1>1. /\ Len(s) \in Nat \ {0} /\ DOMAIN s = 1..Len(s)
      /\ t \in Seq(Requests) /\ Len(t) = Len(s) - 1
      /\ \A i \in 1..(Len(s) - 1) : t[i] = s[i + 1]
      /\ Head(s) = s[1] /\ k \in Nat /\ k <= Len(s) - 1
      /\ n \in Nat /\ Len(s) = n + k + 1
  OBVIOUS
<1> HIDE DEF t
<1> DEFINE front == SubSeq(t, 1, k)
           back == SubSeq(t, k + 1, Len(t))
<1>2. /\ front \in Seq(Requests) /\ Len(front) = k /\ DOMAIN front = 1..k
      /\ \A i \in 1..k : front[i] = s[i + 1]
  BY FrontBackItems DEF t
<1>3. /\ back \in Seq(Requests) /\ Len(back) = n /\ DOMAIN back = 1..n
      /\ \A i \in 1..n : back[i] = s[i + k + 1]
  BY FrontBackItems DEF t
<1> HIDE DEF front, back, n
<1>4. Distinct(front) /\ Distinct(back)
  <2>1. Distinct(front)
    <3>1. \A i, j \in 1..k : i + 1 \in 1..Len(s) /\ (i + 1 = j + 1 => i = j)
      BY <1>1
    <3>2. ASSUME NEW i \in 1..k, NEW j \in 1..k, front[i] = front[j]
          PROVE  i = j
      <4>1. s[i + 1] = s[j + 1]
        BY <1>2, <3>2
      <4>2. QED
        BY <1>1, <3>1, <4>1 DEF Distinct
    <3>3. QED
      BY <1>2, <3>2 DEF Distinct
  <2>2. Distinct(back)
    <3>1. \A i, j \in 1..n :
             i + k + 1 \in 1..Len(s) /\ (i + k + 1 = j + k + 1 => i = j)
      BY <1>1
    <3>2. ASSUME NEW i \in 1..n, NEW j \in 1..n, back[i] = back[j]
          PROVE  i = j
      <4>1. s[i + k + 1] = s[j + k + 1]
        BY <1>3, <3>2
      <4>2. QED
        BY <1>1, <3>1, <4>1 DEF Distinct
    <3>3. QED
      BY <1>3, <3>2 DEF Distinct
  <2>3. QED
    BY <2>1, <2>2
<1>5. Elems(front) \subseteq Elems(s) \ {Head(s)}
  <2>1. \A i \in 1..k : i + 1 \in 1..Len(s) /\ 1 \in 1..Len(s) /\ i + 1 # 1
    BY <1>1
  <2>2. \A i \in 1..k : s[i + 1] # s[1] /\ s[i + 1] \in Elems(s)
    BY <1>1, <2>1 DEF Elems, Distinct
  <2>3. ASSUME NEW x \in Elems(front) PROVE x \in Elems(s) \ {Head(s)}
    <3>1. PICK i \in DOMAIN front : x = front[i]
      BY DEF Elems
    <3>2. i \in 1..k /\ x = s[i + 1]
      BY <1>2, <3>1
    <3>3. Head(s) = s[1]
      BY <1>1
    <3>4. QED
      BY <2>2, <3>2, <3>3
  <2>4. QED
    BY <2>3
<1>6. Elems(back) = Elems(s) \ (Elems(front) \cup {Head(s)})
  <2>1. ASSUME NEW x \in Elems(back)
        PROVE  x \in Elems(s) \ (Elems(front) \cup {Head(s)})
    <3>1. PICK i \in 1..n : x = s[i + k + 1]
      BY <1>3 DEF Elems
    <3>2. /\ i + k + 1 \in DOMAIN s /\ 1 \in DOMAIN s /\ i + k + 1 # 1
          /\ \A j \in 1..k : j + 1 \in DOMAIN s /\ i + k + 1 # j + 1
      BY <1>1
    <3>3. x # s[1] /\ \A j \in 1..k : x # s[j + 1]
      BY <3>1, <3>2 DEF Distinct
    <3>4. x \notin Elems(front)
      BY <1>2, <3>3 DEF Elems
    <3>5. QED
      BY <1>1, <3>1, <3>2, <3>3, <3>4 DEF Elems
  <2>2. ASSUME NEW x \in Elems(s), x # Head(s), x \notin Elems(front)
        PROVE  x \in Elems(back)
    <3>1. PICK i \in 1..Len(s) : s[i] = x
      BY <1>1 DEF Elems
    <3>2. \A j \in 1..k : s[j + 1] # x
      BY <1>2, <2>2 DEF Elems
    <3>3. i # 1 /\ ~(i - 1 \in 1..k)
      <4>1. i - 1 \in 1..k => s[(i - 1) + 1] # x
        BY <3>2
      <4>2. QED
        BY <1>1, <2>2, <3>1, <4>1
    <3>4. i - k - 1 \in 1..n /\ (i - k - 1) + k + 1 = i
      BY <1>1, <3>1, <3>3
    <3>5. QED
      BY <1>3, <3>1, <3>4 DEF Elems
  <2>3. QED
    BY <2>1, <2>2
<1>7. QED
  BY <1>2, <1>3, <1>4, <1>5, <1>6 DEF front, back, t, n

LEMMA ConcatElems ==
    ASSUME NEW s \in Seq(Requests), NEW t \in Seq(Requests)
    PROVE  /\ Elems(s \o t) = Elems(s) \cup Elems(t)
           /\ Distinct(s) /\ Distinct(t) /\ Elems(s) \cap Elems(t) = {}
              => Distinct(s \o t)
<1> DEFINE u == s \o t
<1>1. /\ Len(s) \in Nat /\ DOMAIN s = 1..Len(s)
      /\ Len(t) \in Nat /\ DOMAIN t = 1..Len(t)
      /\ DOMAIN u = 1..(Len(s) + Len(t))
      /\ \A i \in 1..Len(s) : u[i] = s[i]
      /\ \A i \in 1..Len(t) : u[i + Len(s)] = t[i]
      /\ \A i \in 1..(Len(s) + Len(t)) : i > Len(s) => u[i] = t[i - Len(s)]
  OBVIOUS
<1> HIDE DEF u
<1>2. Elems(u) = Elems(s) \cup Elems(t)
  <2>1. ASSUME NEW i \in DOMAIN u PROVE u[i] \in Elems(s) \cup Elems(t)
    <3>1. CASE i <= Len(s)
      BY <1>1, <3>1 DEF Elems
    <3>2. CASE i > Len(s)
      <4>1. i - Len(s) \in DOMAIN t /\ u[i] = t[i - Len(s)]
        BY <1>1, <3>2
      <4>2. QED
        BY <4>1 DEF Elems
    <3>3. QED
      BY <1>1, <3>1, <3>2
  <2>2. \A i \in DOMAIN s : s[i] \in Elems(u)
    BY <1>1 DEF Elems
  <2>3. \A i \in DOMAIN t : t[i] \in Elems(u)
    <3>1. \A i \in DOMAIN t : i + Len(s) \in DOMAIN u
      BY <1>1
    <3>2. QED
      BY <1>1, <3>1 DEF Elems
  <2>4. QED
    BY <2>1, <2>2, <2>3 DEF Elems
<1>3. ASSUME Distinct(s), Distinct(t), Elems(s) \cap Elems(t) = {}
      PROVE  Distinct(u)
  <2> SUFFICES ASSUME NEW i \in DOMAIN u, NEW j \in DOMAIN u, u[i] = u[j]
               PROVE  i = j
    BY DEF Distinct
  <2>1. CASE i <= Len(s) /\ j <= Len(s)
    BY <1>1, <1>3, <2>1 DEF Distinct
  <2>2. CASE i > Len(s) /\ j > Len(s)
    <3>1. /\ i - Len(s) \in DOMAIN t /\ j - Len(s) \in DOMAIN t
          /\ t[i - Len(s)] = t[j - Len(s)]
      BY <1>1, <2>2
    <3>2. i - Len(s) = j - Len(s)
      BY <1>3, <3>1 DEF Distinct
    <3>3. QED
      BY <1>1, <3>2
  <2>3. CASE i <= Len(s) /\ j > Len(s)
    <3>1. u[i] \in Elems(s) /\ u[j] \in Elems(t)
      BY <1>1, <2>3, SMTT(60) DEF Elems
    <3>2. QED
      BY <1>3, <3>1
  <2>4. CASE i > Len(s) /\ j <= Len(s)
    <3>1. u[j] \in Elems(s) /\ u[i] \in Elems(t)
      BY <1>1, <2>4 DEF Elems
    <3>2. QED
      BY <1>3, <3>1
  <2>5. QED
    BY <1>1, <2>1, <2>2, <2>3, <2>4
<1>4. QED
  BY <1>2, <1>3 DEF u

LEMMA ElemsCardinality ==
    ASSUME NEW s \in Seq(Requests), Distinct(s)
    PROVE  IsFiniteSet(Elems(s)) /\ Cardinality(Elems(s)) = Len(s)
<1>1. Len(s) \in Nat /\ DOMAIN s = 1..Len(s) /\ s \in [1..Len(s) -> Requests]
  OBVIOUS
<1>2. s \in Bijection(1..Len(s), Elems(s))
  <2>1. s \in [1..Len(s) -> Elems(s)]
    BY <1>1 DEF Elems
  <2>2. s \in Injection(1..Len(s), Elems(s))
    BY <1>1, <2>1 DEF Distinct, Injection, IsInjective
  <2>3. s \in Surjection(1..Len(s), Elems(s))
    BY <1>1, <2>1 DEF Surjection, Elems
  <2>4. QED
    BY <2>2, <2>3 DEF Bijection
<1>3. IsFiniteSet(1..Len(s)) /\ Cardinality(1..Len(s)) = Len(s)
  BY <1>1, FS_Interval
<1>4. QED
  BY <1>2, <1>3, FS_Bijection DEF ExistsBijection

PlInv == SInv /\ Distincts /\ Held1

(* What get_barrier does with the k requests it promotes and the idle       *)
(* workers in S that it takes to the fast list.                             *)
Promoted(w, k, S) ==
    LET rest == Tail(m_queue["barrier"]) IN
    /\ Promotes(rest, k)
    /\ thp_sched_req' = thp_sched_req + 1 + k
    /\ m_queue' = [m_queue EXCEPT
                      !["fast"] = @ \o SubSeq(rest, 1, k),
                      !["barrier"] = SubSeq(rest, k + 1, Len(rest))]
    /\ wpc' = [v \in Workers |->
                  IF v = w THEN "exec"
                  ELSE IF v \in S /\ wpc[v] = "sleep" THEN "loop"
                  ELSE wpc[v]]

LEMMA BarrierPromotes ==
    ASSUME NEW w \in Workers, get_barrier(w)
    PROVE  \E k \in 0..Len(Tail(m_queue["barrier"])), S \in SUBSET Listed("idle") :
              Promoted(w, k, S)
BY Zenon DEF get_barrier, Promoted

LEMMA StepMoves ==
    ASSUME PlInv, [Next]_vars, StopPolicy # "any"
    PROVE  Move /\ Distincts'
<1> USE PoolAssumption
    DEF PlInv, SInv, WInv, Threads, TInv, TypeOK, WorkerType, CallerType, PoolType, 
        CallerPCs, WorkerPCs, SpawnPCs, QuietStop, RunningStates, SpawnTargets, 
        ListedThreads, Control, NoneInline, Busy, poolVars, reqVars, wrkVars, callVars
<1> DEFINE Goal == Move /\ Distincts'
<1>t. TypeOK /\ Distincts
  OBVIOUS
<1>1. ASSUME NEW r \in Requests, schedule_barrier(r)
      PROVE  Goal
  <2>1. CASE thp_sched_req >= 1
    <3>1. m_queue' = Enqueue("barrier", r) /\ UNCHANGED <<wrk_queue, wpc, cur, executed, thp_sched_req>>
      BY <1>1, <2>1 DEF schedule_barrier
    <3>2. cpc[r] = "init" /\ cpc' = [cpc EXCEPT ![r] = "done"]
      BY <1>1, <2>1 DEF schedule_barrier
    <3>3. "barrier" \in ReqQueues /\ r \notin Pooled["barrier"]
      BY <3>2, QueueNames DEF Held1, CallersOwn, Outside
    <3>4. /\ Pooled' = [Pooled EXCEPT !["barrier"] = @ \cup {r}]
          /\ Own' = Own /\ Distincts'
      BY <3>1, <3>3, EnqueueMoves, OwnKept DEF Distincts
    <3>5. Taken(r, "barrier")
      BY <3>1, <3>2, <3>3, <3>4 DEF Taken, RunsKept
    <3>6. QED
      BY <3>3, <3>4, <3>5 DEF Move
  <2>2. CASE ~(thp_sched_req >= 1)
    <3>1. UNCHANGED <<m_queue, wrk_queue, wpc, cur, executed, thp_sched_req>>
      BY <1>1, <2>2 DEF schedule_barrier
    <3>2. cpc[r] = "init" /\ cpc' = [cpc EXCEPT ![r] = "schedule"]
      BY <1>1, <2>2 DEF schedule_barrier
    <3>3. Pooled' = Pooled /\ Own' = Own /\ Distincts'
      BY <3>1, PoolKept, OwnKept DEF Distincts
    <3>4. Still
      BY <3>1, <3>2, <3>3 DEF Still, RunsKept
    <3>5. QED
      BY <3>3, <3>4 DEF Move
  <2>3. QED
    BY <2>1, <2>2
<1>2. ASSUME NEW r \in Requests, schedule_deferred(r)
      PROVE  Goal
  <2>1. m_queue' = Enqueue("barrier", r) /\ UNCHANGED <<wrk_queue, wpc, cur, executed>>
    BY <1>2 DEF schedule_deferred, Entered, MayCall
  <2>2. cpc[r] \in {"init", "schedule"}
    BY <1>2 DEF schedule_deferred, Entered, MayCall
  <2>3. "barrier" \in ReqQueues /\ r \notin Pooled["barrier"]
    BY <1>2, <2>2, QueueNames DEF Held1, CallersOwn, Outside,
          schedule_deferred, Entered, MayCall
  <2>4. /\ Pooled' = [Pooled EXCEPT !["barrier"] = @ \cup {r}]
        /\ Own' = Own /\ Distincts'
    BY <2>1, <2>3, EnqueueMoves, OwnKept DEF Distincts
  <2>5. /\ thp_sched_req' = thp_sched_req + (IF "barrier" = "barrier" THEN 0 ELSE 1)
        /\ \E pc \in {"done", "spawn"} : cpc' = [cpc EXCEPT ![r] = pc]
    BY <1>2, QueueNames DEF schedule_deferred, Entered, MayCall
  <2>6. Taken(r, "barrier")
    BY <2>1, <2>2, <2>3, <2>4, <2>5 DEF Taken, RunsKept
  <2>7. QED
    BY <2>3, <2>4, <2>6 DEF Move
<1>3. ASSUME NEW r \in Requests, NEW q \in QueueNos, schedule_parked(r, q)
      PROVE  Goal
  <2>1. m_queue' = Enqueue(q, r) /\ UNCHANGED <<wrk_queue, wpc, cur, executed>>
    BY <1>3 DEF schedule_parked, Admit, Goto, Entered, MayCall, ParkQueues,
          ReqQueues
  <2>2. cpc[r] \in {"init", "schedule"}
    BY <1>3 DEF schedule_parked, Admit, Goto, Entered, MayCall, ParkQueues,
          ReqQueues
  <2>3. q \in ReqQueues /\ r \notin Pooled[q]
    BY <1>3, <2>2, QueueNames DEF Held1, CallersOwn, Outside, schedule_parked,
          Admit, Goto, Entered, MayCall, ParkQueues, ReqQueues
  <2>4. /\ Pooled' = [Pooled EXCEPT ![q] = @ \cup {r}]
        /\ Own' = Own /\ Distincts'
    BY <2>1, <2>3, EnqueueMoves, OwnKept DEF Distincts
  <2>5. /\ thp_sched_req' = thp_sched_req + (IF q = "barrier" THEN 0 ELSE 1)
        /\ \E pc \in {"done", "spawn"} : cpc' = [cpc EXCEPT ![r] = pc]
    BY <1>3, QueueNames DEF schedule_parked, Admit, Goto, Entered, MayCall,
          ParkQueues, ReqQueues
  <2>6. Taken(r, q)
    BY <2>1, <2>2, <2>3, <2>4, <2>5 DEF Taken, RunsKept
  <2>7. QED
    BY <2>3, <2>4, <2>6 DEF Move
<1>4. ASSUME NEW r \in Requests, NEW q \in QueueNos, NEW w \in Workers,
             schedule_direct(r, q, w)
      PROVE  Goal
  <2>1. Pooled' = Pooled /\ Own' = Own /\ Distincts'
    BY <1>4, PoolKept, OwnKept DEF Distincts, schedule_direct, Admit, Goto,
          Entered, MayCall, Listed, thp_swap_queue, worker_update_state
  <2>2. Handed(r)
    BY <1>4, <2>1 DEF Handed, RunsKept, schedule_direct, Admit, Goto, Entered,
          MayCall, Listed, thp_swap_queue, worker_update_state
  <2>3. QED
    BY <2>1, <2>2 DEF Move
<1>5. ASSUME NEW r \in Requests, NEW q \in QueueNos, NEW w \in Workers, NEW v
             \in Workers, schedule_round_robin(r, q, w, v)
      PROVE  Goal
  <2>1. Pooled' = Pooled /\ Own' = Own /\ Distincts'
    BY <1>5, PoolKept, OwnKept DEF Distincts, schedule_round_robin, Admit,
          Goto, Entered, MayCall, Listed, worker_update_state
  <2>2. Handed(r)
    BY <1>5, <2>1 DEF Handed, RunsKept, schedule_round_robin, Admit, Goto,
          Entered, MayCall, Listed, worker_update_state
  <2>3. QED
    BY <2>1, <2>2 DEF Move
<1>6. ASSUME NEW r \in Requests, NEW q \in QueueNos, NEW w \in Workers,
             schedule_idle(r, q, w)
      PROVE  Goal
  <2>1. Pooled' = Pooled /\ Own' = Own /\ Distincts'
    BY <1>6, PoolKept, OwnKept DEF Distincts, schedule_idle, Admit, Goto,
          Entered, MayCall, Listed
  <2>2. Handed(r)
    BY <1>6, <2>1 DEF Handed, RunsKept, schedule_idle, Admit, Goto, Entered,
          MayCall, Listed
  <2>3. QED
    BY <2>1, <2>2 DEF Move
<1>7. ASSUME NEW r \in Requests, NEW q \in QueueNos, schedule_common(r, q)
      PROVE  Goal
  <2>1. m_queue' = Enqueue(q, r) /\ UNCHANGED <<wrk_queue, wpc, cur, executed>>
    BY <1>7 DEF schedule_common, Admit, Goto, Entered, MayCall, Listed,
          CommonQueues, ReqQueues
  <2>2. cpc[r] \in {"init", "schedule"}
    BY <1>7 DEF schedule_common, Admit, Goto, Entered, MayCall, Listed,
          CommonQueues, ReqQueues
  <2>3. q \in ReqQueues /\ r \notin Pooled[q]
    BY <1>7, <2>2, QueueNames DEF Held1, CallersOwn, Outside, schedule_common,
          Admit, Goto, Entered, MayCall, Listed, CommonQueues, ReqQueues
  <2>4. /\ Pooled' = [Pooled EXCEPT ![q] = @ \cup {r}]
        /\ Own' = Own /\ Distincts'
    BY <2>1, <2>3, EnqueueMoves, OwnKept DEF Distincts
  <2>5. /\ thp_sched_req' = thp_sched_req + (IF q = "barrier" THEN 0 ELSE 1)
        /\ \E pc \in {"done", "spawn"} : cpc' = [cpc EXCEPT ![r] = pc]
    BY <1>7, QueueNames DEF schedule_common, Admit, Goto, Entered, MayCall,
          Listed, CommonQueues, ReqQueues
  <2>6. Taken(r, q)
    BY <2>1, <2>2, <2>3, <2>4, <2>5 DEF Taken, RunsKept
  <2>7. QED
    BY <2>3, <2>4, <2>6 DEF Move
<1>8. ASSUME NEW r \in Requests, NEW q \in QueueNos, schedule_inline(r, q)
      PROVE  Goal
  BY <1>8 DEF StopFlag, schedule_inline, Admit, Goto, Entered, MayCall
<1>9. ASSUME NEW r \in Requests, worker_enqueue(r)
      PROVE  Goal
  <2> DEFINE w == target[r]
  <2>1. w \in Workers /\ cpc[r] = "enqueue" /\ wrk_state[w] # "terminate"
    BY <1>9 DEF worker_enqueue
  <2>2. /\ wrk_queue' = [wrk_queue EXCEPT ![w] = Append(wrk_queue[w], r)]
        /\ cpc' = [cpc EXCEPT ![r] = "done"]
        /\ UNCHANGED <<m_queue, cur, executed, thp_sched_req>>
    BY <1>9, <2>1 DEF worker_enqueue
  <2>3. Signal({w})
    BY <1>9, <2>1 DEF worker_enqueue
  <2> HIDE DEF w
  <2>4. RunsKept
    BY <2>3 DEF Signal, RunsKept
  <2>5. r \notin Own[w]
    BY <2>1 DEF Held1, CallersOwn, Outside
  <2>6. /\ Elems(Append(wrk_queue[w], r)) = Elems(wrk_queue[w]) \cup {r}
        /\ Distinct(Append(wrk_queue[w], r))
    BY <2>1, <2>5, AppendElems DEF Distincts, Own
  <2>7. Own' = [Own EXCEPT ![w] = @ \cup {r}] /\ Pooled' = Pooled /\ Distincts'
    BY <2>1, <2>2, <2>6, PoolKept DEF Distincts, Own
  <2>8. Given(r, w)
    BY <2>1, <2>2, <2>4, <2>7 DEF Given
  <2>9. QED
    BY <2>1, <2>7, <2>8 DEF Move
<1>10. ASSUME NEW r \in Requests, exec_inline(r)
      PROVE  Goal
  BY <1>10 DEF StopFlag, exec_inline
<1>11. ASSUME NEW r \in Requests, spawn_check(r)
      PROVE  Goal
  <2>1. Pooled' = Pooled /\ Own' = Own /\ Distincts'
    BY <1>11, PoolKept, OwnKept DEF Distincts, spawn_check, SpawnStep, MaySpawn
  <2>2. RunsKept
    BY <1>11 DEF RunsKept, spawn_check, SpawnStep, MaySpawn
  <2>3. Still
    BY <1>11, <2>1, <2>2 DEF Still, Outside, spawn_check, SpawnStep, MaySpawn
  <2>4. QED
    BY <2>1, <2>3 DEF Move
<1>12. ASSUME NEW r \in Requests, spawn_state(r)
      PROVE  Goal
  <2>1. Pooled' = Pooled /\ Own' = Own /\ Distincts'
    BY <1>12, PoolKept, OwnKept DEF Distincts, spawn_state, SpawnStep
  <2>2. RunsKept
    BY <1>12 DEF RunsKept, spawn_state, SpawnStep
  <2>3. Still
    BY <1>12, <2>1, <2>2 DEF Still, Outside, spawn_state, SpawnStep
  <2>4. QED
    BY <2>1, <2>3 DEF Move
<1>13. ASSUME NEW r \in Requests, spawn_count(r)
      PROVE  Goal
  <2>1. Pooled' = Pooled /\ Own' = Own /\ Distincts'
    BY <1>13, PoolKept, OwnKept DEF Distincts, spawn_count, SpawnStep
  <2>2. RunsKept
    BY <1>13 DEF RunsKept, spawn_count, SpawnStep
  <2>3. Still
    BY <1>13, <2>1, <2>2 DEF Still, Outside, spawn_count, SpawnStep
  <2>4. QED
    BY <2>1, <2>3 DEF Move
<1>14. ASSUME NEW r \in Requests, spawn_create(r)
      PROVE  Goal
  <2>1. Pooled' = Pooled /\ Own' = Own /\ Distincts'
    BY <1>14, PoolKept, OwnKept DEF Distincts, spawn_create, SpawnStep
  <2>2. RunsKept
    BY <1>14 DEF RunsKept, spawn_create, SpawnStep
  <2>3. Still
    BY <1>14, <2>1, <2>2 DEF Still, Outside, spawn_create, SpawnStep
  <2>4. QED
    BY <2>1, <2>3 DEF Move
<1>15. ASSUME NEW r \in Requests, spawn_fail(r)
      PROVE  Goal
  <2>1. Pooled' = Pooled /\ Own' = Own /\ Distincts'
    BY <1>15, PoolKept, OwnKept DEF Distincts, spawn_fail, SpawnFails, SpawnStep
  <2>2. RunsKept
    BY <1>15 DEF RunsKept, spawn_fail, SpawnFails, SpawnStep
  <2>3. Still
    BY <1>15, <2>1, <2>2 DEF Still, Outside, spawn_fail, SpawnFails, SpawnStep
  <2>4. QED
    BY <2>1, <2>3 DEF Move
<1>16. ASSUME NEW r \in Requests, spawn_undo(r)
      PROVE  Goal
  <2>1. Pooled' = Pooled /\ Own' = Own /\ Distincts'
    BY <1>16, PoolKept, OwnKept DEF Distincts, spawn_undo, SpawnStep,
          thp_swap_queue, worker_update_state
  <2>2. RunsKept
    BY <1>16 DEF RunsKept, spawn_undo, SpawnStep, thp_swap_queue,
          worker_update_state
  <2>3. Still
    BY <1>16, <2>1, <2>2 DEF Still, Outside, spawn_undo, SpawnStep,
          thp_swap_queue, worker_update_state
  <2>4. QED
    BY <2>1, <2>3 DEF Move
<1>17. ASSUME NEW w \in Workers, worker_start(w)
      PROVE  Goal
  <2>1. Pooled' = Pooled /\ Own' = Own /\ Distincts'
    BY <1>17, PoolKept, OwnKept DEF Distincts, worker_start, WorkerStep,
          thp_swap_queue, worker_update_state
  <2>2. RunsKept
    BY <1>17 DEF RunsKept, worker_start, WorkerStep, thp_swap_queue,
          worker_update_state
  <2>3. Still
    BY <1>17, <2>1, <2>2 DEF Still, Outside, worker_start, WorkerStep,
          thp_swap_queue, worker_update_state
  <2>4. QED
    BY <2>1, <2>3 DEF Move
<1>18. ASSUME NEW w \in Workers, worker_check(w)
      PROVE  Goal
  <2>1. Pooled' = Pooled /\ Own' = Own /\ Distincts'
    BY <1>18, PoolKept, OwnKept DEF Distincts, worker_check, WorkerStep,
          wrk_can_terminate
  <2>2. RunsKept
    BY <1>18 DEF RunsKept, worker_check, WorkerStep, wrk_can_terminate
  <2>3. Still
    BY <1>18, <2>1, <2>2 DEF Still, Outside, worker_check, WorkerStep,
          wrk_can_terminate
  <2>4. QED
    BY <2>1, <2>3 DEF Move
<1>19. ASSUME NEW w \in Workers, worker_pop(w)
      PROVE  Goal
  <2> DEFINE x == Head(wrk_queue[w])
  <2>1. /\ x \in Own[w] /\ x \in Requests
        /\ Elems(Tail(wrk_queue[w])) = Elems(wrk_queue[w]) \ {x}
        /\ Distinct(Tail(wrk_queue[w]))
    BY <1>19, TailElems DEF Distincts, Own, worker_pop
  <2>2. /\ wrk_queue' = [wrk_queue EXCEPT ![w] = Tail(wrk_queue[w])]
        /\ cur' = [cur EXCEPT ![w] = x]
        /\ wpc[w] = "pop" /\ wpc' = [wpc EXCEPT ![w] = "exec"]
        /\ UNCHANGED <<m_queue, cpc, executed, thp_sched_req>>
    BY <1>19 DEF worker_pop, WorkerStep
  <2> HIDE DEF x
  <2>3. Own' = [Own EXCEPT ![w] = @ \ {x}] /\ Pooled' = Pooled /\ Distincts'
    BY <2>1, <2>2, PoolKept DEF Distincts, Own
  <2>4. Popped(x, w)
    BY <2>1, <2>2, <2>3 DEF Popped, Runs
  <2>5. QED
    BY <2>1, <2>3, <2>4 DEF Move
<1>20. ASSUME NEW w \in Workers, NEW q \in CommonQueues, get_common(w, q)
      PROVE  Goal
  <2> DEFINE x == Head(m_queue[q])
  <2>1. q \in ReqQueues /\ m_queue[q] # <<>> /\ m_queue' = Dequeue(q)
    BY <1>20, QueueNames DEF get_common
  <2>2. /\ x \in Pooled[q] /\ x \in Requests
        /\ Pooled' = [Pooled EXCEPT ![q] = @ \ {x}]
        /\ \A p \in ReqQueues : Distinct(m_queue'[p])
    BY <2>1, DequeueMoves
  <2>3. /\ cur' = [cur EXCEPT ![w] = x]
        /\ wpc[w] = "pop" /\ wpc' = [wpc EXCEPT ![w] = "exec"]
        /\ UNCHANGED <<wrk_queue, cpc, executed, thp_sched_req>>
    BY <1>20 DEF get_common, WorkerStep
  <2> HIDE DEF x
  <2>4. Own' = Own /\ Distincts'
    BY <2>2, <2>3, OwnKept DEF Distincts
  <2>5. Fetched(x, w, q)
    BY <1>20, <2>2, <2>3, <2>4 DEF Fetched, Runs
  <2>6. QED
    BY <1>20, <2>2, <2>4, <2>5 DEF Move
<1>21. ASSUME NEW w \in Workers, put_idle(w)
      PROVE  Goal
  <2>1. Pooled' = Pooled /\ Own' = Own /\ Distincts'
    BY <1>21, PoolKept, OwnKept DEF Distincts, put_idle, WorkerStep,
          thp_swap_queue, worker_update_state
  <2>2. RunsKept
    BY <1>21 DEF RunsKept, put_idle, WorkerStep, thp_swap_queue,
          worker_update_state
  <2>3. Still
    BY <1>21, <2>1, <2>2 DEF Still, Outside, put_idle, WorkerStep,
          thp_swap_queue, worker_update_state
  <2>4. QED
    BY <2>1, <2>3 DEF Move
<1>22. ASSUME NEW w \in Workers, get_barrier(w)
      PROVE  Goal
  <2> DEFINE bq == m_queue["barrier"]
             x == Head(bq)
  <2>1. bq \in Seq(Requests) /\ bq # <<>> /\ Distinct(bq)
    BY <1>22, QueueNames DEF get_barrier, RequestType, Distincts, BarrierCounted
  <2>2. PICK k \in 0..Len(Tail(bq)), S \in SUBSET Listed("idle") : Promoted(w, k, S)
    BY <1>22, BarrierPromotes
  <2> DEFINE front == SubSeq(Tail(bq), 1, k)
             back == SubSeq(Tail(bq), k + 1, Len(Tail(bq)))
  <2>3. /\ front \in Seq(Requests) /\ Len(front) = k
        /\ Distinct(front) /\ Distinct(back)
        /\ Elems(front) \subseteq Elems(bq) \ {x}
        /\ Elems(back) = Elems(bq) \ (Elems(front) \cup {x})
    BY <2>1, FrontAndBack, ZenonT(60)
  <2>4. x \in Elems(bq) /\ x \in Requests
    BY <2>1, TailElems
  <2>5. /\ cur' = [cur EXCEPT ![w] = x] /\ wpc[w] = "pop"
        /\ UNCHANGED <<wrk_queue, cpc, executed>> /\ thp_sched_req <= 0
    BY <1>22 DEF get_barrier
  <2>6. /\ m_queue' = [m_queue EXCEPT !["fast"] = @ \o front, !["barrier"] = back]
        /\ thp_sched_req' = thp_sched_req + 1 + k
    BY <2>2 DEF Promoted
  <2>7. IsFiniteSet(Elems(front)) /\ Cardinality(Elems(front)) = k
    BY <2>3, ElemsCardinality
  <2> HIDE DEF bq, x, front, back
  <2>8. Elems(m_queue["fast"]) \cap Elems(front) = {}
    <3>1. \A y \in Elems(front) : y \in Requests /\ y \in Pooled["barrier"]
      <4>1. Pooled["barrier"] = Elems(bq)
        BY QueueNames DEF Pooled, bq
      <4>2. Elems(bq) \subseteq Requests
        BY <2>1 DEF Elems
      <4>3. QED
        BY <2>3, <4>1, <4>2
    <3>2. \A y \in Elems(front) : y \notin Pooled["fast"]
      BY <3>1, QueueNames DEF Held1, Single
    <3>3. QED
      BY <3>2, QueueNames DEF Pooled
  <2>9. /\ Elems(m_queue["fast"] \o front) = Elems(m_queue["fast"]) \cup Elems(front)
        /\ Distinct(m_queue["fast"] \o front)
    BY <2>3, <2>8, ConcatElems, QueueNames DEF RequestType, Distincts
  <2>10. /\ m_queue'["fast"] = m_queue["fast"] \o front
         /\ m_queue'["barrier"] = back
         /\ \A q \in ReqQueues \ {"fast", "barrier"} : m_queue'[q] = m_queue[q]
    BY <2>6, QueueNames DEF RequestType
  <2>11. Distincts' /\ Own' = Own
    BY <2>3, <2>5, <2>9, <2>10, OwnKept, ZenonT(60) DEF Distincts
  <2>12. Pooled' = [q \in ReqQueues |->
                       IF q = "barrier" THEN Pooled[q] \ (Elems(front) \cup {x})
                       ELSE IF q = "fast" THEN Pooled[q] \cup Elems(front)
                       ELSE Pooled[q]]
    <3>1. /\ Pooled'["barrier"] = Pooled["barrier"] \ (Elems(front) \cup {x})
          /\ Pooled'["fast"] = Pooled["fast"] \cup Elems(front)
      BY <2>3, <2>9, <2>10, QueueNames DEF Pooled, bq
    <3>2. \A q \in ReqQueues \ {"fast", "barrier"} : Pooled'[q] = Pooled[q]
      BY <2>10 DEF Pooled
    <3>3. Pooled' = [q \in ReqQueues |-> Pooled'[q]]
      BY DEF Pooled
    <3>4. QED
      BY <3>1, <3>2, <3>3
  <2>13. Runs(x, w)
    BY <2>2, <2>5 DEF Runs, Promoted
  <2>14. Released(x, w, Elems(front))
    BY <2>3, <2>4, <2>5, <2>6, <2>7, <2>11, <2>12, <2>13, QueueNames
          DEF Released, Pooled, bq
  <2>15. Elems(front) \in SUBSET Requests
    BY <2>3 DEF Elems
  <2>16. QED
    BY <2>4, <2>11, <2>14, <2>15 DEF Move
<1>23. ASSUME NEW w \in Workers, worker_recheck(w)
      PROVE  Goal
  <2>1. Pooled' = Pooled /\ Own' = Own /\ Distincts'
    BY <1>23, PoolKept, OwnKept DEF Distincts, worker_recheck, WorkerStep,
          wrk_can_terminate
  <2>2. RunsKept
    BY <1>23 DEF RunsKept, worker_recheck, WorkerStep, wrk_can_terminate
  <2>3. Still
    BY <1>23, <2>1, <2>2 DEF Still, Outside, worker_recheck, WorkerStep,
          wrk_can_terminate
  <2>4. QED
    BY <2>1, <2>3 DEF Move
<1>24. ASSUME NEW w \in Workers, worker_verify(w)
      PROVE  Goal
  <2>1. Pooled' = Pooled /\ Own' = Own /\ Distincts'
    BY <1>24, PoolKept, OwnKept DEF Distincts, worker_verify, WorkerStep
  <2>2. RunsKept
    BY <1>24 DEF RunsKept, worker_verify, WorkerStep
  <2>3. Still
    BY <1>24, <2>1, <2>2 DEF Still, Outside, worker_verify, WorkerStep
  <2>4. QED
    BY <2>1, <2>3 DEF Move
<1>25. ASSUME NEW w \in Workers, worker_wait(w)
      PROVE  Goal
  <2>1. Pooled' = Pooled /\ Own' = Own /\ Distincts'
    BY <1>25, PoolKept, OwnKept DEF Distincts, worker_wait, WorkerStep
  <2>2. RunsKept
    BY <1>25 DEF RunsKept, worker_wait, WorkerStep
  <2>3. Still
    BY <1>25, <2>1, <2>2 DEF Still, Outside, worker_wait, WorkerStep
  <2>4. QED
    BY <2>1, <2>3 DEF Move
<1>26. ASSUME NEW w \in Workers, spurious_wakeup(w)
      PROVE  Goal
  <2>1. Pooled' = Pooled /\ Own' = Own /\ Distincts'
    BY <1>26, PoolKept, OwnKept DEF Distincts, spurious_wakeup, WorkerStep
  <2>2. RunsKept
    BY <1>26 DEF RunsKept, spurious_wakeup, WorkerStep
  <2>3. Still
    BY <1>26, <2>1, <2>2 DEF Still, Outside, spurious_wakeup, WorkerStep
  <2>4. QED
    BY <2>1, <2>3 DEF Move
<1>27. ASSUME NEW w \in Workers, worker_exec(w)
      PROVE  Goal
  <2>1. Pooled' = Pooled /\ Own' = Own /\ Distincts'
    BY <1>27, PoolKept, OwnKept DEF Distincts, worker_exec, WorkerStep
  <2>2. Ran(w)
    BY <1>27, <2>1 DEF Ran, worker_exec, WorkerStep, RequestType
  <2>3. QED
    BY <2>1, <2>2 DEF Move
<1>28. ASSUME NEW w \in Workers, worker_finish(w)
      PROVE  Goal
  <2>1. Pooled' = Pooled /\ Own' = Own /\ Distincts'
    BY <1>28, PoolKept, OwnKept DEF Distincts, worker_finish, FinishWith,
          WorkerStep
  <2>2. Ended(w)
    BY <1>28, <2>1 DEF Ended, worker_finish, FinishWith, WorkerStep, RequestType
  <2>3. QED
    BY <2>1, <2>2 DEF Move
<1>29. ASSUME NEW w \in Workers, thp_thread_terminate(w)
      PROVE  Goal
  <2>1. Pooled' = Pooled /\ Own' = Own /\ Distincts'
    BY <1>29, PoolKept, OwnKept DEF Distincts, thp_thread_terminate,
          thp_swap_queue, worker_update_state
  <2>2. RunsKept
    BY <1>29 DEF RunsKept, thp_thread_terminate, thp_swap_queue,
          worker_update_state
  <2>3. Still
    BY <1>29, <2>1, <2>2 DEF Still, Outside, thp_thread_terminate,
          thp_swap_queue, worker_update_state
  <2>4. QED
    BY <2>1, <2>3 DEF Move
<1>30. ASSUME thp_stop
      PROVE  Goal
  <2>1. Pooled' = Pooled /\ Own' = Own /\ Distincts'
    BY <1>30, PoolKept, OwnKept DEF Distincts, thp_stop, Signal, StopTest
  <2>2. RunsKept
    BY <1>30 DEF RunsKept, thp_stop, Signal, StopTest
  <2>3. Still
    BY <1>30, <2>1, <2>2 DEF Still, Outside, thp_stop, Signal, StopTest
  <2>4. QED
    BY <2>1, <2>3 DEF Move
<1>31. ASSUME thp_stop_woken
      PROVE  Goal
  <2>1. Pooled' = Pooled /\ Own' = Own /\ Distincts'
    BY <1>31, PoolKept, OwnKept DEF Distincts, thp_stop_woken, StopTest
  <2>2. RunsKept
    BY <1>31 DEF RunsKept, thp_stop_woken, StopTest
  <2>3. Still
    BY <1>31, <2>1, <2>2 DEF Still, Outside, thp_stop_woken, StopTest
  <2>4. QED
    BY <2>1, <2>3 DEF Move
<1>32. ASSUME UNCHANGED vars PROVE Goal
  <2>1. Pooled' = Pooled /\ Own' = Own /\ Distincts'
    BY <1>32, PoolKept, OwnKept DEF Distincts, vars
  <2>2. Still
    BY <1>32, <2>1 DEF Still, RunsKept, vars
  <2>3. QED
    BY <2>1, <2>2 DEF Move
<1>33. Goal
  <2> HIDE DEF PlInv, SInv, WInv, Threads, TInv, Move, Distincts
  <2>1. ASSUME NEW r \in Requests, Schedule(r) PROVE Goal
    BY <2>1, <1>2, <1>3, <1>4, <1>5, <1>6, <1>7, <1>8 DEF Schedule
  <2>2. ASSUME NEW r \in Requests, CallerStep(r) PROVE Goal
    BY <2>2, <1>9, <1>10, <1>11, <1>12, <1>13, <1>14, <1>15, <1>16
          DEF CallerStep
  <2>3. ASSUME NEW w \in Workers, WorkerThread(w) PROVE Goal
    BY <2>3, <1>17, <1>18, <1>19, <1>20, <1>21, <1>22, <1>23, <1>24, <1>25,
          <1>27, <1>28, <1>29 DEF WorkerThread
  <2>4. QED
    BY <2>1, <2>2, <2>3, <1>1, <1>26, <1>30, <1>31, <1>32 DEF Next
<1>34. QED
  BY <1>33

-----------------------------------------------------------------------------
(* Places and counters.                                                     *)

(* Active, in terms of the sets of requests.                                *)
Works ==
    {r \in Requests :
        \/ cpc[r] = "enqueue"
        \/ \E q \in ReqQueues \ {"barrier"} : r \in Pooled[q]
        \/ \E w \in Workers : cur[w] = r \/ r \in Own[w]}

LEMMA ActiveWorks == TypeOK => Active = Works
<1> SUFFICES ASSUME TypeOK PROVE Active = Works
  OBVIOUS
<1>1. ASSUME NEW r, NEW q \in ReqQueues
      PROVE  r \in Pooled[q] <=> \E i \in 1..Len(m_queue[q]) : m_queue[q][i] = r
  BY DEF TypeOK, RequestType, Pooled, Elems
<1>2. ASSUME NEW r, NEW w \in Workers
      PROVE  r \in Own[w] <=> \E i \in 1..Len(wrk_queue[w]) : wrk_queue[w][i] = r
  BY DEF TypeOK, WorkerType, Own, Elems
<1>3. QED
  BY <1>1, <1>2 DEF Active, Works

(* thp_sched_req is exact.                                                  *)
Counted == IsFiniteSet(Works) /\ thp_sched_req = Cardinality(Works)

LEMMA MoveCounts ==
    ASSUME Typed, Typed', Held1, Move, Counted
    PROVE  Counted'
<1> USE PoolAssumption DEF Typed
<1>c. Cardinality(Works) \in Nat
  BY FS_CardinalityType DEF Counted
<1>1. CASE Still
  <2>1. Works' = Works
    BY <1>1 DEF Still, Works, Outside
  <2>2. QED
    BY <1>1, <2>1 DEF Still, Counted
<1>2. ASSUME NEW r \in Requests, Handed(r) PROVE Counted'
  <2>1. Works' = Works \cup {r}
    BY <1>2 DEF Handed, Works
  <2>2. r \notin Works
    BY <1>2 DEF Handed, Works, Held1, CallersOwn, Outside
  <2>3. QED
    BY <1>2, <2>1, <2>2, FS_AddElement DEF Handed, Counted
<1>3. ASSUME NEW r \in Requests, NEW q \in ReqQueues, Taken(r, q)
      PROVE  Counted'
  <2>1. CASE q = "barrier"
    <3>1. Works' = Works
      BY <1>3, <2>1 DEF Taken, Works
    <3>2. QED
      BY <1>3, <2>1, <3>1 DEF Taken, Counted
  <2>2. CASE q # "barrier"
    <3>1. Works' = Works \cup {r}
      BY <1>3, <2>2 DEF Taken, Works
    <3>2. r \notin Works
      BY <1>3 DEF Taken, Works, Held1, CallersOwn, Outside
    <3>3. QED
      BY <1>3, <2>2, <3>1, <3>2, FS_AddElement DEF Taken, Counted
  <2>3. QED
    BY <2>1, <2>2
<1>4. ASSUME NEW r \in Requests, NEW w \in Workers, Given(r, w)
      PROVE  Counted'
  <2>1. Works' = Works
    BY <1>4 DEF Given, Works
  <2>2. QED
    BY <1>4, <2>1 DEF Given, Counted
<1>5. ASSUME NEW r \in Requests, NEW w \in Workers, Popped(r, w)
      PROVE  Counted'
  <2>1. cur[w] = None
    BY <1>5 DEF Popped, Runs, Held1, Executing
  <2>2. Works' = Works
    BY <1>5, <2>1 DEF Popped, Runs, Works
  <2>3. QED
    BY <1>5, <2>2 DEF Popped, Counted
<1>6. ASSUME NEW r \in Requests, NEW w \in Workers, NEW q \in CommonQueues,
             Fetched(r, w, q)
      PROVE  Counted'
  <2>1. cur[w] = None
    BY <1>6 DEF Fetched, Runs, Held1, Executing
  <2>2. Works' = Works
    BY <1>6, <2>1, QueueNames DEF Fetched, Runs, Works
  <2>3. QED
    BY <1>6, <2>2 DEF Fetched, Counted
<1>7. ASSUME NEW r \in Requests, NEW w \in Workers, NEW K \in SUBSET Requests,
             Released(r, w, K)
      PROVE  Counted'
  <2>1. Works = {} /\ thp_sched_req = 0
    BY <1>7, <1>c, FS_EmptySet DEF Released, Counted
  <2>2. Works' = K \cup {r}
    <3>1. /\ \A x \in Requests : cpc'[x] # "enqueue"
          /\ \A q \in ReqQueues \ {"barrier"} :
                \A x \in Requests : x \in Pooled'[q] <=> q = "fast" /\ x \in K
          /\ \A v \in Workers : Own'[v] = {} /\ (v # w => cur'[v] = None)
          /\ cur'[w] = r
      <4>1. \A x \in Requests :
               /\ cpc[x] # "enqueue"
               /\ \A q \in ReqQueues \ {"barrier"} : x \notin Pooled[q]
               /\ \A v \in Workers : x \notin Own[v] /\ cur[v] # x
        BY <2>1 DEF Works
      <4>2. /\ \A q \in ReqQueues \ {"barrier"} : Pooled[q] = {}
            /\ \A v \in Workers : Own[v] = {} /\ cur[v] = None
        BY <4>1
      <4>3. /\ cpc' = cpc /\ Own' = Own /\ cur' = [cur EXCEPT ![w] = r]
            /\ \A q \in ReqQueues \ {"barrier"} :
                  Pooled'[q] = IF q = "fast" THEN Pooled[q] \cup K ELSE Pooled[q]
        BY <1>7 DEF Released, Runs
      <4>4. QED
        BY <4>1, <4>2, <4>3
    <3>2. QED
      BY <1>7, <3>1, QueueNames DEF Works
  <2>3. r \notin K
    BY <1>7 DEF Released
  <2>4. QED
    BY <1>7, <2>1, <2>2, <2>3, FS_AddElement, FS_CardinalityType, SMTT(60)
       DEF Released, Counted
<1>8. ASSUME NEW w \in Workers, Ran(w) PROVE Counted'
  <2>1. Works' = Works
    BY <1>8 DEF Ran, Works
  <2>2. QED
    BY <1>8, <2>1 DEF Ran, Counted
<1>9. ASSUME NEW w \in Workers, Ended(w) PROVE Counted'
  <2>1. cur[w] \in Works /\ cur[w] \in Requests
    BY <1>9 DEF Ended, Works
  <2>2. Works' = Works \ {cur[w]}
    BY <1>9, <2>1 DEF Ended, Works, Held1, Single, CallersOwn, Outside
  <2>3. QED
    BY <1>9, <2>1, <2>2, FS_RemoveElement DEF Ended, Counted
<1>10. QED
  BY <1>1, <1>2, <1>3, <1>4, <1>5, <1>6, <1>7, <1>8, <1>9 DEF Move

PInv == PlInv /\ Counted

LEMMA InitPlaces == Init => PInv
<1> SUFFICES ASSUME Init PROVE PInv
  OBVIOUS
<1>1. SInv
  BY InitWake, InitControl DEF SInv
<1>2. /\ Pooled = [q \in ReqQueues |-> {}]
      /\ Own = [w \in Workers |-> {}]
      /\ Distincts
  BY DEF Init, Pooled, Own, Elems, Distincts, Distinct
<1>3. Held1
  BY <1>2, PoolAssumption DEF Init, Held1, Single, CallersOwn, Kept, Executing, Outside
<1>4. Works = {}
  BY <1>2, PoolAssumption DEF Init, Works
<1>5. Counted
  BY <1>4, FS_EmptySet DEF Init, Counted
<1>6. QED
  BY <1>1, <1>2, <1>3, <1>5 DEF PInv, PlInv

LEMMA StepPlaces ==
    ASSUME PInv, [Next]_vars, StopPolicy # "any"
    PROVE  PInv'
<1>1. SInv'
  BY StepWake, StepControl DEF PInv, PlInv, SInv
<1>2. Move /\ Distincts'
  BY StepMoves DEF PInv
<1>3. Typed /\ Typed'
  <2>1. TypeOK /\ TypeOK'
    BY <1>1 DEF PInv, PlInv, SInv, WInv, TInv
  <2>2. QED
    BY <2>1, TypedFromType, PTL
<1>4. Held1' /\ Counted'
  BY <1>2, <1>3, MoveKeeps, MoveCounts DEF PInv, PlInv
<1>5. QED
  BY <1>1, <1>2, <1>4 DEF PInv, PlInv

-----------------------------------------------------------------------------
(* From where the requests are to how many places hold each.                *)

LEMMA SlotsNone ==
    ASSUME NEW D, NEW f \in [D -> Seq(Requests)], NEW r,
           \A q \in D : r \notin Elems(f[q])
    PROVE  Slots(f, r) = {}
<1>1. DOMAIN f = D
  OBVIOUS
<1>2. \A q \in D : {i \in DOMAIN f[q] : f[q][i] = r} = {}
  BY DEF Elems
<1>3. QED
  BY <1>1, <1>2 DEF Slots

LEMMA SlotsOne ==
    ASSUME NEW D, NEW f \in [D -> Seq(Requests)], NEW r, NEW q \in D,
           r \in Elems(f[q]), Distinct(f[q]),
           \A p \in D \ {q} : r \notin Elems(f[p])
    PROVE  Cardinality(Slots(f, r)) = 1
<1>1. DOMAIN f = D
  OBVIOUS
<1>2. PICK i \in DOMAIN f[q] : f[q][i] = r
  BY DEF Elems
<1>3. {j \in DOMAIN f[q] : f[q][j] = r} = {i}
  BY <1>2 DEF Distinct
<1>4. \A p \in D \ {q} : {j \in DOMAIN f[p] : f[p][j] = r} = {}
  BY DEF Elems
<1>5. Slots(f, r) = {<<q, i>>}
  <2> DEFINE At(p) == {j \in DOMAIN f[p] : f[p][j] = r}
  <2>1. Slots(f, r) = UNION {{p} \X At(p) : p \in D}
    BY <1>1 DEF Slots
  <2>2. At(q) = {i} /\ \A p \in D \ {q} : At(p) = {}
    BY <1>3, <1>4
  <2> HIDE DEF At
  <2>3. QED
    BY <2>1, <2>2
<1>6. QED
  BY <1>5, FS_Singleton

(* The workers about to execute r.                                          *)
Runners(r) == {w \in Workers : wpc[w] = "exec" /\ cur[w] = r}

LEMMA PlacesHold ==
    ASSUME PInv, NEW r \in Requests
    PROVE  Held(r) = IF Accepted(r) THEN 1 ELSE 0
<1>t. Typed /\ m_queue \in [ReqQueues -> Seq(Requests)]
            /\ wrk_queue \in [Workers -> Seq(Requests)]
            /\ cpc[r] \notin {"inline", "abort"}
  BY TypedFromType DEF PInv, PlInv, SInv, WInv, TInv, TypeOK, RequestType,
        WorkerType, Control, NoneInline
<1>h. Held1 /\ Distincts
  BY DEF PInv, PlInv
<1>0. Held(r) = Cardinality(Slots(m_queue, r)) + Cardinality(Slots(wrk_queue, r))
              + Cardinality(Runners(r))
              + (IF cpc[r] = "enqueue" THEN 1 ELSE 0) + executed[r]
  BY <1>t DEF Held, Runners
<1>1. (\A q \in ReqQueues : r \notin Pooled[q]) => Cardinality(Slots(m_queue, r)) = 0
  <2>1. (\A q \in ReqQueues : r \notin Elems(m_queue[q])) => Slots(m_queue, r) = {}
    BY <1>t, SlotsNone
  <2>2. QED
    BY <2>1, FS_EmptySet DEF Pooled
<1>2. (\A w \in Workers : r \notin Own[w]) => Cardinality(Slots(wrk_queue, r)) = 0
  <2>1. (\A w \in Workers : r \notin Elems(wrk_queue[w])) => Slots(wrk_queue, r) = {}
    BY <1>t, SlotsNone
  <2>2. QED
    BY <2>1, FS_EmptySet DEF Own
<1>3. (\A w \in Workers : ~(wpc[w] = "exec" /\ cur[w] = r)) => Cardinality(Runners(r)) = 0
  BY FS_EmptySet DEF Runners
<1>4. CASE Outside(r)
  <2>1. /\ executed[r] = 0 /\ \A q \in ReqQueues : r \notin Pooled[q]
        /\ \A w \in Workers : r \notin Own[w] /\ cur[w] # r
    BY <1>h, <1>4 DEF Held1, CallersOwn
  <2>2. Held(r) = IF cpc[r] = "enqueue" THEN 1 ELSE 0
    BY <1>0, <1>1, <1>2, <1>3, <2>1
  <2>3. QED
    BY <1>4, <2>2 DEF Outside, Accepted
<1>5. ASSUME NEW q \in ReqQueues, r \in Pooled[q], ~Outside(r)
      PROVE  Held(r) = 1
  <2>1. /\ executed[r] = 0 /\ \A p \in ReqQueues \ {q} : r \notin Pooled[p]
        /\ \A w \in Workers : r \notin Own[w] /\ cur[w] # r
    BY <1>h, <1>5 DEF Held1, Single
  <2>2. Cardinality(Slots(m_queue, r)) = 1
    <3>1. r \in Elems(m_queue[q]) /\ \A p \in ReqQueues \ {q} : r \notin Elems(m_queue[p])
      BY <1>5, <2>1 DEF Pooled
    <3>2. Distinct(m_queue[q])
      BY <1>h DEF Distincts
    <3>3. QED
      BY <1>t, <3>1, <3>2, SlotsOne
  <2>3. QED
    BY <1>0, <1>2, <1>3, <1>5, <2>1, <2>2 DEF Outside
<1>6. ASSUME NEW w \in Workers, r \in Own[w], ~Outside(r)
      PROVE  Held(r) = 1
  <2>1. /\ executed[r] = 0 /\ \A v \in Workers \ {w} : r \notin Own[v]
        /\ \A v \in Workers : cur[v] # r
        /\ \A q \in ReqQueues : r \notin Pooled[q]
    BY <1>h, <1>6 DEF Held1, Single
  <2>2. Cardinality(Slots(wrk_queue, r)) = 1
    <3>1. r \in Elems(wrk_queue[w]) /\ \A v \in Workers \ {w} : r \notin Elems(wrk_queue[v])
      BY <1>6, <2>1 DEF Own
    <3>2. Distinct(wrk_queue[w])
      BY <1>h DEF Distincts
    <3>3. QED
      BY <1>t, <3>1, <3>2, SlotsOne
  <2>3. QED
    BY <1>0, <1>1, <1>3, <1>6, <2>1, <2>2 DEF Outside
<1>7. ASSUME NEW w \in Workers, cur[w] = r, ~Outside(r)
      PROVE  Held(r) = 1
  <2>1. /\ \A v \in Workers \ {w} : cur[v] # r
        /\ \A v \in Workers : r \notin Own[v]
        /\ \A q \in ReqQueues : r \notin Pooled[q]
    BY <1>h, <1>7 DEF Held1, Single
  <2>2. CASE wpc[w] = "exec" /\ executed[r] = 0
    <3>1. Runners(r) = {w}
      BY <1>7, <2>1, <2>2 DEF Runners
    <3>2. Cardinality(Runners(r)) = 1
      BY <3>1, FS_Singleton
    <3>3. QED
      BY <1>0, <1>1, <1>2, <1>7, <2>1, <2>2, <3>2 DEF Outside
  <2>3. CASE wpc[w] = "finish" /\ executed[r] = 1
    BY <1>0, <1>1, <1>2, <1>3, <1>7, <2>1, <2>3 DEF Outside
  <2>4. QED
    BY <1>h, <1>7, <2>2, <2>3, PoolAssumption DEF Held1, Executing
<1>8. ASSUME executed[r] = 1, ~Outside(r),
             \A q \in ReqQueues : r \notin Pooled[q],
             \A w \in Workers : r \notin Own[w] /\ cur[w] # r
      PROVE  Held(r) = 1
  BY <1>0, <1>1, <1>2, <1>3, <1>8 DEF Outside
<1>9. QED
  BY <1>h, <1>4, <1>5, <1>6, <1>7, <1>8 DEF Held1, Kept, Outside, Accepted

LEMMA HeldOnceHolds == PInv => HeldOnce
BY PlacesHold DEF HeldOnce

LEMMA CountersHold == PInv => CountersExact
BY ActiveWorks DEF PInv, PlInv, SInv, WInv, TInv, BarrierCounted, Counted,
      CountersExact

-----------------------------------------------------------------------------
(* Work is not left to workers that all sleep.                              *)

(* Somebody is about to look at the queues, or will wake a worker up.       *)
Alert ==
    \/ \E w \in Workers : Looking(w)
    \/ \E r \in Requests : cpc[r] = "enqueue"

Threaded == \E w \in Workers : wpc[w] # "none"

(* Before a stop, a pool that is not alert has an idle worker, which        *)
(* schedule finds before it puts a request on a common queue.  A worker     *)
(* that a promotion has moved to the fast list before it slept does not     *)
(* count: schedule does not look there for every queue.                     *)
Reachable ==
    stop_pc = "run" /\ Threaded => Alert \/ \E w \in Workers : wrk_list[w] = "idle"

Watched == ReadyWork /\ Threaded => Alert

Watch == Reachable /\ Watched

(* Without active requests nothing waits on a common queue.                 *)
LEMMA NothingActive ==
    ASSUME PInv, thp_sched_req = 0
    PROVE  \A q \in ReqQueues \ {"barrier"} : m_queue[q] = <<>>
<1>1. Works = {}
  BY FS_EmptySet DEF PInv, Counted
<1>2. ASSUME NEW q \in ReqQueues \ {"barrier"}, m_queue[q] # <<>> PROVE FALSE
  <2>1. m_queue[q] \in Seq(Requests)
    BY DEF PInv, PlInv, SInv, WInv, TInv, TypeOK, RequestType
  <2>2. Head(m_queue[q]) \in Requests /\ Head(m_queue[q]) \in Elems(m_queue[q])
    BY <1>2, <2>1 DEF Elems
  <2>3. QED
    BY <1>1, <2>2 DEF Works, Pooled
<1>3. QED
  BY <1>2

LEMMA StepWatch ==
    ASSUME PInv, Watch, [Next]_vars, StopPolicy # "any"
    PROVE  Watch'
<1> USE PoolAssumption DEF Watch, Reachable, Watched, Looking
<1>t. /\ wpc \in [Workers -> WorkerPCs] /\ cpc \in [Requests -> CallerPCs]
      /\ wrk_list \in [Workers -> WorkerLists]
      /\ target \in [Requests -> Workers \cup {None}]
      /\ m_queue \in [ReqQueues -> Seq(Requests)]
      /\ thp_barrier_cnt \in Int /\ thp_sched_req \in Int
  BY DEF PInv, PlInv, SInv, WInv, TInv, TypeOK, WorkerType, CallerType,
        RequestType, PoolType
<1>c. thp_sched_req >= 0
  BY FS_CardinalityType DEF PInv, Counted
<1>r. stop_pc = "run" => \A w \in Workers : wpc[w] # "exit"
  BY DEF PInv, PlInv, SInv, WInv, Threads, RunningStates
<1>s. \A r \in Requests :
         cpc[r] \in {"spawn_create", "spawn_undo"} =>
            target[r] \in Workers /\ wrk_list[target[r]] = "none"
  BY DEF PInv, PlInv, SInv, WInv, Threads, SpawnTargets, SpawnPCs, TInv, TypeOK,
        CallerType
<1>1. ASSUME NEW r \in Requests, schedule_barrier(r)
      PROVE  Watch'
  <2>1. Alert => Alert'
    BY <1>1, <1>t DEF Alert, WorkerPCs, wrkVars, callVars, schedule_barrier,
          MayCall, CommonQueues, ParkQueues, Enqueue
  <2>2. ReadyWork' => ReadyWork
    BY <1>1, <1>t, <1>c, QueueNames DEF ReadyWork, poolVars, reqVars,
          schedule_barrier, MayCall, CommonQueues, ParkQueues, Enqueue
  <2>3. Threaded' => Threaded
    BY <1>1, <1>t DEF Threaded, wrkVars, schedule_barrier, MayCall,
          CommonQueues, ParkQueues, Enqueue
  <2>4. /\ stop_pc' = "run" => stop_pc = "run"
        /\ stop_pc' = "run" /\ (\E x \in Workers : wrk_list[x] = "idle")
           => \E x \in Workers : wrk_list'[x] = "idle"
    BY <1>1, <1>t, <1>r, <1>s DEF wrkVars, WorkerLists, schedule_barrier,
          MayCall, CommonQueues, ParkQueues, Enqueue
  <2>5. QED
    BY <2>1, <2>2, <2>3, <2>4
<1>2. ASSUME NEW r \in Requests, schedule_deferred(r)
      PROVE  Watch'
  <2>1. Alert => Alert'
    BY <1>2, <1>t DEF Alert, WorkerPCs, wrkVars, callVars, schedule_deferred,
          Entered, MayCall, CommonQueues, ParkQueues, Enqueue
  <2>2. ReadyWork' => ReadyWork
    BY <1>2, <1>t, <1>c, QueueNames DEF ReadyWork, poolVars, reqVars,
          schedule_deferred, Entered, MayCall, CommonQueues, ParkQueues, Enqueue
  <2>3. Threaded' => Threaded
    BY <1>2, <1>t DEF Threaded, wrkVars, schedule_deferred, Entered, MayCall,
          CommonQueues, ParkQueues, Enqueue
  <2>4. /\ stop_pc' = "run" => stop_pc = "run"
        /\ stop_pc' = "run" /\ (\E x \in Workers : wrk_list[x] = "idle")
           => \E x \in Workers : wrk_list'[x] = "idle"
    BY <1>2, <1>t, <1>r, <1>s DEF wrkVars, WorkerLists, schedule_deferred,
          Entered, MayCall, CommonQueues, ParkQueues, Enqueue
  <2>5. QED
    BY <2>1, <2>2, <2>3, <2>4
<1>3. ASSUME NEW r \in Requests, NEW q \in QueueNos, schedule_parked(r, q)
      PROVE  Watch'
  <2>1. Alert => Alert'
    BY <1>3, <1>t DEF Alert, WorkerPCs, wrkVars, callVars, schedule_parked,
          Admit, Goto, Entered, MayCall, CommonQueues, ParkQueues, Enqueue
  <2>2. ReadyWork' => ReadyWork
    BY <1>3, <1>t, <1>c, QueueNames DEF ReadyWork, poolVars, reqVars,
          schedule_parked, Admit, Goto, Entered, MayCall, CommonQueues, ParkQueues,
          Enqueue
  <2>3. Threaded' => Threaded
    BY <1>3, <1>t DEF Threaded, wrkVars, schedule_parked, Admit, Goto,
          Entered, MayCall, CommonQueues, ParkQueues, Enqueue
  <2>4. /\ stop_pc' = "run" => stop_pc = "run"
        /\ stop_pc' = "run" /\ (\E x \in Workers : wrk_list[x] = "idle")
           => \E x \in Workers : wrk_list'[x] = "idle"
    BY <1>3, <1>t, <1>r, <1>s DEF wrkVars, WorkerLists, schedule_parked,
          Admit, Goto, Entered, MayCall, CommonQueues, ParkQueues, Enqueue
  <2>5. QED
    BY <2>1, <2>2, <2>3, <2>4
<1>4. ASSUME NEW r \in Requests, NEW q \in QueueNos, NEW w \in Workers,
             schedule_direct(r, q, w)
      PROVE  Watch'
  <2>1. Alert'
    BY <1>4, <1>t, <1>s DEF Alert, schedule_direct, Admit, Goto, Entered,
          MayCall, Listed, thp_swap_queue, worker_update_state
  <2>2. QED
    BY <2>1
<1>5. ASSUME NEW r \in Requests, NEW q \in QueueNos, NEW w \in Workers, NEW v
             \in Workers, schedule_round_robin(r, q, w, v)
      PROVE  Watch'
  <2>1. Alert'
    BY <1>5, <1>t, <1>s DEF Alert, schedule_round_robin, Admit, Goto, Entered,
          MayCall, Listed, worker_update_state
  <2>2. QED
    BY <2>1
<1>6. ASSUME NEW r \in Requests, NEW q \in QueueNos, NEW w \in Workers,
             schedule_idle(r, q, w)
      PROVE  Watch'
  <2>1. Alert'
    BY <1>6, <1>t, <1>s DEF Alert, schedule_idle, Admit, Goto, Entered,
          MayCall, Listed
  <2>2. QED
    BY <2>1
<1>7. ASSUME NEW r \in Requests, NEW q \in QueueNos, schedule_common(r, q)
      PROVE  Watch'
  <2>1. UNCHANGED <<wpc, stop_pc>> /\ stop_pc = "run"
    BY <1>7 DEF schedule_common, Admit, Entered, MayCall, PInv, PlInv, SInv,
          WInv,
          Threads, QuietStop
  <2>2. \A w \in Workers : wrk_list[w] # "idle"
    BY <1>7 DEF schedule_common, Listed
  <2>3. Threaded' => Alert
    BY <2>1, <2>2 DEF Threaded
  <2>4. Alert => Alert'
    BY <1>7, <1>t DEF Alert, schedule_common, Admit, Entered, Goto
  <2>5. QED
    BY <2>3, <2>4
<1>8. ASSUME NEW r \in Requests, NEW q \in QueueNos, schedule_inline(r, q)
      PROVE  Watch'
  BY <1>8 DEF schedule_inline, Admit, Entered, MayCall, PInv, PlInv, SInv, WInv,
        Threads, QuietStop, Control, StopFlag
<1>9. ASSUME NEW r \in Requests, worker_enqueue(r)
      PROVE  Watch'
  <2> DEFINE w == target[r]
  <2>1. /\ w \in Workers /\ cpc[r] = "enqueue" /\ stop_pc = "run"
        /\ wpc[w] \notin {"none", "exit"} /\ wrk_state[w] # "terminate"
    BY <1>9 DEF worker_enqueue, PInv, PlInv, SInv, WInv, TInv, TypeOK,
          CallerType,
          Threads, QuietStop, RunningStates, ListedThreads
  <2>2. wpc[w] \notin {"abort", "pop", "recheck", "verify", "wait"}
    BY <1>9, <2>1 DEF worker_enqueue, HoldsLock, Aborted
  <2>3. Signal({w})
    BY <1>9, <2>1 DEF worker_enqueue
  <2> HIDE DEF w
  <2>4. wpc'[w] \in {"start", "loop", "exec", "finish"}
    BY <1>t, <2>1, <2>2, <2>3 DEF Signal, WorkerPCs
  <2>5. Alert'
    BY <2>1, <2>4 DEF Alert
  <2>6. QED
    BY <2>5
<1>10. ASSUME NEW r \in Requests, exec_inline(r)
      PROVE  Watch'
  BY <1>10 DEF exec_inline, PInv, PlInv, SInv, Control, NoneInline
<1>11. ASSUME NEW r \in Requests, spawn_check(r)
      PROVE  Watch'
  <2>1. Alert => Alert'
    BY <1>11, <1>t DEF Alert, WorkerPCs, wrkVars, callVars, spawn_check,
          SpawnStep, MaySpawn
  <2>2. ReadyWork' => ReadyWork
    BY <1>11, <1>t, <1>c, QueueNames DEF ReadyWork, poolVars, reqVars,
          spawn_check, SpawnStep, MaySpawn
  <2>3. Threaded' => Threaded
    BY <1>11, <1>t DEF Threaded, wrkVars, spawn_check, SpawnStep, MaySpawn
  <2>4. /\ stop_pc' = "run" => stop_pc = "run"
        /\ stop_pc' = "run" /\ (\E x \in Workers : wrk_list[x] = "idle")
           => \E x \in Workers : wrk_list'[x] = "idle"
    BY <1>11, <1>t, <1>r, <1>s DEF wrkVars, WorkerLists, spawn_check,
          SpawnStep, MaySpawn
  <2>5. QED
    BY <2>1, <2>2, <2>3, <2>4
<1>12. ASSUME NEW r \in Requests, spawn_state(r)
      PROVE  Watch'
  <2>1. Alert => Alert'
    BY <1>12, <1>t DEF Alert, WorkerPCs, wrkVars, callVars, spawn_state,
          SpawnStep
  <2>2. ReadyWork' => ReadyWork
    BY <1>12, <1>t, <1>c, QueueNames DEF ReadyWork, poolVars, reqVars,
          spawn_state, SpawnStep
  <2>3. Threaded' => Threaded
    BY <1>12, <1>t DEF Threaded, wrkVars, spawn_state, SpawnStep
  <2>4. /\ stop_pc' = "run" => stop_pc = "run"
        /\ stop_pc' = "run" /\ (\E x \in Workers : wrk_list[x] = "idle")
           => \E x \in Workers : wrk_list'[x] = "idle"
    BY <1>12, <1>t, <1>r, <1>s DEF wrkVars, WorkerLists, spawn_state, SpawnStep
  <2>5. QED
    BY <2>1, <2>2, <2>3, <2>4
<1>13. ASSUME NEW r \in Requests, spawn_count(r)
      PROVE  Watch'
  <2>1. Alert => Alert'
    BY <1>13, <1>t DEF Alert, WorkerPCs, wrkVars, callVars, spawn_count,
          SpawnStep
  <2>2. ReadyWork' => ReadyWork
    BY <1>13, <1>t, <1>c, QueueNames DEF ReadyWork, poolVars, reqVars,
          spawn_count, SpawnStep
  <2>3. Threaded' => Threaded
    BY <1>13, <1>t DEF Threaded, wrkVars, spawn_count, SpawnStep
  <2>4. /\ stop_pc' = "run" => stop_pc = "run"
        /\ stop_pc' = "run" /\ (\E x \in Workers : wrk_list[x] = "idle")
           => \E x \in Workers : wrk_list'[x] = "idle"
    BY <1>13, <1>t, <1>r, <1>s DEF wrkVars, WorkerLists, spawn_count, SpawnStep
  <2>5. QED
    BY <2>1, <2>2, <2>3, <2>4
<1>14. ASSUME NEW r \in Requests, spawn_create(r)
      PROVE  Watch'
  <2>1. Alert'
    BY <1>14, <1>t, <1>s DEF Alert, spawn_create, SpawnStep
  <2>2. QED
    BY <2>1
<1>15. ASSUME NEW r \in Requests, spawn_fail(r)
      PROVE  Watch'
  <2>1. Alert => Alert'
    BY <1>15, <1>t DEF Alert, WorkerPCs, wrkVars, callVars, spawn_fail,
          SpawnFails, SpawnStep
  <2>2. ReadyWork' => ReadyWork
    BY <1>15, <1>t, <1>c, QueueNames DEF ReadyWork, poolVars, reqVars,
          spawn_fail, SpawnFails, SpawnStep
  <2>3. Threaded' => Threaded
    BY <1>15, <1>t DEF Threaded, wrkVars, spawn_fail, SpawnFails, SpawnStep
  <2>4. /\ stop_pc' = "run" => stop_pc = "run"
        /\ stop_pc' = "run" /\ (\E x \in Workers : wrk_list[x] = "idle")
           => \E x \in Workers : wrk_list'[x] = "idle"
    BY <1>15, <1>t, <1>r, <1>s DEF wrkVars, WorkerLists, spawn_fail,
          SpawnFails, SpawnStep
  <2>5. QED
    BY <2>1, <2>2, <2>3, <2>4
<1>16. ASSUME NEW r \in Requests, spawn_undo(r)
      PROVE  Watch'
  <2>1. Alert => Alert'
    BY <1>16, <1>t DEF Alert, WorkerPCs, wrkVars, callVars, spawn_undo,
          SpawnStep, thp_swap_queue, worker_update_state
  <2>2. ReadyWork' => ReadyWork
    BY <1>16, <1>t, <1>c, QueueNames DEF ReadyWork, poolVars, reqVars,
          spawn_undo, SpawnStep, thp_swap_queue, worker_update_state
  <2>3. Threaded' => Threaded
    BY <1>16, <1>t DEF Threaded, wrkVars, spawn_undo, SpawnStep,
          thp_swap_queue, worker_update_state
  <2>4. /\ stop_pc' = "run" => stop_pc = "run"
        /\ stop_pc' = "run" /\ (\E x \in Workers : wrk_list[x] = "idle")
           => \E x \in Workers : wrk_list'[x] = "idle"
    BY <1>16, <1>t, <1>r, <1>s DEF wrkVars, WorkerLists, spawn_undo,
          SpawnStep, thp_swap_queue, worker_update_state
  <2>5. QED
    BY <2>1, <2>2, <2>3, <2>4
<1>17. ASSUME NEW w \in Workers, worker_start(w)
      PROVE  Watch'
  <2>1. Alert'
    BY <1>17, <1>t, <1>s DEF Alert, worker_start, WorkerStep, thp_swap_queue,
          worker_update_state
  <2>2. QED
    BY <2>1
<1>18. ASSUME NEW w \in Workers, worker_check(w)
      PROVE  Watch'
  <2>1. CASE wrk_can_terminate(w)
    <3>1. UNCHANGED <<m_queue, thp_barrier_cnt, thp_sched_req, stop_pc>>
      BY <1>18 DEF worker_check, WorkerStep, wrk_can_terminate, poolVars,
            reqVars
    <3>2. ~ReadyWork
      BY <2>1, NothingActive, QueueNames DEF wrk_can_terminate, ReadyWork
    <3>3. ~ReadyWork'
      BY <3>1, <3>2 DEF ReadyWork
    <3>4. stop_pc # "run"
      BY <1>18, <2>1 DEF worker_check, WorkerStep, wrk_can_terminate, PInv,
            PlInv, SInv, WInv,
            Threads, RunningStates
    <3>5. QED
      BY <3>1, <3>3, <3>4
  <2>2. CASE ~wrk_can_terminate(w)
    <3>1. Alert'
      BY <1>18, <1>t, <2>2 DEF Alert, worker_check, WorkerStep
    <3>2. QED
      BY <3>1
  <2>3. QED
    BY <2>1, <2>2
<1>19. ASSUME NEW w \in Workers, worker_pop(w)
      PROVE  Watch'
  <2>1. Alert'
    BY <1>19, <1>t, <1>s DEF Alert, worker_pop, WorkerStep
  <2>2. QED
    BY <2>1
<1>20. ASSUME NEW w \in Workers, NEW q \in CommonQueues, get_common(w, q)
      PROVE  Watch'
  <2>1. Alert'
    BY <1>20, <1>t, <1>s DEF Alert, get_common, WorkerStep, thp_swap_queue,
          worker_update_state, CommonQueues
  <2>2. QED
    BY <2>1
<1>21. ASSUME NEW w \in Workers, put_idle(w)
      PROVE  Watch'
  <2>1. /\ UNCHANGED <<m_queue, thp_barrier_cnt, thp_sched_req>>
        /\ m_queue["fast"] = <<>> /\ m_queue["slow"] = <<>>
        /\ thp_barrier_cnt = 0 \/ thp_sched_req > 0
    BY <1>21 DEF put_idle, NothingCommon, poolVars, reqVars
  <2>2. ~ReadyWork'
    BY <1>t, <2>1 DEF ReadyWork, CommonQueues
  <2>3. wrk_list'[w] = "idle"
    BY <1>21, <1>t DEF put_idle, thp_swap_queue
  <2>4. QED
    BY <2>2, <2>3
<1>22. ASSUME NEW w \in Workers, get_barrier(w)
      PROVE  Watch'
  <2>1. Alert'
    BY <1>22, <1>t, <1>s DEF Alert, get_barrier, Listed
  <2>2. QED
    BY <2>1
<1>23. ASSUME NEW w \in Workers, worker_recheck(w)
      PROVE  Watch'
  <2>1. CASE wrk_can_terminate(w)
    <3>1. UNCHANGED <<m_queue, thp_barrier_cnt, thp_sched_req, stop_pc>>
      BY <1>23 DEF worker_recheck, WorkerStep, wrk_can_terminate, poolVars,
            reqVars
    <3>2. ~ReadyWork
      BY <2>1, NothingActive, QueueNames DEF wrk_can_terminate, ReadyWork
    <3>3. ~ReadyWork'
      BY <3>1, <3>2 DEF ReadyWork
    <3>4. stop_pc # "run"
      BY <1>23, <2>1 DEF worker_recheck, WorkerStep, wrk_can_terminate, PInv,
            PlInv, SInv, WInv,
            Threads, RunningStates
    <3>5. QED
      BY <3>1, <3>3, <3>4
  <2>2. CASE ~wrk_can_terminate(w)
    <3>1. /\ wpc[w] = "recheck" /\ wpc' = [wpc EXCEPT ![w] = "verify"]
          /\ UNCHANGED <<m_queue, thp_barrier_cnt, thp_sched_req, stop_pc, cpc, wrk_list>>
      BY <1>23, <2>2 DEF worker_recheck, WorkerStep, poolVars, reqVars, callVars
    <3>2. (Alert => Alert') /\ (Threaded' => Threaded) /\ (ReadyWork' => ReadyWork)
      BY <1>t, <3>1 DEF Alert, Threaded, ReadyWork
    <3>3. QED
      BY <3>1, <3>2
  <2>3. QED
    BY <2>1, <2>2
<1>24. ASSUME NEW w \in Workers, worker_verify(w)
      PROVE  Watch'
  <2>1. Alert => Alert'
    BY <1>24, <1>t DEF Alert, WorkerPCs, wrkVars, callVars, worker_verify,
          WorkerStep, callVars
  <2>2. ReadyWork' => ReadyWork
    BY <1>24, <1>t, <1>c, QueueNames DEF ReadyWork, poolVars, reqVars,
          worker_verify, WorkerStep, callVars
  <2>3. Threaded' => Threaded
    BY <1>24, <1>t DEF Threaded, wrkVars, worker_verify, WorkerStep, callVars
  <2>4. /\ stop_pc' = "run" => stop_pc = "run"
        /\ stop_pc' = "run" /\ (\E x \in Workers : wrk_list[x] = "idle")
           => \E x \in Workers : wrk_list'[x] = "idle"
    BY <1>24, <1>t, <1>r, <1>s DEF wrkVars, WorkerLists, worker_verify,
          WorkerStep, callVars
  <2>5. QED
    BY <2>1, <2>2, <2>3, <2>4
<1>25. ASSUME NEW w \in Workers, worker_wait(w)
      PROVE  Watch'
  <2>1. Alert => Alert'
    BY <1>25, <1>t DEF Alert, WorkerPCs, wrkVars, callVars, worker_wait,
          WorkerStep, callVars
  <2>2. ReadyWork' => ReadyWork
    BY <1>25, <1>t, <1>c, QueueNames DEF ReadyWork, poolVars, reqVars,
          worker_wait, WorkerStep, callVars
  <2>3. Threaded' => Threaded
    BY <1>25, <1>t DEF Threaded, wrkVars, worker_wait, WorkerStep, callVars
  <2>4. /\ stop_pc' = "run" => stop_pc = "run"
        /\ stop_pc' = "run" /\ (\E x \in Workers : wrk_list[x] = "idle")
           => \E x \in Workers : wrk_list'[x] = "idle"
    BY <1>25, <1>t, <1>r, <1>s DEF wrkVars, WorkerLists, worker_wait,
          WorkerStep, callVars
  <2>5. QED
    BY <2>1, <2>2, <2>3, <2>4
<1>26. ASSUME NEW w \in Workers, spurious_wakeup(w)
      PROVE  Watch'
  <2>1. Alert'
    BY <1>26, <1>t, <1>s DEF Alert, spurious_wakeup, WorkerStep
  <2>2. QED
    BY <2>1
<1>27. ASSUME NEW w \in Workers, worker_exec(w)
      PROVE  Watch'
  <2>1. Alert'
    BY <1>27, <1>t, <1>s DEF Alert, worker_exec, WorkerStep
  <2>2. QED
    BY <2>1
<1>28. ASSUME NEW w \in Workers, worker_finish(w)
      PROVE  Watch'
  <2>1. Alert'
    BY <1>28, <1>t, <1>s DEF Alert, worker_finish, FinishWith, WorkerStep
  <2>2. QED
    BY <2>1
<1>29. ASSUME NEW w \in Workers, thp_thread_terminate(w)
      PROVE  Watch'
  <2>1. Alert => Alert'
    BY <1>29, <1>t DEF Alert, WorkerPCs, wrkVars, callVars,
          thp_thread_terminate, thp_swap_queue, worker_update_state, callVars
  <2>2. ReadyWork' => ReadyWork
    BY <1>29, <1>t, <1>c, QueueNames DEF ReadyWork, poolVars, reqVars,
          thp_thread_terminate, thp_swap_queue, worker_update_state, callVars
  <2>3. Threaded' => Threaded
    BY <1>29, <1>t DEF Threaded, wrkVars, thp_thread_terminate,
          thp_swap_queue, worker_update_state, callVars
  <2>4. /\ stop_pc' = "run" => stop_pc = "run"
        /\ stop_pc' = "run" /\ (\E x \in Workers : wrk_list[x] = "idle")
           => \E x \in Workers : wrk_list'[x] = "idle"
    BY <1>29, <1>t, <1>r, <1>s DEF wrkVars, WorkerLists, thp_thread_terminate,
          thp_swap_queue, worker_update_state, callVars
  <2>5. QED
    BY <2>1, <2>2, <2>3, <2>4
<1>30. ASSUME thp_stop
      PROVE  Watch'
  <2>1. Alert => Alert'
    BY <1>30, <1>t DEF Alert, WorkerPCs, wrkVars, callVars, thp_stop, Signal,
          StopTest, callVars
  <2>2. ReadyWork' => ReadyWork
    BY <1>30, <1>t, <1>c, QueueNames DEF ReadyWork, poolVars, reqVars,
          thp_stop, Signal, StopTest, callVars
  <2>3. Threaded' => Threaded
    BY <1>30, <1>t DEF Threaded, wrkVars, thp_stop, Signal, StopTest, callVars
  <2>4. /\ stop_pc' = "run" => stop_pc = "run"
        /\ stop_pc' = "run" /\ (\E x \in Workers : wrk_list[x] = "idle")
           => \E x \in Workers : wrk_list'[x] = "idle"
    BY <1>30, <1>t, <1>r, <1>s DEF wrkVars, WorkerLists, thp_stop, Signal,
          StopTest, callVars
  <2>5. QED
    BY <2>1, <2>2, <2>3, <2>4
<1>31. ASSUME thp_stop_woken
      PROVE  Watch'
  <2>1. Alert => Alert'
    BY <1>31, <1>t DEF Alert, WorkerPCs, wrkVars, callVars, thp_stop_woken,
          StopTest, callVars
  <2>2. ReadyWork' => ReadyWork
    BY <1>31, <1>t, <1>c, QueueNames DEF ReadyWork, poolVars, reqVars,
          thp_stop_woken, StopTest, callVars
  <2>3. Threaded' => Threaded
    BY <1>31, <1>t DEF Threaded, wrkVars, thp_stop_woken, StopTest, callVars
  <2>4. /\ stop_pc' = "run" => stop_pc = "run"
        /\ stop_pc' = "run" /\ (\E x \in Workers : wrk_list[x] = "idle")
           => \E x \in Workers : wrk_list'[x] = "idle"
    BY <1>31, <1>t, <1>r, <1>s DEF wrkVars, WorkerLists, thp_stop_woken,
          StopTest, callVars
  <2>5. QED
    BY <2>1, <2>2, <2>3, <2>4
<1>32. ASSUME UNCHANGED vars PROVE Watch'
  BY <1>32 DEF vars, poolVars, reqVars, wrkVars, callVars, Alert, Threaded,
        ReadyWork
<1>33. Watch'
  <2> HIDE DEF Watch, Reachable, Watched
  <2>1. ASSUME NEW r \in Requests, Schedule(r) PROVE Watch'
    BY <2>1, <1>2, <1>3, <1>4, <1>5, <1>6, <1>7, <1>8 DEF Schedule
  <2>2. ASSUME NEW r \in Requests, CallerStep(r) PROVE Watch'
    BY <2>2, <1>9, <1>10, <1>11, <1>12, <1>13, <1>14, <1>15, <1>16
          DEF CallerStep
  <2>3. ASSUME NEW w \in Workers, WorkerThread(w) PROVE Watch'
    BY <2>3, <1>17, <1>18, <1>19, <1>20, <1>21, <1>22, <1>23, <1>24, <1>25,
          <1>27, <1>28, <1>29 DEF WorkerThread
  <2>4. QED
    BY <2>1, <2>2, <2>3, <1>1, <1>26, <1>30, <1>31, <1>32 DEF Next
<1>34. QED
  BY <1>33

LEMMA InitWatch == Init => Watch
<1> SUFFICES ASSUME Init PROVE Watch
  OBVIOUS
<1>1. Threaded => Alert
  BY DEF Init, Threaded, Alert, Looking
<1>2. QED
  BY <1>1 DEF Watch, Reachable, Watched

(* However many workers and requests there are: from its acceptance on a    *)
(* request is in exactly one place or has been executed once, thp_sched_req *)
(* and thp_barrier_cnt count what they should, though they change under     *)
(* different locks or none, and the workers never all sleep on work that is *)
(* ready (request.cpp, lines 373-725), if the pool is not stopped under a   *)
(* running call of schedule.                                                *)
THEOREM WorkIsAccounted ==
    ASSUME StopPolicy # "any" PROVE Spec => []WorkAccounted
<1>1. Init => PInv /\ Watch
  BY InitPlaces, InitWatch
<1>2. PInv /\ Watch /\ [Next]_vars => (PInv /\ Watch)'
  BY StepPlaces, StepWatch
<1>3. PInv /\ Watch => WorkAccounted
  <2>1. Watch => NoneStranded
    BY DEF Watch, Watched, NoneStranded, Threaded, Alert
  <2>2. QED
    BY <2>1, HeldOnceHolds, CountersHold DEF WorkAccounted
<1>4. QED
  BY <1>1, <1>2, <1>3, PTL DEF Spec

-----------------------------------------------------------------------------
(* Barriers keep their order.                                               *)

Waits(b) == b \in Pooled["barrier"]

(* On the barrier queue, what was scheduled before a barrier is in front of *)
(* it and nothing else is.                                                  *)
QueueOrder ==
    \A b \in flagged : \A i, j \in DOMAIN m_queue["barrier"] :
        m_queue["barrier"][i] = b =>
            /\ j < i => m_queue["barrier"][j] \in prior[b]
            /\ j > i => m_queue["barrier"][j] \notin prior[b]

(* While a barrier waits, everything accepted that is not on the queue came *)
(* before it; once it does not, it has started and all that came before it  *)
(* has been executed.                                                       *)
BarrierOrder ==
    \A b \in flagged :
        /\ ~Outside(b)
        /\ b \notin prior[b]
        /\ \A x \in prior[b] : Accepted(x)
        /\ Waits(b) => \A x \in Requests : Accepted(x) /\ ~Waits(x) => x \in prior[b]
        /\ ~Waits(b) => Started(b) /\ \A x \in prior[b] : executed[x] > 0

Ordered == QueueOrder /\ BarrierOrder

(* What a step does to the barriers: nothing, with no other request         *)
(* accepted while any waits; a request joins them on the queue; a barrier   *)
(* does; or get_barrier takes one.                                          *)
Flags == flagged' = flagged /\ \A b \in flagged : prior'[b] = prior[b]

Calm ==
    /\ Flags
    /\ m_queue'["barrier"] = m_queue["barrier"]
    /\ m_queue["barrier"] = <<>> \/ \A x \in Requests : Accepted(x)' => Accepted(x)

Joins(r) ==
    /\ Flags
    /\ m_queue'["barrier"] = Append(m_queue["barrier"], r)
    /\ cpc[r] \in {"init", "schedule"} /\ cpc' = [cpc EXCEPT ![r] = "done"]

Defers(r) ==
    /\ flagged' = flagged \cup {r}
    /\ prior' = [prior EXCEPT ![r] = {x \in Requests : Accepted(x)}]
    /\ m_queue'["barrier"] = Append(m_queue["barrier"], r)
    /\ cpc[r] = "init" /\ cpc' = [cpc EXCEPT ![r] = "done"]
    /\ Taken(r, "barrier")

Ways ==
    \/ Calm
    \/ \E r \in Requests : Joins(r)
    \/ \E r \in Requests : Defers(r)
    \/ Flags /\ \E w \in Workers : get_barrier(w)

LEMMA StepWays ==
    ASSUME PInv, Ordered, [Next]_vars, StopPolicy # "any"
    PROVE  Ways
<1> USE PoolAssumption DEF Ways
<1>t. /\ cpc \in [Requests -> CallerPCs]
      /\ m_queue \in [ReqQueues -> Seq(Requests)]
      /\ prior \in [Requests -> SUBSET Requests]
      /\ flagged \subseteq Requests
      /\ thp_barrier_cnt = Len(m_queue["barrier"])
  BY DEF PInv, PlInv, SInv, WInv, TInv, TypeOK, CallerType, RequestType,
        BarrierCounted
<1>e. thp_barrier_cnt = 0 => m_queue["barrier"] = <<>>
  BY <1>t, QueueNames, EmptySeq
<1>1. ASSUME NEW r \in Requests, schedule_barrier(r)
      PROVE  Ways
  <2>1. CASE thp_sched_req >= 1
    <3>1. /\ m_queue' = Enqueue("barrier", r) /\ cpc[r] = "init"
          /\ cpc' = [cpc EXCEPT ![r] = "done"]
          /\ flagged' = flagged \cup {r}
          /\ prior' = [prior EXCEPT ![r] = {x \in Requests : Accepted(x)}]
          /\ UNCHANGED <<thp_sched_req, wrk_queue, wpc, cur, executed>>
      BY <1>1, <2>1 DEF schedule_barrier, wrkVars
    <3>2. m_queue'["barrier"] = Append(m_queue["barrier"], r)
      BY <1>t, <3>1, QueueNames DEF Enqueue
    <3>3. /\ Pooled' = [Pooled EXCEPT !["barrier"] = @ \cup {r}]
          /\ Own' = Own
      BY <3>1, EnqueueMoves, OwnKept, QueueNames DEF PInv, PlInv, SInv, WInv,
            TInv
    <3>4. Taken(r, "barrier")
      <4>1. thp_sched_req \in Int
        BY DEF PInv, PlInv, SInv, WInv, TInv, TypeOK, PoolType
      <4>2. RunsKept
        BY <3>1 DEF RunsKept
      <4>3. QED
        BY <3>1, <3>3, <4>1, <4>2, QueueNames DEF Taken
    <3>5. QED
      BY <3>1, <3>2, <3>4 DEF Defers
  <2>2. CASE ~(thp_sched_req >= 1)
    <3>1. /\ UNCHANGED <<m_queue, flagged>> /\ cpc[r] = "init"
          /\ cpc' = [cpc EXCEPT ![r] = "schedule"]
          /\ prior' = [prior EXCEPT ![r] = {x \in Requests : Accepted(x)}]
      BY <1>1, <2>2 DEF schedule_barrier
    <3>2. r \notin flagged
      BY <3>1 DEF Ordered, BarrierOrder, Outside
    <3>3. Flags
      BY <1>t, <3>1, <3>2 DEF Flags
    <3>4. \A x \in Requests : Accepted(x)' => Accepted(x)
      BY <1>t, <3>1 DEF Accepted
    <3>5. QED
      BY <3>1, <3>3, <3>4 DEF Calm
  <2>3. QED
    BY <2>1, <2>2
<1>2. ASSUME NEW r \in Requests, schedule_deferred(r)
      PROVE  Ways
  <2>1. Flags
    BY <1>2 DEF Flags, schedule_deferred
  <2>2. m_queue'["barrier"] = Append(m_queue["barrier"], r)
    BY <1>2, <1>t, QueueNames DEF Enqueue, schedule_deferred
  <2>3. cpc[r] \in {"init", "schedule"} /\ cpc' = [cpc EXCEPT ![r] = "done"]
    BY <1>2 DEF schedule_deferred, Entered
  <2>4. QED
    BY <2>1, <2>2, <2>3 DEF Joins
<1>3. ASSUME NEW r \in Requests, NEW q \in QueueNos, schedule_parked(r, q)
      PROVE  Ways
  <2>1. Flags
    BY <1>3 DEF Flags, reqVars, schedule_parked, Admit, Goto, Entered, MayCall
  <2>2. m_queue'["barrier"] = m_queue["barrier"]
    BY <1>3, <1>t, QueueNames DEF Enqueue, ParkQueues, CommonQueues,
          ReqQueues, schedule_parked, Admit, Goto, Entered, MayCall
  <2>3. thp_barrier_cnt = 0
    BY <1>3 DEF schedule_parked, Admit, Goto, Entered, MayCall
  <2>4. m_queue["barrier"] = <<>>
    BY <1>e, <2>3
  <2>5. QED
    BY <2>1, <2>2, <2>4 DEF Calm
<1>4. ASSUME NEW r \in Requests, NEW q \in QueueNos, NEW w \in Workers,
             schedule_direct(r, q, w)
      PROVE  Ways
  <2>1. Flags
    BY <1>4 DEF Flags, reqVars, schedule_direct, Admit, Goto, Entered,
          MayCall, Listed, thp_swap_queue, worker_update_state
  <2>2. m_queue'["barrier"] = m_queue["barrier"]
    BY <1>4, <1>t, QueueNames DEF Enqueue, ParkQueues, CommonQueues,
          ReqQueues, schedule_direct, Admit, Goto, Entered, MayCall, Listed,
          thp_swap_queue, worker_update_state
  <2>3. thp_barrier_cnt = 0
    BY <1>4 DEF schedule_direct, Admit, Goto, Entered, MayCall, Listed,
          thp_swap_queue, worker_update_state
  <2>4. m_queue["barrier"] = <<>>
    BY <1>e, <2>3
  <2>5. QED
    BY <2>1, <2>2, <2>4 DEF Calm
<1>5. ASSUME NEW r \in Requests, NEW q \in QueueNos, NEW w \in Workers, NEW v
             \in Workers, schedule_round_robin(r, q, w, v)
      PROVE  Ways
  <2>1. Flags
    BY <1>5 DEF Flags, reqVars, schedule_round_robin, Admit, Goto, Entered,
          MayCall, Listed, worker_update_state
  <2>2. m_queue'["barrier"] = m_queue["barrier"]
    BY <1>5, <1>t, QueueNames DEF Enqueue, ParkQueues, CommonQueues,
          ReqQueues, schedule_round_robin, Admit, Goto, Entered, MayCall, Listed,
          worker_update_state
  <2>3. thp_barrier_cnt = 0
    BY <1>5 DEF schedule_round_robin, Admit, Goto, Entered, MayCall, Listed,
          worker_update_state
  <2>4. m_queue["barrier"] = <<>>
    BY <1>e, <2>3
  <2>5. QED
    BY <2>1, <2>2, <2>4 DEF Calm
<1>6. ASSUME NEW r \in Requests, NEW q \in QueueNos, NEW w \in Workers,
             schedule_idle(r, q, w)
      PROVE  Ways
  <2>1. Flags
    BY <1>6 DEF Flags, reqVars, schedule_idle, Admit, Goto, Entered, MayCall,
          Listed
  <2>2. m_queue'["barrier"] = m_queue["barrier"]
    BY <1>6, <1>t, QueueNames DEF Enqueue, ParkQueues, CommonQueues,
          ReqQueues, schedule_idle, Admit, Goto, Entered, MayCall, Listed
  <2>3. thp_barrier_cnt = 0
    BY <1>6 DEF schedule_idle, Admit, Goto, Entered, MayCall, Listed
  <2>4. m_queue["barrier"] = <<>>
    BY <1>e, <2>3
  <2>5. QED
    BY <2>1, <2>2, <2>4 DEF Calm
<1>7. ASSUME NEW r \in Requests, NEW q \in QueueNos, schedule_common(r, q)
      PROVE  Ways
  <2>1. Flags
    BY <1>7 DEF Flags, reqVars, schedule_common, Admit, Goto, Entered,
          MayCall, Listed
  <2>2. m_queue'["barrier"] = m_queue["barrier"]
    BY <1>7, <1>t, QueueNames DEF Enqueue, ParkQueues, CommonQueues,
          ReqQueues, schedule_common, Admit, Goto, Entered, MayCall, Listed
  <2>3. thp_barrier_cnt = 0
    BY <1>7 DEF schedule_common, Admit, Goto, Entered, MayCall, Listed
  <2>4. m_queue["barrier"] = <<>>
    BY <1>e, <2>3
  <2>5. QED
    BY <2>1, <2>2, <2>4 DEF Calm
<1>8. ASSUME NEW r \in Requests, NEW q \in QueueNos, schedule_inline(r, q)
      PROVE  Ways
  <2>1. Flags
    BY <1>8 DEF Flags, reqVars, schedule_inline, Admit, Goto, Entered, MayCall
  <2>2. m_queue'["barrier"] = m_queue["barrier"]
    BY <1>8, <1>t, QueueNames DEF Enqueue, ParkQueues, CommonQueues,
          ReqQueues, schedule_inline, Admit, Goto, Entered, MayCall
  <2>3. thp_barrier_cnt = 0
    BY <1>8 DEF schedule_inline, Admit, Goto, Entered, MayCall
  <2>4. m_queue["barrier"] = <<>>
    BY <1>e, <2>3
  <2>5. QED
    BY <2>1, <2>2, <2>4 DEF Calm
<1>9. ASSUME NEW r \in Requests, worker_enqueue(r)
      PROVE  Ways
  <2>1. Flags
    BY <1>9 DEF Flags, reqVars, worker_enqueue, Signal
  <2>2. m_queue'["barrier"] = m_queue["barrier"]
    BY <1>9, <1>t, QueueNames DEF reqVars, worker_enqueue, Signal
  <2>3. \A x \in Requests : Accepted(x)' => Accepted(x)
    BY <1>9, <1>t DEF Accepted, callVars, worker_enqueue, Signal
  <2>4. QED
    BY <2>1, <2>2, <2>3 DEF Calm
<1>10. ASSUME NEW r \in Requests, exec_inline(r)
      PROVE  Ways
  <2>1. Flags
    BY <1>10 DEF Flags, reqVars, exec_inline
  <2>2. m_queue'["barrier"] = m_queue["barrier"]
    BY <1>10, <1>t, QueueNames DEF reqVars, exec_inline
  <2>3. \A x \in Requests : Accepted(x)' => Accepted(x)
    BY <1>10, <1>t DEF Accepted, callVars, exec_inline
  <2>4. QED
    BY <2>1, <2>2, <2>3 DEF Calm
<1>11. ASSUME NEW r \in Requests, spawn_check(r)
      PROVE  Ways
  <2>1. Flags
    BY <1>11 DEF Flags, reqVars, spawn_check, SpawnStep, MaySpawn
  <2>2. m_queue'["barrier"] = m_queue["barrier"]
    BY <1>11, <1>t, QueueNames DEF reqVars, spawn_check, SpawnStep, MaySpawn
  <2>3. \A x \in Requests : Accepted(x)' => Accepted(x)
    BY <1>11, <1>t DEF Accepted, callVars, spawn_check, SpawnStep, MaySpawn
  <2>4. QED
    BY <2>1, <2>2, <2>3 DEF Calm
<1>12. ASSUME NEW r \in Requests, spawn_state(r)
      PROVE  Ways
  <2>1. Flags
    BY <1>12 DEF Flags, reqVars, spawn_state, SpawnStep
  <2>2. m_queue'["barrier"] = m_queue["barrier"]
    BY <1>12, <1>t, QueueNames DEF reqVars, spawn_state, SpawnStep
  <2>3. \A x \in Requests : Accepted(x)' => Accepted(x)
    BY <1>12, <1>t DEF Accepted, callVars, spawn_state, SpawnStep
  <2>4. QED
    BY <2>1, <2>2, <2>3 DEF Calm
<1>13. ASSUME NEW r \in Requests, spawn_count(r)
      PROVE  Ways
  <2>1. Flags
    BY <1>13 DEF Flags, reqVars, spawn_count, SpawnStep
  <2>2. m_queue'["barrier"] = m_queue["barrier"]
    BY <1>13, <1>t, QueueNames DEF reqVars, spawn_count, SpawnStep
  <2>3. \A x \in Requests : Accepted(x)' => Accepted(x)
    BY <1>13, <1>t DEF Accepted, callVars, spawn_count, SpawnStep
  <2>4. QED
    BY <2>1, <2>2, <2>3 DEF Calm
<1>14. ASSUME NEW r \in Requests, spawn_create(r)
      PROVE  Ways
  <2>1. Flags
    BY <1>14 DEF Flags, reqVars, spawn_create, SpawnStep
  <2>2. m_queue'["barrier"] = m_queue["barrier"]
    BY <1>14, <1>t, QueueNames DEF reqVars, spawn_create, SpawnStep
  <2>3. \A x \in Requests : Accepted(x)' => Accepted(x)
    BY <1>14, <1>t DEF Accepted, callVars, spawn_create, SpawnStep
  <2>4. QED
    BY <2>1, <2>2, <2>3 DEF Calm
<1>15. ASSUME NEW r \in Requests, spawn_fail(r)
      PROVE  Ways
  <2>1. Flags
    BY <1>15 DEF Flags, reqVars, spawn_fail, SpawnFails, SpawnStep
  <2>2. m_queue'["barrier"] = m_queue["barrier"]
    BY <1>15, <1>t, QueueNames DEF reqVars, spawn_fail, SpawnFails, SpawnStep
  <2>3. \A x \in Requests : Accepted(x)' => Accepted(x)
    BY <1>15, <1>t DEF Accepted, callVars, spawn_fail, SpawnFails, SpawnStep
  <2>4. QED
    BY <2>1, <2>2, <2>3 DEF Calm
<1>16. ASSUME NEW r \in Requests, spawn_undo(r)
      PROVE  Ways
  <2>1. Flags
    BY <1>16 DEF Flags, reqVars, spawn_undo, SpawnStep, thp_swap_queue,
          worker_update_state
  <2>2. m_queue'["barrier"] = m_queue["barrier"]
    BY <1>16, <1>t, QueueNames DEF reqVars, spawn_undo, SpawnStep,
          thp_swap_queue, worker_update_state
  <2>3. \A x \in Requests : Accepted(x)' => Accepted(x)
    BY <1>16, <1>t DEF Accepted, callVars, spawn_undo, SpawnStep,
          thp_swap_queue, worker_update_state
  <2>4. QED
    BY <2>1, <2>2, <2>3 DEF Calm
<1>17. ASSUME NEW w \in Workers, worker_start(w)
      PROVE  Ways
  <2>1. Flags
    BY <1>17 DEF Flags, reqVars, worker_start, WorkerStep, thp_swap_queue,
          worker_update_state
  <2>2. m_queue'["barrier"] = m_queue["barrier"]
    BY <1>17, <1>t, QueueNames DEF reqVars, worker_start, WorkerStep,
          thp_swap_queue, worker_update_state
  <2>3. \A x \in Requests : Accepted(x)' => Accepted(x)
    BY <1>17, <1>t DEF Accepted, callVars, worker_start, WorkerStep,
          thp_swap_queue, worker_update_state
  <2>4. QED
    BY <2>1, <2>2, <2>3 DEF Calm
<1>18. ASSUME NEW w \in Workers, worker_check(w)
      PROVE  Ways
  <2>1. Flags
    BY <1>18 DEF Flags, reqVars, worker_check, WorkerStep, wrk_can_terminate
  <2>2. m_queue'["barrier"] = m_queue["barrier"]
    BY <1>18, <1>t, QueueNames DEF reqVars, worker_check, WorkerStep,
          wrk_can_terminate
  <2>3. \A x \in Requests : Accepted(x)' => Accepted(x)
    BY <1>18, <1>t DEF Accepted, callVars, worker_check, WorkerStep,
          wrk_can_terminate
  <2>4. QED
    BY <2>1, <2>2, <2>3 DEF Calm
<1>19. ASSUME NEW w \in Workers, worker_pop(w)
      PROVE  Ways
  <2>1. Flags
    BY <1>19 DEF Flags, reqVars, worker_pop, WorkerStep
  <2>2. m_queue'["barrier"] = m_queue["barrier"]
    BY <1>19, <1>t, QueueNames DEF reqVars, worker_pop, WorkerStep
  <2>3. \A x \in Requests : Accepted(x)' => Accepted(x)
    BY <1>19, <1>t DEF Accepted, callVars, worker_pop, WorkerStep
  <2>4. QED
    BY <2>1, <2>2, <2>3 DEF Calm
<1>20. ASSUME NEW w \in Workers, NEW q \in CommonQueues, get_common(w, q)
      PROVE  Ways
  <2>1. Flags
    BY <1>20 DEF Flags, reqVars, get_common, WorkerStep, thp_swap_queue,
          worker_update_state, CommonQueues, Dequeue
  <2>2. m_queue'["barrier"] = m_queue["barrier"]
    BY <1>20, <1>t, QueueNames DEF reqVars, get_common, WorkerStep,
          thp_swap_queue, worker_update_state, CommonQueues, Dequeue
  <2>3. \A x \in Requests : Accepted(x)' => Accepted(x)
    BY <1>20, <1>t DEF Accepted, callVars, get_common, WorkerStep,
          thp_swap_queue, worker_update_state, CommonQueues, Dequeue
  <2>4. QED
    BY <2>1, <2>2, <2>3 DEF Calm
<1>21. ASSUME NEW w \in Workers, put_idle(w)
      PROVE  Ways
  <2>1. Flags
    BY <1>21 DEF Flags, reqVars, put_idle, WorkerStep, thp_swap_queue,
          worker_update_state
  <2>2. m_queue'["barrier"] = m_queue["barrier"]
    BY <1>21, <1>t, QueueNames DEF reqVars, put_idle, WorkerStep,
          thp_swap_queue, worker_update_state
  <2>3. \A x \in Requests : Accepted(x)' => Accepted(x)
    BY <1>21, <1>t DEF Accepted, callVars, put_idle, WorkerStep,
          thp_swap_queue, worker_update_state
  <2>4. QED
    BY <2>1, <2>2, <2>3 DEF Calm
<1>22. ASSUME NEW w \in Workers, get_barrier(w)
      PROVE  Ways
  <2>1. Flags
    BY <1>22 DEF Flags, get_barrier
  <2>2. QED
    BY <1>22, <2>1
<1>23. ASSUME NEW w \in Workers, worker_recheck(w)
      PROVE  Ways
  <2>1. Flags
    BY <1>23 DEF Flags, reqVars, worker_recheck, WorkerStep, wrk_can_terminate
  <2>2. m_queue'["barrier"] = m_queue["barrier"]
    BY <1>23, <1>t, QueueNames DEF reqVars, worker_recheck, WorkerStep,
          wrk_can_terminate
  <2>3. \A x \in Requests : Accepted(x)' => Accepted(x)
    BY <1>23, <1>t DEF Accepted, callVars, worker_recheck, WorkerStep,
          wrk_can_terminate
  <2>4. QED
    BY <2>1, <2>2, <2>3 DEF Calm
<1>24. ASSUME NEW w \in Workers, worker_verify(w)
      PROVE  Ways
  <2>1. Flags
    BY <1>24 DEF Flags, reqVars, worker_verify, WorkerStep
  <2>2. m_queue'["barrier"] = m_queue["barrier"]
    BY <1>24, <1>t, QueueNames DEF reqVars, worker_verify, WorkerStep
  <2>3. \A x \in Requests : Accepted(x)' => Accepted(x)
    BY <1>24, <1>t DEF Accepted, callVars, worker_verify, WorkerStep
  <2>4. QED
    BY <2>1, <2>2, <2>3 DEF Calm
<1>25. ASSUME NEW w \in Workers, worker_wait(w)
      PROVE  Ways
  <2>1. Flags
    BY <1>25 DEF Flags, reqVars, worker_wait, WorkerStep
  <2>2. m_queue'["barrier"] = m_queue["barrier"]
    BY <1>25, <1>t, QueueNames DEF reqVars, worker_wait, WorkerStep
  <2>3. \A x \in Requests : Accepted(x)' => Accepted(x)
    BY <1>25, <1>t DEF Accepted, callVars, worker_wait, WorkerStep
  <2>4. QED
    BY <2>1, <2>2, <2>3 DEF Calm
<1>26. ASSUME NEW w \in Workers, spurious_wakeup(w)
      PROVE  Ways
  <2>1. Flags
    BY <1>26 DEF Flags, reqVars, spurious_wakeup, WorkerStep
  <2>2. m_queue'["barrier"] = m_queue["barrier"]
    BY <1>26, <1>t, QueueNames DEF reqVars, spurious_wakeup, WorkerStep
  <2>3. \A x \in Requests : Accepted(x)' => Accepted(x)
    BY <1>26, <1>t DEF Accepted, callVars, spurious_wakeup, WorkerStep
  <2>4. QED
    BY <2>1, <2>2, <2>3 DEF Calm
<1>27. ASSUME NEW w \in Workers, worker_exec(w)
      PROVE  Ways
  <2>1. Flags
    BY <1>27 DEF Flags, reqVars, worker_exec, WorkerStep
  <2>2. m_queue'["barrier"] = m_queue["barrier"]
    BY <1>27, <1>t, QueueNames DEF reqVars, worker_exec, WorkerStep
  <2>3. \A x \in Requests : Accepted(x)' => Accepted(x)
    BY <1>27, <1>t DEF Accepted, callVars, worker_exec, WorkerStep
  <2>4. QED
    BY <2>1, <2>2, <2>3 DEF Calm
<1>28. ASSUME NEW w \in Workers, worker_finish(w)
      PROVE  Ways
  <2>1. Flags
    BY <1>28 DEF Flags, reqVars, worker_finish, FinishWith, WorkerStep
  <2>2. m_queue'["barrier"] = m_queue["barrier"]
    BY <1>28, <1>t, QueueNames DEF reqVars, worker_finish, FinishWith,
          WorkerStep
  <2>3. \A x \in Requests : Accepted(x)' => Accepted(x)
    BY <1>28, <1>t DEF Accepted, callVars, worker_finish, FinishWith, WorkerStep
  <2>4. QED
    BY <2>1, <2>2, <2>3 DEF Calm
<1>29. ASSUME NEW w \in Workers, thp_thread_terminate(w)
      PROVE  Ways
  <2>1. Flags
    BY <1>29 DEF Flags, reqVars, thp_thread_terminate, thp_swap_queue,
          worker_update_state
  <2>2. m_queue'["barrier"] = m_queue["barrier"]
    BY <1>29, <1>t, QueueNames DEF reqVars, thp_thread_terminate,
          thp_swap_queue, worker_update_state
  <2>3. \A x \in Requests : Accepted(x)' => Accepted(x)
    BY <1>29, <1>t DEF Accepted, callVars, thp_thread_terminate,
          thp_swap_queue, worker_update_state
  <2>4. QED
    BY <2>1, <2>2, <2>3 DEF Calm
<1>30. ASSUME thp_stop
      PROVE  Ways
  <2>1. Flags
    BY <1>30 DEF Flags, reqVars, thp_stop, Signal, StopTest
  <2>2. m_queue'["barrier"] = m_queue["barrier"]
    BY <1>30, <1>t, QueueNames DEF reqVars, thp_stop, Signal, StopTest
  <2>3. \A x \in Requests : Accepted(x)' => Accepted(x)
    BY <1>30, <1>t DEF Accepted, callVars, thp_stop, Signal, StopTest
  <2>4. QED
    BY <2>1, <2>2, <2>3 DEF Calm
<1>31. ASSUME thp_stop_woken
      PROVE  Ways
  <2>1. Flags
    BY <1>31 DEF Flags, reqVars, thp_stop_woken, StopTest
  <2>2. m_queue'["barrier"] = m_queue["barrier"]
    BY <1>31, <1>t, QueueNames DEF reqVars, thp_stop_woken, StopTest
  <2>3. \A x \in Requests : Accepted(x)' => Accepted(x)
    BY <1>31, <1>t DEF Accepted, callVars, thp_stop_woken, StopTest
  <2>4. QED
    BY <2>1, <2>2, <2>3 DEF Calm
<1>32. ASSUME UNCHANGED vars PROVE Ways
  <2>1. Flags
    BY <1>32 DEF Flags, vars, reqVars
  <2>2. \A x \in Requests : Accepted(x)' => Accepted(x)
    BY <1>32 DEF Accepted, vars, callVars
  <2>3. QED
    BY <1>32, <2>1, <2>2 DEF Calm, vars, reqVars
<1>33. Ways
  <2> HIDE DEF Ways
  <2>1. ASSUME NEW r \in Requests, Schedule(r) PROVE Ways
    BY <2>1, <1>2, <1>3, <1>4, <1>5, <1>6, <1>7, <1>8 DEF Schedule
  <2>2. ASSUME NEW r \in Requests, CallerStep(r) PROVE Ways
    BY <2>2, <1>9, <1>10, <1>11, <1>12, <1>13, <1>14, <1>15, <1>16
          DEF CallerStep
  <2>3. ASSUME NEW w \in Workers, WorkerThread(w) PROVE Ways
    BY <2>3, <1>17, <1>18, <1>19, <1>20, <1>21, <1>22, <1>23, <1>24, <1>25,
          <1>27, <1>28, <1>29 DEF WorkerThread
  <2>4. QED
    BY <2>1, <2>2, <2>3, <1>1, <1>26, <1>30, <1>31, <1>32 DEF Next
<1>34. QED
  BY <1>33

(* No move undoes an acceptance, a start or an execution.                   *)
LEMMA MoveMonotone ==
    ASSUME Typed, Held1, Move, NEW x \in Requests
    PROVE  /\ executed[x] > 0 => executed'[x] > 0
           /\ Started(x) => Started(x)'
           /\ Accepted(x) => Accepted(x)'
           /\ ~Outside(x) => ~Outside(x)'
<1> USE PoolAssumption DEF Typed, Started, Accepted, Outside, CallerPCs
<1> DEFINE Goal == /\ executed[x] > 0 => executed'[x] > 0
                   /\ Started(x) => Started(x)'
                   /\ Accepted(x) => Accepted(x)'
                   /\ ~Outside(x) => ~Outside(x)'
<1>1. CASE Still
  BY <1>1 DEF Still
<1>2. ASSUME NEW r \in Requests, Handed(r) PROVE Goal
  BY <1>2 DEF Handed
<1>3. ASSUME NEW r \in Requests, NEW q \in ReqQueues, Taken(r, q)
      PROVE  Goal
  BY <1>3 DEF Taken
<1>4. ASSUME NEW r \in Requests, NEW w \in Workers, Given(r, w)
      PROVE  Goal
  BY <1>4 DEF Given
<1>5. ASSUME NEW r \in Requests, NEW w \in Workers, Runs(r, w) PROVE Goal
  <2>1. cur[w] = None
    BY <1>5 DEF Runs, Held1, Executing
  <2>2. QED
    BY <1>5, <2>1 DEF Runs
<1>6. ASSUME NEW w \in Workers, Ran(w) PROVE Goal
  BY <1>6 DEF Ran
<1>7. ASSUME NEW w \in Workers, Ended(w) PROVE Goal
  <2>1. executed[cur[w]] = 1 /\ cur[w] \in Requests
    BY <1>7 DEF Ended, Held1, Executing
  <2>2. QED
    BY <1>7, <2>1 DEF Ended
<1>8. QED
  BY <1>1, <1>2, <1>3, <1>4, <1>5, <1>6, <1>7 DEF Move, Popped, Fetched,
        Released

LEMMA CalmKeepsOrder ==
    ASSUME Typed, Typed', Held1, Move, Ordered, Calm, flagged \subseteq Requests,
           prior \in [Requests -> SUBSET Requests]
    PROVE  Ordered'
<1>1. /\ flagged' = flagged /\ \A b \in flagged : prior'[b] = prior[b]
      /\ m_queue'["barrier"] = m_queue["barrier"]
  BY DEF Calm, Flags
<1>2. QueueOrder'
  BY <1>1 DEF Ordered, QueueOrder
<1>3. \A x : Waits(x)' <=> Waits(x)
  BY <1>1, QueueNames DEF Waits, Pooled
<1>4. ASSUME NEW b \in flagged, Waits(b)
      PROVE  \A x \in Requests : Accepted(x)' => Accepted(x)
  <2>1. m_queue["barrier"] # <<>>
    BY <1>4, QueueNames DEF Waits, Pooled, Elems
  <2>2. QED
    BY <2>1 DEF Calm
<1>5. \A x \in Requests : /\ executed[x] > 0 => executed'[x] > 0
                          /\ Started(x) => Started(x)'
                          /\ Accepted(x) => Accepted(x)'
                          /\ ~Outside(x) => ~Outside(x)'
  BY MoveMonotone
<1>6. BarrierOrder'
  <2> SUFFICES ASSUME NEW b \in flagged
               PROVE  /\ ~Outside(b)'
                      /\ b \notin prior[b]
                      /\ \A x \in prior[b] : Accepted(x)'
                      /\ Waits(b) => \A x \in Requests :
                                        Accepted(x)' /\ ~Waits(x) => x \in prior[b]
                      /\ ~Waits(b) => /\ Started(b)'
                                      /\ \A x \in prior[b] : executed'[x] > 0
    BY <1>1, <1>3 DEF BarrierOrder
  <2>1. b \in Requests /\ prior[b] \subseteq Requests
    OBVIOUS
  <2>2. QED
    BY <1>4, <1>5, <2>1 DEF Ordered, BarrierOrder
<1>7. QED
  BY <1>2, <1>6 DEF Ordered

(* The end of the barrier queue.                                            *)
LEMMA JoinedQueue ==
    ASSUME NEW s \in Seq(Requests), NEW r \in Requests
    PROVE  LET t == Append(s, r)
           IN  /\ DOMAIN t = 1..(Len(s) + 1) /\ DOMAIN s = 1..Len(s)
               /\ Len(s) \in Nat
               /\ \A i \in 1..Len(s) : t[i] = s[i]
               /\ t[Len(s) + 1] = r
               /\ \A i \in DOMAIN t : i \in DOMAIN s \/ i = Len(s) + 1
OBVIOUS

LEMMA JoinKeepsOrder ==
    ASSUME Typed, Typed', Held1, Move, Ordered, NEW r \in Requests, Joins(r),
           flagged \subseteq Requests, prior \in [Requests -> SUBSET Requests],
           m_queue \in [ReqQueues -> Seq(Requests)]
    PROVE  Ordered'
<1> DEFINE s == m_queue["barrier"]
           t == m_queue'["barrier"]
<1>1. /\ flagged' = flagged /\ \A b \in flagged : prior'[b] = prior[b]
      /\ t = Append(s, r) /\ s \in Seq(Requests)
      /\ cpc[r] \in {"init", "schedule"} /\ cpc' = [cpc EXCEPT ![r] = "done"]
  BY QueueNames DEF Joins, Flags
<1>2. /\ DOMAIN t = 1..(Len(s) + 1) /\ DOMAIN s = 1..Len(s)
      /\ Len(s) \in Nat
      /\ \A i \in 1..Len(s) : t[i] = s[i]
      /\ t[Len(s) + 1] = r
      /\ \A i \in DOMAIN t : i \in DOMAIN s \/ i = Len(s) + 1
  BY <1>1, JoinedQueue
<1>3. \A b \in flagged : r # b /\ r \notin prior[b] /\ b \in Requests
  BY <1>1 DEF Ordered, BarrierOrder, Outside, Accepted
<1>4. QueueOrder'
  <2> SUFFICES ASSUME NEW b \in flagged, NEW i \in DOMAIN t, NEW j \in DOMAIN t,
                      t[i] = b
               PROVE  /\ j < i => t[j] \in prior[b]
                      /\ j > i => t[j] \notin prior[b]
    BY <1>1 DEF QueueOrder
  <2>1. i \in DOMAIN s /\ s[i] = b
    BY <1>2, <1>3
  <2>2. CASE j \in DOMAIN s
    BY <1>2, <2>1, <2>2 DEF Ordered, QueueOrder
  <2>3. CASE j = Len(s) + 1
    BY <1>2, <1>3, <2>1, <2>3
  <2>4. QED
    BY <1>2, <2>2, <2>3
<1>5. \A x : Waits(x)' <=> Waits(x) \/ x = r
  <2>1. Elems(t) = Elems(s) \cup {r}
    BY <1>1, AppendElems
  <2>2. QED
    BY <2>1, QueueNames DEF Waits, Pooled
<1>6. \A x \in Requests : /\ executed[x] > 0 => executed'[x] > 0
                          /\ Started(x) => Started(x)'
                          /\ Accepted(x) => Accepted(x)'
                          /\ ~Outside(x) => ~Outside(x)'
  BY MoveMonotone
<1>7. \A x \in Requests : Accepted(x)' => Accepted(x) \/ x = r
  BY <1>1 DEF Accepted, Typed
<1>8. BarrierOrder'
  <2> SUFFICES ASSUME NEW b \in flagged
               PROVE  /\ ~Outside(b)'
                      /\ b \notin prior[b]
                      /\ \A x \in prior[b] : Accepted(x)'
                      /\ Waits(b)' => \A x \in Requests :
                                        Accepted(x)' /\ ~Waits(x)' => x \in prior[b]
                      /\ ~Waits(b)' => /\ Started(b)'
                                       /\ \A x \in prior[b] : executed'[x] > 0
    BY <1>1 DEF BarrierOrder
  <2>1. b \in Requests /\ prior[b] \subseteq Requests
    OBVIOUS
  <2>2. QED
    BY <1>3, <1>5, <1>6, <1>7, <2>1 DEF Ordered, BarrierOrder
<1>9. QED
  BY <1>4, <1>8 DEF Ordered

LEMMA DeferKeepsOrder ==
    ASSUME Typed, Typed', Held1, Move, Ordered, NEW r \in Requests, Defers(r),
           flagged \subseteq Requests, prior \in [Requests -> SUBSET Requests],
           m_queue \in [ReqQueues -> Seq(Requests)]
    PROVE  Ordered'
<1> DEFINE s == m_queue["barrier"]
           t == m_queue'["barrier"]
<1>1. /\ flagged' = flagged \cup {r}
      /\ t = Append(s, r) /\ s \in Seq(Requests)
      /\ cpc[r] = "init" /\ cpc' = [cpc EXCEPT ![r] = "done"]
  BY QueueNames DEF Defers
<1>2. /\ DOMAIN t = 1..(Len(s) + 1) /\ DOMAIN s = 1..Len(s)
      /\ Len(s) \in Nat
      /\ \A i \in 1..Len(s) : t[i] = s[i]
      /\ t[Len(s) + 1] = r
      /\ \A i \in DOMAIN t : i \in DOMAIN s \/ i = Len(s) + 1
  BY <1>1, JoinedQueue
<1>3. \A b \in flagged : r # b /\ r \notin prior[b] /\ b \in Requests
  BY <1>1 DEF Ordered, BarrierOrder, Outside, Accepted
<1>4. /\ \A b \in flagged : prior'[b] = prior[b]
      /\ prior'[r] = {x \in Requests : Accepted(x)}
  BY <1>3 DEF Defers
<1>5. r \notin Pooled["barrier"] /\ ~Accepted(r) /\ r \notin prior'[r]
  BY <1>1, <1>4, QueueNames DEF Held1, CallersOwn, Outside, Accepted
<1>6. \A i \in DOMAIN s : s[i] # r /\ s[i] \in Requests /\ Accepted(s[i])
  <2>1. \A i \in DOMAIN s : s[i] \in Pooled["barrier"] /\ s[i] \in Requests
    BY <1>1, QueueNames DEF Pooled, Elems
  <2>2. \A x \in Requests : x \in Pooled["barrier"] => Accepted(x)
    BY QueueNames DEF Held1, CallersOwn, Outside, Accepted
  <2>3. QED
    BY <1>5, <2>1, <2>2
<1>7. QueueOrder'
  <2> SUFFICES ASSUME NEW b \in flagged', NEW i \in DOMAIN t, NEW j \in DOMAIN t,
                      t[i] = b
               PROVE  /\ j < i => t[j] \in prior'[b]
                      /\ j > i => t[j] \notin prior'[b]
    BY DEF QueueOrder
  <2>1. CASE b = r
    <3>1. i = Len(s) + 1
      BY <1>2, <1>6, <2>1
    <3>2. j < i => t[j] \in prior'[r]
      BY <1>2, <1>4, <1>6, <3>1
    <3>3. QED
      BY <1>2, <2>1, <3>1, <3>2
  <2>2. CASE b \in flagged
    <3>1. i \in DOMAIN s /\ s[i] = b
      BY <1>2, <1>3, <2>2
    <3>2. CASE j \in DOMAIN s
      BY <1>2, <1>4, <2>2, <3>1, <3>2 DEF Ordered, QueueOrder
    <3>3. CASE j = Len(s) + 1
      BY <1>2, <1>3, <1>4, <2>2, <3>1, <3>3
    <3>4. QED
      BY <1>2, <3>2, <3>3
  <2>3. QED
    BY <1>1, <2>1, <2>2
<1>8. \A x : Waits(x)' <=> Waits(x) \/ x = r
  <2>1. Elems(t) = Elems(s) \cup {r}
    BY <1>1, AppendElems
  <2>2. QED
    BY <2>1, QueueNames DEF Waits, Pooled
<1>9. \A x \in Requests : /\ executed[x] > 0 => executed'[x] > 0
                          /\ Started(x) => Started(x)'
                          /\ Accepted(x) => Accepted(x)'
                          /\ ~Outside(x) => ~Outside(x)'
  BY MoveMonotone
<1>10. /\ \A x \in Requests : Accepted(x)' => Accepted(x) \/ x = r
       /\ ~Outside(r)'
  BY <1>1 DEF Accepted, Outside, Typed
<1>11. BarrierOrder'
  <2> SUFFICES ASSUME NEW b \in flagged'
               PROVE  /\ ~Outside(b)'
                      /\ b \notin prior'[b]
                      /\ \A x \in prior'[b] : Accepted(x)'
                      /\ Waits(b)' => \A x \in Requests :
                                        Accepted(x)' /\ ~Waits(x)' => x \in prior'[b]
                      /\ ~Waits(b)' => /\ Started(b)'
                                       /\ \A x \in prior'[b] : executed'[x] > 0
    BY DEF BarrierOrder
  <2>1. CASE b = r
    BY <1>4, <1>5, <1>8, <1>9, <1>10, <2>1
  <2>2. CASE b \in flagged
    <3>1. b \in Requests /\ prior[b] \subseteq Requests /\ prior'[b] = prior[b]
      BY <1>4, <2>2
    <3>2. QED
      BY <1>3, <1>8, <1>9, <1>10, <2>2, <3>1 DEF Ordered, BarrierOrder
  <2>3. QED
    BY <1>1, <2>1, <2>2
<1>12. QED
  BY <1>7, <1>11 DEF Ordered

LEMMA TakeKeepsOrder ==
    ASSUME PInv, Typed', Move, Ordered, NEW w \in Workers, get_barrier(w), Flags
    PROVE  Ordered'
<1> DEFINE s == m_queue["barrier"]
           t == m_queue'["barrier"]
<1>1. /\ m_queue \in [ReqQueues -> Seq(Requests)] /\ Typed /\ Held1
      /\ flagged \subseteq Requests /\ prior \in [Requests -> SUBSET Requests]
      /\ s \in Seq(Requests) /\ s # <<>> /\ Distinct(s)
      /\ cur \in [Workers -> Requests \cup {None}]
  <2>1. TypeOK
    BY DEF PInv, PlInv, SInv, WInv, TInv
  <2>2. Typed
    BY <2>1, TypedFromType
  <2>3. s # <<>>
    BY QueueNames DEF get_barrier, PInv, PlInv, SInv, WInv, TInv, BarrierCounted
  <2>4. QED
    BY <2>1, <2>2, <2>3, QueueNames, PoolAssumption
       DEF PInv, PlInv, Distincts, TypeOK, RequestType, WorkerType
<1>2. PICK k \in 0..Len(Tail(s)), S \in SUBSET Listed("idle") : Promoted(w, k, S)
  BY BarrierPromotes
<1>3. /\ k \in Nat /\ Len(s) \in Nat /\ k + 1 <= Len(s) /\ DOMAIN s = 1..Len(s)
      /\ \A i \in 1..k : s[i + 1] \notin flagged
  <2>1. /\ k \in Nat /\ Len(s) \in Nat /\ k + 1 <= Len(s) /\ DOMAIN s = 1..Len(s)
        /\ \A i \in 1..k : Tail(s)[i] = s[i + 1]
    BY <1>1
  <2>2. \A i \in 1..k : Tail(s)[i] \notin flagged
    BY <1>2 DEF Promoted, Promotes
  <2>3. QED
    BY <2>1, <2>2
<1>4. t = SubSeq(Tail(s), k + 1, Len(Tail(s)))
  BY <1>1, <1>2, QueueNames DEF Promoted
<1>5. /\ t \in Seq(Requests) /\ DOMAIN t = 1..(Len(s) - 1 - k)
      /\ \A i \in 1..(Len(s) - 1 - k) : t[i] = s[i + k + 1]
  <2>1. /\ t \in Seq(Requests) /\ Len(t) = Len(s) - 1 - k
        /\ \A i \in 1..(Len(s) - 1 - k) : t[i] = s[i + k + 1]
    BY <1>1, <1>4, FrontAndBack
  <2> HIDE DEF t, s
  <2>2. QED
    BY <2>1
<1>6. /\ cur'[w] = s[1] /\ s[1] \in Requests /\ Works = {}
      /\ cpc' = cpc /\ flagged' = flagged
      /\ \A b \in flagged : prior'[b] = prior[b]
  <2>1. cur'[w] = Head(s) /\ thp_sched_req <= 0 /\ cpc' = cpc
    BY <1>1 DEF get_barrier, callVars
  <2>2. Head(s) = s[1] /\ s[1] \in Requests
    BY <1>1
  <2>3. Works = {}
    BY <2>1, FS_EmptySet, FS_CardinalityType DEF PInv, Counted
  <2>4. QED
    BY <2>1, <2>2, <2>3 DEF Flags
<1> DEFINE Shift(i) == i + k + 1
<1> HIDE DEF s, t
<1>7. \A i \in DOMAIN t : i + k + 1 \in DOMAIN s /\ i \in Int /\ t[i] = s[i + k + 1]
  BY <1>3, <1>5
<1>8. QueueOrder'
  <2> SUFFICES ASSUME NEW b \in flagged, NEW i \in DOMAIN t, NEW j \in DOMAIN t,
                      t[i] = b
               PROVE  /\ j < i => t[j] \in prior[b]
                      /\ j > i => t[j] \notin prior[b]
    BY <1>6 DEF QueueOrder, t
  <2>1. /\ i + k + 1 \in DOMAIN s /\ j + k + 1 \in DOMAIN s
        /\ s[i + k + 1] = b /\ t[j] = s[j + k + 1]
        /\ j < i => j + k + 1 < i + k + 1
        /\ j > i => j + k + 1 > i + k + 1
    BY <1>3, <1>7
  <2>2. QED
    BY <2>1 DEF Ordered, QueueOrder, s
<1>9. /\ \A x : Waits(x) <=> \E i \in DOMAIN s : s[i] = x
      /\ \A x : Waits(x)' <=> \E i \in DOMAIN t : t[i] = x
  BY QueueNames DEF Waits, Pooled, Elems, s, t
<1>10. \A x : \A i \in DOMAIN s : s[i] = x /\ i > k + 1 => Waits(x)'
  <2>1. \A i \in DOMAIN s : i > k + 1 => i - k - 1 \in DOMAIN t /\ t[i - k - 1] = s[i]
    <3>1. \A i \in DOMAIN s : i > k + 1 =>
             i - k - 1 \in DOMAIN t /\ (i - k - 1) + k + 1 = i
      BY <1>3, <1>5
    <3>2. QED
      BY <1>7, <3>1
  <2>2. QED
    BY <1>9, <2>1
<1>11. \A x \in Requests : /\ executed[x] > 0 => executed'[x] > 0
                           /\ Started(x) => Started(x)'
                           /\ Accepted(x) => Accepted(x)'
                           /\ ~Outside(x) => ~Outside(x)'
  BY <1>1, MoveMonotone
<1>12. \A x \in Requests : Accepted(x)' <=> Accepted(x)
  BY <1>6 DEF Accepted
<1>13. ASSUME NEW b \in flagged
       PROVE  /\ ~Outside(b)'
              /\ b \notin prior[b]
              /\ \A x \in prior[b] : Accepted(x)'
              /\ Waits(b)' => \A x \in Requests :
                                 Accepted(x)' /\ ~Waits(x)' => x \in prior[b]
              /\ ~Waits(b)' => /\ Started(b)'
                               /\ \A x \in prior[b] : executed'[x] > 0
  <2>1. b \in Requests /\ prior[b] \subseteq Requests
    BY <1>1
  <2>2. ~Outside(b)' /\ b \notin prior[b] /\ \A x \in prior[b] : Accepted(x)'
    BY <1>11, <2>1 DEF Ordered, BarrierOrder
  <2>3. ASSUME Waits(b)', NEW x \in Requests, Accepted(x)', ~Waits(x)'
        PROVE  x \in prior[b]
    <3>1. PICK i \in DOMAIN t : t[i] = b
      BY <1>9, <2>3
    <3>2. i + k + 1 \in DOMAIN s /\ s[i + k + 1] = b
      BY <1>7, <3>1
    <3>3. CASE ~Waits(x)
      BY <1>9, <1>12, <2>3, <3>2, <3>3 DEF Ordered, BarrierOrder
    <3>4. CASE Waits(x)
      <4>1. PICK j \in DOMAIN s : s[j] = x
        BY <1>9, <3>4
      <4>2. ~(j > k + 1)
        BY <1>10, <2>3, <4>1
      <4>3. j < i + k + 1
        BY <1>3, <1>5, <4>2
      <4>4. QED
        BY <3>2, <4>1, <4>3 DEF Ordered, QueueOrder, s
    <3>5. QED
      BY <3>3, <3>4
  <2>4. ASSUME ~Waits(b)'
        PROVE  Started(b)' /\ \A x \in prior[b] : executed'[x] > 0
    <3>1. CASE ~Waits(b)
      BY <1>11, <2>1, <3>1 DEF Ordered, BarrierOrder
    <3>2. CASE Waits(b)
      <4>1. PICK j \in DOMAIN s : s[j] = b
        BY <1>9, <3>2
      <4>2. j = 1
        <5>1. ~(j > k + 1)
          BY <1>10, <2>4, <4>1
        <5>2. CASE j > 1
          <6>1. j - 1 \in 1..k /\ (j - 1) + 1 = j
            BY <1>3, <5>1, <5>2
          <6>2. QED
            BY <1>3, <4>1, <6>1
        <5>3. QED
          BY <1>3, <5>2
      <4>3. Started(b)'
        BY <1>6, <4>1, <4>2 DEF Started
      <4>4. ASSUME NEW x \in prior[b] PROVE executed'[x] > 0
        <5>1. x \in Requests /\ Accepted(x) /\ x # b
          BY <2>1, <2>2, <1>12
        <5>2. ~Waits(x)
          <6>1. ASSUME NEW i \in DOMAIN s, s[i] = x PROVE FALSE
            <7>1. i # 1 /\ i > 1
              BY <1>3, <4>1, <4>2, <5>1, <6>1
            <7>2. QED
              BY <4>1, <4>2, <4>4, <6>1, <7>1 DEF Ordered, QueueOrder, s
          <6>2. QED
            BY <1>9, <6>1
        <5>3. /\ cpc[x] # "enqueue"
              /\ \A q \in ReqQueues \ {"barrier"} : x \notin Pooled[q]
              /\ \A v \in Workers : x \notin Own[v] /\ cur[v] # x
          BY <1>6, <5>1 DEF Works
        <5>4. ~Outside(x)
          BY <5>1, <5>3 DEF Outside, Accepted
        <5>5. executed[x] = 1
          BY <1>1, <5>1, <5>2, <5>3, <5>4 DEF Held1, Kept, Waits
        <5>6. QED
          BY <1>11, <5>1, <5>5
      <4>5. QED
        BY <4>3, <4>4
    <3>3. QED
      BY <3>1, <3>2
  <2>5. QED
    BY <2>2, <2>3, <2>4
<1>14. BarrierOrder'
  BY <1>6, <1>13 DEF BarrierOrder
<1>15. QED
  BY <1>8, <1>14 DEF Ordered

OInv == PInv /\ Ordered

LEMMA StepOrder ==
    ASSUME OInv, [Next]_vars, StopPolicy # "any"
    PROVE  OInv' /\ Move /\ Ways
<1>1. PInv' /\ Move /\ Ways
  BY StepPlaces, StepMoves, StepWays DEF OInv, PInv
<1>2. TypeOK /\ TypeOK'
  BY <1>1 DEF OInv, PInv, PlInv, SInv, WInv, TInv
<1>3. Typed /\ Typed'
  BY <1>2, TypedFromType, PTL
<1>4. /\ flagged \subseteq Requests /\ prior \in [Requests -> SUBSET Requests]
      /\ m_queue \in [ReqQueues -> Seq(Requests)] /\ Held1
  BY <1>2, PoolAssumption DEF TypeOK, RequestType, OInv, PInv, PlInv
<1>5. Ordered'
  BY <1>1, <1>3, <1>4, CalmKeepsOrder, JoinKeepsOrder, DeferKeepsOrder,
     TakeKeepsOrder DEF Ways, OInv
<1>6. QED
  BY <1>1, <1>5 DEF OInv

LEMMA InitOrder == Init => OInv
BY InitPlaces DEF OInv, Init, Ordered, QueueOrder, BarrierOrder

LEMMA InOrderHolds == OInv => DeferredBarrierInOrder
<1> SUFFICES ASSUME OInv, NEW b \in flagged PROVE InOrder(b)
  BY DEF DeferredBarrierInOrder
<1>1. b \in Requests /\ prior[b] \subseteq Requests /\ Held1
      /\ cur \in [Workers -> Requests \cup {None}] /\ executed \in [Requests -> Nat]
  BY PoolAssumption
     DEF OInv, PInv, PlInv, SInv, WInv, TInv, TypeOK, RequestType, WorkerType
<1>2. ASSUME NEW x \in Requests, Started(x) PROVE ~Waits(x) /\ Accepted(x)
  BY <1>1, <1>2, QueueNames
     DEF Started, Held1, Single, CallersOwn, Waits, Outside, Accepted
<1>3. Started(b) => \A x \in prior[b] : executed[x] > 0
  BY <1>1, <1>2 DEF OInv, Ordered, BarrierOrder
<1>4. ASSUME NEW x \in Requests \ (prior[b] \cup {b}), Started(x)
      PROVE  Started(b)
  BY <1>1, <1>2, <1>4 DEF OInv, Ordered, BarrierOrder
<1>5. QED
  BY <1>3, <1>4 DEF InOrder

(* A barrier that schedule_barrier has deferred starts after every request  *)
(* scheduled before it has been executed and before any scheduled after it  *)
(* starts (request.cpp, lines 469-486 and 497-556), however many barriers   *)
(* there are and however far promotion gets.                                *)
THEOREM BarriersInOrder ==
    ASSUME StopPolicy # "any" PROVE Spec => []DeferredBarrierInOrder
BY InitOrder, StepOrder, InOrderHolds, PTL DEF Spec

-----------------------------------------------------------------------------
(* The pool implements RequestPool.                                         *)

Running(r) == \E w \in Workers : wpc[w] = "exec" /\ cur[w] = r

Stage(r) ==
    IF executed[r] = 1 THEN "done"
    ELSE IF Running(r) THEN "running"
    ELSE IF Accepted(r) THEN "accepted" ELSE "new"

(* No request is executed again, and one that runs is not yet executed.     *)
LEMMA ProgressIs ==
    ASSUME OInv, NEW r \in Requests
    PROVE  /\ Progress(r) = Stage(r)
           /\ executed[r] \in {0, 1}
           /\ Running(r) => executed[r] = 0
           /\ Running(r) \/ executed[r] = 1 => Accepted(r)
<1>1. Held1 /\ executed[r] \in Nat
  BY DEF OInv, PInv, PlInv, SInv, WInv, TInv, TypeOK, RequestType
<1>2. ASSUME Running(r) PROVE executed[r] = 0 /\ Accepted(r)
  BY <1>1, <1>2, PoolAssumption
     DEF Running, Held1, Executing, CallersOwn, Outside, Accepted
<1>3. executed[r] \in {0, 1}
  BY <1>1, PoolAssumption DEF Held1, Single, CallersOwn, Kept, Executing
<1>4. executed[r] = 1 => Accepted(r)
  BY <1>1 DEF Held1, CallersOwn, Outside, Accepted
<1>5. Progress(r) = Stage(r)
  <2>1. CASE executed[r] = 1
    BY <1>2, <2>1 DEF Progress, Stage, Running
  <2>2. CASE executed[r] = 0 /\ Running(r)
    BY <2>2 DEF Progress, Stage, Running
  <2>3. CASE executed[r] = 0 /\ ~Running(r) /\ Accepted(r)
    BY <2>3 DEF Progress, Stage, Running
  <2>4. CASE executed[r] = 0 /\ ~Running(r) /\ ~Accepted(r)
    BY <2>4 DEF Progress, Stage, Running
  <2>5. QED
    BY <1>3, <2>1, <2>2, <2>3, <2>4
<1>6. QED
  BY <1>2, <1>3, <1>4, <1>5

(* RequestPool as the pool's places show it.                                *)
Stages == [r \in Requests |-> Progress(r)]

Behind == [r \in Requests |-> IF r \in flagged THEN prior[r] ELSE {}]

StagesKnown ==
    \A r \in Requests :
        /\ Progress(r) = Stage(r)
        /\ executed[r] \in {0, 1}
        /\ Running(r) => executed[r] = 0
        /\ Running(r) \/ executed[r] = 1 => Accepted(r)

LEMMA AllStages == OInv => StagesKnown
BY ProgressIs DEF StagesKnown

LEMMA SameStages ==
    ASSUME StagesKnown, StagesKnown', executed' = executed,
           \A r \in Requests : Running(r)' <=> Running(r),
           \A r \in Requests : Accepted(r)' <=> Accepted(r)
    PROVE  Stages' = Stages
BY DEF Stages, StagesKnown, Stage

(* One request's stage changes, and the others' stay.                       *)
LEMMA OneStage ==
    ASSUME StagesKnown, StagesKnown', NEW r \in Requests,
           \A x \in Requests \ {r} :
              /\ executed'[x] = executed[x]
              /\ Running(x)' <=> Running(x)
              /\ Accepted(x)' <=> Accepted(x)
    PROVE  Stages' = [Stages EXCEPT ![r] = Progress(r)']
BY ZenonT(60) DEF Stages, StagesKnown, Stage

(* What a worker takes is in turn: the order of barriers holds of the state *)
(* in which it has started.                                                 *)
LEMMA StartsInTurn ==
    ASSUME OInv, OInv', Flags, NEW r \in Requests, NEW w \in Workers,
           Runs(r, w), executed[r] = 0, ~Running(r), Accepted(r)
    PROVE  Promise!Start(r)
<1>1. StagesKnown /\ StagesKnown' /\ DeferredBarrierInOrder'
  BY AllStages, InOrderHolds, PTL
<1>2. /\ cur \in [Workers -> Requests \cup {None}] /\ Executing
      /\ flagged \subseteq Requests /\ prior \in [Requests -> SUBSET Requests]
  BY PoolAssumption
     DEF OInv, PInv, PlInv, SInv, WInv, TInv, TypeOK, RequestType, WorkerType, Held1
<1>3. /\ cur'[w] = r /\ \A v \in Workers \ {w} : cur'[v] = cur[v]
      /\ wpc[w] = "pop" /\ wpc'[w] = "exec" /\ executed' = executed /\ cpc' = cpc
      /\ \A v \in Workers \ {w} : wpc'[v] = "exec" <=> wpc[v] = "exec"
  BY <1>2 DEF Runs, Busy
<1>4. /\ Running(r)'
      /\ \A x \in Requests \ {r} : Running(x)' <=> Running(x)
      /\ \A x \in Requests : Accepted(x)' <=> Accepted(x)
  BY <1>3 DEF Running, Accepted
<1>5. Stages' = [Stages EXCEPT ![r] = "running"]
  <2>1. Progress(r)' = "running"
    BY <1>1, <1>3, <1>4 DEF StagesKnown, Stage
  <2>2. QED
    BY <1>1, <1>3, <1>4, <2>1, OneStage
<1>6. Stages[r] = "accepted"
  BY <1>1 DEF StagesKnown, Stage, Stages
<1>7. flagged' = flagged /\ Behind' = Behind
  BY DEF Flags, Behind
<1>8. Started(r)'
  BY <1>3 DEF Started
<1>9. ASSUME r \in flagged, NEW x \in prior[r] PROVE Stages[x] = "done"
  <2>1. x \in Requests /\ executed[x] > 0
    BY <1>1, <1>2, <1>3, <1>8, <1>9 DEF DeferredBarrierInOrder, InOrder, Flags
  <2>2. QED
    BY <1>1, <2>1 DEF StagesKnown, Stage, Stages
<1>10. ASSUME NEW b \in flagged \ {r}, r \notin prior[b]
       PROVE  Stages[b] \in {"running", "done"}
  <2>1. Started(b)'
    BY <1>1, <1>8, <1>10 DEF DeferredBarrierInOrder, InOrder, Flags
  <2>2. executed[b] > 0 \/ \E v \in Workers : cur[v] = b
    BY <1>3, <2>1 DEF Started
  <2>3. b \in Requests /\ b # None
    BY <1>2, PoolAssumption
  <2>4. executed[b] = 1 \/ Running(b)
    BY <1>1, <1>2, <2>2, <2>3 DEF Executing, StagesKnown, Running
  <2>5. QED
    BY <1>1, <2>3, <2>4 DEF StagesKnown, Stage, Stages
<1>11. Promise!InTurn(r)
  BY <1>2, <1>9, <1>10 DEF Promise!InTurn, Stages
<1>12. QED
  BY <1>5, <1>6, <1>7, <1>11 DEF Promise!Start, Stages, Behind

(* Every move that does not defer a barrier is a step of RequestPool, or    *)
(* none.                                                                    *)
LEMMA MovePromised ==
    ASSUME OInv, OInv', Flags, Move
    PROVE  [Promise!Next]_Promise!vars
<1>1. StagesKnown /\ StagesKnown'
  BY AllStages, PTL
<1>2. /\ cur \in [Workers -> Requests \cup {None}] /\ cpc \in [Requests -> CallerPCs]
      /\ executed \in [Requests -> Nat] /\ wpc \in [Workers -> WorkerPCs]
      /\ Held1 /\ Typed
  <2>1. TypeOK /\ Held1
    BY DEF OInv, PInv, PlInv, SInv, WInv, TInv
  <2>2. QED
    BY <2>1, TypedFromType DEF TypeOK, RequestType, WorkerType, CallerType
<1>3. flagged' = flagged /\ Behind' = Behind
  BY DEF Flags, Behind
<1>4. ASSUME Stages' = Stages PROVE UNCHANGED Promise!vars
  BY <1>3, <1>4 DEF Promise!vars, Stages, Behind
<1>5. ASSUME NEW r \in Requests, ~Accepted(r), Accepted(r)', executed' = executed,
             \A x \in Requests : Running(x)' <=> Running(x),
             \A x \in Requests \ {r} : cpc'[x] = cpc[x]
      PROVE  Promise!Accept(r)
  <2>1. Stages' = [Stages EXCEPT ![r] = Progress(r)']
    BY <1>1, <1>5, OneStage DEF Accepted
  <2>2. Stages[r] = "new" /\ Progress(r)' = "accepted"
    BY <1>1, <1>5 DEF StagesKnown, Stage, Stages
  <2>3. QED
    BY <1>3, <2>1, <2>2 DEF Promise!Accept, Stages, Behind
<1>6. RunsKept /\ cur' = cur => \A x \in Requests : Running(x)' <=> Running(x)
  BY DEF RunsKept, Running, Busy
<1>7. ASSUME NEW r \in Requests, NEW w \in Workers, Runs(r, w),
             \/ \E q \in ReqQueues : r \in Pooled[q]
             \/ \E v \in Workers : r \in Own[v]
      PROVE  Promise!Start(r)
  <2>1. executed[r] = 0 /\ ~Running(r) /\ Accepted(r)
    BY <1>2, <1>7 DEF Held1, Single, CallersOwn, Running, Outside, Accepted
  <2>2. QED
    BY <1>7, <2>1, StartsInTurn
<1>8. CASE Still
  <2>1. \A x \in Requests : Accepted(x)' <=> Accepted(x)
    BY <1>8 DEF Still, Accepted, Outside
  <2>2. QED
    BY <1>1, <1>4, <1>6, <1>8, <2>1, SameStages DEF Still
<1>9. ASSUME NEW r \in Requests, Handed(r) PROVE Promise!Accept(r)
  BY <1>2, <1>5, <1>6, <1>9 DEF Handed, Accepted
<1>10. ASSUME NEW r \in Requests, NEW q \in ReqQueues, Taken(r, q)
       PROVE  Promise!Accept(r)
  BY <1>2, <1>5, <1>6, <1>10 DEF Taken, Accepted
<1>11. ASSUME NEW r \in Requests, NEW w \in Workers, Given(r, w)
       PROVE  UNCHANGED Promise!vars
  <2>1. \A x \in Requests : Accepted(x)' <=> Accepted(x)
    BY <1>2, <1>11 DEF Given, Accepted
  <2>2. QED
    BY <1>1, <1>4, <1>6, <1>11, <2>1, SameStages DEF Given
<1>12. ASSUME NEW r \in Requests, NEW w \in Workers, Popped(r, w)
       PROVE  Promise!Start(r)
  BY <1>7, <1>12 DEF Popped
<1>13. ASSUME NEW r \in Requests, NEW w \in Workers, NEW q \in CommonQueues,
              Fetched(r, w, q)
       PROVE  Promise!Start(r)
  BY <1>7, <1>13, QueueNames DEF Fetched
<1>14. ASSUME NEW r \in Requests, NEW w \in Workers, NEW K \in SUBSET Requests,
              Released(r, w, K)
       PROVE  Promise!Start(r)
  BY <1>7, <1>14, QueueNames DEF Released
<1>15. ASSUME NEW w \in Workers, Ran(w) PROVE Promise!Finish(cur[w])
  <2>1. cur[w] \in Requests /\ Running(cur[w]) /\ executed[cur[w]] = 0
    BY <1>1, <1>2, <1>15 DEF Ran, Typed, Running, StagesKnown
  <2>2. /\ executed'[cur[w]] = 1
        /\ \A x \in Requests \ {cur[w]} : executed'[x] = executed[x]
        /\ \A x \in Requests \ {cur[w]} : Running(x)' <=> Running(x)
        /\ \A x \in Requests : Accepted(x)' <=> Accepted(x)
    BY <1>2, <1>15, <2>1 DEF Ran, Running, Accepted
  <2> DEFINE r == cur[w]
  <2>3. Stages[r] = "running"
    BY <1>1, <2>1 DEF StagesKnown, Stage, Stages
  <2>4. PICK x \in Requests : x = cur[w]
    BY <2>1
  <2>5. Progress(x)' = "done"
    BY <1>1, <2>2, <2>4 DEF StagesKnown, Stage
  <2>6. Stages' = [Stages EXCEPT ![x] = "done"]
    BY <1>1, <2>2, <2>4, <2>5, OneStage
  <2>7. QED
    BY <1>3, <2>3, <2>4, <2>6 DEF Promise!Finish, Stages, Behind
<1>16. ASSUME NEW w \in Workers, Ended(w) PROVE UNCHANGED Promise!vars
  <2>1. \A x \in Requests : Running(x)' <=> Running(x)
    BY <1>2, <1>16 DEF Ended, Running
  <2>2. \A x \in Requests : Accepted(x)' <=> Accepted(x)
    BY <1>16 DEF Ended, Accepted
  <2>3. QED
    BY <1>1, <1>4, <1>16, <2>1, <2>2, SameStages DEF Ended
<1>17. ASSUME NEW w \in Workers, Ran(w) PROVE cur[w] \in Requests
  BY <1>2, <1>17 DEF Ran, Typed
<1>18. QED
  BY <1>8, <1>9, <1>10, <1>11, <1>12, <1>13, <1>14, <1>15, <1>16, <1>17
     DEF Move, Promise!Next

LEMMA DeferPromised ==
    ASSUME OInv, OInv', NEW r \in Requests, Defers(r)
    PROVE  Promise!Defer(r)
<1>1. StagesKnown /\ StagesKnown'
  BY AllStages, PTL
<1>2. /\ cpc \in [Requests -> CallerPCs] /\ prior \in [Requests -> SUBSET Requests]
      /\ flagged \subseteq Requests
  BY PoolAssumption
     DEF OInv, PInv, PlInv, SInv, WInv, TInv, TypeOK, RequestType, CallerType
<1>3. /\ executed' = executed
      /\ \A x \in Requests : Running(x)' <=> Running(x)
      /\ \A x \in Requests \ {r} : Accepted(x)' <=> Accepted(x)
      /\ ~Accepted(r) /\ Accepted(r)'
  BY <1>2 DEF Defers, Taken, RunsKept, Running, Busy, Accepted
<1>4. Stages' = [Stages EXCEPT ![r] = "accepted"] /\ Stages[r] = "new"
  <2>1. Stages[r] = "new" /\ Progress(r)' = "accepted"
    BY <1>1, <1>3 DEF StagesKnown, Stage, Stages
  <2>2. QED
    BY <1>1, <1>3, <2>1, OneStage
<1>5. {x \in Requests : Stages[x] # "new"} = {x \in Requests : Accepted(x)}
  BY <1>1 DEF StagesKnown, Stage, Stages
<1>6. Behind' = [Behind EXCEPT ![r] = {x \in Requests : Accepted(x)}]
  BY <1>2 DEF Defers, Behind
<1>7. QED
  BY <1>4, <1>5, <1>6 DEF Promise!Defer, Defers, Stages, Behind

(* The pool keeps its promise (RequestPool), for any number of workers,     *)
(* requests and barriers: through queues, spawned threads and promotions a  *)
(* request is taken once, starts once and in turn, and is executed once.    *)
THEOREM PoolImplementsPromise ==
    ASSUME StopPolicy # "any" PROVE Spec => Implements
<1>1. Init => Promise!Init
  <2> SUFFICES ASSUME Init PROVE Promise!Init
    OBVIOUS
  <2>1. StagesKnown
    BY InitOrder, AllStages
  <2>2. flagged = {} /\ \A r \in Requests : Stage(r) = "new"
    BY DEF Init, Stage, Running, Accepted
  <2>3. Stages = [r \in Requests |-> "new"] /\ Behind = [r \in Requests |-> {}]
    BY <2>1, <2>2 DEF StagesKnown, Stages, Behind
  <2>4. QED
    BY <2>2, <2>3 DEF Promise!Init, Stages, Behind
<1>2. OInv /\ [Next]_vars => OInv' /\ [Promise!Next]_Promise!vars
  <2> SUFFICES ASSUME OInv, [Next]_vars PROVE OInv' /\ [Promise!Next]_Promise!vars
    OBVIOUS
  <2>1. OInv' /\ Move /\ Ways
    BY StepOrder
  <2>2. CASE Flags
    BY <2>1, <2>2, MovePromised
  <2>3. ASSUME NEW r \in Requests, Defers(r) PROVE Promise!Next
    BY <2>1, <2>3, DeferPromised DEF Promise!Next
  <2>4. QED
    BY <2>1, <2>2, <2>3 DEF Ways, Calm, Joins
<1>3. QED
  BY InitOrder, <1>1, <1>2, PTL DEF Spec, Implements, Promise!Spec

-----------------------------------------------------------------------------
(* thp_run_thds counts threads, whenever thp_stop is called.                *)

DormantThreadless ==
    \A w \in Workers : wrk_list[w] = "dorman" => wpc[w] = "none"

Alive == {w \in Workers : wpc[w] # "none"}

Creating == {r \in Requests : cpc[r] = "spawn_create"}

(* What a step does to threads: nothing, a caller counts the thread it will *)
(* create, creates it or fails to, or a worker's thread ends.               *)
SameThreads ==
    \A w \in Workers : wpc'[w] = "none" <=> wpc[w] = "none"

SameCreating ==
    \A r \in Requests : cpc'[r] = "spawn_create" <=> cpc[r] = "spawn_create"

OtherCreating(r) ==
    \A x \in Requests \ {r} : cpc'[x] = "spawn_create" <=> cpc[x] = "spawn_create"

NoThread == SameThreads /\ SameCreating /\ thp_run_thds' = thp_run_thds

CountsThread(r) ==
    /\ SameThreads /\ OtherCreating(r) /\ r \notin Creating /\ r \in Creating'
    /\ thp_run_thds' = thp_run_thds + 1

CreatesThread(r, w) ==
    /\ \A v \in Workers \ {w} : wpc'[v] = "none" <=> wpc[v] = "none"
    /\ w \notin Alive /\ w \in Alive'
    /\ OtherCreating(r) /\ r \in Creating /\ r \notin Creating'
    /\ thp_run_thds' = thp_run_thds

FailsThread(r) ==
    /\ SameThreads /\ OtherCreating(r) /\ r \in Creating /\ r \notin Creating'
    /\ thp_run_thds' = thp_run_thds - 1

EndsThread(w) ==
    /\ \A v \in Workers \ {w} : wpc'[v] = "none" <=> wpc[v] = "none"
    /\ w \in Alive /\ w \notin Alive'
    /\ SameCreating
    /\ thp_run_thds' = thp_run_thds - 1

ThreadMove ==
    \/ NoThread
    \/ \E r \in Requests : CountsThread(r) \/ FailsThread(r)
    \/ \E r \in Requests : \E w \in Workers : CreatesThread(r, w)
    \/ \E w \in Workers : EndsThread(w)

Spawns == SpawnTargets /\ DormantThreadless

LEMMA StepThreads ==
    ASSUME TInv, Spawns, [Next]_vars
    PROVE  Spawns' /\ ThreadMove
<1> USE PoolAssumption
    DEF TInv, TypeOK, WorkerType, CallerType, WorkerPCs, CallerPCs, SpawnPCs, Spawns,
        SpawnTargets, DormantThreadless, poolVars, wrkVars, callVars,
        SameThreads, SameCreating, OtherCreating
<1>1. ASSUME NEW r \in Requests, schedule_barrier(r)
      PROVE  Spawns' /\ ThreadMove
  <2>1. Spawns'
    BY <1>1 DEF schedule_barrier, MayCall
  <2>2. NoThread
    BY <1>1 DEF schedule_barrier, MayCall, NoThread
  <2>3. QED
    BY <2>1, <2>2 DEF ThreadMove
<1>2. ASSUME NEW r \in Requests, schedule_deferred(r)
      PROVE  Spawns' /\ ThreadMove
  <2>1. Spawns'
    BY <1>2 DEF schedule_deferred, Entered, MayCall
  <2>2. NoThread
    BY <1>2 DEF schedule_deferred, Entered, MayCall, NoThread
  <2>3. QED
    BY <2>1, <2>2 DEF ThreadMove
<1>3. ASSUME NEW r \in Requests, NEW q \in QueueNos, schedule_parked(r, q)
      PROVE  Spawns' /\ ThreadMove
  <2>1. Spawns'
    BY <1>3 DEF schedule_parked, Admit, Goto, Entered, MayCall
  <2>2. NoThread
    BY <1>3 DEF schedule_parked, Admit, Goto, Entered, MayCall, NoThread
  <2>3. QED
    BY <2>1, <2>2 DEF ThreadMove
<1>4. ASSUME NEW r \in Requests, NEW q \in QueueNos, NEW w \in Workers,
             schedule_direct(r, q, w)
      PROVE  Spawns' /\ ThreadMove
  <2>1. Spawns'
    BY <1>4 DEF schedule_direct, Admit, Goto, Entered, MayCall, Listed,
          thp_swap_queue, worker_update_state
  <2>2. NoThread
    BY <1>4 DEF schedule_direct, Admit, Goto, Entered, MayCall, Listed,
          thp_swap_queue, worker_update_state, NoThread
  <2>3. QED
    BY <2>1, <2>2 DEF ThreadMove
<1>5. ASSUME NEW r \in Requests, NEW q \in QueueNos, NEW w \in Workers, NEW v
             \in Workers, schedule_round_robin(r, q, w, v)
      PROVE  Spawns' /\ ThreadMove
  <2>1. Spawns'
    BY <1>5 DEF schedule_round_robin, Admit, Goto, Entered, MayCall, Listed,
          worker_update_state
  <2>2. NoThread
    BY <1>5 DEF schedule_round_robin, Admit, Goto, Entered, MayCall, Listed,
          worker_update_state, NoThread
  <2>3. QED
    BY <2>1, <2>2 DEF ThreadMove
<1>6. ASSUME NEW r \in Requests, NEW q \in QueueNos, NEW w \in Workers,
             schedule_idle(r, q, w)
      PROVE  Spawns' /\ ThreadMove
  <2>1. Spawns'
    BY <1>6 DEF schedule_idle, Admit, Goto, Entered, MayCall, Listed
  <2>2. NoThread
    BY <1>6 DEF schedule_idle, Admit, Goto, Entered, MayCall, Listed, NoThread
  <2>3. QED
    BY <2>1, <2>2 DEF ThreadMove
<1>7. ASSUME NEW r \in Requests, NEW q \in QueueNos, schedule_common(r, q)
      PROVE  Spawns' /\ ThreadMove
  <2>1. Spawns'
    <3>1. /\ cpc[r] \in {"init", "schedule"} /\ wpc' = wpc
          /\ cpc \in [Requests -> CallerPCs] /\ target \in [Requests -> Workers \cup {None}]
          /\ wrk_list \in [Workers -> WorkerLists]
      BY <1>7 DEF schedule_common, Admit, Entered
    <3>2. CASE wrk_list' = wrk_list /\ Goto(r, "done", None)
      BY <3>1, <3>2 DEF Goto
    <3>3. ASSUME NEW w \in Listed("dorman"),
                 wrk_list' = [wrk_list EXCEPT ![w] = "none"] /\ Goto(r, "spawn", w)
          PROVE  Spawns'
      <4>1. w \in Workers /\ wpc[w] = "none" /\ wrk_list[w] = "dorman"
        BY <3>3 DEF Listed
      <4>2. /\ cpc' = [cpc EXCEPT ![r] = "spawn"] /\ target' = [target EXCEPT ![r] = w]
            /\ wrk_list' = [wrk_list EXCEPT ![w] = "none"]
        BY <3>3 DEF Goto
      <4>3. \A x \in Requests \ {r} : cpc'[x] \in SpawnPCs =>
               /\ cpc[x] \in SpawnPCs /\ target'[x] = target[x] /\ target[x] \in Workers
               /\ target[x] # w
        BY <3>1, <4>1, <4>2
      <4>4. QED
        BY <3>1, <4>1, <4>2, <4>3
    <3>4. QED
      BY <1>7, <3>2, <3>3 DEF schedule_common
  <2>2. NoThread
    BY <1>7 DEF schedule_common, Admit, Goto, Entered, MayCall, Listed, NoThread
  <2>3. QED
    BY <2>1, <2>2 DEF ThreadMove
<1>8. ASSUME NEW r \in Requests, NEW q \in QueueNos, schedule_inline(r, q)
      PROVE  Spawns' /\ ThreadMove
  <2>1. Spawns'
    BY <1>8 DEF schedule_inline, Admit, Goto, Entered, MayCall
  <2>2. NoThread
    BY <1>8 DEF schedule_inline, Admit, Goto, Entered, MayCall, NoThread
  <2>3. QED
    BY <2>1, <2>2 DEF ThreadMove
<1>9. ASSUME NEW r \in Requests, worker_enqueue(r)
      PROVE  Spawns' /\ ThreadMove
  <2>1. Spawns'
    BY <1>9 DEF worker_enqueue, Signal
  <2>2. NoThread
    BY <1>9 DEF worker_enqueue, Signal, NoThread
  <2>3. QED
    BY <2>1, <2>2 DEF ThreadMove
<1>10. ASSUME NEW r \in Requests, exec_inline(r)
      PROVE  Spawns' /\ ThreadMove
  <2>1. Spawns'
    BY <1>10 DEF exec_inline
  <2>2. NoThread
    BY <1>10 DEF exec_inline, NoThread
  <2>3. QED
    BY <2>1, <2>2 DEF ThreadMove
<1>11. ASSUME NEW r \in Requests, spawn_check(r)
      PROVE  Spawns' /\ ThreadMove
  <2>1. Spawns'
    BY <1>11 DEF spawn_check, SpawnStep, MaySpawn
  <2>2. NoThread
    BY <1>11 DEF spawn_check, SpawnStep, MaySpawn, NoThread
  <2>3. QED
    BY <2>1, <2>2 DEF ThreadMove
<1>12. ASSUME NEW r \in Requests, spawn_state(r)
      PROVE  Spawns' /\ ThreadMove
  <2>1. Spawns'
    BY <1>12 DEF spawn_state, SpawnStep
  <2>2. NoThread
    BY <1>12 DEF spawn_state, SpawnStep, NoThread
  <2>3. QED
    BY <2>1, <2>2 DEF ThreadMove
<1>13. ASSUME NEW r \in Requests, spawn_count(r)
      PROVE  Spawns' /\ ThreadMove
  <2>1. Spawns'
    BY <1>13 DEF spawn_count, SpawnStep
  <2>2. CountsThread(r)
    BY <1>13 DEF spawn_count, SpawnStep, CountsThread, Creating
  <2>3. QED
    BY <2>1, <2>2 DEF ThreadMove
<1>14. ASSUME NEW r \in Requests, spawn_create(r)
      PROVE  Spawns' /\ ThreadMove
  <2>1. Spawns'
    BY <1>14 DEF spawn_create, SpawnStep
  <2>2. CreatesThread(r, target[r])
    BY <1>14 DEF spawn_create, SpawnStep, CreatesThread, Creating, Alive
  <2>3. target[r] \in Workers
    BY <1>14 DEF spawn_create, SpawnStep
  <2>4. QED
    BY <2>1, <2>2, <2>3 DEF ThreadMove
<1>15. ASSUME NEW r \in Requests, spawn_fail(r)
      PROVE  Spawns' /\ ThreadMove
  <2>1. Spawns'
    BY <1>15 DEF spawn_fail, SpawnFails, SpawnStep
  <2>2. FailsThread(r)
    BY <1>15 DEF spawn_fail, SpawnFails, SpawnStep, FailsThread, Creating
  <2>3. QED
    BY <2>1, <2>2 DEF ThreadMove
<1>16. ASSUME NEW r \in Requests, spawn_undo(r)
      PROVE  Spawns' /\ ThreadMove
  <2>1. Spawns'
    BY <1>16 DEF spawn_undo, SpawnStep, thp_swap_queue, worker_update_state
  <2>2. NoThread
    BY <1>16 DEF spawn_undo, SpawnStep, thp_swap_queue, worker_update_state, NoThread
  <2>3. QED
    BY <2>1, <2>2 DEF ThreadMove
<1>17. ASSUME NEW w \in Workers, worker_start(w)
      PROVE  Spawns' /\ ThreadMove
  <2>1. Spawns'
    BY <1>17 DEF worker_start, WorkerStep, thp_swap_queue, worker_update_state
  <2>2. NoThread
    BY <1>17 DEF worker_start, WorkerStep, thp_swap_queue, worker_update_state,
          NoThread
  <2>3. QED
    BY <2>1, <2>2 DEF ThreadMove
<1>18. ASSUME NEW w \in Workers, worker_check(w)
      PROVE  Spawns' /\ ThreadMove
  <2>1. Spawns'
    BY <1>18 DEF worker_check, WorkerStep, wrk_can_terminate
  <2>2. NoThread
    BY <1>18 DEF worker_check, WorkerStep, wrk_can_terminate, NoThread
  <2>3. QED
    BY <2>1, <2>2 DEF ThreadMove
<1>19. ASSUME NEW w \in Workers, worker_pop(w)
      PROVE  Spawns' /\ ThreadMove
  <2>1. Spawns'
    BY <1>19 DEF worker_pop, WorkerStep
  <2>2. NoThread
    BY <1>19 DEF worker_pop, WorkerStep, NoThread
  <2>3. QED
    BY <2>1, <2>2 DEF ThreadMove
<1>20. ASSUME NEW w \in Workers, NEW q \in CommonQueues, get_common(w, q)
      PROVE  Spawns' /\ ThreadMove
  <2>1. Spawns'
    BY <1>20 DEF get_common, WorkerStep, thp_swap_queue, worker_update_state,
          CommonQueues
  <2>2. NoThread
    BY <1>20 DEF get_common, WorkerStep, thp_swap_queue, worker_update_state,
          CommonQueues, NoThread
  <2>3. QED
    BY <2>1, <2>2 DEF ThreadMove
<1>21. ASSUME NEW w \in Workers, put_idle(w)
      PROVE  Spawns' /\ ThreadMove
  <2>1. Spawns'
    BY <1>21 DEF put_idle, WorkerStep, thp_swap_queue, worker_update_state
  <2>2. NoThread
    BY <1>21 DEF put_idle, WorkerStep, thp_swap_queue, worker_update_state, NoThread
  <2>3. QED
    BY <2>1, <2>2 DEF ThreadMove
<1>22. ASSUME NEW w \in Workers, get_barrier(w)
      PROVE  Spawns' /\ ThreadMove
  <2>1. PICK k \in 0..Len(Tail(m_queue["barrier"])), S \in SUBSET Listed("idle") :
           Promoted(w, k, S)
    BY <1>22, BarrierPromotes
  <2>2. Spawns'
    BY <1>22, <2>1 DEF get_barrier, Promoted, Listed
  <2>3. NoThread
    BY <1>22, <2>1 DEF get_barrier, Promoted, NoThread
  <2>4. QED
    BY <2>2, <2>3 DEF ThreadMove
<1>23. ASSUME NEW w \in Workers, worker_recheck(w)
      PROVE  Spawns' /\ ThreadMove
  <2>1. Spawns'
    BY <1>23 DEF worker_recheck, WorkerStep, wrk_can_terminate
  <2>2. NoThread
    BY <1>23 DEF worker_recheck, WorkerStep, wrk_can_terminate, NoThread
  <2>3. QED
    BY <2>1, <2>2 DEF ThreadMove
<1>24. ASSUME NEW w \in Workers, worker_verify(w)
      PROVE  Spawns' /\ ThreadMove
  <2>1. Spawns'
    BY <1>24 DEF worker_verify, WorkerStep
  <2>2. NoThread
    BY <1>24 DEF worker_verify, WorkerStep, NoThread
  <2>3. QED
    BY <2>1, <2>2 DEF ThreadMove
<1>25. ASSUME NEW w \in Workers, worker_wait(w)
      PROVE  Spawns' /\ ThreadMove
  <2>1. Spawns'
    BY <1>25 DEF worker_wait, WorkerStep
  <2>2. NoThread
    BY <1>25 DEF worker_wait, WorkerStep, NoThread
  <2>3. QED
    BY <2>1, <2>2 DEF ThreadMove
<1>26. ASSUME NEW w \in Workers, spurious_wakeup(w)
      PROVE  Spawns' /\ ThreadMove
  <2>1. Spawns'
    BY <1>26 DEF spurious_wakeup, WorkerStep
  <2>2. NoThread
    BY <1>26 DEF spurious_wakeup, WorkerStep, NoThread
  <2>3. QED
    BY <2>1, <2>2 DEF ThreadMove
<1>27. ASSUME NEW w \in Workers, worker_exec(w)
      PROVE  Spawns' /\ ThreadMove
  <2>1. Spawns'
    BY <1>27 DEF worker_exec, WorkerStep
  <2>2. NoThread
    BY <1>27 DEF worker_exec, WorkerStep, NoThread
  <2>3. QED
    BY <2>1, <2>2 DEF ThreadMove
<1>28. ASSUME NEW w \in Workers, worker_finish(w)
      PROVE  Spawns' /\ ThreadMove
  <2>1. Spawns'
    BY <1>28 DEF worker_finish, FinishWith, WorkerStep
  <2>2. NoThread
    BY <1>28 DEF worker_finish, FinishWith, WorkerStep, NoThread
  <2>3. QED
    BY <2>1, <2>2 DEF ThreadMove
<1>29. ASSUME NEW w \in Workers, thp_thread_terminate(w)
      PROVE  Spawns' /\ ThreadMove
  <2>1. Spawns'
    BY <1>29 DEF thp_thread_terminate, thp_swap_queue, worker_update_state
  <2>2. EndsThread(w)
    BY <1>29 DEF thp_thread_terminate, thp_swap_queue, worker_update_state,
          EndsThread, Creating, Alive
  <2>3. QED
    BY <2>1, <2>2 DEF ThreadMove
<1>30. ASSUME thp_stop
      PROVE  Spawns' /\ ThreadMove
  <2>1. Spawns'
    BY <1>30 DEF thp_stop, Signal, StopTest
  <2>2. NoThread
    BY <1>30 DEF thp_stop, Signal, StopTest, NoThread
  <2>3. QED
    BY <2>1, <2>2 DEF ThreadMove
<1>31. ASSUME thp_stop_woken
      PROVE  Spawns' /\ ThreadMove
  <2>1. Spawns'
    BY <1>31 DEF thp_stop_woken, StopTest
  <2>2. NoThread
    BY <1>31 DEF thp_stop_woken, StopTest, NoThread
  <2>3. QED
    BY <2>1, <2>2 DEF ThreadMove
<1>32. ASSUME UNCHANGED vars PROVE Spawns' /\ ThreadMove
  BY <1>32 DEF vars, ThreadMove, NoThread
<1>33. Spawns' /\ ThreadMove
  <2> HIDE DEF Spawns, TInv
  <2>1. ASSUME NEW r \in Requests, Schedule(r) PROVE Spawns' /\ ThreadMove
    BY <2>1, <1>2, <1>3, <1>4, <1>5, <1>6, <1>7, <1>8 DEF Schedule
  <2>2. ASSUME NEW r \in Requests, CallerStep(r) PROVE Spawns' /\ ThreadMove
    BY <2>2, <1>9, <1>10, <1>11, <1>12, <1>13, <1>14, <1>15, <1>16
          DEF CallerStep
  <2>3. ASSUME NEW w \in Workers, WorkerThread(w) PROVE Spawns' /\ ThreadMove
    BY <2>3, <1>17, <1>18, <1>19, <1>20, <1>21, <1>22, <1>23, <1>24, <1>25,
          <1>27, <1>28, <1>29 DEF WorkerThread
  <2>4. QED
    BY <2>1, <2>2, <2>3, <1>1, <1>26, <1>30, <1>31, <1>32 DEF Next
<1>34. QED
  BY <1>33

ThreadsInv == TInv /\ Spawns /\ IsFiniteSet(Creating) /\ ThreadsCounted

LEMMA InitThreads == Init => ThreadsInv
<1> SUFFICES ASSUME Init PROVE ThreadsInv
  OBVIOUS
<1>1. TInv /\ Spawns
  BY InitType DEF Init, Spawns, SpawnTargets, DormantThreadless, SpawnPCs
<1>2. Creating = {}
  BY DEF Init, Creating
<1>3. ThreadsCounted
  <2>1. PICK up \in SUBSET InitWorkers :
           /\ thp_run_thds = Cardinality(up)
           /\ wpc = [w \in Workers |-> IF w \in up THEN "start" ELSE "none"]
    BY DEF Init
  <2>2. Alive = up
    BY <2>1, PoolAssumption DEF Alive
  <2>3. Cardinality(up) \in Nat /\ Cardinality({}) = 0
    BY FS_Subset, FS_CardinalityType, FS_EmptySet, PoolAssumption
  <2>4. QED
    BY <1>2, <2>1, <2>2, <2>3 DEF ThreadsCounted, Alive, Creating
<1>4. QED
  BY <1>1, <1>2, <1>3, FS_EmptySet DEF ThreadsInv

LEMMA StepThreadsInv ==
    ASSUME ThreadsInv, [Next]_vars
    PROVE  ThreadsInv'
<1>1. TInv' /\ Spawns' /\ ThreadMove
  BY StepType, StepThreads DEF ThreadsInv
<1>2. /\ IsFiniteSet(Alive) /\ IsFiniteSet(Alive') /\ IsFiniteSet(Creating)
      /\ thp_run_thds = Cardinality(Alive) + Cardinality(Creating)
      /\ Cardinality(Alive) \in Nat /\ Cardinality(Creating) \in Nat
  <2>1. Alive \subseteq Workers /\ Alive' \subseteq Workers
    BY DEF Alive
  <2>2. IsFiniteSet(Alive) /\ IsFiniteSet(Alive')
    BY <2>1, FS_Subset, PoolAssumption
  <2>3. QED
    BY <2>2, FS_CardinalityType DEF ThreadsInv, ThreadsCounted, Alive, Creating
<1>3. SUFFICES /\ IsFiniteSet(Creating')
               /\ thp_run_thds' = Cardinality(Alive') + Cardinality(Creating')
  BY <1>1 DEF ThreadsInv, ThreadsCounted, Alive, Creating
<1>4. SameThreads => Alive' = Alive
  BY DEF SameThreads, Alive
<1>5. SameCreating => Creating' = Creating
  BY DEF SameCreating, Creating
<1>6. CASE NoThread
  BY <1>2, <1>4, <1>5, <1>6 DEF NoThread
<1>7. ASSUME NEW r \in Requests, CountsThread(r) PROVE <1>3!1
  <2>1. Creating' = Creating \cup {r} /\ r \notin Creating
    BY <1>7 DEF CountsThread, OtherCreating, Creating
  <2>2. IsFiniteSet(Creating') /\ Cardinality(Creating') = Cardinality(Creating) + 1
    BY <1>2, <2>1, FS_AddElement
  <2>3. QED
    BY <1>2, <1>4, <1>7, <2>2 DEF CountsThread
<1>8. ASSUME NEW r \in Requests, FailsThread(r) PROVE <1>3!1
  <2>1. Creating' = Creating \ {r} /\ r \in Creating
    BY <1>8 DEF FailsThread, OtherCreating, Creating
  <2>2. IsFiniteSet(Creating') /\ Cardinality(Creating') = Cardinality(Creating) - 1
    BY <1>2, <2>1, FS_RemoveElement
  <2>3. QED
    BY <1>2, <1>4, <1>8, <2>2 DEF FailsThread
<1>9. ASSUME NEW r \in Requests, NEW w \in Workers, CreatesThread(r, w)
      PROVE  <1>3!1
  <2>1. Creating' = Creating \ {r} /\ r \in Creating
    BY <1>9 DEF CreatesThread, OtherCreating, Creating
  <2>2. Alive' = Alive \cup {w} /\ w \notin Alive
    BY <1>9 DEF CreatesThread, Alive
  <2>3. IsFiniteSet(Creating') /\ Cardinality(Creating') = Cardinality(Creating) - 1
    BY <1>2, <2>1, FS_RemoveElement
  <2>4. Cardinality(Alive') = Cardinality(Alive) + 1
    BY <1>2, <2>2, FS_AddElement
  <2>5. QED
    BY <1>2, <1>9, <2>3, <2>4 DEF CreatesThread
<1>10. ASSUME NEW w \in Workers, EndsThread(w) PROVE <1>3!1
  <2>1. Alive' = Alive \ {w} /\ w \in Alive
    BY <1>10 DEF EndsThread, Alive
  <2>2. Cardinality(Alive') = Cardinality(Alive) - 1
    BY <1>2, <2>1, FS_RemoveElement
  <2>3. QED
    BY <1>2, <1>5, <1>10, <2>2 DEF EndsThread
<1>11. QED
  BY <1>1, <1>6, <1>7, <1>8, <1>9, <1>10 DEF ThreadMove

(* thp_run_thds, which thp_stop waits on, counts the threads that run and   *)
(* those a caller is about to create (request.cpp, lines 323-327, 343-361   *)
(* and 629-638), for any number of workers, also when pthread_create fails  *)
(* and when thp_stop is called in the middle of schedule.                   *)
THEOREM ThreadsAreCounted == Spec => []ThreadsCounted
<1>1. ThreadsInv => ThreadsCounted
  BY DEF ThreadsInv
<1>2. QED
  BY InitThreads, StepThreadsInv, <1>1, PTL DEF Spec

-----------------------------------------------------------------------------
(* No accepted request is dropped, whenever thp_stop is called.             *)

Holding(r) == cpc[r] \in {"enqueue", "inline"}

Stored(r) ==
    \/ executed[r] > 0
    \/ \E q \in ReqQueues : r \in Pooled[q]
    \/ \E w \in Workers : r \in Own[w]
    \/ Running(r)

NotLost ==
    \A r \in Requests :
        Accepted(r) => Stored(r) \/ Holding(r) \/ cpc[r] = "abort"

(* No step takes away the last place of a request, and a caller lets go of  *)
(* one only when it has a place.                                            *)
StoresKept == \A r \in Requests : Stored(r) => Stored(r)'

CallersKept ==
    \A r \in Requests :
        Accepted(r)' => \/ Stored(r)' \/ Holding(r)' \/ cpc'[r] = "abort"
                        \/ Accepted(r) /\ ~Holding(r) /\ cpc[r] # "abort"

RunsOn == \A w \in Workers : wpc[w] = "exec" => wpc'[w] = "exec" /\ cur'[w] = cur[w]

LEMMA UnmovedKept ==
    ASSUME UNCHANGED <<m_queue, wrk_queue, executed>>, RunsOn
    PROVE  StoresKept
BY DEF StoresKept, Stored, RunsOn, Running, Pooled, Own

LEMMA EnqueueStores ==
    ASSUME TypeOK, NEW r \in Requests, NEW q \in ReqQueues, m_queue' = Enqueue(q, r),
           UNCHANGED <<wrk_queue, executed>>, RunsOn
    PROVE  StoresKept /\ Stored(r)'
<1>1. /\ m_queue \in [ReqQueues -> Seq(Requests)]
      /\ m_queue' = [m_queue EXCEPT ![q] = Append(m_queue[q], r)]
  BY DEF TypeOK, RequestType, Enqueue
<1>2. Elems(Append(m_queue[q], r)) = Elems(m_queue[q]) \cup {r}
  BY <1>1, AppendElems
<1>3. Pooled' = [Pooled EXCEPT ![q] = @ \cup {r}] /\ Own' = Own
  BY <1>1, <1>2 DEF Pooled, Own
<1>4. Pooled \in [ReqQueues -> SUBSET Requests]
  BY TypedFromType DEF Typed
<1>5. \A x \in Requests : Running(x) => Running(x)'
  BY DEF RunsOn, Running
<1>6. \A x \in Requests, p \in ReqQueues : x \in Pooled[p] => x \in Pooled'[p]
  BY <1>3, <1>4
<1>7. QED
  BY <1>3, <1>4, <1>5, <1>6 DEF StoresKept, Stored

LEMMA TailKeeps ==
    ASSUME NEW s \in Seq(Requests), s # <<>>
    PROVE  \A x \in Elems(s) : x = Head(s) \/ x \in Elems(Tail(s))
<1>1. /\ Len(s) \in Nat \ {0} /\ DOMAIN s = 1..Len(s)
      /\ DOMAIN Tail(s) = 1..(Len(s) - 1)
      /\ \A i \in 1..(Len(s) - 1) : Tail(s)[i] = s[i + 1]
      /\ Head(s) = s[1]
  OBVIOUS
<1> DEFINE t == Tail(s)
<1>2. ASSUME NEW i \in DOMAIN s, i # 1 PROVE i - 1 \in DOMAIN t /\ t[i - 1] = s[i]
  <2>1. i - 1 \in 1..(Len(s) - 1) /\ (i - 1) + 1 = i
    BY <1>1, <1>2
  <2>2. QED
    BY <1>1, <2>1
<1> HIDE DEF t
<1>3. ASSUME NEW i \in DOMAIN s PROVE s[i] = Head(s) \/ s[i] \in Elems(t)
  BY <1>1, <1>2, <1>3 DEF Elems
<1>4. QED
  BY <1>3 DEF Elems, t

LEMMA PromotionKeeps ==
    ASSUME NEW s \in Seq(Requests), s # <<>>, NEW k \in 0..Len(Tail(s))
    PROVE  \A x \in Elems(s) :
              \/ x = Head(s)
              \/ x \in Elems(SubSeq(Tail(s), 1, k))
              \/ x \in Elems(SubSeq(Tail(s), k + 1, Len(Tail(s))))
<1> DEFINE front == SubSeq(Tail(s), 1, k)
           back == SubSeq(Tail(s), k + 1, Len(Tail(s)))
           n == Len(s) - 1 - k
<1>1. /\ DOMAIN front = 1..k /\ \A i \in 1..k : front[i] = s[i + 1]
      /\ DOMAIN back = 1..n /\ \A i \in 1..n : back[i] = s[i + k + 1]
  BY FrontBackItems
<1>2. /\ Len(s) \in Nat \ {0} /\ DOMAIN s = 1..Len(s) /\ Head(s) = s[1]
      /\ k \in Nat /\ k <= Len(s) - 1 /\ n \in Nat /\ Len(s) = n + k + 1
  OBVIOUS
<1> HIDE DEF front, back, n
<1>3. ASSUME NEW i \in DOMAIN s
      PROVE  \/ i = 1
             \/ i - 1 \in 1..k /\ (i - 1) + 1 = i
             \/ i - k - 1 \in 1..n /\ (i - k - 1) + k + 1 = i
  BY <1>2
<1>4. ASSUME NEW i \in DOMAIN s
      PROVE  \/ s[i] = Head(s) \/ s[i] \in Elems(front) \/ s[i] \in Elems(back)
  <2>1. CASE i = 1
    BY <1>2, <2>1
  <2>2. CASE i - 1 \in 1..k /\ (i - 1) + 1 = i
    <3>1. front[i - 1] = s[i]
      BY <1>1, <2>2
    <3>2. QED
      BY <1>1, <2>2, <3>1 DEF Elems
  <2>3. CASE i - k - 1 \in 1..n /\ (i - k - 1) + k + 1 = i
    <3>1. back[i - k - 1] = s[i]
      BY <1>1, <2>3
    <3>2. QED
      BY <1>1, <2>3, <3>1 DEF Elems
  <2>4. QED
    BY <1>3, <2>1, <2>2, <2>3
<1>5. QED
  BY <1>4 DEF Elems, front, back

(* A worker takes the first of a queue: the rest stays.                     *)
LEMMA TakeStores ==
    ASSUME TypeOK, NEW w \in Workers, wpc[w] = "pop", wpc'[w] = "exec",
           \A v \in Workers \ {w} : wpc[v] = "exec" => wpc'[v] = "exec",
           NEW x, cur' = [cur EXCEPT ![w] = x], executed' = executed,
           \A y \in Requests, q \in ReqQueues :
              y \in Pooled[q] => y = x \/ \E p \in ReqQueues : y \in Pooled'[p],
           \A y \in Requests, v \in Workers : y \in Own[v] => y = x \/ y \in Own'[v]
    PROVE  StoresKept
<1>1. Running(x)'
  BY DEF Running, TypeOK, WorkerType
<1>2. \A y \in Requests : Running(y) => Running(y)'
  BY DEF Running, TypeOK, WorkerType
<1>3. QED
  BY <1>1, <1>2 DEF StoresKept, Stored

LEMMA CountUp ==
    ASSUME NEW f \in [Requests -> Nat], NEW r \in Requests,
           NEW g, g = f \/ g = [f EXCEPT ![r] = @ + 1]
    PROVE  \A x \in Requests : f[x] > 0 => g[x] > 0
OBVIOUS

LEMMA StepStores ==
    ASSUME TInv, Spawns, [Next]_vars
    PROVE  StoresKept /\ CallersKept
<1> USE PoolAssumption
    DEF TInv, TypeOK, WorkerType, CallerType, WorkerPCs, CallerPCs, SpawnPCs,
        poolVars, reqVars, wrkVars, callVars, Spawns, SpawnTargets
<1>1. ASSUME NEW r \in Requests, schedule_barrier(r)
      PROVE  StoresKept /\ CallersKept
  <2>1. CASE thp_sched_req >= 1
    <3>1. "barrier" \in ReqQueues /\ m_queue' = Enqueue("barrier", r)
      BY <1>1, <2>1, QueueNames DEF schedule_barrier
    <3>2. UNCHANGED <<wrk_queue, executed>> /\ RunsOn
      BY <1>1 DEF schedule_barrier, RunsOn
    <3>3. StoresKept /\ Stored(r)'
      BY <3>1, <3>2, EnqueueStores
    <3>4. \A x \in Requests \ {r} : cpc'[x] = cpc[x]
      BY <1>1 DEF schedule_barrier
    <3>5. QED
      BY <3>3, <3>4 DEF CallersKept, Accepted, Holding
  <2>2. CASE ~(thp_sched_req >= 1)
    <3>1. UNCHANGED <<m_queue, wrk_queue, executed>> /\ RunsOn
      BY <1>1, <2>2 DEF schedule_barrier, RunsOn
    <3>2. CallersKept
      BY <1>1, <2>2 DEF schedule_barrier, CallersKept, Accepted, Holding
    <3>3. QED
      BY <3>1, <3>2, UnmovedKept
  <2>3. QED
    BY <2>1, <2>2
<1>2. ASSUME NEW r \in Requests, schedule_deferred(r)
      PROVE  StoresKept /\ CallersKept
  <2>1. "barrier" \in ReqQueues /\ m_queue' = Enqueue("barrier", r)
    BY <1>2, QueueNames DEF schedule_deferred, Entered, MayCall
  <2>2. UNCHANGED <<wrk_queue, executed>> /\ RunsOn
    BY <1>2 DEF schedule_deferred, Entered, MayCall, RunsOn
  <2>3. StoresKept /\ Stored(r)'
    BY <2>1, <2>2, EnqueueStores
  <2>4. \A x \in Requests \ {r} : cpc'[x] = cpc[x]
    BY <1>2 DEF schedule_deferred, Entered, MayCall
  <2>5. QED
    BY <2>3, <2>4 DEF CallersKept, Accepted, Holding
<1>3. ASSUME NEW r \in Requests, NEW q \in QueueNos, schedule_parked(r, q)
      PROVE  StoresKept /\ CallersKept
  <2>1. q \in ReqQueues /\ m_queue' = Enqueue(q, r)
    BY <1>3, QueueNames DEF schedule_parked, Admit, Goto, Entered, MayCall, CommonQueues,
          ParkQueues, ReqQueues
  <2>2. UNCHANGED <<wrk_queue, executed>> /\ RunsOn
    BY <1>3 DEF schedule_parked, Admit, Goto, Entered, MayCall, CommonQueues,
          ParkQueues, ReqQueues, RunsOn
  <2>3. StoresKept /\ Stored(r)'
    BY <2>1, <2>2, EnqueueStores
  <2>4. \A x \in Requests \ {r} : cpc'[x] = cpc[x]
    BY <1>3 DEF schedule_parked, Admit, Goto, Entered, MayCall, CommonQueues,
          ParkQueues, ReqQueues
  <2>5. QED
    BY <2>3, <2>4 DEF CallersKept, Accepted, Holding
<1>4. ASSUME NEW r \in Requests, NEW q \in QueueNos, NEW w \in Workers,
             schedule_direct(r, q, w)
      PROVE  StoresKept /\ CallersKept
  <2>1. UNCHANGED <<m_queue, wrk_queue, executed>>
    BY <1>4 DEF schedule_direct, Admit, Goto, Entered, MayCall, Listed,
          thp_swap_queue, worker_update_state
  <2>2. RunsOn
    BY <1>4 DEF schedule_direct, Admit, Goto, Entered, MayCall, Listed,
          thp_swap_queue, worker_update_state, RunsOn
  <2>3. CallersKept
    BY <1>4 DEF schedule_direct, Admit, Goto, Entered, MayCall, Listed,
          thp_swap_queue, worker_update_state, CallersKept, Accepted, Holding
  <2>4. QED
    BY <2>1, <2>2, <2>3, UnmovedKept
<1>5. ASSUME NEW r \in Requests, NEW q \in QueueNos, NEW w \in Workers, NEW v
             \in Workers, schedule_round_robin(r, q, w, v)
      PROVE  StoresKept /\ CallersKept
  <2>1. UNCHANGED <<m_queue, wrk_queue, executed>>
    BY <1>5 DEF schedule_round_robin, Admit, Goto, Entered, MayCall, Listed,
          worker_update_state
  <2>2. RunsOn
    BY <1>5 DEF schedule_round_robin, Admit, Goto, Entered, MayCall, Listed,
          worker_update_state, RunsOn
  <2>3. CallersKept
    BY <1>5 DEF schedule_round_robin, Admit, Goto, Entered, MayCall, Listed,
          worker_update_state, CallersKept, Accepted, Holding
  <2>4. QED
    BY <2>1, <2>2, <2>3, UnmovedKept
<1>6. ASSUME NEW r \in Requests, NEW q \in QueueNos, NEW w \in Workers,
             schedule_idle(r, q, w)
      PROVE  StoresKept /\ CallersKept
  <2>1. UNCHANGED <<m_queue, wrk_queue, executed>>
    BY <1>6 DEF schedule_idle, Admit, Goto, Entered, MayCall, Listed
  <2>2. RunsOn
    BY <1>6 DEF schedule_idle, Admit, Goto, Entered, MayCall, Listed, RunsOn
  <2>3. CallersKept
    BY <1>6 DEF schedule_idle, Admit, Goto, Entered, MayCall, Listed, CallersKept,
          Accepted, Holding
  <2>4. QED
    BY <2>1, <2>2, <2>3, UnmovedKept
<1>7. ASSUME NEW r \in Requests, NEW q \in QueueNos, schedule_common(r, q)
      PROVE  StoresKept /\ CallersKept
  <2>1. q \in ReqQueues /\ m_queue' = Enqueue(q, r)
    BY <1>7, QueueNames DEF schedule_common, Admit, Goto, Entered, MayCall, Listed,
          CommonQueues, ParkQueues, ReqQueues
  <2>2. UNCHANGED <<wrk_queue, executed>> /\ RunsOn
    BY <1>7 DEF schedule_common, Admit, Goto, Entered, MayCall, Listed,
          CommonQueues, ParkQueues, ReqQueues, RunsOn
  <2>3. StoresKept /\ Stored(r)'
    BY <2>1, <2>2, EnqueueStores
  <2>4. \A x \in Requests \ {r} : cpc'[x] = cpc[x]
    BY <1>7 DEF schedule_common, Admit, Goto, Entered, MayCall, Listed,
          CommonQueues, ParkQueues, ReqQueues
  <2>5. QED
    BY <2>3, <2>4 DEF CallersKept, Accepted, Holding
<1>8. ASSUME NEW r \in Requests, NEW q \in QueueNos, schedule_inline(r, q)
      PROVE  StoresKept /\ CallersKept
  <2>1. UNCHANGED <<m_queue, wrk_queue, executed>>
    BY <1>8 DEF schedule_inline, Admit, Goto, Entered, MayCall
  <2>2. RunsOn
    BY <1>8 DEF schedule_inline, Admit, Goto, Entered, MayCall, RunsOn
  <2>3. CallersKept
    BY <1>8 DEF schedule_inline, Admit, Goto, Entered, MayCall, CallersKept,
          Accepted, Holding
  <2>4. QED
    BY <2>1, <2>2, <2>3, UnmovedKept
<1>9. ASSUME NEW r \in Requests, worker_enqueue(r)
      PROVE  StoresKept /\ CallersKept
  <2> DEFINE w == target[r]
  <2>1. CASE wrk_state[w] = "terminate"
    <3>1. UNCHANGED <<m_queue, wrk_queue, executed>> /\ RunsOn
      BY <1>9, <2>1 DEF worker_enqueue, RunsOn
    <3>2. CallersKept
      BY <1>9, <2>1 DEF worker_enqueue, CallersKept, Accepted, Holding
    <3>3. QED
      BY <3>1, <3>2, UnmovedKept
  <2>2. CASE wrk_state[w] # "terminate"
    <3>1. /\ wrk_queue' = [wrk_queue EXCEPT ![w] = Append(wrk_queue[w], r)]
          /\ cpc' = [cpc EXCEPT ![r] = "done"] /\ w \in Workers
          /\ UNCHANGED <<m_queue, cur, executed>>
      BY <1>9, <2>2 DEF worker_enqueue
    <3>2. RunsOn
      <4>1. Signal({w})
        BY <1>9, <2>2 DEF worker_enqueue
      <4> HIDE DEF w
      <4>2. QED
        BY <3>1, <4>1 DEF Signal, RunsOn
    <3> HIDE DEF w
    <3>3. Elems(Append(wrk_queue[w], r)) = Elems(wrk_queue[w]) \cup {r}
      BY <3>1, AppendElems
    <3>4. /\ r \in Own'[w] /\ Pooled' = Pooled
          /\ \A x \in Requests, v \in Workers : x \in Own[v] => x \in Own'[v]
      BY <3>1, <3>3 DEF Own, Pooled
    <3>5. StoresKept /\ Stored(r)'
      <4>1. \A x \in Requests : Running(x) => Running(x)'
        BY <3>2 DEF RunsOn, Running
      <4>2. QED
        BY <3>1, <3>4, <4>1 DEF StoresKept, Stored
    <3>6. QED
      BY <3>1, <3>5 DEF CallersKept, Accepted, Holding
  <2>3. QED
    BY <2>1, <2>2
<1>10. ASSUME NEW r \in Requests, exec_inline(r)
      PROVE  StoresKept /\ CallersKept
  <2>1. UNCHANGED <<m_queue, wrk_queue, wpc, cur>> /\ executed \in [Requests -> Nat]
    BY <1>10 DEF exec_inline, RequestType
  <2>2. \A x \in Requests : executed[x] > 0 => executed'[x] > 0
    <3>1. executed' = executed \/ executed' = [executed EXCEPT ![r] = @ + 1]
      BY <1>10 DEF exec_inline
    <3>2. QED
      BY <2>1, <3>1, CountUp
  <2>3. StoresKept
    BY <2>1, <2>2 DEF StoresKept, Stored, Running, Pooled, Own
  <2>4. \/ cpc' = [cpc EXCEPT ![r] = "abort"]
        \/ cpc' = [cpc EXCEPT ![r] = "done"] /\ executed'[r] > 0
    BY <1>10, <2>1 DEF exec_inline
  <2>5. QED
    BY <2>3, <2>4 DEF CallersKept, Accepted, Holding, Stored
<1>11. ASSUME NEW r \in Requests, spawn_check(r)
      PROVE  StoresKept /\ CallersKept
  <2>1. UNCHANGED <<m_queue, wrk_queue, executed>>
    BY <1>11 DEF spawn_check, SpawnStep, MaySpawn
  <2>2. RunsOn
    BY <1>11 DEF spawn_check, SpawnStep, MaySpawn, RunsOn
  <2>3. CallersKept
    BY <1>11 DEF spawn_check, SpawnStep, MaySpawn, CallersKept, Accepted, Holding
  <2>4. QED
    BY <2>1, <2>2, <2>3, UnmovedKept
<1>12. ASSUME NEW r \in Requests, spawn_state(r)
      PROVE  StoresKept /\ CallersKept
  <2>1. UNCHANGED <<m_queue, wrk_queue, executed>>
    BY <1>12 DEF spawn_state, SpawnStep
  <2>2. RunsOn
    BY <1>12 DEF spawn_state, SpawnStep, RunsOn
  <2>3. CallersKept
    BY <1>12 DEF spawn_state, SpawnStep, CallersKept, Accepted, Holding
  <2>4. QED
    BY <2>1, <2>2, <2>3, UnmovedKept
<1>13. ASSUME NEW r \in Requests, spawn_count(r)
      PROVE  StoresKept /\ CallersKept
  <2>1. UNCHANGED <<m_queue, wrk_queue, executed>>
    BY <1>13 DEF spawn_count, SpawnStep
  <2>2. RunsOn
    BY <1>13 DEF spawn_count, SpawnStep, RunsOn
  <2>3. CallersKept
    BY <1>13 DEF spawn_count, SpawnStep, CallersKept, Accepted, Holding
  <2>4. QED
    BY <2>1, <2>2, <2>3, UnmovedKept
<1>14. ASSUME NEW r \in Requests, spawn_create(r)
      PROVE  StoresKept /\ CallersKept
  <2>1. UNCHANGED <<m_queue, wrk_queue, executed>>
    BY <1>14 DEF spawn_create, SpawnStep
  <2>2. RunsOn
    BY <1>14 DEF spawn_create, SpawnStep, RunsOn
  <2>3. CallersKept
    BY <1>14 DEF spawn_create, SpawnStep, CallersKept, Accepted, Holding
  <2>4. QED
    BY <2>1, <2>2, <2>3, UnmovedKept
<1>15. ASSUME NEW r \in Requests, spawn_fail(r)
      PROVE  StoresKept /\ CallersKept
  <2>1. UNCHANGED <<m_queue, wrk_queue, executed>>
    BY <1>15 DEF spawn_fail, SpawnFails, SpawnStep
  <2>2. RunsOn
    BY <1>15 DEF spawn_fail, SpawnFails, SpawnStep, RunsOn
  <2>3. CallersKept
    BY <1>15 DEF spawn_fail, SpawnFails, SpawnStep, CallersKept, Accepted, Holding
  <2>4. QED
    BY <2>1, <2>2, <2>3, UnmovedKept
<1>16. ASSUME NEW r \in Requests, spawn_undo(r)
      PROVE  StoresKept /\ CallersKept
  <2>1. UNCHANGED <<m_queue, wrk_queue, executed>>
    BY <1>16 DEF spawn_undo, SpawnStep, thp_swap_queue, worker_update_state
  <2>2. RunsOn
    BY <1>16 DEF spawn_undo, SpawnStep, thp_swap_queue, worker_update_state, RunsOn
  <2>3. CallersKept
    BY <1>16 DEF spawn_undo, SpawnStep, thp_swap_queue, worker_update_state,
          CallersKept, Accepted, Holding
  <2>4. QED
    BY <2>1, <2>2, <2>3, UnmovedKept
<1>17. ASSUME NEW w \in Workers, worker_start(w)
      PROVE  StoresKept /\ CallersKept
  <2>1. UNCHANGED <<m_queue, wrk_queue, executed>>
    BY <1>17 DEF worker_start, WorkerStep, thp_swap_queue, worker_update_state
  <2>2. RunsOn
    BY <1>17 DEF worker_start, WorkerStep, thp_swap_queue, worker_update_state,
          RunsOn
  <2>3. CallersKept
    BY <1>17 DEF worker_start, WorkerStep, thp_swap_queue, worker_update_state,
          CallersKept, Accepted, Holding
  <2>4. QED
    BY <2>1, <2>2, <2>3, UnmovedKept
<1>18. ASSUME NEW w \in Workers, worker_check(w)
      PROVE  StoresKept /\ CallersKept
  <2>1. UNCHANGED <<m_queue, wrk_queue, executed>>
    BY <1>18 DEF worker_check, WorkerStep, wrk_can_terminate
  <2>2. RunsOn
    BY <1>18 DEF worker_check, WorkerStep, wrk_can_terminate, RunsOn
  <2>3. CallersKept
    BY <1>18 DEF worker_check, WorkerStep, wrk_can_terminate, CallersKept, Accepted,
          Holding
  <2>4. QED
    BY <2>1, <2>2, <2>3, UnmovedKept
<1>19. ASSUME NEW w \in Workers, worker_pop(w)
      PROVE  StoresKept /\ CallersKept
  <2> DEFINE x == Head(wrk_queue[w])
  <2>1. /\ wrk_queue' = [wrk_queue EXCEPT ![w] = Tail(wrk_queue[w])]
        /\ cur' = [cur EXCEPT ![w] = x]
        /\ wpc[w] = "pop" /\ wpc' = [wpc EXCEPT ![w] = "exec"]
        /\ UNCHANGED <<m_queue, cpc, executed>> /\ wrk_queue[w] # <<>>
    BY <1>19 DEF worker_pop, WorkerStep
  <2>2. \A y \in Elems(wrk_queue[w]) : y = x \/ y \in Elems(Tail(wrk_queue[w]))
    BY <2>1, TailKeeps
  <2> HIDE DEF x
  <2>3. \A y \in Requests, v \in Workers : y \in Own[v] => y = x \/ y \in Own'[v]
    BY <2>1, <2>2 DEF Own
  <2>4. Pooled' = Pooled
    BY <2>1 DEF Pooled
  <2>5. StoresKept
    BY <2>1, <2>3, <2>4, TakeStores
  <2>6. QED
    BY <2>1, <2>5 DEF CallersKept, Accepted, Holding
<1>20. ASSUME NEW w \in Workers, NEW q \in CommonQueues, get_common(w, q)
      PROVE  StoresKept /\ CallersKept
  <2> DEFINE x == Head(m_queue[q])
  <2>1. /\ m_queue' = [m_queue EXCEPT ![q] = Tail(m_queue[q])] /\ q \in ReqQueues
        /\ cur' = [cur EXCEPT ![w] = x]
        /\ wpc[w] = "pop" /\ wpc' = [wpc EXCEPT ![w] = "exec"]
        /\ UNCHANGED <<wrk_queue, cpc, executed>> /\ m_queue[q] # <<>>
    BY <1>20, QueueNames DEF get_common, WorkerStep, Dequeue
  <2>2. \A y \in Elems(m_queue[q]) : y = x \/ y \in Elems(Tail(m_queue[q]))
    BY <2>1, TailKeeps DEF RequestType
  <2> HIDE DEF x
  <2>3. \A y \in Requests, p \in ReqQueues :
           y \in Pooled[p] => y = x \/ y \in Pooled'[p]
    BY <2>1, <2>2 DEF Pooled, RequestType
  <2>4. Own' = Own
    BY <2>1 DEF Own
  <2>5. StoresKept
    BY <2>1, <2>3, <2>4, TakeStores
  <2>6. QED
    BY <2>1, <2>5 DEF CallersKept, Accepted, Holding
<1>21. ASSUME NEW w \in Workers, put_idle(w)
      PROVE  StoresKept /\ CallersKept
  <2>1. UNCHANGED <<m_queue, wrk_queue, executed>>
    BY <1>21 DEF put_idle, WorkerStep, thp_swap_queue, worker_update_state
  <2>2. RunsOn
    BY <1>21 DEF put_idle, WorkerStep, thp_swap_queue, worker_update_state, RunsOn
  <2>3. CallersKept
    BY <1>21 DEF put_idle, WorkerStep, thp_swap_queue, worker_update_state,
          CallersKept, Accepted, Holding
  <2>4. QED
    BY <2>1, <2>2, <2>3, UnmovedKept
<1>22. ASSUME NEW w \in Workers, get_barrier(w)
      PROVE  StoresKept /\ CallersKept
  <2> DEFINE bq == m_queue["barrier"]
             x == Head(bq)
  <2>1. bq \in Seq(Requests) /\ bq # <<>> /\ m_queue["fast"] \in Seq(Requests)
    BY <1>22, QueueNames DEF get_barrier, RequestType, BarrierCounted
  <2>2. PICK k \in 0..Len(Tail(bq)), S \in SUBSET Listed("idle") : Promoted(w, k, S)
    BY <1>22, BarrierPromotes
  <2> DEFINE front == SubSeq(Tail(bq), 1, k)
             back == SubSeq(Tail(bq), k + 1, Len(Tail(bq)))
  <2>3. front \in Seq(Requests)
    BY <2>1, FrontBackItems
  <2>4. \A y \in Elems(bq) : y = x \/ y \in Elems(front) \/ y \in Elems(back)
    BY <2>1, PromotionKeeps
  <2>5. /\ cur' = [cur EXCEPT ![w] = x] /\ wpc[w] = "pop"
        /\ UNCHANGED <<wrk_queue, cpc, executed>>
    BY <1>22 DEF get_barrier
  <2>6. m_queue' = [m_queue EXCEPT !["fast"] = @ \o front, !["barrier"] = back]
    BY <2>2 DEF Promoted
  <2>7. Elems(m_queue["fast"] \o front) = Elems(m_queue["fast"]) \cup Elems(front)
    BY <2>1, <2>3, ConcatElems
  <2>8. wpc'[w] = "exec" /\ \A v \in Workers \ {w} : wpc[v] = "exec" => wpc'[v] = "exec"
    BY <2>2 DEF Promoted
  <2> HIDE DEF bq, x, front, back
  <2>9. /\ m_queue'["fast"] = m_queue["fast"] \o front /\ m_queue'["barrier"] = back
        /\ \A q \in ReqQueues \ {"fast", "barrier"} : m_queue'[q] = m_queue[q]
    BY <2>6, QueueNames DEF RequestType
  <2>10. ASSUME NEW y \in Requests, NEW q \in ReqQueues, y \in Pooled[q]
         PROVE  y = x \/ \E p \in ReqQueues : y \in Pooled'[p]
    <3>1. CASE q = "barrier"
      BY <2>4, <2>7, <2>9, <2>10, <3>1, QueueNames DEF Pooled, bq
    <3>2. CASE q = "fast"
      BY <2>7, <2>9, <2>10, <3>2, QueueNames DEF Pooled
    <3>3. CASE q \notin {"fast", "barrier"}
      BY <2>9, <2>10, <3>3 DEF Pooled
    <3>4. QED
      BY <3>1, <3>2, <3>3
  <2>11. Own' = Own
    BY <2>5 DEF Own
  <2>12. StoresKept
    BY <2>5, <2>8, <2>10, <2>11, TakeStores
  <2>13. QED
    BY <2>5, <2>12 DEF CallersKept, Accepted, Holding
<1>23. ASSUME NEW w \in Workers, worker_recheck(w)
      PROVE  StoresKept /\ CallersKept
  <2>1. UNCHANGED <<m_queue, wrk_queue, executed>>
    BY <1>23 DEF worker_recheck, WorkerStep, wrk_can_terminate
  <2>2. RunsOn
    BY <1>23 DEF worker_recheck, WorkerStep, wrk_can_terminate, RunsOn
  <2>3. CallersKept
    BY <1>23 DEF worker_recheck, WorkerStep, wrk_can_terminate, CallersKept,
          Accepted, Holding
  <2>4. QED
    BY <2>1, <2>2, <2>3, UnmovedKept
<1>24. ASSUME NEW w \in Workers, worker_verify(w)
      PROVE  StoresKept /\ CallersKept
  <2>1. UNCHANGED <<m_queue, wrk_queue, executed>>
    BY <1>24 DEF worker_verify, WorkerStep
  <2>2. RunsOn
    BY <1>24 DEF worker_verify, WorkerStep, RunsOn
  <2>3. CallersKept
    BY <1>24 DEF worker_verify, WorkerStep, CallersKept, Accepted, Holding
  <2>4. QED
    BY <2>1, <2>2, <2>3, UnmovedKept
<1>25. ASSUME NEW w \in Workers, worker_wait(w)
      PROVE  StoresKept /\ CallersKept
  <2>1. UNCHANGED <<m_queue, wrk_queue, executed>>
    BY <1>25 DEF worker_wait, WorkerStep
  <2>2. RunsOn
    BY <1>25 DEF worker_wait, WorkerStep, RunsOn
  <2>3. CallersKept
    BY <1>25 DEF worker_wait, WorkerStep, CallersKept, Accepted, Holding
  <2>4. QED
    BY <2>1, <2>2, <2>3, UnmovedKept
<1>26. ASSUME NEW w \in Workers, spurious_wakeup(w)
      PROVE  StoresKept /\ CallersKept
  <2>1. UNCHANGED <<m_queue, wrk_queue, executed>>
    BY <1>26 DEF spurious_wakeup, WorkerStep
  <2>2. RunsOn
    BY <1>26 DEF spurious_wakeup, WorkerStep, RunsOn
  <2>3. CallersKept
    BY <1>26 DEF spurious_wakeup, WorkerStep, CallersKept, Accepted, Holding
  <2>4. QED
    BY <2>1, <2>2, <2>3, UnmovedKept
<1>27. ASSUME NEW w \in Workers, worker_exec(w)
      PROVE  StoresKept /\ CallersKept
  <2>1. /\ cur[w] \in Requests /\ executed' = [executed EXCEPT ![cur[w]] = @ + 1]
        /\ executed \in [Requests -> Nat]
        /\ wpc' = [wpc EXCEPT ![w] = "finish"]
        /\ UNCHANGED <<m_queue, wrk_queue, cur, cpc>>
    BY <1>27 DEF worker_exec, WorkerStep, RequestType
  <2>2. /\ executed'[cur[w]] > 0
        /\ \A x \in Requests : executed[x] > 0 => executed'[x] > 0
    BY <2>1
  <2>3. \A x \in Requests : Running(x) => Running(x)' \/ executed'[x] > 0
    BY <2>1, <2>2 DEF Running
  <2>4. Pooled' = Pooled /\ Own' = Own
    BY <2>1 DEF Pooled, Own
  <2>5. StoresKept
    BY <2>2, <2>3, <2>4 DEF StoresKept, Stored
  <2>6. QED
    BY <2>1, <2>5 DEF CallersKept, Accepted, Holding
<1>28. ASSUME NEW w \in Workers, worker_finish(w)
      PROVE  StoresKept /\ CallersKept
  <2>1. UNCHANGED <<m_queue, wrk_queue, executed>>
    BY <1>28 DEF worker_finish, FinishWith, WorkerStep
  <2>2. RunsOn
    BY <1>28 DEF worker_finish, FinishWith, WorkerStep, RunsOn
  <2>3. CallersKept
    BY <1>28 DEF worker_finish, FinishWith, WorkerStep, CallersKept, Accepted,
          Holding
  <2>4. QED
    BY <2>1, <2>2, <2>3, UnmovedKept
<1>29. ASSUME NEW w \in Workers, thp_thread_terminate(w)
      PROVE  StoresKept /\ CallersKept
  <2>1. UNCHANGED <<m_queue, wrk_queue, executed>>
    BY <1>29 DEF thp_thread_terminate, thp_swap_queue, worker_update_state
  <2>2. RunsOn
    BY <1>29 DEF thp_thread_terminate, thp_swap_queue, worker_update_state, RunsOn
  <2>3. CallersKept
    BY <1>29 DEF thp_thread_terminate, thp_swap_queue, worker_update_state,
          CallersKept, Accepted, Holding
  <2>4. QED
    BY <2>1, <2>2, <2>3, UnmovedKept
<1>30. ASSUME thp_stop
      PROVE  StoresKept /\ CallersKept
  <2>1. UNCHANGED <<m_queue, wrk_queue, executed>>
    BY <1>30 DEF thp_stop, Signal, StopTest
  <2>2. RunsOn
    BY <1>30 DEF thp_stop, Signal, StopTest, RunsOn
  <2>3. CallersKept
    BY <1>30 DEF thp_stop, Signal, StopTest, CallersKept, Accepted, Holding
  <2>4. QED
    BY <2>1, <2>2, <2>3, UnmovedKept
<1>31. ASSUME thp_stop_woken
      PROVE  StoresKept /\ CallersKept
  <2>1. UNCHANGED <<m_queue, wrk_queue, executed>>
    BY <1>31 DEF thp_stop_woken, StopTest
  <2>2. RunsOn
    BY <1>31 DEF thp_stop_woken, StopTest, RunsOn
  <2>3. CallersKept
    BY <1>31 DEF thp_stop_woken, StopTest, CallersKept, Accepted, Holding
  <2>4. QED
    BY <2>1, <2>2, <2>3, UnmovedKept
<1>32. ASSUME UNCHANGED vars PROVE StoresKept /\ CallersKept
  <2>1. UNCHANGED <<m_queue, wrk_queue, executed>> /\ RunsOn
    BY <1>32 DEF vars, RunsOn
  <2>2. CallersKept
    BY <1>32 DEF vars, CallersKept, Accepted, Holding
  <2>3. QED
    BY <2>1, <2>2, UnmovedKept
<1>33. StoresKept /\ CallersKept
  <2> HIDE DEF Spawns, TInv
  <2>1. ASSUME NEW r \in Requests, Schedule(r) PROVE StoresKept /\ CallersKept
    BY <2>1, <1>2, <1>3, <1>4, <1>5, <1>6, <1>7, <1>8 DEF Schedule
  <2>2. ASSUME NEW r \in Requests, CallerStep(r) PROVE StoresKept /\ CallersKept
    BY <2>2, <1>9, <1>10, <1>11, <1>12, <1>13, <1>14, <1>15, <1>16
          DEF CallerStep
  <2>3. ASSUME NEW w \in Workers, WorkerThread(w) PROVE StoresKept /\ CallersKept
    BY <2>3, <1>17, <1>18, <1>19, <1>20, <1>21, <1>22, <1>23, <1>24, <1>25,
          <1>27, <1>28, <1>29 DEF WorkerThread
  <2>4. QED
    BY <2>1, <2>2, <2>3, <1>1, <1>26, <1>30, <1>31, <1>32 DEF Next
<1>34. QED
  BY <1>33

(* A request with a place is counted by Held.                               *)
LEMMA SlotsFinite ==
    ASSUME NEW D, IsFiniteSet(D), NEW f \in [D -> Seq(Requests)], NEW r
    PROVE  /\ IsFiniteSet(Slots(f, r)) /\ Cardinality(Slots(f, r)) \in Nat
           /\ \A q \in D : r \in Elems(f[q]) => Cardinality(Slots(f, r)) > 0
<1> DEFINE At == [q \in D |-> {i \in DOMAIN f[q] : f[q][i] = r}]
           At2 == [q \in D |-> {q} \X At[q]]
           All == {At2[q] : q \in D}
<1>1. DOMAIN f = D
  OBVIOUS
<1>2. Slots(f, r) = UNION All
  BY <1>1 DEF Slots
<1>3. ASSUME NEW q \in D PROVE IsFiniteSet(At2[q])
  <2>1. DOMAIN f[q] = 1..Len(f[q]) /\ Len(f[q]) \in Nat
    OBVIOUS
  <2>2. IsFiniteSet(DOMAIN f[q])
    BY <2>1, FS_Interval
  <2>3. At[q] \subseteq DOMAIN f[q]
    OBVIOUS
  <2>4. IsFiniteSet(At[q]) /\ IsFiniteSet({q})
    BY <2>2, <2>3, FS_Subset, FS_Singleton
  <2>5. At2[q] = {q} \X At[q]
    OBVIOUS
  <2> HIDE DEF At, At2
  <2>6. QED
    BY <2>4, <2>5, FS_Product
<1>4. ASSUME NEW q \in D, r \in Elems(f[q]) PROVE Slots(f, r) # {}
  <2>1. PICK i \in DOMAIN f[q] : f[q][i] = r
    BY <1>4 DEF Elems
  <2>2. <<q, i>> \in At2[q]
    BY <2>1
  <2>3. QED
    BY <1>2, <2>2
<1>5. At2 \in Surjection(D, All)
  BY DEF Surjection
<1> HIDE DEF At, At2
<1>6. IsFiniteSet(All)
  <2> HIDE DEF All
  <2>1. QED
    BY <1>5, FS_Surjection
<1>7. IsFiniteSet(Slots(f, r))
  <2>1. \A T \in All : IsFiniteSet(T)
    BY <1>3
  <2> HIDE DEF All
  <2>2. QED
    BY <1>2, <1>6, <2>1, FS_UNION
<1>8. Cardinality(Slots(f, r)) \in Nat /\ (Slots(f, r) # {} => Cardinality(Slots(f, r)) # 0)
  BY <1>7, FS_CardinalityType, FS_EmptySet
<1>9. QED
  BY <1>4, <1>7, <1>8

LEMMA StoredIsHeld ==
    ASSUME TypeOK, NEW r \in Requests, Stored(r) \/ Holding(r)
    PROVE  Held(r) > 0
<1>1. IsFiniteSet(ReqQueues)
  <2>1. ReqQueues = ({"fast"} \cup {"slow"}) \cup ({"time_wait"} \cup {"suspend"})
                        \cup {"barrier"}
    BY DEF ReqQueues, CommonQueues, ParkQueues
  <2>2. IsFiniteSet({"fast"} \cup {"slow"}) /\ IsFiniteSet({"time_wait"} \cup {"suspend"})
    BY FS_Singleton, FS_Union
  <2>3. IsFiniteSet({"barrier"})
    BY FS_Singleton
  <2>4. QED
    BY <2>1, <2>2, <2>3, FS_Union
<1>2. /\ m_queue \in [ReqQueues -> Seq(Requests)] /\ executed[r] \in Nat
      /\ wrk_queue \in [Workers -> Seq(Requests)] /\ IsFiniteSet(Workers)
  BY PoolAssumption DEF TypeOK, RequestType, WorkerType
<1> DEFINE a == Cardinality(Slots(m_queue, r))
           b == Cardinality(Slots(wrk_queue, r))
           c == Cardinality(Runners(r))
           d == IF cpc[r] \in {"enqueue", "inline"} THEN 1 ELSE 0
<1>3. a \in Nat /\ \A q \in ReqQueues : r \in Pooled[q] => a > 0
  <2>1. a \in Nat /\ \A q \in ReqQueues : r \in Elems(m_queue[q]) => a > 0
    BY <1>1, <1>2, SlotsFinite
  <2>2. QED
    BY <2>1 DEF Pooled
<1>4. b \in Nat /\ \A w \in Workers : r \in Own[w] => b > 0
  <2>1. b \in Nat /\ \A w \in Workers : r \in Elems(wrk_queue[w]) => b > 0
    BY <1>2, SlotsFinite
  <2>2. QED
    BY <2>1 DEF Own
<1>5. c \in Nat /\ (Running(r) => c > 0)
  <2>1. Runners(r) \subseteq Workers
    BY DEF Runners
  <2>2. IsFiniteSet(Runners(r))
    BY <1>2, <2>1, FS_Subset
  <2>3. c \in Nat /\ (c = 0 <=> Runners(r) = {})
    BY <2>2, FS_CardinalityType, FS_EmptySet
  <2>4. Running(r) => Runners(r) # {}
    BY DEF Running, Runners
  <2> HIDE DEF c
  <2>5. QED
    BY <2>3, <2>4
<1>6. d \in Nat /\ (Holding(r) => d > 0)
  BY DEF Holding
<1>7. Held(r) = a + b + c + d + executed[r]
  BY DEF Held, Runners
<1> HIDE DEF a, b, c, d
<1>8. QED
  BY <1>2, <1>3, <1>4, <1>5, <1>6, <1>7 DEF Stored

(* Whatever races with thp_stop, a request that schedule has accepted stays *)
(* on a queue, with a worker or in its caller's hands until it has been     *)
(* executed (request.cpp, lines 362-463 and 655-714): none is dropped, for  *)
(* any number of workers, requests and barriers, and any policy of the      *)
(* pool's users.                                                            *)
THEOREM NoRequestLost == Spec => []NeverLost
<1> DEFINE LInv == TInv /\ Spawns /\ NotLost
<1>1. Init => LInv
  BY InitThreads DEF Init, ThreadsInv, NotLost, Accepted
<1>2. LInv /\ [Next]_vars => LInv'
  <2> SUFFICES ASSUME LInv, [Next]_vars PROVE LInv'
    OBVIOUS
  <2>1. TInv' /\ Spawns' /\ StoresKept /\ CallersKept
    BY StepType, StepThreads, StepStores
  <2>2. NotLost'
    BY <2>1 DEF StoresKept, CallersKept, NotLost
  <2>3. QED
    BY <2>1, <2>2
<1>3. LInv => NeverLost
  BY StoredIsHeld DEF TInv, NotLost, NeverLost, Aborted
<1>4. QED
  BY <1>1, <1>2, <1>3, PTL DEF Spec

-----------------------------------------------------------------------------
(* A stop of the pool, when thp_stop is called while no call of schedule is *)
(* under way, leaves nothing behind.                                        *)

(* A worker whose thread has not left worker_loop.                          *)
Working == \E w \in Workers : wpc[w] \notin {"none", "exit"}

(* The last worker leaves its loop only when nothing is active or waits     *)
(* behind a barrier (wrk_can_terminate).                                    *)
Leaving ==
    /\ stop_pc = "run" => Working
    /\ stop_pc # "run" => Working \/ (thp_sched_req = 0 /\ thp_barrier_cnt = 0)

(* thp_stop has seen the last thread go.                                    *)
AllEnded == stop_pc = "stopped" => \A w \in Workers : wpc[w] = "none"

(* No worker leaves worker_loop.                                            *)
StaysIn == \A w \in Workers : wpc[w] \notin {"none", "exit"} => wpc'[w] \notin {"none", "exit"}

LEMMA CountedOut ==
    ASSUME ThreadsInv, thp_run_thds <= 0
    PROVE  \A w \in Workers : wpc[w] = "none"
<1>1. IsFiniteSet(Alive) /\ IsFiniteSet(Creating)
  BY FS_Subset, PoolAssumption DEF ThreadsInv, Alive
<1>2. /\ Cardinality(Alive) \in Nat /\ Cardinality(Creating) \in Nat
      /\ thp_run_thds = Cardinality(Alive) + Cardinality(Creating)
  BY <1>1, FS_CardinalityType DEF ThreadsInv, ThreadsCounted, Alive, Creating
<1>3. Cardinality(Alive) = 0
  BY <1>2
<1>4. Alive = {}
  BY <1>1, <1>3, FS_EmptySet
<1>5. QED
  BY <1>4 DEF Alive

LEMMA StaysWorking == StaysIn => (Working => Working')
BY DEF StaysIn, Working

LEMMA StepLeaving ==
    ASSUME SInv, ThreadsInv, Leaving, AllEnded, [Next]_vars, StopPolicy # "any"
    PROVE  Leaving' /\ AllEnded'
<1> USE PoolAssumption
    DEF SInv, WInv, TInv, TypeOK, PoolType, WorkerType, CallerType, WorkerPCs, CallerPCs,
        Threads, QuietStop, RunningStates, poolVars, reqVars, wrkVars, callVars,
        AllEnded
<1>1. ASSUME NEW r \in Requests, schedule_barrier(r)
      PROVE  Leaving' /\ AllEnded'
  <2>1. StaysIn /\ stop_pc' = stop_pc
    BY <1>1 DEF schedule_barrier, MayCall, StaysIn, SpawnTargets, SpawnPCs
  <2>2. stop_pc = "run"
    BY <1>1 DEF schedule_barrier, MayCall
  <2>3. QED
    BY <2>1, <2>2, StaysWorking DEF Leaving
<1>2. ASSUME NEW r \in Requests, schedule_deferred(r)
      PROVE  Leaving' /\ AllEnded'
  <2>1. StaysIn /\ stop_pc' = stop_pc
    BY <1>2 DEF schedule_deferred, Entered, MayCall, StaysIn, SpawnTargets, SpawnPCs
  <2>2. stop_pc = "run"
    BY <1>2 DEF schedule_deferred, Entered, MayCall
  <2>3. QED
    BY <2>1, <2>2, StaysWorking DEF Leaving
<1>3. ASSUME NEW r \in Requests, NEW q \in QueueNos, schedule_parked(r, q)
      PROVE  Leaving' /\ AllEnded'
  <2>1. StaysIn /\ stop_pc' = stop_pc
    BY <1>3 DEF schedule_parked, Admit, Goto, Entered, MayCall, StaysIn,
          SpawnTargets, SpawnPCs
  <2>2. stop_pc = "run"
    BY <1>3 DEF schedule_parked, Admit, Goto, Entered, MayCall
  <2>3. QED
    BY <2>1, <2>2, StaysWorking DEF Leaving
<1>4. ASSUME NEW r \in Requests, NEW q \in QueueNos, NEW w \in Workers,
             schedule_direct(r, q, w)
      PROVE  Leaving' /\ AllEnded'
  <2>1. StaysIn /\ stop_pc' = stop_pc
    BY <1>4 DEF schedule_direct, Admit, Goto, Entered, MayCall, Listed,
          thp_swap_queue, worker_update_state, StaysIn, SpawnTargets, SpawnPCs
  <2>2. stop_pc = "run"
    BY <1>4 DEF schedule_direct, Admit, Goto, Entered, MayCall, Listed,
          thp_swap_queue, worker_update_state
  <2>3. QED
    BY <2>1, <2>2, StaysWorking DEF Leaving
<1>5. ASSUME NEW r \in Requests, NEW q \in QueueNos, NEW w \in Workers, NEW v
             \in Workers, schedule_round_robin(r, q, w, v)
      PROVE  Leaving' /\ AllEnded'
  <2>1. StaysIn /\ stop_pc' = stop_pc
    BY <1>5 DEF schedule_round_robin, Admit, Goto, Entered, MayCall, Listed,
          worker_update_state, StaysIn, SpawnTargets, SpawnPCs
  <2>2. stop_pc = "run"
    BY <1>5 DEF schedule_round_robin, Admit, Goto, Entered, MayCall, Listed,
          worker_update_state
  <2>3. QED
    BY <2>1, <2>2, StaysWorking DEF Leaving
<1>6. ASSUME NEW r \in Requests, NEW q \in QueueNos, NEW w \in Workers,
             schedule_idle(r, q, w)
      PROVE  Leaving' /\ AllEnded'
  <2>1. StaysIn /\ stop_pc' = stop_pc
    BY <1>6 DEF schedule_idle, Admit, Goto, Entered, MayCall, Listed, StaysIn,
          SpawnTargets, SpawnPCs
  <2>2. stop_pc = "run"
    BY <1>6 DEF schedule_idle, Admit, Goto, Entered, MayCall, Listed
  <2>3. QED
    BY <2>1, <2>2, StaysWorking DEF Leaving
<1>7. ASSUME NEW r \in Requests, NEW q \in QueueNos, schedule_common(r, q)
      PROVE  Leaving' /\ AllEnded'
  <2>1. StaysIn /\ stop_pc' = stop_pc
    BY <1>7 DEF schedule_common, Admit, Goto, Entered, MayCall, Listed, StaysIn,
          SpawnTargets, SpawnPCs
  <2>2. stop_pc = "run"
    BY <1>7 DEF schedule_common, Admit, Goto, Entered, MayCall, Listed
  <2>3. QED
    BY <2>1, <2>2, StaysWorking DEF Leaving
<1>8. ASSUME NEW r \in Requests, NEW q \in QueueNos, schedule_inline(r, q)
      PROVE  Leaving' /\ AllEnded'
  <2>1. StaysIn /\ stop_pc' = stop_pc
    BY <1>8 DEF schedule_inline, Admit, Goto, Entered, MayCall, StaysIn,
          SpawnTargets, SpawnPCs
  <2>2. stop_pc = "run"
    BY <1>8 DEF schedule_inline, Admit, Goto, Entered, MayCall
  <2>3. QED
    BY <2>1, <2>2, StaysWorking DEF Leaving
<1>9. ASSUME NEW r \in Requests, worker_enqueue(r)
      PROVE  Leaving' /\ AllEnded'
  <2>1. StaysIn /\ stop_pc' = stop_pc
    BY <1>9 DEF worker_enqueue, Signal, StaysIn, SpawnTargets, SpawnPCs
  <2>2. stop_pc = "run"
    BY <1>9 DEF worker_enqueue, Signal
  <2>3. QED
    BY <2>1, <2>2, StaysWorking DEF Leaving
<1>10. ASSUME NEW r \in Requests, exec_inline(r)
      PROVE  Leaving' /\ AllEnded'
  <2>1. StaysIn /\ stop_pc' = stop_pc
    BY <1>10 DEF exec_inline, StaysIn, SpawnTargets, SpawnPCs
  <2>2. stop_pc = "run"
    BY <1>10 DEF exec_inline
  <2>3. QED
    BY <2>1, <2>2, StaysWorking DEF Leaving
<1>11. ASSUME NEW r \in Requests, spawn_check(r)
      PROVE  Leaving' /\ AllEnded'
  <2>1. StaysIn /\ stop_pc' = stop_pc
    BY <1>11 DEF spawn_check, SpawnStep, MaySpawn, StaysIn, SpawnTargets, SpawnPCs
  <2>2. stop_pc = "run"
    BY <1>11 DEF spawn_check, SpawnStep, MaySpawn
  <2>3. QED
    BY <2>1, <2>2, StaysWorking DEF Leaving
<1>12. ASSUME NEW r \in Requests, spawn_state(r)
      PROVE  Leaving' /\ AllEnded'
  <2>1. StaysIn /\ stop_pc' = stop_pc
    BY <1>12 DEF spawn_state, SpawnStep, StaysIn, SpawnTargets, SpawnPCs
  <2>2. stop_pc = "run"
    BY <1>12 DEF spawn_state, SpawnStep
  <2>3. QED
    BY <2>1, <2>2, StaysWorking DEF Leaving
<1>13. ASSUME NEW r \in Requests, spawn_count(r)
      PROVE  Leaving' /\ AllEnded'
  <2>1. StaysIn /\ stop_pc' = stop_pc
    BY <1>13 DEF spawn_count, SpawnStep, StaysIn, SpawnTargets, SpawnPCs
  <2>2. stop_pc = "run"
    BY <1>13 DEF spawn_count, SpawnStep
  <2>3. QED
    BY <2>1, <2>2, StaysWorking DEF Leaving
<1>14. ASSUME NEW r \in Requests, spawn_create(r)
      PROVE  Leaving' /\ AllEnded'
  <2>1. StaysIn /\ stop_pc' = stop_pc
    BY <1>14 DEF spawn_create, SpawnStep, StaysIn, SpawnTargets, SpawnPCs
  <2>2. stop_pc = "run"
    BY <1>14 DEF spawn_create, SpawnStep
  <2>3. QED
    BY <2>1, <2>2, StaysWorking DEF Leaving
<1>15. ASSUME NEW r \in Requests, spawn_fail(r)
      PROVE  Leaving' /\ AllEnded'
  <2>1. StaysIn /\ stop_pc' = stop_pc
    BY <1>15 DEF spawn_fail, SpawnFails, SpawnStep, StaysIn, SpawnTargets, SpawnPCs
  <2>2. stop_pc = "run"
    BY <1>15 DEF spawn_fail, SpawnFails, SpawnStep
  <2>3. QED
    BY <2>1, <2>2, StaysWorking DEF Leaving
<1>16. ASSUME NEW r \in Requests, spawn_undo(r)
      PROVE  Leaving' /\ AllEnded'
  <2>1. StaysIn /\ stop_pc' = stop_pc
    BY <1>16 DEF spawn_undo, SpawnStep, thp_swap_queue, worker_update_state, StaysIn,
          SpawnTargets, SpawnPCs
  <2>2. stop_pc = "run"
    BY <1>16 DEF spawn_undo, SpawnStep, thp_swap_queue, worker_update_state
  <2>3. QED
    BY <2>1, <2>2, StaysWorking DEF Leaving
<1>17. ASSUME NEW w \in Workers, worker_start(w)
      PROVE  Leaving' /\ AllEnded'
  <2>1. wpc'[w] \notin {"none", "exit"} /\ stop_pc' = stop_pc /\ wpc[w] # "none"
    BY <1>17 DEF worker_start, WorkerStep
  <2>2. QED
    BY <2>1 DEF Leaving, Working
<1>18. ASSUME NEW w \in Workers, worker_check(w)
      PROVE  Leaving' /\ AllEnded'
  <2>1. CASE wrk_can_terminate(w)
    <3>1. stop_pc # "run" /\ stop_pc' = stop_pc
      BY <1>18, <2>1 DEF worker_check, WorkerStep, wrk_can_terminate
    <3>2. thp_sched_req' = 0 /\ thp_barrier_cnt' = 0
      BY <1>18, <2>1 DEF worker_check, WorkerStep, wrk_can_terminate
    <3>3. QED
      BY <1>18, <3>1, <3>2 DEF worker_check, WorkerStep, Leaving
  <2>2. CASE ~wrk_can_terminate(w)
    <3>1. wpc'[w] \notin {"none", "exit"} /\ stop_pc' = stop_pc /\ wpc[w] # "none"
      BY <1>18, <2>2 DEF worker_check, WorkerStep
    <3>2. QED
      BY <3>1 DEF Leaving, Working
  <2>3. QED
    BY <2>1, <2>2
<1>19. ASSUME NEW w \in Workers, worker_pop(w)
      PROVE  Leaving' /\ AllEnded'
  <2>1. wpc'[w] \notin {"none", "exit"} /\ stop_pc' = stop_pc /\ wpc[w] # "none"
    BY <1>19 DEF worker_pop, WorkerStep
  <2>2. QED
    BY <2>1 DEF Leaving, Working
<1>20. ASSUME NEW w \in Workers, NEW q \in CommonQueues, get_common(w, q)
      PROVE  Leaving' /\ AllEnded'
  <2>1. wpc'[w] \notin {"none", "exit"} /\ stop_pc' = stop_pc /\ wpc[w] # "none"
    BY <1>20 DEF get_common, WorkerStep, CommonQueues
  <2>2. QED
    BY <2>1 DEF Leaving, Working
<1>21. ASSUME NEW w \in Workers, put_idle(w)
      PROVE  Leaving' /\ AllEnded'
  <2>1. wpc'[w] \notin {"none", "exit"} /\ stop_pc' = stop_pc /\ wpc[w] # "none"
    BY <1>21 DEF put_idle, WorkerStep
  <2>2. QED
    BY <2>1 DEF Leaving, Working
<1>22. ASSUME NEW w \in Workers, get_barrier(w)
      PROVE  Leaving' /\ AllEnded'
  <2>1. PICK k \in 0..Len(Tail(m_queue["barrier"])), S \in SUBSET Listed("idle") :
           Promoted(w, k, S)
    BY <1>22, BarrierPromotes
  <2>2. wpc'[w] = "exec" /\ stop_pc' = stop_pc /\ wpc[w] # "none"
    BY <1>22, <2>1 DEF get_barrier, Promoted
  <2>3. QED
    BY <2>2 DEF Leaving, Working
<1>23. ASSUME NEW w \in Workers, worker_recheck(w)
      PROVE  Leaving' /\ AllEnded'
  <2>1. CASE wrk_can_terminate(w)
    <3>1. stop_pc # "run" /\ stop_pc' = stop_pc
      BY <1>23, <2>1 DEF worker_recheck, WorkerStep, wrk_can_terminate
    <3>2. thp_sched_req' = 0 /\ thp_barrier_cnt' = 0
      BY <1>23, <2>1 DEF worker_recheck, WorkerStep, wrk_can_terminate
    <3>3. QED
      BY <1>23, <3>1, <3>2 DEF worker_recheck, WorkerStep, Leaving
  <2>2. CASE ~wrk_can_terminate(w)
    <3>1. wpc'[w] \notin {"none", "exit"} /\ stop_pc' = stop_pc /\ wpc[w] # "none"
      BY <1>23, <2>2 DEF worker_recheck, WorkerStep
    <3>2. QED
      BY <3>1 DEF Leaving, Working
  <2>3. QED
    BY <2>1, <2>2
<1>24. ASSUME NEW w \in Workers, worker_verify(w)
      PROVE  Leaving' /\ AllEnded'
  <2>1. wpc'[w] \notin {"none", "exit"} /\ stop_pc' = stop_pc /\ wpc[w] # "none"
    BY <1>24 DEF worker_verify, WorkerStep
  <2>2. QED
    BY <2>1 DEF Leaving, Working
<1>25. ASSUME NEW w \in Workers, worker_wait(w)
      PROVE  Leaving' /\ AllEnded'
  <2>1. wpc'[w] \notin {"none", "exit"} /\ stop_pc' = stop_pc /\ wpc[w] # "none"
    BY <1>25 DEF worker_wait, WorkerStep
  <2>2. QED
    BY <2>1 DEF Leaving, Working
<1>26. ASSUME NEW w \in Workers, spurious_wakeup(w)
      PROVE  Leaving' /\ AllEnded'
  <2>1. wpc'[w] \notin {"none", "exit"} /\ stop_pc' = stop_pc /\ wpc[w] # "none"
    BY <1>26 DEF spurious_wakeup, WorkerStep
  <2>2. QED
    BY <2>1 DEF Leaving, Working
<1>27. ASSUME NEW w \in Workers, worker_exec(w)
      PROVE  Leaving' /\ AllEnded'
  <2>1. wpc'[w] \notin {"none", "exit"} /\ stop_pc' = stop_pc /\ wpc[w] # "none"
    BY <1>27 DEF worker_exec, WorkerStep
  <2>2. QED
    BY <2>1 DEF Leaving, Working
<1>28. ASSUME NEW w \in Workers, worker_finish(w)
      PROVE  Leaving' /\ AllEnded'
  <2>1. wpc'[w] \notin {"none", "exit"} /\ stop_pc' = stop_pc /\ wpc[w] # "none"
    BY <1>28 DEF worker_finish, FinishWith, WorkerStep
  <2>2. QED
    BY <2>1 DEF Leaving, Working
<1>29. ASSUME NEW w \in Workers, thp_thread_terminate(w)
      PROVE  Leaving' /\ AllEnded'
  <2>1. /\ stop_pc # "run" /\ stop_pc' # "run" /\ stop_pc' # "stopped"
        /\ wpc[w] = "exit"
    BY <1>29 DEF thp_thread_terminate
  <2>2. StaysIn
    BY <1>29 DEF thp_thread_terminate, StaysIn
  <2>3. UNCHANGED <<thp_sched_req, thp_barrier_cnt>>
    BY <1>29 DEF thp_thread_terminate
  <2>4. QED
    BY <2>1, <2>2, <2>3, StaysWorking DEF Leaving
<1>30. ASSUME thp_stop
      PROVE  Leaving' /\ AllEnded'
  <2>1. StaysIn /\ stop_pc = "run" /\ stop_pc' = StopTest
    BY <1>30 DEF thp_stop, Signal, StaysIn
  <2>2. Working'
    BY <2>1, StaysWorking DEF Leaving
  <2>3. StopTest = "stopped" => \A w \in Workers : wpc[w] = "none"
    BY CountedOut DEF StopTest
  <2>4. \A w \in Workers : wpc[w] = "none" => wpc'[w] = "none"
    BY <1>30 DEF thp_stop, Signal
  <2>5. QED
    BY <2>1, <2>2, <2>3, <2>4 DEF Leaving, StopTest
<1>31. ASSUME thp_stop_woken
      PROVE  Leaving' /\ AllEnded'
  <2>1. /\ stop_pc # "run" /\ stop_pc' = StopTest /\ wpc' = wpc
        /\ UNCHANGED <<thp_sched_req, thp_barrier_cnt>>
    BY <1>31 DEF thp_stop_woken
  <2>2. StopTest = "stopped" => \A w \in Workers : wpc[w] = "none"
    BY CountedOut DEF StopTest
  <2>3. QED
    BY <2>1, <2>2 DEF Leaving, StopTest, Working
<1>32. ASSUME UNCHANGED vars PROVE Leaving' /\ AllEnded'
  BY <1>32 DEF vars, Leaving, Working
<1>33. Leaving' /\ AllEnded'
  <2> HIDE DEF SInv, AllEnded
  <2>1. ASSUME NEW r \in Requests, Schedule(r) PROVE Leaving' /\ AllEnded'
    BY <2>1, <1>2, <1>3, <1>4, <1>5, <1>6, <1>7, <1>8 DEF Schedule
  <2>2. ASSUME NEW r \in Requests, CallerStep(r) PROVE Leaving' /\ AllEnded'
    BY <2>2, <1>9, <1>10, <1>11, <1>12, <1>13, <1>14, <1>15, <1>16
          DEF CallerStep
  <2>3. ASSUME NEW w \in Workers, WorkerThread(w) PROVE Leaving' /\ AllEnded'
    BY <2>3, <1>17, <1>18, <1>19, <1>20, <1>21, <1>22, <1>23, <1>24, <1>25,
          <1>27, <1>28, <1>29 DEF WorkerThread
  <2>4. QED
    BY <2>1, <2>2, <2>3, <1>1, <1>26, <1>30, <1>31, <1>32 DEF Next
<1>34. QED
  BY <1>33

StopInv == PInv /\ ThreadsInv /\ Leaving /\ AllEnded

LEMMA InitStop == Init /\ InitWorkers \ MayFail # {} => StopInv
<1> SUFFICES ASSUME Init, InitWorkers \ MayFail # {} PROVE StopInv
  OBVIOUS
<1>1. PInv /\ ThreadsInv
  BY InitPlaces, InitThreads
<1>2. PICK up \in SUBSET InitWorkers :
         /\ InitWorkers \ MayFail \subseteq up
         /\ wpc = [w \in Workers |-> IF w \in up THEN "start" ELSE "none"]
  BY DEF Init
<1>3. Working
  BY <1>2, PoolAssumption DEF Working
<1>4. stop_pc = "run"
  BY DEF Init
<1>5. QED
  BY <1>1, <1>3, <1>4 DEF StopInv, Leaving, AllEnded

LEMMA StepStop ==
    ASSUME StopInv, [Next]_vars, StopPolicy # "any"
    PROVE  StopInv'
BY StepPlaces, StepThreadsInv, StepLeaving DEF StopInv, PInv, PlInv

LEMMA StopVerifies == StopInv => StopVerified
<1> SUFFICES ASSUME StopInv, stop_pc = "stopped" PROVE StopVerified!2
  BY DEF StopVerified
<1>1. /\ \A w \in Workers : wpc[w] = "none"
      /\ thp_sched_req = 0 /\ thp_barrier_cnt = 0
  BY DEF StopInv, AllEnded, Leaving, Working
<1>2. /\ TypeOK /\ BarrierCounted /\ QuietStop /\ Stopping /\ Spare /\ Counted
      /\ ThreadsInv
  BY DEF StopInv, PInv, PlInv, SInv, WInv, TInv, Threads, Control
<1>3. thp_run_thds = 0
  <2>1. Alive = {} /\ Creating = {}
    BY <1>1, <1>2 DEF Alive, Creating, QuietStop
  <2>2. QED
    BY <1>2, <2>1, FS_EmptySet DEF ThreadsInv, ThreadsCounted, Alive, Creating
<1>4. Works = {}
  BY <1>1, <1>2, FS_EmptySet DEF Counted
<1>5. /\ m_queue \in [ReqQueues -> Seq(Requests)]
      /\ wrk_queue \in [Workers -> Seq(Requests)]
  BY <1>2 DEF TypeOK, RequestType, WorkerType
<1>6. ASSUME NEW s \in Seq(Requests), Elems(s) = {} PROVE s = <<>>
  <2>1. CASE s # <<>>
    <3>1. 1 \in DOMAIN s
      BY <2>1
    <3>2. s[1] \in Elems(s)
      BY <3>1 DEF Elems
    <3>3. QED
      BY <1>6, <3>2
  <2>2. QED
    BY <2>1
<1>7. ASSUME NEW q \in ReqQueues PROVE m_queue[q] = <<>>
  <2>1. CASE q = "barrier"
    BY <1>1, <1>2, <1>5, <2>1 DEF BarrierCounted
  <2>2. CASE q # "barrier"
    <3>1. Pooled[q] = {}
      BY <1>2, <1>4, <2>2, TypedFromType DEF Works, Typed
    <3>2. QED
      BY <1>5, <1>6, <3>1 DEF Pooled
  <2>3. QED
    BY <2>1, <2>2
<1>8. ASSUME NEW w \in Workers PROVE wrk_queue[w] = <<>>
  <2>1. Own[w] = {}
    BY <1>2, <1>4, TypedFromType DEF Works, Typed
  <2>2. QED
    BY <1>5, <1>6, <2>1 DEF Own
<1>9. ASSUME NEW w \in Workers PROVE wrk_state[w] = "terminate" /\ wrk_list[w] = "dorman"
  BY <1>1, <1>2 DEF Stopping, Spare, QuietStop, SpawnPCs
<1>10. QED
  BY <1>1, <1>3, <1>7, <1>8, <1>9

(* When thp_stop returns, what it and mod_shutdown verify holds: no thread  *)
(* runs, every worker has terminated and is back on the dormant list, and   *)
(* all queues are empty, the barrier queue among them (request.cpp, lines   *)
(* 202-204 and 329-336), for any number of workers, requests and barriers,  *)
(* when no call of schedule is under way and at least one of the threads    *)
(* that mod_init starts was created.                                        *)
THEOREM StopIsVerified ==
    ASSUME StopPolicy # "any", InitWorkers \ MayFail # {}
    PROVE  Spec => []StopVerified
BY InitStop, StepStop, StopVerifies, PTL DEF Spec

-----------------------------------------------------------------------------
(* Without barriers no assertion fails.                                     *)

(* A worker on its way to sleep is idle or told to terminate; nothing but a *)
(* promoted barrier changes that.                                           *)
Resting ==
    /\ thp_barrier_cnt = 0
    /\ \A w \in Workers :
          /\ wpc[w] \in {"recheck", "verify"} =>
                wrk_state[w] \in {"idle", "terminate"} /\ wrk_list[w] \in {"idle", "none"}
          /\ wpc[w] # "abort"

LEMMA StepResting ==
    ASSUME SInv, Resting, [Next]_vars, StopPolicy # "any", BarrierReqs = {}
    PROVE  Resting'
<1> USE PoolAssumption
    DEF SInv, WInv, TInv, TypeOK, WorkerType, CallerType, WorkerPCs, CallerPCs,
        WorkerStates, Threads, SpawnTargets, SpawnPCs, poolVars, reqVars, wrkVars,
        callVars, Resting
<1>1. ASSUME NEW r \in Requests, schedule_barrier(r)
      PROVE  Resting'
  BY <1>1 DEF schedule_barrier, MayCall
<1>2. ASSUME NEW r \in Requests, schedule_deferred(r)
      PROVE  Resting'
  BY <1>2 DEF schedule_deferred, Entered, MayCall
<1>3. ASSUME NEW r \in Requests, NEW q \in QueueNos, schedule_parked(r, q)
      PROVE  Resting'
  BY <1>3 DEF schedule_parked, Admit, Goto, Entered, MayCall
<1>4. ASSUME NEW r \in Requests, NEW q \in QueueNos, NEW w \in Workers,
             schedule_direct(r, q, w)
      PROVE  Resting'
  BY <1>4 DEF schedule_direct, Admit, Goto, Entered, MayCall, Listed,
          thp_swap_queue, worker_update_state, CommonQueues
<1>5. ASSUME NEW r \in Requests, NEW q \in QueueNos, NEW w \in Workers, NEW v
             \in Workers, schedule_round_robin(r, q, w, v)
      PROVE  Resting'
  BY <1>5 DEF schedule_round_robin, Admit, Goto, Entered, MayCall, Listed,
          worker_update_state, CommonQueues
<1>6. ASSUME NEW r \in Requests, NEW q \in QueueNos, NEW w \in Workers,
             schedule_idle(r, q, w)
      PROVE  Resting'
  BY <1>6 DEF schedule_idle, Admit, Goto, Entered, MayCall, Listed, CommonQueues
<1>7. ASSUME NEW r \in Requests, NEW q \in QueueNos, schedule_common(r, q)
      PROVE  Resting'
  BY <1>7 DEF schedule_common, Admit, Goto, Entered, MayCall, Listed
<1>8. ASSUME NEW r \in Requests, NEW q \in QueueNos, schedule_inline(r, q)
      PROVE  Resting'
  BY <1>8 DEF schedule_inline, Admit, Goto, Entered, MayCall
<1>9. ASSUME NEW r \in Requests, worker_enqueue(r)
      PROVE  Resting'
  BY <1>9 DEF worker_enqueue, Signal
<1>10. ASSUME NEW r \in Requests, exec_inline(r)
      PROVE  Resting'
  BY <1>10 DEF exec_inline
<1>11. ASSUME NEW r \in Requests, spawn_check(r)
      PROVE  Resting'
  BY <1>11 DEF spawn_check, SpawnStep, MaySpawn
<1>12. ASSUME NEW r \in Requests, spawn_state(r)
      PROVE  Resting'
  BY <1>12 DEF spawn_state, SpawnStep
<1>13. ASSUME NEW r \in Requests, spawn_count(r)
      PROVE  Resting'
  BY <1>13 DEF spawn_count, SpawnStep
<1>14. ASSUME NEW r \in Requests, spawn_create(r)
      PROVE  Resting'
  BY <1>14 DEF spawn_create, SpawnStep
<1>15. ASSUME NEW r \in Requests, spawn_fail(r)
      PROVE  Resting'
  BY <1>15 DEF spawn_fail, SpawnFails, SpawnStep
<1>16. ASSUME NEW r \in Requests, spawn_undo(r)
      PROVE  Resting'
  BY <1>16 DEF spawn_undo, SpawnStep, thp_swap_queue, worker_update_state
<1>17. ASSUME NEW w \in Workers, worker_start(w)
      PROVE  Resting'
  BY <1>17 DEF worker_start, WorkerStep, thp_swap_queue, worker_update_state
<1>18. ASSUME NEW w \in Workers, worker_check(w)
      PROVE  Resting'
  BY <1>18 DEF worker_check, WorkerStep, wrk_can_terminate
<1>19. ASSUME NEW w \in Workers, worker_pop(w)
      PROVE  Resting'
  BY <1>19 DEF worker_pop, WorkerStep
<1>20. ASSUME NEW w \in Workers, NEW q \in CommonQueues, get_common(w, q)
      PROVE  Resting'
  BY <1>20 DEF get_common, WorkerStep, thp_swap_queue, worker_update_state,
          CommonQueues
<1>21. ASSUME NEW w \in Workers, put_idle(w)
      PROVE  Resting'
  BY <1>21 DEF put_idle, WorkerStep, thp_swap_queue, worker_update_state
<1>22. ASSUME NEW w \in Workers, get_barrier(w)
      PROVE  Resting'
  BY <1>22 DEF get_barrier, Listed
<1>23. ASSUME NEW w \in Workers, worker_recheck(w)
      PROVE  Resting'
  BY <1>23 DEF worker_recheck, WorkerStep, wrk_can_terminate
<1>24. ASSUME NEW w \in Workers, worker_verify(w)
      PROVE  Resting'
  BY <1>24 DEF worker_verify, WorkerStep
<1>25. ASSUME NEW w \in Workers, worker_wait(w)
      PROVE  Resting'
  BY <1>25 DEF worker_wait, WorkerStep
<1>26. ASSUME NEW w \in Workers, spurious_wakeup(w)
      PROVE  Resting'
  BY <1>26 DEF spurious_wakeup, WorkerStep
<1>27. ASSUME NEW w \in Workers, worker_exec(w)
      PROVE  Resting'
  BY <1>27 DEF worker_exec, WorkerStep
<1>28. ASSUME NEW w \in Workers, worker_finish(w)
      PROVE  Resting'
  BY <1>28 DEF worker_finish, FinishWith, WorkerStep
<1>29. ASSUME NEW w \in Workers, thp_thread_terminate(w)
      PROVE  Resting'
  BY <1>29 DEF thp_thread_terminate, thp_swap_queue, worker_update_state
<1>30. ASSUME thp_stop
      PROVE  Resting'
  BY <1>30 DEF thp_stop, Signal, StopTest
<1>31. ASSUME thp_stop_woken
      PROVE  Resting'
  BY <1>31 DEF thp_stop_woken, StopTest
<1>32. ASSUME UNCHANGED vars PROVE Resting'
  BY <1>32 DEF vars
<1>33. Resting'
  <2> HIDE DEF SInv, Resting
  <2>1. ASSUME NEW r \in Requests, Schedule(r) PROVE Resting'
    BY <2>1, <1>2, <1>3, <1>4, <1>5, <1>6, <1>7, <1>8 DEF Schedule
  <2>2. ASSUME NEW r \in Requests, CallerStep(r) PROVE Resting'
    BY <2>2, <1>9, <1>10, <1>11, <1>12, <1>13, <1>14, <1>15, <1>16
          DEF CallerStep
  <2>3. ASSUME NEW w \in Workers, WorkerThread(w) PROVE Resting'
    BY <2>3, <1>17, <1>18, <1>19, <1>20, <1>21, <1>22, <1>23, <1>24, <1>25,
          <1>27, <1>28, <1>29 DEF WorkerThread
  <2>4. QED
    BY <2>1, <2>2, <2>3, <1>1, <1>26, <1>30, <1>31, <1>32 DEF Next
<1>34. QED
  BY <1>33

(* No assert or verify of worker_loop, schedule or req_exec_task fails when *)
(* no barrier is scheduled (request.cpp, lines 448-458, 669 and 697), for   *)
(* any number of workers and requests, when the pool is stopped only while  *)
(* no call of schedule is under way.  With barriers line 697 can fail:      *)
(* thp_promote_barrier_lck makes a worker fast that is about to sleep.      *)
THEOREM NothingAborts ==
    ASSUME StopPolicy # "any", BarrierReqs = {}
    PROVE  Spec => []NoAbort
<1> DEFINE AInv == SInv /\ Resting
<1>1. Init => AInv
  BY InitPlaces DEF PInv, PlInv, Init, Resting
<1>2. AInv /\ [Next]_vars => AInv'
  BY StepWake, StepControl, StepResting DEF SInv
<1>3. AInv => NoAbort
  BY DEF SInv, Control, NoneInline, Resting, NoAbort, Aborted
<1>4. QED
  BY <1>1, <1>2, <1>3, PTL DEF Spec

-----------------------------------------------------------------------------
(* Without barriers the audit of thp_dump_stat matches.                     *)

(* The requests no worker has taken, and those that have no worker yet.     *)
Waiting ==
    {r \in Requests : \/ cpc[r] = "enqueue"
                      \/ \E q \in ReqQueues : r \in Pooled[q]
                      \/ \E w \in Workers : r \in Own[w]}

Pending ==
    {r \in Requests : cpc[r] = "enqueue" \/ \E q \in ReqQueues : r \in Pooled[q]}

Audited ==
    /\ IsFiniteSet(Waiting) /\ IsFiniteSet(Pending)
    /\ stat["sched"] = stat["served"] + Cardinality(Waiting)
    /\ stat["sched"] = stat["direct"] + stat["common"] + Cardinality(Pending)
    /\ stat["direct"] + stat["common"] = stat["fast"] + stat["slow"]
    /\ stat["shutdown"] = 0

(* What a step shows of a request and counts for it: schedule accepts it,   *)
(* worker_enqueue hands it over, or a worker takes it from its own queue or *)
(* the pool's.                                                              *)
Accepts(r) == ~Accepted(r) /\ Accepted(r)'

Delivers(r) == cpc[r] = "enqueue" /\ cpc'[r] = "done"

Takes(w) == wpc[w] = "pop" /\ wpc'[w] = "exec"

NoneShown ==
    /\ \A r \in Requests : ~Accepts(r) /\ ~Delivers(r)
    /\ \A w \in Workers : ~Takes(w)

StatStep ==
    \/ NoneShown /\ stat' = stat
    \/ \E r \in Requests : Accepts(r) /\ stat' = Bump({"sched"})
    \/ \E r \in Requests : \E f \in {"fast", "slow"} :
          Delivers(r) /\ stat' = Bump({"direct", f})
    \/ \E w \in Workers :
          Takes(w) /\ UNCHANGED m_queue /\ stat' = Bump({"served"})
    \/ \E w \in Workers : \E f \in {"fast", "slow"} :
          /\ Takes(w) /\ UNCHANGED wrk_queue
          /\ stat' = Bump({"served", "common", f})

LEMMA StepStat ==
    ASSUME SInv, Resting, [Next]_vars, StopPolicy # "any", BarrierReqs = {}
    PROVE  StatStep
<1> USE PoolAssumption
    DEF SInv, WInv, TInv, TypeOK, WorkerType, CallerType, WorkerPCs, CallerPCs,
        Threads, SpawnTargets, SpawnPCs, poolVars, reqVars, wrkVars, callVars,
        NoneShown, Accepts, Delivers, Takes, Accepted
<1>1. ASSUME NEW r \in Requests, schedule_barrier(r)
      PROVE  StatStep
  BY <1>1 DEF schedule_barrier, MayCall, Resting
<1>2. ASSUME NEW r \in Requests, schedule_deferred(r)
      PROVE  StatStep
  BY <1>2 DEF schedule_deferred, Entered, MayCall, Resting
<1>3. ASSUME NEW r \in Requests, NEW q \in QueueNos, schedule_parked(r, q)
      PROVE  StatStep
  <2>1. Accepts(r) /\ stat' = Bump({"sched"})
    BY <1>3 DEF schedule_parked, Admit, Goto, Entered
  <2>2. QED
    BY <2>1 DEF StatStep
<1>4. ASSUME NEW r \in Requests, NEW q \in QueueNos, NEW w \in Workers,
             schedule_direct(r, q, w)
      PROVE  StatStep
  <2>1. Accepts(r) /\ stat' = Bump({"sched"})
    BY <1>4 DEF schedule_direct, Admit, Goto, Entered
  <2>2. QED
    BY <2>1 DEF StatStep
<1>5. ASSUME NEW r \in Requests, NEW q \in QueueNos, NEW w \in Workers, NEW v
             \in Workers, schedule_round_robin(r, q, w, v)
      PROVE  StatStep
  <2>1. Accepts(r) /\ stat' = Bump({"sched"})
    BY <1>5 DEF schedule_round_robin, Admit, Goto, Entered
  <2>2. QED
    BY <2>1 DEF StatStep
<1>6. ASSUME NEW r \in Requests, NEW q \in QueueNos, NEW w \in Workers,
             schedule_idle(r, q, w)
      PROVE  StatStep
  <2>1. Accepts(r) /\ stat' = Bump({"sched"})
    BY <1>6 DEF schedule_idle, Admit, Goto, Entered
  <2>2. QED
    BY <2>1 DEF StatStep
<1>7. ASSUME NEW r \in Requests, NEW q \in QueueNos, schedule_common(r, q)
      PROVE  StatStep
  <2>1. Accepts(r) /\ stat' = Bump({"sched"})
    BY <1>7 DEF schedule_common, Admit, Goto, Entered
  <2>2. QED
    BY <2>1 DEF StatStep
<1>8. ASSUME NEW r \in Requests, NEW q \in QueueNos, schedule_inline(r, q)
      PROVE  StatStep
  <2>1. Accepts(r) /\ stat' = Bump({"sched"})
    BY <1>8 DEF schedule_inline, Admit, Goto, Entered
  <2>2. QED
    BY <2>1 DEF StatStep
<1>9. ASSUME NEW r \in Requests, worker_enqueue(r)
      PROVE  StatStep
  <2>1. Delivers(r) /\ wrk_state[target[r]] # "terminate"
    BY <1>9 DEF worker_enqueue, QuietStop, RunningStates, ListedThreads
  <2>2. \E f \in {"fast", "slow"} : stat' = Bump({"direct", f})
    BY <1>9, <2>1 DEF worker_enqueue
  <2>3. QED
    BY <2>1, <2>2 DEF StatStep
<1>10. ASSUME NEW r \in Requests, exec_inline(r)
      PROVE  StatStep
  BY <1>10 DEF exec_inline, Control, NoneInline
<1>11. ASSUME NEW r \in Requests, spawn_check(r)
      PROVE  StatStep
  <2>1. NoneShown /\ stat' = stat
    BY <1>11 DEF spawn_check, SpawnStep, MaySpawn
  <2>2. QED
    BY <2>1 DEF StatStep
<1>12. ASSUME NEW r \in Requests, spawn_state(r)
      PROVE  StatStep
  <2>1. NoneShown /\ stat' = stat
    BY <1>12 DEF spawn_state, SpawnStep
  <2>2. QED
    BY <2>1 DEF StatStep
<1>13. ASSUME NEW r \in Requests, spawn_count(r)
      PROVE  StatStep
  <2>1. NoneShown /\ stat' = stat
    BY <1>13 DEF spawn_count, SpawnStep
  <2>2. QED
    BY <2>1 DEF StatStep
<1>14. ASSUME NEW r \in Requests, spawn_create(r)
      PROVE  StatStep
  <2>1. NoneShown /\ stat' = stat
    BY <1>14 DEF spawn_create, SpawnStep
  <2>2. QED
    BY <2>1 DEF StatStep
<1>15. ASSUME NEW r \in Requests, spawn_fail(r)
      PROVE  StatStep
  <2>1. NoneShown /\ stat' = stat
    BY <1>15 DEF spawn_fail, SpawnFails, SpawnStep
  <2>2. QED
    BY <2>1 DEF StatStep
<1>16. ASSUME NEW r \in Requests, spawn_undo(r)
      PROVE  StatStep
  <2>1. NoneShown /\ stat' = stat
    BY <1>16 DEF spawn_undo, SpawnStep
  <2>2. QED
    BY <2>1 DEF StatStep
<1>17. ASSUME NEW w \in Workers, worker_start(w)
      PROVE  StatStep
  <2>1. NoneShown /\ stat' = stat
    BY <1>17 DEF worker_start, WorkerStep
  <2>2. QED
    BY <2>1 DEF StatStep
<1>18. ASSUME NEW w \in Workers, worker_check(w)
      PROVE  StatStep
  <2>1. NoneShown /\ stat' = stat
    BY <1>18 DEF worker_check, WorkerStep, wrk_can_terminate
  <2>2. QED
    BY <2>1 DEF StatStep
<1>19. ASSUME NEW w \in Workers, worker_pop(w)
      PROVE  StatStep
  <2>1. Takes(w) /\ UNCHANGED m_queue /\ stat' = Bump({"served"})
    BY <1>19 DEF worker_pop, WorkerStep
  <2>2. QED
    BY <2>1 DEF StatStep
<1>20. ASSUME NEW w \in Workers, NEW q \in CommonQueues, get_common(w, q)
      PROVE  StatStep
  <2>1. Takes(w) /\ UNCHANGED wrk_queue /\ stat' = Bump({"served", "common", q})
    BY <1>20 DEF get_common, WorkerStep, ServedStats
  <2>2. QED
    BY <1>20, <2>1 DEF StatStep, CommonQueues
<1>21. ASSUME NEW w \in Workers, put_idle(w)
      PROVE  StatStep
  <2>1. NoneShown /\ stat' = stat
    BY <1>21 DEF put_idle, WorkerStep
  <2>2. QED
    BY <2>1 DEF StatStep
<1>22. ASSUME NEW w \in Workers, get_barrier(w)
      PROVE  StatStep
  BY <1>22 DEF get_barrier, Listed, Resting
<1>23. ASSUME NEW w \in Workers, worker_recheck(w)
      PROVE  StatStep
  <2>1. NoneShown /\ stat' = stat
    BY <1>23 DEF worker_recheck, WorkerStep, wrk_can_terminate
  <2>2. QED
    BY <2>1 DEF StatStep
<1>24. ASSUME NEW w \in Workers, worker_verify(w)
      PROVE  StatStep
  <2>1. NoneShown /\ stat' = stat
    BY <1>24 DEF worker_verify, WorkerStep
  <2>2. QED
    BY <2>1 DEF StatStep
<1>25. ASSUME NEW w \in Workers, worker_wait(w)
      PROVE  StatStep
  <2>1. NoneShown /\ stat' = stat
    BY <1>25 DEF worker_wait, WorkerStep
  <2>2. QED
    BY <2>1 DEF StatStep
<1>26. ASSUME NEW w \in Workers, spurious_wakeup(w)
      PROVE  StatStep
  <2>1. NoneShown /\ stat' = stat
    BY <1>26 DEF spurious_wakeup, WorkerStep
  <2>2. QED
    BY <2>1 DEF StatStep
<1>27. ASSUME NEW w \in Workers, worker_exec(w)
      PROVE  StatStep
  <2>1. NoneShown /\ stat' = stat
    BY <1>27 DEF worker_exec, WorkerStep
  <2>2. QED
    BY <2>1 DEF StatStep
<1>28. ASSUME NEW w \in Workers, worker_finish(w)
      PROVE  StatStep
  <2>1. NoneShown /\ stat' = stat
    BY <1>28 DEF worker_finish, FinishWith, WorkerStep
  <2>2. QED
    BY <2>1 DEF StatStep
<1>29. ASSUME NEW w \in Workers, thp_thread_terminate(w)
      PROVE  StatStep
  <2>1. NoneShown /\ stat' = stat
    BY <1>29 DEF thp_thread_terminate
  <2>2. QED
    BY <2>1 DEF StatStep
<1>30. ASSUME thp_stop
      PROVE  StatStep
  <2>1. NoneShown /\ stat' = stat
    BY <1>30 DEF thp_stop, Signal, StopTest
  <2>2. QED
    BY <2>1 DEF StatStep
<1>31. ASSUME thp_stop_woken
      PROVE  StatStep
  <2>1. NoneShown /\ stat' = stat
    BY <1>31 DEF thp_stop_woken, StopTest
  <2>2. QED
    BY <2>1 DEF StatStep
<1>32. ASSUME UNCHANGED vars PROVE StatStep
  BY <1>32 DEF vars, StatStep
<1>33. StatStep
  <2> HIDE DEF SInv
  <2>1. ASSUME NEW r \in Requests, Schedule(r) PROVE StatStep
    BY <2>1, <1>2, <1>3, <1>4, <1>5, <1>6, <1>7, <1>8 DEF Schedule
  <2>2. ASSUME NEW r \in Requests, CallerStep(r) PROVE StatStep
    BY <2>2, <1>9, <1>10, <1>11, <1>12, <1>13, <1>14, <1>15, <1>16
          DEF CallerStep
  <2>3. ASSUME NEW w \in Workers, WorkerThread(w) PROVE StatStep
    BY <2>3, <1>17, <1>18, <1>19, <1>20, <1>21, <1>22, <1>23, <1>24, <1>25,
          <1>27, <1>28, <1>29 DEF WorkerThread
  <2>4. QED
    BY <2>1, <2>2, <2>3, <1>1, <1>26, <1>30, <1>31, <1>32 DEF Next
<1>34. QED
  BY <1>33

(* What each of these does to the two sets, whichever move it is.           *)
LEMMA MoveShows ==
    ASSUME Typed, Typed', Held1, Move, Pooled["barrier"] = {}
    PROVE  /\ NoneShown => Waiting' = Waiting /\ Pending' = Pending
           /\ \A r \in Requests : Accepts(r) =>
                 /\ Waiting' = Waiting \cup {r} /\ r \notin Waiting
                 /\ Pending' = Pending \cup {r} /\ r \notin Pending
           /\ \A r \in Requests : Delivers(r) =>
                 /\ Waiting' = Waiting
                 /\ Pending' = Pending \ {r} /\ r \in Pending
           /\ \A w \in Workers : Takes(w) =>
                 /\ Waiting' = Waiting \ {cur'[w]} /\ cur'[w] \in Waiting
                 /\ Pooled' = Pooled => Pending' = Pending
                 /\ Own' = Own => Pending' = Pending \ {cur'[w]} /\ cur'[w] \in Pending
<1> DEFINE None1 == NoneShown => Waiting' = Waiting /\ Pending' = Pending
           Acc == \A r \in Requests : Accepts(r) =>
                 /\ Waiting' = Waiting \cup {r} /\ r \notin Waiting
                 /\ Pending' = Pending \cup {r} /\ r \notin Pending
           Del == \A r \in Requests : Delivers(r) =>
                 /\ Waiting' = Waiting
                 /\ Pending' = Pending \ {r} /\ r \in Pending
           Tak == \A w \in Workers : Takes(w) =>
                 /\ Waiting' = Waiting \ {cur'[w]} /\ cur'[w] \in Waiting
                 /\ Pooled' = Pooled => Pending' = Pending
                 /\ Own' = Own => Pending' = Pending \ {cur'[w]} /\ cur'[w] \in Pending
           Goal == None1 /\ Acc /\ Del /\ Tak
<1>k. RunsKept => \A w \in Workers : ~Takes(w)
  BY DEF RunsKept, Takes, Busy
<1>r. ASSUME NEW r, NEW w \in Workers, Runs(r, w)
      PROVE  /\ cur'[w] = r /\ \A v \in Workers : Takes(v) => v = w
             /\ Takes(w) /\ \A x \in Requests : ~Accepts(x) /\ ~Delivers(x)
  BY <1>r DEF Runs, Takes, Busy, Accepts, Delivers, Accepted, Typed
<1>1. ASSUME Still PROVE Goal
  <2>1. \A r \in Requests : ~Accepts(r) /\ ~Delivers(r)
    BY <1>1 DEF Still, Accepts, Delivers, Accepted, Outside
  <2>2. \A w \in Workers : ~Takes(w)
    BY <1>1, <1>k DEF Still
  <2>3. \A r \in Requests : cpc'[r] = "enqueue" <=> cpc[r] = "enqueue"
    BY <1>1 DEF Still, Outside
  <2>4. Waiting' = Waiting /\ Pending' = Pending
    BY <1>1, <2>3 DEF Still, Waiting, Pending
  <2>5. QED
    BY <2>1, <2>2, <2>4
<1>2. ASSUME NEW r \in Requests, Handed(r) PROVE Goal
  <2>1. /\ Accepts(r) /\ \A x \in Requests : ~Delivers(x) /\ (Accepts(x) => x = r)
        /\ \A w \in Workers : ~Takes(w)
    BY <1>2, <1>k DEF Handed, Accepts, Delivers, Accepted, Typed
  <2>2. r \notin Waiting /\ r \notin Pending
    BY <1>2 DEF Handed, Waiting, Pending, Held1, CallersOwn, Outside
  <2>3. Waiting' = Waiting \cup {r} /\ Pending' = Pending \cup {r}
    BY <1>2 DEF Handed, Waiting, Pending, Typed
  <2>4. QED
    BY <2>1, <2>2, <2>3 DEF NoneShown
<1>3. ASSUME NEW r \in Requests, NEW q \in ReqQueues, Taken(r, q) PROVE Goal
  <2>1. /\ Accepts(r) /\ \A x \in Requests : ~Delivers(x) /\ (Accepts(x) => x = r)
        /\ \A w \in Workers : ~Takes(w)
    BY <1>3, <1>k DEF Taken, Accepts, Delivers, Accepted, Typed
  <2>2. r \notin Waiting /\ r \notin Pending
    BY <1>3 DEF Taken, Waiting, Pending, Held1, CallersOwn, Outside
  <2>3. \A x \in Requests, p \in ReqQueues :
           x \in Pooled'[p] <=> x \in Pooled[p] \/ (x = r /\ p = q)
    BY <1>3 DEF Taken, Typed
  <2>4. \A x \in Requests : cpc'[x] = "enqueue" <=> cpc[x] = "enqueue"
    BY <1>3 DEF Taken, Typed
  <2>5. Own' = Own
    BY <1>3 DEF Taken
  <2>6. Waiting' = Waiting \cup {r} /\ Pending' = Pending \cup {r}
    BY <2>3, <2>4, <2>5 DEF Waiting, Pending
  <2>7. QED
    BY <2>1, <2>2, <2>6 DEF NoneShown
<1>4. ASSUME NEW r \in Requests, NEW w \in Workers, Given(r, w) PROVE Goal
  <2>1. /\ Delivers(r) /\ \A x \in Requests : ~Accepts(x) /\ (Delivers(x) => x = r)
        /\ \A v \in Workers : ~Takes(v)
    BY <1>4, <1>k DEF Given, Accepts, Delivers, Accepted, Typed
  <2>2. r \in Pending
    BY <1>4 DEF Given, Pending
  <2>3. \A x \in Requests, v \in Workers :
           x \in Own'[v] <=> x \in Own[v] \/ (x = r /\ v = w)
    BY <1>4 DEF Given, Typed
  <2>4. /\ \A x \in Requests : cpc'[x] = "enqueue" <=> cpc[x] = "enqueue" /\ x # r
        /\ Pooled' = Pooled /\ cpc[r] = "enqueue"
        /\ \A q \in ReqQueues : r \notin Pooled[q]
    BY <1>4 DEF Given, Typed, Held1, CallersOwn, Outside
  <2>5. Waiting' = Waiting /\ Pending' = Pending \ {r}
    BY <2>3, <2>4 DEF Waiting, Pending
  <2>6. QED
    BY <2>1, <2>2, <2>5 DEF NoneShown
<1>5. ASSUME NEW r \in Requests, NEW w \in Workers, Popped(r, w) PROVE Goal
  <2>1. /\ cur'[w] = r /\ \A v \in Workers : Takes(v) => v = w
        /\ Takes(w) /\ \A x \in Requests : ~Accepts(x) /\ ~Delivers(x)
    BY <1>5, <1>r DEF Popped
  <2>2. /\ r \in Own[w] /\ Pooled' = Pooled /\ cpc' = cpc
        /\ cpc[r] # "enqueue" /\ \A q \in ReqQueues : r \notin Pooled[q]
        /\ \A v \in Workers \ {w} : r \notin Own[v]
    BY <1>5 DEF Popped, Runs, Held1, Single, CallersOwn, Outside
  <2>3. \A x \in Requests, v \in Workers :
           x \in Own'[v] <=> x \in Own[v] /\ ~(x = r /\ v = w)
    BY <1>5 DEF Popped, Typed
  <2>4. Waiting' = Waiting \ {r} /\ r \in Waiting /\ Pending' = Pending /\ Own' # Own
    BY <2>2, <2>3 DEF Waiting, Pending
  <2>5. QED
    BY <2>1, <2>4 DEF NoneShown
<1>6. ASSUME NEW r \in Requests, NEW w \in Workers, NEW q \in CommonQueues,
             Fetched(r, w, q)
      PROVE  Goal
  <2>1. /\ cur'[w] = r /\ \A v \in Workers : Takes(v) => v = w
        /\ Takes(w) /\ \A x \in Requests : ~Accepts(x) /\ ~Delivers(x)
    BY <1>6, <1>r DEF Fetched
  <2>2. /\ q \in ReqQueues /\ r \in Pooled[q] /\ Own' = Own /\ cpc' = cpc
        /\ cpc[r] # "enqueue" /\ \A p \in ReqQueues \ {q} : r \notin Pooled[p]
        /\ \A v \in Workers : r \notin Own[v]
    BY <1>6, QueueNames DEF Fetched, Runs, Held1, Single, CallersOwn, Outside
  <2>3. \A x \in Requests, p \in ReqQueues :
           x \in Pooled'[p] <=> x \in Pooled[p] /\ ~(x = r /\ p = q)
    BY <1>6 DEF Fetched, Typed
  <2>4. /\ Waiting' = Waiting \ {r} /\ r \in Waiting /\ Pending' = Pending \ {r}
        /\ r \in Pending /\ Pooled' # Pooled
    BY <2>2, <2>3 DEF Waiting, Pending
  <2>5. QED
    BY <2>1, <2>4 DEF NoneShown
<1>7. ASSUME NEW r \in Requests, NEW w \in Workers, NEW K \in SUBSET Requests,
             Released(r, w, K)
      PROVE  Goal
  BY <1>7 DEF Released
<1>8. ASSUME NEW w \in Workers, Ran(w) PROVE Goal
  <2>1. NoneShown
    BY <1>8 DEF Ran, NoneShown, Accepts, Delivers, Takes, Accepted, Typed
  <2>2. Waiting' = Waiting /\ Pending' = Pending
    BY <1>8 DEF Ran, Waiting, Pending
  <2>3. QED
    BY <2>1, <2>2 DEF NoneShown
<1>9. ASSUME NEW w \in Workers, Ended(w) PROVE Goal
  <2>1. NoneShown
    BY <1>9 DEF Ended, NoneShown, Accepts, Delivers, Takes, Accepted, Typed
  <2>2. Waiting' = Waiting /\ Pending' = Pending
    BY <1>9 DEF Ended, Waiting, Pending
  <2>3. QED
    BY <2>1, <2>2 DEF NoneShown
<1>10. QED
  <2> HIDE DEF Goal
  <2>1. Goal
    BY <1>1, <1>2, <1>3, <1>4, <1>5, <1>6, <1>7, <1>8, <1>9 DEF Move
  <2>2. QED
    BY <2>1 DEF Goal

LEMMA BumpCounts ==
    ASSUME stat \in [StatNames -> Nat], NEW F, stat' = Bump(F)
    PROVE  \A f \in StatNames : stat'[f] = stat[f] + (IF f \in F THEN 1 ELSE 0)
BY DEF Bump

LEMMA StepAudit ==
    ASSUME StatStep, Typed, Typed', Held1, Move, Pooled["barrier"] = {},
           stat \in [StatNames -> Nat], Audited
    PROVE  Audited'
<1> DEFINE W == Waiting
           P == Pending
<1>1. /\ IsFiniteSet(W) /\ IsFiniteSet(P)
      /\ Cardinality(W) \in Nat /\ Cardinality(P) \in Nat
  BY FS_CardinalityType DEF Audited
<1>2. \A f \in StatNames : stat[f] \in Nat
  OBVIOUS
<1>3. CASE NoneShown /\ stat' = stat
  BY <1>3, MoveShows DEF Audited
<1>4. ASSUME NEW r \in Requests, Accepts(r), stat' = Bump({"sched"}) PROVE Audited'
  <2>1. W' = W \cup {r} /\ r \notin W /\ P' = P \cup {r} /\ r \notin P
    BY <1>4, MoveShows
  <2>2. /\ IsFiniteSet(W') /\ Cardinality(W') = Cardinality(W) + 1
        /\ IsFiniteSet(P') /\ Cardinality(P') = Cardinality(P) + 1
    BY <1>1, <2>1, FS_AddElement
  <2>3. \A f \in StatNames : stat'[f] = stat[f] + (IF f = "sched" THEN 1 ELSE 0)
    BY <1>4, BumpCounts
  <2> HIDE DEF W, P
  <2>4. QED
    BY <1>1, <1>2, <2>2, <2>3, SMTT(60) DEF Audited, StatNames, W, P
<1>5. ASSUME NEW r \in Requests, NEW f \in {"fast", "slow"}, Delivers(r),
             stat' = Bump({"direct", f})
      PROVE  Audited'
  <2>1. W' = W /\ P' = P \ {r} /\ r \in P
    BY <1>5, MoveShows
  <2>2. IsFiniteSet(P') /\ Cardinality(P') = Cardinality(P) - 1
    BY <1>1, <2>1, FS_RemoveElement
  <2>3. \A g \in StatNames : stat'[g] = stat[g] + (IF g \in {"direct", f} THEN 1 ELSE 0)
    BY <1>5, BumpCounts
  <2>4. /\ stat'["sched"] = stat["sched"] /\ stat'["served"] = stat["served"]
        /\ stat'["direct"] = stat["direct"] + 1 /\ stat'["common"] = stat["common"]
        /\ stat'["fast"] + stat'["slow"] = stat["fast"] + stat["slow"] + 1
        /\ stat'["shutdown"] = stat["shutdown"]
    BY <1>2, <2>3 DEF StatNames
  <2> HIDE DEF W, P
  <2>5. QED
    BY <1>1, <1>2, <2>1, <2>2, <2>4 DEF Audited, StatNames, W, P
<1>6. ASSUME NEW w \in Workers, Takes(w), UNCHANGED m_queue, stat' = Bump({"served"})
      PROVE  Audited'
  <2>1. W' = W \ {cur'[w]} /\ cur'[w] \in W /\ P' = P
    BY <1>6, MoveShows DEF Pooled
  <2>2. IsFiniteSet(W') /\ Cardinality(W') = Cardinality(W) - 1
    BY <1>1, <2>1, FS_RemoveElement
  <2>3. \A g \in StatNames : stat'[g] = stat[g] + (IF g \in {"served"} THEN 1 ELSE 0)
    BY <1>6, BumpCounts
  <2>4. /\ stat'["sched"] = stat["sched"] /\ stat'["served"] = stat["served"] + 1
        /\ stat'["direct"] = stat["direct"] /\ stat'["common"] = stat["common"]
        /\ stat'["fast"] = stat["fast"] /\ stat'["slow"] = stat["slow"]
        /\ stat'["shutdown"] = stat["shutdown"]
    BY <1>2, <2>3 DEF StatNames
  <2>5. stat["sched"] \in Nat /\ stat["served"] \in Nat
    BY <1>2 DEF StatNames
  <2>6. Pending' = Pending /\ IsFiniteSet(Waiting')
        /\ Cardinality(Waiting') = Cardinality(Waiting) - 1
        /\ Cardinality(Waiting) \in Nat
    BY <1>1, <2>1, <2>2
  <2>7. /\ IsFiniteSet(Pending) /\ stat["shutdown"] = 0
        /\ stat["sched"] = stat["served"] + Cardinality(Waiting)
        /\ stat["sched"] = stat["direct"] + stat["common"] + Cardinality(Pending)
        /\ stat["direct"] + stat["common"] = stat["fast"] + stat["slow"]
    BY DEF Audited
  <2>8. stat'["sched"] = stat'["served"] + Cardinality(Waiting')
    <3>1. \A a, c \in Nat : a + c = (a + 1) + (c - 1)
      OBVIOUS
    <3>2. stat["served"] + Cardinality(Waiting)
             = (stat["served"] + 1) + (Cardinality(Waiting) - 1)
      BY <2>5, <2>6, <3>1, Zenon
    <3>3. QED
      BY <2>4, <2>6, <2>7, <3>2, Zenon
  <2>9. stat'["sched"] = stat'["direct"] + stat'["common"] + Cardinality(Pending')
    BY <2>4, <2>6, <2>7
  <2>10. IsFiniteSet(Waiting') /\ IsFiniteSet(Pending')
    BY <2>6, <2>7
  <2>11. /\ stat'["direct"] + stat'["common"] = stat'["fast"] + stat'["slow"]
         /\ stat'["shutdown"] = 0
    BY <2>4, <2>7
  <2>12. QED
    BY <2>8, <2>9, <2>10, <2>11 DEF Audited
<1>7. ASSUME NEW w \in Workers, NEW f \in {"fast", "slow"}, Takes(w),
             UNCHANGED wrk_queue, stat' = Bump({"served", "common", f})
      PROVE  Audited'
  <2>1. W' = W \ {cur'[w]} /\ cur'[w] \in W /\ P' = P \ {cur'[w]} /\ cur'[w] \in P
    BY <1>7, MoveShows DEF Own
  <2>2. /\ IsFiniteSet(W') /\ Cardinality(W') = Cardinality(W) - 1
        /\ IsFiniteSet(P') /\ Cardinality(P') = Cardinality(P) - 1
    BY <1>1, <2>1, FS_RemoveElement
  <2>3. \A g \in StatNames :
           stat'[g] = stat[g] + (IF g \in {"served", "common", f} THEN 1 ELSE 0)
    BY <1>7, BumpCounts
  <2> HIDE DEF W, P
  <2>4. QED
    BY <1>1, <1>2, <2>2, <2>3 DEF Audited, StatNames, W, P
<1>8. QED
  BY <1>3, <1>4, <1>5, <1>6, <1>7 DEF StatStep

AuditInv == StopInv /\ Resting /\ Audited

LEMMA StepAuditInv ==
    ASSUME AuditInv, [Next]_vars, StopPolicy # "any", BarrierReqs = {}
    PROVE  AuditInv'
<1>1. PInv /\ PlInv /\ SInv /\ Held1 /\ TypeOK /\ BarrierCounted
  BY DEF AuditInv, StopInv, PInv, PlInv, SInv, WInv, TInv
<1>2. StopInv' /\ Resting' /\ StatStep /\ Move
  BY <1>1, StepStop, StepResting, StepStat, StepMoves DEF AuditInv
<1>3. TypeOK'
  BY <1>2 DEF StopInv, PInv, PlInv, SInv, WInv, TInv
<1>4. Typed /\ Typed'
  BY <1>1, <1>3, TypedFromType, PTL
<1>5. Pooled["barrier"] = {}
  <2>1. m_queue["barrier"] = <<>>
    BY <1>1, QueueNames DEF AuditInv, Resting, BarrierCounted, TypeOK, RequestType
  <2>2. QED
    BY <2>1, QueueNames DEF Pooled, Elems
<1>6. Audited'
  BY <1>1, <1>2, <1>4, <1>5, StepAudit DEF AuditInv, TypeOK, StatType
<1>7. QED
  BY <1>2, <1>6 DEF AuditInv

LEMMA InitAudit == Init /\ InitWorkers \ MayFail # {} => AuditInv
<1> SUFFICES ASSUME Init, InitWorkers \ MayFail # {} PROVE AuditInv
  OBVIOUS
<1>1. StopInv /\ Resting
  BY InitStop DEF Init, Resting
<1>2. Waiting = {} /\ Pending = {}
  BY DEF Init, Waiting, Pending, Pooled, Own, Elems
<1>3. \A f \in StatNames : stat[f] = 0
  BY DEF Init
<1>4. QED
  BY <1>1, <1>2, <1>3, FS_EmptySet DEF AuditInv, Audited, StatNames

LEMMA AuditHolds == AuditInv => AuditMatches
<1> SUFFICES ASSUME AuditInv, stop_pc = "stopped" PROVE AuditMatches!2
  BY DEF AuditMatches
<1>1. /\ \A w \in Workers : wrk_queue[w] = <<>>
      /\ \A q \in ReqQueues : m_queue[q] = <<>>
      /\ \A r \in Requests : cpc[r] # "enqueue"
  BY StopVerifies
     DEF AuditInv, StopVerified, StopInv, PInv, PlInv, SInv, WInv, Threads, QuietStop
<1>2. Waiting = {} /\ Pending = {}
  BY <1>1 DEF Waiting, Pending, Pooled, Own, Elems
<1>3. stat \in [StatNames -> Nat]
  BY DEF AuditInv, StopInv, PInv, PlInv, SInv, WInv, TInv, TypeOK, StatType
<1>4. QED
  BY <1>2, <1>3, FS_EmptySet DEF AuditInv, Audited, StatNames

(* When thp_stop returns, the audit of thp_dump_stat matches as well: every *)
(* request that was scheduled was served, by a worker it was handed to or   *)
(* from the common queues, from the fast or the slow queue and never by its *)
(* caller (request.cpp, lines 270-272), for any number of workers and       *)
(* requests, with no barriers and no call of schedule under way.            *)
THEOREM ShutdownIsVerified ==
    ASSUME StopPolicy # "any", InitWorkers \ MayFail # {}, BarrierReqs = {}
    PROVE  Spec => []ShutdownVerified
<1>1. AuditInv => ShutdownVerified
  BY StopVerifies, AuditHolds DEF AuditInv, ShutdownVerified
<1>2. QED
  BY InitAudit, StepAuditInv, <1>1, PTL DEF Spec
=============================================================================
