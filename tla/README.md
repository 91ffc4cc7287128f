# Formal models of the tvntd service framework

This directory is a TLA+ verification project for the C/C++ part of tvntd: the
dependency-injection framework under `common/` and `include/` that the key
server and the unit tests are built on. The core of that framework is its
execution engine (`common/di/request.cpp`): requests, coalesced tasks and a
thread pool with worker-private queues, barriers, dynamic threads and a
verified shutdown. Around it the project models the logger, the life cycle of
the program's modules, the hash table they are found in, the user cache of the
crypto client and the key server with its database.

Run a model with `tlc -config X.cfg M`, check proofs with `tlapm M_proofs.tla`.

## 1. Inventory

| Part | State | Operations | Hard behaviour | What makes it correct |
|---|---|---|---|---|
| ThreadPool, WorkerThread (`di/request.cpp`, `di/request-impl.h`) | five request queues, four lists of workers, per worker a queue, a state and a condition variable, the counters of active requests, barrier requests and threads, statistics | `schedule`, `schedule_barrier`, `worker_enqueue`, `worker_spawn_thr`, `worker_loop`, `get_req_or_put_idle`, `thp_promote_barrier_lck`, `thp_thread_terminate`, `thp_stop`, `thp_dump_stat` | two kinds of locks plus unlocked accesses, lost wake-ups, `pthread_create` failing, shutdown racing with callers | each request is executed once, none is stranded, barriers keep order, shutdown ends and its verifications hold |
| Request (`di/request.cpp`) | flags, module, pointer to the waiter's condition variable, chain | `req_wait`, `req_exec_task`, `req_done` | the waiter's condition variable is on its stack; completion by another thread | the waiter wakes after completion, completion happens once |
| Task (`di/request.cpp`) | atomic count of pending submissions | `task_submit`, `req_exec_task` | lock-free coalescing | one runner at a time, no submission lost |
| Logger, LogModule (`di/logger.cpp`) | free and pending buffers, flush task, file | `log`, `get_buffer`, `log_buffer`, `flush_logs`, `mod_init` ... `mod_cleanup` | the flush works outside the lock; cleanup drops the task and closes the file | a buffer is in one place, every line is written once, in order, to one sink |
| Module, Program (`di/module.cpp`, `di/program.cpp`) | tree of modules, slots, phase bits | the seven phases, `mod_register`, `mod_register_index`, `mod_unregister`, `module_start`, `module_shutdown`, `prog_run` | virtual and base calls that both recurse; the tree changes during a walk | every phase runs once per module, in order, and reaches all; slots and indices agree |
| Trace (`di/log.cpp`) | ring of records and an index | `trace`, `dump_trace` | slot claimed under a lock, filled without | promises nothing; not modelled |
| LruTable (`cpptype/lru-cache.cpp`), user cache (`crypto/user-cache.cpp`), Crypto (`crypto/crypto.cpp`, `crypto-user.cpp`) | hash table and list, public keys per user | lookup, insert, evict, clear; `gen_rsa_key`, `get_rsa_key`, `get_public_keys` | a lookup, the allocation of a missing object and its insertion are separate lock sections; remote calls in between | table and list agree, size bounded, one object per user, callers get the right key |
| SyncLock (`cpptype/lock.cpp`) | expected and received notifications | `sync_wait`, `sync_done`, `sync_adjust_wait` | used by the unit tests only | not modelled |
| PageLock (`util/pagelock.cpp`) | reference count per page | `pg_lock_range`, `pg_unlock_range` | counts never fall | not modelled |
| uuid map (`ctype/uuid-map.c`) | buckets with one lock per group | assign, look up | release is a stub | not modelled |
| Shared memory lists (`ctype/shm-slist.c`, `shm-dlist.c`, `shm-slab.c`) | offsets in a segment | insert, remove, `isl_fixup_list` | crash between two stores | no user in the build; not modelled |
| Hash table (`ctype/hash.c`, `cpptype/hash-obj.cpp`) | chains, count, iterator | insert, remove, find, rehash, iterate, take out | a lookup rebuilds the table; the iterator takes out what it stands on | no element lost or doubled, exact count, complete and finite iterations |
| Lists, state machines, bitmaps (`ctype/`, `cpptype/`) | links, tables | sequential algorithms | boundaries | not modelled; used as sequences |
| Asynchronous RPC, key server, LevelDB wrapper (`util/async-rpc.cpp`, `app/`, `db/`) | request objects and their states, completion queue, key records and version lists | `run_server_loop`, `proceed`, `register_requests`, `generate_key`, `query_pub_key`, `save_account`, `write_batch` | several loops on one queue, failed responses, unlocked read-modify-write, crash | one thread per object, always accepting, list and records agree, each call executed once |
| JSON, bindings, cryptographic primitives, file utilities | - | parsing, formatting, I/O, library calls | none for a model checker | not modelled |
| `java/`, `foss/` | - | web site, vendored code | - | not modelled |

How the parts interact: any thread calls `ThreadPool::schedule` (directly,
through `Module::mod_schedule` or through `Task::task_submit`). A worker calls
`Request::req_exec_task`, which calls back the module's `mod_exec` and then
`req_done`, or leaves the request on a queue of the module for a completion
thread. The caller may block in `req_wait`. `Program::prog_run` drives all
modules through their phases; the pool's `mod_shutdown` calls `thp_stop`. The
logger's flush is a task of the system pool. Modules are found by name in a
hash table; the same table, under a lock of its own, is one half of the user
cache. `Crypto` fills that cache with keys it generates or queries on the key
server, whose detached threads share one completion queue and one database.

The hazards this code is exposed to are listed, each at its line, in
`PROJECT.json`.

## 2. Plan

1. `Task`, `ThreadPool` with the abstract `RequestPool`, `Request`, and their
   first theorems (done).
2. `LogModule`, composed with `Task`; `ModuleTree`; `DHash`; `UserCache`;
   `KeyServer` with the abstract `KeyStore` (done).
3. Proofs of the safety properties and refinements: first `Request`, the pool
   with its refinement of `RequestPool`, `ModuleTree`, `UserCache`, and
   `KeyServer` with its refinement of `KeyStore`; then `LogModule`, whose proof
   rests on that of `Task`, and `DHash` (done, section 5). Every safety property
   that a run checks is a theorem now, under the conditions that section 5 names;
   the liveness properties stay with TLC.

## 3. Modules

| Module | Models |
|---|---|
| `Task` | `Task::task_submit` and `Task::req_exec_task` |
| `ThreadPool` | `ThreadPool`, `WorkerThread`, the parts of `Module` they use |
| `RequestPool` | abstract: what the pool promises who schedules on it |
| `Request` | `Request::req_wait`, `req_exec_task`, `req_done`, and what the two schedule calls record in a request |
| `LogModule` | `Logger::log` and `LogModule`, over an instance of `Task` |
| `ModuleTree` | the phases and the registration of `Module`, `Program::prog_run` |
| `DHash` | `dhash_t` and `DHashObj` with their iterators |
| `UserCache` | `UserLruCache` over `LruTable`, the keys of `UserCrypto`, the key calls of `Crypto` |
| `KeyServer` | `ServerAsync`, `AsyncKeyServer`, `KeyServer`, `KeyServerDb` |
| `KeyStore` | abstract: what the key server promises its clients |
| `MC*` | constants and symmetry for TLC |
| `Task_proofs`, `ThreadPool_proofs`, `Request_proofs`, `LogModule_proofs`, `ModuleTree_proofs`, `DHash_proofs`, `UserCache_proofs`, `KeyServer_proofs` | theorems about the module of that name |

**Task.** Each atomic operation on `tsk_pend` is a step. `chained` stands for
`obj_is_chained()`. `unserved` is a history variable: submissions after which no
handler pass has started. `MaxSubmit` bounds the calls.

**ThreadPool.** A section of code under `m_mod_mtx`, and a section of
`worker_enqueue` under `wrk_mtx`, is one step; code between lock sections is
split where another thread can be seen: `spawn_check`, `spawn_state`,
`spawn_count`, `spawn_create` or `spawn_fail` and `spawn_undo` for
`worker_spawn_thr`, and `worker_recheck`, `worker_verify`, `worker_wait` for the
way a worker goes to sleep. `wpc` and `cpc` say where a worker and the caller of
a request are; `HoldsLock` says when a worker has its `wrk_mtx`, which
`worker_enqueue` waits for and which `thp_stop`, `thp_thread_terminate` and
`thp_promote_barrier_lck` ignore, as in the code. The lists of `thp_queue` are
kept as the list each worker is on (`wrk_list`); which worker of a list is at
its front is left open, so the model allows every order the code can have.
`wrk_reqcnt` is the length of `wrk_queue`. `schedule` is split by its branches,
with the second half (after `m_mod_mtx` is released) in actions of its own. A
failed `assert` or `verify` moves the thread to `"abort"`, and nothing happens
afterwards (`Aborted`). The abort that ends the process is modelled for the
assertions other threads can influence: line 697 and line 97; the
verifications of shutdown and audit are the invariants `StopVerified` and
`AuditMatches`, together `ShutdownVerified`. `stat` holds the request counters
the audit compares (lines 270-272), summed over the workers; the numbers of
threads that entered and left `worker_loop` (line 269) are not kept, and that no
thread is left is part of `StopVerified`. A request is scheduled once, by a thread of its own. `prior` is a
history variable: the requests the pool had accepted when `schedule_barrier`
was called for a request.

`StopPolicy` says what users guarantee about shutdown: `"never"` called,
`"quiet"` (after the last call of `schedule` returned, as `Program::prog_run`
intends by disabling services first) or `"any"`.

**RequestPool.** A request goes from new to accepted, running and done; a
deferred barrier starts after everything accepted before it is done, and nothing
accepted after it starts before it. `ThreadPool` instantiates it as `Promise`
with `Progress` as refinement mapping; a second execution maps to a status the
promise does not have.

**Request.** The caller, the worker and the completion thread of each request,
with one module lock shared by all requests (`mod_get_lock` hashes requests to
locks; sharing one is the case with most blocking). The steps inside `req_done`
are separate because line 65 clears `rq_cv` without the lock. `KeptReqs` are the
requests `mod_exec` may keep on a queue of the module, `BarrierReqs` those that
are passed to `schedule_barrier`.

**LogModule.** A logger takes a buffer and formats it, pushes it and submits the
task; sections under `l_mtx` are steps, and so is every single write of a flush,
which holds no lock. The task's own steps are those of `Task`, whose variables
the module shares (`T == INSTANCE Task`), so that the claim "one flush at a time"
is not assumed but comes from the atomic operations on `tsk_pend`. The main
thread runs `mod_init`, the banner of `mod_enable_service`, `pool_stop` (what
`thp_stop` promises: no thread and no work left) and `mod_cleanup`, whose last
flush is the main thread's. `pushed` is a history variable. A line is a number;
its text, the level and the path of the file are left out, but `fopen` may fail.

**ModuleTree.** A phase is a recursive function; `stack` holds its active walks,
with the index each is at and whether it has made the virtual call and still has
to make the base call. `Overrides` says which modules override which phase: as
everywhere in the program an override does not call the base. While a phase
runs, an override may register one of `Late`, in a new or in an emptied slot, or
unregister one of `Leaving`; in `run()`, between the fourth and the fifth phase,
the main thread may start a module of `Solo` by `module_start`, stop it, or
register it, as the unit tests do. A module between its virtual and its base call is
not unregistered (`Visited`): the code reads the slot again and would call
through a null pointer. `ran` is the history of the work done and `expected` the
modules a phase has to reach. The constructors build a tree
(`ShapeAssumption`): a module is in one slot, since `mod_register` takes it once,
and every container is reached from `p_module`. What is registered or leaves
later has no sub modules, and a module of `Solo` overrides every phase. Two
modules that `run()` started by itself are started in the order `run()` chose,
which `SiblingOrder` therefore says nothing of.

**DHash.** Chains are sequences. A rehash is one step per element, so that the
iterator's stepping back over the chains is visible; the other functions are one
step. `MaxChain` stands for 32. Between the steps of an iteration the caller may
insert and remove other elements. The `dh_hash_fn` of the table and the
`hash_fn` of a call are separate constants, and the run makes them the same:
`DHashObj` is initialized with the hash of string keys, and after a rehash
elements that were inserted by another hash are not found again. `dhash_filter`
is left out: its one caller selects nothing.

**UserCache.** A section under `m_lock` or `usr_mtx` is a step; between them a
thread holds a reference to an object that may be evicted, which keeps the
object alive and outside the table. Objects that nothing refers to are reused,
which is sound because they are initialized on allocation. A call executes at
one moment on the server, as in `KeyStore`: a generation stores its key and
answers with it, answers with a key its database refused (`rpc_generate`), or
answers ok without one (`rpc_generate_failed`); a query answers with what is
stored. The call may instead end with an error (`rpc_error`, before or after the
server has done the work), and a generation that was given up may be executed
later (`rpc_late`). `server` holds the keys that are stored, `refused` those that
clients were answered with all the same. The synchronous and the asynchronous
form of `get_rsa_key` take the same steps but differ where the answer has no key
(`reply_empty`): failure in one, ok in the other. So what `AnswersSound` promises
of a key that is returned is that the server made it for that user and version;
that it is stored is promised, and needed, only of keys that were stored when the
call began. A version is generated once: the code relies on that, since
`put_public_key` asserts that a version never gets a second key.

**KeyServer.** The life of a request object (`srq_st`) and where it is known:
registered in gRPC, in the completion queue, with a thread, or to be sent. gRPC
is modelled by what the code relies on: an object gets one call, one event per
operation, an event goes to one thread, a response may fail (`ok` false).
`save_account` is a read and a batch in two steps with other threads between
them; the batch is atomic, may be refused, and survives a crash of the process
(not of the machine: it is written without `sync`). `raced` is a history
variable: users for which two saves overlapped. Two of the seven methods are
modelled; the others read only, do nothing, or save through the same
`save_account`.

**KeyStore.** A call is executed at one moment after it was made, even when the
client has been told of an error; a generated key is stored unless the database
refuses. `KeyServer` instantiates it as `Store` with its own variables; `resp`,
set when a handler ends, is the moment of execution.

Left out: `worker_terminate_thr` (no caller; it calls a function that does not
exist), `ms_now` (unused by the code), `thp_idle` and `thp_maxq` (never read),
`rq_evfd`, and counters that no verification compares.

## 4. Runs

| Run | Shows |
|---|---|
| `task` | one owner, assertions, no lost submission; each submission is served |
| `pool_shutdown` | regular requests on the fast, slow and suspend queues, dynamic threads, failing `pthread_create`, spurious wake-ups, quiet shutdown |
| `pool_stop_any_time` | shutdown anywhere inside `schedule`: nothing accepted is dropped |
| `pool_barrier` | two barriers, promotion and shutdown: order, exact counters, clean stop, refinement of `RequestPool` |
| `pool_live` | every accepted request and barrier is executed |
| `request` | a request the module keeps beside a barrier: waiting, handling, completion once, signals only to a frame that waits |
| `log` | loggers, flush task and shutdown: buffers, order, one sink, nothing left, each line written |
| `module_tree` | the phases over a nested tree that changes while it is walked |
| `dhash` | rehash, removal and iteration |
| `user_cache` | threads and evictions; a server that fails to make or to save a key, and remote calls that fail or happen late; every call returns |
| `key_server` | two loops, failed responses, overlapping saves and a crash; refinement of `KeyStore` |

Properties that belong together are checked as one conjunction of named parts,
each with its own comment in the module: `WorkAccounted` (`HeldOnce`,
`CountersExact`, `NoneStranded`) and `ShutdownVerified` (`StopVerified`,
`AuditMatches`) of the pool; `LogSound` (`BufferOnce`, `InOrder`) and
`ShutdownSound` (`TaskAlive`, `OneSink`, `CleanupComplete`) of the log;
`TreeSound` (`SlotsAgree`) and `PhasesSound` (`OncePerPhase`, `PhaseComplete`,
`StartedFirst`, `SiblingOrder`, `ContainerFirst`) of the tree; `TableSound`
(`LinkedOnce`, `CountExact`, `FindsOldest`) and `IterationSound` (`IterSound`,
`IterComplete`) of the hash table; `CacheSound` (`TableIsList`,
`OneObjectPerUser`, `SizeKept`) and `AnswersSound` (`RightUser`, `Coherent`,
`Answers`) of the cache; `ObjectsSound` (`OneHolder`, `StateTellsEvent`,
`AlwaysAccepting`) and `DbConsistent` (`ListedStored`, `StoredListed`) of the
key server. In the newer modules the first conjunction includes `TypeOK`.

One run is expected to fail, for a line of the repository that says otherwise
(quoted in `PROJECT.json` under `findings`): in `pool_stop_hangs` the signal of
`thp_stop` falls between a worker's last test and its wait, and shutdown never
ends.

Other disagreements between the code and its assertions or comments show with
the same modules and other constants or properties; the runs above are set up
so that they do not hide the rest:

- `NoAbort` with a barrier: the `verify` of `request.cpp:697` fails when
  `thp_promote_barrier_lck` changes the state of a worker that was put idle and
  has not yet waited (line 547).
- `AuditMatches` with a barrier: a deferred barrier is counted as scheduled but
  by none of the counters of served requests (lines 511-516), so the audit of
  line 271 fails.
- A barrier that was found "ok to submit as a regular request" (line 483) keeps
  no order: the lock is released before `schedule` takes it again.
- `req_wait` on a deferred barrier returns at once, since line 476 sets a flag
  in the word that line 60 tests; `WaitsForDone` excludes `BarrierReqs`.
- A request that the module keeps and its completion thread dequeues before
  line 102 looks at the chain is completed twice; `DoneOnce` excludes
  `KeptReqs`.
- `NoAbort` with `StopPolicy = "any"`: `thp_stop` between the two halves of
  `schedule` makes line 459 execute a request that is still queued, against the
  assertion of line 97.
- `HandledFirst` for a request in `BarrierReqs`: the deferred path never sets
  `rq_mod`, so `mod_exec` is not called.
- `FindsOldest` with a `hash_fn` that is not `dh_hash_fn`: see `DHash` above.
- `OncePerPhase` for `mod_cleanup` of a module without sub modules: its bit is
  never set (`module.cpp:301`), and a second `module_shutdown` repeats it.
- `StoredListed` without `raced`: of two overlapping saves the first one's
  version is lost from the user's list.
- `gen_rsa_key` returns ok when the remote call failed or brought no key, the
  asynchronous `get_rsa_key` when the answer has none, and `get_public_keys`
  never asks the server, because `get_all_pub_keys` is true for every user; the
  actions `rpc_error`, `reply_empty` and `get_all_pub_keys` of `UserCache` say so.
- A key that the database refused is cached and returned by the client although
  the server does not find it (`key-service.cpp:142-146`); `Coherent` and
  `Answers` speak of keys the server made, not of keys it has.

A request parked on `time_wait` or `suspend` is never resumed by the code, stays
counted in `thp_sched_req` and keeps the pool from stopping; `StopVerified` says
nothing of such a run.

**Bounds.** Two workers and three requests are enough for a request on each
kind of queue with a second worker to race with, for a barrier with one request
before and one behind it (a barrier that is let through counts as a regular
request), and for two barriers between which promotion must stop; a fourth
request found nothing new with the order and the counters and does not end
within minutes with all properties. `ReqMaxRR` is 8 in the code and 1 in the
models, so that the round robin happens with few requests. `Requests` is finite
and each is scheduled once; the counters are bounded by it, no other bound is
needed. In `pool_shutdown` and `pool_live` one thread starts with the pool and
the second on demand, and only the second may fail to start. The task run takes
three submitters, two workers, so that two could run the handler at once, and
five submissions. The request run takes two requests with different roles, which
meet at the module's lock. Workers started alike and requests of the same kind
are symmetric in the safety runs of the pool; symmetry is not used for liveness.

The log run has loggers and workers enough for a line to be pushed while a
flush runs and while another line is merged into its submission, and lines
enough for a buffer to be used again. The tree has a container with
one module between two modules, so that walks nest and siblings stand on both
sides; its arrays are small enough to grow. `MaxSolo` lets `run()` start a
module and stop it twice. The hash table has two buckets at first and a rehash
after two comparisons, so that it is rebuilt with elements in several chains and
an empty one; `MaxSize` allows the rebuilds the elements can cause. The cache
holds two of three users, two threads make three calls, so that each may miss,
be evicted and overtaken; one user's key is on the server from the beginning, the
others' are generated. One version per user keeps the run with every failure of
the server within minutes; that versions are not mixed up, for any number of
them, is part of the theorem. The key server has two loops (five in the code), two generations for one user that
may overlap, a query, and one crash anywhere.

**Deadlock** is not checked where the system may rightly stop: all requests
are served and nobody calls, the pool or the program is stopped, a bound on
calls is reached, or an assertion has ended the process. `NoneStranded` and the liveness properties
say that it does not stop with work left.

**Fairness.** Weak fairness of each thread's own steps: the operating system
runs every thread that can run, and a request's `req_exec_task` returns. No
fairness for callers that have not called, for `thp_stop`, for the result of
`pthread_create` or for spurious wake-ups. The liveness runs of the pool exclude
spurious wake-ups: with weak fairness, a worker that wakes without cause again
and again could hold `wrk_mtx` whenever `worker_enqueue` tries to take it. Spurious
wake-ups are rare in practice and are part of the safety runs. In `Request` the
module is assumed to complete what it keeps. In `LogModule` some worker takes a queued task, which is
what `pool_live` shows of the pool; nobody has to log or to stop. In
`ModuleTree` the main thread goes on and overrides return. In `DHash` the thread
goes on with a loop it is in; callers that insert in a loop for ever are
excluded by `MaxInserts`. In `UserCache` a remote call ends, with an answer or
an error, as gRPC guarantees. In `KeyServer` every thread goes on, an event is
given to some thread that waits for one, and gRPC connects calls and sends
responses; clients and crashes are not obliged to happen.

## 5. Proofs

All for every value of the constants; TLC evaluates the assumptions on them on
every run.

- `Task_proofs`: the invariant `IInv` adds to type and `OneOwner` that the task
  has an owner exactly when `tsk_pend > 0` (`Owned`), that what a worker has
  loaded never exceeds the count and what is unserved is covered by the
  difference (`Paid`), and that passes are paid by submissions (`Passes`).
  `OneOwner`, `AssertsHold`, `NoLostSubmit`, the type and `LoopBounded`, which no
  run repeats, follow.
- `ThreadPool_proofs`, first part: `PoolTypeCorrect` needs `BarrierCounted`
  (`thp_barrier_cnt` is the length of the barrier queue), since `get_barrier`
  takes the head of that queue on the counter's word. `NoLostWakeup` and
  `SleepersAreFound` use `WInv`: no caller is inside `schedule` when the pool is
  stopped (`QuietStop`), a running worker is not being spawned and a spawned one
  does not run (`RunningStates`, `SpawnTargets`, `SpawnStates`), listed workers
  have threads (`ListedThreads`), and a worker on its way to sleep is listed or
  about to be handed a request (`RestersTracked`). Both assume
  `StopPolicy # "any"`.
- Its second part, where requests are, for `StopPolicy # "any"`. `StepMoves` shows once, for
  all actions, that a step moves at most one request (`Move`: handed to a worker,
  taken to a queue, popped, fetched, executed, ended, or promoted together with
  the requests behind a barrier); everything about places then is about moves.
  `PInv` says that a request is in one place and waits unexecuted (`Held1`,
  `Distincts`) and that `thp_sched_req` is the number of active requests
  (`Counted`); `Watch` that somebody is awake for ready work, and that otherwise
  an idle worker is where `schedule` looks. Together they give
  `WorkIsAccounted`. `Ordered` describes the barrier queue: behind the first
  barrier the queue is in the order of the calls, and a waiting barrier has in
  `prior` everything accepted that does not wait with it. From it follow
  `BarriersInOrder` and, with a request's stage read off its place,
  `PoolImplementsPromise`: every step is one of `RequestPool` or a stutter.
- Its third part, stopping. `ThreadsAreCounted` and `NoRequestLost` hold for every
  `StopPolicy`. The first follows from what a step does to threads
  (`ThreadMove`), with the fact that a worker that is being spawned has no
  thread (`Spawns`); the second from every step leaving a stored request
  stored. `StopIsVerified` assumes `StopPolicy # "any"` and a thread that starts
  with the pool (`InitWorkers \ MayFail # {}`; without one nobody serves and
  nobody is waited for): until the stop some worker is in its loop, and the last
  one leaves it only when nothing is active or behind a barrier (`Leaving`).
  `NothingAborts` assumes a quiet stop and no barriers, because with barriers
  the `verify` of line 697 can fail (section 4); `Resting` says what states a
  worker on its way to sleep may have. `ShutdownIsVerified` adds the audit,
  which also does not match with barriers: `Audited` accounts each statistic for
  the requests that still wait.
- `LogModule_proofs`: `LogAlwaysSound` and `ShutdownAlwaysSound`. `LogModule`
  shares the variables of `Task`, so every step of it is one of `Task` or leaves
  those alone (`StepTask`), and the invariant of `Task_proofs` holds of them
  (`TP!IInv`): at most one thread is in the handler, which gives one flush at a
  time (`OneFlush`). `Control` says where threads are by how far `prog_run` is:
  after `thp_stop` no thread is in the logger or the task. Each buffer that was
  allocated is in a queue or with a logger (`Placed`), in one of them (`Apart`)
  and once (`Distincts`). `InOrder` is inductive by itself: a line moves from the
  end of one of the three parts of `pushed` to the beginning of another. What is
  written is for one sink and holds one banner (`Sinks`, `OneBanner`), and the
  lines not pushed yet are with loggers (`Counted`). `LogAssumption` keeps the
  main thread, which runs the last flush, apart from the workers.
- `Request_proofs`: `RequestTypeCorrect`; `WaitBlocksUntilDone` for every request
  that is no barrier; `DirectDoneOnce` and `SignalsInScope` for every request
  `mod_exec` does not keep, whatever the others do; `HandledBeforeDone` for every
  request that is no barrier. The invariants are those of a single request
  (`Direct`: the phases of its caller and worker, when `complete` is set, and
  that its condition variable is in use while a signal is due; `HandleInv`:
  `mod_exec` was called once unless the request is on its way to it, and until
  then nothing completes it); `StepDirect` and `StepHandle` show that its own
  steps keep them and `StepFrame` that the steps of other requests do not touch
  them or the lock its worker holds. Barriers and kept requests are rightly left
  out, see the disagreements in section 4.
- `ModuleTree_proofs`: `TreeAlwaysSound` and `PhasesAlwaysSound`, for every tree,
  every choice of overrides and every change of the tree during a walk. Of the
  stack the proof only needs the set of its frames, each of a container of its
  own (`Walks`). A slot is `Reached` in the current phase when the virtual call
  for it was made or will not be made any more, and `Done` when the base call
  was made too. `Progressed` says that what is reached has done its work, and
  that a container is marked only where its slot is reached and marked when it
  is done; `Worked` is the converse for the history. The steps of a walk only
  add to what is reached and done (`Advance`), the ones that change the tree
  keep it (`Places`). When the stack is empty, the marked containers are closed
  under their slots, so they are all of them by `ShapeAssumption`: this is
  where an induction over the tree would be, and gives `PhaseComplete`. `Alone`
  keeps apart what `run()` starts and stops itself.
- `DHash_proofs`: `IterationAlwaysSound` for any hashes, and `TableAlwaysSound`
  where `hash_fn = dh_hash_fn` (without that, a lookup after a rehash misses what
  is there, section 4). Chains are described by what is in them and by their
  order (`In`, `Before`). `Tables` says that every element of `linked` is in one
  chain of one of the two tables. The heart of the first theorem is that what an
  iteration still has to see is `Ahead` of it (`Visits`): `IterNextFacts` and
  `IterBackFacts` show that `dhash_iter_next` passes over empty chains only and
  that `dhash_iter_rm_curr` steps back behind nothing that is still to come,
  also where it steps into the chain before. For the second, `KeyInv` says that
  an element is in the chain of its key and that elements of one key keep their
  order, in each table and between the two: a rehash moves the oldest of a key
  first, because all that is left is ahead of the iterator (`KeysMoved`).
- `UserCache_proofs`: `CacheAlwaysSound` and `AnswersAlwaysSound`. `IInv` adds
  what a thread holds where (`Control`), that an object it has allocated and not
  inserted is its own (`Fresh`), that keys in objects, also evicted ones, are
  those the server made for the object's user (`KeysKept`), and that the key a
  thread carries is the one asked for, and there if it was stored when a query
  began (`Carried`). The server may refuse, fail or be late as in the model. A
  step that returns from a call adds one answer (`OneReturns`); all others keep
  the answers because what the server has made only grows (`AnswersKept`).
- `KeyServer_proofs`: `ObjectsAlwaysSound`, `DbAlwaysConsistent` and
  `ServerImplementsStore`. `Objects` places every request object by its state,
  its call and the response; `AlwaysAccepting` needs a count, objects in use
  against calls made; `Saves` says that the list a thread has read names stored
  records, and is still the database's unless two saves of the user overlapped.

Assumptions on constants are those of the modules, which TLC evaluates, and
those a theorem names after `ASSUME`; each of the latter is met by a run:
`pool_shutdown` meets all three of the pool, `dhash` the one of the hash table.

Only model-checked is liveness under fairness, which is out of the prover's
reach: `AllServed`, `WaitReturns`, `EveryLineWritten`, `SubmitServed`,
`CallsEnd`, `CallsReturn`, `LoopsEnd`, `ProgramEnds`.

## 6. Not modelled

- Of the parts that are modelled: `LruTable` by string key (a unit test and the
  lookups of a string use it, the user cache does not), `ref_obj` and
  `remove_obj` (called by nobody outside the table); the loop and shutdown of the RPC client; the
  destructor of `Module` and registration from another thread than the main one,
  which is undefined beside a walk; `dhash_filter` and the singly linked hash;
  the methods of the key server that only read.
- `SyncLock` (unit tests only), `PageLock` (its counts never fall), the uuid map
  (release is a stub), `Trace` (promises nothing), the shared memory lists (no
  user in the build), state machines, bitmaps and control vectors (no user in
  the services).
- JSON, big integers, cryptographic primitives, file and descriptor utilities,
  bindings: sequential parsing, formatting, arithmetic or I/O.
- `java/` is a separate application, `foss/` is vendored code; together they are
  most of the repository's lines.
