------------------------------ MODULE LogModule ------------------------------
(***************************************************************************)
(* LogModule (common/di/logger.cpp): threads format a line into a buffer,   *)
(* put the buffer on l_pending and submit l_task; the task's handler writes *)
(* the pending buffers to the log file and gives them back to l_freebuf.    *)
(* The flush works outside l_mtx and has no lock of its own: that lines     *)
(* come out whole, once and in order rests on Task running one handler at a *)
(* time, so the module is composed with Task, whose variables it shares.    *)
(* A section under l_mtx is one step.                                       *)
(***************************************************************************)
EXTENDS Naturals, Sequences, FiniteSets

CONSTANTS
    Submitters,     \* threads of the pool and the main thread, as loggers
    Workers,        \* threads of the pool, as runners of the flush task
    MaxSubmit       \* bound on the lines logged

Main == "main"      \* the thread that runs Program::prog_run
None == 0           \* no buffer; buffers and lines are numbered from 1
Banner == 0         \* what mod_enable_service writes without a buffer

Runners == Workers \cup {Main}

ASSUME LogAssumption == MaxSubmit \in Nat /\ Main \notin Workers

VARIABLES
    tsk_pend, chained, spc, wpc, pending, loop, submits, unserved, \* l_task
    l_freebuf,      \* queue of free buffers
    l_pending,      \* queue of buffers to write
    l_task,         \* l_task != nullptr
    l_io,           \* the log file: "none" or "open"
    text,           \* text[b]: the line that buffer b holds
    buf,            \* buf[s]: the buffer logger s has from get_buffer
    lpc,            \* where each logger is in Logger::log
    fpc,            \* where each runner is in flush_logs
    local,          \* the local queue of that name of each runner
    frbuf,          \* the local queue of that name of each runner
    prog,           \* how far Program::prog_run is
    lines,          \* number of lines formatted so far
    pushed,         \* the lines in the order log_buffer took them
    written         \* what was written, each line with its destination

taskVars == <<tsk_pend, chained, spc, wpc, pending, loop, submits, unserved>>
bufVars == <<l_freebuf, l_pending, text, buf, local, frbuf>>
vars == <<taskVars, bufVars, l_task, l_io, lpc, fpc, prog, lines, pushed, written>>

T == INSTANCE Task

Buffers == 1..MaxSubmit

-----------------------------------------------------------------------------

(* The state in which the module has been constructed.                      *)
Init ==
    /\ T!Init
    /\ l_freebuf = <<>> /\ l_pending = <<>>
    /\ l_task = FALSE
    /\ l_io = "none"
    /\ text = [b \in Buffers |-> None]
    /\ buf = [s \in Submitters |-> None]
    /\ lpc = [s \in Submitters |-> "idle"]
    /\ fpc = [t \in Runners |-> "none"]
    /\ local = [t \in Runners |-> <<>>]
    /\ frbuf = [t \in Runners |-> <<>>]
    /\ prog = "new"
    /\ lines = 0
    /\ pushed = <<>>
    /\ written = <<>>

(* mod_init: the task is allocated; fopen may fail, and then the lines go   *)
(* to the standard output.                                                  *)
mod_init ==
    /\ prog = "new"
    /\ prog' = "init"
    /\ l_task' = TRUE
    /\ l_io' \in {"open", "none"}
    /\ UNCHANGED <<taskVars, bufVars, lpc, fpc, lines, pushed, written>>

(* flush_buffer: to the file if it is open, to the standard output if not.  *)
Sink == IF l_io = "none" THEN "stdout" ELSE "file"

flush_buffer(line) == written' = Append(written, [line |-> line, sink |-> Sink])

(* mod_enable_service: the main thread writes a banner past the queues.     *)
mod_enable_service ==
    /\ prog = "init"
    /\ prog' = "run"
    /\ flush_buffer(Banner)
    /\ UNCHANGED <<taskVars, bufVars, l_task, l_io, lpc, fpc, lines, pushed>>

(* Logger::log takes the buffer b and formats the next line into it.        *)
TakeBuffer(s, b) ==
    /\ prog \in {"init", "run"}
    /\ lpc[s] = "idle" /\ spc[s] = "idle"
    /\ lines < MaxSubmit
    /\ lines' = lines + 1
    /\ text' = [text EXCEPT ![b] = lines + 1]
    /\ buf' = [buf EXCEPT ![s] = b]
    /\ lpc' = [lpc EXCEPT ![s] = "format"]
    /\ UNCHANGED <<taskVars, l_pending, local, frbuf, l_task, l_io, fpc, prog,
                   pushed, written>>

(* Mutant: the buffer is used but not taken off the queue.                  *)
get_buffer_peeks(s) ==
    /\ l_freebuf # <<>>
    /\ TakeBuffer(s, Head(l_freebuf))
    /\ UNCHANGED l_freebuf

(* get_buffer, line 187: the oldest free buffer.                            *)
get_buffer_free(s) ==
    /\ l_freebuf # <<>>
    /\ TakeBuffer(s, Head(l_freebuf))
    /\ l_freebuf' = Tail(l_freebuf)

(* get_buffer, line 194: a new buffer when none is free.                    *)
get_buffer_new(s) ==
    /\ l_freebuf = <<>>
    /\ \E b \in Buffers : /\ text[b] = None
                          /\ \A c \in 1..(b - 1) : text[c] # None
                          /\ TakeBuffer(s, b)
    /\ UNCHANGED l_freebuf

(* log_buffer, lines 206-208: the logger's buffer enters l_pending.         *)
log_buffer_push(s) ==
    /\ lpc[s] = "format"
    /\ l_pending' = Append(l_pending, buf[s])
    /\ pushed' = Append(pushed, text[buf[s]])
    /\ buf' = [buf EXCEPT ![s] = None]
    /\ lpc' = [lpc EXCEPT ![s] = "submit"]
    /\ UNCHANGED <<taskVars, l_freebuf, text, local, frbuf, l_task, l_io, fpc,
                   prog, lines, written>>

(* Mutant: the task is not submitted while lines are pending already.       *)
submit_if_first(s) ==
    /\ lpc[s] = "submit"
    /\ lpc' = [lpc EXCEPT ![s] = "idle"]
    /\ IF Len(l_pending) > 1 THEN UNCHANGED taskVars ELSE T!task_submit_add(s)
    /\ UNCHANGED <<bufVars, l_task, l_io, fpc, prog, lines, pushed, written>>

(* log_buffer, line 210: task_submit, outside l_mtx.                        *)
log_buffer_submit(s) ==
    /\ lpc[s] = "submit"
    /\ lpc' = [lpc EXCEPT ![s] = "idle"]
    /\ T!task_submit_add(s)
    /\ UNCHANGED <<bufVars, l_task, l_io, fpc, prog, lines, pushed, written>>

(* task_submit hands the task to the pool.                                  *)
task_schedule(s) ==
    /\ T!task_submit_schedule(s)
    /\ UNCHANGED <<bufVars, l_task, l_io, lpc, fpc, prog, lines, pushed, written>>

(* A thread of the pool takes the task and begins a pass.                   *)
task_take(w) ==
    /\ T!worker_dequeue(w) \/ T!exec_load(w)
    /\ UNCHANGED <<bufVars, l_task, l_io, lpc, fpc, prog, lines, pushed, written>>

(* flush_logs, lines 223-225: the pending buffers become the runner's own.  *)
Swap(t) ==
    /\ fpc[t] = "none"
    /\ local' = [local EXCEPT ![t] = l_pending]
    /\ l_pending' = <<>>
    /\ fpc' = [fpc EXCEPT ![t] = "write"]
    /\ UNCHANGED <<l_freebuf, text, buf, frbuf, lines, pushed, written>>

(* LogTask::task_handler is flush_logs.                                     *)
task_handler(w) ==
    /\ T!exec_handler(w)
    /\ Swap(w)
    /\ UNCHANGED <<l_task, l_io, lpc, prog>>

(* flush_logs, lines 227-232: one buffer is written, without l_mtx; it is   *)
(* kept apart until all are.                                                *)
flush_write(t) ==
    /\ fpc[t] = "write" /\ local[t] # <<>>
    /\ flush_buffer(text[Head(local[t])])
    /\ local' = [local EXCEPT ![t] = Tail(@)]
    /\ frbuf' = [frbuf EXCEPT ![t] = Append(@, Head(local[t]))]
    /\ UNCHANGED <<taskVars, l_freebuf, l_pending, text, buf, l_task, l_io, lpc,
                   fpc, prog, lines, pushed>>

(* flush_logs, lines 233-244: the written buffers are free.                 *)
flush_free(t) ==
    /\ fpc[t] = "write" /\ local[t] = <<>>
    /\ l_freebuf' = l_freebuf \o frbuf[t]
    /\ frbuf' = [frbuf EXCEPT ![t] = <<>>]
    /\ fpc' = [fpc EXCEPT ![t] = "done"]
    /\ UNCHANGED <<taskVars, l_pending, text, buf, local, l_task, l_io, lpc, prog,
                   lines, pushed, written>>

(* The handler returns to Task::req_exec_task.                              *)
handler_return(w) ==
    /\ fpc[w] = "done"
    /\ fpc' = [fpc EXCEPT ![w] = "none"]
    /\ T!exec_sub(w)
    /\ UNCHANGED <<bufVars, l_task, l_io, lpc, prog, lines, pushed, written>>

(* Mutant: the pool does not wait for the threads that still log.           *)
stop_early ==
    /\ prog = "run"
    /\ prog' = "stopped"
    /\ UNCHANGED <<taskVars, bufVars, l_task, l_io, lpc, fpc, lines, pushed, written>>

(* ThreadPool::mod_shutdown, called by the main thread: thp_stop returns    *)
(* when every thread of the pool has ended and so has the work queued.      *)
pool_stop ==
    /\ prog = "run"
    /\ \A s \in Submitters : lpc[s] = "idle" /\ spc[s] = "idle"
    /\ ~chained /\ \A w \in Workers : wpc[w] = "idle"
    /\ prog' = "stopped"
    /\ UNCHANGED <<taskVars, bufVars, l_task, l_io, lpc, fpc, lines, pushed, written>>

(* mod_cleanup, lines 366-368: the last flush is the main thread's own.     *)
mod_cleanup_flush ==
    /\ prog = "stopped"
    /\ prog' = "cleanup"
    /\ l_task' = FALSE
    /\ Swap(Main)
    /\ UNCHANGED <<taskVars, l_io, lpc>>

(* mod_cleanup, lines 369-372.                                              *)
mod_cleanup_close ==
    /\ prog = "cleanup" /\ fpc[Main] = "done"
    /\ prog' = "done"
    /\ l_io' = "none"
    /\ UNCHANGED <<taskVars, bufVars, l_task, lpc, fpc, lines, pushed, written>>

Next ==
    \/ mod_init \/ mod_enable_service \/ pool_stop
    \/ mod_cleanup_flush \/ mod_cleanup_close
    \/ \E s \in Submitters : \/ get_buffer_free(s) \/ get_buffer_new(s)
                             \/ log_buffer_push(s) \/ log_buffer_submit(s)
                             \/ task_schedule(s)
    \/ \E w \in Workers : task_take(w) \/ task_handler(w) \/ handler_return(w)
    \/ \E t \in Runners : flush_write(t) \/ flush_free(t)

Spec == Init /\ [][Next]_vars

(* Threads run on, and the pool runs what it was given; nobody has to log   *)
(* or to stop the pool.                                                     *)
Fairness ==
    /\ \A s \in Submitters :
          WF_vars(log_buffer_push(s) \/ log_buffer_submit(s) \/ task_schedule(s))
    /\ WF_vars(\E w \in Workers : task_take(w))
    /\ \A w \in Workers : WF_vars(task_handler(w) \/ handler_return(w))
    /\ \A t \in Runners : WF_vars(flush_write(t) \/ flush_free(t))
    /\ WF_vars(mod_cleanup_flush) /\ WF_vars(mod_cleanup_close)

FairSpec == Spec /\ Fairness

-----------------------------------------------------------------------------

TypeOK ==
    /\ l_freebuf \in Seq(Buffers) /\ l_pending \in Seq(Buffers)
    /\ l_task \in BOOLEAN
    /\ l_io \in {"none", "open"}
    /\ text \in [Buffers -> Nat]
    /\ buf \in [Submitters -> Buffers \cup {None}]
    /\ lpc \in [Submitters -> {"idle", "format", "submit"}]
    /\ fpc \in [Runners -> {"none", "write", "done"}]
    /\ local \in [Runners -> Seq(Buffers)] /\ frbuf \in [Runners -> Seq(Buffers)]
    /\ prog \in {"new", "init", "run", "stopped", "cleanup", "done"}
    /\ lines \in 0..MaxSubmit
    /\ pushed \in Seq(Nat)
    /\ written \in Seq([line : Nat, sink : {"stdout", "file"}])

Texts(queue) == [i \in DOMAIN queue |-> text[queue[i]]]

(* What the loggers' buffers left in the log, which is all but the banner.   *)
Banners == {i \in DOMAIN written : written[i].line = Banner}

WrittenLines ==
    [i \in 1..(Len(written) - Cardinality(Banners)) |->
        IF \E k \in Banners : k <= i THEN written[i + 1].line ELSE written[i].line]

At(queue, b) == {i \in DOMAIN queue : queue[i] = b}

(* Where buffer b is: in a queue, in a logger's hand or with a flush.       *)
Places(b) ==
    ({"free"} \X At(l_freebuf, b)) \cup ({"pending"} \X At(l_pending, b))
    \cup ({"logger"} \X {s \in Submitters : buf[s] = b})
    \cup (UNION {{"local"} \X ({t} \X At(local[t], b)) : t \in Runners})
    \cup (UNION {{"frbuf"} \X ({t} \X At(frbuf[t], b)) : t \in Runners})

(* A buffer that was ever allocated is in exactly one place: it is neither  *)
(* lost nor formatted by one thread while another writes it, though it      *)
(* passes through five queues and l_mtx protects only two of them.          *)
BufferOnce == \A b \in Buffers : Cardinality(Places(b)) = IF text[b] = None THEN 0 ELSE 1

(* The lines written, those a flush has taken and those pending are, in     *)
(* this order, the lines log_buffer took: nothing is lost, doubled,         *)
(* overwritten or reordered, though lines are written outside l_mtx.        *)
InOrder ==
    \E t \in Runners :
        /\ \A u \in Runners \ {t} : local[u] = <<>>
        /\ WrittenLines \o Texts(local[t]) \o Texts(l_pending) = pushed

(* What passes between log_buffer and flush_logs is sound: every variable   *)
(* has its type, no buffer is in two places and the lines keep their order. *)
LogSound == TypeOK /\ BufferOnce /\ InOrder

(* l_task is there as long as a logger is about to submit it or a worker    *)
(* runs it: mod_cleanup drops it only after the pool's threads have ended.  *)
TaskAlive ==
    /\ \A s \in Submitters : lpc[s] # "idle" \/ spc[s] # "idle" => l_task
    /\ \A w \in Workers : wpc[w] # "idle" => l_task

(* Everything goes to the same place, the file if it could be opened: no    *)
(* flush runs on after mod_cleanup has closed it.                           *)
OneSink == \A i \in DOMAIN written : written[i].sink = written[1].sink

(* After mod_cleanup every line logged is in the log and every buffer is    *)
(* where the destructor deletes it.                                         *)
CleanupComplete ==
    prog = "done" =>
        /\ WrittenLines = pushed /\ Len(pushed) = lines
        /\ \A b \in Buffers : text[b] # None => At(l_freebuf, b) # {}

(* mod_cleanup after the pool has stopped is safe and complete: no thread   *)
(* meets a task that is gone or a file that is closed, and no line or       *)
(* buffer is left behind.                                                   *)
ShutdownSound == TaskAlive /\ OneSink /\ CleanupComplete

(* Every line that a logger began is written at last, whether the program   *)
(* goes on or is shut down.                                                 *)
EveryLineWritten ==
    \A n \in 1..MaxSubmit :
        lines >= n ~> \E i \in DOMAIN written : written[i].line = n
=============================================================================
