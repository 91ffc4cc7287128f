-------------------------- MODULE LogModule_proofs --------------------------
(***************************************************************************)
(* Proofs about LogModule, for any numbers of loggers, workers and lines.   *)
(*                                                                          *)
(* That one flush runs at a time is a theorem about Task, which is used     *)
(* here for the task whose variables LogModule shares.                      *)
(***************************************************************************)
EXTENDS LogModule, FiniteSetTheorems, SequenceTheorems, TLAPS

TP == INSTANCE Task_proofs

USE LogAssumption

-----------------------------------------------------------------------------
(* The inductive invariant.                                                 *)

Elems(s) == {s[i] : i \in DOMAIN s}
Distinct(s) == \A i, j \in DOMAIN s : s[i] = s[j] => i = j

(* The buffers of the five queues.                                          *)
Free == Elems(l_freebuf)
Pend == Elems(l_pending)
Loc(t) == Elems(local[t])
Frb(t) == Elems(frbuf[t])

(* No thread is in the logger or in the task.                               *)
Quiet ==
    /\ \A s \in Submitters : lpc[s] = "idle" /\ spc[s] = "idle"
    /\ ~chained /\ \A w \in Workers : wpc[w] = "idle"

(* Where threads are, by how far prog_run is, and what they have there.     *)
Control ==
    /\ prog \notin {"init", "run"} => Quiet
    /\ \A w \in Workers : fpc[w] # "none" <=> wpc[w] = "sub"
    /\ fpc[Main] # "none" <=> prog \in {"cleanup", "done"}
    /\ prog = "done" => fpc[Main] = "done"
    /\ l_task <=> prog \in {"init", "run", "stopped"}
    /\ prog \in {"cleanup", "done"} => l_pending = <<>>
    /\ \A s \in Submitters : buf[s] # None <=> lpc[s] = "format"
    /\ \A t \in Runners : fpc[t] # "write" => local[t] = <<>> /\ frbuf[t] = <<>>

(* No queue has a buffer twice.                                             *)
Distincts ==
    /\ Distinct(l_freebuf) /\ Distinct(l_pending)
    /\ \A t \in Runners : Distinct(local[t]) /\ Distinct(frbuf[t])

(* No two of the places that may have a buffer have the same.               *)
Apart ==
    /\ Free \cap Pend = {}
    /\ \A s \in Submitters : buf[s] # None => buf[s] \notin Free \cup Pend
    /\ \A t \in Runners : (Loc(t) \cup Frb(t)) \cap (Free \cup Pend) = {}
    /\ \A s \in Submitters, t \in Runners : buf[s] # None => buf[s] \notin Loc(t) \cup Frb(t)
    /\ \A r, s \in Submitters : buf[r] = buf[s] /\ buf[s] # None => r = s
    /\ \A t \in Runners : Loc(t) \cap Frb(t) = {}

(* A buffer that was allocated is somewhere, and what is somewhere was.     *)
Placed ==
    \A b \in Buffers :
        text[b] # None <=> \/ b \in Free \cup Pend
                           \/ \E s \in Submitters : buf[s] = b
                           \/ \E t \in Runners : b \in Loc(t) \cup Frb(t)

(* All that was written went where the next line goes, until the file is    *)
(* closed.                                                                  *)
Sinks ==
    /\ OneSink
    /\ prog = "new" => written = <<>>
    /\ prog # "done" => \A i \in DOMAIN written : written[i].sink = Sink

OneBanner ==
    /\ prog \in {"new", "init"} => Banners = {}
    /\ \A i, k \in Banners : i = k

(* A line that was formatted is pushed, or a logger is about to push it.    *)
Formatting == {s \in Submitters : lpc[s] = "format"}
Counted == IsFiniteSet(Formatting) /\ lines = Len(pushed) + Cardinality(Formatting)

IInv ==
    /\ TypeOK /\ TP!IInv /\ Control /\ Distincts /\ Apart /\ Placed
    /\ Sinks /\ OneBanner /\ Counted /\ InOrder

-----------------------------------------------------------------------------
(* Queues.                                                                  *)

LEMMA AppendElems ==
    ASSUME NEW S, NEW s \in Seq(S), NEW r \in S
    PROVE  /\ Elems(Append(s, r)) = Elems(s) \cup {r}
           /\ Distinct(s) /\ r \notin Elems(s) => Distinct(Append(s, r))
<1>1. /\ DOMAIN Append(s, r) = 1..(Len(s) + 1)
      /\ \A i \in 1..Len(s) : Append(s, r)[i] = s[i]
      /\ Append(s, r)[Len(s) + 1] = r
      /\ Len(s) \in Nat /\ DOMAIN s = 1..Len(s)
  OBVIOUS
<1> DEFINE t == Append(s, r)
<1> HIDE DEF t
<1>2. QED
  BY <1>1 DEF Elems, Distinct

LEMMA TailElems ==
    ASSUME NEW S, NEW s \in Seq(S), s # <<>>, Distinct(s)
    PROVE  /\ Head(s) \in Elems(s) /\ Head(s) \in S
           /\ Elems(Tail(s)) = Elems(s) \ {Head(s)}
           /\ Distinct(Tail(s))
<1>1. /\ Tail(s) \in Seq(S) /\ Len(s) \in Nat \ {0} /\ DOMAIN s = 1..Len(s)
      /\ DOMAIN Tail(s) = 1..(Len(s) - 1)
      /\ \A i \in 1..(Len(s) - 1) : Tail(s)[i] = s[i + 1]
      /\ Head(s) = s[1] /\ Head(s) \in S
  OBVIOUS
<1> DEFINE t == Tail(s)
<1> HIDE DEF t
<1>2. Elems(Tail(s)) = Elems(s) \ {Head(s)}
  <2>1. ASSUME NEW x \in Elems(Tail(s)) PROVE x \in Elems(s) \ {Head(s)}
    BY <1>1, <2>1 DEF Elems, Distinct
  <2>2. ASSUME NEW x \in Elems(s), x # Head(s) PROVE x \in Elems(Tail(s))
    <3>1. PICK i \in 1..Len(s) : s[i] = x
      BY <1>1 DEF Elems
    <3>2. i - 1 \in 1..(Len(s) - 1) /\ Tail(s)[i - 1] = x
      BY <1>1, <2>2, <3>1
    <3>3. QED
      BY <1>1, <3>2 DEF Elems
  <2>3. QED
    BY <2>1, <2>2
<1>3. QED
  BY <1>1, <1>2, SMTT(60) DEF Elems, Distinct

LEMMA ConcatElems ==
    ASSUME NEW S, NEW s \in Seq(S), NEW t \in Seq(S)
    PROVE  /\ Elems(s \o t) = Elems(s) \cup Elems(t)
           /\ Distinct(s) /\ Distinct(t) /\ Elems(s) \cap Elems(t) = {}
              => Distinct(s \o t)
<1> DEFINE u == s \o t
<1>1. /\ Len(s) \in Nat /\ DOMAIN s = 1..Len(s)
      /\ Len(t) \in Nat /\ DOMAIN t = 1..Len(t)
      /\ DOMAIN u = 1..(Len(s) + Len(t))
      /\ \A i \in 1..Len(s) : u[i] = s[i]
      /\ \A i \in 1..Len(t) : u[i + Len(s)] = t[i]
      /\ \A i \in 1..(Len(s) + Len(t)) : i > Len(s) => u[i] = t[i - Len(s)]
  OBVIOUS
<1> HIDE DEF u
<1>2. Elems(u) = Elems(s) \cup Elems(t)
  <2>1. ASSUME NEW i \in DOMAIN u PROVE u[i] \in Elems(s) \cup Elems(t)
    <3>1. CASE i <= Len(s)
      BY <1>1, <3>1 DEF Elems
    <3>2. CASE i > Len(s)
      <4>1. i - Len(s) \in DOMAIN t /\ u[i] = t[i - Len(s)]
        BY <1>1, <3>2
      <4>2. QED
        BY <4>1 DEF Elems
    <3>3. QED
      BY <1>1, <3>1, <3>2
  <2>2. \A i \in DOMAIN s : s[i] \in Elems(u)
    BY <1>1 DEF Elems
  <2>3. \A i \in DOMAIN t : t[i] \in Elems(u)
    <3>1. \A i \in DOMAIN t : i + Len(s) \in DOMAIN u
      BY <1>1
    <3>2. QED
      BY <1>1, <3>1 DEF Elems
  <2>4. QED
    BY <2>1, <2>2, <2>3 DEF Elems
<1>3. ASSUME Distinct(s), Distinct(t), Elems(s) \cap Elems(t) = {}
      PROVE  Distinct(u)
  <2> SUFFICES ASSUME NEW i \in DOMAIN u, NEW j \in DOMAIN u, u[i] = u[j]
               PROVE  i = j
    BY DEF Distinct
  <2>1. CASE i <= Len(s) /\ j <= Len(s)
    BY <1>1, <1>3, <2>1 DEF Distinct
  <2>2. CASE i > Len(s) /\ j > Len(s)
    <3>1. /\ i - Len(s) \in DOMAIN t /\ j - Len(s) \in DOMAIN t
          /\ t[i - Len(s)] = t[j - Len(s)]
      BY <1>1, <2>2
    <3>2. i - Len(s) = j - Len(s)
      BY <1>3, <3>1 DEF Distinct
    <3>3. QED
      BY <1>1, <3>2
  <2>3. CASE i <= Len(s) /\ j > Len(s)
    <3>1. u[i] \in Elems(s) /\ u[j] \in Elems(t)
      BY <1>1, <2>3, SMTT(60) DEF Elems
    <3>2. QED
      BY <1>3, <3>1
  <2>4. CASE i > Len(s) /\ j <= Len(s)
    <3>1. u[j] \in Elems(s) /\ u[i] \in Elems(t)
      BY <1>1, <2>4, SMTT(60) DEF Elems
    <3>2. QED
      BY <1>3, <3>1
  <2>5. QED
    BY <1>1, <2>1, <2>2, <2>3, <2>4
<1>4. QED
  BY <1>2, <1>3 DEF u


-----------------------------------------------------------------------------
(* The task, types and control.                                             *)

(* The steps of the task that LogModule takes are steps of Task.            *)
LEMMA SameTask ==
    /\ T!Init <=> TP!Init
    /\ T!Next <=> TP!Next
BY DEF T!Init, TP!Init, T!Next, TP!Next, T!task_submit_add, TP!task_submit_add,
   T!Submit, TP!Submit, T!task_submit_schedule, TP!task_submit_schedule,
   T!worker_dequeue, TP!worker_dequeue, T!exec_load, TP!exec_load,
   T!exec_handler, TP!exec_handler, T!exec_sub, TP!exec_sub, T!EndPass, TP!EndPass

(* Every step of the log is one of the task or leaves it alone.             *)
LEMMA StepTask ==
    ASSUME TP!IInv, [Next]_vars
    PROVE  TP!IInv'
<1>1. T!Next \/ UNCHANGED taskVars
  <2>1. ASSUME NEW s \in Submitters, log_buffer_submit(s) \/ task_schedule(s) PROVE T!Next
    BY <2>1 DEF log_buffer_submit, task_schedule, T!Next
  <2>2. ASSUME NEW w \in Workers, task_take(w) \/ task_handler(w) \/ handler_return(w)
        PROVE  T!Next
    BY <2>2 DEF task_take, task_handler, handler_return, T!Next
  <2>3. CASE UNCHANGED vars
    BY <2>3 DEF vars
  <2> QED
    BY <2>1, <2>2, <2>3 DEF Next, mod_init, mod_enable_service, pool_stop, mod_cleanup_flush,
       mod_cleanup_close, get_buffer_free, get_buffer_new, TakeBuffer, log_buffer_push,
       flush_write, flush_free
<1>2. TP!Next \/ UNCHANGED TP!vars
  BY <1>1, SameTask DEF taskVars, TP!vars
<1> QED BY <1>2, TP!StepIInv

LEMMA StepType ==
    ASSUME TypeOK, Control, [Next]_vars
    PROVE  TypeOK'
<1> USE DEF TypeOK
<1>1. CASE mod_init
  BY <1>1 DEF mod_init, bufVars
<1>2. CASE mod_enable_service
  BY <1>2 DEF mod_enable_service, flush_buffer, Sink, Banner, bufVars
<1>3. CASE pool_stop
  BY <1>3 DEF pool_stop, bufVars
<1>4. CASE mod_cleanup_flush
  <2>1. Main \in Runners /\ <<>> \in Seq(Buffers)
    BY DEF Runners
  <2>2. l_pending' \in Seq(Buffers) /\ local' \in [Runners -> Seq(Buffers)]
    BY <1>4, <2>1 DEF mod_cleanup_flush, Swap
  <2>3. fpc' \in [Runners -> {"none", "write", "done"}]
    BY <1>4 DEF mod_cleanup_flush, Swap
  <2>4. QED
    BY <1>4, <2>2, <2>3 DEF mod_cleanup_flush, Swap
<1>5. CASE mod_cleanup_close
  BY <1>5 DEF mod_cleanup_close, bufVars
<1>6. ASSUME NEW s \in Submitters, NEW b \in Buffers, TakeBuffer(s, b),
             l_freebuf' \in Seq(Buffers)
      PROVE  TypeOK'
  BY <1>6 DEF TakeBuffer
<1>7. ASSUME NEW s \in Submitters, get_buffer_free(s) PROVE TypeOK'
  <2>1. Head(l_freebuf) \in Buffers /\ Tail(l_freebuf) \in Seq(Buffers)
    BY <1>7, HeadTailProperties DEF get_buffer_free
  <2> QED BY <1>6, <1>7, <2>1 DEF get_buffer_free
<1>8. ASSUME NEW s \in Submitters, get_buffer_new(s) PROVE TypeOK'
  BY <1>6, <1>8 DEF get_buffer_new
<1>9. ASSUME NEW s \in Submitters, log_buffer_push(s) PROVE TypeOK'
  <2>1. buf[s] \in Buffers /\ text[buf[s]] \in Nat
    BY <1>9 DEF log_buffer_push, Control
  <2>2. /\ Append(l_pending, buf[s]) \in Seq(Buffers)
        /\ Append(pushed, text[buf[s]]) \in Seq(Nat)
    BY <2>1
  <2>3. l_pending' \in Seq(Buffers) /\ pushed' \in Seq(Nat)
    BY <1>9, <2>2 DEF log_buffer_push
  <2> QED BY <1>9, <2>3 DEF log_buffer_push
<1>10. ASSUME NEW s \in Submitters, log_buffer_submit(s) PROVE TypeOK'
  BY <1>10 DEF log_buffer_submit, bufVars
<1>11. ASSUME NEW s \in Submitters, task_schedule(s) PROVE TypeOK'
  BY <1>11 DEF task_schedule, bufVars
<1>12. ASSUME NEW w \in Workers, task_take(w) PROVE TypeOK'
  BY <1>12 DEF task_take, bufVars
<1>13. ASSUME NEW w \in Workers, task_handler(w) PROVE TypeOK'
  BY <1>13 DEF task_handler, Swap, Runners
<1>14. ASSUME NEW w \in Workers, handler_return(w) PROVE TypeOK'
  BY <1>14 DEF handler_return, bufVars, Runners
<1>15. ASSUME NEW t \in Runners, flush_write(t) PROVE TypeOK'
  <2>1. Head(local[t]) \in Buffers /\ Tail(local[t]) \in Seq(Buffers)
    BY <1>15, HeadTailProperties DEF flush_write
  <2>2. text[Head(local[t])] \in Nat /\ Append(frbuf[t], Head(local[t])) \in Seq(Buffers)
    BY <2>1
  <2>3. [line |-> text[Head(local[t])], sink |-> Sink] \in [line : Nat, sink : {"stdout", "file"}]
    BY <2>2 DEF Sink
  <2>4. written' \in Seq([line : Nat, sink : {"stdout", "file"}])
    BY <1>15, <2>3 DEF flush_write, flush_buffer
  <2>5. /\ local' = [local EXCEPT ![t] = Tail(local[t])]
        /\ frbuf' = [frbuf EXCEPT ![t] = Append(frbuf[t], Head(local[t]))]
    BY <1>15 DEF flush_write
  <2>6. /\ local' \in [Runners -> Seq(Buffers)]
        /\ frbuf' \in [Runners -> Seq(Buffers)]
    BY <2>1, <2>2, <2>5
  <2> QED BY <1>15, <2>4, <2>6 DEF flush_write
<1>16. ASSUME NEW t \in Runners, flush_free(t) PROVE TypeOK'
  <2>1. l_freebuf \o frbuf[t] \in Seq(Buffers)
    OBVIOUS
  <2> QED BY <1>16, <2>1 DEF flush_free
<1>17. CASE UNCHANGED vars
  BY <1>17 DEF vars, bufVars
<1> QED
  BY <1>1, <1>2, <1>3, <1>4, <1>5, <1>7, <1>8, <1>9, <1>10, <1>11, <1>12, <1>13,
     <1>14, <1>15, <1>16, <1>17 DEF Next

(* The task's part of the types.                                            *)
LEMMA TaskTypes ==
    ASSUME TP!IInv
    PROVE  /\ spc \in [Submitters -> {"idle", "schedule"}]
           /\ wpc \in [Workers -> {"idle", "load", "handler", "sub"}]
           /\ chained \in BOOLEAN
           /\ \A v, w \in Workers : wpc[v] # "idle" /\ wpc[w] # "idle" => v = w
BY DEF TP!IInv, TP!TypeOK, TP!OneOwner, TP!Running

LEMMA StepControl ==
    ASSUME TypeOK, TP!IInv, Control, [Next]_vars
    PROVE  Control'
<1> USE DEF Control, Quiet
<1>0. /\ fpc \in [Runners -> {"none", "write", "done"}]
      /\ lpc \in [Submitters -> {"idle", "format", "submit"}]
      /\ buf \in [Submitters -> Buffers \cup {None}]
      /\ local \in [Runners -> Seq(Buffers)] /\ frbuf \in [Runners -> Seq(Buffers)]
      /\ spc \in [Submitters -> {"idle", "schedule"}]
      /\ wpc \in [Workers -> {"idle", "load", "handler", "sub"}]
      /\ Main \in Runners /\ Workers \subseteq Runners
      /\ Main \notin Workers
      /\ None \notin Buffers
  BY TaskTypes, SMTT(60) DEF TypeOK, Runners, Buffers, None
<1>1. CASE mod_init
  BY <1>1 DEF mod_init, taskVars, bufVars
<1>2. CASE mod_enable_service
  BY <1>2 DEF mod_enable_service, taskVars, bufVars
<1>3. CASE pool_stop
  BY <1>3 DEF pool_stop, taskVars, bufVars
<1>4. CASE mod_cleanup_flush
  BY <1>0, <1>4 DEF mod_cleanup_flush, Swap, taskVars
<1>5. CASE mod_cleanup_close
  BY <1>5 DEF mod_cleanup_close, taskVars, bufVars
<1>6. ASSUME NEW s \in Submitters, NEW b \in Buffers, TakeBuffer(s, b) PROVE Control'
  BY <1>0, <1>6 DEF TakeBuffer, taskVars
<1>7. ASSUME NEW s \in Submitters, get_buffer_free(s) PROVE Control'
  <2>1. Head(l_freebuf) \in Buffers
    BY <1>7, HeadTailProperties DEF get_buffer_free, TypeOK
  <2>2. QED
    BY <1>6, <1>7, <2>1 DEF get_buffer_free
<1>8. ASSUME NEW s \in Submitters, get_buffer_new(s) PROVE Control'
  BY <1>6, <1>8 DEF get_buffer_new
<1>9. ASSUME NEW s \in Submitters, log_buffer_push(s) PROVE Control'
  BY <1>0, <1>9 DEF log_buffer_push, taskVars
<1>10. ASSUME NEW s \in Submitters, log_buffer_submit(s) PROVE Control'
  BY <1>0, <1>10 DEF log_buffer_submit, bufVars, T!task_submit_add, T!Submit
<1>11. ASSUME NEW s \in Submitters, task_schedule(s) PROVE Control'
  BY <1>0, <1>11 DEF task_schedule, bufVars, T!task_submit_schedule
<1>12. ASSUME NEW w \in Workers, task_take(w) PROVE Control'
  <2>1. prog \in {"init", "run"}
    BY <1>12 DEF task_take, T!worker_dequeue, T!exec_load
  <2>2. QED
    BY <1>0, <1>12, <2>1 DEF task_take, bufVars, T!worker_dequeue, T!exec_load
<1>13. ASSUME NEW w \in Workers, task_handler(w) PROVE Control'
  <2>1. prog \in {"init", "run"}
    BY <1>13 DEF task_handler, T!exec_handler
  <2>2. QED
    BY <1>0, <1>13, <2>1 DEF task_handler, Swap, T!exec_handler
<1>14. ASSUME NEW w \in Workers, handler_return(w) PROVE Control'
  <2>1. prog \in {"init", "run"}
    BY <1>14 DEF handler_return, T!exec_sub, T!EndPass
  <2>2. QED
    BY <1>0, <1>14, <2>1 DEF handler_return, bufVars, T!exec_sub, T!EndPass
<1>15. ASSUME NEW t \in Runners, flush_write(t) PROVE Control'
  BY <1>0, <1>15 DEF flush_write, taskVars
<1>16. ASSUME NEW t \in Runners, flush_free(t) PROVE Control'
  BY <1>0, <1>16 DEF flush_free, taskVars
<1>17. CASE UNCHANGED vars
  BY <1>17 DEF vars, taskVars, bufVars
<1>18. QED
  BY <1>1, <1>2, <1>3, <1>4, <1>5, <1>7, <1>8, <1>9, <1>10, <1>11, <1>12, <1>13,
     <1>14, <1>15, <1>16, <1>17 DEF Next

(* One flush runs at a time: a worker's, while the task has one owner, or   *)
(* the main thread's, when no worker is in the task any more.               *)
LEMMA OneFlush ==
    ASSUME TypeOK, TP!IInv, Control,
           NEW t \in Runners, fpc[t] # "none", NEW u \in Runners \ {t}
    PROVE  fpc[u] = "none" /\ local[u] = <<>> /\ frbuf[u] = <<>>
BY TaskTypes DEF Control, Quiet, Runners

LEMMA NoFlush ==
    ASSUME Control, NEW t \in Runners, fpc[t] # "write"
    PROVE  local[t] = <<>> /\ frbuf[t] = <<>>
BY DEF Control

-----------------------------------------------------------------------------
(* Where buffers are.                                                       *)

(* What a step does not touch is where it was.                              *)
LEMMA SameQueues ==
    /\ l_freebuf' = l_freebuf => Free' = Free
    /\ l_pending' = l_pending => Pend' = Pend
    /\ local' = local => \A t \in Runners : Loc(t)' = Loc(t)
    /\ frbuf' = frbuf => \A t \in Runners : Frb(t)' = Frb(t)
BY DEF Free, Pend, Loc, Frb

(* Logger::log takes a buffer that is free or was never used.               *)
LEMMA TakePlaces ==
    ASSUME TypeOK, Control, Distincts, Apart, Placed,
           NEW s \in Submitters, NEW b \in Buffers, TakeBuffer(s, b),
           Free' = Free \ {b}, Distinct(l_freebuf'),
           b \in Free \/ text[b] = None
    PROVE  Distincts' /\ Apart' /\ Placed'
<1>1. /\ Pend' = Pend
      /\ \A t \in Runners : Loc(t)' = Loc(t) /\ Frb(t)' = Frb(t)
  BY SameQueues DEF TakeBuffer
<1>2. /\ buf \in [Submitters -> Buffers \cup {None}] /\ buf[s] = None /\ b # None
      /\ buf' = [buf EXCEPT ![s] = b]
      /\ text \in [Buffers -> Nat] /\ lines \in Nat
      /\ text' = [text EXCEPT ![b] = lines + 1]
  BY DEF TypeOK, TakeBuffer, Control, Buffers, None
<1>3. /\ b \notin Pend
      /\ \A t \in Runners : b \notin Loc(t) \cup Frb(t)
      /\ \A r \in Submitters : buf[r] # b
  BY <1>2 DEF Apart, Placed
<1>4. Distincts'
  BY DEF Distincts, TakeBuffer
<1>5. Apart'
  <2>1. \A r \in Submitters : buf'[r] = IF r = s THEN b ELSE buf[r]
    BY <1>2
  <2>2. QED
    BY <1>1, <1>2, <1>3, <2>1 DEF Apart
<1>6. Placed'
  <2>1. \A r \in Submitters : buf'[r] = IF r = s THEN b ELSE buf[r]
    BY <1>2
  <2>2. \A c \in Buffers : text'[c] # None <=> c = b \/ text[c] # None
    BY <1>2 DEF None
  <2>3. ASSUME NEW c \in Buffers
        PROVE  (\E r \in Submitters : buf'[r] = c) <=> c = b \/ \E r \in Submitters : buf[r] = c
    BY <1>2, <2>1 DEF Buffers, None
  <2>4. QED
    BY <1>1, <1>3, <2>2, <2>3 DEF Placed
<1>7. QED
  BY <1>4, <1>5, <1>6

(* log_buffer puts the logger's buffer on l_pending.                        *)
LEMMA PushPlaces ==
    ASSUME TypeOK, Control, Distincts, Apart, Placed,
           NEW s \in Submitters, log_buffer_push(s)
    PROVE  Distincts' /\ Apart' /\ Placed'
<1> DEFINE b == buf[s]
<1>1. /\ Free' = Free
      /\ \A t \in Runners : Loc(t)' = Loc(t) /\ Frb(t)' = Frb(t)
  BY SameQueues DEF log_buffer_push
<1>2. /\ buf \in [Submitters -> Buffers \cup {None}] /\ b \in Buffers /\ b # None
      /\ buf' = [buf EXCEPT ![s] = None]
      /\ l_pending \in Seq(Buffers)
      /\ l_pending' = Append(l_pending, b)
      /\ text' = text
  BY DEF TypeOK, log_buffer_push, Control, Buffers, None
<1>3. /\ b \notin Free \cup Pend
      /\ \A t \in Runners : b \notin Loc(t) \cup Frb(t)
      /\ \A r \in Submitters : buf[r] = b => r = s
  BY <1>2 DEF Apart
<1>4. Pend' = Pend \cup {b} /\ Distinct(l_pending')
  <2>1. Elems(Append(l_pending, b)) = Elems(l_pending) \cup {b}
    BY <1>2, AppendElems
  <2>2. Distinct(Append(l_pending, b))
    BY <1>2, <1>3, AppendElems DEF Pend, Distincts
  <2>3. QED
    BY <1>2, <2>1, <2>2 DEF Pend
<1>5. Distincts'
  BY <1>4 DEF Distincts, log_buffer_push
<1>6. \A r \in Submitters : buf'[r] = IF r = s THEN None ELSE buf[r]
  BY <1>2
<1> HIDE DEF b
<1>7. Apart'
  BY <1>1, <1>2, <1>3, <1>4, <1>6 DEF Apart
<1>8. Placed'
  <2>1. ASSUME NEW c \in Buffers
        PROVE  (\E r \in Submitters : buf[r] = c) <=> c = b \/ \E r \in Submitters : buf'[r] = c
    BY <1>2, <1>6 DEF Buffers, None, b
  <2>2. QED
    BY <1>1, <1>2, <1>4, <2>1 DEF Placed
<1>9. QED
  BY <1>5, <1>7, <1>8

(* flush_logs takes all that is pending.                                    *)
LEMMA SwapPlaces ==
    ASSUME TypeOK, Control, Distincts, Apart, Placed,
           NEW t \in Runners, Swap(t)
    PROVE  Distincts' /\ Apart' /\ Placed'
<1>1. Free' = Free /\ \A u \in Runners : Frb(u)' = Frb(u)
  BY SameQueues DEF Swap
<1>2. /\ local[t] = <<>> /\ l_pending' = <<>> /\ local \in [Runners -> Seq(Buffers)]
      /\ local' = [local EXCEPT ![t] = l_pending]
      /\ buf' = buf /\ text' = text /\ l_freebuf' = l_freebuf /\ frbuf' = frbuf
  BY DEF Swap, Control, TypeOK
<1>3. Loc(t) = {} /\ Pend' = {}
  BY <1>2 DEF Loc, Pend, Elems
<1>4. \A u \in Runners : local'[u] = IF u = t THEN l_pending ELSE local[u]
  BY <1>2
<1>5. \A u \in Runners : Loc(u)' = IF u = t THEN Pend ELSE Loc(u)
  BY <1>4 DEF Loc, Pend
<1>6. Distincts'
  <2>1. Distinct(l_pending')
    BY <1>2 DEF Distinct
  <2>2. \A u \in Runners : Distinct(local'[u]) /\ Distinct(frbuf'[u])
    BY <1>2, <1>4 DEF Distincts
  <2>3. QED
    BY <1>2, <2>1, <2>2 DEF Distincts
<1>7. Apart'
  <2>1. \A u \in Runners : Loc(u)' = (IF u = t THEN Pend ELSE Loc(u)) /\ Frb(u)' = Frb(u)
    BY <1>1, <1>5
  <2>2. Free' \cap Pend' = {}
    BY <1>1, <1>3 DEF Apart
  <2>3. \A s \in Submitters : buf[s] # None => buf[s] \notin Free' \cup Pend'
    BY <1>1, <1>3 DEF Apart
  <2>4. \A u \in Runners : (Loc(u)' \cup Frb(u)') \cap (Free' \cup Pend') = {}
    BY <1>1, <1>3, <2>1 DEF Apart
  <2>5. \A s \in Submitters, u \in Runners : buf[s] # None => buf[s] \notin Loc(u)' \cup Frb(u)'
    BY <1>1, <1>3, <2>1 DEF Apart
  <2>6. \A u \in Runners : Loc(u)' \cap Frb(u)' = {}
    BY <1>1, <1>3, <2>1 DEF Apart
  <2>7. \A r, s \in Submitters : buf[r] = buf[s] /\ buf[s] # None => r = s
    BY DEF Apart
  <2> HIDE DEF Free, Pend, Loc, Frb
  <2>8. QED
    BY <1>2, <2>2, <2>3, <2>4, <2>5, <2>6, <2>7 DEF Apart
<1>8. Placed'
  <2>1. ASSUME NEW c \in Buffers
        PROVE  c \in Pend \/ (\E u \in Runners : c \in Loc(u) \cup Frb(u))
               <=> \E u \in Runners : c \in Loc(u)' \cup Frb(u)'
    BY <1>1, <1>3, <1>5
  <2>2. QED
    BY <1>1, <1>2, <1>3, <2>1 DEF Placed
<1>9. QED
  BY <1>6, <1>7, <1>8

(* flush_logs has written a buffer, and keeps it.                           *)
LEMMA WritePlaces ==
    ASSUME TypeOK, Control, Distincts, Apart, Placed,
           NEW t \in Runners, flush_write(t)
    PROVE  Distincts' /\ Apart' /\ Placed'
<1> DEFINE h == Head(local[t])
<1>1. Free' = Free /\ Pend' = Pend
  BY SameQueues DEF flush_write
<1>2. /\ local \in [Runners -> Seq(Buffers)] /\ frbuf \in [Runners -> Seq(Buffers)]
      /\ local[t] # <<>>
      /\ local' = [local EXCEPT ![t] = Tail(local[t])]
      /\ frbuf' = [frbuf EXCEPT ![t] = Append(frbuf[t], h)]
      /\ buf' = buf /\ text' = text
      /\ l_freebuf' = l_freebuf /\ l_pending' = l_pending
  BY DEF flush_write, TypeOK
<1>3. /\ h \in Loc(t) /\ h \in Buffers
      /\ Elems(Tail(local[t])) = Loc(t) \ {h} /\ Distinct(Tail(local[t]))
  BY <1>2, TailElems DEF Distincts, Loc
<1>4. h \notin Frb(t)
  BY <1>3 DEF Apart
<1>5. /\ Elems(Append(frbuf[t], h)) = Frb(t) \cup {h}
      /\ Distinct(Append(frbuf[t], h))
  BY <1>2, <1>3, <1>4, AppendElems DEF Distincts, Frb
<1>6. \A u \in Runners : /\ local'[u] = IF u = t THEN Tail(local[t]) ELSE local[u]
                         /\ frbuf'[u] = IF u = t THEN Append(frbuf[t], h) ELSE frbuf[u]
  BY <1>2
<1> HIDE DEF h
<1>7. \A u \in Runners : /\ Loc(u)' = IF u = t THEN Loc(t) \ {h} ELSE Loc(u)
                         /\ Frb(u)' = IF u = t THEN Frb(t) \cup {h} ELSE Frb(u)
  BY <1>3, <1>5, <1>6 DEF Loc, Frb
<1>8. Distincts'
  BY <1>2, <1>3, <1>5, <1>6 DEF Distincts
<1>9. Apart'
  <2>1. \A u \in Runners : Loc(u)' \cup Frb(u)' = Loc(u) \cup Frb(u)
    BY <1>3, <1>7
  <2>2. Free' \cap Pend' = {}
    BY <1>1, <1>3, <1>7 DEF Apart
  <2>3. \A s \in Submitters : buf[s] # None => buf[s] \notin Free' \cup Pend'
    BY <1>1, <1>3, <1>7 DEF Apart
  <2>4. \A u \in Runners : (Loc(u)' \cup Frb(u)') \cap (Free' \cup Pend') = {}
    BY <1>1, <1>3, <1>7, <2>1 DEF Apart
  <2>5. \A s \in Submitters, u \in Runners : buf[s] # None => buf[s] \notin Loc(u)' \cup Frb(u)'
    BY <1>1, <1>3, <1>7, <2>1 DEF Apart
  <2>6. \A u \in Runners : Loc(u)' \cap Frb(u)' = {}
    BY <1>1, <1>3, <1>7, <2>1 DEF Apart
  <2>7. \A r, s \in Submitters : buf[r] = buf[s] /\ buf[s] # None => r = s
    BY DEF Apart
  <2> HIDE DEF Free, Pend, Loc, Frb
  <2>8. QED
    BY <1>2, <2>2, <2>3, <2>4, <2>5, <2>6, <2>7 DEF Apart
<1>10. Placed'
  <2>1. \A u \in Runners : Loc(u)' \cup Frb(u)' = Loc(u) \cup Frb(u)
    BY <1>3, <1>7
  <2>2. QED
    BY <1>1, <1>2, <2>1 DEF Placed
<1>11. QED
  BY <1>8, <1>9, <1>10

(* flush_logs gives back what it has written.                               *)
LEMMA FreePlaces ==
    ASSUME TypeOK, TP!IInv, Control, Distincts, Apart, Placed,
           NEW t \in Runners, flush_free(t)
    PROVE  Distincts' /\ Apart' /\ Placed'
<1>1. Pend' = Pend /\ \A u \in Runners : Loc(u)' = Loc(u)
  BY SameQueues DEF flush_free
<1>2. /\ frbuf \in [Runners -> Seq(Buffers)] /\ l_freebuf \in Seq(Buffers)
      /\ l_freebuf' = l_freebuf \o frbuf[t]
      /\ frbuf' = [frbuf EXCEPT ![t] = <<>>]
      /\ buf' = buf /\ text' = text
      /\ local' = local /\ l_pending' = l_pending
  BY DEF flush_free, TypeOK
<1>3. Free \cap Frb(t) = {}
  BY DEF Apart
<1>4. /\ Elems(l_freebuf \o frbuf[t]) = Free \cup Frb(t)
      /\ Distinct(l_freebuf \o frbuf[t])
  BY <1>2, <1>3, ConcatElems DEF Distincts, Free, Frb
<1>5. Free' = Free \cup Frb(t) /\ Distinct(l_freebuf')
  BY <1>2, <1>4 DEF Free
<1>6. \A u \in Runners : frbuf'[u] = IF u = t THEN <<>> ELSE frbuf[u]
  BY <1>2
<1>7. Elems(<<>>) = {} /\ Distinct(<<>>)
  BY DEF Elems, Distinct
<1>8. \A u \in Runners : Frb(u)' = IF u = t THEN {} ELSE Frb(u)
  BY <1>6, <1>7 DEF Frb
<1>9. Distincts'
  BY <1>2, <1>5, <1>6, <1>7 DEF Distincts
<1>10. \A u \in Runners \ {t} : Frb(u) = {} /\ Loc(u) = {}
  <2>1. fpc[t] # "none"
    BY DEF flush_free
  <2>2. \A u \in Runners \ {t} : frbuf[u] = <<>> /\ local[u] = <<>>
    BY <2>1, OneFlush
  <2>3. QED
    BY <1>7, <2>2 DEF Frb, Loc
<1>11. Apart'
  <2>1. \A u \in Runners : Loc(u)' = Loc(u) /\ Frb(u)' = (IF u = t THEN {} ELSE Frb(u))
    BY <1>1, <1>8
  <2>2. Free' \cap Pend' = {}
    BY <1>1, <1>5, <1>10 DEF Apart
  <2>3. \A s \in Submitters : buf[s] # None => buf[s] \notin Free' \cup Pend'
    BY <1>1, <1>5, <1>10 DEF Apart
  <2>4. \A u \in Runners : (Loc(u)' \cup Frb(u)') \cap (Free' \cup Pend') = {}
    BY <1>1, <1>5, <1>10, <2>1 DEF Apart
  <2>5. \A s \in Submitters, u \in Runners : buf[s] # None => buf[s] \notin Loc(u)' \cup Frb(u)'
    BY <1>1, <1>5, <1>10, <2>1 DEF Apart
  <2>6. \A u \in Runners : Loc(u)' \cap Frb(u)' = {}
    BY <1>1, <1>5, <1>10, <2>1 DEF Apart
  <2>7. \A r, s \in Submitters : buf[r] = buf[s] /\ buf[s] # None => r = s
    BY DEF Apart
  <2> HIDE DEF Free, Pend, Loc, Frb
  <2>8. QED
    BY <1>2, <2>2, <2>3, <2>4, <2>5, <2>6, <2>7 DEF Apart
<1>12. Placed'
  BY <1>1, <1>2, <1>5, <1>8 DEF Placed
<1>13. QED
  BY <1>9, <1>11, <1>12

(* A step that moves no buffer.                                             *)
LEMMA StillPlaces ==
    ASSUME Distincts, Apart, Placed, UNCHANGED bufVars
    PROVE  Distincts' /\ Apart' /\ Placed'
<1>1. /\ Free' = Free /\ Pend' = Pend
      /\ \A t \in Runners : Loc(t)' = Loc(t)
      /\ \A t \in Runners : Frb(t)' = Frb(t)
  BY SameQueues DEF bufVars
<1>2. /\ buf' = buf /\ text' = text /\ local' = local /\ frbuf' = frbuf
      /\ l_freebuf' = l_freebuf /\ l_pending' = l_pending
  BY DEF bufVars
<1>3. Distincts'
  BY <1>2 DEF Distincts
<1>4. Apart'
  BY <1>1, <1>2 DEF Apart
<1>5. Placed'
  BY <1>1, <1>2 DEF Placed
<1>6. QED
  BY <1>3, <1>4, <1>5

LEMMA StepPlaces ==
    ASSUME TypeOK, TP!IInv, Control, Distincts, Apart, Placed, [Next]_vars
    PROVE  Distincts' /\ Apart' /\ Placed'
<1>1. ASSUME NEW s \in Submitters, get_buffer_free(s)
      PROVE  Distincts' /\ Apart' /\ Placed'
  <2> DEFINE h == Head(l_freebuf)
  <2>1. l_freebuf \in Seq(Buffers) /\ l_freebuf # <<>> /\ Distinct(l_freebuf)
    BY <1>1 DEF get_buffer_free, TypeOK, Distincts
  <2>2. /\ h \in Elems(l_freebuf) /\ h \in Buffers
        /\ Elems(Tail(l_freebuf)) = Elems(l_freebuf) \ {h}
        /\ Distinct(Tail(l_freebuf))
    BY <2>1, TailElems
  <2>3. TakeBuffer(s, h) /\ l_freebuf' = Tail(l_freebuf)
    BY <1>1 DEF get_buffer_free
  <2>4. Free' = Free \ {h} /\ h \in Free /\ Distinct(l_freebuf')
    BY <2>2, <2>3 DEF Free
  <2> HIDE DEF h
  <2>5. QED
    BY <2>2, <2>3, <2>4, TakePlaces
<1>2. ASSUME NEW s \in Submitters, get_buffer_new(s)
      PROVE  Distincts' /\ Apart' /\ Placed'
  <2>1. PICK b \in Buffers : text[b] = None /\ TakeBuffer(s, b)
    BY <1>2 DEF get_buffer_new
  <2>2. l_freebuf = <<>> /\ l_freebuf' = l_freebuf
    BY <1>2 DEF get_buffer_new
  <2>3. Free' = Free \ {b} /\ Distinct(l_freebuf')
    BY <2>2 DEF Free, Elems, Distinct
  <2>4. QED
    BY <2>1, <2>3, TakePlaces
<1>3. ASSUME NEW s \in Submitters, log_buffer_push(s)
      PROVE  Distincts' /\ Apart' /\ Placed'
  BY <1>3, PushPlaces
<1>4. ASSUME NEW w \in Workers, task_handler(w)
      PROVE  Distincts' /\ Apart' /\ Placed'
  BY <1>4, SwapPlaces DEF task_handler, Runners
<1>5. CASE mod_cleanup_flush
  BY <1>5, SwapPlaces DEF mod_cleanup_flush, Runners
<1>6. ASSUME NEW t \in Runners, flush_write(t)
      PROVE  Distincts' /\ Apart' /\ Placed'
  BY <1>6, WritePlaces
<1>7. ASSUME NEW t \in Runners, flush_free(t)
      PROVE  Distincts' /\ Apart' /\ Placed'
  BY <1>7, FreePlaces
<1>8. CASE mod_init \/ mod_enable_service \/ pool_stop \/ mod_cleanup_close
  BY <1>8, StillPlaces DEF mod_init, mod_enable_service, pool_stop, mod_cleanup_close
<1>9. ASSUME NEW s \in Submitters, log_buffer_submit(s) \/ task_schedule(s)
      PROVE  Distincts' /\ Apart' /\ Placed'
  BY <1>9, StillPlaces DEF log_buffer_submit, task_schedule
<1>10. ASSUME NEW w \in Workers, task_take(w) \/ handler_return(w)
       PROVE  Distincts' /\ Apart' /\ Placed'
  BY <1>10, StillPlaces DEF task_take, handler_return
<1>11. CASE UNCHANGED vars
  BY <1>11, StillPlaces DEF vars, bufVars
<1>12. QED
  BY <1>1, <1>2, <1>3, <1>4, <1>5, <1>6, <1>7, <1>8, <1>9, <1>10, <1>11 DEF Next

(* A queue has a buffer at one index, or at none.                           *)
LEMMA AtOne ==
    ASSUME NEW q, Distinct(q), NEW b
    PROVE  /\ b \in Elems(q) => \E i \in DOMAIN q : At(q, b) = {i}
           /\ b \notin Elems(q) => At(q, b) = {}
<1>1. ASSUME b \in Elems(q) PROVE \E i \in DOMAIN q : At(q, b) = {i}
  <2>1. PICK i \in DOMAIN q : q[i] = b
    BY <1>1 DEF Elems
  <2>2. At(q, b) = {i}
    BY <2>1 DEF At, Distinct
  <2>3. QED
    BY <2>2
<1>2. ASSUME b \notin Elems(q) PROVE At(q, b) = {}
  BY <1>2 DEF Elems, At
<1>3. QED
  BY <1>1, <1>2

LEMMA OncePlaces ==
    ASSUME TypeOK, TP!IInv, Control, Distincts, Apart, Placed
    PROVE  BufferOnce
<1> SUFFICES ASSUME NEW b \in Buffers
             PROVE  Cardinality(Places(b)) = IF text[b] = None THEN 0 ELSE 1
  BY DEF BufferOnce
<1> DEFINE F == {"free"} \X At(l_freebuf, b)
           P == {"pending"} \X At(l_pending, b)
           G == {"logger"} \X {s \in Submitters : buf[s] = b}
           L == UNION {{"local"} \X ({t} \X At(local[t], b)) : t \in Runners}
           R == UNION {{"frbuf"} \X ({t} \X At(frbuf[t], b)) : t \in Runners}
<1>0. /\ Distinct(l_freebuf) /\ Distinct(l_pending) /\ b # None
      /\ \A t \in Runners : Distinct(local[t]) /\ Distinct(frbuf[t])
  BY DEF Distincts, Buffers, None
<1>1. b \notin Free => F = {}
  BY <1>0, AtOne DEF Free
<1>2. b \notin Pend => P = {}
  BY <1>0, AtOne DEF Pend
<1>3. (\A s \in Submitters : buf[s] # b) => G = {}
  OBVIOUS
<1>4. (\A t \in Runners : b \notin Loc(t)) => L = {}
  BY <1>0, AtOne DEF Loc
<1>5. (\A t \in Runners : b \notin Frb(t)) => R = {}
  BY <1>0, AtOne DEF Frb
<1>6. b \in Free => \E x : F = {x}
  <2>1. ASSUME NEW i, At(l_freebuf, b) = {i} PROVE F = {<<"free", i>>}
    BY <2>1
  <2>2. QED
    BY <1>0, <2>1, AtOne DEF Free
<1>7. b \in Pend => \E x : P = {x}
  <2>1. ASSUME NEW i, At(l_pending, b) = {i} PROVE P = {<<"pending", i>>}
    BY <2>1
  <2>2. QED
    BY <1>0, <2>1, AtOne DEF Pend
<1>8. ASSUME NEW s \in Submitters, buf[s] = b PROVE G = {<<"logger", s>>}
  BY <1>0, <1>8 DEF Apart
<1>9. ASSUME NEW t \in Runners, b \in Loc(t) PROVE \E x : L = {x}
  <2>1. PICK i : At(local[t], b) = {i}
    BY <1>0, <1>9, AtOne DEF Loc
  <2>2. local[t] # <<>>
    BY <1>9 DEF Loc, Elems
  <2>3. \A u \in Runners \ {t} : local[u] = <<>>
    BY <2>2, OneFlush, NoFlush
  <2>4. \A u \in Runners \ {t} : At(local[u], b) = {}
    BY <2>3 DEF At
  <2>5. L = {"local"} \X ({t} \X {i})
    BY <2>1, <2>4
  <2>6. L = {<<"local", <<t, i>>>>}
    BY <2>5
  <2>7. QED
    BY <2>6
<1>10. ASSUME NEW t \in Runners, b \in Frb(t) PROVE \E x : R = {x}
  <2>1. PICK i : At(frbuf[t], b) = {i}
    BY <1>0, <1>10, AtOne DEF Frb
  <2>2. frbuf[t] # <<>>
    BY <1>10 DEF Frb, Elems
  <2>3. \A u \in Runners \ {t} : frbuf[u] = <<>>
    BY <2>2, OneFlush, NoFlush
  <2>4. \A u \in Runners \ {t} : At(frbuf[u], b) = {}
    BY <2>3 DEF At
  <2>5. R = {"frbuf"} \X ({t} \X {i})
    BY <2>1, <2>4
  <2>6. R = {<<"frbuf", <<t, i>>>>}
    BY <2>5
  <2>7. QED
    BY <2>6
<1>11. Places(b) = F \cup P \cup G \cup L \cup R
  BY DEF Places
<1> HIDE DEF F, P, G, L, R
<1>12. \A s, t \in Runners : b \in Loc(s) => b \notin Frb(t)
  <2>1. ASSUME NEW s \in Runners, NEW t \in Runners, b \in Loc(s), b \in Frb(t) PROVE s = t
    <3>1. local[s] # <<>> /\ frbuf[t] # <<>>
      BY <2>1 DEF Loc, Frb, Elems
    <3>2. QED
      BY <3>1, OneFlush, NoFlush
  <2>2. QED
    BY <2>1 DEF Apart
<1>13. ASSUME text[b] # None PROVE \E x : Places(b) = {x}
  <2>1. CASE b \in Free
    <3>1. P = {} /\ G = {} /\ L = {} /\ R = {}
      BY <1>0, <1>2, <1>3, <1>4, <1>5, <2>1 DEF Apart
    <3>2. QED
      BY <1>6, <1>11, <2>1, <3>1
  <2>2. CASE b \in Pend
    <3>1. F = {} /\ G = {} /\ L = {} /\ R = {}
      BY <1>0, <1>1, <1>3, <1>4, <1>5, <2>2 DEF Apart
    <3>2. QED
      BY <1>7, <1>11, <2>2, <3>1
  <2>3. ASSUME NEW s \in Submitters, buf[s] = b PROVE \E x : Places(b) = {x}
    <3>1. F = {} /\ P = {} /\ L = {} /\ R = {}
      BY <1>0, <1>1, <1>2, <1>4, <1>5, <2>3 DEF Apart
    <3>2. QED
      BY <1>8, <1>11, <2>3, <3>1
  <2>4. ASSUME NEW t \in Runners, b \in Loc(t) PROVE \E x : Places(b) = {x}
    <3>1. F = {} /\ P = {} /\ G = {}
      BY <1>0, <1>1, <1>2, <1>3, <2>4 DEF Apart
    <3>2. R = {}
      BY <1>5, <1>12, <2>4
    <3>3. QED
      BY <1>9, <1>11, <2>4, <3>1, <3>2
  <2>5. ASSUME NEW t \in Runners, b \in Frb(t) PROVE \E x : Places(b) = {x}
    <3>1. F = {} /\ P = {} /\ G = {}
      BY <1>0, <1>1, <1>2, <1>3, <2>5 DEF Apart
    <3>2. L = {}
      BY <1>4, <1>12, <2>5
    <3>3. QED
      BY <1>10, <1>11, <2>5, <3>1, <3>2
  <2>6. QED
    BY <1>13, <2>1, <2>2, <2>3, <2>4, <2>5 DEF Placed
<1>14. ASSUME text[b] = None PROVE Places(b) = {}
  BY <1>1, <1>2, <1>3, <1>4, <1>5, <1>11, <1>14 DEF Placed
<1>15. QED
  BY <1>13, <1>14, FS_EmptySet, FS_Singleton

-----------------------------------------------------------------------------
(* The log file.                                                            *)

Record == [line : Nat, sink : {"stdout", "file"}]

(* The lines of a log w but that of its banner, and the lines in a queue of *)
(* buffers that hold the lines f.                                           *)
BannersOf(w) == {i \in DOMAIN w : w[i].line = Banner}
LinesOf(w) ==
    [i \in 1..(Len(w) - Cardinality(BannersOf(w))) |->
        IF \E k \in BannersOf(w) : k <= i THEN w[i + 1].line ELSE w[i].line]
Held(f, queue) == [i \in DOMAIN queue |-> f[queue[i]]]

LEMMA LinesAre ==
    /\ Banners = BannersOf(written) /\ Banners' = BannersOf(written')
    /\ WrittenLines = LinesOf(written) /\ WrittenLines' = LinesOf(written')
    /\ Texts(l_pending) = Held(text, l_pending)
    /\ \A t \in Runners : Texts(local[t]) = Held(text, local[t])
BY DEF Banners, BannersOf, WrittenLines, LinesOf, Texts, Held

(* A banner that is there shifts the lines after it by one.                 *)
LEMMA LinesShape ==
    ASSUME NEW w \in Seq(Record), \A i, k \in BannersOf(w) : i = k
    PROVE  \/ /\ BannersOf(w) = {}
              /\ LinesOf(w) = [i \in 1..Len(w) |-> w[i].line]
           \/ \E k \in 1..Len(w) :
                 /\ BannersOf(w) = {k}
                 /\ LinesOf(w) = [i \in 1..(Len(w) - 1) |->
                                     IF k <= i THEN w[i + 1].line ELSE w[i].line]
<1>1. CASE BannersOf(w) = {}
  <2>1. Len(w) - Cardinality(BannersOf(w)) = Len(w)
    BY <1>1, FS_EmptySet
  <2>2. QED
    BY <1>1, <2>1 DEF LinesOf
<1>2. CASE BannersOf(w) # {}
  <2>1. PICK k \in 1..Len(w) : BannersOf(w) = {k}
    BY <1>2 DEF BannersOf
  <2>2. Cardinality(BannersOf(w)) = 1
    BY <2>1, FS_Singleton
  <2>3. LinesOf(w) = [i \in 1..(Len(w) - 1) |->
                         IF k <= i THEN w[i + 1].line ELSE w[i].line]
    BY <2>1, <2>2 DEF LinesOf
  <2>4. QED
    BY <2>1, <2>3
<1>3. QED
  BY <1>1, <1>2

LEMMA LinesType ==
    ASSUME NEW w \in Seq(Record), \A i, k \in BannersOf(w) : i = k
    PROVE  LinesOf(w) \in Seq(Nat)
<1>0. /\ Len(w) \in Nat
      /\ \A i \in 1..Len(w) : w[i].line \in Nat
  <2>1. Len(w) \in Nat /\ \A i \in 1..Len(w) : w[i] \in Record
    OBVIOUS
  <2>2. QED
    BY <2>1 DEF Record
<1>1. CASE LinesOf(w) = [i \in 1..Len(w) |-> w[i].line]
  BY <1>0, <1>1
<1>2. ASSUME NEW k \in 1..Len(w),
             LinesOf(w) = [i \in 1..(Len(w) - 1) |->
                              IF k <= i THEN w[i + 1].line ELSE w[i].line]
      PROVE  LinesOf(w) \in Seq(Nat)
  <2>1. Len(w) - 1 \in Nat
    BY <1>0
  <2>2. \A i \in 1..(Len(w) - 1) : i \in 1..Len(w) /\ i + 1 \in 1..Len(w)
    BY <1>0
  <2>3. \A i \in 1..(Len(w) - 1) : (IF k <= i THEN w[i + 1].line ELSE w[i].line) \in Nat
    BY <1>0, <2>2
  <2> DEFINE f == [i \in 1..(Len(w) - 1) |-> IF k <= i THEN w[i + 1].line ELSE w[i].line]
  <2>4. f \in [1..(Len(w) - 1) -> Nat]
    BY <2>3
  <2>5. LinesOf(w) = f
    BY <1>2
  <2> HIDE DEF f
  <2>6. f \in Seq(Nat)
    BY <2>1, <2>4, SeqDef
  <2>7. QED
    BY <2>5, <2>6
<1>3. QED
  BY <1>1, <1>2, LinesShape

(* Writing a line appends it to the lines of the log.                       *)
LEMMA LinesWrite ==
    ASSUME NEW w \in Seq(Record), \A i, k \in BannersOf(w) : i = k,
           NEW r \in Record, r.line # Banner
    PROVE  /\ BannersOf(Append(w, r)) = BannersOf(w)
           /\ LinesOf(Append(w, r)) = Append(LinesOf(w), r.line)
<1> DEFINE v == Append(w, r)
<1>1. /\ v \in Seq(Record) /\ Len(v) = Len(w) + 1 /\ Len(w) \in Nat
      /\ DOMAIN w = 1..Len(w) /\ DOMAIN v = 1..(Len(w) + 1)
      /\ \A i \in 1..Len(w) : v[i] = w[i]
      /\ v[Len(w) + 1] = r /\ r.line \in Nat
  BY DEF Record
<1> HIDE DEF v
<1>2. BannersOf(v) = BannersOf(w)
  BY <1>1 DEF BannersOf
<1>3. LinesOf(w) \in Seq(Nat) /\ LinesOf(v) \in Seq(Nat)
  BY <1>1, <1>2, LinesType
<1>4. CASE BannersOf(w) = {}
  <2>1. /\ LinesOf(w) = [i \in 1..Len(w) |-> w[i].line]
        /\ LinesOf(v) = [i \in 1..(Len(w) + 1) |-> v[i].line]
    BY <1>1, <1>2, <1>4, LinesShape
  <2>2. /\ Len(LinesOf(w)) = Len(w) /\ Len(LinesOf(v)) = Len(w) + 1
        /\ \A i \in 1..Len(w) : LinesOf(v)[i] = LinesOf(w)[i]
        /\ LinesOf(v)[Len(w) + 1] = r.line
    BY <1>1, <2>1
  <2>3. QED
    BY <1>1, <1>2, <1>3, <2>2 DEF v
<1>5. CASE BannersOf(w) # {}
  <2>1. PICK k \in 1..Len(w) :
            /\ BannersOf(w) = {k}
            /\ LinesOf(w) = [i \in 1..(Len(w) - 1) |->
                                IF k <= i THEN w[i + 1].line ELSE w[i].line]
    BY <1>5, LinesShape
  <2>2. PICK j \in 1..Len(v) :
            /\ BannersOf(v) = {j}
            /\ LinesOf(v) = [i \in 1..(Len(v) - 1) |->
                                IF j <= i THEN v[i + 1].line ELSE v[i].line]
    BY <1>1, <1>2, <1>5, LinesShape
  <2>3. j = k
    BY <1>2, <2>1, <2>2
  <2>4. LinesOf(v) = [i \in 1..Len(w) |-> IF k <= i THEN v[i + 1].line ELSE v[i].line]
    BY <1>1, <2>2, <2>3
  <2>5. Len(LinesOf(w)) = Len(w) - 1 /\ Len(LinesOf(v)) = Len(w)
    BY <1>1, <2>1, <2>4
  <2>6. ASSUME NEW i \in 1..(Len(w) - 1) PROVE LinesOf(v)[i] = LinesOf(w)[i]
    <3>1. i \in 1..Len(w) /\ i + 1 \in 1..Len(w)
      BY <1>1
    <3>2. v[i] = w[i] /\ v[i + 1] = w[i + 1]
      BY <1>1, <3>1
    <3>3. QED
      BY <2>1, <2>4, <3>1, <3>2
  <2>7. LinesOf(v)[Len(w)] = r.line
    BY <1>1, <2>1, <2>4
  <2>8. LinesOf(v) = Append(LinesOf(w), r.line)
    <3> DEFINE a == LinesOf(w) b == LinesOf(v) n == Len(w) x == r.line
    <3>1. /\ a \in Seq(Nat) /\ b \in Seq(Nat) /\ x \in Nat /\ n \in Nat \ {0}
          /\ Len(a) = n - 1 /\ Len(b) = n
          /\ \A i \in 1..(n - 1) : b[i] = a[i]
          /\ b[n] = x
      BY <1>1, <1>3, <2>1, <2>5, <2>6, <2>7
    <3> HIDE DEF a, b, n, x
    <3>2. /\ Append(a, x) \in Seq(Nat) /\ Len(Append(a, x)) = Len(b)
          /\ \A i \in 1..Len(b) : Append(a, x)[i] = b[i]
      BY <3>1
    <3>3. b = Append(a, x)
      BY <3>1, <3>2
    <3>4. QED
      BY <3>3 DEF a, b, x
  <2>9. QED
    BY <1>2, <2>8 DEF v
<1>6. QED
  BY <1>4, <1>5

(* The first banner adds no line.                                           *)
LEMMA LinesBanner ==
    ASSUME NEW w \in Seq(Record), BannersOf(w) = {},
           NEW r \in Record, r.line = Banner
    PROVE  /\ \A i, k \in BannersOf(Append(w, r)) : i = k
           /\ LinesOf(Append(w, r)) = LinesOf(w)
<1> DEFINE v == Append(w, r)
<1>1. /\ v \in Seq(Record) /\ Len(v) = Len(w) + 1 /\ Len(w) \in Nat
      /\ DOMAIN w = 1..Len(w) /\ DOMAIN v = 1..(Len(w) + 1)
      /\ \A i \in 1..Len(w) : v[i] = w[i]
      /\ v[Len(w) + 1] = r
  OBVIOUS
<1> HIDE DEF v
<1>2. BannersOf(v) = {Len(w) + 1}
  BY <1>1 DEF BannersOf
<1>3. LinesOf(v) = [i \in 1..(Len(v) - 1) |->
                       IF Len(w) + 1 <= i THEN v[i + 1].line ELSE v[i].line]
  <2>1. PICK k \in 1..Len(v) :
            /\ BannersOf(v) = {k}
            /\ LinesOf(v) = [i \in 1..(Len(v) - 1) |->
                                IF k <= i THEN v[i + 1].line ELSE v[i].line]
    BY <1>1, <1>2, LinesShape
  <2>2. k = Len(w) + 1
    BY <1>2, <2>1
  <2>3. QED
    BY <2>1, <2>2
<1>4. LinesOf(v) = [i \in 1..Len(w) |-> v[i].line]
  BY <1>1, <1>3
<1>5. LinesOf(w) = [i \in 1..Len(w) |-> w[i].line]
  BY LinesShape
<1>6. LinesOf(v) = LinesOf(w)
  BY <1>1, <1>4, <1>5
<1>7. QED
  BY <1>2, <1>6 DEF v

(* What a step may write: a line that a logger formatted, or the banner.    *)
LEMMA StepWritten ==
    ASSUME TypeOK, TP!IInv, Control, Apart, Placed, Sinks, OneBanner, [Next]_vars
    PROVE  \/ written' = written
           \/ \E t \in Runners :
                 /\ flush_write(t) /\ prog \notin {"new", "done"} /\ prog' = prog
                 /\ l_io' = l_io
                 /\ \E x \in Nat \ {Banner} :
                       /\ x = text[Head(local[t])]
                       /\ written' = Append(written, [line |-> x, sink |-> Sink])
           \/ /\ mod_enable_service
              /\ written' = Append(written, [line |-> Banner, sink |-> Sink])
<1>1. ASSUME NEW t \in Runners, flush_write(t)
      PROVE  /\ prog \notin {"new", "done"} /\ prog' = prog
             /\ l_io' = l_io
             /\ \E x \in Nat \ {Banner} :
                   /\ x = text[Head(local[t])]
                   /\ written' = Append(written, [line |-> x, sink |-> Sink])
  <2>1. fpc[t] = "write" /\ local[t] # <<>> /\ local[t] \in Seq(Buffers)
    BY <1>1 DEF flush_write, TypeOK
  <2>2. prog \notin {"new", "done"}
    BY <2>1 DEF Control, Quiet, Runners
  <2>3. Head(local[t]) \in Buffers /\ Head(local[t]) \in Loc(t)
    <3>1. Head(local[t]) \in Buffers /\ 1 \in DOMAIN local[t] /\ Head(local[t]) = local[t][1]
      BY <2>1
    <3>2. QED
      BY <3>1 DEF Loc, Elems
  <2>4. text[Head(local[t])] \in Nat \ {Banner}
    BY <2>3 DEF Placed, TypeOK, Banner, None
  <2>5. /\ prog' = prog /\ l_io' = l_io
        /\ written' = Append(written, [line |-> text[Head(local[t])], sink |-> Sink])
    BY <1>1 DEF flush_write, flush_buffer
  <2>6. QED
    BY <2>2, <2>4, <2>5
<1>2. CASE mod_enable_service
  BY <1>2 DEF mod_enable_service, flush_buffer
<1>3. ASSUME NEW s \in Submitters,
             \/ get_buffer_free(s) \/ get_buffer_new(s)
             \/ log_buffer_push(s) \/ log_buffer_submit(s) \/ task_schedule(s)
      PROVE  written' = written
  BY <1>3 DEF get_buffer_free, get_buffer_new, TakeBuffer, log_buffer_push,
     log_buffer_submit, task_schedule
<1>4. ASSUME NEW w \in Workers, task_take(w) \/ task_handler(w) \/ handler_return(w)
      PROVE  written' = written
  BY <1>4 DEF task_take, task_handler, Swap, handler_return
<1>5. ASSUME NEW t \in Runners, flush_free(t)
      PROVE  written' = written
  BY <1>5 DEF flush_free
<1>6. CASE mod_init \/ pool_stop \/ mod_cleanup_flush \/ mod_cleanup_close \/ UNCHANGED vars
  BY <1>6 DEF mod_init, pool_stop, mod_cleanup_flush, Swap, mod_cleanup_close, vars
<1>7. QED
  BY <1>1, <1>2, <1>3, <1>4, <1>5, <1>6 DEF Next

(* Only mod_init opens the log file and only mod_cleanup closes it.         *)
LEMMA StepSink ==
    ASSUME [Next]_vars
    PROVE  \/ /\ l_io' = l_io /\ (prog' = "new" <=> prog = "new")
              /\ prog' = "init" => prog = "init"
              /\ prog' = "done" <=> prog = "done"
           \/ prog = "new" /\ prog' = "init" /\ written' = written
           \/ prog = "cleanup" /\ prog' = "done" /\ written' = written
<1>1. ASSUME NEW s \in Submitters,
             \/ get_buffer_free(s) \/ get_buffer_new(s)
             \/ log_buffer_push(s) \/ log_buffer_submit(s) \/ task_schedule(s)
      PROVE  l_io' = l_io /\ prog' = prog
  BY <1>1 DEF get_buffer_free, get_buffer_new, TakeBuffer, log_buffer_push,
     log_buffer_submit, task_schedule
<1>2. ASSUME NEW w \in Workers, task_take(w) \/ task_handler(w) \/ handler_return(w)
      PROVE  l_io' = l_io /\ prog' = prog
  BY <1>2 DEF task_take, task_handler, handler_return
<1>3. ASSUME NEW t \in Runners, flush_write(t) \/ flush_free(t)
      PROVE  l_io' = l_io /\ prog' = prog
  BY <1>3 DEF flush_write, flush_free
<1>4. QED
  BY <1>1, <1>2, <1>3 DEF Next, mod_init, mod_enable_service, pool_stop,
     mod_cleanup_flush, mod_cleanup_close, vars

(* Appending a record with the sink of all the others.                      *)
LEMMA AppendSink ==
    ASSUME NEW w \in Seq(Record), NEW r \in Record,
           \A i \in DOMAIN w : w[i].sink = r.sink
    PROVE  \A i \in DOMAIN Append(w, r) : Append(w, r)[i].sink = r.sink
<1>1. /\ DOMAIN Append(w, r) = 1..(Len(w) + 1) /\ Len(w) \in Nat
      /\ DOMAIN w = 1..Len(w)
      /\ \A i \in 1..Len(w) : Append(w, r)[i] = w[i]
      /\ Append(w, r)[Len(w) + 1] = r
  OBVIOUS
<1> DEFINE v == Append(w, r)
<1> HIDE DEF v
<1>2. QED
  BY <1>1

LEMMA StepSinks ==
    ASSUME TypeOK, TP!IInv, Control, Apart, Placed, Sinks, OneBanner, [Next]_vars
    PROVE  Sinks' /\ OneBanner'
<1>0. written \in Seq(Record)
  BY DEF TypeOK, Record
<1>1. CASE written' = written
  <2>1. Sinks'
    BY <1>1, StepSink DEF Sinks, OneSink, Sink
  <2>2. OneBanner'
    <3>1. Banners' = Banners
      BY <1>1 DEF Banners
    <3>2. prog' \in {"new", "init"} => prog \in {"new", "init"}
      BY StepSink
    <3>3. QED
      BY <3>1, <3>2 DEF OneBanner
  <2>3. QED
    BY <2>1, <2>2
<1>2. ASSUME NEW x \in Nat, prog \notin {"new", "done"}, prog' # "new", prog' # "done",
             l_io' = l_io, written' = Append(written, [line |-> x, sink |-> Sink])
      PROVE  Sinks'
  <2> DEFINE r == [line |-> x, sink |-> Sink]
  <2>1. r \in Record /\ r.sink = Sink
    BY DEF Record, Sink
  <2>2. \A i \in DOMAIN written : written[i].sink = r.sink
    BY <1>2, <2>1 DEF Sinks
  <2> HIDE DEF r
  <2>3. \A i \in DOMAIN Append(written, r) : Append(written, r)[i].sink = Sink
    BY <1>0, <2>1, <2>2, AppendSink
  <2>4. \A i \in DOMAIN written' : written'[i].sink = Sink
    BY <1>2, <2>3 DEF r
  <2>5. Sink' = Sink
    BY <1>2 DEF Sink
  <2>6. 1 \in DOMAIN written'
    BY <1>0, <1>2, <2>1 DEF r
  <2>7. QED
    BY <1>2, <2>4, <2>5, <2>6 DEF Sinks, OneSink
<1>3. ASSUME NEW t \in Runners, NEW x \in Nat \ {Banner}, prog \notin {"new", "done"},
             prog' = prog, l_io' = l_io,
             written' = Append(written, [line |-> x, sink |-> Sink])
      PROVE  Sinks' /\ OneBanner'
  <2>1. [line |-> x, sink |-> Sink] \in Record
    BY DEF Record, Sink
  <2>2. BannersOf(written') = BannersOf(written)
    BY <1>0, <1>3, <2>1, LinesWrite, LinesAre DEF OneBanner
  <2>3. OneBanner'
    BY <1>3, <2>2, LinesAre DEF OneBanner
  <2>4. QED
    BY <1>2, <1>3, <2>3
<1>4. ASSUME mod_enable_service,
             written' = Append(written, [line |-> Banner, sink |-> Sink])
      PROVE  Sinks' /\ OneBanner'
  <2>1. prog = "init" /\ prog' = "run" /\ l_io' = l_io
    BY <1>4 DEF mod_enable_service
  <2>2. [line |-> Banner, sink |-> Sink] \in Record /\ Banner \in Nat
    BY DEF Record, Sink, Banner
  <2>3. \A i, k \in BannersOf(written') : i = k
    BY <1>0, <1>4, <2>1, <2>2, LinesBanner, LinesAre DEF OneBanner
  <2>4. OneBanner'
    BY <2>1, <2>3, LinesAre DEF OneBanner
  <2>5. QED
    BY <1>2, <1>4, <2>1, <2>2, <2>4
<1>5. QED
  BY <1>1, <1>3, <1>4, StepWritten

(* A line is counted when it is formatted, and pushed once.                 *)
LEMMA StepCounted ==
    ASSUME TypeOK, Counted, [Next]_vars
    PROVE  Counted'
<1>0. /\ lpc \in [Submitters -> {"idle", "format", "submit"}] /\ lines \in Nat
      /\ pushed \in Seq(Nat)
      /\ IsFiniteSet(Formatting) /\ Cardinality(Formatting) \in Nat
      /\ lines = Len(pushed) + Cardinality(Formatting)
  BY FS_CardinalityType DEF TypeOK, Counted
<1>1. ASSUME NEW s \in Submitters, NEW b, TakeBuffer(s, b) PROVE Counted'
  <2>1. /\ s \notin Formatting /\ lines' = lines + 1 /\ pushed' = pushed
        /\ lpc' = [lpc EXCEPT ![s] = "format"]
    BY <1>1 DEF TakeBuffer, Formatting
  <2>2. Formatting' = Formatting \cup {s}
    BY <1>0, <2>1 DEF Formatting
  <2>3. /\ IsFiniteSet(Formatting \cup {s})
        /\ Cardinality(Formatting \cup {s}) = Cardinality(Formatting) + 1
    BY <1>0, <2>1, FS_AddElement
  <2>4. QED
    BY <1>0, <2>1, <2>2, <2>3 DEF Counted
<1>2. ASSUME NEW s \in Submitters, log_buffer_push(s) PROVE Counted'
  <2>1. /\ s \in Formatting /\ lines' = lines
        /\ pushed' = Append(pushed, text[buf[s]])
        /\ lpc' = [lpc EXCEPT ![s] = "submit"]
    BY <1>2 DEF log_buffer_push, Formatting
  <2>2. Formatting' = Formatting \ {s}
    BY <1>0, <2>1 DEF Formatting
  <2>3. /\ IsFiniteSet(Formatting \ {s})
        /\ Cardinality(Formatting \ {s}) = Cardinality(Formatting) - 1
    BY <1>0, <2>1, FS_RemoveElement
  <2>4. Len(pushed') = Len(pushed) + 1
    BY <1>0, <2>1
  <2>5. QED
    BY <1>0, <2>1, <2>2, <2>3, <2>4 DEF Counted
<1>3. ASSUME lines' = lines, pushed' = pushed, Formatting' = Formatting PROVE Counted'
  BY <1>3 DEF Counted
<1>4. ASSUME NEW s \in Submitters, log_buffer_submit(s) PROVE Counted'
  <2>1. Formatting' = Formatting
    BY <1>0, <1>4 DEF log_buffer_submit, Formatting
  <2>2. QED
    BY <1>3, <1>4, <2>1 DEF log_buffer_submit
<1>5. ASSUME NEW s \in Submitters, task_schedule(s) PROVE Counted'
  BY <1>3, <1>5 DEF task_schedule, Formatting
<1>6. ASSUME NEW w \in Workers, task_take(w) \/ task_handler(w) \/ handler_return(w)
      PROVE  Counted'
  BY <1>3, <1>6 DEF task_take, task_handler, Swap, handler_return, Formatting
<1>7. ASSUME NEW t \in Runners, flush_write(t) \/ flush_free(t) PROVE Counted'
  BY <1>3, <1>7 DEF flush_write, flush_free, Formatting
<1>8. CASE mod_init \/ mod_enable_service \/ pool_stop \/ mod_cleanup_flush
           \/ mod_cleanup_close \/ UNCHANGED vars
  BY <1>3, <1>8 DEF mod_init, mod_enable_service, pool_stop, mod_cleanup_flush, Swap,
     mod_cleanup_close, vars, Formatting
<1>9. QED
  BY <1>1, <1>2, <1>4, <1>5, <1>6, <1>7, <1>8 DEF Next, get_buffer_free, get_buffer_new

-----------------------------------------------------------------------------
(* The order of the lines.                                                  *)

LEMMA HeldType ==
    ASSUME NEW S, NEW f \in [S -> Nat], NEW q \in Seq(S)
    PROVE  Held(f, q) \in Seq(Nat) /\ Len(Held(f, q)) = Len(q)
<1>1. /\ Len(q) \in Nat /\ DOMAIN q = 1..Len(q)
      /\ \A i \in 1..Len(q) : f[q[i]] \in Nat
  OBVIOUS
<1>2. Held(f, q) \in [1..Len(q) -> Nat] /\ DOMAIN Held(f, q) = 1..Len(q)
  BY <1>1 DEF Held
<1> DEFINE h == Held(f, q)
<1>3. h \in [1..Len(q) -> Nat] /\ DOMAIN h = 1..Len(q)
  BY <1>2
<1> HIDE DEF h
<1>4. h \in Seq(Nat)
  BY <1>1, <1>3, SeqDef
<1>5. Len(h) = Len(q)
  BY <1>1, <1>3, <1>4
<1>6. QED
  BY <1>4, <1>5 DEF h

LEMMA HeldEmpty == ASSUME NEW f PROVE Held(f, <<>>) = <<>>
BY DEF Held

LEMMA HeldSame ==
    ASSUME NEW f, NEW g, NEW q, \A b \in Elems(q) : g[b] = f[b]
    PROVE  Held(g, q) = Held(f, q)
BY DEF Held, Elems

LEMMA HeldAppend ==
    ASSUME NEW S, NEW f \in [S -> Nat], NEW q \in Seq(S), NEW b \in S
    PROVE  Held(f, Append(q, b)) = Append(Held(f, q), f[b])
<1> DEFINE h == Held(f, q) k == Held(f, Append(q, b)) r == Append(q, b) n == Len(q)
<1>1. /\ r \in Seq(S) /\ Len(r) = n + 1 /\ n \in Nat /\ DOMAIN r = 1..(n + 1)
      /\ DOMAIN q = 1..n
      /\ \A i \in 1..n : r[i] = q[i]
      /\ r[n + 1] = b /\ f[b] \in Nat
  OBVIOUS
<1>2. h \in Seq(Nat) /\ Len(h) = n
  BY HeldType
<1>3. k \in Seq(Nat) /\ Len(k) = n + 1
  BY <1>1, HeldType
<1>4. \A i \in 1..n : h[i] = f[q[i]]
  BY <1>1 DEF Held
<1> HIDE DEF r, n
<1>5. \A i \in 1..(n + 1) : k[i] = f[r[i]]
  BY <1>1 DEF Held, r
<1> HIDE DEF h, k
<1>6. /\ \A i \in 1..n : k[i] = h[i]
      /\ k[n + 1] = f[b]
  BY <1>1, <1>4, <1>5
<1> DEFINE a == Append(h, f[b])
<1>7. a \in Seq(Nat) /\ Len(a) = n + 1 /\ \A i \in 1..(n + 1) : a[i] = k[i]
  BY <1>1, <1>2, <1>6
<1>8. a = k
  BY <1>1, <1>3, <1>7
<1>9. QED
  BY <1>8 DEF a, h, k

LEMMA HeldTail ==
    ASSUME NEW S, NEW f \in [S -> Nat], NEW q \in Seq(S), q # <<>>
    PROVE  /\ Held(f, q) # <<>>
           /\ Head(Held(f, q)) = f[Head(q)]
           /\ Tail(Held(f, q)) = Held(f, Tail(q))
<1> DEFINE h == Held(f, q) k == Held(f, Tail(q)) r == Tail(q) n == Len(q)
<1>1. /\ r \in Seq(S) /\ Len(r) = n - 1 /\ n \in Nat \ {0} /\ DOMAIN r = 1..(n - 1)
      /\ DOMAIN q = 1..n
      /\ \A i \in 1..(n - 1) : r[i] = q[i + 1]
      /\ Head(q) = q[1]
  OBVIOUS
<1>2. h \in Seq(Nat) /\ Len(h) = n
  BY HeldType
<1>3. k \in Seq(Nat) /\ Len(k) = n - 1
  BY <1>1, HeldType
<1>4. \A i \in 1..n : h[i] = f[q[i]]
  BY <1>1 DEF Held
<1> HIDE DEF r, n
<1>5. \A i \in 1..(n - 1) : k[i] = f[r[i]]
  BY <1>1 DEF Held, r
<1> HIDE DEF h, k
<1>6. h # <<>> /\ Head(h) = h[1]
  BY <1>1, <1>2
<1>7. h[1] = f[Head(q)]
  BY <1>1, <1>4
<1>8. \A i \in 1..(n - 1) : k[i] = h[i + 1]
  BY <1>1, <1>4, <1>5
<1> DEFINE a == Tail(h)
<1>9. a \in Seq(Nat) /\ Len(a) = n - 1 /\ \A i \in 1..(n - 1) : a[i] = h[i + 1]
  BY <1>1, <1>2, <1>6
<1> HIDE DEF a
<1>10. a = k
  BY <1>1, <1>3, <1>8, <1>9
<1>11. QED
  BY <1>6, <1>7, <1>10 DEF a, h, k

(* A line pushed comes last, and the first line taken is the next one       *)
(* written.                                                                 *)
LEMMA OrderPush ==
    ASSUME NEW a \in Seq(Nat), NEW b \in Seq(Nat), NEW c \in Seq(Nat), NEW x \in Nat
    PROVE  a \o b \o Append(c, x) = Append(a \o b \o c, x)
<1> DEFINE ab == a \o b
           y == <<x>>
<1>1. ab \in Seq(Nat) /\ y \in Seq(Nat)
  OBVIOUS
<1>2. (ab \o c) \o y = ab \o (c \o y)
  <2> HIDE DEF ab, y
  <2>1. ab \in Seq(Nat) /\ c \in Seq(Nat) /\ y \in Seq(Nat)
    BY <1>1
  <2>2. QED
    BY ONLY <2>1, ConcatAssociative, SMTT(60)
<1>3. a \o b \o c \in Seq(Nat)
  BY <1>1
<1>4. Append(c, x) = c \o <<x>> /\ Append(a \o b \o c, x) = (a \o b \o c) \o <<x>>
  BY <1>3, AppendIsConcat
<1>5. QED
  BY <1>2, <1>4

LEMMA OrderWrite ==
    ASSUME NEW a \in Seq(Nat), NEW b \in Seq(Nat), b # <<>>
    PROVE  Append(a, Head(b)) \o Tail(b) = a \o b
<1> DEFINE x == Head(b)
<1>1. x \in Nat /\ Tail(b) \in Seq(Nat)
  BY HeadTailProperties
<1>2. b = <<x>> \o Tail(b)
  OBVIOUS
<1>3. Append(a, x) = a \o <<x>> /\ <<x>> \in Seq(Nat)
  BY <1>1, AppendIsConcat
<1> HIDE DEF x
<1>4. (a \o <<x>>) \o Tail(b) = a \o (<<x>> \o Tail(b))
  BY <1>1, <1>3, ConcatAssociative, SMTT(60)
<1>5. QED
  BY <1>2, <1>3, <1>4 DEF x

(* InOrder, at a runner that can be the one whose flush has lines.          *)
LEMMA OrderAt ==
    ASSUME InOrder, NEW t \in Runners, \A u \in Runners \ {t} : local[u] = <<>>
    PROVE  LinesOf(written) \o Held(text, local[t]) \o Held(text, l_pending) = pushed
<1>1. PICK v \in Runners :
          /\ \A u \in Runners \ {v} : local[u] = <<>>
          /\ LinesOf(written) \o Held(text, local[v]) \o Held(text, l_pending) = pushed
  BY LinesAre DEF InOrder
<1>2. local[v] = local[t]
  BY <1>1
<1>3. QED
  BY <1>1, <1>2

LEMMA OrderNext ==
    ASSUME NEW t \in Runners, \A u \in Runners \ {t} : local'[u] = <<>>,
           LinesOf(written') \o Held(text', local'[t]) \o Held(text', l_pending') = pushed'
    PROVE  InOrder'
BY LinesAre DEF InOrder, Texts, Held

(* The flush that has lines to write, or the main thread when none has.     *)
LEMMA Flusher ==
    ASSUME TypeOK, TP!IInv, Control
    PROVE  \E t \in Runners : \A u \in Runners \ {t} : local[u] = <<>>
<1>1. CASE \E t \in Runners : fpc[t] # "none"
  BY <1>1, OneFlush
<1>2. CASE \A t \in Runners : fpc[t] = "none"
  <2>1. \A t \in Runners : local[t] = <<>>
    BY <1>2, NoFlush
  <2>2. Main \in Runners
    BY DEF Runners
  <2>3. QED
    BY <2>1, <2>2
<1>3. QED
  BY <1>1, <1>2

(* A step that neither pushes, takes nor writes a line.                     *)
LEMMA StillOrder ==
    ASSUME TypeOK, TP!IInv, Control, InOrder,
           local' = local, l_pending' = l_pending, pushed' = pushed,
           \A t \in Runners : Held(text', local[t]) = Held(text, local[t]),
           Held(text', l_pending) = Held(text, l_pending),
           LinesOf(written') = LinesOf(written)
    PROVE  InOrder'
<1>1. PICK t \in Runners : \A u \in Runners \ {t} : local[u] = <<>>
  BY Flusher
<1>2. LinesOf(written) \o Held(text, local[t]) \o Held(text, l_pending) = pushed
  BY <1>1, OrderAt
<1>3. LinesOf(written') \o Held(text', local'[t]) \o Held(text', l_pending') = pushed'
  BY <1>2
<1>4. \A u \in Runners \ {t} : local'[u] = <<>>
  BY <1>1
<1>5. QED
  BY <1>3, <1>4, OrderNext

LEMMA TakeOrder ==
    ASSUME TypeOK, TP!IInv, Control, Apart, Placed, InOrder,
           NEW s \in Submitters, NEW b \in Buffers, TakeBuffer(s, b),
           b \in Free \/ text[b] = None
    PROVE  InOrder'
<1>1. b \notin Pend /\ \A t \in Runners : b \notin Loc(t)
  BY DEF Apart, Placed
<1>2. \A c \in Buffers \ {b} : text'[c] = text[c]
  BY DEF TakeBuffer, TypeOK
<1>3. /\ Pend \subseteq Buffers /\ \A t \in Runners : Loc(t) \subseteq Buffers
  BY DEF TypeOK, Pend, Loc, Elems
<1>4. Held(text', l_pending) = Held(text, l_pending)
  BY <1>1, <1>2, <1>3, HeldSame DEF Pend
<1>5. ASSUME NEW t \in Runners PROVE Held(text', local[t]) = Held(text, local[t])
  BY <1>1, <1>2, <1>3, HeldSame DEF Loc
<1>6. /\ local' = local /\ l_pending' = l_pending /\ pushed' = pushed
      /\ LinesOf(written') = LinesOf(written)
  BY DEF TakeBuffer
<1>7. QED
  BY <1>4, <1>5, <1>6, StillOrder

LEMMA PushOrder ==
    ASSUME TypeOK, TP!IInv, Control, OneBanner, InOrder,
           NEW s \in Submitters, log_buffer_push(s)
    PROVE  InOrder'
<1>1. PICK t \in Runners : \A u \in Runners \ {t} : local[u] = <<>>
  BY Flusher
<1>2. LinesOf(written) \o Held(text, local[t]) \o Held(text, l_pending) = pushed
  BY <1>1, OrderAt
<1>3. /\ text \in [Buffers -> Nat] /\ local[t] \in Seq(Buffers) /\ l_pending \in Seq(Buffers)
      /\ buf[s] \in Buffers /\ text[buf[s]] \in Nat
      /\ written \in Seq(Record)
  BY DEF log_buffer_push, Control, TypeOK, Record
<1>4. /\ LinesOf(written) \in Seq(Nat)
      /\ Held(text, local[t]) \in Seq(Nat) /\ Held(text, l_pending) \in Seq(Nat)
  BY <1>3, LinesType, HeldType, LinesAre DEF OneBanner
<1>5. Held(text, Append(l_pending, buf[s])) = Append(Held(text, l_pending), text[buf[s]])
  BY <1>3, HeldAppend, SMTT(60)
<1>6. LinesOf(written) \o Held(text, local[t]) \o Held(text, Append(l_pending, buf[s]))
      = Append(pushed, text[buf[s]])
  <2> DEFINE a == LinesOf(written)
             b == Held(text, local[t])
             c == Held(text, l_pending)
             x == text[buf[s]]
  <2>1. a \in Seq(Nat) /\ b \in Seq(Nat) /\ c \in Seq(Nat) /\ x \in Nat
    BY <1>3, <1>4
  <2> HIDE DEF a, b, c, x
  <2>2. a \o b \o Append(c, x) = Append(a \o b \o c, x)
    BY <2>1, OrderPush, SMTT(60)
  <2>3. QED
    BY <1>2, <1>5, <2>2 DEF a, b, c, x
<1>7. /\ l_pending' = Append(l_pending, buf[s]) /\ pushed' = Append(pushed, text[buf[s]])
      /\ text' = text /\ local' = local /\ written' = written
  BY DEF log_buffer_push
<1>8. QED
  BY <1>1, <1>6, <1>7, OrderNext

LEMMA SwapOrder ==
    ASSUME TypeOK, OneBanner, InOrder,
           NEW t \in Runners, Swap(t), \A u \in Runners : local[u] = <<>>
    PROVE  InOrder'
<1>1. LinesOf(written) \o Held(text, local[t]) \o Held(text, l_pending) = pushed
  BY OrderAt
<1>2. /\ text \in [Buffers -> Nat] /\ local \in [Runners -> Seq(Buffers)]
      /\ l_pending \in Seq(Buffers) /\ written \in Seq(Record)
  BY DEF TypeOK, Record
<1>3. LinesOf(written) \in Seq(Nat) /\ Held(text, l_pending) \in Seq(Nat)
  BY <1>2, LinesType, HeldType, LinesAre DEF OneBanner
<1>4. Held(text, <<>>) = <<>>
  BY HeldEmpty
<1>5. LinesOf(written) \o Held(text, l_pending) \o <<>> = pushed
  <2>1. LinesOf(written) \o <<>> = LinesOf(written)
    BY <1>3, ConcatEmptySeq
  <2>2. LinesOf(written) \o Held(text, l_pending) \in Seq(Nat)
    BY <1>3
  <2>3. LinesOf(written) \o Held(text, l_pending) \o <<>>
        = LinesOf(written) \o Held(text, l_pending)
    BY <2>2, ConcatEmptySeq
  <2>4. QED
    BY <1>1, <1>4, <2>1, <2>3
<1>6. /\ local' = [local EXCEPT ![t] = l_pending] /\ l_pending' = <<>>
      /\ text' = text /\ pushed' = pushed /\ written' = written
  BY DEF Swap
<1>7. local'[t] = l_pending /\ \A u \in Runners \ {t} : local'[u] = <<>>
  BY <1>2, <1>6
<1>8. LinesOf(written') \o Held(text', local'[t]) \o Held(text', l_pending') = pushed'
  BY <1>4, <1>5, <1>6, <1>7
<1>9. QED
  BY <1>7, <1>8, OrderNext

LEMMA WriteOrder ==
    ASSUME TypeOK, TP!IInv, Control, OneBanner, InOrder,
           NEW t \in Runners, flush_write(t),
           NEW x \in Nat \ {Banner}, x = text[Head(local[t])],
           written' = Append(written, [line |-> x, sink |-> Sink])
    PROVE  InOrder'
<1>1. \A u \in Runners \ {t} : local[u] = <<>>
  BY OneFlush DEF flush_write
<1>2. LinesOf(written) \o Held(text, local[t]) \o Held(text, l_pending) = pushed
  BY <1>1, OrderAt
<1>3. /\ text \in [Buffers -> Nat] /\ local \in [Runners -> Seq(Buffers)]
      /\ l_pending \in Seq(Buffers) /\ written \in Seq(Record)
      /\ local[t] # <<>>
  BY DEF TypeOK, Record, flush_write
<1>4. /\ LinesOf(written) \in Seq(Nat)
      /\ Held(text, local[t]) \in Seq(Nat)
  BY <1>3, LinesType, HeldType, LinesAre DEF OneBanner
<1>5. [line |-> x, sink |-> Sink] \in Record
  BY DEF Record, Sink
<1>6. LinesOf(written') = Append(LinesOf(written), x)
  <2>1. [line |-> x, sink |-> Sink].line = x
    OBVIOUS
  <2>2. \A i, k \in BannersOf(written) : i = k
    BY LinesAre DEF OneBanner
  <2>3. LinesOf(Append(written, [line |-> x, sink |-> Sink])) = Append(LinesOf(written), x)
    BY <1>3, <1>5, <2>1, <2>2, LinesWrite
  <2>4. QED
    BY <2>3
<1>7. /\ Held(text, local[t]) # <<>> /\ Head(Held(text, local[t])) = x
      /\ Tail(Held(text, local[t])) = Held(text, Tail(local[t]))
  <2> DEFINE q == local[t]
  <2>1. q \in Seq(Buffers) /\ q # <<>> /\ x = text[Head(q)]
    BY <1>3
  <2> HIDE DEF q
  <2>2. /\ Held(text, q) # <<>> /\ Head(Held(text, q)) = text[Head(q)]
        /\ Tail(Held(text, q)) = Held(text, Tail(q))
    BY <1>3, <2>1, HeldTail, ZenonT(60)
  <2>3. QED
    BY <2>1, <2>2 DEF q
<1>8. Append(LinesOf(written), x) \o Held(text, Tail(local[t]))
      = LinesOf(written) \o Held(text, local[t])
  BY <1>4, <1>7, OrderWrite
<1>9. /\ local' = [local EXCEPT ![t] = Tail(local[t])]
      /\ l_pending' = l_pending /\ text' = text /\ pushed' = pushed
  BY DEF flush_write
<1>10. local'[t] = Tail(local[t]) /\ \A u \in Runners \ {t} : local'[u] = <<>>
  BY <1>1, <1>3, <1>9
<1>11. LinesOf(written') \o Held(text', local'[t]) \o Held(text', l_pending') = pushed'
  BY <1>2, <1>6, <1>8, <1>9, <1>10
<1>12. QED
  BY <1>10, <1>11, OrderNext

LEMMA StepOrder ==
    ASSUME TypeOK, TP!IInv, Control, Distincts, Apart, Placed, Sinks, OneBanner, InOrder,
           [Next]_vars
    PROVE  InOrder'
<1>1. ASSUME NEW s \in Submitters, get_buffer_free(s) PROVE InOrder'
  <2> DEFINE h == Head(l_freebuf)
  <2>1. l_freebuf \in Seq(Buffers) /\ l_freebuf # <<>> /\ Distinct(l_freebuf)
    BY <1>1 DEF get_buffer_free, TypeOK, Distincts
  <2>2. h \in Free /\ h \in Buffers
    BY <2>1, TailElems DEF Free
  <2>3. TakeBuffer(s, h)
    BY <1>1 DEF get_buffer_free
  <2> HIDE DEF h
  <2>4. QED
    BY <2>2, <2>3, TakeOrder
<1>2. ASSUME NEW s \in Submitters, get_buffer_new(s) PROVE InOrder'
  BY <1>2, TakeOrder DEF get_buffer_new
<1>3. ASSUME NEW s \in Submitters, log_buffer_push(s) PROVE InOrder'
  BY <1>3, PushOrder
<1>4. ASSUME NEW w \in Workers, task_handler(w) PROVE InOrder'
  <2>1. w \in Runners /\ Swap(w) /\ wpc[w] = "handler"
    BY <1>4 DEF task_handler, T!exec_handler, Runners
  <2>2. prog \in {"init", "run"}
    BY <2>1 DEF Control, Quiet
  <2>3. \A u \in Runners : fpc[u] # "write"
    BY <2>1, <2>2, TaskTypes DEF Control, Runners
  <2>4. \A u \in Runners : local[u] = <<>>
    BY <2>3, NoFlush
  <2>5. QED
    BY <2>1, <2>4, SwapOrder
<1>5. CASE mod_cleanup_flush
  <2>1. Main \in Runners /\ Swap(Main) /\ prog = "stopped"
    BY <1>5 DEF mod_cleanup_flush, Runners
  <2>2. \A u \in Runners : fpc[u] # "write"
    BY <2>1 DEF Control, Quiet, Runners
  <2>3. \A u \in Runners : local[u] = <<>>
    BY <2>2, NoFlush
  <2>4. QED
    BY <2>1, <2>3, SwapOrder
<1>6. ASSUME NEW t \in Runners, flush_write(t) PROVE InOrder'
  <2>1. CASE written' = written
    <3>1. written \in Seq(Record)
      BY DEF TypeOK, Record
    <3>2. written' = Append(written, [line |-> text[Head(local[t])], sink |-> Sink])
      BY <1>6 DEF flush_write, flush_buffer
    <3>3. Len(written') = Len(written) + 1 /\ Len(written) \in Nat
      BY <3>1, <3>2
    <3>4. QED
      BY <2>1, <3>3
  <2>2. CASE \E u \in Runners :
                 /\ flush_write(u)
                 /\ \E x \in Nat \ {Banner} :
                       /\ x = text[Head(local[u])]
                       /\ written' = Append(written, [line |-> x, sink |-> Sink])
    BY <2>2, WriteOrder
  <2>3. ~mod_enable_service
    <3>1. fpc[t] = "write" /\ prog' = prog
      BY <1>6 DEF flush_write
    <3>2. QED
      BY <3>1 DEF mod_enable_service
  <2>4. QED
    BY <2>1, <2>2, <2>3, StepWritten
<1>7. CASE mod_enable_service
  <2>1. /\ local' = local /\ l_pending' = l_pending /\ pushed' = pushed /\ text' = text
        /\ written' = Append(written, [line |-> Banner, sink |-> Sink])
        /\ prog = "init"
    BY <1>7 DEF mod_enable_service, flush_buffer, bufVars
  <2>2. [line |-> Banner, sink |-> Sink] \in Record /\ written \in Seq(Record)
    BY DEF Record, Sink, TypeOK, Banner
  <2>3. BannersOf(written) = {}
    BY <2>1, LinesAre DEF OneBanner
  <2>4. LinesOf(written') = LinesOf(written)
    BY <2>1, <2>2, <2>3, LinesBanner
  <2>5. QED
    BY <2>1, <2>4, StillOrder
<1>8. ASSUME local' = local, l_pending' = l_pending, pushed' = pushed, text' = text,
             written' = written
      PROVE  InOrder'
  BY <1>8, StillOrder
<1>9. ASSUME NEW t \in Runners, flush_free(t) PROVE InOrder'
  BY <1>8, <1>9 DEF flush_free
<1>10. CASE mod_init \/ pool_stop \/ mod_cleanup_close \/ UNCHANGED vars
  BY <1>8, <1>10 DEF mod_init, pool_stop, mod_cleanup_close, bufVars, vars
<1>11. ASSUME NEW s \in Submitters, log_buffer_submit(s) \/ task_schedule(s) PROVE InOrder'
  BY <1>8, <1>11 DEF log_buffer_submit, task_schedule, bufVars
<1>12. ASSUME NEW w \in Workers, task_take(w) \/ handler_return(w) PROVE InOrder'
  BY <1>8, <1>12 DEF task_take, handler_return, bufVars
<1>13. QED
  BY <1>1, <1>2, <1>3, <1>4, <1>5, <1>6, <1>7, <1>9, <1>10, <1>11, <1>12 DEF Next

-----------------------------------------------------------------------------
(* The invariant holds in every state.                                      *)

LEMMA InitIInv == Init => IInv
<1> SUFFICES ASSUME Init PROVE IInv
  OBVIOUS
<1>1. TypeOK
  <2>1. 0 \in 0..MaxSubmit
    OBVIOUS
  <2>2. <<>> \in Seq(Buffers) /\ <<>> \in Seq(Nat) /\ <<>> \in Seq(Record)
    OBVIOUS
  <2>3. /\ l_freebuf \in Seq(Buffers) /\ l_pending \in Seq(Buffers)
        /\ local \in [Runners -> Seq(Buffers)] /\ frbuf \in [Runners -> Seq(Buffers)]
    BY <2>2 DEF Init
  <2>4. /\ text \in [Buffers -> Nat] /\ buf \in [Submitters -> Buffers \cup {None}]
    BY DEF Init, None
  <2>5. /\ lpc \in [Submitters -> {"idle", "format", "submit"}]
        /\ fpc \in [Runners -> {"none", "write", "done"}]
    BY DEF Init
  <2>6. pushed \in Seq(Nat) /\ written \in Seq([line : Nat, sink : {"stdout", "file"}])
    BY <2>2 DEF Init, Record
  <2>7. QED
    BY <2>1, <2>3, <2>4, <2>5, <2>6 DEF Init, TypeOK
<1>2. TP!IInv
  BY SameTask, TP!InitIInv DEF Init
<1>3. Control
  <2>1. ~chained /\ spc = [s \in Submitters |-> "idle"] /\ wpc = [w \in Workers |-> "idle"]
    BY DEF Init, T!Init
  <2>2. Main \in Runners /\ Workers \subseteq Runners
    BY DEF Runners
  <2>3. QED
    BY <2>1, <2>2 DEF Init, Control, Quiet, None
<1>4. /\ Free = {} /\ Pend = {}
      /\ \A t \in Runners : local[t] = <<>> /\ frbuf[t] = <<>> /\ Loc(t) = {} /\ Frb(t) = {}
  BY DEF Init, Free, Pend, Loc, Frb, Elems
<1>5. Distincts
  BY <1>4 DEF Init, Distincts, Distinct
<1>6. \A s \in Submitters : buf[s] = None
  BY DEF Init
<1>7. Apart
  BY <1>4, <1>6 DEF Apart
<1>8. Placed
  <2>1. \A b \in Buffers : text[b] = None /\ b # None
    BY DEF Init, Buffers, None
  <2>2. QED
    BY <1>4, <1>6, <2>1 DEF Placed
<1>9. Sinks
  BY DEF Init, Sinks, OneSink
<1>10. Banners = {}
  BY DEF Init, Banners
<1>11. OneBanner
  BY <1>10 DEF OneBanner
<1>12. Counted
  <2>1. Formatting = {}
    BY DEF Init, Formatting
  <2>2. Len(pushed) = 0 /\ lines = 0
    BY DEF Init
  <2>3. QED
    BY <2>1, <2>2, FS_EmptySet DEF Counted
<1>13. InOrder
  <2>1. written \in Seq(Record) /\ written = <<>>
    BY DEF Init
  <2>2. WrittenLines = <<>>
    <3>1. WrittenLines = [i \in 1..Len(written) |-> written[i].line]
      BY <1>10, <2>1, LinesShape, LinesAre
    <3>2. QED
      BY <2>1, <3>1
  <2>3. Main \in Runners
    BY DEF Runners
  <2>4. Texts(local[Main]) = <<>> /\ Texts(l_pending) = <<>> /\ pushed = <<>>
    BY <1>4, <2>3 DEF Init, Texts
  <2>5. <<>> \o <<>> \o <<>> = <<>>
    OBVIOUS
  <2>6. QED
    BY <1>4, <2>2, <2>3, <2>4, <2>5 DEF InOrder
<1>14. QED
  BY <1>1, <1>2, <1>3, <1>5, <1>7, <1>8, <1>9, <1>11, <1>12, <1>13 DEF IInv

LEMMA StepIInv == IInv /\ [Next]_vars => IInv'
<1> SUFFICES ASSUME IInv, [Next]_vars PROVE IInv'
  OBVIOUS
<1>1. /\ TypeOK /\ TP!IInv /\ Control /\ Distincts /\ Apart /\ Placed
      /\ Sinks /\ OneBanner /\ Counted /\ InOrder
  BY DEF IInv
<1>2. TypeOK' /\ TP!IInv' /\ Control'
  BY <1>1, StepType, StepTask, StepControl
<1>3. Distincts' /\ Apart' /\ Placed'
  BY <1>1, StepPlaces
<1>4. Sinks' /\ OneBanner'
  BY <1>1, StepSinks
<1>5. Counted'
  BY <1>1, StepCounted
<1>6. InOrder'
  BY <1>1, StepOrder
<1>7. QED
  BY <1>2, <1>3, <1>4, <1>5, <1>6 DEF IInv

(* Whatever the threads do between log_buffer and flush_logs (logger.cpp,   *)
(* lines 181-245), a buffer is in one place and no line is lost, doubled,   *)
(* overwritten or reordered.                                                *)
THEOREM LogAlwaysSound == Spec => []LogSound
<1>1. IInv => LogSound
  BY OncePlaces DEF IInv, LogSound
<1>2. QED
  BY InitIInv, StepIInv, <1>1, PTL DEF Spec

LEMMA ControlAlive == Control => TaskAlive
BY DEF Control, Quiet, TaskAlive

(* When mod_cleanup has closed the file, nobody holds a line or a buffer.   *)
LEMMA CleanedUp == IInv => CleanupComplete
<1> SUFFICES ASSUME IInv, prog = "done"
             PROVE  /\ WrittenLines = pushed /\ Len(pushed) = lines
                    /\ \A b \in Buffers : text[b] # None => At(l_freebuf, b) # {}
  BY DEF CleanupComplete
<1>1. TypeOK /\ Control /\ Placed /\ OneBanner /\ Counted /\ InOrder
  BY DEF IInv
<1>2. Quiet /\ l_pending = <<>>
  BY <1>1 DEF Control
<1>3. \A t \in Runners : fpc[t] # "write"
  BY <1>1, <1>2 DEF Control, Quiet, Runners
<1>4. \A t \in Runners : local[t] = <<>> /\ frbuf[t] = <<>>
  BY <1>1, <1>3, NoFlush
<1>5. WrittenLines = pushed
  <2>1. Main \in Runners
    BY DEF Runners
  <2>2. LinesOf(written) \o Held(text, local[Main]) \o Held(text, l_pending) = pushed
    BY <1>1, <1>4, <2>1, OrderAt
  <2>3. Held(text, <<>>) = <<>>
    BY HeldEmpty
  <2>4. LinesOf(written) \in Seq(Nat)
    <3>1. written \in Seq(Record)
      BY <1>1 DEF TypeOK, Record
    <3>2. \A i, k \in BannersOf(written) : i = k
      BY <1>1, LinesAre DEF OneBanner
    <3>3. QED
      BY <3>1, <3>2, LinesType
  <2>5. LinesOf(written) \o <<>> = LinesOf(written)
    BY <2>4, ConcatEmptySeq
  <2>6. QED
    BY <1>2, <1>4, <2>1, <2>2, <2>3, <2>5, LinesAre
<1>6. Len(pushed) = lines
  <2>1. Formatting = {}
    BY <1>2 DEF Quiet, Formatting
  <2>2. Len(pushed) \in Nat
    BY <1>1 DEF TypeOK
  <2>3. QED
    BY <1>1, <2>1, <2>2, FS_EmptySet DEF Counted
<1>7. ASSUME NEW b \in Buffers, text[b] # None PROVE At(l_freebuf, b) # {}
  <2>1. \A s \in Submitters : buf[s] # b
    BY <1>1, <1>2 DEF Control, Quiet, Buffers, None
  <2>2. Pend = {} /\ \A t \in Runners : Loc(t) = {} /\ Frb(t) = {}
    BY <1>2, <1>4 DEF Pend, Loc, Frb, Elems
  <2>3. b \in Free
    BY <1>1, <1>7, <2>1, <2>2 DEF Placed
  <2>4. QED
    BY <2>3 DEF Free, Elems, At
<1>8. QED
  BY <1>5, <1>6, <1>7

(* mod_cleanup (logger.cpp, lines 362-373) runs when no thread needs the    *)
(* task or the file, and leaves no line and no buffer behind.               *)
THEOREM ShutdownAlwaysSound == Spec => []ShutdownSound
<1>1. IInv => ShutdownSound
  BY ControlAlive, CleanedUp DEF IInv, Sinks, ShutdownSound
<1>2. QED
  BY InitIInv, StepIInv, <1>1, PTL DEF Spec
=============================================================================
