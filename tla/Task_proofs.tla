----------------------------- MODULE Task_proofs -----------------------------
(***************************************************************************)
(* Proofs about Task, for any sets of submitters and workers and any       *)
(* number of submissions.                                                  *)
(***************************************************************************)
EXTENDS Task, TLAPS

(* tsk_pend is positive exactly while somebody owns the task.               *)
Owned ==
    tsk_pend > 0 <=> \/ chained
                     \/ \E s \in Submitters : spc[s] = "schedule"
                     \/ \E w \in Workers : Running(w)

(* What a worker is about to subtract is part of tsk_pend, and it does not  *)
(* include a submission its pass of the handler did not see.                *)
Paid ==
    /\ unserved <= tsk_pend
    /\ \A w \in Workers :
          /\ wpc[w] \in {"handler", "sub"} =>
                pending[w] > 0 /\ pending[w] <= tsk_pend
          /\ wpc[w] = "sub" => unserved + pending[w] <= tsk_pend

(* Each pass of the loop removed at least one submission from tsk_pend.     *)
Passes ==
    /\ tsk_pend <= submits
    /\ \A w \in Workers :
          /\ loop[w] <= submits
          /\ wpc[w] \in {"load", "handler"} => loop[w] + tsk_pend <= submits
          /\ wpc[w] = "sub" => loop[w] + tsk_pend <= submits + 1

IInv == TypeOK /\ OneOwner /\ Owned /\ Paid /\ Passes

LEMMA InitIInv == Init => IInv
<1> SUFFICES ASSUME Init PROVE IInv
  OBVIOUS
<1>1. TypeOK
  BY DEF Init, TypeOK
<1>2. OneOwner
  BY DEF Init, OneOwner, Running
<1>3. Owned
  BY DEF Init, Owned, Running
<1>4. Paid /\ Passes
  BY DEF Init, Paid, Passes
<1>5. QED
  BY <1>1, <1>2, <1>3, <1>4 DEF IInv

LEMMA StepIInv == IInv /\ [Next]_vars => IInv'
<1> SUFFICES ASSUME IInv, [Next]_vars PROVE IInv'
  OBVIOUS
<1> USE DEF IInv, TypeOK, OneOwner, Owned, Paid, Passes, Running
<1>1. ASSUME NEW s \in Submitters, task_submit_add(s) PROVE IInv'
  <2> USE <1>1 DEF task_submit_add, Submit
  <2>1. TypeOK'
    OBVIOUS
  <2>2. OneOwner'
    OBVIOUS
  <2>3. Owned'
    OBVIOUS
  <2>4. Paid' /\ Passes'
    OBVIOUS
  <2>5. QED
    BY <2>1, <2>2, <2>3, <2>4
<1>2. ASSUME NEW s \in Submitters, task_submit_schedule(s) PROVE IInv'
  <2> USE <1>2 DEF task_submit_schedule
  <2>1. TypeOK'
    OBVIOUS
  <2>2. OneOwner'
    OBVIOUS
  <2>3. Owned'
    OBVIOUS
  <2>4. Paid' /\ Passes'
    OBVIOUS
  <2>5. QED
    BY <2>1, <2>2, <2>3, <2>4
<1>3. ASSUME NEW w \in Workers, worker_dequeue(w) PROVE IInv'
  <2> USE <1>3 DEF worker_dequeue
  <2>1. TypeOK'
    OBVIOUS
  <2>2. OneOwner'
    OBVIOUS
  <2>3. Owned'
    OBVIOUS
  <2>4. Paid' /\ Passes'
    OBVIOUS
  <2>5. QED
    BY <2>1, <2>2, <2>3, <2>4
<1>4. ASSUME NEW w \in Workers, exec_load(w) PROVE IInv'
  BY <1>4 DEF exec_load
<1>5. ASSUME NEW w \in Workers, exec_handler(w) PROVE IInv'
  BY <1>5 DEF exec_handler
<1>6. ASSUME NEW w \in Workers, exec_sub(w) PROVE IInv'
  BY <1>6 DEF exec_sub, EndPass
<1>7. CASE UNCHANGED vars
  BY <1>7 DEF vars
<1>8. QED
  BY <1>1, <1>2, <1>3, <1>4, <1>5, <1>6, <1>7 DEF Next

(* The type invariant of the task.                                          *)
THEOREM TypeCorrect == Spec => []TypeOK
<1>1. IInv => TypeOK
  BY DEF IInv
<1>2. QED
  BY InitIInv, StepIInv, <1>1, PTL DEF Spec

(* However many threads submit, task_handler is run by one worker at a time *)
(* (request.cpp, lines 112-136).                                            *)
THEOREM TaskHasOneOwner == Spec => []OneOwner
<1>1. IInv => OneOwner
  BY DEF IInv
<1>2. QED
  BY InitIInv, StepIInv, <1>1, PTL DEF Spec

(* No submission is forgotten: the task stays owned, by somebody who will   *)
(* run the handler again, while a submission is unserved.                   *)
THEOREM SubmissionsKept == Spec => []NoLostSubmit
<1>1. IInv => NoLostSubmit
  <2> SUFFICES ASSUME IInv, unserved > 0 PROVE NoLostSubmit
    BY DEF NoLostSubmit
  <2>1. tsk_pend > 0
    BY DEF IInv, TypeOK, Paid
  <2>2. CASE chained
    BY <2>2 DEF NoLostSubmit
  <2>3. CASE \E s \in Submitters : spc[s] = "schedule"
    BY <2>3 DEF NoLostSubmit
  <2>4. CASE \E w \in Workers : Running(w)
    <3>1. PICK w \in Workers : Running(w)
      BY <2>4
    <3>2. wpc[w] = "sub" => tsk_pend # pending[w]
      BY DEF IInv, TypeOK, Paid
    <3>3. wpc[w] \in {"load", "handler", "sub"}
      BY <3>1 DEF IInv, TypeOK, Running
    <3>4. QED
      BY <3>2, <3>3 DEF NoLostSubmit
  <2>5. QED
    BY <2>1, <2>2, <2>3, <2>4 DEF IInv, Owned
<1>2. QED
  BY InitIInv, StepIInv, <1>1, PTL DEF Spec

(* The assertions of lines 115 and 130 hold in every reachable state.       *)
THEOREM TaskAssertions == Spec => []AssertsHold
<1>1. IInv => AssertsHold
  <2> SUFFICES ASSUME IInv PROVE AssertsHold
    OBVIOUS
  <2>1. \A s \in Submitters : spc[s] = "schedule" => ~chained
    BY DEF IInv, OneOwner
  <2>2. \A w \in Workers : wpc[w] = "load" => tsk_pend > 0
    BY DEF IInv, Owned, Running
  <2>3. \A w \in Workers : wpc[w] \in {"handler", "sub"} => pending[w] > 0
    BY DEF IInv, Paid
  <2>4. QED
    BY <2>1, <2>2, <2>3 DEF AssertsHold
<1>2. QED
  BY InitIInv, StepIInv, <1>1, PTL DEF Spec

(* The loop of req_exec_task runs at most once per submission.              *)
THEOREM LoopIsBounded == Spec => []LoopBounded
<1>1. IInv => LoopBounded
  BY DEF IInv, Passes, LoopBounded
<1>2. QED
  BY InitIInv, StepIInv, <1>1, PTL DEF Spec
=============================================================================
