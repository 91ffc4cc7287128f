--------------------------- MODULE KeyServer_proofs ---------------------------
(***************************************************************************)
(* Proofs about KeyServer, for any threads, calls and number of crashes.    *)
(***************************************************************************)
EXTENDS KeyServer, FiniteSetTheorems, SequenceTheorems, TLAPS

USE ServerAssumption

-----------------------------------------------------------------------------
(* The inductive invariant.                                                 *)

Versions == {Slot[c][2] : c \in Calls}
Keys == {Store!NoKey} \cup {Store!NewKey(c) : c \in Calls}

(* TypeOK, with the contents of the lists, the records and the responses.   *)
Types ==
    /\ TypeOK
    /\ uver \in [Loops -> Seq(Versions)]
    /\ vers \in [Users -> Seq(Versions)]
    /\ record \in [Store!Slots -> Keys]
    /\ resp \in [Calls -> Keys \cup {None}]

(* The events that are out for an object.                                   *)
Ok(r) == <<r, TRUE>> \in srq_cq
Failed(r) == <<r, FALSE>> \in srq_cq
NoEvent(r) == ~Ok(r) /\ ~Failed(r)

(* Where a request object is, by its state, its call and the response.      *)
Place(r) ==
    /\ srq_st[r] = "none" =>
          /\ call[r] = None /\ r \notin accepting /\ r \notin sending /\ NoEvent(r)
          /\ \A w \in Loops : cur[w] # r
    /\ srq_st[r] = "process" => method[r] \in Served
    /\ srq_st[r] = "finish" => call[r] # None
    /\ r \in accepting => srq_st[r] = "process" /\ call[r] = None
    /\ r \in sending =>
          /\ srq_st[r] = "finish" /\ resp[call[r]] # None /\ client[call[r]] = "sent"
          /\ NoEvent(r)
    /\ Ok(r) =>
          /\ call[r] # None /\ ~Failed(r)
          /\ srq_st[r] = "finish" <=> resp[call[r]] # None
    /\ Failed(r) =>
          call[r] # None /\ srq_st[r] = "finish" /\ resp[call[r]] # None
    /\ call[r] # None =>
          /\ method[r] = Methods[call[r]] /\ client[call[r]] # "new"
          /\ resp[call[r]] = None => client[call[r]] = "sent"

(* What a thread works on.                                                  *)
At(w) ==
    /\ cur[w] # None <=> pc[w] \in {"write"} \cup Served
    /\ cur[w] # None =>
          /\ srq_st[cur[w]] = "finish" /\ resp[call[cur[w]]] = None
          /\ Methods[call[cur[w]]] = IF pc[w] = "write" THEN "generate_key" ELSE pc[w]
    /\ pc[w] = "register" <=> regs[w] < 2

(* No two objects have the same call, and no two threads the same object.   *)
OneEach ==
    /\ \A r, q \in Reqs : call[r] = call[q] /\ call[r] # None => r = q
    /\ \A w, x \in Loops : cur[w] = cur[x] /\ cur[w] # None => w = x
    /\ \A c \in Calls : resp[c] # None => client[c] # "new"

Objects ==
    /\ \A r \in Reqs : Place(r)
    /\ \A w \in Loops : At(w)
    /\ OneEach

(* What save_account has read: records exist for it, and it is still the    *)
(* database's list, read by this thread alone, unless saves overlapped.     *)
Saves ==
    /\ \A w \in Loops : pc[w] = "write" =>
          \A i \in DOMAIN uver[w] :
             /\ <<Uuid(w), uver[w][i]>> \in Store!Slots
             /\ record[<<Uuid(w), uver[w][i]>>] # Store!NoKey
    /\ \A w \in Loops : pc[w] = "write" /\ Uuid(w) \notin raced => uver[w] = vers[Uuid(w)]
    /\ \A w, x \in Loops :
          pc[w] = "write" /\ pc[x] = "write" =>
             (Uuid(w) = Uuid(x) /\ Uuid(w) \notin raced => w = x)

IInv == Types /\ Objects /\ AlwaysAccepting /\ Saves /\ DbConsistent

-----------------------------------------------------------------------------
(* Request objects suffice.                                                 *)

LEMMA RegisteredFacts ==
    /\ DOMAIN Registered = {1, 2} /\ Len(Registered) = 2
    /\ Registered[1] = "generate_key" /\ Registered[2] = "query_pub_key"
BY DEF Registered

LEMMA KeysFacts ==
    /\ None \notin Keys
    /\ Store!NoKey \in Keys /\ \A c \in Calls : Store!NewKey(c) \in Keys
BY DEF Keys, Store!NoKey, Store!NewKey

LEMMA ReqsFinite ==
    /\ IsFiniteSet(Reqs)
    /\ Cardinality(Loops) \in Nat /\ Cardinality(Calls) \in Nat
    /\ Cardinality(Reqs) = 2 * Cardinality(Loops) + Cardinality(Calls)
<1>1. Cardinality(Loops) \in Nat /\ Cardinality(Calls) \in Nat
  BY FS_CardinalityType
<1>2. ASSUME NEW n \in Nat PROVE IsFiniteSet(1..n) /\ Cardinality(1..n) = n
  <2>1. 1 \in Int /\ n \in Int
    OBVIOUS
  <2>2. IsFiniteSet(1..n) /\ Cardinality(1..n) = IF 1 > n THEN 0 ELSE n - 1 + 1
    BY <2>1, FS_Interval, Zenon
  <2>3. QED
    BY <2>2
<1>3. QED
  BY <1>1, <1>2 DEF Reqs

(* The objects that wait for a call of the i-th method, or have one that    *)
(* waits for a thread; the threads that registered the method; and the      *)
(* objects whose call was taken.                                            *)
Waiting(i) == {r \in Reqs : method[r] = Registered[i] /\ srq_st[r] = "process"}
Registrants(i) == {w \in Loops : regs[w] >= i}
Taken == {r \in Reqs : srq_st[r] = "finish"}

(* A set that is part of a finite one has no more members.                  *)
LEMMA PartFacts ==
    ASSUME NEW T, IsFiniteSet(T), NEW S \in SUBSET T
    PROVE  /\ IsFiniteSet(S) /\ Cardinality(S) \in Nat /\ Cardinality(T) \in Nat
           /\ Cardinality(S) <= Cardinality(T)
           /\ \A x \in T \ S : Cardinality(S) < Cardinality(T)
<1>1. IsFiniteSet(S) /\ Cardinality(S) <= Cardinality(T)
  BY FS_Subset
<1>2. Cardinality(S) \in Nat /\ Cardinality(T) \in Nat
  BY <1>1, FS_CardinalityType
<1>3. ASSUME NEW x \in T \ S PROVE Cardinality(S) < Cardinality(T)
  BY <1>1, <1>2, <1>3, FS_Subset
<1>4. QED
  BY <1>1, <1>2, <1>3

(* Two sets cover no more than the sum.                                     *)
LEMMA UnionFacts ==
    ASSUME NEW S, NEW T, IsFiniteSet(S), IsFiniteSet(T)
    PROVE  /\ IsFiniteSet(S \cup T) /\ Cardinality(S \cup T) \in Nat
           /\ Cardinality(S \cup T) <= Cardinality(S) + Cardinality(T)
<1>1. /\ IsFiniteSet(S \cup T)
      /\ Cardinality(S \cup T) = Cardinality(S) + Cardinality(T) - Cardinality(S \cap T)
  BY FS_Union
<1>2. IsFiniteSet(S \cap T) /\ Cardinality(S) \in Nat /\ Cardinality(T) \in Nat
  BY FS_CardinalityType, FS_Intersection
<1>3. Cardinality(S \cap T) \in Nat /\ Cardinality(S \cup T) \in Nat
  BY <1>1, <1>2, FS_CardinalityType
<1>4. QED
  BY <1>1, <1>2, <1>3

(* Objects whose call was taken have different calls.                       *)
LEMMA TakenFacts ==
    ASSUME Types, Objects, NEW C \in SUBSET Calls, \A r \in Taken : call[r] \in C
    PROVE  IsFiniteSet(Taken) /\ Cardinality(Taken) <= Cardinality(C)
<1>1. IsFiniteSet(Taken) /\ IsFiniteSet(C)
  BY ReqsFinite, FS_Subset DEF Taken
<1> DEFINE f == [r \in Taken |-> call[r]]
<1>2. f \in Injection(Taken, C)
  BY DEF Injection, IsInjective, Taken, Objects, OneEach, Types, TypeOK
<1> HIDE DEF f
<1>3. QED
  BY <1>1, <1>2, FS_Injection

(* A thread that registers a method, or takes a call, finds an object it    *)
(* can use.                                                                 *)
LEMMA DeletedExists ==
    ASSUME Types, Objects, AlwaysAccepting,
           \/ \E w \in Loops : regs[w] < 2
           \/ \E r \in Reqs : srq_st[r] = "process" /\ call[r] # None
    PROVE  Deleted # {}
<1>1. /\ IsFiniteSet(Waiting(1)) /\ IsFiniteSet(Waiting(2))
      /\ Cardinality(Waiting(1)) \in Nat /\ Cardinality(Waiting(2)) \in Nat
  BY ReqsFinite, PartFacts DEF Waiting
<1>2. /\ Cardinality(Waiting(1)) = Cardinality(Registrants(1))
      /\ Cardinality(Waiting(2)) = Cardinality(Registrants(2))
  BY RegisteredFacts DEF AlwaysAccepting, Waiting, Registrants
<1>3. /\ Cardinality(Registrants(1)) <= Cardinality(Loops)
      /\ Cardinality(Registrants(2)) <= Cardinality(Loops)
  BY PartFacts DEF Registrants
<1>4. \A r \in Taken : call[r] \in Calls
  BY DEF Taken, Objects, Place, Types, TypeOK
<1>5. IsFiniteSet(Taken) /\ Cardinality(Taken) \in Nat /\ Cardinality(Taken) <= Cardinality(Calls)
  BY <1>4, TakenFacts, FS_CardinalityType
<1>6. \/ Cardinality(Registrants(2)) < Cardinality(Loops)
      \/ Cardinality(Taken) < Cardinality(Calls)
  <2>1. ASSUME NEW w \in Loops, regs[w] < 2
        PROVE  Cardinality(Registrants(2)) < Cardinality(Loops)
    <3>1. Registrants(2) \subseteq Loops /\ w \in Loops \ Registrants(2)
      BY <2>1 DEF Registrants, Types, TypeOK
    <3>2. QED
      BY <3>1, PartFacts
  <2>2. ASSUME NEW r \in Reqs, srq_st[r] = "process", call[r] # None
        PROVE  Cardinality(Taken) < Cardinality(Calls)
    <3>1. call[r] \in Calls
      BY <2>2 DEF Types, TypeOK
    <3>2. \A q \in Taken : call[q] \in Calls \ {call[r]}
      BY <1>4, <2>2 DEF Taken, Objects, OneEach
    <3>3. Cardinality(Taken) <= Cardinality(Calls \ {call[r]})
      BY <3>2, TakenFacts
    <3>4. Cardinality(Calls \ {call[r]}) = Cardinality(Calls) - 1
      BY <3>1, FS_RemoveElement
    <3>5. QED
      BY <1>5, <3>3, <3>4, ReqsFinite
  <2>3. QED
    BY <2>1, <2>2
<1>7. ASSUME Deleted = {} PROVE FALSE
  <2>1. \A r \in Reqs : srq_st[r] \in {"process", "finish"}
    BY <1>7 DEF Deleted, Types, TypeOK
  <2>2. \A r \in Reqs : srq_st[r] = "process" => method[r] \in {Registered[1], Registered[2]}
    BY RegisteredFacts DEF Objects, Place, Served
  <2>3. Reqs \subseteq (Waiting(1) \cup Waiting(2)) \cup Taken
    BY <2>1, <2>2 DEF Waiting, Taken
  <2>4. /\ IsFiniteSet(Waiting(1) \cup Waiting(2))
        /\ Cardinality(Waiting(1) \cup Waiting(2)) \in Nat
        /\ Cardinality(Waiting(1) \cup Waiting(2))
              <= Cardinality(Waiting(1)) + Cardinality(Waiting(2))
    BY <1>1, UnionFacts
  <2> DEFINE W == Waiting(1) \cup Waiting(2)
  <2> HIDE DEF W
  <2>5. /\ IsFiniteSet(W \cup Taken) /\ Cardinality(W \cup Taken) \in Nat
        /\ Cardinality(W \cup Taken) <= Cardinality(W) + Cardinality(Taken)
    BY <1>5, <2>4, UnionFacts DEF W
  <2>6. Cardinality(Reqs) <= Cardinality(W \cup Taken)
    BY <2>3, <2>5, FS_Subset DEF W
  <2>7. Cardinality(W) \in Nat /\ Cardinality(W) <= Cardinality(Waiting(1)) + Cardinality(Waiting(2))
    BY <2>4 DEF W
  <2>8. QED
    BY <1>1, <1>2, <1>3, <1>5, <1>6, <2>5, <2>6, <2>7, ReqsFinite
<1>8. QED
  BY <1>7

(* The object that NewRequest makes.                                        *)
LEMMA NewFacts ==
    ASSUME Deleted # {}, NEW m, NEW others, NewRequest(m, others)
    PROVE  \E n \in Deleted :
              /\ srq_st' = [others EXCEPT ![n] = "process"]
              /\ method' = [method EXCEPT ![n] = m]
              /\ accepting' = accepting \cup {n}
<1> DEFINE n == CHOOSE x \in Deleted : TRUE
<1>1. n \in Deleted
  OBVIOUS
<1>2. /\ srq_st' = [others EXCEPT ![n] = "process"]
      /\ method' = [method EXCEPT ![n] = m]
      /\ accepting' = accepting \cup {n}
  BY DEF NewRequest
<1> HIDE DEF n
<1>3. QED
  BY <1>1, <1>2

-----------------------------------------------------------------------------
(* What the steps that add or take an event do.                             *)

LEMMA PairsDiffer ==
    ASSUME NEW q, NEW r, NEW a, NEW b
    PROVE  <<q, a>> = <<r, b>> <=> q = r /\ a = b
OBVIOUS

LEMMA SameEvents ==
    ASSUME srq_cq' = srq_cq
    PROVE  \A q : (Ok(q)' <=> Ok(q)) /\ (Failed(q)' <=> Failed(q))
BY Zenon DEF Ok, Failed

LEMMA AddedOk ==
    ASSUME NEW r, srq_cq' = srq_cq \cup {<<r, TRUE>>}
    PROVE  \A q : (Ok(q)' <=> Ok(q) \/ q = r) /\ (Failed(q)' <=> Failed(q))
BY PairsDiffer, Zenon DEF Ok, Failed

LEMMA AddedFailed ==
    ASSUME NEW r, srq_cq' = srq_cq \cup {<<r, FALSE>>}
    PROVE  \A q : (Ok(q)' <=> Ok(q)) /\ (Failed(q)' <=> Failed(q) \/ q = r)
BY PairsDiffer, Zenon DEF Ok, Failed

LEMMA TakenOk ==
    ASSUME NEW r, srq_cq' = srq_cq \ {<<r, TRUE>>}
    PROVE  \A q : (Ok(q)' <=> Ok(q) /\ q # r) /\ (Failed(q)' <=> Failed(q))
BY PairsDiffer, Zenon DEF Ok, Failed

LEMMA TakenFailed ==
    ASSUME NEW r, srq_cq' = srq_cq \ {<<r, FALSE>>}
    PROVE  \A q : (Ok(q)' <=> Ok(q)) /\ (Failed(q)' <=> Failed(q) /\ q # r)
BY PairsDiffer, Zenon DEF Ok, Failed

Accepted(c, r) ==
    /\ client[c] = "sent" /\ resp[c] = None /\ \A q \in Reqs : call[q] # c
    /\ r \in accepting /\ method[r] = Methods[c]
    /\ call' = [call EXCEPT ![r] = c]
    /\ accepting' = accepting \ {r}
    /\ UNCHANGED <<srq_st, method, sending, pc, cur, uver, regs, record, vers, resp,
                   client, raced, crashes>>
    /\ \A q : (Ok(q)' <=> Ok(q) \/ q = r) /\ (Failed(q)' <=> Failed(q))

LEMMA AcceptEffect ==
    ASSUME NEW c \in Calls, NEW r \in Reqs, grpc_accept(c, r)
    PROVE  Accepted(c, r)
<1>1. srq_cq' = srq_cq \cup {<<r, TRUE>>}
  BY Zenon DEF grpc_accept
<1>2. QED
  BY <1>1, AddedOk, Zenon DEF Accepted, grpc_accept, loopVars, dbVars

Sent(r) ==
    /\ r \in sending
    /\ sending' = sending \ {r}
    /\ \/ /\ client' = [client EXCEPT ![call[r]] = "answered"]
          /\ \A q : (Ok(q)' <=> Ok(q) \/ q = r) /\ (Failed(q)' <=> Failed(q))
       \/ /\ client' = [client EXCEPT ![call[r]] = "error"]
          /\ \A q : (Ok(q)' <=> Ok(q)) /\ (Failed(q)' <=> Failed(q) \/ q = r)
    /\ UNCHANGED <<srq_st, method, call, accepting, pc, cur, uver, regs, record, vers,
                   resp, raced, crashes>>

LEMMA SentEffect ==
    ASSUME NEW r \in Reqs, NEW ok \in BOOLEAN, grpc_sent(r, ok)
    PROVE  Sent(r)
<1>1. /\ r \in sending /\ sending' = sending \ {r}
      /\ UNCHANGED <<srq_st, method, call, accepting, pc, cur, uver, regs, record, vers,
                     resp, raced, crashes>>
  BY Zenon DEF grpc_sent, reqVars, loopVars, dbVars
<1>2. CASE ok = TRUE
  <2>1. srq_cq' = srq_cq \cup {<<r, TRUE>>} /\ client' = [client EXCEPT ![call[r]] = "answered"]
    BY <1>2, Zenon DEF grpc_sent
  <2>2. QED
    BY <1>1, <2>1, AddedOk, Zenon DEF Sent
<1>3. CASE ok = FALSE
  <2>1. srq_cq' = srq_cq \cup {<<r, FALSE>>} /\ client' = [client EXCEPT ![call[r]] = "error"]
    BY <1>3, Zenon DEF grpc_sent
  <2>2. QED
    BY <1>1, <2>1, AddedFailed, Zenon DEF Sent
<1>4. QED
  BY <1>2, <1>3

Processed(w, r) ==
    /\ pc[w] = "next" /\ Ok(r) /\ srq_st[r] = "process"
    /\ NewRequest(method[r], [srq_st EXCEPT ![r] = "finish"])
    /\ cur' = [cur EXCEPT ![w] = r]
    /\ pc' = [pc EXCEPT ![w] = method[r]]
    /\ UNCHANGED <<call, sending, uver, regs, record, vers, resp, client, raced, crashes>>
    /\ \A q : (Ok(q)' <=> Ok(q) /\ q # r) /\ (Failed(q)' <=> Failed(q))

LEMMA ProcessEffect ==
    ASSUME NEW w \in Loops, NEW r \in Reqs, proceed_process(w, r)
    PROVE  Processed(w, r)
<1>1. srq_cq' = srq_cq \ {<<r, TRUE>>}
  BY Zenon DEF proceed_process, TakesCall
<1>2. QED
  BY <1>1, TakenOk, Zenon DEF Processed, proceed_process, TakesCall, Ok, dbVars

Finished(w, r) ==
    /\ pc[w] = "next" /\ Ok(r) /\ srq_st[r] = "finish"
    /\ srq_st' = [srq_st EXCEPT ![r] = "none"]
    /\ method' = [method EXCEPT ![r] = None]
    /\ call' = [call EXCEPT ![r] = None]
    /\ UNCHANGED <<accepting, sending, pc, cur, uver, regs, record, vers, resp, client,
                   raced, crashes>>
    /\ \A q : (Ok(q)' <=> Ok(q) /\ q # r) /\ (Failed(q)' <=> Failed(q))

LEMMA DeleteEffect ==
    ASSUME NEW w \in Loops, NEW r \in Reqs, proceed_finish(w, r)
    PROVE  Finished(w, r)
<1>1. srq_cq' = srq_cq \ {<<r, TRUE>>}
  BY Zenon DEF proceed_finish
<1>2. QED
  BY <1>1, TakenOk, Zenon DEF Finished, proceed_finish, Ok, loopVars, dbVars

Logged(w, r) ==
    /\ pc[w] = "next" /\ Failed(r)
    /\ UNCHANGED <<srq_st, method, call, accepting, sending, pc, cur, uver, regs, record,
                   vers, resp, client, raced, crashes>>
    /\ \A q : (Ok(q)' <=> Ok(q)) /\ (Failed(q)' <=> Failed(q) /\ q # r)

LEMMA LoggedEffect ==
    ASSUME NEW w \in Loops, NEW r \in Reqs, next_failed(w, r)
    PROVE  Logged(w, r)
<1>1. srq_cq' = srq_cq \ {<<r, FALSE>>}
  BY Zenon DEF next_failed
<1>2. QED
  BY <1>1, TakenFailed, Zenon DEF Logged, next_failed, Failed, reqVars, loopVars, dbVars

(* The queue holds events only.                                             *)
LEMMA QueueType ==
    ASSUME TypeOK, Next
    PROVE  srq_cq' \subseteq Reqs \X BOOLEAN
<1>1. ASSUME NEW r \in Reqs, NEW ok \in BOOLEAN, srq_cq' = srq_cq \cup {<<r, ok>>}
      PROVE  srq_cq' \subseteq Reqs \X BOOLEAN
  BY <1>1 DEF TypeOK
<1>2. ASSUME srq_cq' \subseteq srq_cq PROVE srq_cq' \subseteq Reqs \X BOOLEAN
  BY <1>2 DEF TypeOK
<1>3. ASSUME NEW w \in Loops, Step(w) PROVE srq_cq' = srq_cq
  BY <1>3 DEF Step, register_requests, save_account_read, save_account_write, Batch,
     save_account_refused, generate_failed, query_pub_key, Finish, grpcVars
<1>4. ASSUME NEW w \in Loops, NEW r \in Reqs,
             proceed_process(w, r) \/ proceed_finish(w, r) \/ next_failed(w, r)
      PROVE  srq_cq' \subseteq srq_cq
  BY <1>4, Zenon DEF proceed_process, TakesCall, proceed_finish, next_failed
<1>5. ASSUME NEW c \in Calls, client_call(c) PROVE srq_cq' = srq_cq
  BY <1>5 DEF client_call, grpcVars
<1>6. ASSUME NEW c \in Calls, NEW r \in Reqs, grpc_accept(c, r)
      PROVE  srq_cq' = srq_cq \cup {<<r, TRUE>>}
  BY <1>6, Zenon DEF grpc_accept
<1>7. ASSUME NEW r \in Reqs, NEW ok \in BOOLEAN, grpc_sent(r, ok)
      PROVE  srq_cq' = srq_cq \cup {<<r, ok>>}
  BY <1>7, Zenon DEF grpc_sent
<1>8. CASE crash
  BY <1>8 DEF crash, Restarted
<1>9. TRUE \in BOOLEAN
  BY Zenon
<1>10. QED
  BY <1>1, <1>2, <1>3, <1>4, <1>5, <1>6, <1>7, <1>8, <1>9, Zenon DEF Next, Event

-----------------------------------------------------------------------------
(* The steps.                                                               *)

(* What a thread that finishes a call has, and how the key it answers with  *)
(* looks.                                                                   *)
LEMMA AtWork ==
    ASSUME Types, Objects, NEW w \in Loops, pc[w] \in {"write"} \cup Served
    PROVE  /\ cur[w] \in Reqs /\ call[cur[w]] \in Calls
           /\ Slot[call[cur[w]]] \in Store!Slots /\ Uuid(w) \in Users
           /\ Ver(w) \in Versions /\ <<Uuid(w), Ver(w)>> = Slot[call[cur[w]]]
           /\ Store!NewKey(call[cur[w]]) \in Keys
           /\ record[Slot[call[cur[w]]]] \in Keys
<1>1. cur[w] \in Reqs /\ call[cur[w]] \in Calls
  BY DEF Types, TypeOK, Objects, At, Place
<1>2. QED
  BY <1>1, KeysFacts DEF Types, Store!Slots, Uuid, Users, Ver, Versions

(* Every step keeps the types.                                              *)
LEMMA StepTypes ==
    ASSUME IInv, Next
    PROVE  Types'
<1>1. Types /\ Objects /\ AlwaysAccepting
  BY DEF IInv
<1>2. srq_cq' \subseteq Reqs \X BOOLEAN
  BY <1>1, QueueType DEF Types
<1> USE DEF Types, TypeOK
<1>3. ASSUME NEW w \in Loops, register_requests(w) PROVE Types'
  <2>1. Deleted # {}
    BY <1>1, <1>3, DeletedExists DEF register_requests, Objects, At
  <2>2. PICK n \in Deleted :
           /\ srq_st' = [srq_st EXCEPT ![n] = "process"]
           /\ method' = [method EXCEPT ![n] = Registered[regs[w] + 1]]
           /\ accepting' = accepting \cup {n}
    BY <2>1, <1>3, NewFacts DEF register_requests
  <2>3. /\ regs[w] \in 0..1 /\ Registered[regs[w] + 1] \in Served
        /\ n \in Reqs /\ srq_st[n] = "none"
    BY <1>1, <1>3, RegisteredFacts DEF register_requests, Objects, At, Served, Deleted
  <2>4. QED
    BY <1>1, <1>2, <1>3, <2>2, <2>3, RegisteredFacts DEF register_requests, dbVars, Deleted
<1>4. ASSUME NEW w \in Loops, save_account_read(w) PROVE Types'
  <2>1. Uuid(w) \in Users
    BY <1>1, <1>4, AtWork DEF save_account_read, Served
  <2>2. QED
    BY <1>1, <1>2, <1>4, <2>1 DEF save_account_read, reqVars, grpcVars, dbVars
<1>5. ASSUME NEW w \in Loops, save_account_write(w) PROVE Types'
  <2>1. /\ Uuid(w) \in Users /\ Ver(w) \in Versions /\ cur[w] \in Reqs
        /\ call[cur[w]] \in Calls /\ Slot[call[cur[w]]] \in Store!Slots
        /\ Store!NewKey(call[cur[w]]) \in Keys
    BY <1>1, <1>5, AtWork, KeysFacts DEF save_account_write, Batch, Served
  <2>2. QED
    BY <1>1, <1>2, <1>5, <2>1 DEF save_account_write, Batch, Finish, reqVars, dbVars
<1>6. ASSUME NEW w \in Loops, save_account_refused(w) PROVE Types'
  <2>1. /\ Uuid(w) \in Users /\ Ver(w) \in Versions /\ cur[w] \in Reqs
        /\ call[cur[w]] \in Calls /\ Slot[call[cur[w]]] \in Store!Slots
        /\ Store!NewKey(call[cur[w]]) \in Keys
    BY <1>1, <1>6, AtWork, KeysFacts DEF save_account_refused, Served
  <2>2. QED
    BY <1>1, <1>2, <1>6, <2>1 DEF save_account_refused, Finish, reqVars, dbVars
<1>7. ASSUME NEW w \in Loops, generate_failed(w) PROVE Types'
  <2>1. /\ Uuid(w) \in Users /\ Ver(w) \in Versions /\ cur[w] \in Reqs
        /\ call[cur[w]] \in Calls /\ Slot[call[cur[w]]] \in Store!Slots
        /\ Store!NoKey \in Keys
    BY <1>1, <1>7, AtWork, KeysFacts DEF generate_failed, Served
  <2>2. QED
    BY <1>1, <1>2, <1>7, <2>1 DEF generate_failed, Finish, reqVars, dbVars
<1>8. ASSUME NEW w \in Loops, query_pub_key(w) PROVE Types'
  <2>1. /\ Uuid(w) \in Users /\ Ver(w) \in Versions /\ cur[w] \in Reqs
        /\ call[cur[w]] \in Calls /\ Slot[call[cur[w]]] \in Store!Slots
        /\ record[Slot[call[cur[w]]]] \in Keys
    BY <1>1, <1>8, AtWork, KeysFacts DEF query_pub_key, Served
  <2>2. QED
    BY <1>1, <1>2, <1>8, <2>1 DEF query_pub_key, Finish, reqVars, dbVars
<1>9. ASSUME NEW w \in Loops, NEW r \in Reqs, Processed(w, r) PROVE Types'
  <2>1. Deleted # {}
    BY <1>1, <1>9, DeletedExists DEF Processed, Objects, Place
  <2>2. PICK n \in Deleted :
           /\ srq_st' = [[srq_st EXCEPT ![r] = "finish"] EXCEPT ![n] = "process"]
           /\ method' = [method EXCEPT ![n] = method[r]]
           /\ accepting' = accepting \cup {n}
    BY <2>1, <1>9, NewFacts DEF Processed
  <2>3. /\ call[r] \in Calls /\ resp[call[r]] = None /\ method[r] \in Served
        /\ method[r] = Methods[call[r]]
        /\ r \notin sending /\ r \notin accepting /\ ~Failed(r)
        /\ \A x \in Loops : cur[x] # r
    BY <1>1, <1>9 DEF Processed, Objects, Place, At, NoEvent
  <2>4. /\ n \in Reqs /\ srq_st[n] = "none" /\ n # r
        /\ \A x \in Loops : cur[x] # n
    BY <1>1, <1>9 DEF Processed, Objects, Place, Deleted
  <2>5. QED
    BY <1>1, <1>2, <1>9, <2>2, <2>3, <2>4 DEF Processed
<1>10. ASSUME NEW w \in Loops, NEW r \in Reqs, Finished(w, r) PROVE Types'
  BY <1>1, <1>2, <1>10 DEF Finished
<1>11. ASSUME NEW w \in Loops, NEW r \in Reqs, Logged(w, r) PROVE Types'
  BY <1>1, <1>2, <1>11 DEF Logged
<1>12. ASSUME NEW c \in Calls, client_call(c) PROVE Types'
  BY <1>1, <1>2, <1>12 DEF client_call, reqVars, grpcVars, loopVars, dbVars
<1>13. ASSUME NEW c \in Calls, NEW r \in Reqs, Accepted(c, r) PROVE Types'
  BY <1>1, <1>2, <1>13 DEF Accepted
<1>14. ASSUME NEW r \in Reqs, Sent(r) PROVE Types'
  <2>1. call[r] \in Calls
    BY <1>1, <1>14 DEF Sent, Objects, Place
  <2>2. QED
    BY <1>1, <1>2, <1>14, <2>1 DEF Sent
<1>15. CASE crash
  BY <1>1, <1>2, <1>15, RegisteredFacts DEF crash, Restarted, dbVars
<1>16. QED
  BY <1>3, <1>4, <1>5, <1>6, <1>7, <1>8, <1>9, <1>10, <1>11, <1>12, <1>13, <1>14, <1>15,
     ProcessEffect, DeleteEffect, LoggedEffect, AcceptEffect, SentEffect
     DEF Next, Step, Event

(* Handing over a response: the object goes from the thread to gRPC.        *)
LEMMA FinishObjects ==
    ASSUME Types, Objects, NEW w \in Loops, NEW key \in Keys,
           pc[w] \in {"write"} \cup Served, Finish(w, key)
    PROVE  Objects'
<1>1. /\ cur[w] \in Reqs /\ call[cur[w]] \in Calls /\ key # None
      /\ srq_st[cur[w]] = "finish" /\ resp[call[cur[w]]] = None
  BY AtWork, KeysFacts DEF Objects, At, Types, TypeOK
<1>2. client[call[cur[w]]] = "sent"
  BY <1>1 DEF Objects, Place
<1>3. \A q : (Ok(q)' <=> Ok(q)) /\ (Failed(q)' <=> Failed(q))
  BY SameEvents DEF Finish
<1> USE DEF Types, TypeOK, Objects
<1>4. OneEach'
  BY <1>1, <1>2 DEF OneEach, Finish, reqVars
<1>5. ASSUME NEW x \in Loops PROVE At(x)'
  <2>1. CASE x = w
    BY <2>1, <1>1 DEF Finish, reqVars, At, Served
  <2>2. CASE x # w
    <3>1. cur[x] # None => cur[x] # cur[w] /\ cur[x] \in Reqs
      BY <1>1, <2>2 DEF OneEach
    <3>2. cur[x] # None => call[cur[x]] # call[cur[w]] /\ call[cur[x]] # None
      BY <1>1, <3>1 DEF OneEach, At, Place
    <3>3. QED
      BY <1>1, <2>2, <3>1, <3>2 DEF Finish, reqVars, At
  <2>3. QED
    BY <2>1, <2>2
<1>6. ASSUME NEW r \in Reqs PROVE Place(r)'
  <2>1. CASE r = cur[w]
    <3>1. NoEvent(r)
      BY <1>1, <2>1 DEF Place, NoEvent
    <3>2. QED
      BY <1>1, <1>2, <1>3, <2>1, <3>1 DEF Finish, reqVars, Place, NoEvent
  <2>2. CASE r # cur[w]
    <3>1. call[r] # None => call[r] # call[cur[w]]
      BY <1>1, <2>2 DEF OneEach
    <3>2. call[r] # None => resp'[call[r]] = resp[call[r]]
      BY <1>1, <3>1 DEF Finish
    <3>3. QED
      BY <1>1, <1>3, <2>2, <3>2 DEF Finish, reqVars, Place, NoEvent
  <2>3. QED
    BY <2>1, <2>2
<1>7. QED
  BY <1>4, <1>5, <1>6

(* Every step keeps each object in one place, the one its state tells.      *)
LEMMA StepObjects ==
    ASSUME IInv, Next
    PROVE  Objects'
<1>1. Types /\ Objects /\ AlwaysAccepting
  BY DEF IInv
<1> USE DEF Types, TypeOK, Objects
<1>2. ASSUME NEW w \in Loops, register_requests(w) PROVE Objects'
  <2>1. Deleted # {}
    BY <1>1, <1>2, DeletedExists DEF register_requests, Objects, At
  <2>2. PICK n \in Deleted :
           /\ srq_st' = [srq_st EXCEPT ![n] = "process"]
           /\ method' = [method EXCEPT ![n] = Registered[regs[w] + 1]]
           /\ accepting' = accepting \cup {n}
    BY <2>1, <1>2, NewFacts DEF register_requests
  <2>3. /\ regs[w] \in 0..1 /\ Registered[regs[w] + 1] \in Served
        /\ n \in Reqs /\ srq_st[n] = "none"
    BY <1>1, <1>2, RegisteredFacts DEF register_requests, Objects, At, Served, Deleted
  <2>4. \A q : (Ok(q)' <=> Ok(q)) /\ (Failed(q)' <=> Failed(q))
    BY <1>2, SameEvents DEF register_requests
  <2>5. ASSUME NEW q \in Reqs PROVE Place(q)'
    <3>1. CASE q = n
      BY <1>1, <1>2, <2>2, <2>3, <2>4, <3>1 DEF register_requests, Place, NoEvent
    <3>2. CASE q # n
      BY <1>1, <1>2, <2>2, <2>3, <2>4, <3>2 DEF register_requests, Place, NoEvent
    <3>3. QED
      BY <3>1, <3>2
  <2>6. \A x \in Loops : At(x)'
    BY <1>1, <1>2, <2>2, <2>3, RegisteredFacts DEF register_requests, Served, Place, At
  <2>7. OneEach'
    BY <1>1, <1>2, <2>2 DEF register_requests, OneEach
  <2>8. QED
    BY <2>5, <2>6, <2>7
<1>3. ASSUME NEW w \in Loops, save_account_read(w) PROVE Objects'
  <2>1. \A q : (Ok(q)' <=> Ok(q)) /\ (Failed(q)' <=> Failed(q))
    BY <1>3, SameEvents DEF save_account_read, grpcVars
  <2>2. \A q \in Reqs : Place(q)'
    BY <1>1, <1>3, <2>1 DEF save_account_read, reqVars, grpcVars, dbVars, Place, NoEvent
  <2>3. \A x \in Loops : At(x)'
    BY <1>1, <1>3 DEF save_account_read, reqVars, Served, At
  <2>4. OneEach'
    BY <1>1, <1>3 DEF save_account_read, reqVars, OneEach
  <2>5. QED
    BY <2>2, <2>3, <2>4
<1>4. ASSUME NEW w \in Loops, save_account_write(w) PROVE Objects'
  <2>1. /\ pc[w] \in {"write"} \cup Served
        /\ Finish(w, Store!NewKey(call[cur[w]]))
    BY <1>4 DEF save_account_write, Batch, Served
  <2>2. QED
    BY <1>1, <2>1, AtWork, KeysFacts, FinishObjects
<1>5. ASSUME NEW w \in Loops, save_account_refused(w) PROVE Objects'
  <2>1. /\ pc[w] \in {"write"} \cup Served
        /\ Finish(w, Store!NewKey(call[cur[w]]))
    BY <1>5 DEF save_account_refused, Served
  <2>2. QED
    BY <1>1, <2>1, AtWork, KeysFacts, FinishObjects
<1>6. ASSUME NEW w \in Loops, generate_failed(w) PROVE Objects'
  <2>1. /\ pc[w] \in {"write"} \cup Served
        /\ Finish(w, Store!NoKey)
    BY <1>6 DEF generate_failed, Served
  <2>2. QED
    BY <1>1, <2>1, AtWork, KeysFacts, FinishObjects
<1>7. ASSUME NEW w \in Loops, query_pub_key(w) PROVE Objects'
  <2>1. /\ pc[w] \in {"write"} \cup Served
        /\ Finish(w, record[Slot[call[cur[w]]]])
    BY <1>7 DEF query_pub_key, Served
  <2>2. QED
    BY <1>1, <2>1, AtWork, KeysFacts, FinishObjects
<1>8. ASSUME NEW w \in Loops, NEW r \in Reqs, Processed(w, r) PROVE Objects'
  <2>1. Deleted # {}
    BY <1>1, <1>8, DeletedExists DEF Processed, Objects, Place
  <2>2. PICK n \in Deleted :
           /\ srq_st' = [[srq_st EXCEPT ![r] = "finish"] EXCEPT ![n] = "process"]
           /\ method' = [method EXCEPT ![n] = method[r]]
           /\ accepting' = accepting \cup {n}
    BY <2>1, <1>8, NewFacts DEF Processed
  <2>3. /\ call[r] \in Calls /\ resp[call[r]] = None /\ method[r] \in Served
        /\ method[r] = Methods[call[r]]
        /\ r \notin sending /\ r \notin accepting /\ ~Failed(r)
        /\ \A x \in Loops : cur[x] # r
    BY <1>1, <1>8 DEF Processed, Objects, Place, At, NoEvent
  <2>4. /\ n \in Reqs /\ srq_st[n] = "none" /\ n # r
        /\ \A x \in Loops : cur[x] # n
    BY <1>1, <1>8 DEF Processed, Objects, Place, Deleted
  <2>5. ASSUME NEW q \in Reqs PROVE Place(q)'
    <3>1. CASE q = n
      BY <1>1, <1>8, <2>2, <2>3, <2>4, <3>1 DEF Processed, Place, NoEvent
    <3>2. CASE q = r
      BY <1>1, <1>8, <2>2, <2>3, <2>4, <3>2 DEF Processed, Place, NoEvent
    <3>3. CASE q # n /\ q # r
      BY <1>1, <1>8, <2>2, <2>3, <2>4, <3>3 DEF Processed, Place, NoEvent
    <3>4. QED
      BY <3>1, <3>2, <3>3
  <2>6. \A x \in Loops : At(x)'
    BY <1>1, <1>8, <2>2, <2>3, <2>4 DEF Processed, Served, At
  <2>7. OneEach'
    BY <1>1, <1>8, <2>2, <2>3 DEF Processed, OneEach
  <2>8. QED
    BY <2>5, <2>6, <2>7
<1>9. ASSUME NEW w \in Loops, NEW r \in Reqs, Finished(w, r) PROVE Objects'
  <2>1. /\ \A x \in Loops : cur[x] # r
        /\ r \notin accepting /\ r \notin sending /\ ~Failed(r)
    BY <1>1, <1>9 DEF Finished, Place, At, NoEvent
  <2>2. ASSUME NEW q \in Reqs PROVE Place(q)'
    <3>1. CASE q = r
      BY <1>1, <1>9, <2>1, <3>1 DEF Finished, Place, NoEvent
    <3>2. CASE q # r
      BY <1>1, <1>9, <2>1, <3>2 DEF Finished, Place, NoEvent
    <3>3. QED
      BY <3>1, <3>2
  <2>3. \A x \in Loops : At(x)'
    BY <1>1, <1>9, <2>1 DEF Finished, At
  <2>4. OneEach'
    BY <1>1, <1>9 DEF Finished, OneEach
  <2>5. QED
    BY <2>2, <2>3, <2>4
<1>10. ASSUME NEW w \in Loops, NEW r \in Reqs, Logged(w, r) PROVE Objects'
  <2>1. \A q \in Reqs : Place(q)'
    BY <1>1, <1>10  DEF Logged, Place, NoEvent
  <2>2. \A x \in Loops : At(x)'
    BY <1>1, <1>10 DEF Logged, At
  <2>3. OneEach'
    BY <1>1, <1>10 DEF Logged, OneEach
  <2>4. QED
    BY <2>1, <2>2, <2>3
<1>11. ASSUME NEW c \in Calls, client_call(c) PROVE Objects'
  <2>1. \A q : (Ok(q)' <=> Ok(q)) /\ (Failed(q)' <=> Failed(q))
    BY <1>11, SameEvents DEF client_call, grpcVars
  <2>2. \A q \in Reqs : Place(q)'
    BY <1>1, <1>11, <2>1 DEF client_call, reqVars, grpcVars, loopVars, Place, NoEvent
  <2>3. \A x \in Loops : At(x)'
    BY <1>1, <1>11 DEF client_call, reqVars, loopVars, At
  <2>4. OneEach'
    BY <1>1, <1>11 DEF client_call, reqVars, loopVars, OneEach
  <2>5. QED
    BY <2>2, <2>3, <2>4
<1>12. ASSUME NEW c \in Calls, NEW r \in Reqs, Accepted(c, r) PROVE Objects'
  <2>1. srq_st[r] = "process" /\ NoEvent(r) /\ r \notin sending
    BY <1>1, <1>12 DEF Accepted, Place, NoEvent
  <2>2. ASSUME NEW q \in Reqs PROVE Place(q)'
    <3>1. CASE q = r
      BY <1>1, <1>12, <2>1, <3>1 DEF Accepted, Place, NoEvent
    <3>2. CASE q # r
      BY <1>1, <1>12, <2>1, <3>2 DEF Accepted, Place, NoEvent
    <3>3. QED
      BY <3>1, <3>2
  <2>3. \A x \in Loops : At(x)'
    BY <1>1, <1>12, <2>1 DEF Accepted, At
  <2>4. OneEach'
    BY <1>1, <1>12, <2>1 DEF Accepted, OneEach
  <2>5. QED
    BY <2>2, <2>3, <2>4
<1>13. ASSUME NEW r \in Reqs, Sent(r) PROVE Objects'
  <2>1. /\ call[r] \in Calls /\ resp[call[r]] # None /\ NoEvent(r)
        /\ client[call[r]] = "sent" /\ srq_st[r] = "finish"
        /\ \A q \in Reqs : q # r /\ call[q] # None => call[q] # call[r]
    BY <1>1, <1>13 DEF Sent, Place, OneEach
  <2>2. ASSUME NEW q \in Reqs PROVE Place(q)'
    <3>1. CASE q = r
      BY <1>1, <1>13, <2>1, <3>1 DEF Sent, Place, NoEvent
    <3>2. CASE q # r
      BY <1>1, <1>13, <2>1, <3>2 DEF Sent, Place, NoEvent
    <3>3. QED
      BY <3>1, <3>2
  <2>3. \A x \in Loops : At(x)'
    BY <1>1, <1>13, <2>1 DEF Sent, At
  <2>4. OneEach'
    BY <1>1, <1>13, <2>1 DEF Sent, OneEach
  <2>5. QED
    BY <2>2, <2>3, <2>4
<1>14. CASE crash
  <2>1. \A q : NoEvent(q)'
    BY <1>14, Zenon DEF crash, Restarted, NoEvent, Ok, Failed
  <2>2. \A q \in Reqs : Place(q)'
    BY <1>1, <1>14, <2>1 DEF crash, Restarted, Place, NoEvent
  <2>3. \A x \in Loops : At(x)'
    BY <1>1, <1>14 DEF crash, Restarted, Served, At
  <2>4. OneEach'
    BY <1>1, <1>14 DEF crash, Restarted, OneEach
  <2>5. QED
    BY <2>2, <2>3, <2>4
<1>15. QED
  BY <1>2, <1>3, <1>4, <1>5, <1>6, <1>7, <1>8, <1>9, <1>10, <1>11, <1>12, <1>13, <1>14,
     ProcessEffect, DeleteEffect, LoggedEffect, AcceptEffect, SentEffect
     DEF Next, Step, Event

-----------------------------------------------------------------------------
(* Every step keeps as many waiting objects as there were registrations.    *)

LEMMA CountsForm ==
    AlwaysAccepting <=> \A i \in {1, 2} : Cardinality(Waiting(i)) = Cardinality(Registrants(i))
BY RegisteredFacts DEF AlwaysAccepting, Waiting, Registrants

LEMMA CountsForm2 ==
    AlwaysAccepting' <=>
        \A i \in {1, 2} : Cardinality(Waiting(i)') = Cardinality(Registrants(i)')
BY RegisteredFacts DEF AlwaysAccepting, Waiting, Registrants

LEMMA CountsSame ==
    ASSUME AlwaysAccepting, \A i \in {1, 2} : Waiting(i)' = Waiting(i), regs' = regs
    PROVE  AlwaysAccepting'
<1>1. \A i \in {1, 2} : Registrants(i)' = Registrants(i)
  BY DEF Registrants
<1>2. QED
  BY <1>1, CountsForm, CountsForm2

LEMMA StepAccepting ==
    ASSUME IInv, Next
    PROVE  AlwaysAccepting'
<1>1. Types /\ Objects /\ AlwaysAccepting
  BY DEF IInv
<1>2. ASSUME UNCHANGED <<srq_st, method, regs>> PROVE AlwaysAccepting'
  <2>1. \A i \in {1, 2} : Waiting(i)' = Waiting(i)
    BY <1>2 DEF Waiting
  <2>2. QED
    BY <1>1, <1>2, <2>1, CountsSame
<1>3. \A i \in {1, 2} : IsFiniteSet(Waiting(i)) /\ IsFiniteSet(Registrants(i))
  <2>1. ASSUME NEW i \in {1, 2}
        PROVE  Waiting(i) \in SUBSET Reqs /\ Registrants(i) \in SUBSET Loops
    BY DEF Waiting, Registrants
  <2>2. QED
    BY <2>1, ReqsFinite, FS_Subset
<1>4. ASSUME NEW w \in Loops, register_requests(w) PROVE AlwaysAccepting'
  <2>1. Deleted # {}
    BY <1>1, <1>4, DeletedExists DEF register_requests, Objects, At
  <2>2. PICK n \in Deleted :
           /\ srq_st' = [srq_st EXCEPT ![n] = "process"]
           /\ method' = [method EXCEPT ![n] = Registered[regs[w] + 1]]
           /\ accepting' = accepting \cup {n}
    BY <2>1, <1>4, NewFacts DEF register_requests
  <2>3. /\ regs[w] \in 0..1 /\ Registered[regs[w] + 1] \in Served
        /\ n \in Reqs /\ srq_st[n] = "none"
    BY <1>1, <1>4, RegisteredFacts DEF register_requests, Objects, At, Served, Deleted, Types, TypeOK
  <2>4. PICK i \in {1, 2} : i = regs[w] + 1 /\ regs' = [regs EXCEPT ![w] = i]
    <3>1. regs' = [regs EXCEPT ![w] = regs[w] + 1]
      BY <1>4 DEF register_requests
    <3>2. regs[w] + 1 \in {1, 2}
      BY <2>3
    <3>3. QED
      BY <3>1, <3>2
  <2>5. \A j \in {1, 2} : j # i => Registered[j] # Registered[i]
    BY <2>4, RegisteredFacts
  <2>6. Waiting(i)' = Waiting(i) \cup {n} /\ n \notin Waiting(i)
    BY <1>1, <2>2, <2>3, <2>4 DEF Waiting, Types, TypeOK
  <2>7. \A j \in {1, 2} : j # i => Waiting(j)' = Waiting(j)
    BY <1>1, <2>2, <2>3, <2>4, <2>5 DEF Waiting, Types, TypeOK
  <2>8. Registrants(i)' = Registrants(i) \cup {w} /\ w \notin Registrants(i)
    BY <1>1, <2>3, <2>4 DEF Registrants, Types, TypeOK
  <2>9. \A j \in {1, 2} : j # i => Registrants(j)' = Registrants(j)
    BY <1>1, <2>3, <2>4 DEF Registrants, Types, TypeOK
  <2>10. Cardinality(Waiting(i)') = Cardinality(Waiting(i)) + 1
    BY <1>3, <2>4, <2>6, FS_AddElement
  <2>11. Cardinality(Registrants(i)') = Cardinality(Registrants(i)) + 1
    BY <1>3, <2>4, <2>8, FS_AddElement, ZenonT(60)
  <2>12. QED
    BY <1>1, <2>4, <2>7, <2>9, <2>10, <2>11, CountsForm, CountsForm2
<1>5. ASSUME NEW w \in Loops, save_account_read(w) PROVE AlwaysAccepting'
  BY <1>2, <1>5 DEF save_account_read, reqVars
<1>6. ASSUME NEW w \in Loops, save_account_write(w) PROVE AlwaysAccepting'
  BY <1>2, <1>6 DEF save_account_write, Batch, Finish, reqVars
<1>7. ASSUME NEW w \in Loops, save_account_refused(w) PROVE AlwaysAccepting'
  BY <1>2, <1>7 DEF save_account_refused, Finish, reqVars
<1>8. ASSUME NEW w \in Loops, generate_failed(w) PROVE AlwaysAccepting'
  BY <1>2, <1>8 DEF generate_failed, Finish, reqVars
<1>9. ASSUME NEW w \in Loops, query_pub_key(w) PROVE AlwaysAccepting'
  BY <1>2, <1>9 DEF query_pub_key, Finish, reqVars
<1>10. ASSUME NEW w \in Loops, NEW r \in Reqs, Processed(w, r) PROVE AlwaysAccepting'
  <2>1. Deleted # {}
    BY <1>1, <1>10, DeletedExists DEF Processed, Objects, Place
  <2>2. PICK n \in Deleted :
           /\ srq_st' = [[srq_st EXCEPT ![r] = "finish"] EXCEPT ![n] = "process"]
           /\ method' = [method EXCEPT ![n] = method[r]]
           /\ accepting' = accepting \cup {n}
    BY <2>1, <1>10, NewFacts DEF Processed
  <2>3. /\ call[r] \in Calls /\ resp[call[r]] = None /\ method[r] \in Served
        /\ method[r] = Methods[call[r]]
        /\ r \notin sending /\ r \notin accepting /\ ~Failed(r)
        /\ \A x \in Loops : cur[x] # r
    BY <1>1, <1>10 DEF Processed, Objects, Place, At, NoEvent, Types, TypeOK
  <2>4. /\ n \in Reqs /\ srq_st[n] = "none" /\ n # r
        /\ \A x \in Loops : cur[x] # n
    BY <1>1, <1>10 DEF Processed, Objects, Place, Deleted
  <2>5. PICK i \in {1, 2} : method[r] = Registered[i]
    BY <2>3, RegisteredFacts DEF Served
  <2>6. \A j \in {1, 2} : j # i => Registered[j] # Registered[i]
    BY RegisteredFacts
  <2>7. /\ Waiting(i)' = (Waiting(i) \ {r}) \cup {n}
        /\ r \in Waiting(i) /\ n \notin Waiting(i)
    BY <1>1, <2>2, <2>4, <2>5, <1>10 DEF Processed, Waiting, Types, TypeOK
  <2>8. \A j \in {1, 2} : j # i => Waiting(j)' = Waiting(j)
    BY <1>1, <2>2, <2>4, <2>5, <2>6, <1>10 DEF Waiting, Processed, Types, TypeOK
  <2>9. IsFiniteSet(Waiting(i) \ {r}) /\ Cardinality(Waiting(i) \ {r}) = Cardinality(Waiting(i)) - 1
    BY <1>3, <2>7, FS_RemoveElement
  <2>10. Cardinality((Waiting(i) \ {r}) \cup {n}) = Cardinality(Waiting(i) \ {r}) + 1
    BY <2>7, <2>9, FS_AddElement
  <2>11. Cardinality(Waiting(i)') = Cardinality(Waiting(i))
    BY <1>3, <2>7, <2>9, <2>10, FS_CardinalityType
  <2>12. \A j \in {1, 2} : Registrants(j)' = Registrants(j)
    BY <1>10 DEF Processed, Registrants
  <2>13. QED
    BY <1>1, <2>8, <2>11, <2>12, CountsForm, CountsForm2
<1>11. ASSUME NEW w \in Loops, NEW r \in Reqs, Finished(w, r) PROVE AlwaysAccepting'
  <2>1. \A i \in {1, 2} : Waiting(i)' = Waiting(i)
    BY <1>1, <1>11 DEF Waiting, Finished, Types, TypeOK
  <2>2. QED
    BY <1>1, <2>1, <1>11, CountsSame DEF Finished
<1>12. ASSUME NEW w \in Loops, NEW r \in Reqs, Logged(w, r) PROVE AlwaysAccepting'
  BY <1>2, <1>12 DEF Logged
<1>13. ASSUME NEW c \in Calls, client_call(c) PROVE AlwaysAccepting'
  BY <1>2, <1>13 DEF client_call, reqVars, loopVars
<1>14. ASSUME NEW c \in Calls, NEW r \in Reqs, Accepted(c, r) PROVE AlwaysAccepting'
  BY <1>2, <1>14 DEF Accepted
<1>15. ASSUME NEW r \in Reqs, Sent(r) PROVE AlwaysAccepting'
  BY <1>2, <1>15 DEF Sent
<1>16. CASE crash
  <2>1. \A i \in {1, 2} : Waiting(i)' = {} /\ Registrants(i)' = {}
    BY <1>16 DEF Waiting, Registrants, crash, Restarted
  <2>2. QED
    BY <2>1, CountsForm2
<1>17. QED
  BY <1>4, <1>5, <1>6, <1>7, <1>8, <1>9, <1>10, <1>11, <1>12, <1>13, <1>14, <1>15, <1>16,
     ProcessEffect, DeleteEffect, LoggedEffect, AcceptEffect, SentEffect
     DEF Next, Step, Event

-----------------------------------------------------------------------------
(* The database.                                                            *)

(* What a step does not disturb that neither begins nor ends a save.        *)
LEMMA DbFrame ==
    ASSUME Saves, DbConsistent, UNCHANGED <<record, vers, raced>>,
           \A x \in Loops : pc'[x] = "write" =>
              pc[x] = "write" /\ Uuid(x)' = Uuid(x) /\ uver'[x] = uver[x]
    PROVE  Saves' /\ DbConsistent'
<1>1. DbConsistent'
  BY DEF DbConsistent, ListedStored, StoredListed
<1>2. Saves'
  BY DEF Saves
<1>3. QED
  BY <1>1, <1>2

(* A save that begins reads a list whose versions have records, and marks   *)
(* the user if another save is under way.                                   *)
LEMMA ReadKeeps ==
    ASSUME IInv, NEW w \in Loops, save_account_read(w)
    PROVE  Saves' /\ DbConsistent'
<1> DEFINE u == Uuid(w)
<1>1. Types /\ Objects /\ Saves /\ DbConsistent /\ u \in Users
  BY AtWork DEF IInv, save_account_read, Served
<1>2. /\ UNCHANGED <<record, vers, call, cur>>
      /\ raced \subseteq raced' /\ raced' \subseteq raced \cup {u}
      /\ pc' = [pc EXCEPT ![w] = "write"] /\ pc[w] # "write"
      /\ uver' = [uver EXCEPT ![w] = vers[u]]
  BY DEF save_account_read, dbVars, reqVars
<1>3. \A x \in Loops : Uuid(x)' = Uuid(x)
  BY <1>2 DEF Uuid
<1>4. ASSUME NEW x \in Loops, x # w, pc[x] = "write", Uuid(x) = u PROVE u \in raced'
  BY <1>4 DEF save_account_read, Saving
<1> HIDE DEF u
<1>5. DbConsistent'
  BY <1>1, <1>2 DEF DbConsistent, ListedStored, StoredListed
<1>6. \A x \in Loops : x # w => pc'[x] = pc[x] /\ uver'[x] = uver[x]
  BY <1>1, <1>2 DEF Types, TypeOK
<1>7. pc'[w] = "write" /\ uver'[w] = vers[u]
  BY <1>1, <1>2 DEF Types, TypeOK
<1>8. ASSUME NEW x \in Loops, pc'[x] = "write"
      PROVE  /\ \A i \in DOMAIN uver'[x] :
                   /\ <<Uuid(x), uver'[x][i]>> \in Store!Slots
                   /\ record[<<Uuid(x), uver'[x][i]>>] # Store!NoKey
             /\ Uuid(x) \notin raced' => uver'[x] = vers[Uuid(x)]
  <2>1. CASE x = w
    BY <1>1, <1>7, <2>1 DEF DbConsistent, ListedStored, u
  <2>2. CASE x # w
    BY <1>1, <1>2, <1>6, <1>8, <2>2 DEF Saves
  <2>3. QED
    BY <2>1, <2>2
<1>9. ASSUME NEW x \in Loops, NEW y \in Loops, pc'[x] = "write", pc'[y] = "write",
             Uuid(x) = Uuid(y), Uuid(x) \notin raced'
      PROVE  x = y
  <2>1. CASE x # w /\ y # w
    BY <1>1, <1>2, <1>6, <1>9, <2>1 DEF Saves
  <2>2. CASE x # w /\ y = w
    BY <1>4, <1>6, <1>9, <2>2 DEF u
  <2>3. CASE x = w /\ y # w
    BY <1>4, <1>6, <1>9, <2>3 DEF u
  <2>4. QED
    BY <2>1, <2>2, <2>3
<1>10. Saves'
  BY <1>2, <1>3, <1>8, <1>9 DEF Saves
<1>11. QED
  BY <1>5, <1>10

(* A list with one more version.                                            *)
LEMMA AppendedList ==
    ASSUME NEW list \in Seq(Versions), NEW v \in Versions
    PROVE  /\ Append(list, v) \in Seq(Versions)
           /\ \A i \in DOMAIN Append(list, v) :
                 \/ i \in DOMAIN list /\ Append(list, v)[i] = list[i]
                 \/ Append(list, v)[i] = v
           /\ \A i \in DOMAIN list :
                 i \in DOMAIN Append(list, v) /\ Append(list, v)[i] = list[i]
           /\ \E i \in DOMAIN Append(list, v) : Append(list, v)[i] = v
<1> DEFINE n == Len(list)
           a == Append(list, v)
<1>1. /\ a \in Seq(Versions) /\ Len(a) = n + 1 /\ n \in Nat
      /\ \A k \in 1..n : a[k] = list[k]
      /\ a[n + 1] = v
  BY AppendProperties, LenProperties
<1>2. DOMAIN a = 1..(n + 1) /\ DOMAIN list = 1..n
  BY <1>1, LenProperties
<1> HIDE DEF a, n
<1>3. QED
  BY <1>1, <1>2 DEF a

(* The batch writes a record and a list that has its version, over a list   *)
(* that is the one that was read unless saves overlapped.                   *)
LEMMA WriteKeeps ==
    ASSUME IInv, NEW w \in Loops, save_account_write(w)
    PROVE  Saves' /\ DbConsistent'
<1> DEFINE u == Uuid(w)
           v == Ver(w)
           s0 == Slot[call[cur[w]]]
           k == Store!NewKey(call[cur[w]])
           list == Append(uver[w], v)
<1>1. /\ Types /\ Objects /\ Saves /\ DbConsistent /\ pc[w] = "write"
      /\ u \in Users /\ v \in Versions /\ s0 \in Store!Slots /\ s0 = <<u, v>>
  BY AtWork DEF IInv, save_account_write, Batch
<1>2. k # Store!NoKey
  BY DEF Store!NewKey, Store!NoKey
<1>3. /\ vers' = [vers EXCEPT ![u] = list] /\ record' = [record EXCEPT ![s0] = k]
      /\ pc' = [pc EXCEPT ![w] = "next"] /\ cur' = [cur EXCEPT ![w] = None]
      /\ uver' = [uver EXCEPT ![w] = <<>>] /\ UNCHANGED <<call, raced>>
  BY DEF save_account_write, Batch, Finish, reqVars
<1>4. /\ list \in Seq(Versions)
      /\ \A i \in DOMAIN list :
            \/ i \in DOMAIN uver[w] /\ list[i] = uver[w][i]
            \/ list[i] = v
      /\ \A i \in DOMAIN uver[w] : i \in DOMAIN list /\ list[i] = uver[w][i]
      /\ \E i \in DOMAIN list : list[i] = v
  BY <1>1, AppendedList DEF Types
<1>5. \A x \in Loops : x # w => /\ pc'[x] = pc[x] /\ uver'[x] = uver[x]
                                /\ cur'[x] = cur[x] /\ Uuid(x)' = Uuid(x)
  BY <1>1, <1>3 DEF Types, TypeOK, Uuid
<1>6. pc'[w] = "next"
  BY <1>1, <1>3 DEF Types, TypeOK
<1>7. /\ \A i \in DOMAIN uver[w] :
            <<u, uver[w][i]>> \in Store!Slots /\ record[<<u, uver[w][i]>>] # Store!NoKey
      /\ u \notin raced => uver[w] = vers[u]
      /\ \A x \in Loops : x # w /\ pc[x] = "write" /\ Uuid(x) = u => u \in raced
  BY <1>1 DEF Saves
<1> HIDE DEF u, v, s0, k, list
<1>8. /\ vers'[u] = list /\ \A a \in Users : a # u => vers'[a] = vers[a]
      /\ record'[s0] = k /\ \A s \in Store!Slots : s # s0 => record'[s] = record[s]
  BY <1>1, <1>3 DEF Types
<1>9. \A s \in Store!Slots : record[s] # Store!NoKey => record'[s] # Store!NoKey
  BY <1>2, <1>8
<1>10. Saves'
  <2>1. ASSUME NEW x \in Loops, pc'[x] = "write"
        PROVE  /\ x # w /\ pc[x] = "write" /\ uver'[x] = uver[x] /\ Uuid(x)' = Uuid(x)
               /\ Uuid(x) \notin raced => Uuid(x) # u
    BY <1>5, <1>6, <1>7, <2>1
  <2>2. ASSUME NEW x \in Loops, pc'[x] = "write" PROVE Uuid(x) \in Users
    BY <1>1, <2>1, <2>2, AtWork
  <2>3. ASSUME NEW x \in Loops, pc'[x] = "write"
        PROVE  /\ \A i \in DOMAIN uver'[x] :
                     /\ <<Uuid(x)', uver'[x][i]>> \in Store!Slots
                     /\ record'[<<Uuid(x)', uver'[x][i]>>] # Store!NoKey
               /\ Uuid(x)' \notin raced' => uver'[x] = vers'[Uuid(x)']
    <3>1. /\ pc[x] = "write" /\ uver'[x] = uver[x] /\ Uuid(x)' = Uuid(x) /\ Uuid(x) \in Users
          /\ Uuid(x) \notin raced => Uuid(x) # u
      BY <2>1, <2>2, <2>3
    <3>2. \A i \in DOMAIN uver[x] :
             /\ <<Uuid(x), uver[x][i]>> \in Store!Slots
             /\ record[<<Uuid(x), uver[x][i]>>] # Store!NoKey
      BY <1>1, <3>1 DEF Saves
    <3>3. Uuid(x) \notin raced => uver[x] = vers[Uuid(x)]
      BY <1>1, <3>1 DEF Saves
    <3>4. QED
      BY <1>3, <1>8, <1>9, <3>1, <3>2, <3>3
  <2>4. ASSUME NEW x \in Loops, NEW y \in Loops, pc'[x] = "write", pc'[y] = "write",
               Uuid(x)' = Uuid(y)', Uuid(x)' \notin raced'
        PROVE  x = y
    BY <1>1, <1>3, <2>1, <2>4 DEF Saves
  <2>5. QED
    BY <2>3, <2>4 DEF Saves
<1>11. ListedStored'
  <2>1. ASSUME NEW a \in Users, NEW i \in DOMAIN vers'[a]
        PROVE  <<a, vers'[a][i]>> \in Store!Slots /\ record'[<<a, vers'[a][i]>>] # Store!NoKey
    <3>1. CASE a # u
      BY <1>1, <1>8, <1>9, <2>1, <3>1, SMTT(60) DEF DbConsistent, ListedStored
    <3>2. CASE a = u /\ list[i] = v
      BY <1>1, <1>2, <1>8, <3>2
    <3>3. CASE a = u /\ i \in DOMAIN uver[w] /\ list[i] = uver[w][i]
      BY <1>7, <1>8, <1>9, <3>3
    <3>4. QED
      BY <1>4, <1>8, <2>1, <3>1, <3>2, <3>3
  <2>2. QED
    BY <2>1 DEF ListedStored
<1>12. StoredListed'
  <2>1. ASSUME NEW s \in Store!Slots, record'[s] # Store!NoKey, s[1] \notin raced
        PROVE  \E i \in DOMAIN vers'[s[1]] : vers'[s[1]][i] = s[2]
    <3>1. CASE s = s0
      BY <1>1, <1>4, <1>8, <3>1
    <3>2. CASE s # s0
      <4>1. PICK i \in DOMAIN vers[s[1]] : vers[s[1]][i] = s[2]
        BY <1>1, <1>8, <2>1, <3>2 DEF DbConsistent, StoredListed
      <4>2. CASE s[1] = u
        BY <1>4, <1>7, <1>8, <2>1, <4>1, <4>2
      <4>3. CASE s[1] # u
        <5>1. s[1] \in Users
          BY DEF Store!Slots, Users
        <5>2. QED
          BY <1>8, <4>1, <4>3, <5>1
      <4>4. QED
        BY <4>2, <4>3
    <3>3. QED
      BY <3>1, <3>2
  <2>2. QED
    BY <1>3, <2>1 DEF StoredListed
<1>13. QED
  BY <1>10, <1>11, <1>12 DEF DbConsistent

(* Every step keeps the lists and the records in agreement.                 *)
LEMMA StepDb ==
    ASSUME IInv, Next
    PROVE  Saves' /\ DbConsistent'
<1>1. Types /\ Objects /\ AlwaysAccepting /\ Saves /\ DbConsistent
  BY DEF IInv
<1> USE DEF Types, TypeOK
<1>2. ASSUME NEW w \in Loops, register_requests(w) PROVE Saves' /\ DbConsistent'
  BY <1>1, <1>2, DbFrame DEF register_requests, dbVars, Uuid
<1>3. ASSUME NEW w \in Loops, save_account_read(w) PROVE Saves' /\ DbConsistent'
  BY <1>3, ReadKeeps
<1>4. ASSUME NEW w \in Loops, save_account_write(w) PROVE Saves' /\ DbConsistent'
  BY <1>4, WriteKeeps
<1>5. ASSUME NEW w \in Loops, save_account_refused(w) PROVE Saves' /\ DbConsistent'
  BY <1>1, <1>5, DbFrame DEF save_account_refused, Finish, reqVars, dbVars, Uuid
<1>6. ASSUME NEW w \in Loops, generate_failed(w) PROVE Saves' /\ DbConsistent'
  BY <1>1, <1>6, DbFrame DEF generate_failed, Finish, reqVars, dbVars, Uuid
<1>7. ASSUME NEW w \in Loops, query_pub_key(w) PROVE Saves' /\ DbConsistent'
  BY <1>1, <1>7, DbFrame DEF query_pub_key, Finish, reqVars, dbVars, Uuid
<1>8. ASSUME NEW w \in Loops, NEW r \in Reqs, Processed(w, r) PROVE Saves' /\ DbConsistent'
  <2>1. method[r] \in Served /\ \A x \in Loops : x # w => pc'[x] = pc[x] /\ cur'[x] = cur[x]
    BY <1>1, <1>8 DEF Processed, Objects, Place
  <2>2. pc'[w] # "write"
    BY <1>1, <2>1, <1>8 DEF Processed, Served
  <2>3. QED
    BY <1>1, <2>1, <2>2, <1>8, DbFrame DEF Processed, Uuid
<1>9. ASSUME NEW w \in Loops, NEW r \in Reqs, Finished(w, r) PROVE Saves' /\ DbConsistent'
  <2>1. \A x \in Loops : pc[x] = "write" => cur[x] \in Reqs /\ cur[x] # r
    BY <1>1, <1>9 DEF Finished, Objects, Place, At
  <2>2. QED
    BY <1>1, <2>1, <1>9, DbFrame DEF Finished, Uuid
<1>10. ASSUME NEW w \in Loops, NEW r \in Reqs, Logged(w, r) PROVE Saves' /\ DbConsistent'
  BY <1>1, <1>10, DbFrame DEF Logged, Uuid
<1>11. ASSUME NEW c \in Calls, client_call(c) PROVE Saves' /\ DbConsistent'
  BY <1>1, <1>11, DbFrame DEF client_call, reqVars, loopVars, dbVars, Uuid
<1>12. ASSUME NEW c \in Calls, NEW r \in Reqs, Accepted(c, r) PROVE Saves' /\ DbConsistent'
  <2>1. \A x \in Loops : pc[x] = "write" => cur[x] \in Reqs /\ cur[x] # r
    BY <1>1, <1>12 DEF Accepted, Objects, Place, At
  <2>2. QED
    BY <1>1, <2>1, <1>12, DbFrame DEF Accepted, Uuid
<1>13. ASSUME NEW r \in Reqs, Sent(r) PROVE Saves' /\ DbConsistent'
  BY <1>1, <1>13, DbFrame DEF Sent, Uuid
<1>14. CASE crash
  BY <1>1, <1>14, DbFrame DEF crash, Restarted, dbVars
<1>15. QED
  BY <1>2, <1>3, <1>4, <1>5, <1>6, <1>7, <1>8, <1>9, <1>10, <1>11, <1>12, <1>13, <1>14,
     ProcessEffect, DeleteEffect, LoggedEffect, AcceptEffect, SentEffect
     DEF Next, Step, Event

-----------------------------------------------------------------------------
LEMMA InitIInv == Init => IInv
<1> SUFFICES ASSUME Init PROVE IInv
  OBVIOUS
<1> USE DEF Init
<1>1. TypeOK
  BY RegisteredFacts DEF TypeOK
<1>2. Types
  <2>1. <<>> \in Seq(Versions)
    OBVIOUS
  <2>2. QED
    BY <1>1, <2>1, KeysFacts DEF Types
<1>3. \A r \in Reqs : Place(r)
  <2>1. \A r : NoEvent(r)
    BY DEF NoEvent, Ok, Failed
  <2>2. QED
    BY <2>1 DEF Place, NoEvent
<1>4. \A w \in Loops : At(w)
  BY DEF At, Served
<1>5. OneEach
  BY DEF OneEach
<1>6. AlwaysAccepting
  <2>1. \A i \in {1, 2} : Waiting(i) = {} /\ Registrants(i) = {}
    BY DEF Waiting, Registrants
  <2>2. QED
    BY <2>1, CountsForm
<1>7. Saves
  BY DEF Saves
<1>8. DbConsistent
  BY DEF DbConsistent, ListedStored, StoredListed
<1>9. QED
  BY <1>2, <1>3, <1>4, <1>5, <1>6, <1>7, <1>8 DEF IInv, Objects

LEMMA StepIInv == IInv /\ [Next]_vars => IInv'
<1>1. ASSUME IInv, Next PROVE IInv'
  BY <1>1, StepTypes, StepObjects, StepAccepting, StepDb DEF IInv
<1>2. ASSUME IInv, UNCHANGED vars PROVE IInv'
  <2> USE <1>2 DEF vars, reqVars, grpcVars, loopVars, dbVars, IInv
  <2>1. Types'
    BY DEF Types, TypeOK
  <2>2. Objects'
    <3>1. \A q : (Ok(q)' <=> Ok(q)) /\ (Failed(q)' <=> Failed(q))
      BY SameEvents
    <3>2. QED
      BY <3>1 DEF Objects, Place, NoEvent, At, OneEach
  <2>3. AlwaysAccepting'
    BY SMTT(60) DEF AlwaysAccepting
  <2>4. Saves' /\ DbConsistent'
    BY DEF Saves, DbConsistent, ListedStored, StoredListed, Uuid
  <2>5. QED
    BY <2>1, <2>2, <2>3, <2>4
<1>3. QED
  BY <1>1, <1>2

LEMMA ServerInvariant == Spec => []IInv
BY InitIInv, StepIInv, PTL DEF Spec

(* An object with one holder at most has no more than one.                  *)
LEMMA AtMostOne ==
    ASSUME NEW S, \A x, y \in S : x = y
    PROVE  Cardinality(S) <= 1
<1>1. CASE S = {}
  BY <1>1, FS_EmptySet
<1>2. CASE S # {}
  <2>1. PICK x \in S : TRUE
    BY <1>2
  <2>2. S = {x}
    BY <2>1
  <2>3. Cardinality({x}) = 1
    BY FS_Singleton
  <2>4. QED
    BY <2>2, <2>3
<1>3. QED
  BY <1>1, <1>2

(* The holders of an object, one kind at a time.                            *)
LEMMA HolderKinds ==
    ASSUME NEW r \in Reqs, NEW x \in Holders(r)
    PROVE  \/ x = <<"accepting", 0>> /\ r \in accepting
           \/ x = <<"sending", 0>> /\ r \in sending
           \/ x = <<"event", TRUE>> /\ Ok(r)
           \/ x = <<"event", FALSE>> /\ Failed(r)
           \/ \E w \in Loops : x = <<"cur", w>> /\ cur[w] = r
BY ZenonT(60) DEF Holders, Ok, Failed

(* Request objects live soundly, whichever threads get their events: each   *)
(* is known in one place, its state tells which event is out for it, and    *)
(* every method keeps as many objects waiting as threads registered.        *)
THEOREM ObjectsAlwaysSound == Spec => []ObjectsSound
<1>1. ASSUME IInv, NEW r \in Reqs, NEW x \in Holders(r), NEW y \in Holders(r)
      PROVE  x = y /\ srq_st[r] # "none"
  <2>1. /\ r \in accepting => r \notin sending /\ ~Ok(r) /\ ~Failed(r)
        /\ r \in sending => ~Ok(r) /\ ~Failed(r)
        /\ Ok(r) => ~Failed(r)
    BY <1>1 DEF IInv, Objects, Place, NoEvent
  <2>2. ASSUME NEW w \in Loops, cur[w] = r
        PROVE  r \notin accepting /\ r \notin sending /\ ~Ok(r) /\ ~Failed(r)
    BY <1>1, <2>2 DEF IInv, Objects, Place, NoEvent, At
  <2>3. \A v, w \in Loops : cur[v] = r /\ cur[w] = r => v = w
    BY <1>1 DEF IInv, Objects, OneEach
  <2>4. srq_st[r] = "none" => r \notin accepting /\ r \notin sending /\ ~Ok(r) /\ ~Failed(r)
                              /\ \A w \in Loops : cur[w] # r
    BY <1>1 DEF IInv, Objects, Place, NoEvent
  <2>5. x = y
    <3> DEFINE Kinds == {"accepting", "sending", "ok", "failed"}
               Kind(k) == \/ k = "accepting" /\ r \in accepting
                          \/ k = "sending" /\ r \in sending
                          \/ k = "ok" /\ Ok(r)
                          \/ k = "failed" /\ Failed(r)
               Name(k) == IF k = "accepting" THEN <<"accepting", 0>>
                          ELSE IF k = "sending" THEN <<"sending", 0>>
                          ELSE IF k = "ok" THEN <<"event", TRUE>> ELSE <<"event", FALSE>>
    <3>1. /\ Name("accepting") = <<"accepting", 0>> /\ Name("sending") = <<"sending", 0>>
          /\ Name("ok") = <<"event", TRUE>> /\ Name("failed") = <<"event", FALSE>>
      BY Zenon
    <3>2. \A j, k \in Kinds : Kind(j) /\ Kind(k) => j = k
      BY <2>1
    <3>3. \A k \in Kinds, w \in Loops : Kind(k) => cur[w] # r
      BY <2>2
    <3> HIDE DEF Name
    <3>4. ASSUME NEW z \in Holders(r)
          PROVE  (\E k \in Kinds : z = Name(k) /\ Kind(k))
                 \/ \E w \in Loops : z = <<"cur", w>> /\ cur[w] = r
      BY <3>1, HolderKinds, Zenon
    <3> HIDE DEF Kind, Kinds
    <3>5. QED
      BY <2>3, <3>2, <3>3, <3>4
  <2>6. srq_st[r] # "none"
    BY <2>4, HolderKinds, Zenon
  <2>7. QED
    BY <2>5, <2>6
<1>2. ASSUME IInv, NEW r \in Reqs
      PROVE  IF srq_st[r] = "none" THEN Holders(r) = {} ELSE Cardinality(Holders(r)) <= 1
  <2>1. \A x, y \in Holders(r) : x = y /\ srq_st[r] # "none"
    BY <1>1, <1>2
  <2>2. Cardinality(Holders(r)) <= 1
    BY <2>1, AtMostOne
  <2>3. srq_st[r] = "none" => Holders(r) = {}
    BY <2>1
  <2>4. QED
    BY <2>2, <2>3
<1>3. ASSUME IInv, NEW r \in Reqs, NEW ok \in BOOLEAN, <<r, ok>> \in srq_cq
      PROVE  srq_st[r] = "finish" <=> resp[call[r]] # None
  <2>1. Ok(r) \/ Failed(r)
    BY <1>3, Zenon DEF Ok, Failed
  <2>2. QED
    BY <1>3, <2>1 DEF IInv, Objects, Place
<1>4. IInv => ObjectsSound
  <2>1. IInv => OneHolder
    BY <1>2 DEF OneHolder
  <2>2. IInv => StateTellsEvent
    <3>1. ASSUME IInv, NEW r \in Reqs
          PROVE  /\ r \in accepting => srq_st[r] = "process" /\ call[r] = None
                 /\ r \in sending => srq_st[r] = "finish" /\ resp[call[r]] # None
      BY <3>1 DEF IInv, Objects, Place
    <3>2. QED
      BY <1>3, <3>1, Zenon DEF StateTellsEvent
  <2>3. QED
    BY <2>1, <2>2 DEF ObjectsSound, IInv, Types
<1>5. QED
  BY <1>4, ServerInvariant, PTL

(* Version lists and key records agree across crashes, refused batches and  *)
(* overlapping saves of other users.                                        *)
THEOREM DbAlwaysConsistent == Spec => []DbConsistent
<1>1. IInv => DbConsistent
  BY DEF IInv
<1>2. QED
  BY <1>1, ServerInvariant, PTL

(* A step of the server is a step of the store, or none.                    *)
LEMMA StepStore ==
    ASSUME IInv, Next
    PROVE  [Store!Next]_Store!vars
<1>1. Types /\ Objects
  BY DEF IInv
<1>2. ASSUME UNCHANGED <<record, resp, client>> PROVE [Store!Next]_Store!vars
  BY <1>2 DEF Store!vars
<1>3. ASSUME NEW w \in Loops, pc[w] \in {"write"} \cup Served
      PROVE  /\ cur[w] \in Reqs /\ call[cur[w]] \in Calls /\ resp[call[cur[w]]] = None
             /\ client[call[cur[w]]] # "new"
             /\ Methods[call[cur[w]]] = IF pc[w] = "write" THEN "generate_key" ELSE pc[w]
  <2>1. cur[w] \in Reqs /\ call[cur[w]] \in Calls
    BY <1>1, <1>3, AtWork
  <2>2. QED
    BY <1>1, <1>3, <2>1 DEF Objects, At, Place
<1>4. ASSUME NEW w \in Loops, register_requests(w) PROVE [Store!Next]_Store!vars
  BY <1>2, <1>4 DEF register_requests, dbVars
<1>5. ASSUME NEW w \in Loops, save_account_read(w) PROVE [Store!Next]_Store!vars
  BY <1>2, <1>5 DEF save_account_read, dbVars
<1>6. ASSUME NEW w \in Loops, save_account_write(w) PROVE [Store!Next]_Store!vars
  <2>1. Store!Generate(call[cur[w]])
    BY <1>3, <1>6 DEF save_account_write, Batch, Finish, Store!Generate, Served
  <2>2. QED
    BY <1>3, <1>6, <2>1 DEF save_account_write, Batch, Served, Store!Next
<1>7. ASSUME NEW w \in Loops, save_account_refused(w) PROVE [Store!Next]_Store!vars
  <2>1. Store!Generate(call[cur[w]])
    BY <1>3, <1>7 DEF save_account_refused, dbVars, Finish, Store!Generate, Served
  <2>2. QED
    BY <1>3, <1>7, <2>1 DEF save_account_refused, dbVars, Served, Store!Next
<1>8. ASSUME NEW w \in Loops, generate_failed(w) PROVE [Store!Next]_Store!vars
  <2>1. Store!Generate(call[cur[w]])
    BY <1>3, <1>8 DEF generate_failed, dbVars, Finish, Store!Generate, Served
  <2>2. QED
    BY <1>3, <1>8, <2>1 DEF generate_failed, dbVars, Served, Store!Next
<1>9. ASSUME NEW w \in Loops, query_pub_key(w) PROVE [Store!Next]_Store!vars
  <2>1. Store!Query(call[cur[w]])
    BY <1>3, <1>9 DEF query_pub_key, Finish, dbVars, Store!Query, Served
  <2>2. QED
    BY <1>3, <1>9, <2>1 DEF query_pub_key, Served, Store!Next
<1>10. ASSUME NEW w \in Loops, NEW r \in Reqs, Processed(w, r) PROVE [Store!Next]_Store!vars
  BY <1>2, <1>10 DEF Processed
<1>11. ASSUME NEW w \in Loops, NEW r \in Reqs, Finished(w, r) PROVE [Store!Next]_Store!vars
  BY <1>2, <1>11 DEF Finished
<1>12. ASSUME NEW w \in Loops, NEW r \in Reqs, Logged(w, r) PROVE [Store!Next]_Store!vars
  BY <1>2, <1>12 DEF Logged
<1>13. ASSUME NEW c \in Calls, client_call(c) PROVE [Store!Next]_Store!vars
  <2>1. Store!Send(c)
    BY <1>13 DEF client_call, dbVars, Store!Send
  <2>2. QED
    BY <2>1 DEF Store!Next
<1>14. ASSUME NEW c \in Calls, NEW r \in Reqs, Accepted(c, r) PROVE [Store!Next]_Store!vars
  BY <1>2, <1>14 DEF Accepted
<1>15. ASSUME NEW r \in Reqs, Sent(r) PROVE [Store!Next]_Store!vars
  <2>1. call[r] \in Calls /\ client[call[r]] = "sent" /\ resp[call[r]] # None
    BY <1>1, <1>15 DEF Sent, Types, TypeOK, Objects, Place
  <2>2. CASE client' = [client EXCEPT ![call[r]] = "answered"]
    <3>1. Store!Answer(call[r])
      BY <1>15, <2>1, <2>2 DEF Sent, Store!Answer
    <3>2. QED
      BY <2>1, <3>1 DEF Store!Next
  <2>3. CASE client' = [client EXCEPT ![call[r]] = "error"]
    <3>1. {call[r]} \in SUBSET {c \in Calls : client[c] = "sent"}
      BY <2>1
    <3>2. client' = [c \in Calls |-> IF c \in {call[r]} THEN "error" ELSE client[c]]
      BY <1>1, <2>3 DEF Types, TypeOK
    <3>3. Store!Fail
      BY <1>15, <3>1, <3>2 DEF Sent, Store!Fail
    <3>4. QED
      BY <3>3 DEF Store!Next
  <2>4. QED
    BY <1>15, <2>2, <2>3 DEF Sent
<1>16. CASE crash
  <2> DEFINE F == {c \in Calls : client[c] = "sent"}
  <2>1. F \in SUBSET F /\ client' = [c \in Calls |-> IF c \in F THEN "error" ELSE client[c]]
    BY <1>16 DEF crash
  <2>2. Store!Fail
    BY <1>16, <2>1 DEF crash, dbVars, Store!Fail
  <2>3. QED
    BY <2>2 DEF Store!Next
<1>17. QED
  BY <1>4, <1>5, <1>6, <1>7, <1>8, <1>9, <1>10, <1>11, <1>12, <1>13, <1>14, <1>15, <1>16,
     ProcessEffect, DeleteEffect, LoggedEffect, AcceptEffect, SentEffect
     DEF Next, Step, Event

(* The server implements KeyStore: each call is executed once, at one       *)
(* moment between its submission and its end, and answered with what was    *)
(* done then.                                                               *)
THEOREM ServerImplementsStore == Spec => Implements
<1>1. Init => Store!Init
  BY DEF Init, Store!Init
<1>2. IInv /\ [Next]_vars => [Store!Next]_Store!vars
  <2>1. ASSUME UNCHANGED vars PROVE UNCHANGED Store!vars
    BY <2>1 DEF vars, dbVars, Store!vars
  <2>2. QED
    BY <2>1, StepStore
<1>3. QED
  BY <1>1, <1>2, ServerInvariant, PTL DEF Spec, Implements, Store!Spec
=============================================================================
