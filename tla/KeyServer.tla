------------------------------ MODULE KeyServer ------------------------------
(***************************************************************************)
(* The key server: ServerAsync and ServerAsyncBase (common/util/            *)
(* async-rpc.cpp), AsyncKeyServer (app/key-server/key-server-async.cpp),    *)
(* the handlers of KeyServer (key-service.cpp) and KeyServerDb              *)
(* (app/db-driver/key-server-db.cpp).  Several threads run run_server_loop  *)
(* on one completion queue.  A request object waits in gRPC for a call, is  *)
(* processed by the thread that gets its event, and is deleted when the     *)
(* event of its response comes; it is replaced before it is processed.      *)
(* gRPC and the database are external; the server may crash and restart.    *)
(* What a thread does to an object that nobody else knows is one step with  *)
(* the operation on gRPC or the database that follows.                      *)
(***************************************************************************)
EXTENDS Naturals, Sequences, FiniteSets

CONSTANTS
    Loops,          \* threads in run_server_loop
    Calls,          \* the calls clients make, each once
    Methods,        \* Methods[c]: the method that call c is for
    Slot,           \* Slot[c]: the <<uuid, version>> it is about
    MaxCrash,       \* bound on the number of crashes
    None

(* The methods modelled, in the order of register_requests.                 *)
Registered == <<"generate_key", "query_pub_key">>
Served == {"generate_key", "query_pub_key"}

(* Every loop has one waiting object per method, and a call one more.       *)
Reqs == 1..(2 * Cardinality(Loops) + Cardinality(Calls))

ASSUME ServerAssumption ==
    /\ IsFiniteSet(Loops) /\ IsFiniteSet(Calls)
    /\ Methods \in [Calls -> Served]
    /\ MaxCrash \in Nat
    /\ \A c \in Calls : Slot[c] = <<Slot[c][1], Slot[c][2]>>
    /\ None \notin Calls /\ None \notin Reqs /\ None \notin Served
    /\ None # <<>> /\ \A c \in Calls : None # <<Slot[c], c>>

VARIABLES
    srq_st,         \* srq_st[r]: state of request object r, "none" when deleted
    method,         \* method[r]: its class
    call,           \* call[r]: the call it has received
    accepting,      \* the objects registered in gRPC for a call
    sending,        \* those whose response gRPC has to send
    srq_cq,         \* the events of the completion queue: <<object, ok>>
    pc,             \* where each thread is
    cur,            \* the object each thread works on
    uver,           \* the version list each thread has read from the database
    regs,           \* the number of methods each thread has registered
    record,         \* the database: the key records
    vers,           \* the database: the version list of each user
    resp,           \* resp[c]: the response to call c
    client,         \* client[c]: "new", "sent", "answered" or "error"
    raced,          \* users of which two saves overlapped
    crashes         \* number of crashes

reqVars == <<srq_st, method, call>>
grpcVars == <<accepting, sending, srq_cq>>
loopVars == <<pc, cur, uver, regs>>
dbVars == <<record, vers>>
vars == <<reqVars, grpcVars, loopVars, dbVars, resp, client, raced, crashes>>

Store == INSTANCE KeyStore

Users == {Slot[c][1] : c \in Calls}
Uuid(w) == Slot[call[cur[w]]][1]

-----------------------------------------------------------------------------

(* The server as it starts, with an empty completion queue.                 *)
Restarted ==
    /\ srq_st' = [r \in Reqs |-> "none"]
    /\ method' = [r \in Reqs |-> None]
    /\ call' = [r \in Reqs |-> None]
    /\ accepting' = {} /\ sending' = {} /\ srq_cq' = {}
    /\ pc' = [w \in Loops |-> "register"]
    /\ cur' = [w \in Loops |-> None]
    /\ uver' = [w \in Loops |-> <<>>]
    /\ regs' = [w \in Loops |-> 0]

Init ==
    /\ srq_st = [r \in Reqs |-> "none"]
    /\ method = [r \in Reqs |-> None]
    /\ call = [r \in Reqs |-> None]
    /\ accepting = {} /\ sending = {} /\ srq_cq = {}
    /\ pc = [w \in Loops |-> "register"]
    /\ cur = [w \in Loops |-> None]
    /\ uver = [w \in Loops |-> <<>>]
    /\ regs = [w \in Loops |-> 0]
    /\ record = [s \in Store!Slots |-> Store!NoKey]
    /\ vers = [u \in Users |-> <<>>]
    /\ resp = [c \in Calls |-> None]
    /\ client = [c \in Calls |-> "new"]
    /\ raced = {}
    /\ crashes = 0

Deleted == {r \in Reqs : srq_st[r] = "none"}

(* new_request and proceed() in state create: the object is in state        *)
(* process before request_data gives it to gRPC, since another thread may   *)
(* get its event at once.  States of the other objects become others.       *)
NewRequest(m, others) ==
    LET r == CHOOSE x \in Deleted : TRUE
    IN  /\ srq_st' = [others EXCEPT ![r] = "process"]
        /\ method' = [method EXCEPT ![r] = m]
        /\ accepting' = accepting \cup {r}

(* register_requests makes an object of each method; then the loop begins.  *)
register_requests(w) ==
    /\ pc[w] = "register"
    /\ regs' = [regs EXCEPT ![w] = @ + 1]
    /\ NewRequest(Registered[regs[w] + 1], srq_st)
    /\ pc' = [pc EXCEPT ![w] = IF regs[w] + 1 = Len(Registered) THEN "next" ELSE @]
    /\ UNCHANGED <<call, sending, srq_cq, cur, uver, dbVars, resp, client, raced, crashes>>

(* External: a client calls, ...                                            *)
client_call(c) ==
    /\ client[c] = "new"
    /\ client' = [client EXCEPT ![c] = "sent"]
    /\ UNCHANGED <<reqVars, grpcVars, loopVars, dbVars, resp, raced, crashes>>

(* ... and gRPC gives the call to a waiting object; those of a method are   *)
(* alike.                                                                   *)
grpc_accept(c, r) ==
    /\ client[c] = "sent" /\ resp[c] = None /\ \A q \in Reqs : call[q] # c
    /\ r \in accepting /\ method[r] = Methods[c]
    /\ \A q \in accepting : method[q] = Methods[c] => r <= q
    /\ call' = [call EXCEPT ![r] = c]
    /\ accepting' = accepting \ {r}
    /\ srq_cq' = srq_cq \cup {<<r, TRUE>>}
    /\ UNCHANGED <<srq_st, method, sending, loopVars, dbVars, resp, client, raced, crashes>>

(* External: gRPC sends the response; ok is false if the client is gone.    *)
grpc_sent(r, ok) ==
    /\ r \in sending
    /\ sending' = sending \ {r}
    /\ srq_cq' = srq_cq \cup {<<r, ok>>}
    /\ client' = [client EXCEPT ![call[r]] = IF ok THEN "answered" ELSE "error"]
    /\ UNCHANGED <<reqVars, accepting, loopVars, dbVars, resp, raced, crashes>>

-----------------------------------------------------------------------------

(* An event of an object in state process.                                  *)
TakesCall(w, r) ==
    /\ pc[w] = "next"
    /\ <<r, TRUE>> \in srq_cq /\ srq_st[r] = "process"
    /\ srq_cq' = srq_cq \ {<<r, TRUE>>}
    /\ cur' = [cur EXCEPT ![w] = r]
    /\ pc' = [pc EXCEPT ![w] = method[r]]
    /\ UNCHANGED <<call, sending, uver, regs, dbVars, resp, client, raced, crashes>>

(* Mutant: no new object takes the place of this one.                       *)
proceed_alone(w, r) ==
    /\ TakesCall(w, r)
    /\ srq_st' = [srq_st EXCEPT ![r] = "finish"]
    /\ UNCHANGED <<method, accepting>>

(* Mutant: the state is not advanced.                                       *)
proceed_unmarked(w, r) == TakesCall(w, r) /\ NewRequest(method[r], srq_st)

(* proceed() in state process: submit_new_request, and the state is finish  *)
(* before the handler runs, hence before the response is given to gRPC.     *)
proceed_process(w, r) ==
    /\ TakesCall(w, r)
    /\ NewRequest(method[r], [srq_st EXCEPT ![r] = "finish"])

(* proceed() in state finish: the object deletes itself.                    *)
proceed_finish(w, r) ==
    /\ pc[w] = "next"
    /\ <<r, TRUE>> \in srq_cq /\ srq_st[r] = "finish"
    /\ srq_cq' = srq_cq \ {<<r, TRUE>>}
    /\ srq_st' = [srq_st EXCEPT ![r] = "none"]
    /\ method' = [method EXCEPT ![r] = None]
    /\ call' = [call EXCEPT ![r] = None]
    /\ UNCHANGED <<accepting, sending, loopVars, dbVars, resp, client, raced, crashes>>

(* An event that is not ok is only logged; the object is never deleted.     *)
next_failed(w, r) ==
    /\ pc[w] = "next"
    /\ <<r, FALSE>> \in srq_cq
    /\ srq_cq' = srq_cq \ {<<r, FALSE>>}
    /\ UNCHANGED <<reqVars, accepting, sending, loopVars, dbVars, resp, client, raced, crashes>>

-----------------------------------------------------------------------------

Saving(u) == {w \in Loops : pc[w] = "write" /\ Uuid(w) = u}

(* generate_key makes a key and save_account reads the version list.        *)
save_account_read(w) ==
    /\ pc[w] = "generate_key"
    /\ uver' = [uver EXCEPT ![w] = vers[Uuid(w)]]
    /\ raced' = IF Saving(Uuid(w)) = {} THEN raced ELSE raced \cup {Uuid(w)}
    /\ pc' = [pc EXCEPT ![w] = "write"]
    /\ UNCHANGED <<reqVars, grpcVars, cur, regs, dbVars, resp, client, crashes>>

(* process_request ends with Finish, which hands the response to gRPC, and  *)
(* the thread goes on with the loop.                                        *)
Finish(w, key) ==
    /\ resp' = [resp EXCEPT ![call[cur[w]]] = key]
    /\ sending' = sending \cup {cur[w]}
    /\ cur' = [cur EXCEPT ![w] = None]
    /\ pc' = [pc EXCEPT ![w] = "next"]
    /\ UNCHANGED <<reqVars, accepting, srq_cq, regs, client, raced, crashes>>

(* gen_rsa_kp fails: the response has no key, and nothing is saved.         *)
generate_failed(w) ==
    /\ pc[w] = "generate_key"
    /\ Finish(w, Store!NoKey)
    /\ UNCHANGED <<uver, dbVars>>

(* The database takes the batch: this version list and this record.         *)
Batch(w, list, rec) ==
    /\ pc[w] = "write"
    /\ vers' = [vers EXCEPT ![Uuid(w)] = list]
    /\ record' = [record EXCEPT ![Slot[call[cur[w]]]] = rec]
    /\ uver' = [uver EXCEPT ![w] = <<>>]
    /\ Finish(w, Store!NewKey(call[cur[w]]))

Ver(w) == Slot[call[cur[w]]][2]

(* Mutant: the record is not in the batch.                                  *)
write_list_only(w) ==
    Batch(w, Append(uver[w], Ver(w)), record[Slot[call[cur[w]]]])

(* The batch of save_account puts the list with the version appended and    *)
(* the record, both or none.                                                *)
save_account_write(w) ==
    Batch(w, Append(uver[w], Ver(w)), Store!NewKey(call[cur[w]]))

(* The database refuses the batch: save_account is true all the same, and   *)
(* the client gets a key that is not stored.                                *)
save_account_refused(w) ==
    /\ pc[w] = "write"
    /\ uver' = [uver EXCEPT ![w] = <<>>]
    /\ Finish(w, Store!NewKey(call[cur[w]]))
    /\ UNCHANGED dbVars

(* Mutant: without a key there is no response.                              *)
query_silent(w) ==
    /\ pc[w] = "query_pub_key"
    /\ IF record[Slot[call[cur[w]]]] # Store!NoKey
       THEN Finish(w, record[Slot[call[cur[w]]]])
       ELSE /\ cur' = [cur EXCEPT ![w] = None]
            /\ pc' = [pc EXCEPT ![w] = "next"]
            /\ UNCHANGED <<reqVars, grpcVars, regs, resp, client, raced, crashes>>
    /\ UNCHANGED <<uver, dbVars>>

(* query_pub_key answers with the key, or without one.                      *)
query_pub_key(w) ==
    /\ pc[w] = "query_pub_key"
    /\ Finish(w, record[Slot[call[cur[w]]]])
    /\ UNCHANGED <<uver, dbVars>>

(* External: the process dies and is started again.  The database remains;  *)
(* the calls under way fail.                                                *)
crash ==
    /\ crashes < MaxCrash
    /\ crashes' = crashes + 1
    /\ Restarted
    /\ client' = [c \in Calls |-> IF client[c] = "sent" THEN "error" ELSE client[c]]
    /\ UNCHANGED <<dbVars, resp, raced>>

Step(w) ==
    \/ register_requests(w)
    \/ save_account_read(w) \/ save_account_write(w) \/ save_account_refused(w)
    \/ generate_failed(w) \/ query_pub_key(w)

Event(w) ==
    \E r \in Reqs : proceed_process(w, r) \/ proceed_finish(w, r) \/ next_failed(w, r)

Next ==
    \/ \E w \in Loops : Step(w) \/ Event(w)
    \/ \E c \in Calls : client_call(c) \/ \E r \in Reqs : grpc_accept(c, r)
    \/ \E r \in Reqs, ok \in BOOLEAN : grpc_sent(r, ok)
    \/ crash

Spec == Init /\ [][Next]_vars

(* Threads go on, an event is given to some thread that waits for one, and  *)
(* gRPC connects a call to a waiting object and sends a response.           *)
Fairness ==
    /\ \A w \in Loops : WF_vars(Step(w))
    /\ WF_vars(\E w \in Loops : Event(w))
    /\ WF_vars(\E c \in Calls, r \in Reqs : grpc_accept(c, r))
    /\ WF_vars(\E r \in Reqs, ok \in BOOLEAN : grpc_sent(r, ok))

FairSpec == Spec /\ Fairness

-----------------------------------------------------------------------------

TypeOK ==
    /\ srq_st \in [Reqs -> {"none", "process", "finish"}]
    /\ method \in [Reqs -> Served \cup {None}]
    /\ call \in [Reqs -> Calls \cup {None}]
    /\ accepting \subseteq Reqs /\ sending \subseteq Reqs
    /\ srq_cq \subseteq Reqs \X BOOLEAN
    /\ pc \in [Loops -> {"register", "next", "write"} \cup Served]
    /\ cur \in [Loops -> Reqs \cup {None}]
    /\ regs \in [Loops -> 0..Len(Registered)]
    /\ DOMAIN uver = Loops /\ DOMAIN vers = Users /\ DOMAIN record = Store!Slots
    /\ DOMAIN resp = Calls
    /\ client \in [Calls -> {"new", "sent", "answered", "error"}]
    /\ raced \subseteq Users
    /\ crashes \in 0..MaxCrash

(* Where object r is known: in gRPC, in the queue, or with a thread.        *)
Holders(r) ==
    {<<"accepting", 0>> : x \in {r} \cap accepting}
    \cup {<<"sending", 0>> : x \in {r} \cap sending}
    \cup {<<"event", ok>> : ok \in {b \in BOOLEAN : <<r, b>> \in srq_cq}}
    \cup {<<"cur", w>> : w \in {v \in Loops : cur[v] = r}}

(* An object is known in one place only, and a deleted one in none: no two  *)
(* threads proceed with the same object, and no event comes for one that    *)
(* has deleted itself.                                                      *)
OneHolder ==
    \A r \in Reqs :
        IF srq_st[r] = "none" THEN Holders(r) = {} ELSE Cardinality(Holders(r)) <= 1

(* The state of an object tells which event is out for it: proceed() relies *)
(* on srq_st alone to know whether a call has come or a response has gone.  *)
StateTellsEvent ==
    \A r \in Reqs :
        /\ r \in accepting => srq_st[r] = "process" /\ call[r] = None
        /\ r \in sending => srq_st[r] = "finish" /\ resp[call[r]] # None
        /\ \A ok \in BOOLEAN : <<r, ok>> \in srq_cq =>
              (srq_st[r] = "finish" <=> resp[call[r]] # None)

(* Every method always has as many objects that wait for a call, or have    *)
(* one that waits for a thread, as threads have registered: the server does *)
(* not run out of objects to take calls, however calls, failed responses    *)
(* and threads interleave.                                                  *)
AlwaysAccepting ==
    \A i \in DOMAIN Registered :
        Cardinality({r \in Reqs : method[r] = Registered[i] /\ srq_st[r] = "process"})
            = Cardinality({w \in Loops : regs[w] >= i})

(* The life of request objects that delete themselves is sound, whichever   *)
(* threads get their events: typed, one holder, a state that tells the      *)
(* event, and always an object that waits for the next call.                *)
ObjectsSound == TypeOK /\ OneHolder /\ StateTellsEvent /\ AlwaysAccepting

(* Every version in a user's list has its record: the two are written       *)
(* together, across crashes.                                                *)
ListedStored ==
    \A u \in Users : \A i \in DOMAIN vers[u] :
        <<u, vers[u][i]>> \in Store!Slots /\ record[<<u, vers[u][i]>>] # Store!NoKey

(* Every record is in its user's list, unless two saves for that user       *)
(* overlapped: save_account reads, appends and writes without a lock, and   *)
(* of two at once the first one's version is lost from the list.            *)
StoredListed ==
    \A s \in Store!Slots :
        record[s] # Store!NoKey /\ s[1] \notin raced =>
            \E i \in DOMAIN vers[s[1]] : vers[s[1]][i] = s[2]

(* What save_account keeps in the database is consistent after crashes,     *)
(* refused batches and overlapping saves: lists and records agree.          *)
DbConsistent == ListedStored /\ StoredListed

(* The server implements KeyStore: each call is executed once, at one       *)
(* moment, and is answered with what was done then.                         *)
Implements == Store!Spec

(* Every call is answered or fails; each is made once, so that it suffices  *)
(* that again and again no call is under way.                               *)
CallsEnd == []<>(\A c \in Calls : client[c] # "sent")
=============================================================================
