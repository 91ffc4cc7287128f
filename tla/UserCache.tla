------------------------------ MODULE UserCache ------------------------------
(***************************************************************************)
(* UserLruCache over LruTable (crypto/user-cache.cpp, common/cpptype/       *)
(* lru-cache.cpp), the public keys that each UserCrypto object keeps        *)
(* (crypto/crypto-user.cpp) and the calls of Crypto that use them           *)
(* (crypto/crypto.cpp).  LruTable holds m_lock for one table operation at a *)
(* time and hands out objects that it may drop at once; the keys come from  *)
(* the key server (app/key-server/key-service.cpp), of which this module    *)
(* keeps what KeyStore promises: a call is executed at one moment.  A       *)
(* section under m_lock or usr_mtx is one step.  The asynchronous calls     *)
(* take the same steps on the thread that receives the answer; get_rsa_key  *)
(* is the only one whose result differs (reply_empty).                      *)
(***************************************************************************)
EXTENDS Naturals, Sequences, FiniteSets

CONSTANTS
    Threads,        \* threads that call Crypto
    Users,          \* uuids
    Versions,       \* key versions
    m_max_elm,      \* the size LruTable keeps to
    Stored,         \* the keys the server has at first
    MaxCalls,       \* bound on the number of calls
    None            \* no object, no key

(* An object that neither the table nor a thread refers to is deleted, so   *)
(* this many suffice.                                                       *)
Objs == 1..(m_max_elm + 1 + Cardinality(Threads))

ASSUME CacheAssumption ==
    /\ IsFiniteSet(Threads)
    /\ {m_max_elm, MaxCalls} \subseteq Nat
    /\ Stored \subseteq Users \X Versions
    /\ None \notin Users \cup Objs \cup (Users \X Versions)

VARIABLES
    m_hash,         \* the objects in the hash table
    m_lru,          \* the list, oldest first
    user,           \* user[o]: the uuid of object o
    rsa_pubkeys,    \* rsa_pubkeys[o][v]: the key object o keeps for version v
    server,         \* the keys the server has stored
    refused,        \* those it has answered with though its database refused them
    ordered,        \* the <<uuid, version>> with a key or a call that asked for one
    late,           \* generations given up by the caller that may still happen
    pc,             \* where each thread is
    call,           \* the call it executes
    obj,            \* the object it has from lookup or lookup_missed
    key,            \* the key in the answer of the server
    ret,            \* what its call returns
    known,          \* whether the server had the key when its call began
    calls,          \* number of calls so far
    cleaned         \* whether mod_cleanup was executed

tableVars == <<m_hash, m_lru>>
objVars == <<user, rsa_pubkeys>>
serverVars == <<server, refused, ordered, late>>
vars == <<tableVars, objVars, serverVars, pc, call, obj, key, ret, known, calls, cleaned>>

(* The key that the server made for a user and a version.                   *)
Key(u, v) == <<u, v>>
AllKeys == Users \X Versions

Listed == {m_lru[i] : i \in DOMAIN m_lru}
NoCall == [op |-> "none", uuid |-> None, ver |-> None]
NoKeys == [v \in Versions |-> None]
Nothing == [ok |-> FALSE, lost |-> FALSE, keys |-> {}]

-----------------------------------------------------------------------------

Init ==
    /\ m_hash = {} /\ m_lru = <<>>
    /\ user = [o \in Objs |-> None]
    /\ rsa_pubkeys = [o \in Objs |-> NoKeys]
    /\ server = Stored /\ refused = {} /\ ordered = Stored /\ late = {}
    /\ pc = [t \in Threads |-> "idle"]
    /\ call = [t \in Threads |-> NoCall]
    /\ obj = [t \in Threads |-> None]
    /\ key = [t \in Threads |-> None]
    /\ ret = [t \in Threads |-> Nothing]
    /\ known = [t \in Threads |-> FALSE]
    /\ calls = 0 /\ cleaned = FALSE

Begin(t, op, u, v, where) ==
    /\ pc[t] = "idle" /\ ~cleaned /\ calls < MaxCalls
    /\ calls' = calls + 1
    /\ call' = [call EXCEPT ![t] = [op |-> op, uuid |-> u, ver |-> v]]
    /\ known' = [known EXCEPT ![t] = <<u, v>> \in server]
    /\ pc' = [pc EXCEPT ![t] = where]
    /\ UNCHANGED <<tableVars, objVars, server, refused, late, obj, key, ret, cleaned>>

(* gen_rsa_key goes to the server first.  The callers ask for a version     *)
(* once: the server would replace the key, and put_public_key asserts.      *)
gen_rsa_key(t, u, v) ==
    /\ <<u, v>> \notin ordered
    /\ ordered' = ordered \cup {<<u, v>>}
    /\ Begin(t, "gen", u, v, "rpc")

(* The two forms of get_rsa_key.                                            *)
Queries == {"get", "get_async"}

(* get_rsa_key and get_public_keys ask the cache first.                     *)
get_rsa_key(t, u, v) ==
    \E op \in Queries : Begin(t, op, u, v, "lookup") /\ UNCHANGED ordered
get_public_keys(t, u) == Begin(t, "list", u, None, "lookup") /\ UNCHANGED ordered

(* The call returns; the thread's references are gone.                      *)
Return(t, ok, lost, keys) ==
    /\ ret' = [ret EXCEPT ![t] = [ok |-> ok, lost |-> lost, keys |-> keys]]
    /\ pc' = [pc EXCEPT ![t] = "returned"]
    /\ obj' = [obj EXCEPT ![t] = None]
    /\ key' = [key EXCEPT ![t] = None]

(* The caller has what was returned.                                        *)
caller_resumes(t) ==
    /\ pc[t] = "returned"
    /\ pc' = [pc EXCEPT ![t] = "idle"]
    /\ ret' = [ret EXCEPT ![t] = Nothing]
    /\ call' = [call EXCEPT ![t] = NoCall]
    /\ known' = [known EXCEPT ![t] = FALSE]
    /\ UNCHANGED <<tableVars, objVars, serverVars, obj, key, calls, cleaned>>

-----------------------------------------------------------------------------

(* What the thread does with the user object: it puts the server's key into *)
(* it, or looks for one there.                                              *)
UseUser(t) == IF key[t] # None THEN "put" ELSE "read"

(* Mutant: the first object of the chain, whoever's it is.                  *)
hits_any(t) == m_hash

Hits(t) == {o \in m_hash : user[o] = call[t].uuid}

(* LruTable::lookup, lines 192-199: an object of the table; its place in    *)
(* the list stays.                                                          *)
lookup_hit(t) ==
    /\ pc[t] = "lookup"
    /\ \E o \in Hits(t) : obj' = [obj EXCEPT ![t] = o]
    /\ pc' = [pc EXCEPT ![t] = UseUser(t)]
    /\ UNCHANGED <<tableVars, objVars, serverVars, call, key, ret, known, calls, cleaned>>

Unused == Objs \ (m_hash \cup {obj[t] : t \in Threads})

(* LruTable::lookup, lines 200-203: nothing found, and m_lock is released   *)
(* before lookup_missed allocates an object.                                *)
lookup_miss(t) ==
    /\ pc[t] = "lookup" /\ Hits(t) = {}
    /\ LET o == CHOOSE x \in Unused : TRUE
       IN  /\ obj' = [obj EXCEPT ![t] = o]
           /\ user' = [user EXCEPT ![o] = call[t].uuid]
           /\ rsa_pubkeys' = [rsa_pubkeys EXCEPT ![o] = NoKeys]
    /\ pc' = [pc EXCEPT ![t] = "insert"]
    /\ UNCHANGED <<tableVars, serverVars, call, key, ret, known, calls, cleaned>>

(* The list without its i-th object.                                        *)
Unlinked(list, i) == SubSeq(list, 1, i - 1) \o SubSeq(list, i + 1, Len(list))

(* ref_obj_nolock: o leaves its place and becomes the newest of the list.   *)
ref_obj_nolock(o) ==
    /\ \E i \in DOMAIN m_lru :
          m_lru[i] = o /\ m_lru' = Append(Unlinked(m_lru, i), o)
    /\ UNCHANGED m_hash

(* The oldest objects leave the list and the table until the rest fits.     *)
Evict(list, table) ==
    LET n == IF Cardinality(table) > m_max_elm THEN Cardinality(table) - m_max_elm ELSE 0
    IN  /\ m_lru' = SubSeq(list, n + 1, Len(list))
        /\ m_hash' = table \ {list[i] : i \in 1..n}

(* Mutant: the second look at the table is left out.                        *)
insert_blind(t) ==
    /\ pc[t] = "insert"
    /\ Evict(Append(m_lru, obj[t]), m_hash \cup {obj[t]})
    /\ pc' = [pc EXCEPT ![t] = UseUser(t)]
    /\ UNCHANGED <<objVars, serverVars, call, obj, key, ret, known, calls, cleaned>>

(* insert_key64: when another thread has inserted the user meanwhile, that  *)
(* object stays and becomes the newest; this thread goes on with its own.   *)
insert_key64(t) ==
    /\ pc[t] = "insert"
    /\ IF Hits(t) = {}
       THEN Evict(Append(m_lru, obj[t]), m_hash \cup {obj[t]})
       ELSE \E o \in Hits(t) : ref_obj_nolock(o)
    /\ pc' = [pc EXCEPT ![t] = UseUser(t)]
    /\ UNCHANGED <<objVars, serverVars, call, obj, key, ret, known, calls, cleaned>>

-----------------------------------------------------------------------------

(* UserCrypto::get_public_key has the version: get_rsa_key returns it.      *)
get_public_key_hit(t) ==
    /\ pc[t] = "read" /\ call[t].op \in Queries
    /\ rsa_pubkeys[obj[t]][call[t].ver] # None
    /\ Return(t, TRUE, FALSE, {rsa_pubkeys[obj[t]][call[t].ver]})
    /\ UNCHANGED <<tableVars, objVars, serverVars, call, known, calls, cleaned>>

(* It has not: get_rsa_key drops the object and asks the server.            *)
get_public_key_miss(t) ==
    /\ pc[t] = "read" /\ call[t].op \in Queries
    /\ rsa_pubkeys[obj[t]][call[t].ver] = None
    /\ obj' = [obj EXCEPT ![t] = None]
    /\ pc' = [pc EXCEPT ![t] = "rpc"]
    /\ UNCHANGED <<tableVars, objVars, serverVars, call, key, ret, known, calls, cleaned>>

(* get_all_pub_keys is true for every user, so get_public_keys returns what *)
(* the cache happens to have and never asks the server.                     *)
get_all_pub_keys(t) ==
    /\ pc[t] = "read" /\ call[t].op = "list"
    /\ Return(t, TRUE, FALSE, {rsa_pubkeys[obj[t]][v] : v \in Versions} \ {None})
    /\ UNCHANGED <<tableVars, objVars, serverVars, call, known, calls, cleaned>>

Asked(t) == Key(call[t].uuid, call[t].ver)

(* The server executes the call and sends this answer.                      *)
Serve(t, answer) ==
    /\ pc[t] = "rpc"
    /\ key' = [key EXCEPT ![t] = answer]
    /\ pc' = [pc EXCEPT ![t] = "reply"]
    /\ UNCHANGED <<tableVars, objVars, ordered, late, call, obj, ret, known, calls, cleaned>>

(* generate_key answers with the key it makes, and saves it unless the      *)
(* database refuses.                                                        *)
rpc_generate(t) ==
    /\ call[t].op = "gen" /\ Serve(t, Asked(t))
    /\ \/ server' = server \cup {Asked(t)} /\ UNCHANGED refused
       \/ refused' = refused \cup {Asked(t)} /\ UNCHANGED server

(* gen_rsa_kp fails: the answer is ok and has no key.                       *)
rpc_generate_failed(t) ==
    call[t].op = "gen" /\ Serve(t, None) /\ UNCHANGED <<server, refused>>

(* query_pub_key answers with the key that is stored, or without one.       *)
rpc_query(t) ==
    /\ call[t].op \in Queries
    /\ Serve(t, IF Asked(t) \in server THEN Asked(t) ELSE None)
    /\ UNCHANGED <<server, refused>>

(* The request or its answer is lost and the call has an error status:      *)
(* get_rsa_key fails, but gen_rsa_key returns ok without a key.             *)
rpc_error(t) ==
    /\ pc[t] \in {"rpc", "reply"}
    /\ Return(t, call[t].op = "gen", TRUE, {})
    /\ late' = IF pc[t] = "rpc" /\ call[t].op = "gen" THEN late \cup {Asked(t)} ELSE late
    /\ UNCHANGED <<tableVars, objVars, server, refused, ordered, call, known, calls, cleaned>>

(* A request that was thought lost is executed; nobody gets the answer.     *)
rpc_late(k) ==
    /\ k \in late
    /\ late' = late \ {k}
    /\ server' = server \cup {k}
    /\ UNCHANGED <<tableVars, objVars, refused, ordered, pc, call, obj, key, ret, known,
                   calls, cleaned>>

(* Mutant: the server is asked again.                                       *)
reply_retries(t) ==
    /\ pc[t] = "reply" /\ key[t] = None
    /\ pc' = [pc EXCEPT ![t] = "rpc"]
    /\ UNCHANGED <<tableVars, objVars, serverVars, call, obj, key, ret, known, calls, cleaned>>

(* An answer without a key: get_rsa_key fails, but its asynchronous form    *)
(* and gen_rsa_key return ok.                                               *)
reply_empty(t) ==
    /\ pc[t] = "reply" /\ key[t] = None
    /\ Return(t, call[t].op # "get", FALSE, {})
    /\ UNCHANGED <<tableVars, objVars, serverVars, call, known, calls, cleaned>>

(* An answer with a key: the user is looked up (again) to keep it.          *)
reply_key(t) ==
    /\ pc[t] = "reply" /\ key[t] # None
    /\ pc' = [pc EXCEPT ![t] = "lookup"]
    /\ UNCHANGED <<tableVars, objVars, serverVars, call, obj, key, ret, known, calls, cleaned>>

(* put_public_key: a key that is there already is left, and asserted to be  *)
(* the same.                                                                *)
put_public_key(t) ==
    /\ pc[t] = "put"
    /\ rsa_pubkeys' = [rsa_pubkeys EXCEPT ![obj[t]][call[t].ver] =
                                      IF @ = None THEN key[t] ELSE @]
    /\ Return(t, TRUE, FALSE, {key[t]})
    /\ UNCHANGED <<tableVars, user, serverVars, call, known, calls, cleaned>>

(* mod_cleanup, when no thread calls any more: LruTable::clear takes the    *)
(* objects of the list out of the table.                                    *)
mod_cleanup ==
    /\ ~cleaned /\ \A t \in Threads : pc[t] = "idle"
    /\ cleaned' = TRUE
    /\ m_hash' = m_hash \ Listed
    /\ m_lru' = <<>>
    /\ UNCHANGED <<objVars, serverVars, pc, call, obj, key, ret, known, calls>>

Step(t) ==
    \/ lookup_hit(t) \/ lookup_miss(t) \/ insert_key64(t)
    \/ get_public_key_hit(t) \/ get_public_key_miss(t) \/ get_all_pub_keys(t)
    \/ rpc_generate(t) \/ rpc_generate_failed(t) \/ rpc_query(t) \/ rpc_error(t)
    \/ reply_empty(t) \/ reply_key(t)
    \/ put_public_key(t) \/ caller_resumes(t)

Next ==
    \/ \E t \in Threads :
          \/ \E u \in Users :
                \/ \E v \in Versions : gen_rsa_key(t, u, v) \/ get_rsa_key(t, u, v)
                \/ get_public_keys(t, u)
          \/ Step(t)
    \/ \E k \in late : rpc_late(k)
    \/ mod_cleanup

Spec == Init /\ [][Next]_vars

(* A thread inside a call goes on; a remote call is answered or fails.      *)
Fairness == \A t \in Threads : WF_vars(Step(t))

FairSpec == Spec /\ Fairness

-----------------------------------------------------------------------------

TypeOK ==
    /\ m_hash \subseteq Objs
    /\ m_lru \in Seq(Objs)
    /\ user \in [Objs -> Users \cup {None}]
    /\ rsa_pubkeys \in [Objs -> [Versions -> AllKeys \cup {None}]]
    /\ server \cup refused \cup ordered \cup late \subseteq AllKeys
    /\ pc \in [Threads -> {"idle", "lookup", "insert", "read", "rpc", "reply", "put",
                        "returned"}]
    /\ call \in [Threads -> [op : {"none", "gen", "list"} \cup Queries,
                             uuid : Users \cup {None}, ver : Versions \cup {None}]]
    /\ obj \in [Threads -> Objs \cup {None}]
    /\ key \in [Threads -> AllKeys \cup {None}]
    /\ ret \in [Threads -> [ok : BOOLEAN, lost : BOOLEAN, keys : SUBSET AllKeys]]
    /\ known \in [Threads -> BOOLEAN]
    /\ calls \in 0..MaxCalls /\ cleaned \in BOOLEAN

(* The hash table and the list hold the same objects, each once: what the   *)
(* verify in the eviction loop and in clear rely on.                        *)
TableIsList ==
    /\ m_hash = Listed /\ (cleaned => m_hash = {})
    /\ \A i, j \in DOMAIN m_lru : m_lru[i] = m_lru[j] => i = j

(* No user has two objects in the table, though two threads may miss the    *)
(* same user and both insert.                                               *)
OneObjectPerUser == \A o, p \in m_hash : user[o] = user[p] => o = p

(* The table never exceeds its size outside m_lock.                         *)
SizeKept == Cardinality(m_hash) <= m_max_elm

(* LruTable is sound whenever m_lock is free, though lookup releases it     *)
(* between a miss and the insertion: typed, list and table alike, one       *)
(* object per user and no more than m_max_elm.                              *)
CacheSound == TypeOK /\ TableIsList /\ OneObjectPerUser /\ SizeKept

(* The object a thread works on is that of the user it was asked about,     *)
(* whether it is still in the table, was evicted or never got in.           *)
RightUser == \A t \in Threads : obj[t] # None => user[obj[t]] = call[t].uuid

(* The keys the server made and answered with.                              *)
Made == server \cup refused

(* Whatever object keeps a key for a version, the server made it for that   *)
(* user and version, and has it unless its database refused it.  So the     *)
(* assert of put_public_key holds, also for objects that two threads filled *)
(* at the same time.                                                        *)
Coherent ==
    /\ \A o \in Objs, v \in Versions :
          rsa_pubkeys[o][v] # None =>
              rsa_pubkeys[o][v] = Key(user[o], v) /\ rsa_pubkeys[o][v] \in Made
    /\ \A t \in Threads :
          pc[t] = "put" => rsa_pubkeys[obj[t]][call[t].ver] \in {None, key[t]}

(* A call returns only keys the server made for that user, and get_rsa_key  *)
(* and gen_rsa_key only the one asked for.  get_rsa_key of a key that was   *)
(* stored when it began returns that key unless the remote call failed,     *)
(* whatever was evicted meanwhile; it is ok with every key it returns, and  *)
(* its synchronous form only with one.                                      *)
Answer(t) ==
    /\ \A k \in ret[t].keys : k \in Made /\ k[1] = call[t].uuid
    /\ call[t].op # "list" => ret[t].keys \subseteq {Asked(t)}
    /\ call[t].op \in Queries /\ ~ret[t].lost =>
          /\ known[t] => ret[t].keys = {Asked(t)}
          /\ ret[t].keys # {} => ret[t].ok
          /\ call[t].op = "get" /\ ret[t].ok => ret[t].keys # {}

Answers == \A t \in Threads : pc[t] = "returned" => Answer(t)

(* Callers of Crypto get the keys of the user they asked about, and those   *)
(* the server made, from objects that may be evicted, replaced or filled by *)
(* two threads meanwhile, though the server may fail to make or to save a   *)
(* key and a call may fail and be executed all the same.                    *)
AnswersSound == RightUser /\ Coherent /\ Answers

(* Every call returns.                                                      *)
CallsReturn == \A t \in Threads : pc[t] # "idle" ~> pc[t] = "idle"
=============================================================================
