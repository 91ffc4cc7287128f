--------------------------- MODULE UserCache_proofs ---------------------------
(***************************************************************************)
(* Proofs about UserCache, for any threads, users, versions, size of the    *)
(* table and number of calls.                                               *)
(***************************************************************************)
EXTENDS UserCache, FiniteSetTheorems, SequenceTheorems, TLAPS

-----------------------------------------------------------------------------
(* Facts about sequences.                                                   *)

(* Indexing a concatenation.                                                *)
LEMMA ConcatNth ==
    ASSUME NEW S, NEW a \in Seq(S), NEW b \in Seq(S), NEW k \in 1..(Len(a) + Len(b))
    PROVE  (a \o b)[k] = IF k <= Len(a) THEN a[k] ELSE b[k - Len(a)]
OBVIOUS

(* The two ends of a sequence that remain when its i-th element goes.       *)
LEMMA FirstPart ==
    ASSUME NEW S, NEW list \in Seq(S), NEW i \in 1..Len(list)
    PROVE  /\ SubSeq(list, 1, i - 1) \in Seq(S)
           /\ Len(SubSeq(list, 1, i - 1)) = i - 1
           /\ \A k \in 1..(i - 1) : SubSeq(list, 1, i - 1)[k] = list[k]
OBVIOUS

LEMMA LastPart ==
    ASSUME NEW S, NEW list \in Seq(S), NEW i \in 1..Len(list)
    PROVE  /\ SubSeq(list, i + 1, Len(list)) \in Seq(S)
           /\ Len(SubSeq(list, i + 1, Len(list))) = Len(list) - i
           /\ \A k \in 1..(Len(list) - i) :
                 SubSeq(list, i + 1, Len(list))[k] = list[i + k]
<1>1. SubSeq(list, i + 1, Len(list)) \in Seq(S)
  OBVIOUS
<1>2. Len(SubSeq(list, i + 1, Len(list))) = Len(list) - i
  OBVIOUS
<1>3. \A k \in 1..(Len(list) - i) : SubSeq(list, i + 1, Len(list))[k] = list[i + k]
  OBVIOUS
<1>4. QED
  BY <1>1, <1>2, <1>3

(* Joined, they are the sequence without that element.                      *)
LEMMA JoinedNth ==
    ASSUME NEW S, NEW list \in Seq(S), NEW i \in 1..Len(list),
           NEW a \in Seq(S), NEW b \in Seq(S),
           Len(a) = i - 1, \A k \in 1..(i - 1) : a[k] = list[k],
           Len(b) = Len(list) - i, \A k \in 1..(Len(list) - i) : b[k] = list[i + k],
           NEW k \in 1..(Len(list) - 1)
    PROVE  (a \o b)[k] = IF k < i THEN list[k] ELSE list[k + 1]
<1>1. (a \o b)[k] = IF k <= Len(a) THEN a[k] ELSE b[k - Len(a)]
  BY ConcatNth
<1>2. CASE k < i
  BY <1>1, <1>2
<1>3. CASE k >= i
  <2>1. k - (i - 1) \in 1..(Len(list) - i)
    BY <1>3
  <2>2. (a \o b)[k] = b[k - (i - 1)]
    BY <1>1, <1>3
  <2>3. QED
    BY <1>3, <2>1, <2>2
<1>4. QED
  BY <1>2, <1>3

LEMMA WithoutNth ==
    ASSUME NEW S, NEW list \in Seq(S), NEW i \in 1..Len(list)
    PROVE  /\ Unlinked(list, i) \in Seq(S)
           /\ Len(Unlinked(list, i)) = Len(list) - 1
           /\ \A k \in 1..(Len(list) - 1) :
                 Unlinked(list, i)[k] = IF k < i THEN list[k] ELSE list[k + 1]
<1> DEFINE a == SubSeq(list, 1, i - 1)
           b == SubSeq(list, i + 1, Len(list))
<1>1. a \in Seq(S) /\ Len(a) = i - 1 /\ \A k \in 1..(i - 1) : a[k] = list[k]
  BY FirstPart
<1>2. /\ b \in Seq(S) /\ Len(b) = Len(list) - i
      /\ \A k \in 1..(Len(list) - i) : b[k] = list[i + k]
  BY LastPart
<1>3. Unlinked(list, i) = a \o b
  BY DEF Unlinked
<1> HIDE DEF a, b
<1>4. a \o b \in Seq(S) /\ Len(a \o b) = Len(a) + Len(b)
  BY <1>1, <1>2, ConcatProperties
<1>5. Len(a \o b) = Len(list) - 1
  BY <1>1, <1>2, <1>4
<1>6. ASSUME NEW k \in 1..(Len(list) - 1)
      PROVE  (a \o b)[k] = IF k < i THEN list[k] ELSE list[k + 1]
  BY <1>1, <1>2, JoinedNth
<1>7. QED
  BY <1>3, <1>4, <1>5, <1>6

-----------------------------------------------------------------------------
USE CacheAssumption DEF Queries

(* What a thread holds where: an object from lookup to its use, a key from  *)
(* the server's answer to put_public_key, and the call's arguments.         *)
Holds(t) ==
    /\ obj[t] # None <=> pc[t] \in {"insert", "read", "put"}
    /\ key[t] # None => pc[t] \in {"reply", "lookup", "insert", "put"}
    /\ pc[t] = "put" => key[t] # None
    /\ pc[t] \in {"idle", "returned", "read", "rpc"} => key[t] = None

CallArgs(t) ==
    /\ pc[t] # "idle" => call[t].op # "none" /\ call[t].uuid \in Users
    /\ call[t].op \in {"gen"} \cup Queries =>
          call[t].uuid \in Users /\ call[t].ver \in Versions
    /\ pc[t] = "read" => call[t].op \in {"list"} \cup Queries
    /\ pc[t] \in {"lookup", "insert"} /\ call[t].op = "gen" => key[t] # None
    /\ pc[t] \in {"rpc", "reply", "put"} \/ key[t] # None =>
          call[t].op \in {"gen"} \cup Queries

(* An object that lookup_missed made is the thread's own until it is        *)
(* inserted.                                                                *)
Fresh(t) ==
    pc[t] = "insert" =>
        obj[t] \notin m_hash /\ \A s \in Threads \ {t} : obj[s] # obj[t]

(* The key a thread carries is one the server made, and get_rsa_key has one *)
(* if the server had it when the call began.                                *)
Carried(t) ==
    /\ key[t] # None => key[t] = Asked(t) /\ key[t] \in Made
    /\ known[t] => <<call[t].uuid, call[t].ver>> \in server
    /\ pc[t] = "reply" /\ known[t] /\ call[t].op \in Queries => key[t] # None

(* The keys that objects keep are those the server made.                    *)
KeysKept ==
    \A o \in Objs, v \in Versions :
        rsa_pubkeys[o][v] # None =>
            rsa_pubkeys[o][v] = Key(user[o], v) /\ rsa_pubkeys[o][v] \in Made

Quiet == cleaned => \A t \in Threads : pc[t] = "idle"

Control == Quiet /\ \A t \in Threads : Holds(t) /\ CallArgs(t)

IInv ==
    /\ CacheSound
    /\ Control
    /\ RightUser
    /\ \A t \in Threads : Fresh(t)
    /\ KeysKept
    /\ \A t \in Threads : Carried(t)
    /\ Answers
-----------------------------------------------------------------------------
(* Facts about the objects and the list.                                    *)

LEMMA ObjsFinite ==
    /\ IsFiniteSet(Objs)
    /\ Cardinality(Objs) = m_max_elm + 1 + Cardinality(Threads)
    /\ Cardinality(Threads) \in Nat
<1>1. Cardinality(Threads) \in Nat /\ m_max_elm \in Nat
  BY FS_CardinalityType
<1>2. ASSUME NEW n \in Nat PROVE IsFiniteSet(1..n) /\ Cardinality(1..n) = n
  <2>1. 1 \in Int /\ n \in Int
    OBVIOUS
  <2>2. IsFiniteSet(1..n) /\ Cardinality(1..n) = IF 1 > n THEN 0 ELSE n - 1 + 1
    BY <2>1, FS_Interval, Zenon
  <2>3. QED
    BY <2>2
<1>3. QED
  BY <1>1, <1>2 DEF Objs

(* There is always an object for lookup_missed.                             *)
LEMMA UnusedExists ==
    ASSUME TypeOK, SizeKept
    PROVE  Unused # {}
<1> DEFINE Held == {obj[t] : t \in Threads}
<1>1. obj \in Surjection(Threads, Held)
  BY DEF Surjection, TypeOK
<1>2. IsFiniteSet(Held) /\ Cardinality(Held) <= Cardinality(Threads)
  BY <1>1, FS_Surjection
<1>3. IsFiniteSet(m_hash)
  BY ObjsFinite, FS_Subset DEF TypeOK
<1> HIDE DEF Held
<1>4. /\ IsFiniteSet(m_hash \cup Held)
      /\ Cardinality(m_hash \cup Held) =
            Cardinality(m_hash) + Cardinality(Held) - Cardinality(m_hash \cap Held)
  BY <1>2, <1>3, FS_Union
<1>5. /\ Cardinality(Held) \in Nat /\ Cardinality(m_hash) \in Nat
      /\ Cardinality(m_hash \cap Held) \in Nat
  BY <1>2, <1>3, FS_CardinalityType, FS_Intersection
<1>6. Cardinality(m_hash \cup Held) < Cardinality(Objs)
  BY <1>2, <1>4, <1>5, ObjsFinite DEF SizeKept
<1>7. ASSUME Objs \subseteq m_hash \cup Held PROVE FALSE
  BY <1>4, <1>6, <1>7, FS_Subset, FS_CardinalityType, ObjsFinite
<1>8. QED
  BY <1>7 DEF Unused, Held

Distinct(list) == \A i, j \in DOMAIN list : list[i] = list[j] => i = j
InList(list) == {list[i] : i \in DOMAIN list}

(* Unlinking takes one object out of a list that has it once.               *)
LEMMA UnlinkedFacts ==
    ASSUME NEW list \in Seq(Objs), Distinct(list), NEW i \in DOMAIN list
    PROVE  /\ Unlinked(list, i) \in Seq(Objs)
           /\ Distinct(Unlinked(list, i))
           /\ InList(Unlinked(list, i)) = InList(list) \ {list[i]}
<1> DEFINE n == Len(list)
           u == Unlinked(list, i)
<1>1. i \in 1..n /\ n \in Nat /\ \A k \in 1..n : list[k] \in Objs
  BY LenProperties, ElementOfSeq
<1>4. /\ u \in Seq(Objs) /\ Len(u) = n - 1
      /\ \A k \in 1..(n - 1) : u[k] = IF k < i THEN list[k] ELSE list[k + 1]
  BY <1>1, WithoutNth
<1>5. DOMAIN u = 1..(n - 1) /\ DOMAIN list = 1..n
  BY <1>4, LenProperties
<1> HIDE DEF u
<1>6. Distinct(u)
  BY <1>1, <1>4, <1>5, SMTT(60) DEF Distinct
<1>7. InList(u) \subseteq InList(list) \ {list[i]}
  BY <1>1, <1>4, <1>5 DEF Distinct, InList
<1>8. ASSUME NEW x \in InList(list) \ {list[i]} PROVE x \in InList(u)
  <2>1. PICK k \in 1..n : x = list[k]
    BY <1>5 DEF InList
  <2>2. k # i
    BY <1>8, <2>1
  <2>3. CASE k < i
    BY <1>1, <1>4, <1>5, <2>1, <2>3 DEF InList
  <2>4. CASE k > i
    <3>1. k - 1 \in 1..(n - 1) /\ u[k - 1] = list[k]
      BY <1>1, <1>4, <2>4
    <3>2. QED
      BY <1>5, <2>1, <3>1 DEF InList
  <2>5. QED
    BY <1>1, <2>2, <2>3, <2>4
<1>9. QED
  BY <1>4, <1>6, <1>7, <1>8 DEF u

(* An object that is not in the list is appended to it.                     *)
LEMMA AppendFacts ==
    ASSUME NEW list \in Seq(Objs), Distinct(list), NEW o \in Objs, o \notin InList(list)
    PROVE  /\ Append(list, o) \in Seq(Objs)
           /\ Distinct(Append(list, o))
           /\ InList(Append(list, o)) = InList(list) \cup {o}
<1> DEFINE n == Len(list)
           u == Append(list, o)
<1>1. /\ u \in Seq(Objs) /\ Len(u) = n + 1 /\ n \in Nat
      /\ \A k \in 1..n : u[k] = list[k]
      /\ u[n + 1] = o
  BY AppendProperties, LenProperties
<1>2. DOMAIN u = 1..(n + 1) /\ DOMAIN list = 1..n
  BY <1>1, LenProperties
<1> HIDE DEF u
<1>3. \A k \in 1..n : list[k] # o
  BY <1>2 DEF InList
<1>4. Distinct(u)
  BY <1>1, <1>2, <1>3 DEF Distinct
<1>5. InList(u) \subseteq InList(list) \cup {o}
  BY <1>1, <1>2 DEF InList
<1>6. InList(list) \cup {o} \subseteq InList(u)
  <2>1. o \in InList(u)
    BY <1>1, <1>2 DEF InList
  <2>2. ASSUME NEW x \in InList(list) PROVE x \in InList(u)
    BY <1>1, <1>2 DEF InList
  <2>3. QED
    BY <2>1, <2>2
<1>7. QED
  BY <1>1, <1>4, <1>5, <1>6 DEF u

(* Taking off the front of a list of distinct objects.                      *)
LEMMA FrontFacts ==
    ASSUME NEW list \in Seq(Objs), Distinct(list), list # <<>>
    PROVE  /\ SubSeq(list, 2, Len(list)) \in Seq(Objs)
           /\ Distinct(SubSeq(list, 2, Len(list)))
           /\ InList(SubSeq(list, 2, Len(list))) = InList(list) \ {list[1]}
<1>1. 1 \in DOMAIN list /\ Len(list) \in Nat
  BY EmptySeq, LenProperties
<1>2. Unlinked(list, 1) = SubSeq(list, 2, Len(list))
  <2>1. SubSeq(list, 1, 0) = <<>>
    BY SubSeqEmpty
  <2>2. SubSeq(list, 2, Len(list)) \in Seq(Objs)
    BY <1>1, SubSeqProperties, ElementOfSeq
  <2>3. QED
    BY <2>1, <2>2, ConcatEmptySeq DEF Unlinked
<1>3. QED
  BY <1>1, <1>2, UnlinkedFacts

-----------------------------------------------------------------------------
(* The table.                                                               *)

TableOK(table, list) ==
    /\ list \in Seq(Objs) /\ Distinct(list)
    /\ table = InList(list)
    /\ table \subseteq Objs
    /\ Cardinality(table) <= m_max_elm

(* The section of insert_key64 that adds an object and evicts: one object   *)
(* goes at most, the oldest, and the table keeps to its size.               *)
LEMMA EvictKeeps ==
    ASSUME TableOK(m_hash, m_lru), NEW o \in Objs \ m_hash,
           Evict(Append(m_lru, o), m_hash \cup {o})
    PROVE  TableOK(m_hash', m_lru') /\ m_hash' \subseteq m_hash \cup {o}
<1> DEFINE list == Append(m_lru, o)
           table == m_hash \cup {o}
           n == IF Cardinality(table) > m_max_elm THEN Cardinality(table) - m_max_elm ELSE 0
<1>1. list \in Seq(Objs) /\ Distinct(list) /\ InList(list) = table
  BY AppendFacts DEF TableOK
<1>2. IsFiniteSet(m_hash) /\ Cardinality(m_hash) \in Nat
  BY ObjsFinite, FS_Subset, FS_CardinalityType DEF TableOK
<1>3. IsFiniteSet(table) /\ Cardinality(table) = Cardinality(m_hash) + 1
  BY <1>2, FS_AddElement
<1>4. m_lru' = SubSeq(list, n + 1, Len(list)) /\ m_hash' = table \ {list[i] : i \in 1..n}
  BY DEF Evict
<1>5. list # <<>> /\ Len(list) \in Nat
  BY AppendProperties, LenProperties DEF TableOK
<1>6. table \subseteq Objs
  BY DEF TableOK
<1>7. m_max_elm \in Nat /\ Cardinality(m_hash) <= m_max_elm
  BY DEF TableOK
<1> HIDE DEF list, table
<1>8. CASE Cardinality(table) <= m_max_elm
  <2>1. n = 0
    BY <1>2, <1>3, <1>7, <1>8
  <2>2. m_lru' = list
    BY <1>1, <1>4, <1>5, <2>1, SubSeqFull
  <2>3. m_hash' = table
    BY <1>4, <2>1
  <2>4. QED
    BY <1>1, <1>6, <1>8, <2>2, <2>3 DEF TableOK, table
<1>9. CASE Cardinality(table) > m_max_elm
  <2>1. n = 1
    BY <1>2, <1>3, <1>7, <1>9
  <2>2. {list[i] : i \in 1..1} = {list[1]}
    OBVIOUS
  <2>3. m_lru' = SubSeq(list, 2, Len(list)) /\ m_hash' = table \ {list[1]}
    BY <1>4, <2>1, <2>2
  <2>4. m_lru' \in Seq(Objs) /\ Distinct(m_lru') /\ InList(m_lru') = InList(list) \ {list[1]}
    BY <1>1, <1>5, <2>3, FrontFacts
  <2>5. list[1] \in table
    BY <1>1, <1>5, EmptySeq, LenProperties DEF InList
  <2>6. Cardinality(m_hash') = Cardinality(m_hash)
    <3>1. Cardinality(table \ {list[1]}) = Cardinality(table) - 1
      BY <1>3, <2>5, FS_RemoveElement
    <3>2. QED
      BY <1>2, <1>3, <2>3, <3>1
  <2>7. QED
    BY <1>1, <1>6, <1>7, <2>3, <2>4, <2>6 DEF TableOK, table
<1>10. QED
  BY <1>2, <1>3, <1>7, <1>8, <1>9

(* The section that only moves an object to the end of the list.            *)
LEMMA RefKeeps ==
    ASSUME TableOK(m_hash, m_lru), NEW o, ref_obj_nolock(o)
    PROVE  TableOK(m_hash', m_lru') /\ m_hash' = m_hash
<1>1. PICK i \in DOMAIN m_lru : m_lru[i] = o /\ m_lru' = Append(Unlinked(m_lru, i), o)
  BY DEF ref_obj_nolock
<1>2. m_hash' = m_hash
  BY DEF ref_obj_nolock
<1>3. o \in m_hash /\ o \in Objs
  BY <1>1 DEF TableOK, InList
<1>4. /\ Unlinked(m_lru, i) \in Seq(Objs) /\ Distinct(Unlinked(m_lru, i))
      /\ InList(Unlinked(m_lru, i)) = m_hash \ {o}
  BY <1>1, UnlinkedFacts DEF TableOK
<1>5. m_lru' \in Seq(Objs) /\ Distinct(m_lru') /\ InList(m_lru') = (m_hash \ {o}) \cup {o}
  BY <1>1, <1>3, <1>4, AppendFacts
<1>6. QED
  BY <1>2, <1>3, <1>5 DEF TableOK

(* LruTable::clear.                                                         *)
LEMMA EmptyTableOK == TableOK({}, <<>>)
<1>1. InList(<<>>) = {} /\ Distinct(<<>>)
  BY DEF InList, Distinct
<1>2. Cardinality({}) = 0
  BY FS_EmptySet
<1>3. QED
  BY <1>1, <1>2 DEF TableOK

LEMMA TableForms ==
    ASSUME TypeOK, TableIsList, SizeKept
    PROVE  TableOK(m_hash, m_lru)
BY DEF TypeOK, TableIsList, SizeKept, TableOK, InList, Distinct, Listed

TableParts == TableOK(m_hash, m_lru) /\ (cleaned => m_hash = {})

(* Every step leaves the table in order.                                    *)
LEMMA TableStep ==
    ASSUME IInv, Next
    PROVE  TableParts'
<1>1. TableParts
  BY TableForms DEF IInv, CacheSound, TableParts, TableIsList
<1>2. CASE UNCHANGED <<tableVars, cleaned>>
  BY <1>1, <1>2 DEF TableParts, tableVars, TableOK, InList, Distinct
<1>3. ASSUME NEW t \in Threads, insert_key64(t) PROVE TableParts'
  <2>1. pc[t] = "insert" /\ cleaned' = cleaned /\ ~cleaned
    BY <1>3 DEF insert_key64, IInv, Control, Quiet
  <2>2. obj[t] \in Objs \ m_hash
    BY <2>1 DEF IInv, Control, Holds, Fresh, CacheSound, TypeOK
  <2>3. CASE Hits(t) = {}
    <3>1. Evict(Append(m_lru, obj[t]), m_hash \cup {obj[t]})
      BY <1>3, <2>3 DEF insert_key64
    <3>2. QED
      BY <1>1, <2>1, <2>2, <3>1, EvictKeeps DEF TableParts
  <2>4. CASE Hits(t) # {}
    <3>1. PICK o : ref_obj_nolock(o)
      BY <1>3, <2>4 DEF insert_key64
    <3>2. QED
      BY <1>1, <2>1, <3>1, RefKeeps DEF TableParts
  <2>5. QED
    BY <2>3, <2>4
<1>4. CASE mod_cleanup
  <2>1. m_hash' = {} /\ m_lru' = <<>>
    BY <1>4 DEF mod_cleanup, IInv, CacheSound, TableIsList
  <2>2. QED
    BY <2>1, EmptyTableOK DEF TableParts
<1>5. ASSUME NEW t \in Threads, ~insert_key64(t), Step(t)
      PROVE  UNCHANGED <<tableVars, cleaned>>
  BY <1>5 DEF Step, lookup_hit, lookup_miss, get_public_key_hit, get_public_key_miss,
     get_all_pub_keys, rpc_generate, rpc_generate_failed, rpc_query, Serve, rpc_error,
     reply_empty, reply_key, put_public_key, caller_resumes
<1>6. ASSUME NEW t \in Threads, NEW u \in Users, NEW v \in Versions,
             gen_rsa_key(t, u, v) \/ get_rsa_key(t, u, v)
      PROVE  UNCHANGED <<tableVars, cleaned>>
  BY <1>6 DEF gen_rsa_key, get_rsa_key, Begin
<1>7. ASSUME NEW t \in Threads, NEW u \in Users, get_public_keys(t, u)
      PROVE  UNCHANGED <<tableVars, cleaned>>
  BY <1>7 DEF get_public_keys, Begin
<1>8. ASSUME NEW k \in late, rpc_late(k) PROVE UNCHANGED <<tableVars, cleaned>>
  BY <1>8 DEF rpc_late
<1>9. QED
  BY <1>2, <1>3, <1>4, <1>5, <1>6, <1>7, <1>8 DEF Next

(* What the server does with a call: it makes a key or none, may save it,   *)
(* and answers a query with what it has saved.                              *)
Served(t) ==
    /\ \E answer \in {None, Asked(t)} :
          /\ Serve(t, answer)
          /\ answer # None => answer \in Made'
          /\ call[t].op \in Queries /\ Asked(t) \in server => answer # None
    /\ call[t].op \in {"gen"} \cup Queries
    /\ server \subseteq server' /\ server' \subseteq server \cup {Asked(t)}
    /\ refused \subseteq refused' /\ refused' \subseteq refused \cup {Asked(t)}

LEMMA ServeFacts ==
    ASSUME TypeOK, Control, NEW t \in Threads,
           rpc_generate(t) \/ rpc_generate_failed(t) \/ rpc_query(t)
    PROVE  Served(t)
<1>1. /\ pc[t] = "rpc" /\ call[t].op \in {"gen"} \cup Queries
      /\ call[t].uuid \in Users /\ call[t].ver \in Versions
  BY DEF rpc_generate, rpc_generate_failed, rpc_query, Serve, Control, CallArgs
<1>2. Asked(t) # None
  BY <1>1 DEF Asked, Key
<1>3. CASE rpc_generate(t)
  BY <1>1, <1>2, <1>3 DEF rpc_generate, Served, Made
<1>4. CASE rpc_generate_failed(t)
  BY <1>1, <1>2, <1>4 DEF rpc_generate_failed, Served, Made
<1>5. CASE rpc_query(t)
  BY <1>1, <1>2, <1>5 DEF rpc_query, Served, Made
<1>6. QED
  BY <1>3, <1>4, <1>5

(* What lookup_missed does, with the object it chose.                       *)
LEMMA MissFacts ==
    ASSUME TypeOK, SizeKept, NEW t \in Threads, lookup_miss(t)
    PROVE  \E o \in Unused :
              /\ obj' = [obj EXCEPT ![t] = o]
              /\ user' = [user EXCEPT ![o] = call[t].uuid]
              /\ rsa_pubkeys' = [rsa_pubkeys EXCEPT ![o] = NoKeys]
<1> DEFINE o == CHOOSE x \in Unused : TRUE
<1>1. o \in Unused
  BY UnusedExists
<1>2. /\ obj' = [obj EXCEPT ![t] = o]
      /\ user' = [user EXCEPT ![o] = call[t].uuid]
      /\ rsa_pubkeys' = [rsa_pubkeys EXCEPT ![o] = NoKeys]
  BY DEF lookup_miss
<1> HIDE DEF o
<1>3. QED
  BY <1>1, <1>2

(* The three calls begin alike.                                             *)
LEMMA BeginFacts ==
    ASSUME NEW t \in Threads, NEW u \in Users,
           \/ \E v \in Versions : gen_rsa_key(t, u, v) \/ get_rsa_key(t, u, v)
           \/ get_public_keys(t, u)
    PROVE  \E op \in {"gen", "get", "get_async", "list"}, v \in Versions \cup {None} :
              /\ Begin(t, op, u, v, IF op = "gen" THEN "rpc" ELSE "lookup")
              /\ op # "list" => v \in Versions
              /\ ordered' \subseteq ordered \cup AllKeys
<1> DEFINE P(op, v) == /\ Begin(t, op, u, v, IF op = "gen" THEN "rpc" ELSE "lookup")
                       /\ op # "list" => v \in Versions
                       /\ ordered' \subseteq ordered \cup AllKeys
<1>1. ASSUME NEW v \in Versions, gen_rsa_key(t, u, v) PROVE P("gen", v)
  BY <1>1 DEF gen_rsa_key, AllKeys
<1>2. ASSUME NEW v \in Versions, get_rsa_key(t, u, v) PROVE P("get", v) \/ P("get_async", v)
  BY <1>2 DEF get_rsa_key
<1>3. ASSUME get_public_keys(t, u) PROVE P("list", None)
  BY <1>3 DEF get_public_keys
<1> HIDE DEF P
<1>4. \E op \in {"gen", "get", "get_async", "list"}, v \in Versions \cup {None} : P(op, v)
  BY <1>1, <1>2, <1>3
<1>5. QED
  BY <1>4 DEF P

(* Every step keeps the types.                                              *)
LEMMA StepType ==
    ASSUME IInv, Next
    PROVE  TypeOK'
<1>1. TypeOK /\ SizeKept /\ Control
  BY DEF IInv, CacheSound
<1>2. m_hash' \subseteq Objs /\ m_lru' \in Seq(Objs)
  BY TableStep DEF TableParts, TableOK
<1> USE DEF TypeOK
<1>3. ASSUME NEW t \in Threads, NEW u \in Users, NEW op \in {"gen", "get", "get_async", "list"},
             NEW v \in Versions \cup {None}, op # "list" => v \in Versions,
             ordered' \subseteq ordered \cup AllKeys,
             Begin(t, op, u, v, IF op = "gen" THEN "rpc" ELSE "lookup")
      PROVE  TypeOK'
  BY <1>1, <1>2, <1>3 DEF Begin, tableVars, objVars, AllKeys
<1>4. ASSUME NEW t \in Threads, lookup_hit(t) PROVE TypeOK'
  BY <1>1, <1>2, <1>4 DEF lookup_hit, tableVars, objVars, serverVars, Hits, UseUser
<1>5. ASSUME NEW t \in Threads, lookup_miss(t) PROVE TypeOK'
  <2>1. PICK o \in Unused :
           /\ obj' = [obj EXCEPT ![t] = o]
           /\ user' = [user EXCEPT ![o] = call[t].uuid]
           /\ rsa_pubkeys' = [rsa_pubkeys EXCEPT ![o] = NoKeys]
    BY <1>1, <1>5, MissFacts
  <2>2. QED
    BY <1>1, <1>2, <2>1, <1>5 DEF lookup_miss, tableVars, serverVars, Unused, NoKeys
<1>6. ASSUME NEW t \in Threads, insert_key64(t) PROVE TypeOK'
  BY <1>1, <1>2, <1>6 DEF insert_key64, tableVars, objVars, serverVars, UseUser
<1>7. ASSUME NEW t \in Threads, get_public_key_hit(t) PROVE TypeOK'
  BY <1>1, <1>2, <1>7 DEF get_public_key_hit, tableVars, objVars, serverVars, Return,
     AllKeys, Control, Holds, CallArgs
<1>8. ASSUME NEW t \in Threads, get_public_key_miss(t) PROVE TypeOK'
  BY <1>1, <1>2, <1>8 DEF get_public_key_miss, tableVars, objVars, serverVars
<1>9. ASSUME NEW t \in Threads, get_all_pub_keys(t) PROVE TypeOK'
  BY <1>1, <1>2, <1>9 DEF get_all_pub_keys, tableVars, objVars, serverVars, Return,
     AllKeys, Control, Holds
<1>10. ASSUME NEW t \in Threads, Served(t) PROVE TypeOK'
  <2>1. pc[t] = "rpc" /\ Asked(t) \in AllKeys
    BY <1>1, <1>10 DEF Served, Serve, Asked, Key, AllKeys, Control, CallArgs
  <2>2. QED
    BY <1>1, <1>2, <1>10, <2>1 DEF Served, Serve, tableVars, objVars
<1>11. ASSUME NEW t \in Threads, rpc_error(t) PROVE TypeOK'
  <2>1. late' \subseteq AllKeys
    BY <1>1, <1>11 DEF rpc_error, Asked, Key, AllKeys, Control, CallArgs
  <2>2. QED
    BY <1>1, <1>2, <1>11, <2>1 DEF rpc_error, tableVars, objVars, Return
<1>12. ASSUME NEW t \in Threads, reply_empty(t) PROVE TypeOK'
  BY <1>1, <1>2, <1>12 DEF reply_empty, tableVars, objVars, serverVars, Return, AllKeys
<1>13. ASSUME NEW t \in Threads, reply_key(t) PROVE TypeOK'
  BY <1>1, <1>2, <1>13 DEF reply_key, tableVars, objVars, serverVars
<1>14. ASSUME NEW t \in Threads, put_public_key(t) PROVE TypeOK'
  BY <1>1, <1>2, <1>14 DEF put_public_key, tableVars, objVars, serverVars, Return,
     AllKeys, Control, Holds, CallArgs
<1>15. ASSUME NEW t \in Threads, caller_resumes(t) PROVE TypeOK'
  BY <1>1, <1>2, <1>15 DEF caller_resumes, tableVars, objVars, serverVars, Nothing,
     NoCall
<1>16. CASE mod_cleanup
  BY <1>1, <1>2, <1>16 DEF mod_cleanup, objVars, serverVars
<1>17. ASSUME NEW k \in late, rpc_late(k) PROVE TypeOK'
  BY <1>1, <1>2, <1>17 DEF rpc_late, objVars
<1> HIDE DEF TypeOK
<1>18. QED
  BY <1>1, <1>3, <1>4, <1>5, <1>6, <1>7, <1>8, <1>9, <1>10, <1>11, <1>12, <1>13, <1>14,
     <1>15, <1>16, <1>17, BeginFacts, ServeFacts DEF Next, Step

(* Every step keeps a thread's place, object, key and arguments in step.    *)
LEMMA StepControl ==
    ASSUME IInv, Next
    PROVE  Control'
<1>1. TypeOK /\ SizeKept /\ Control
  BY DEF IInv, CacheSound
<1> USE DEF TypeOK, Control, Quiet, Holds, CallArgs
<1>2. ASSUME NEW t \in Threads, NEW u \in Users, NEW op \in {"gen", "get", "get_async", "list"},
             NEW v \in Versions \cup {None}, op # "list" => v \in Versions,
             ordered' \subseteq ordered \cup AllKeys,
             Begin(t, op, u, v, IF op = "gen" THEN "rpc" ELSE "lookup")
      PROVE  Control'
  BY <1>1, <1>2 DEF Begin
<1>3. ASSUME NEW t \in Threads, lookup_hit(t) PROVE Control'
  BY <1>1, <1>3 DEF lookup_hit, Hits, UseUser
<1>4. ASSUME NEW t \in Threads, lookup_miss(t) PROVE Control'
  <2>1. PICK o \in Unused :
           /\ obj' = [obj EXCEPT ![t] = o]
           /\ user' = [user EXCEPT ![o] = call[t].uuid]
           /\ rsa_pubkeys' = [rsa_pubkeys EXCEPT ![o] = NoKeys]
    BY <1>1, <1>4, MissFacts
  <2>2. QED
    BY <1>1, <2>1, <1>4 DEF lookup_miss, Unused, NoKeys
<1>5. ASSUME NEW t \in Threads, insert_key64(t) PROVE Control'
  BY <1>1, <1>5 DEF insert_key64, UseUser
<1>6. ASSUME NEW t \in Threads, get_public_key_hit(t) PROVE Control'
  BY <1>1, <1>6 DEF get_public_key_hit, Return
<1>7. ASSUME NEW t \in Threads, get_public_key_miss(t) PROVE Control'
  BY <1>1, <1>7 DEF get_public_key_miss
<1>8. ASSUME NEW t \in Threads, get_all_pub_keys(t) PROVE Control'
  BY <1>1, <1>8 DEF get_all_pub_keys, Return
<1>9. ASSUME NEW t \in Threads, Served(t) PROVE Control'
  BY <1>1, <1>9 DEF Served, Serve
<1>10. ASSUME NEW t \in Threads, rpc_error(t) PROVE Control'
  BY <1>1, <1>10 DEF rpc_error, Return
<1>11. ASSUME NEW t \in Threads, reply_empty(t) PROVE Control'
  BY <1>1, <1>11 DEF reply_empty, Return
<1>12. ASSUME NEW t \in Threads, reply_key(t) PROVE Control'
  BY <1>1, <1>12 DEF reply_key
<1>13. ASSUME NEW t \in Threads, put_public_key(t) PROVE Control'
  BY <1>1, <1>13 DEF put_public_key, Return
<1>14. ASSUME NEW t \in Threads, caller_resumes(t) PROVE Control'
  BY <1>1, <1>14 DEF caller_resumes, NoCall
<1>15. CASE mod_cleanup
  BY <1>1, <1>15 DEF mod_cleanup
<1>16. ASSUME NEW k \in late, rpc_late(k) PROVE Control'
  BY <1>1, <1>16 DEF rpc_late
<1> HIDE DEF TypeOK, Control, Quiet, Holds, CallArgs
<1>17. QED
  BY <1>1, <1>2, <1>3, <1>4, <1>5, <1>6, <1>7, <1>8, <1>9, <1>10, <1>11, <1>12, <1>13,
     <1>14, <1>15, <1>16, BeginFacts, ServeFacts DEF Next, Step

(* Every step keeps objects with the user they were made for: an object is  *)
(* made over only when no thread and not the table refers to it, and one    *)
(* enters the table only when no other of its user is there.                *)
Owners == OneObjectPerUser /\ RightUser /\ \A t \in Threads : Fresh(t)

LEMMA StepOwners ==
    ASSUME IInv, Next
    PROVE  Owners'
<1>1. TypeOK /\ SizeKept /\ Control /\ Owners
  BY DEF IInv, CacheSound, Owners
<1> USE DEF TypeOK, Control, Holds, Owners, OneObjectPerUser, RightUser, Fresh
<1>2. ASSUME NEW t \in Threads, NEW u \in Users, NEW op \in {"gen", "get", "get_async", "list"},
             NEW v \in Versions \cup {None}, op # "list" => v \in Versions,
             ordered' \subseteq ordered \cup AllKeys,
             Begin(t, op, u, v, IF op = "gen" THEN "rpc" ELSE "lookup")
      PROVE  Owners'
  BY <1>1, <1>2 DEF Begin, tableVars, objVars
<1>3. ASSUME NEW t \in Threads, lookup_hit(t) PROVE Owners'
  BY <1>1, <1>3 DEF lookup_hit, tableVars, objVars, Hits, UseUser
<1>4. ASSUME NEW t \in Threads, lookup_miss(t) PROVE Owners'
  <2>1. PICK o \in Unused :
           /\ obj' = [obj EXCEPT ![t] = o]
           /\ user' = [user EXCEPT ![o] = call[t].uuid]
           /\ rsa_pubkeys' = [rsa_pubkeys EXCEPT ![o] = NoKeys]
    BY <1>1, <1>4, MissFacts
  <2>2. QED
    BY <1>1, <2>1, <1>4 DEF lookup_miss, Unused, tableVars
<1>5. ASSUME NEW t \in Threads, insert_key64(t) PROVE Owners'
  <2>1. m_hash' \subseteq m_hash \/ (Hits(t) = {} /\ m_hash' \subseteq m_hash \cup {obj[t]})
    <3>1. TableOK(m_hash, m_lru) /\ obj[t] \in Objs \ m_hash
      BY <1>1, <1>5, TableForms DEF insert_key64, IInv, CacheSound
    <3>2. QED
      BY <3>1, <1>5, EvictKeeps, RefKeeps DEF insert_key64
  <2>2. QED
    BY <1>1, <2>1, <1>5 DEF insert_key64, UseUser, Hits, objVars
<1>6. ASSUME NEW t \in Threads, get_public_key_hit(t) PROVE Owners'
  BY <1>1, <1>6 DEF get_public_key_hit, tableVars, objVars, Return
<1>7. ASSUME NEW t \in Threads, get_public_key_miss(t) PROVE Owners'
  BY <1>1, <1>7 DEF get_public_key_miss, tableVars, objVars
<1>8. ASSUME NEW t \in Threads, get_all_pub_keys(t) PROVE Owners'
  BY <1>1, <1>8 DEF get_all_pub_keys, tableVars, objVars, Return
<1>9. ASSUME NEW t \in Threads, Served(t) PROVE Owners'
  BY <1>1, <1>9 DEF Served, Serve, tableVars, objVars
<1>10. ASSUME NEW t \in Threads, rpc_error(t) PROVE Owners'
  BY <1>1, <1>10 DEF rpc_error, tableVars, objVars, Return
<1>11. ASSUME NEW t \in Threads, reply_empty(t) PROVE Owners'
  BY <1>1, <1>11 DEF reply_empty, tableVars, objVars, Return
<1>12. ASSUME NEW t \in Threads, reply_key(t) PROVE Owners'
  BY <1>1, <1>12 DEF reply_key, tableVars, objVars
<1>13. ASSUME NEW t \in Threads, put_public_key(t) PROVE Owners'
  BY <1>1, <1>13 DEF put_public_key, tableVars, objVars, Return
<1>14. ASSUME NEW t \in Threads, caller_resumes(t) PROVE Owners'
  BY <1>1, <1>14 DEF caller_resumes, tableVars, objVars
<1>15. CASE mod_cleanup
  BY <1>1, <1>15 DEF mod_cleanup, objVars
<1>16. ASSUME NEW k \in late, rpc_late(k) PROVE Owners'
  BY <1>1, <1>16 DEF rpc_late, tableVars, objVars
<1> HIDE DEF TypeOK, Control, Holds, Owners, OneObjectPerUser, RightUser, Fresh
<1>17. QED
  BY <1>1, <1>2, <1>3, <1>4, <1>5, <1>6, <1>7, <1>8, <1>9, <1>10, <1>11, <1>12, <1>13,
     <1>14, <1>15, <1>16, BeginFacts, ServeFacts DEF Next, Step

(* Every step keeps to the keys the server made: in the objects and in the  *)
(* answers that threads carry.                                              *)
Keys == KeysKept /\ \A t \in Threads : Carried(t)

LEMMA StepKeys ==
    ASSUME IInv, Next
    PROVE  Keys'
<1>1. TypeOK /\ SizeKept /\ Control /\ Keys /\ RightUser
  BY DEF IInv, CacheSound, Keys
<1> USE DEF TypeOK, Control, Holds, CallArgs, Keys, KeysKept, Carried, Key, Asked, Made
<1>2. ASSUME NEW t \in Threads, NEW u \in Users, NEW op \in {"gen", "get", "get_async", "list"},
             NEW v \in Versions \cup {None}, op # "list" => v \in Versions,
             ordered' \subseteq ordered \cup AllKeys,
             Begin(t, op, u, v, IF op = "gen" THEN "rpc" ELSE "lookup")
      PROVE  Keys'
  BY <1>1, <1>2, ZenonT(60) DEF Begin, objVars, serverVars
<1>3. ASSUME NEW t \in Threads, lookup_hit(t) PROVE Keys'
  BY <1>1, <1>3 DEF lookup_hit, objVars, serverVars, UseUser
<1>4. ASSUME NEW t \in Threads, lookup_miss(t) PROVE Keys'
  <2>1. PICK o \in Unused :
           /\ obj' = [obj EXCEPT ![t] = o]
           /\ user' = [user EXCEPT ![o] = call[t].uuid]
           /\ rsa_pubkeys' = [rsa_pubkeys EXCEPT ![o] = NoKeys]
    BY <1>1, <1>4, MissFacts
  <2>2. QED
    BY <1>1, <2>1, <1>4 DEF lookup_miss, Unused, NoKeys, serverVars
<1>5. ASSUME NEW t \in Threads, insert_key64(t) PROVE Keys'
  BY <1>1, <1>5 DEF insert_key64, objVars, serverVars, UseUser
<1>6. ASSUME NEW t \in Threads, get_public_key_hit(t) PROVE Keys'
  BY <1>1, <1>6 DEF get_public_key_hit, objVars, serverVars, Return
<1>7. ASSUME NEW t \in Threads, get_public_key_miss(t) PROVE Keys'
  BY <1>1, <1>7 DEF get_public_key_miss, objVars, serverVars
<1>8. ASSUME NEW t \in Threads, get_all_pub_keys(t) PROVE Keys'
  BY <1>1, <1>8 DEF get_all_pub_keys, objVars, serverVars, Return
<1>9. ASSUME NEW t \in Threads, Served(t) PROVE Keys'
  <2>1. server \subseteq server' /\ Made \subseteq Made'
    BY <1>9 DEF Served
  <2>2. KeysKept'
    BY <1>1, <2>1, <1>9 DEF Served, Serve, objVars
  <2>3. call' = call /\ known' = known
    BY <1>9 DEF Served, Serve
  <2>4. ASSUME NEW s \in Threads, s # t PROVE Carried(s)'
    BY <1>1, <2>1, <2>3, <2>4, <1>9 DEF Served, Serve
  <2>5. Carried(t)'
    BY <1>1, <2>1, <2>3, <1>9 DEF Served, Serve
  <2>6. QED
    BY <2>2, <2>4, <2>5
<1>10. ASSUME NEW t \in Threads, rpc_error(t) PROVE Keys'
  BY <1>1, <1>10 DEF rpc_error, objVars, serverVars, Return
<1>11. ASSUME NEW t \in Threads, reply_empty(t) PROVE Keys'
  BY <1>1, <1>11 DEF reply_empty, objVars, serverVars, Return
<1>12. ASSUME NEW t \in Threads, reply_key(t) PROVE Keys'
  BY <1>1, <1>12 DEF reply_key, objVars, serverVars
<1>13. ASSUME NEW t \in Threads, put_public_key(t) PROVE Keys'
  <2>1. /\ obj[t] \in Objs /\ call[t].ver \in Versions
        /\ key[t] = <<user[obj[t]], call[t].ver>> /\ key[t] \in server \cup refused
    BY <1>1, <1>13, ZenonT(60) DEF put_public_key, RightUser
  <2>2. \A s \in Threads : Carried(s)'
    BY <1>1, <1>13 DEF put_public_key, serverVars, Return
  <2>3. KeysKept'
    <3>1. user' = user /\ server' = server /\ refused' = refused
      BY <1>13 DEF put_public_key, serverVars
    <3>2. ASSUME NEW o \in Objs, NEW v \in Versions
          PROVE  \/ rsa_pubkeys'[o][v] = rsa_pubkeys[o][v]
                 \/ o = obj[t] /\ v = call[t].ver /\ rsa_pubkeys'[o][v] = key[t]
      BY <1>1, <1>13, <2>1 DEF put_public_key
    <3>3. ASSUME NEW o \in Objs, NEW v \in Versions, rsa_pubkeys'[o][v] # None
          PROVE  /\ rsa_pubkeys'[o][v] = <<user[o], v>>
                 /\ rsa_pubkeys'[o][v] \in server \cup refused
      <4>1. CASE rsa_pubkeys'[o][v] = rsa_pubkeys[o][v]
        BY <1>1, <3>3, <4>1
      <4>2. CASE o = obj[t] /\ v = call[t].ver /\ rsa_pubkeys'[o][v] = key[t]
        BY <2>1, <4>2
      <4>3. QED
        BY <3>2, <4>1, <4>2
    <3>4. QED
      BY <3>1, <3>3
  <2>4. QED
    BY <2>2, <2>3
<1>14. ASSUME NEW t \in Threads, caller_resumes(t) PROVE Keys'
  BY <1>1, <1>14 DEF caller_resumes, objVars, serverVars, NoCall
<1>15. CASE mod_cleanup
  BY <1>1, <1>15 DEF mod_cleanup, objVars, serverVars
<1>16. ASSUME NEW k \in late, rpc_late(k) PROVE Keys'
  BY <1>1, <1>16 DEF rpc_late, objVars
<1> HIDE DEF TypeOK, Control, Holds, CallArgs, Keys, KeysKept, Carried, Key, Asked, Made
<1>17. QED
  BY <1>1, <1>2, <1>3, <1>4, <1>5, <1>6, <1>7, <1>8, <1>9, <1>10, <1>11, <1>12, <1>13,
     <1>14, <1>15, <1>16, BeginFacts, ServeFacts DEF Next, Step

(* A step that returns from no call keeps the answers.                      *)
SameReturns ==
    \A s \in Threads :
       pc'[s] = "returned" =>
          pc[s] = "returned" /\ UNCHANGED <<call[s], known[s], ret[s]>>

LEMMA AnswersKept ==
    ASSUME Answers, server \subseteq server', refused \subseteq refused', SameReturns
    PROVE  Answers'
<1>1. ASSUME NEW s \in Threads, pc'[s] = "returned" PROVE Answer(s)'
  <2>1. Answer(s) /\ call'[s] = call[s] /\ known'[s] = known[s] /\ ret'[s] = ret[s]
    BY <1>1 DEF Answers, SameReturns
  <2>2. Made \subseteq Made'
    BY DEF Made
  <2>3. Asked(s)' = Asked(s)
    BY <2>1 DEF Asked, Key
  <2>4. /\ \A k \in ret[s].keys : k \in Made /\ k[1] = call[s].uuid
        /\ call[s].op # "list" => ret[s].keys \subseteq {Asked(s)}
        /\ call[s].op \in Queries /\ ~ret[s].lost =>
              /\ known[s] => ret[s].keys = {Asked(s)}
              /\ ret[s].keys # {} => ret[s].ok
              /\ call[s].op = "get" /\ ret[s].ok => ret[s].keys # {}
    BY <2>1 DEF Answer
  <2>5. QED
    BY <2>1, <2>2, <2>3, <2>4, SMTT(60) DEF Answer
<1>2. QED
  BY <1>1 DEF Answers

(* What a returning step adds to the answers is its own.                    *)
LEMMA OneReturns ==
    ASSUME TypeOK, Answers, NEW t \in Threads,
           NEW ok, NEW lost, NEW keys, Return(t, ok, lost, keys),
           UNCHANGED <<server, refused, call, known>>, Answer(t)'
    PROVE  Answers'
<1>1. ASSUME NEW s \in Threads, pc'[s] = "returned" PROVE Answer(s)'
  <2>1. CASE s = t
    BY <2>1
  <2>2. CASE s # t
    <3>1. pc'[s] = pc[s] /\ ret'[s] = ret[s]
      BY <2>2 DEF Return, TypeOK
    <3>2. Answer(s)
      BY <1>1, <3>1 DEF Answers
    <3>3. QED
      BY <3>1, <3>2 DEF Answer, Asked, Made, Key
  <2>3. QED
    BY <2>1, <2>2
<1>2. QED
  BY <1>1 DEF Answers

(* A call that returns the key it asked for, which the server made.         *)
LEMMA KeyReturns ==
    ASSUME TypeOK, Answers, NEW t \in Threads,
           Return(t, TRUE, FALSE, {Asked(t)}), Asked(t) \in Made,
           UNCHANGED <<server, refused, call, known>>
    PROVE  Answers'
<1>1. ret'[t] = [ok |-> TRUE, lost |-> FALSE, keys |-> {Asked(t)}]
  BY DEF Return, TypeOK
<1>2. Asked(t)' = Asked(t) /\ Made' = Made /\ Asked(t)[1] = call'[t].uuid
  BY DEF Asked, Made, Key
<1>3. Answer(t)'
  BY <1>1, <1>2 DEF Answer
<1>4. QED
  BY <1>3, OneReturns

(* Every step keeps what a call has returned within the keys made.          *)
LEMMA StepAnswers ==
    ASSUME IInv, Next
    PROVE  Answers'
<1>1. TypeOK /\ SizeKept /\ Control /\ Keys /\ RightUser /\ Answers
  BY DEF IInv, CacheSound, Keys
<1> USE DEF TypeOK, Control, Holds, CallArgs, Key, Asked, Made
<1>2. ASSUME NEW t \in Threads, NEW u \in Users, NEW op \in {"gen", "get", "get_async", "list"},
             NEW v \in Versions \cup {None}, op # "list" => v \in Versions,
             ordered' \subseteq ordered \cup AllKeys,
             Begin(t, op, u, v, IF op = "gen" THEN "rpc" ELSE "lookup")
      PROVE  Answers'
  <2>1. SameReturns
    BY <1>1, <1>2 DEF SameReturns, Begin
  <2>2. server \subseteq server' /\ refused \subseteq refused'
    BY <1>2 DEF Begin, serverVars
  <2>3. QED
    BY <1>1, <2>1, <2>2, AnswersKept
<1>3. ASSUME NEW t \in Threads, lookup_hit(t) PROVE Answers'
  <2>1. SameReturns
    BY <1>1, <1>3 DEF SameReturns, lookup_hit, UseUser
  <2>2. server \subseteq server' /\ refused \subseteq refused'
    BY <1>3 DEF lookup_hit, serverVars
  <2>3. QED
    BY <1>1, <2>1, <2>2, AnswersKept
<1>4. ASSUME NEW t \in Threads, lookup_miss(t) PROVE Answers'
  <2>1. SameReturns
    BY <1>1, <1>4 DEF SameReturns, lookup_miss
  <2>2. server \subseteq server' /\ refused \subseteq refused'
    BY <1>4 DEF lookup_miss, serverVars
  <2>3. QED
    BY <1>1, <2>1, <2>2, AnswersKept
<1>5. ASSUME NEW t \in Threads, insert_key64(t) PROVE Answers'
  <2>1. SameReturns
    BY <1>1, <1>5 DEF SameReturns, insert_key64, UseUser
  <2>2. server \subseteq server' /\ refused \subseteq refused'
    BY <1>5 DEF insert_key64, serverVars
  <2>3. QED
    BY <1>1, <2>1, <2>2, AnswersKept
<1>6. ASSUME NEW t \in Threads, get_public_key_hit(t) PROVE Answers'
  <2>1. Return(t, TRUE, FALSE, {rsa_pubkeys[obj[t]][call[t].ver]}) /\ UNCHANGED <<server, refused, call, known>>
    BY <1>6 DEF get_public_key_hit, serverVars
  <2> HIDE DEF Made, Key
  <2>2. /\ obj[t] \in Objs /\ call[t].ver \in Versions
        /\ rsa_pubkeys[obj[t]][call[t].ver] # None
    BY <1>1, <1>6 DEF get_public_key_hit, Queries
  <2>3. user[obj[t]] = call[t].uuid
    BY <1>1, <1>6, <2>2, CacheAssumption DEF RightUser
  <2>4. rsa_pubkeys[obj[t]][call[t].ver] = Asked(t) /\ Asked(t) \in Made
    BY <1>1, <2>2, <2>3 DEF Keys, KeysKept
  <2>5. QED
    BY <1>1, <2>1, <2>4, KeyReturns
<1>7. ASSUME NEW t \in Threads, get_public_key_miss(t) PROVE Answers'
  <2>1. SameReturns
    BY <1>1, <1>7 DEF SameReturns, get_public_key_miss
  <2>2. server \subseteq server' /\ refused \subseteq refused'
    BY <1>7 DEF get_public_key_miss, serverVars
  <2>3. QED
    BY <1>1, <2>1, <2>2, AnswersKept
<1>8. ASSUME NEW t \in Threads, get_all_pub_keys(t) PROVE Answers'
  <2> DEFINE all == {rsa_pubkeys[obj[t]][v] : v \in Versions} \ {None}
  <2>1. Return(t, TRUE, FALSE, all) /\ UNCHANGED <<server, refused, call, known>>
    BY <1>8 DEF get_all_pub_keys, serverVars
  <2>2. obj[t] \in Objs /\ user[obj[t]] = call[t].uuid /\ call[t].op = "list"
    BY <1>1, <1>8 DEF get_all_pub_keys, RightUser
  <2>3. \A k \in all : k \in Made /\ k[1] = call[t].uuid
    BY <1>1, <2>2 DEF Keys, KeysKept
  <2> HIDE DEF all
  <2>4. ret'[t] = [ok |-> TRUE, lost |-> FALSE, keys |-> all]
    BY <1>1, <2>1 DEF Return
  <2>5. Answer(t)'
    BY <2>1, <2>2, <2>3, <2>4 DEF Answer
  <2>6. QED
    BY <1>1, <2>1, <2>5, OneReturns
<1>9. ASSUME NEW t \in Threads, Served(t) PROVE Answers'
  <2>1. SameReturns
    BY <1>1, <1>9 DEF SameReturns, Served, Serve
  <2>2. server \subseteq server' /\ refused \subseteq refused'
    BY <1>9 DEF Served, serverVars
  <2>3. QED
    BY <1>1, <2>1, <2>2, AnswersKept
<1>10. ASSUME NEW t \in Threads, rpc_error(t) PROVE Answers'
  <2> DEFINE ok == call[t].op = "gen"
  <2>1. Return(t, ok, TRUE, {}) /\ UNCHANGED <<server, refused, call, known>>
    BY <1>10 DEF rpc_error
  <2>2. ret'[t].keys = {} /\ ret'[t].lost = TRUE
    BY <1>1, <2>1 DEF Return
  <2>3. Answer(t)'
    BY <2>2 DEF Answer
  <2>4. QED
    BY <1>1, <2>1, <2>3, OneReturns
<1>11. ASSUME NEW t \in Threads, reply_empty(t) PROVE Answers'
  <2> DEFINE ok == call[t].op # "get"
  <2>1. Return(t, ok, FALSE, {}) /\ UNCHANGED <<server, refused, call, known>>
    BY <1>11 DEF reply_empty, serverVars
  <2>2. ret'[t].keys = {} /\ ret'[t].ok = ok
    BY <1>1, <2>1 DEF Return
  <2>3. call[t].op \in Queries => ~known[t]
    BY <1>1, <1>11 DEF reply_empty, Keys, Carried
  <2>4. Answer(t)'
    BY <2>1, <2>2, <2>3 DEF Answer
  <2>5. QED
    BY <1>1, <2>1, <2>4, OneReturns
<1>12. ASSUME NEW t \in Threads, reply_key(t) PROVE Answers'
  <2>1. SameReturns
    BY <1>1, <1>12 DEF SameReturns, reply_key
  <2>2. server \subseteq server' /\ refused \subseteq refused'
    BY <1>12 DEF reply_key, serverVars
  <2>3. QED
    BY <1>1, <2>1, <2>2, AnswersKept
<1>13. ASSUME NEW t \in Threads, put_public_key(t) PROVE Answers'
  <2>1. Return(t, TRUE, FALSE, {key[t]}) /\ UNCHANGED <<server, refused, call, known>>
    BY <1>13 DEF put_public_key, serverVars
  <2>2. key[t] = Asked(t) /\ Asked(t) \in Made
    BY <1>1, <1>13 DEF put_public_key, Keys, Carried
  <2>3. QED
    BY <1>1, <2>1, <2>2, KeyReturns
<1>14. ASSUME NEW t \in Threads, caller_resumes(t) PROVE Answers'
  <2>1. SameReturns
    BY <1>1, <1>14 DEF SameReturns, caller_resumes
  <2>2. server \subseteq server' /\ refused \subseteq refused'
    BY <1>14 DEF caller_resumes, serverVars
  <2>3. QED
    BY <1>1, <2>1, <2>2, AnswersKept
<1>15. CASE mod_cleanup
  <2>1. SameReturns
    BY <1>1, <1>15 DEF SameReturns, mod_cleanup
  <2>2. server \subseteq server' /\ refused \subseteq refused'
    BY <1>15 DEF mod_cleanup, serverVars
  <2>3. QED
    BY <1>1, <2>1, <2>2, AnswersKept
<1>16. ASSUME NEW k \in late, rpc_late(k) PROVE Answers'
  <2>1. SameReturns
    BY <1>1, <1>16 DEF SameReturns, rpc_late
  <2>2. server \subseteq server' /\ refused \subseteq refused'
    BY <1>16 DEF rpc_late, serverVars
  <2>3. QED
    BY <1>1, <2>1, <2>2, AnswersKept
<1> HIDE DEF TypeOK, Control, Holds, CallArgs, Key, Asked, Made
<1>17. QED
  BY <1>1, <1>2, <1>3, <1>4, <1>5, <1>6, <1>7, <1>8, <1>9, <1>10, <1>11, <1>12, <1>13,
     <1>14, <1>15, <1>16, BeginFacts, ServeFacts DEF Next, Step

-----------------------------------------------------------------------------
LEMMA InitIInv == Init => IInv
<1> SUFFICES ASSUME Init PROVE IInv
  OBVIOUS
<1> USE DEF Init
<1>1. TableOK(m_hash, m_lru) /\ m_hash = Listed
  BY EmptyTableOK DEF Listed
<1>2. TypeOK
  <2>1. Stored \subseteq AllKeys /\ 0 \in 0..MaxCalls
    BY DEF AllKeys
  <2>2. m_hash \subseteq Objs /\ m_lru \in Seq(Objs)
    BY <1>1 DEF TableOK
  <2>3. QED
    BY <2>1, <2>2 DEF TypeOK, NoCall, NoKeys, Nothing
<1>3. CacheSound
  BY <1>1, <1>2 DEF CacheSound, TableIsList, OneObjectPerUser, SizeKept, TableOK,
     Distinct
<1>4. Control
  BY DEF Control, Quiet, Holds, CallArgs, NoCall
<1>5. /\ RightUser /\ KeysKept /\ Answers
      /\ \A t \in Threads : Fresh(t) /\ Carried(t)
  BY DEF RightUser, KeysKept, Answers, Fresh, Carried, NoKeys
<1>6. QED
  BY <1>3, <1>4, <1>5 DEF IInv

LEMMA StepIInv == IInv /\ [Next]_vars => IInv'
<1>1. ASSUME IInv, Next PROVE IInv'
  <2>1. TableIsList' /\ SizeKept'
    BY <1>1, TableStep
       DEF TableParts, TableOK, TableIsList, SizeKept, InList, Distinct, Listed
  <2>2. QED
    BY <1>1, <2>1, StepType, StepControl, StepOwners, StepKeys, StepAnswers
       DEF IInv, CacheSound, Owners, Keys
<1>2. ASSUME IInv, UNCHANGED vars PROVE IInv'
  BY <1>2 DEF vars, tableVars, objVars, serverVars, IInv, CacheSound, TypeOK,
     TableIsList,
     OneObjectPerUser, SizeKept, Listed, Control, Quiet, Holds, CallArgs, RightUser, Fresh,
     KeysKept, Carried, Answers, Answer, Asked, Made
<1>3. QED
  BY <1>1, <1>2

LEMMA CacheInvariant == Spec => []IInv
BY InitIInv, StepIInv, PTL DEF Spec

(* LruTable is sound at every release of m_lock, though a lookup lets go of *)
(* it between a miss and the insertion.                                     *)
THEOREM CacheAlwaysSound == Spec => []CacheSound
<1>1. IInv => CacheSound
  BY DEF IInv
<1>2. QED
  BY <1>1, CacheInvariant, PTL

(* Callers of gen_rsa_key, get_rsa_key and get_public_keys get only keys    *)
(* the server made for the user they asked about, and find what it had      *)
(* stored, though it may fail to make a key or to save one it answers with. *)
THEOREM AnswersAlwaysSound == Spec => []AnswersSound
<1>1. ASSUME IInv PROVE Coherent
  <2>1. ASSUME NEW t \in Threads, pc[t] = "put"
        PROVE  rsa_pubkeys[obj[t]][call[t].ver] \in {None, key[t]}
    <3>1. obj[t] \in Objs /\ call[t].ver \in Versions /\ key[t] # None
      BY <1>1, <2>1 DEF IInv, CacheSound, TypeOK, Control, Holds, CallArgs
    <3>2. user[obj[t]] = call[t].uuid /\ key[t] = Key(call[t].uuid, call[t].ver)
      BY <1>1, <3>1 DEF IInv, RightUser, Carried, Asked
    <3>3. QED
      BY <1>1, <3>1, <3>2 DEF IInv, KeysKept
  <2>2. QED
    BY <1>1, <2>1 DEF IInv, KeysKept, Coherent
<1>2. IInv => AnswersSound
  BY <1>1 DEF IInv, AnswersSound
<1>3. QED
  BY <1>2, CacheInvariant, PTL
=============================================================================
