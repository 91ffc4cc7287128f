-------------------------------- MODULE DHash --------------------------------
(***************************************************************************)
(* dhash_t (common/ctype/hash.c) with its wrapper DHashObj                  *)
(* (common/cpptype/hash-obj.cpp): a table of doubly linked chains that a    *)
(* lookup may rebuild with more buckets, and an iterator that can take the  *)
(* current element out.  The caller holds its own lock, so there is one     *)
(* thread; between two steps of an iteration it may insert and remove.      *)
(* dh_max_chain, which nothing reads, is left out.                          *)
(***************************************************************************)
EXTENDS Integers, Sequences, FiniteSets

CONSTANTS
    Elms,           \* elements
    Keys,           \* keys, also of lookups that find nothing
    Key,            \* Key[e]: obj_keystr of element e
    hash_fn,        \* hash_fn[k]: the hash given to insert, lookup and remove
    dh_hash_fn,     \* dh_hash_fn[k]: the hash the table was initialized with
    Size,           \* buckets at first
    MaxChain,       \* comparisons that make a lookup rebuild the table (32)
    MaxSize,        \* bound on the number of buckets
    MaxInserts,     \* bound on the number of insertions
    None            \* no element

ASSUME DHashAssumption ==
    /\ Key \in [Elms -> Keys]
    /\ hash_fn \in [Keys -> Nat] /\ dh_hash_fn \in [Keys -> Nat]
    /\ {Size, MaxChain} \subseteq Nat \ {0}
    /\ MaxSize \in Nat /\ MaxInserts \in Nat
    /\ None \notin Elms

VARIABLES
    dh_bucket,      \* the chains; bucket i of the code is dh_bucket[i + 1]
    dh_elm_cnt,     \* the number of elements the table says it has
    out,            \* the chains of the table a rehash fills, <<>> otherwise
    count,          \* elements that rehash has moved
    dh_curr,        \* the iterator's bucket, 0 for NULL
    dh_iter,        \* its element; None for the head of the bucket's list
    pc,             \* "idle", "rehash" or, while the caller iterates, "iter"
    linked,         \* the elements inserted and not removed, oldest first
    awaited,        \* elements there since the iteration began, not yet seen
    inserts         \* number of insertions

iterVars == <<dh_curr, dh_iter>>
vars == <<dh_bucket, dh_elm_cnt, out, count, iterVars, pc, linked, awaited, inserts>>

dh_bk_size == Len(dh_bucket)
Index(hash, k, size) == 1 + (hash[k] % size)
In(e, chain) == \E i \in DOMAIN chain : chain[i] = e
Where(e, chain) == CHOOSE i \in DOMAIN chain : chain[i] = e
Without(chain, e) ==
    IF In(e, chain)
    THEN SubSeq(chain, 1, Where(e, chain) - 1)
             \o SubSeq(chain, Where(e, chain) + 1, Len(chain))
    ELSE chain
Attached == {linked[i] : i \in DOMAIN linked}
Empty(size) == [i \in 1..size |-> <<>>]

-----------------------------------------------------------------------------

(* dhash_init.                                                              *)
Init ==
    /\ dh_bucket = Empty(Size)
    /\ dh_elm_cnt = 0
    /\ out = <<>> /\ count = 0
    /\ dh_curr = 0 /\ dh_iter = None
    /\ pc = "idle"
    /\ linked = <<>>
    /\ awaited = {}
    /\ inserts = 0

(* The first element of bucket i, or the head of an empty list.             *)
First(table, i) == IF table[i] = <<>> THEN None ELSE Head(table[i])

(* What follows and precedes e, or the head of the list, in its chain.      *)
NextOf(chain, e) ==
    LET i == IF e = None THEN 0 ELSE Where(e, chain)
    IN  IF i < Len(chain) THEN chain[i + 1] ELSE None
PrevOf(chain, e) ==
    IF Where(e, chain) > 1 THEN chain[Where(e, chain) - 1] ELSE None

(* Mutant: after the last bucket comes the first.                           *)
bucket_wraps(table, i) ==
    LET full == {j \in 1..Len(table) : table[j] # <<>>}
        after == {j \in full : j > i}
        rest == IF after = {} THEN full ELSE after
    IN  IF full = {} THEN <<0, None>>
        ELSE LET j == CHOOSE j \in rest : \A k \in rest : j <= k
             IN  <<j, First(table, j)>>

(* Lines 299-309: the first element of a bucket after bucket i, or the end. *)
NextBucket(table, i) ==
    LET full == {j \in (i + 1)..Len(table) : table[j] # <<>>}
    IN  IF full = {} THEN <<0, None>>
        ELSE LET j == CHOOSE j \in full : \A k \in full : j <= k
             IN  <<j, First(table, j)>>

(* dhash_iter_next from position <<curr, elm>>.  The head of the first list *)
(* is also what an iteration stands on after it took the first element out. *)
IterNext(table, curr, elm) ==
    IF (elm # None \/ curr = 1) /\ NextOf(table[curr], elm) # None
    THEN <<curr, NextOf(table[curr], elm)>>
    ELSE NextBucket(table, curr)

(* dhash_iter_init.                                                         *)
IterInit(table) ==
    IF table[1] # <<>> THEN <<1, First(table, 1)>> ELSE IterNext(table, 1, None)

(* Mutant: the iterator does not step back when a chain loses its first     *)
(* element.                                                                 *)
rm_stays(table, curr, elm) ==
    <<curr, PrevOf(table[curr], elm)>>

(* dhash_iter_rm_curr: the position before elm, which is taken out.  Before *)
(* the first element of a chain is the first of the chain before, so that   *)
(* dhash_iter_next comes back to this one.                                  *)
IterBack(table, curr, elm) ==
    IF PrevOf(table[curr], elm) # None THEN <<curr, PrevOf(table[curr], elm)>>
    ELSE IF curr > 1 THEN <<curr - 1, First(table, curr - 1)>>
    ELSE <<1, None>>

(* Mutant: dhash_iter_next ends at the first empty bucket.                  *)
go_short(position) ==
    /\ dh_curr' = IF position[1] > dh_curr + 1 THEN 0 ELSE position[1]
    /\ dh_iter' = IF position[1] > dh_curr + 1 THEN None ELSE position[2]

Go(position) == dh_curr' = position[1] /\ dh_iter' = position[2]

-----------------------------------------------------------------------------

(* dhash_insert_elm: at the end of its chain.                               *)
InsertElm(table, hash, e) ==
    [table EXCEPT ![Index(hash, Key[e], Len(table))] = Append(@, e)]

(* DHashObj::insert_keystr verifies that the element is in no table.        *)
insert(e) ==
    /\ pc \in {"idle", "iter"}
    /\ e \notin Attached /\ inserts < MaxInserts
    /\ dh_bucket' = InsertElm(dh_bucket, hash_fn, e)
    /\ dh_elm_cnt' = dh_elm_cnt + 1
    /\ linked' = Append(linked, e)
    /\ inserts' = inserts + 1
    /\ UNCHANGED <<out, count, iterVars, pc, awaited>>

(* dhash_takeout_elm: dlist_rm unlinks e from whichever chain it is in.     *)
dhash_takeout_elm(e) ==
    /\ dh_bucket' = [i \in DOMAIN dh_bucket |-> Without(dh_bucket[i], e)]
    /\ dh_elm_cnt' = dh_elm_cnt - 1

(* DHashObj::remove_obj; not for the element an iterator stands on.         *)
remove_obj(e) ==
    /\ pc \in {"idle", "iter"}
    /\ e \in Attached /\ e # dh_iter
    /\ dhash_takeout_elm(e)
    /\ linked' = Without(linked, e)
    /\ awaited' = awaited \ {e}
    /\ UNCHANGED <<out, count, iterVars, pc, inserts>>

-----------------------------------------------------------------------------

Chain(k) == dh_bucket[Index(hash_fn, k, dh_bk_size)]
Matches(k) == {i \in DOMAIN Chain(k) : Key[Chain(k)[i]] = k}
FirstMatch(k) == CHOOSE i \in Matches(k) : \A j \in Matches(k) : i <= j

(* dhash_find_elm: what it returns ...                                      *)
Found(k) == IF Matches(k) = {} THEN None ELSE Chain(k)[FirstMatch(k)]

(* ... and the number of comparisons, cnt or chain in the code.             *)
Compared(k) == IF Matches(k) = {} THEN Len(Chain(k)) ELSE FirstMatch(k)

(* dhash_rehash, up to its loop, on a table with these chains.              *)
BeginRehash(table) ==
    /\ 1 + 2 * dh_bk_size <= MaxSize
    /\ pc' = "rehash"
    /\ dh_elm_cnt' = 0
    /\ out' = Empty(1 + 2 * dh_bk_size)
    /\ count' = 0
    /\ Go(IterInit(table))

(* A lookup that compared too many elements rebuilds the table; any other   *)
(* changes nothing.                                                         *)
find_rehash(k) ==
    /\ pc = "idle"
    /\ Compared(k) >= MaxChain /\ dh_elm_cnt > 0
    /\ BeginRehash(dh_bucket)
    /\ UNCHANGED <<dh_bucket, linked, awaited, inserts>>

(* dhash_rm_elm: the first match is removed, and the table rebuilt when the *)
(* search was long and the table is not empty now.  Without a match it does *)
(* what a lookup does.                                                      *)
dhash_rm_elm(k) ==
    /\ pc = "idle" /\ Matches(k) # {}
    /\ linked' = Without(linked, Found(k))
    /\ IF Compared(k) >= MaxChain /\ dh_elm_cnt > 1
       THEN /\ dh_bucket' = [i \in DOMAIN dh_bucket |-> Without(dh_bucket[i], Found(k))]
            /\ BeginRehash(dh_bucket')
       ELSE /\ dhash_takeout_elm(Found(k))
            /\ UNCHANGED <<out, count, iterVars, pc>>
    /\ UNCHANGED <<awaited, inserts>>

(* One element in dhash_rehash's loop: out of the old table by the          *)
(* iterator, into the new one, and on.                                      *)
rehash_move ==
    /\ pc = "rehash" /\ dh_curr # 0
    /\ dhash_takeout_elm(dh_iter)
    /\ LET back == IterBack(dh_bucket, dh_curr, dh_iter)
       IN  Go(IterNext(dh_bucket', back[1], back[2]))
    /\ count' = count + 1
    /\ out' = InsertElm(out, dh_hash_fn, dh_iter)
    /\ UNCHANGED <<pc, linked, awaited, inserts>>

(* dhash_rehash, after its loop.                                            *)
rehash_end ==
    /\ pc = "rehash" /\ dh_curr = 0
    /\ dh_bucket' = out
    /\ dh_elm_cnt' = count
    /\ out' = <<>>
    /\ pc' = "idle"
    /\ UNCHANGED <<count, iterVars, linked, awaited, inserts>>

-----------------------------------------------------------------------------

(* The caller begins to iterate.                                            *)
iter_begin ==
    /\ pc = "idle"
    /\ pc' = "iter"
    /\ Go(IterInit(dh_bucket))
    /\ awaited' = Attached
    /\ UNCHANGED <<dh_bucket, dh_elm_cnt, out, count, linked, inserts>>

(* It looks at the current element and goes on,                             *)
iter_next ==
    /\ pc = "iter" /\ dh_curr # 0
    /\ awaited' = awaited \ {dh_iter}
    /\ Go(IterNext(dh_bucket, dh_curr, dh_iter))
    /\ UNCHANGED <<dh_bucket, dh_elm_cnt, out, count, pc, linked, inserts>>

(* or takes it out first, as DHashObj::clear does with all.                 *)
iter_takeout ==
    /\ pc = "iter" /\ dh_curr # 0
    /\ dhash_takeout_elm(dh_iter)
    /\ LET back == IterBack(dh_bucket, dh_curr, dh_iter)
       IN  Go(IterNext(dh_bucket', back[1], back[2]))
    /\ linked' = Without(linked, dh_iter)
    /\ awaited' = awaited \ {dh_iter}
    /\ UNCHANGED <<out, count, pc, inserts>>

(* The iterator compares equal to end().                                    *)
iter_end ==
    /\ pc = "iter" /\ dh_curr = 0
    /\ pc' = "idle"
    /\ UNCHANGED <<dh_bucket, dh_elm_cnt, out, count, iterVars, linked, awaited, inserts>>

Next ==
    \/ rehash_move \/ rehash_end
    \/ iter_begin \/ iter_next \/ iter_takeout \/ iter_end
    \/ \E e \in Elms : insert(e) \/ remove_obj(e)
    \/ \E k \in Keys : find_rehash(k) \/ dhash_rm_elm(k)

Spec == Init /\ [][Next]_vars

(* The thread goes on with a loop it has begun.                             *)
Fairness ==
    /\ WF_vars(rehash_move \/ rehash_end)
    /\ WF_vars(iter_next \/ iter_takeout \/ iter_end)

FairSpec == Spec /\ Fairness

-----------------------------------------------------------------------------

TypeOK ==
    /\ dh_bucket \in Seq(Seq(Elms)) /\ out \in Seq(Seq(Elms))
    /\ dh_bk_size \in Size..(MaxSize + Size)
    /\ dh_elm_cnt \in Int /\ count \in Nat
    /\ dh_curr \in 0..dh_bk_size
    /\ dh_iter \in Elms \cup {None}
    /\ pc \in {"idle", "rehash", "iter"}
    /\ linked \in Seq(Elms)
    /\ awaited \subseteq Elms
    /\ inserts \in 0..MaxInserts

Places(table, e) ==
    UNION {{i} \X {j \in DOMAIN table[i] : table[i][j] = e} : i \in DOMAIN table}

(* Every element that was inserted and not removed is in exactly one chain  *)
(* of the table or, during a rehash, of the new one, and no other element   *)
(* is in any: neither moving nor taking out through the iterator loses or   *)
(* doubles one.                                                             *)
LinkedOnce ==
    \A e \in Elms :
        Cardinality(Places(dh_bucket, e)) + Cardinality(Places(out, e))
            = IF e \in Attached THEN 1 ELSE 0

(* The counter is exact whenever the caller sees it, though dhash_rehash    *)
(* resets it, lets the iterator take it below zero and then replaces it.    *)
CountExact ==
    IF pc = "rehash" THEN count + dh_elm_cnt = 0
    ELSE dh_elm_cnt = Len(linked)

(* A lookup finds the element of that key that was inserted first, and      *)
(* nothing when there is none, however often the table was rebuilt.         *)
FindsOldest ==
    pc # "rehash" =>
        \A k \in Keys :
            LET same == {i \in DOMAIN linked : Key[linked[i]] = k}
                first == CHOOSE i \in same : \A j \in same : i <= j
            IN  Found(k) = IF same = {} THEN None ELSE linked[first]

(* The table is what its callers take it for after any sequence of inserts, *)
(* removals, rebuilding lookups and iterations: typed, every element linked *)
(* once, counted and found by its key.                                      *)
TableSound == TypeOK /\ LinkedOnce /\ CountExact /\ FindsOldest

(* The iterator stands on an element of its chain: what dhash_rehash and    *)
(* iter_takeout assert of the element they remove.                          *)
IterSound ==
    pc # "idle" /\ dh_curr # 0 => In(dh_iter, dh_bucket[dh_curr])

(* An iteration that has come to the end has seen every element that was    *)
(* there all the time, though it and the caller took others out of the same *)
(* chains, and a rehash has moved all.                                      *)
IterComplete ==
    /\ pc = "iter" /\ dh_curr = 0 => awaited = {}
    /\ pc = "rehash" /\ dh_curr = 0 => count = Len(linked)

(* dhash_iter_next and dhash_iter_rm_curr together visit what they should:  *)
(* never a position that holds no element, and no element left out.         *)
IterationSound == IterSound /\ IterComplete

(* A rehash and an iteration come to their end, though the iterator steps   *)
(* back whenever it takes the first element of a chain.                     *)
LoopsEnd == pc # "idle" ~> pc = "idle"
=============================================================================
