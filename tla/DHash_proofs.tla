----------------------------- MODULE DHash_proofs -----------------------------
(***************************************************************************)
(* Proofs about DHash, for any elements, keys, sizes and lengths of chains. *)
(*                                                                          *)
(* That no element is lost and no iteration leaves one out is proved for    *)
(* any hashes.  That a lookup finds the oldest element of a key needs a     *)
(* table whose own hash is the one that its callers use.                    *)
(***************************************************************************)
EXTENDS DHash, FiniteSetTheorems, SequenceTheorems, WellFoundedInduction, TLAPS

USE DHashAssumption

-----------------------------------------------------------------------------
(* The inductive invariant.                                                 *)

(* The order of a chain, which has no element twice.                        *)
Distinct(chain) == \A i, j \in DOMAIN chain : chain[i] = chain[j] => i = j
Before(chain, d, e) ==
    \E i, j \in DOMAIN chain : i < j /\ chain[i] = d /\ chain[j] = e

InTable(table, e) == \E b \in DOMAIN table : In(e, table[b])

OneChain(table) ==
    /\ \A b \in DOMAIN table : Distinct(table[b])
    /\ \A b, c \in DOMAIN table, e \in Elms :
          In(e, table[b]) /\ In(e, table[c]) => b = c

(* Element e is at position <<curr, elm>> or comes after it.                *)
Ahead(table, curr, elm, e) ==
    /\ curr # 0
    /\ \E b \in DOMAIN table :
          /\ In(e, table[b])
          /\ \/ b > curr
             \/ b = curr /\ (e = elm \/ Before(table[b], elm, e))

(* An element is linked where it should be, and there only.                 *)
TablesOf(table, new, list) ==
    /\ OneChain(table) /\ OneChain(new) /\ Distinct(list)
    /\ \A e \in Elms : ~(InTable(table, e) /\ InTable(new, e))
    /\ \A e \in Elms : In(e, list) <=> InTable(table, e) \/ InTable(new, e)

Tables == TablesOf(dh_bucket, out, linked)

Control ==
    /\ IF pc = "rehash" THEN Len(out) = 1 + 2 * dh_bk_size /\ Len(out) <= MaxSize
       ELSE out = <<>>
    /\ pc = "idle" => dh_curr = 0
    /\ pc # "iter" => awaited = {}
    /\ dh_curr = 0 <=> dh_iter = None

Position == dh_curr # 0 => In(dh_iter, dh_bucket[dh_curr])

(* What an iteration or a rehash has still to see lies before it.           *)
Visits ==
    /\ pc = "iter" => \A e \in awaited : Ahead(dh_bucket, dh_curr, dh_iter, e)
    /\ pc = "rehash" =>
          \A e \in Elms : InTable(dh_bucket, e) => Ahead(dh_bucket, dh_curr, dh_iter, e)

Moved == {e \in Elms : InTable(out, e)}

Counts ==
    /\ IsFiniteSet(Attached) /\ Cardinality(Attached) = Len(linked)
    /\ pc # "rehash" => dh_elm_cnt = Len(linked)
    /\ pc = "rehash" =>
          count + dh_elm_cnt = 0 /\ IsFiniteSet(Moved) /\ count = Cardinality(Moved)

IInv == TypeOK /\ Tables /\ Control /\ Position /\ Visits /\ Counts

(* With one hash, an element is in the chain of its key, and elements with  *)
(* the same key keep the order in which they were inserted.                 *)
Hashed(table) ==
    \A b \in DOMAIN table, e \in Elms :
        In(e, table[b]) => b = Index(hash_fn, Key[e], Len(table))

InOrder(table, list) ==
    \A b \in DOMAIN table, d, e \in Elms :
        /\ In(d, table[b]) /\ In(e, table[b])
        /\ Key[d] = Key[e] /\ Before(list, d, e)
        => Before(table[b], d, e)

OldestFirst(table, new, list) ==
    \A d, e \in Elms :
        Key[d] = Key[e] /\ Before(list, d, e)
            => ~(InTable(table, d) /\ InTable(new, e))

KeysOf(table, new, list) ==
    /\ Hashed(table) /\ Hashed(new)
    /\ InOrder(table, list) /\ InOrder(new, list)
    /\ OldestFirst(table, new, list)

KeyInv == KeysOf(dh_bucket, out, linked)

-----------------------------------------------------------------------------
(* Chains.                                                                  *)

LEMMA WhereIs ==
    ASSUME NEW S, NEW chain \in Seq(S), NEW e, In(e, chain)
    PROVE  Where(e, chain) \in 1..Len(chain) /\ chain[Where(e, chain)] = e
<1>1. \E i \in DOMAIN chain : chain[i] = e
  BY DEF In
<1>2. Where(e, chain) \in DOMAIN chain /\ chain[Where(e, chain)] = e
  BY <1>1 DEF Where
<1>3. QED
  BY <1>2

(* A chain joined from its two ends about index i is without its i-th       *)
(* element.                                                                 *)
LEMMA JoinedNth ==
    ASSUME NEW S, NEW chain \in Seq(S), NEW i \in 1..Len(chain)
    PROVE  LET w == SubSeq(chain, 1, i - 1) \o SubSeq(chain, i + 1, Len(chain))
           IN  /\ w \in Seq(S) /\ Len(w) = Len(chain) - 1
               /\ \A k \in 1..(Len(chain) - 1) :
                     w[k] = IF k < i THEN chain[k] ELSE chain[k + 1]
<1> DEFINE a == SubSeq(chain, 1, i - 1)
           b == SubSeq(chain, i + 1, Len(chain))
<1>1. a \in Seq(S) /\ Len(a) = i - 1 /\ \A k \in 1..(i - 1) : a[k] = chain[k]
  OBVIOUS
<1>2. /\ b \in Seq(S) /\ Len(b) = Len(chain) - i
      /\ \A k \in 1..(Len(chain) - i) : b[k] = chain[i + k]
  <2>1. b \in Seq(S)
    OBVIOUS
  <2>2. Len(b) = Len(chain) - i
    OBVIOUS
  <2>3. \A k \in 1..(Len(chain) - i) : b[k] = chain[i + k]
    OBVIOUS
  <2>4. QED
    BY <2>1, <2>2, <2>3
<1> HIDE DEF a, b
<1>0. Len(chain) \in Nat /\ i \in Nat
  OBVIOUS
<1>3. a \o b \in Seq(S) /\ Len(a \o b) = Len(chain) - 1
  <2>1. a \o b \in Seq(S) /\ Len(a \o b) = Len(a) + Len(b)
    BY <1>1, <1>2, ConcatProperties, ZenonT(60)
  <2>2. Len(a) + Len(b) = Len(chain) - 1
    BY <1>0, <1>1, <1>2
  <2>3. QED
    BY <2>1, <2>2
<1>4. ASSUME NEW k \in 1..(Len(chain) - 1)
      PROVE  (a \o b)[k] = IF k < i THEN chain[k] ELSE chain[k + 1]
  <2>1. (a \o b)[k] = IF k <= Len(a) THEN a[k] ELSE b[k - Len(a)]
    BY <1>1, <1>2, ConcatProperties
  <2>2. CASE k < i
    BY <1>1, <2>1, <2>2
  <2>3. CASE k >= i
    <3>1. k - (i - 1) \in 1..(Len(chain) - i)
      BY <2>3
    <3>2. (a \o b)[k] = b[k - (i - 1)]
      BY <1>1, <2>1, <2>3
    <3>3. QED
      BY <1>2, <2>3, <3>1, <3>2
  <2>4. k \in Nat /\ (k < i \/ k >= i)
    BY <1>0
  <2>5. QED
    BY <2>2, <2>3, <2>4
<1>5. QED
  BY <1>3, <1>4 DEF a, b

LEMMA WithoutFacts ==
    ASSUME NEW S, NEW chain \in Seq(S), Distinct(chain), NEW e
    PROVE  /\ Without(chain, e) \in Seq(S)
           /\ Len(Without(chain, e)) = IF In(e, chain) THEN Len(chain) - 1 ELSE Len(chain)
           /\ Distinct(Without(chain, e))
           /\ \A d : In(d, Without(chain, e)) <=> In(d, chain) /\ d # e
           /\ \A c, d : Before(Without(chain, e), c, d)
                           <=> Before(chain, c, d) /\ c # e /\ d # e
<1>1. CASE ~In(e, chain)
  BY <1>1 DEF Without, In, Before
<1>2. CASE In(e, chain)
  <2> DEFINE i == Where(e, chain)
             w == Without(chain, e)
             n == Len(chain)
  <2>1. n \in Nat /\ DOMAIN chain = 1..n /\ i \in 1..n /\ chain[i] = e
    BY <1>2, WhereIs
  <2>2. w = SubSeq(chain, 1, i - 1) \o SubSeq(chain, i + 1, n)
    BY <1>2 DEF Without
  <2> HIDE DEF i, w
  <2>3. /\ w \in Seq(S) /\ Len(w) = n - 1
        /\ \A k \in 1..(n - 1) : w[k] = IF k < i THEN chain[k] ELSE chain[k + 1]
    BY <2>1, <2>2, JoinedNth
  <2> HIDE DEF n
  <2>4. DOMAIN w = 1..(n - 1)
    BY <2>3
  <2>5. \A k \in 1..n : chain[k] = e => k = i
    BY <2>1 DEF Distinct
  <2>6. \A k \in 1..(n - 1) : w[k] # e
    BY <2>1, <2>3, <2>5
  <2>7. Distinct(w)
    <3>1. ASSUME NEW j \in 1..(n - 1), NEW k \in 1..(n - 1), w[j] = w[k] PROVE j = k
      <4> DEFINE x == IF j < i THEN j ELSE j + 1
                 y == IF k < i THEN k ELSE k + 1
      <4>1. x \in 1..n /\ y \in 1..n /\ chain[x] = chain[y]
        BY <2>1, <2>3, <3>1
      <4>2. x = y
        BY <2>1, <4>1 DEF Distinct
      <4>3. QED
        BY <2>1, <4>2
    <3>2. QED
      BY <2>4, <3>1 DEF Distinct
  <2>8. \A k \in 1..n : k # i =>
            /\ (IF k < i THEN k ELSE k - 1) \in 1..(n - 1)
            /\ w[IF k < i THEN k ELSE k - 1] = chain[k]
    BY <2>1, <2>3
  <2>9. ASSUME NEW d PROVE In(d, w) <=> In(d, chain) /\ d # e
    <3>1. ASSUME In(d, w) PROVE In(d, chain) /\ d # e
      <4>1. PICK k \in 1..(n - 1) : w[k] = d
        BY <2>4, <3>1 DEF In
      <4>2. k \in 1..n /\ k + 1 \in 1..n /\ (chain[k] = d \/ chain[k + 1] = d)
        BY <2>1, <2>3, <4>1
      <4>3. QED
        BY <2>1, <2>6, <4>1, <4>2 DEF In
    <3>2. ASSUME In(d, chain), d # e PROVE In(d, w)
      <4>1. PICK k \in 1..n : chain[k] = d
        BY <2>1, <3>2 DEF In
      <4>2. k # i
        BY <2>1, <3>2, <4>1
      <4>3. QED
        BY <2>4, <2>8, <4>1, <4>2 DEF In
    <3>3. QED
      BY <3>1, <3>2
  <2>10. ASSUME NEW c, NEW d PROVE Before(w, c, d) <=> Before(chain, c, d) /\ c # e /\ d # e
    <3>1. ASSUME Before(w, c, d) PROVE Before(chain, c, d) /\ c # e /\ d # e
      <4>1. PICK j, k \in 1..(n - 1) : j < k /\ w[j] = c /\ w[k] = d
        BY <2>4, <3>1 DEF Before
      <4> DEFINE x == IF j < i THEN j ELSE j + 1
                 y == IF k < i THEN k ELSE k + 1
      <4>2. x \in 1..n /\ y \in 1..n /\ x < y
        BY <2>1, <4>1
      <4>3. chain[x] = c /\ chain[y] = d
        BY <2>3, <4>1
      <4> HIDE DEF x, y
      <4>4. QED
        BY <2>1, <2>6, <4>1, <4>2, <4>3 DEF Before
    <3>2. ASSUME Before(chain, c, d), c # e, d # e PROVE Before(w, c, d)
      <4>1. PICK j, k \in 1..n : j < k /\ chain[j] = c /\ chain[k] = d
        BY <2>1, <3>2 DEF Before
      <4>2. j # i /\ k # i
        BY <2>1, <3>2, <4>1
      <4> DEFINE x == IF j < i THEN j ELSE j - 1
                 y == IF k < i THEN k ELSE k - 1
      <4>3. x \in 1..(n - 1) /\ y \in 1..(n - 1) /\ w[x] = c /\ w[y] = d
        BY <2>8, <4>1, <4>2
      <4>4. x < y
        BY <2>1, <4>1, <4>2
      <4> HIDE DEF x, y
      <4>5. QED
        BY <2>4, <4>3, <4>4 DEF Before
    <3>3. QED
      BY <3>1, <3>2
  <2>11. QED
    BY <1>2, <2>3, <2>7, <2>9, <2>10 DEF w, n
<1>3. QED
  BY <1>1, <1>2

LEMMA AppendFacts ==
    ASSUME NEW S, NEW chain \in Seq(S), Distinct(chain), NEW e \in S, ~In(e, chain)
    PROVE  /\ Append(chain, e) \in Seq(S)
           /\ Len(Append(chain, e)) = Len(chain) + 1
           /\ Distinct(Append(chain, e))
           /\ \A d : In(d, Append(chain, e)) <=> In(d, chain) \/ d = e
           /\ \A c, d : Before(Append(chain, e), c, d)
                           <=> Before(chain, c, d) \/ (In(c, chain) /\ d = e)
<1> DEFINE a == Append(chain, e)
           n == Len(chain)
<1>1. /\ n \in Nat /\ DOMAIN chain = 1..n
      /\ a \in Seq(S) /\ Len(a) = n + 1 /\ DOMAIN a = 1..(n + 1)
      /\ \A k \in 1..n : a[k] = chain[k]
      /\ a[n + 1] = e
  OBVIOUS
<1> HIDE DEF a, n
<1>2. \A k \in 1..n : chain[k] # e
  BY <1>1 DEF In
<1>3. Distinct(a)
  <2>1. ASSUME NEW j \in 1..(n + 1), NEW k \in 1..(n + 1), a[j] = a[k] PROVE j = k
    <3>1. CASE j \in 1..n /\ k \in 1..n
      BY <1>1, <2>1, <3>1 DEF Distinct
    <3>2. CASE j = n + 1 /\ k \in 1..n
      BY <1>1, <1>2, <2>1, <3>2
    <3>3. CASE j \in 1..n /\ k = n + 1
      BY <1>1, <1>2, <2>1, <3>3
    <3>4. QED
      BY <1>1, <3>1, <3>2, <3>3
  <2>2. QED
    BY <1>1, <2>1 DEF Distinct
<1>4. ASSUME NEW d PROVE In(d, a) <=> In(d, chain) \/ d = e
  <2>1. ASSUME In(d, a) PROVE In(d, chain) \/ d = e
    <3>1. PICK k \in 1..(n + 1) : a[k] = d
      BY <1>1, <2>1 DEF In
    <3>2. k \in 1..n \/ k = n + 1
      BY <1>1
    <3>3. QED
      BY <1>1, <3>1, <3>2 DEF In
  <2>2. ASSUME In(d, chain) PROVE In(d, a)
    <3>1. PICK k \in 1..n : chain[k] = d
      BY <1>1, <2>2 DEF In
    <3>2. k \in 1..(n + 1)
      BY <1>1
    <3>3. QED
      BY <1>1, <3>1, <3>2 DEF In
  <2>3. In(e, a)
    <3>1. n + 1 \in 1..(n + 1)
      BY <1>1
    <3>2. QED
      BY <1>1, <3>1 DEF In
  <2>4. QED
    BY <2>1, <2>2, <2>3
<1>5. ASSUME NEW c, NEW d
      PROVE  Before(a, c, d) <=> Before(chain, c, d) \/ (In(c, chain) /\ d = e)
  <2>1. ASSUME Before(a, c, d) PROVE Before(chain, c, d) \/ (In(c, chain) /\ d = e)
    <3>1. PICK j, k \in 1..(n + 1) : j < k /\ a[j] = c /\ a[k] = d
      BY <1>1, <2>1 DEF Before
    <3>2. j \in 1..n /\ chain[j] = c
      BY <1>1, <3>1
    <3>3. In(c, chain)
      BY <1>1, <3>2 DEF In
    <3>4. CASE k \in 1..n
      <4>1. j \in DOMAIN chain /\ k \in DOMAIN chain /\ chain[k] = d
        BY <1>1, <3>1, <3>2, <3>4
      <4>2. j < k /\ chain[j] = c
        BY <3>1, <3>2
      <4>3. Before(chain, c, d)
        BY <4>1, <4>2 DEF Before
      <4>4. QED
        BY <4>3
    <3>5. CASE k = n + 1
      BY <1>1, <3>1, <3>3, <3>5
    <3>6. QED
      BY <1>1, <3>4, <3>5
  <2>2. ASSUME Before(chain, c, d) PROVE Before(a, c, d)
    BY <1>1, <2>2 DEF Before
  <2>3. ASSUME In(c, chain), d = e PROVE Before(a, c, d)
    <3>1. PICK j \in 1..n : chain[j] = c
      BY <1>1, <2>3 DEF In
    <3>2. j < n + 1 /\ j \in 1..(n + 1) /\ n + 1 \in 1..(n + 1)
      BY <1>1
    <3>3. QED
      BY <1>1, <2>3, <3>1, <3>2 DEF Before
  <2>4. QED
    BY <2>1, <2>2, <2>3
<1>6. QED
  BY <1>1, <1>3, <1>4, <1>5 DEF a, n

(* The order of a chain is one.                                             *)
LEMMA BeforeFacts ==
    ASSUME NEW S, NEW chain \in Seq(S), Distinct(chain)
    PROVE  /\ \A d, e : Before(chain, d, e) => In(d, chain) /\ In(e, chain) /\ d # e
           /\ \A d, e : ~(Before(chain, d, e) /\ Before(chain, e, d))
           /\ \A c, d, e : Before(chain, c, d) /\ Before(chain, d, e) => Before(chain, c, e)
           /\ \A d, e : In(d, chain) /\ In(e, chain)
                           => d = e \/ Before(chain, d, e) \/ Before(chain, e, d)
<1>1. Len(chain) \in Nat /\ DOMAIN chain = 1..Len(chain)
  OBVIOUS
<1>2. \A d, e : Before(chain, d, e) => In(d, chain) /\ In(e, chain) /\ d # e
  BY <1>1 DEF Before, In, Distinct
<1>3. \A d, e : ~(Before(chain, d, e) /\ Before(chain, e, d))
  BY <1>1 DEF Before, Distinct
<1>4. \A c, d, e : Before(chain, c, d) /\ Before(chain, d, e) => Before(chain, c, e)
  BY <1>1 DEF Before, Distinct
<1>5. \A d, e : In(d, chain) /\ In(e, chain)
                    => d = e \/ Before(chain, d, e) \/ Before(chain, e, d)
  BY <1>1 DEF Before, In
<1>6. QED
  BY <1>2, <1>3, <1>4, <1>5

(* Smallest members, of which the model chooses.                            *)
LEMMA HasSmallest ==
    ASSUME NEW T \in SUBSET Nat, T # {}
    PROVE  \E x \in T : \A y \in T : x <= y
<1> DEFINE R == {ss \in Nat \X Nat : ss[1] < ss[2]}
<1>1. IsWellFoundedOn(R, Nat)
  BY NatLessThanWellFounded DEF OpToRel
<1>2. \A x, y \in Nat : y < x => <<y, x>> \in R
  OBVIOUS
<1> HIDE DEF R
<1>3. PICK x \in T : \A y \in T : ~(<<y, x>> \in R)
  BY <1>1, WFMin
<1>4. \A y \in T : x \in Nat /\ y \in Nat /\ ~(y < x)
  BY <1>2, <1>3
<1>5. \A y \in T : x <= y
  BY <1>4
<1>6. QED
  BY <1>5

-----------------------------------------------------------------------------
(* Positions of the iterator.                                               *)

(* Element d comes after e in its chain; all do after the head of its list. *)
Follows(chain, e, d) == In(d, chain) /\ (e = None \/ Before(chain, e, d))

(* The same in the table, after position <<curr, elm>>.                     *)
After(table, curr, elm, e) ==
    \E b \in DOMAIN table :
        /\ In(e, table[b])
        /\ b > curr \/ (b = curr /\ Follows(table[b], elm, e))

TakenOut(table, e) == [i \in DOMAIN table |-> Without(table[i], e)]

LEMMA NextFacts ==
    ASSUME NEW chain \in Seq(Elms), Distinct(chain), NEW e, e = None \/ In(e, chain)
    PROVE  LET n == NextOf(chain, e)
           IN  /\ n = None => \A d : ~Follows(chain, e, d)
               /\ n # None => /\ n \in Elms /\ In(n, chain) /\ Follows(chain, e, n)
                              /\ \A d : Follows(chain, e, d) => d = n \/ Before(chain, n, d)
<1> DEFINE i == IF e = None THEN 0 ELSE Where(e, chain)
           n == NextOf(chain, e)
           len == Len(chain)
<1>1. len \in Nat /\ DOMAIN chain = 1..len /\ \A k \in 1..len : chain[k] \in Elms
  OBVIOUS
<1>2. e # None => i \in 1..len /\ chain[i] = e
  BY WhereIs
<1>3. n = IF i < len THEN chain[i + 1] ELSE None
  BY DEF NextOf
<1>4. e = None => i = 0
  OBVIOUS
<1> HIDE DEF i, n, len
<1>5. i \in 0..len
  BY <1>1, <1>2, <1>4
<1>6. ASSUME NEW d, Follows(chain, e, d)
      PROVE  \E k \in 1..len : k > i /\ chain[k] = d
  <2>1. CASE e = None
    BY <1>1, <1>4, <1>6, <2>1 DEF Follows, In
  <2>2. CASE e # None
    <3>1. PICK j, k \in 1..len : j < k /\ chain[j] = e /\ chain[k] = d
      BY <1>1, <1>6, <2>2 DEF Follows, Before
    <3>2. j = i
      BY <1>1, <1>2, <2>2, <3>1 DEF Distinct
    <3>3. QED
      BY <1>1, <1>5, <3>1, <3>2
  <2>3. QED
    BY <2>1, <2>2
<1>7. CASE i < len
  <2>1. i + 1 \in 1..len /\ n = chain[i + 1] /\ i < i + 1
    BY <1>1, <1>3, <1>5, <1>7
  <2>2. n \in Elms /\ n # None
    BY <1>1, <2>1
  <2>3. In(n, chain)
    BY <1>1, <2>1 DEF In
  <2>4. Follows(chain, e, n)
    <3>1. CASE e = None
      BY <2>3, <3>1 DEF Follows
    <3>2. CASE e # None
      <4>1. i \in DOMAIN chain /\ i + 1 \in DOMAIN chain
        BY <1>1, <1>2, <2>1, <3>2
      <4>2. Before(chain, e, n)
        BY <1>2, <2>1, <3>2, <4>1 DEF Before
      <4>3. QED
        BY <2>3, <4>2 DEF Follows
    <3>3. QED
      BY <3>1, <3>2
  <2>5. ASSUME NEW d, Follows(chain, e, d) PROVE d = n \/ Before(chain, n, d)
    <3>1. PICK k \in 1..len : k > i /\ chain[k] = d
      BY <1>6, <2>5
    <3>2. CASE k = i + 1
      BY <2>1, <3>1, <3>2
    <3>3. CASE k # i + 1
      <4>1. i + 1 < k
        BY <1>1, <1>5, <3>1, <3>3
      <4>2. QED
        BY <1>1, <2>1, <3>1, <4>1 DEF Before
    <3>4. QED
      BY <3>2, <3>3
  <2>6. QED
    BY <2>2, <2>3, <2>4, <2>5 DEF n
<1>8. CASE ~(i < len)
  <2>1. n = None
    BY <1>3, <1>8
  <2>2. \A d : ~Follows(chain, e, d)
    BY <1>1, <1>5, <1>6, <1>8
  <2>3. QED
    BY <2>1, <2>2 DEF n
<1>9. QED
  BY <1>7, <1>8

LEMMA PrevFacts ==
    ASSUME NEW chain \in Seq(Elms), Distinct(chain), NEW e, In(e, chain),
           PrevOf(chain, e) # None
    PROVE  LET p == PrevOf(chain, e)
           IN  p \in Elms /\ p # e /\ In(p, chain) /\ Before(chain, p, e)
<1> DEFINE i == Where(e, chain)
<1>1. i \in 1..Len(chain) /\ chain[i] = e /\ DOMAIN chain = 1..Len(chain)
  BY WhereIs
<1>2. PrevOf(chain, e) = IF i > 1 THEN chain[i - 1] ELSE None
  BY DEF PrevOf
<1> HIDE DEF i
<1>3. i > 1 /\ i - 1 \in 1..Len(chain) /\ i - 1 < i
  BY <1>1, <1>2
<1>4. PrevOf(chain, e) = chain[i - 1] /\ chain[i - 1] \in Elms
  BY <1>2, <1>3
<1>5. Before(chain, PrevOf(chain, e), e)
  BY <1>1, <1>3, <1>4 DEF Before
<1>6. QED
  BY <1>4, <1>5, BeforeFacts

LEMMA FirstFacts ==
    ASSUME NEW table, NEW i, table[i] \in Seq(Elms), Distinct(table[i])
    PROVE  /\ table[i] = <<>> => First(table, i) = None /\ \A d : ~In(d, table[i])
           /\ table[i] # <<>> =>
                 /\ First(table, i) \in Elms /\ In(First(table, i), table[i])
                 /\ \A d : In(d, table[i])
                             => d = First(table, i) \/ Before(table[i], First(table, i), d)
<1> DEFINE chain == table[i]
           f == First(table, i)
<1>1. Len(chain) \in Nat /\ DOMAIN chain = 1..Len(chain)
  OBVIOUS
<1>2. CASE chain = <<>>
  <2>1. DOMAIN chain = {}
    BY <1>2
  <2>2. QED
    BY <1>2, <2>1 DEF First, In
<1>3. CASE chain # <<>>
  <2>1. Len(chain) >= 1 /\ f = chain[1] /\ 1 \in DOMAIN chain
    BY <1>1, <1>3 DEF First
  <2>2. f \in Elms
    BY <1>1, <2>1
  <2> HIDE DEF f, chain
  <2>3. In(f, chain)
    BY <2>1 DEF In
  <2>4. ASSUME NEW d, In(d, chain) PROVE d = f \/ Before(chain, f, d)
    <3>1. PICK k \in 1..Len(chain) : chain[k] = d
      BY <1>1, <2>4 DEF In
    <3>2. k = 1 \/ 1 < k
      BY <1>1
    <3>3. QED
      BY <1>1, <2>1, <3>1, <3>2 DEF Before
  <2>5. QED
    BY <1>3, <2>2, <2>3, <2>4 DEF f, chain
<1>4. QED
  BY <1>2, <1>3

LEMMA IsSequence ==
    ASSUME NEW S, NEW n \in Nat, NEW f \in [1..n -> S]
    PROVE  f \in Seq(S) /\ Len(f) = n
BY SeqDef

(* A table from which an element was taken out.                             *)
Taken(table, new, e) ==
    /\ new \in Seq(Seq(Elms)) /\ Len(new) = Len(table)
    /\ DOMAIN new = DOMAIN table
    /\ OneChain(new)
    /\ \A b \in DOMAIN table :
          /\ \A d : In(d, new[b]) <=> In(d, table[b]) /\ d # e
          /\ \A c, d : Before(new[b], c, d) <=> Before(table[b], c, d) /\ c # e /\ d # e
    /\ \A d : InTable(new, d) <=> InTable(table, d) /\ d # e

(* Where an iterator may be: at the end or on an element.                   *)
Positioned(table, p) ==
    \/ p = <<0, None>>
    \/ p[1] \in DOMAIN table /\ p[2] \in Elms /\ In(p[2], table[p[1]])

LEMMA TakenOutFacts ==
    ASSUME NEW table \in Seq(Seq(Elms)), OneChain(table), NEW e
    PROVE  Taken(table, TakenOut(table, e), e)
<1> DEFINE new == TakenOut(table, e)
<1>1. DOMAIN table = 1..Len(table) /\ Len(table) \in Nat
  OBVIOUS
<1>2. \A b \in DOMAIN table : table[b] \in Seq(Elms) /\ Distinct(table[b])
  BY DEF OneChain
<1>3. DOMAIN new = DOMAIN table /\ \A b \in DOMAIN table : new[b] = Without(table[b], e)
  BY DEF TakenOut
<1> HIDE DEF new
<1>4. ASSUME NEW b \in DOMAIN table
      PROVE  /\ new[b] \in Seq(Elms) /\ Distinct(new[b])
             /\ \A d : In(d, new[b]) <=> In(d, table[b]) /\ d # e
             /\ \A c, d : Before(new[b], c, d) <=> Before(table[b], c, d) /\ c # e /\ d # e
  BY <1>2, <1>3, WithoutFacts
<1>5. new \in Seq(Seq(Elms)) /\ Len(new) = Len(table)
  <2>1. new \in [1..Len(table) -> Seq(Elms)]
    <3>1. new = [b \in DOMAIN table |-> new[b]]
      BY <1>3 DEF new, TakenOut
    <3>2. QED
      BY <1>1, <1>4, <3>1
  <2>2. new \in Seq(Seq(Elms))
    BY <1>1, <2>1, IsSequence
  <2>3. QED
    BY <1>1, <2>1, <2>2
<1>6. OneChain(new)
  <2>1. ASSUME NEW b \in DOMAIN table, NEW c \in DOMAIN table, NEW d \in Elms,
               In(d, new[b]), In(d, new[c])
        PROVE  b = c
    BY <1>4, <2>1 DEF OneChain
  <2>2. QED
    BY <1>3, <1>4, <2>1 DEF OneChain
<1>7. \A d : InTable(new, d) <=> InTable(table, d) /\ d # e
  BY <1>3, <1>4 DEF InTable
<1>8. QED
  BY <1>3, <1>4, <1>5, <1>6, <1>7 DEF new, Taken

(* The bucket after bucket c that is not empty.                             *)
LEMMA NextBucketFacts ==
    ASSUME NEW table \in Seq(Seq(Elms)), OneChain(table), NEW c \in Nat
    PROVE  LET p == NextBucket(table, c)
           IN  \/ /\ p = <<0, None>>
                  /\ \A b \in DOMAIN table : b > c => \A d : ~In(d, table[b])
               \/ /\ p = <<p[1], p[2]>>
                  /\ p[1] \in DOMAIN table /\ p[1] > c
                  /\ p[2] \in Elms /\ In(p[2], table[p[1]])
                  /\ \A b \in DOMAIN table : b > c /\ b < p[1] => \A d : ~In(d, table[b])
                  /\ \A d : In(d, table[p[1]]) => d = p[2] \/ Before(table[p[1]], p[2], d)
<1> DEFINE full == {j \in (c + 1)..Len(table) : table[j] # <<>>}
           m == CHOOSE j \in full : \A k \in full : j <= k
           p == NextBucket(table, c)
<1>1. DOMAIN table = 1..Len(table) /\ Len(table) \in Nat
  OBVIOUS
<1>2. \A b \in DOMAIN table : table[b] \in Seq(Elms) /\ Distinct(table[b])
  BY DEF OneChain
<1>3. p = IF full = {} THEN <<0, None>> ELSE <<m, First(table, m)>>
  BY DEF NextBucket
<1>4. \A b \in DOMAIN table : b > c => b \in (c + 1)..Len(table)
  BY <1>1
<1>5. \A b \in DOMAIN table : b > c /\ b \notin full => \A d : ~In(d, table[b])
  <2>1. ASSUME NEW b \in DOMAIN table, b > c, b \notin full PROVE \A d : ~In(d, table[b])
    <3>1. table[b] = <<>>
      BY <1>4, <2>1
    <3>2. QED
      BY <1>2, <3>1, FirstFacts
  <2>2. QED
    BY <2>1
<1>6. full \in SUBSET Nat /\ full \subseteq DOMAIN table
      /\ \A j \in full : j > c /\ table[j] # <<>>
  BY <1>1
<1>7. full # {} => m \in full /\ \A k \in full : m <= k
  BY <1>6, HasSmallest
<1> HIDE DEF full, m, p
<1>8. CASE full = {}
  <2>1. p = <<0, None>>
    BY <1>3, <1>8
  <2>2. \A b \in DOMAIN table : b > c => \A d : ~In(d, table[b])
    BY <1>5, <1>8
  <2>3. QED
    BY <2>1, <2>2 DEF p
<1>9. CASE full # {}
  <2>1. p = <<m, First(table, m)>> /\ p[1] = m /\ p[2] = First(table, m)
    BY <1>3, <1>9
  <2>2. m \in full /\ m \in DOMAIN table /\ m > c /\ table[m] # <<>> /\ \A k \in full : m <= k
    BY <1>6, <1>7, <1>9
  <2>3. /\ First(table, m) \in Elms /\ In(First(table, m), table[m])
        /\ \A d : In(d, table[m])
                    => d = First(table, m) \/ Before(table[m], First(table, m), d)
    BY <1>2, <2>2, FirstFacts
  <2>4. ASSUME NEW b \in DOMAIN table, b > c, b < m PROVE b \notin full
    BY <1>1, <2>2, <2>4
  <2>5. \A b \in DOMAIN table : b > c /\ b < m => \A d : ~In(d, table[b])
    BY <1>5, <2>4
  <2>6. QED
    BY <2>1, <2>2, <2>3, <2>5 DEF p
<1>10. QED
  BY <1>8, <1>9

(* dhash_iter_next leaves out nothing that comes after the position.        *)
LEMMA IterNextFacts ==
    ASSUME NEW table \in Seq(Seq(Elms)), OneChain(table),
           NEW c \in DOMAIN table, NEW m, m = None \/ In(m, table[c]),
           m = None => c = 1 \/ \A d : ~In(d, table[c])
    PROVE  LET p == IterNext(table, c, m)
           IN  /\ Positioned(table, p)
               /\ \A e : After(table, c, m, e) => Ahead(table, p[1], p[2], e)
<1> DEFINE n == NextOf(table[c], m)
           p == IterNext(table, c, m)
           q == NextBucket(table, c)
<1>1. DOMAIN table = 1..Len(table) /\ Len(table) \in Nat /\ c \in Nat
  OBVIOUS
<1>2. table[c] \in Seq(Elms) /\ Distinct(table[c])
  BY DEF OneChain
<1>3. /\ n = None => \A d : ~Follows(table[c], m, d)
      /\ n # None => /\ n \in Elms /\ In(n, table[c]) /\ Follows(table[c], m, n)
                     /\ \A d : Follows(table[c], m, d) => d = n \/ Before(table[c], n, d)
  BY <1>2, NextFacts
<1>4. p = IF (m # None \/ c = 1) /\ n # None THEN <<c, n>> ELSE q
  BY DEF IterNext
<1>5. \/ /\ q = <<0, None>>
         /\ \A b \in DOMAIN table : b > c => \A d : ~In(d, table[b])
      \/ /\ q = <<q[1], q[2]>>
         /\ q[1] \in DOMAIN table /\ q[1] > c
         /\ q[2] \in Elms /\ In(q[2], table[q[1]])
         /\ \A b \in DOMAIN table : b > c /\ b < q[1] => \A d : ~In(d, table[b])
         /\ \A d : In(d, table[q[1]]) => d = q[2] \/ Before(table[q[1]], q[2], d)
  BY <1>1, NextBucketFacts
<1> HIDE DEF n, p, q
<1>6. CASE (m # None \/ c = 1) /\ n # None
  <2>1. p = <<c, n>> /\ p[1] = c /\ p[2] = n
    BY <1>4, <1>6
  <2>2. ASSUME NEW e, After(table, c, m, e) PROVE Ahead(table, c, n, e)
    <3>1. PICK b \in DOMAIN table :
              In(e, table[b]) /\ (b > c \/ (b = c /\ Follows(table[b], m, e)))
      BY <2>2 DEF After
    <3>2. b > c \/ (b = c /\ (e = n \/ Before(table[b], n, e)))
      BY <1>3, <1>6, <3>1
    <3>3. c # 0
      BY <1>1
    <3>4. QED
      BY <3>1, <3>2, <3>3 DEF Ahead
  <2>3. QED
    BY <1>3, <1>6, <2>1, <2>2 DEF p, Positioned
<1>7. CASE ~((m # None \/ c = 1) /\ n # None)
  <2>1. p = q
    BY <1>4, <1>7
  <2>2. \A d : ~Follows(table[c], m, d)
    BY <1>3, <1>7 DEF Follows
  <2>3. ASSUME NEW e, After(table, c, m, e) PROVE Ahead(table, q[1], q[2], e)
    <3>1. PICK b \in DOMAIN table :
              In(e, table[b]) /\ (b > c \/ (b = c /\ Follows(table[b], m, e)))
      BY <2>3 DEF After
    <3>2. b > c
      BY <2>2, <3>1
    <3>3. /\ q[1] \in DOMAIN table /\ q[1] > c
          /\ \A x \in DOMAIN table : x > c /\ x < q[1] => \A d : ~In(d, table[x])
          /\ \A d : In(d, table[q[1]]) => d = q[2] \/ Before(table[q[1]], q[2], d)
      BY <1>5, <3>1, <3>2
    <3>a. b \in Nat /\ q[1] \in Nat
      BY <1>1, <3>3
    <3>4. ~(b < q[1])
      BY <3>1, <3>2, <3>3
    <3>b. b > q[1] \/ b = q[1]
      BY <3>4, <3>a
    <3>5. b > q[1] \/ (b = q[1] /\ (e = q[2] \/ Before(table[b], q[2], e)))
      BY <3>1, <3>3, <3>b
    <3>6. q[1] # 0
      BY <1>1, <3>3, <3>a
    <3>7. QED
      BY <3>1, <3>5, <3>6 DEF Ahead
  <2>4. q = <<0, None>> \/ (q[1] \in DOMAIN table /\ q[2] \in Elms /\ In(q[2], table[q[1]]))
    BY <1>5
  <2>5. QED
    BY <2>1, <2>3, <2>4 DEF p, Positioned
<1>8. QED
  BY <1>6, <1>7

(* dhash_iter_init starts before everything.                                *)
LEMMA IterInitFacts ==
    ASSUME NEW table \in Seq(Seq(Elms)), OneChain(table), Len(table) >= 1
    PROVE  LET p == IterInit(table)
           IN  /\ Positioned(table, p)
               /\ \A e : InTable(table, e) => Ahead(table, p[1], p[2], e)
<1> DEFINE p == IterInit(table)
           f == First(table, 1)
           q == IterNext(table, 1, None)
<1>1. DOMAIN table = 1..Len(table) /\ Len(table) \in Nat /\ 1 \in DOMAIN table
  OBVIOUS
<1>a. \A b \in DOMAIN table : table[b] \in Seq(Elms) /\ Distinct(table[b])
  BY DEF OneChain
<1>2. table[1] \in Seq(Elms) /\ Distinct(table[1])
  BY <1>1, <1>a
<1>3. p = IF table[1] # <<>> THEN <<1, f>> ELSE q
  BY DEF IterInit
<1>4. table[1] # <<>> =>
          /\ f \in Elms /\ In(f, table[1])
          /\ \A d : In(d, table[1]) => d = f \/ Before(table[1], f, d)
  BY <1>2, FirstFacts
<1>5. /\ Positioned(table, q)
      /\ \A e : After(table, 1, None, e) => Ahead(table, q[1], q[2], e)
  BY <1>1, IterNextFacts
<1>b. \A b \in DOMAIN table : b > 1 \/ b = 1
  BY <1>1
<1>6. ASSUME NEW e, InTable(table, e)
      PROVE  \E b \in DOMAIN table : In(e, table[b]) /\ (b > 1 \/ b = 1)
  BY <1>b, <1>6 DEF InTable
<1> HIDE DEF p, f, q
<1>7. CASE table[1] # <<>>
  <2>1. p = <<1, f>> /\ p[1] = 1 /\ p[2] = f
    BY <1>3, <1>7
  <2>2. ASSUME NEW e, InTable(table, e) PROVE Ahead(table, 1, f, e)
    <3>1. PICK b \in DOMAIN table : In(e, table[b]) /\ (b > 1 \/ b = 1)
      BY <1>6, <2>2
    <3>2. b = 1 => e = f \/ Before(table[b], f, e)
      BY <1>4, <1>7, <3>1
    <3>3. QED
      BY <3>1, <3>2 DEF Ahead
  <2>3. QED
    BY <1>1, <1>4, <1>7, <2>1, <2>2 DEF p, Positioned
<1>8. CASE table[1] = <<>>
  <2>1. p = q
    BY <1>3, <1>8
  <2>2. ASSUME NEW e, InTable(table, e) PROVE After(table, 1, None, e)
    BY <1>6, <2>2 DEF After, Follows
  <2>3. QED
    BY <1>5, <2>1, <2>2 DEF p
<1>9. QED
  BY <1>7, <1>8

(* dhash_iter_rm_curr steps back behind nothing that is still to come.      *)
LEMMA IterBackFacts ==
    ASSUME NEW table \in Seq(Seq(Elms)), OneChain(table),
           NEW c \in DOMAIN table, NEW m \in Elms, In(m, table[c])
    PROVE  LET q == IterBack(table, c, m)
               new == TakenOut(table, m)
           IN  /\ q[1] \in DOMAIN table
               /\ q[2] = None \/ In(q[2], new[q[1]])
               /\ q[2] = None => q[1] = 1 \/ \A d : ~In(d, new[q[1]])
               /\ \A e : Ahead(table, c, m, e) /\ e # m => After(new, q[1], q[2], e)
<1> DEFINE q == IterBack(table, c, m)
           new == TakenOut(table, m)
           p == PrevOf(table[c], m)
           f == First(table, c - 1)
<1>1. DOMAIN table = 1..Len(table) /\ Len(table) \in Nat /\ c \in Nat /\ c >= 1
  OBVIOUS
<1>2. \A b \in DOMAIN table : table[b] \in Seq(Elms) /\ Distinct(table[b])
  BY DEF OneChain
<1>3. /\ DOMAIN new = DOMAIN table
      /\ \A b \in DOMAIN table :
            /\ \A d : In(d, new[b]) <=> In(d, table[b]) /\ d # m
            /\ \A d, e : Before(new[b], d, e) <=> Before(table[b], d, e) /\ d # m /\ e # m
  BY TakenOutFacts DEF Taken
<1>4. q = IF p # None THEN <<c, p>> ELSE IF c > 1 THEN <<c - 1, f>> ELSE <<1, None>>
  BY DEF IterBack
<1>5. p # None => p \in Elms /\ p # m /\ In(p, table[c]) /\ Before(table[c], p, m)
  BY <1>2, PrevFacts
<1>6. c > 1 => c - 1 \in DOMAIN table
  BY <1>1
<1>7. c > 1 =>
        /\ table[c - 1] = <<>> => f = None /\ \A d : ~In(d, table[c - 1])
        /\ table[c - 1] # <<>> => f \in Elms /\ In(f, table[c - 1])
  BY <1>2, <1>6, FirstFacts
<1>8. ASSUME NEW e, Ahead(table, c, m, e), e # m
      PROVE  \E b \in DOMAIN table :
                /\ In(e, table[b]) /\ In(e, new[b])
                /\ b > c \/ (b = c /\ Before(table[b], m, e))
  BY <1>3, <1>8 DEF Ahead
<1> HIDE DEF q, new, p, f
<1>9. CASE p # None
  <2>1. q = <<c, p>> /\ q[1] = c /\ q[2] = p
    BY <1>4, <1>9
  <2>2. p # m /\ In(p, new[c])
    BY <1>3, <1>5, <1>9
  <2>3. ASSUME NEW e, Ahead(table, c, m, e), e # m PROVE After(new, c, p, e)
    <3>1. PICK b \in DOMAIN table :
              /\ In(e, table[b]) /\ In(e, new[b])
              /\ b > c \/ (b = c /\ Before(table[b], m, e))
      BY <1>8, <2>3
    <3>2. b = c => Before(table[b], p, e)
      BY <1>2, <1>5, <1>9, <3>1, BeforeFacts
    <3>3. b = c => Before(new[b], p, e)
      BY <1>3, <2>2, <2>3, <3>2
    <3>4. QED
      BY <1>3, <3>1, <3>3 DEF After, Follows
  <2>4. QED
    BY <1>9, <2>1, <2>2, <2>3 DEF q, new
<1>10. CASE p = None /\ c > 1
  <2>1. q = <<c - 1, f>> /\ q[1] = c - 1 /\ q[2] = f
    BY <1>4, <1>10
  <2>2. c - 1 # c
    BY <1>1
  <2>3. ~In(m, table[c - 1])
    BY <1>6, <1>10, <2>2 DEF OneChain
  <2>4. \A d : In(d, new[c - 1]) <=> In(d, table[c - 1])
    BY <1>3, <1>6, <1>10, <2>3
  <2>5. f = None \/ In(f, new[c - 1])
    BY <1>7, <1>10, <2>4
  <2>6. f = None => \A d : ~In(d, new[c - 1])
    BY <1>7, <1>10, <2>4
  <2>7. ASSUME NEW e, Ahead(table, c, m, e), e # m PROVE After(new, c - 1, f, e)
    <3>1. PICK b \in DOMAIN table :
              /\ In(e, table[b]) /\ In(e, new[b])
              /\ b > c \/ (b = c /\ Before(table[b], m, e))
      BY <1>8, <2>7
    <3>2. b > c - 1
      BY <1>1, <3>1
    <3>3. QED
      BY <1>3, <3>1, <3>2 DEF After
  <2>8. QED
    BY <1>6, <1>10, <2>1, <2>5, <2>6, <2>7 DEF q, new
<1>11. CASE p = None /\ ~(c > 1)
  <2>1. q = <<1, None>> /\ q[1] = 1 /\ q[2] = None
    BY <1>4, <1>11
  <2>2. 1 \in DOMAIN table
    BY <1>1
  <2>3. ASSUME NEW e, Ahead(table, c, m, e), e # m PROVE After(new, 1, None, e)
    <3>1. PICK b \in DOMAIN table : In(e, table[b]) /\ In(e, new[b])
      BY <1>8, <2>3
    <3>2. b > 1 \/ b = 1
      BY <1>1
    <3>3. QED
      BY <1>3, <3>1, <3>2 DEF After, Follows
  <2>4. QED
    BY <2>1, <2>2, <2>3 DEF q, new
<1>12. QED
  BY <1>9, <1>10, <1>11

(* The element an iterator stands on is taken out and the iterator goes on. *)
LEMMA TakeoutStep ==
    ASSUME NEW table \in Seq(Seq(Elms)), OneChain(table),
           NEW c \in DOMAIN table, NEW m \in Elms, In(m, table[c])
    PROVE  LET q == IterBack(table, c, m)
               new == TakenOut(table, m)
               p == IterNext(new, q[1], q[2])
           IN  /\ Positioned(new, p)
               /\ \A e : Ahead(table, c, m, e) /\ e # m => Ahead(new, p[1], p[2], e)
<1> DEFINE q == IterBack(table, c, m)
           new == TakenOut(table, m)
<1>1. new \in Seq(Seq(Elms)) /\ OneChain(new) /\ DOMAIN new = DOMAIN table
  BY TakenOutFacts DEF Taken
<1>2. /\ q[1] \in DOMAIN table
      /\ q[2] = None \/ In(q[2], new[q[1]])
      /\ q[2] = None => q[1] = 1 \/ \A d : ~In(d, new[q[1]])
      /\ \A e : Ahead(table, c, m, e) /\ e # m => After(new, q[1], q[2], e)
  BY IterBackFacts
<1> HIDE DEF q, new
<1> DEFINE p == IterNext(new, q[1], q[2])
<1>3. q[1] \in DOMAIN new
  BY <1>1, <1>2
<1>4. /\ Positioned(new, p)
      /\ \A e : After(new, q[1], q[2], e) => Ahead(new, p[1], p[2], e)
  BY <1>1, <1>2, <1>3, IterNextFacts
<1> HIDE DEF p
<1>5. QED
  BY <1>1, <1>2, <1>4 DEF p, q, new

(* Another element is taken out, and one is put in, where an iterator is.   *)
LEMMA TakeoutAhead ==
    ASSUME NEW table \in Seq(Seq(Elms)), OneChain(table), NEW c, NEW m, NEW d,
           m # d, NEW e, e # d, Ahead(table, c, m, e)
    PROVE  Ahead(TakenOut(table, d), c, m, e)
<1> DEFINE new == TakenOut(table, d)
<1>1. /\ DOMAIN new = DOMAIN table
      /\ \A b \in DOMAIN table :
            /\ \A x : In(x, new[b]) <=> In(x, table[b]) /\ x # d
            /\ \A x, y : Before(new[b], x, y) <=> Before(table[b], x, y) /\ x # d /\ y # d
  BY TakenOutFacts DEF Taken
<1> HIDE DEF new
<1>2. PICK b \in DOMAIN table :
          In(e, table[b]) /\ (b > c \/ (b = c /\ (e = m \/ Before(table[b], m, e))))
  BY DEF Ahead
<1>3. In(e, new[b]) /\ (Before(table[b], m, e) => Before(new[b], m, e))
  BY <1>1, <1>2
<1>4. Ahead(new, c, m, e)
  BY <1>1, <1>2, <1>3 DEF Ahead
<1>5. QED
  BY <1>4 DEF new

LEMMA IndexRange ==
    ASSUME NEW hash \in [Keys -> Nat], NEW k \in Keys, NEW n \in Nat \ {0}
    PROVE  Index(hash, k, n) \in 1..n
<1>1. hash[k] \in Nat
  OBVIOUS
<1>2. hash[k] % n \in 0..(n - 1)
  BY <1>1
<1>3. QED
  BY <1>2 DEF Index

(* The chain that dhash_insert_elm takes gets a new end, the others stay.   *)
Put(table, new, at, e) ==
    /\ at \in DOMAIN table
    /\ new \in Seq(Seq(Elms)) /\ Len(new) = Len(table)
    /\ DOMAIN new = DOMAIN table
    /\ OneChain(new)
    /\ \A b \in DOMAIN table :
          /\ \A d : In(d, new[b]) <=> In(d, table[b]) \/ (b = at /\ d = e)
          /\ \A c, d : Before(new[b], c, d)
                 <=> Before(table[b], c, d) \/ (b = at /\ In(c, table[b]) /\ d = e)
    /\ \A d : InTable(new, d) <=> InTable(table, d) \/ d = e

LEMMA InsertFacts ==
    ASSUME NEW table \in Seq(Seq(Elms)), OneChain(table), Len(table) >= 1,
           NEW hash \in [Keys -> Nat], NEW e \in Elms, ~InTable(table, e)
    PROVE  Put(table, InsertElm(table, hash, e), Index(hash, Key[e], Len(table)), e)
<1> DEFINE new == InsertElm(table, hash, e)
           at == Index(hash, Key[e], Len(table))
<1>1. DOMAIN table = 1..Len(table) /\ Len(table) \in Nat
  OBVIOUS
<1>2. \A b \in DOMAIN table : table[b] \in Seq(Elms) /\ Distinct(table[b]) /\ ~In(e, table[b])
  BY DEF OneChain, InTable
<1>3. at \in DOMAIN table
  <2>1. Key[e] \in Keys /\ Len(table) \in Nat \ {0}
    OBVIOUS
  <2>2. QED
    BY <1>1, <2>1, IndexRange
<1> HIDE DEF at
<1>4. new = [table EXCEPT ![at] = Append(@, e)]
  BY DEF InsertElm, at
<1>5. DOMAIN new = DOMAIN table
  BY <1>4
<1>6. \A b \in DOMAIN table : new[b] = IF b = at THEN Append(table[b], e) ELSE table[b]
  BY <1>4
<1>7. ASSUME NEW b \in DOMAIN table
      PROVE  /\ new[b] \in Seq(Elms) /\ Distinct(new[b])
             /\ \A d : In(d, new[b]) <=> In(d, table[b]) \/ (b = at /\ d = e)
             /\ \A c, d : Before(new[b], c, d)
                            <=> Before(table[b], c, d) \/ (b = at /\ In(c, table[b]) /\ d = e)
  <2>1. CASE b = at
    <3>1. table[b] \in Seq(Elms) /\ Distinct(table[b]) /\ ~In(e, table[b])
      BY <1>2
    <3>2. new[b] = Append(table[b], e)
      BY <1>6, <2>1
    <3> DEFINE chain == table[b]
               a == Append(chain, e)
    <3>3. /\ a \in Seq(Elms) /\ Distinct(a)
          /\ \A d : In(d, a) <=> In(d, chain) \/ d = e
          /\ \A c, d : Before(a, c, d) <=> Before(chain, c, d) \/ (In(c, chain) /\ d = e)
      <4> HIDE DEF chain
      <4>1. chain \in Seq(Elms) /\ Distinct(chain) /\ ~In(e, chain)
        BY <3>1 DEF chain
      <4>2. QED
        BY <4>1, AppendFacts
    <3> HIDE DEF a
    <3>4. new[b] = a
      BY <3>2 DEF a
    <3>5. QED
      BY <2>1, <3>3, <3>4
  <2>2. CASE b # at
    BY <1>2, <1>6, <2>2
  <2>3. QED
    BY <2>1, <2>2
<1>8. new \in Seq(Seq(Elms)) /\ Len(new) = Len(table)
  <2>1. new \in [1..Len(table) -> Seq(Elms)]
    <3>1. new = [b \in DOMAIN table |-> new[b]]
      BY <1>4
    <3>2. QED
      BY <1>1, <1>7, <3>1
  <2>2. QED
    BY <1>1, <2>1, IsSequence
<1> HIDE DEF new
<1>9. OneChain(new)
  <2>1. ASSUME NEW b \in DOMAIN table, NEW c \in DOMAIN table, NEW d \in Elms,
               In(d, new[b]), In(d, new[c])
        PROVE  b = c
    <3>1. In(d, table[b]) \/ (b = at /\ d = e)
      BY <1>7, <2>1
    <3>2. In(d, table[c]) \/ (c = at /\ d = e)
      BY <1>7, <2>1
    <3>3. QED
      BY <1>2, <3>1, <3>2 DEF OneChain
  <2>2. QED
    BY <1>5, <1>7, <2>1 DEF OneChain
<1>10. \A d : InTable(new, d) <=> InTable(table, d) \/ d = e
  BY <1>3, <1>5, <1>7 DEF InTable
<1>11. QED
  BY <1>3, <1>5, <1>7, <1>8, <1>9, <1>10 DEF new, at, Put

LEMMA InsertAhead ==
    ASSUME NEW table \in Seq(Seq(Elms)), OneChain(table), Len(table) >= 1,
           NEW hash \in [Keys -> Nat], NEW d \in Elms, ~InTable(table, d),
           NEW c, NEW m, NEW e, Ahead(table, c, m, e)
    PROVE  Ahead(InsertElm(table, hash, d), c, m, e)
<1> DEFINE new == InsertElm(table, hash, d)
           at == Index(hash, Key[d], Len(table))
<1>0. Put(table, new, at, d)
  BY InsertFacts
<1> HIDE DEF at, new
<1>1. /\ DOMAIN new = DOMAIN table
      /\ \A b \in DOMAIN table :
            /\ \A x : In(x, table[b]) => In(x, new[b])
            /\ \A x, y : Before(table[b], x, y) => Before(new[b], x, y)
  BY <1>0 DEF Put
<1> HIDE DEF new
<1>2. PICK b \in DOMAIN table :
          In(e, table[b]) /\ (b > c \/ (b = c /\ (e = m \/ Before(table[b], m, e))))
  BY DEF Ahead
<1>3. In(e, new[b]) /\ (Before(table[b], m, e) => Before(new[b], m, e))
  BY <1>1, <1>2
<1>4. Ahead(new, c, m, e)
  BY <1>1, <1>2, <1>3 DEF Ahead
<1>5. QED
  BY <1>4 DEF new

LEMMA EmptyFacts ==
    ASSUME NEW n \in Nat
    PROVE  /\ Empty(n) \in Seq(Seq(Elms)) /\ Len(Empty(n)) = n
           /\ OneChain(Empty(n))
           /\ \A e : ~InTable(Empty(n), e)
           /\ \A b \in 1..n : Empty(n)[b] = <<>>
<1>1. Empty(n) \in [1..n -> Seq(Elms)] /\ \A b \in 1..n : Empty(n)[b] = <<>>
  BY DEF Empty
<1>2. Empty(n) \in Seq(Seq(Elms)) /\ Len(Empty(n)) = n
  BY <1>1, IsSequence
<1>3. DOMAIN Empty(n) = 1..n
  BY DEF Empty
<1>4. \A b \in 1..n : DOMAIN Empty(n)[b] = {}
  BY <1>1
<1>5. QED
  BY <1>1, <1>2, <1>3, <1>4 DEF OneChain, Distinct, In, InTable

-----------------------------------------------------------------------------
(* Which elements are linked.                                               *)

LEMMA TablesPut ==
    ASSUME NEW table, NEW new, NEW list \in Seq(Elms), NEW e \in Elms, NEW to, NEW at,
           TablesOf(table, new, list), ~In(e, list), Put(table, to, at, e)
    PROVE  TablesOf(to, new, Append(list, e))
<1> DEFINE more == Append(list, e)
<1>1. Distinct(list)
  BY DEF TablesOf
<1>2. Distinct(more) /\ \A d : In(d, more) <=> In(d, list) \/ d = e
  BY <1>1, AppendFacts
<1> HIDE DEF more
<1>3. OneChain(to) /\ \A d : InTable(to, d) <=> InTable(table, d) \/ d = e
  BY DEF Put
<1>4. TablesOf(to, new, more)
  BY <1>2, <1>3 DEF TablesOf
<1>5. QED
  BY <1>4 DEF more

LEMMA TablesTaken ==
    ASSUME NEW table, NEW new, NEW list \in Seq(Elms), NEW e, NEW to,
           TablesOf(table, new, list), ~InTable(new, e), Taken(table, to, e)
    PROVE  TablesOf(to, new, Without(list, e))
<1> DEFINE less == Without(list, e)
<1>1. Distinct(list)
  BY DEF TablesOf
<1>2. Distinct(less) /\ \A d : In(d, less) <=> In(d, list) /\ d # e
  BY <1>1, WithoutFacts
<1> HIDE DEF less
<1>3. OneChain(to) /\ \A d : InTable(to, d) <=> InTable(table, d) /\ d # e
  BY DEF Taken
<1>4. TablesOf(to, new, less)
  BY <1>2, <1>3 DEF TablesOf
<1>5. QED
  BY <1>4 DEF less

LEMMA TablesMoved ==
    ASSUME NEW table, NEW new, NEW list, NEW e \in Elms, NEW from, NEW to, NEW at,
           TablesOf(table, new, list), InTable(table, e),
           Taken(table, from, e), Put(new, to, at, e)
    PROVE  TablesOf(from, to, list)
<1>1. OneChain(from) /\ \A d : InTable(from, d) <=> InTable(table, d) /\ d # e
  BY DEF Taken
<1>2. OneChain(to) /\ \A d : InTable(to, d) <=> InTable(new, d) \/ d = e
  BY DEF Put
<1>3. QED
  BY <1>1, <1>2 DEF TablesOf

Bare(table) == \A e \in Elms : ~InTable(table, e)

LEMMA TablesBare ==
    ASSUME NEW table, NEW new, NEW list, NEW to,
           TablesOf(table, new, list), Bare(to), OneChain(to)
    PROVE  /\ Bare(new) => TablesOf(table, to, list)
           /\ Bare(table) => TablesOf(new, to, list)
BY DEF TablesOf, Bare

LEMMA NothingIn == Bare(<<>>) /\ OneChain(<<>>)
BY DEF Bare, OneChain, InTable

LEMMA Listed ==
    ASSUME NEW e
    PROVE  e \in Attached <=> In(e, linked)
BY DEF Attached, In

-----------------------------------------------------------------------------
(* Each step keeps the invariant.                                           *)

LEMMA Sizes ==
    ASSUME TypeOK
    PROVE  /\ dh_bk_size \in Nat \ {0} /\ dh_bk_size >= 1
           /\ Len(dh_bucket) = dh_bk_size /\ DOMAIN dh_bucket = 1..dh_bk_size
           /\ Size \in Nat \ {0} /\ MaxSize \in Nat
BY DEF TypeOK, dh_bk_size

(* What a lookup finds is there.                                            *)
LEMMA FoundIsThere ==
    ASSUME TypeOK, NEW k \in Keys, Matches(k) # {}
    PROVE  /\ FirstMatch(k) \in Matches(k) /\ \A j \in Matches(k) : FirstMatch(k) <= j
           /\ Found(k) \in Elms /\ Key[Found(k)] = k
           /\ In(Found(k), Chain(k)) /\ InTable(dh_bucket, Found(k))
<1> DEFINE at == Index(hash_fn, k, dh_bk_size)
           f == FirstMatch(k)
<1>1. at \in DOMAIN dh_bucket /\ Chain(k) = dh_bucket[at]
  BY Sizes, IndexRange DEF Chain
<1>2. dh_bucket[at] \in Seq(Elms)
  BY <1>1 DEF TypeOK
<1> HIDE DEF at
<1>3. Matches(k) \subseteq DOMAIN Chain(k) /\ \A i \in Matches(k) : Key[Chain(k)[i]] = k
  BY DEF Matches
<1>4. Matches(k) \in SUBSET Nat
  BY <1>1, <1>2, <1>3
<1>5. f \in Matches(k) /\ \A j \in Matches(k) : f <= j
  BY <1>4, HasSmallest DEF FirstMatch
<1> HIDE DEF f
<1>6. Found(k) = Chain(k)[f]
  BY DEF Found, f
<1>7. f \in DOMAIN Chain(k) /\ Key[Chain(k)[f]] = k
  BY <1>3, <1>5
<1>8. Found(k) \in Elms
  BY <1>1, <1>2, <1>6, <1>7
<1>9. In(Found(k), Chain(k))
  BY <1>6, <1>7 DEF In
<1>10. QED
  BY <1>1, <1>5, <1>6, <1>7, <1>8, <1>9 DEF InTable, f

(* What the invariant says of the tables, in the form the lemmas need it.   *)
LEMMA Materials ==
    ASSUME IInv
    PROVE  /\ dh_bucket \in Seq(Seq(Elms)) /\ OneChain(dh_bucket) /\ Len(dh_bucket) >= 1
           /\ out \in Seq(Seq(Elms)) /\ OneChain(out)
           /\ linked \in Seq(Elms) /\ Distinct(linked)
           /\ DOMAIN dh_bucket = 1..Len(dh_bucket) /\ Len(dh_bucket) \in Nat
           /\ pc # "rehash" => out = <<>> /\ \A e \in Elms : ~InTable(out, e)
<1>1. TypeOK /\ Tables /\ Control
  BY DEF IInv
<1>2. Len(dh_bucket) >= 1 /\ DOMAIN dh_bucket = 1..Len(dh_bucket) /\ Len(dh_bucket) \in Nat
  BY <1>1, Sizes
<1>3. pc # "rehash" => out = <<>>
  BY <1>1 DEF Control
<1>4. pc # "rehash" => \A e \in Elms : ~InTable(out, e)
  BY <1>3, NothingIn DEF Bare
<1>5. QED
  BY <1>1, <1>2, <1>3, <1>4 DEF TypeOK, Tables, TablesOf

(* The element that an iteration or a rehash stands on.                     *)
LEMMA OnElement ==
    ASSUME IInv, dh_curr # 0
    PROVE  /\ dh_curr \in DOMAIN dh_bucket /\ dh_iter \in Elms
           /\ In(dh_iter, dh_bucket[dh_curr]) /\ InTable(dh_bucket, dh_iter)
           /\ ~InTable(out, dh_iter) /\ dh_iter \in Attached
<1>1. TypeOK /\ Tables /\ Control /\ Position
  BY DEF IInv
<1>2. dh_curr \in DOMAIN dh_bucket
  BY <1>1, Sizes DEF TypeOK
<1>3. dh_iter \in Elms /\ In(dh_iter, dh_bucket[dh_curr])
  BY <1>1 DEF TypeOK, Control, Position
<1>4. InTable(dh_bucket, dh_iter)
  BY <1>2, <1>3 DEF InTable
<1>5. ~InTable(out, dh_iter) /\ In(dh_iter, linked)
  BY <1>1, <1>3, <1>4 DEF Tables, TablesOf
<1>6. QED
  BY <1>2, <1>3, <1>4, <1>5, Listed

(* What the iterator is after it went to a position of a table.             *)
LEMMA Gone ==
    ASSUME NEW table \in Seq(Seq(Elms)), NEW p, Positioned(table, p), Go(p)
    PROVE  /\ dh_curr' \in 0..Len(table)
           /\ dh_iter' \in Elms \cup {None}
           /\ dh_curr' = 0 <=> dh_iter' = None
           /\ dh_curr' # 0 => In(dh_iter', table[dh_curr'])
<1>1. DOMAIN table = 1..Len(table) /\ Len(table) \in Nat
  OBVIOUS
<1>2. dh_curr' = p[1] /\ dh_iter' = p[2]
  BY DEF Go
<1>3. CASE p = <<0, None>>
  BY <1>1, <1>2, <1>3
<1>4. CASE p[1] \in DOMAIN table /\ p[2] \in Elms /\ In(p[2], table[p[1]])
  <2>1. p[1] # 0 /\ p[1] \in 0..Len(table)
    BY <1>1, <1>4
  <2>2. p[2] # None
    BY <1>4
  <2>3. QED
    BY <1>2, <1>4, <2>1, <2>2
<1>5. QED
  BY <1>3, <1>4 DEF Positioned

LEMMA AttachOne ==
    ASSUME linked \in Seq(Elms), NEW e, e \notin Attached,
           linked' = Append(linked, e),
           IsFiniteSet(Attached), Cardinality(Attached) = Len(linked)
    PROVE  /\ IsFiniteSet(Attached') /\ Cardinality(Attached') = Len(linked')
           /\ Len(linked') = Len(linked) + 1
<1> DEFINE n == Len(linked)
           more == linked'
<1>1. /\ n \in Nat /\ DOMAIN linked = 1..n /\ Len(more) = n + 1 /\ DOMAIN more = 1..(n + 1)
      /\ \A i \in 1..n : more[i] = linked[i]
      /\ more[n + 1] = e
  OBVIOUS
<1> HIDE DEF n, more
<1>2. Attached = {linked[i] : i \in 1..n} /\ Attached' = {more[i] : i \in 1..(n + 1)}
  BY <1>1 DEF Attached, more
<1>3. \A i \in 1..(n + 1) : i \in 1..n \/ i = n + 1
  BY <1>1
<1>4. \A i \in 1..n : i \in 1..(n + 1)
  BY <1>1
<1>5. n + 1 \in 1..(n + 1)
  BY <1>1
<1>6. Attached' = Attached \cup {e}
  BY <1>1, <1>2, <1>3, <1>4, <1>5
<1>7. IsFiniteSet(Attached \cup {e}) /\ Cardinality(Attached \cup {e}) = Cardinality(Attached) + 1
  BY FS_AddElement
<1>8. QED
  BY <1>1, <1>6, <1>7 DEF n, more

LEMMA DetachOne ==
    ASSUME linked \in Seq(Elms), Distinct(linked), NEW e, e \in Attached,
           linked' = Without(linked, e),
           IsFiniteSet(Attached), Cardinality(Attached) = Len(linked)
    PROVE  /\ IsFiniteSet(Attached') /\ Cardinality(Attached') = Len(linked')
           /\ linked' \in Seq(Elms) /\ Len(linked') = Len(linked) - 1
           /\ Attached' = Attached \ {e}
<1> DEFINE less == linked'
<1>1. In(e, linked)
  BY Listed
<1>2. /\ less \in Seq(Elms) /\ Len(less) = Len(linked) - 1
      /\ \A d : In(d, less) <=> In(d, linked) /\ d # e
  BY <1>1, WithoutFacts
<1> HIDE DEF less
<1>3. Attached' = {less[i] : i \in DOMAIN less}
  BY DEF Attached, less
<1>4. \A d : d \in Attached' <=> In(d, less)
  BY <1>3 DEF In
<1>5. \A d : d \in Attached <=> In(d, linked)
  BY Listed
<1>6. Attached' = Attached \ {e}
  BY <1>2, <1>4, <1>5
<1>7. IsFiniteSet(Attached \ {e}) /\ Cardinality(Attached \ {e}) = Cardinality(Attached) - 1
  BY FS_RemoveElement
<1>8. QED
  BY <1>2, <1>6, <1>7 DEF less

LEMMA TakeoutIs ==
    ASSUME IInv, NEW e, dhash_takeout_elm(e)
    PROVE  /\ dh_bucket' = TakenOut(dh_bucket, e)
           /\ Taken(dh_bucket, dh_bucket', e)
           /\ dh_elm_cnt' = dh_elm_cnt - 1
<1>1. dh_bucket' = TakenOut(dh_bucket, e) /\ dh_elm_cnt' = dh_elm_cnt - 1
  BY DEF dhash_takeout_elm, TakenOut
<1>2. Taken(dh_bucket, TakenOut(dh_bucket, e), e)
  BY Materials, TakenOutFacts
<1>3. QED
  BY <1>1, <1>2

(* What dhash_rehash begins with, on a table with all the elements left.    *)
LEMMA BeginFacts ==
    ASSUME TypeOK, NEW table \in Seq(Seq(Elms)), OneChain(table),
           Len(table) = dh_bk_size, BeginRehash(table)
    PROVE  /\ pc' = "rehash" /\ dh_elm_cnt' = 0 /\ count' = 0
           /\ out' \in Seq(Seq(Elms)) /\ OneChain(out') /\ Bare(out')
           /\ Len(out') = 1 + 2 * dh_bk_size /\ Len(out') <= MaxSize
           /\ dh_curr' \in 0..dh_bk_size
           /\ dh_iter' \in Elms \cup {None}
           /\ dh_curr' = 0 <=> dh_iter' = None
           /\ dh_curr' # 0 => In(dh_iter', table[dh_curr'])
           /\ \A e : InTable(table, e) => Ahead(table, dh_curr', dh_iter', e)
<1> DEFINE p == IterInit(table)
           n == 1 + 2 * dh_bk_size
<1>1. dh_bk_size \in Nat /\ dh_bk_size >= 1
  BY Sizes
<1>2. Len(table) >= 1
  BY <1>1
<1>3. Positioned(table, p) /\ \A e : InTable(table, e) => Ahead(table, p[1], p[2], e)
  BY <1>2, IterInitFacts
<1>4. /\ n <= MaxSize /\ pc' = "rehash" /\ dh_elm_cnt' = 0 /\ count' = 0
      /\ out' = Empty(n) /\ Go(p)
  BY DEF BeginRehash
<1>5. n \in Nat
  BY <1>1
<1> HIDE DEF p, n
<1>6. Empty(n) \in Seq(Seq(Elms)) /\ Len(Empty(n)) = n /\ OneChain(Empty(n)) /\ Bare(Empty(n))
  BY <1>5, EmptyFacts DEF Bare
<1>7. /\ dh_curr' \in 0..Len(table)
      /\ dh_iter' \in Elms \cup {None}
      /\ dh_curr' = 0 <=> dh_iter' = None
      /\ dh_curr' # 0 => In(dh_iter', table[dh_curr'])
  BY <1>3, <1>4, Gone
<1>8. dh_curr' = p[1] /\ dh_iter' = p[2]
  BY <1>4 DEF Go
<1>9. n = 1 + 2 * dh_bk_size
  BY DEF n
<1>10. QED
  BY <1>3, <1>4, <1>6, <1>7, <1>8, <1>9

LEMMA StepInsert ==
    ASSUME IInv, NEW e \in Elms, insert(e)
    PROVE  IInv'
<1> DEFINE at == Index(hash_fn, Key[e], Len(dh_bucket))
<1>0. TypeOK /\ Tables /\ Control /\ Position /\ Visits /\ Counts
  BY DEF IInv
<1>1. /\ pc \in {"idle", "iter"} /\ pc' = pc /\ e \notin Attached /\ inserts < MaxInserts
      /\ dh_bucket' = InsertElm(dh_bucket, hash_fn, e)
      /\ dh_elm_cnt' = dh_elm_cnt + 1 /\ linked' = Append(linked, e)
      /\ inserts' = inserts + 1
      /\ out' = out /\ count' = count /\ awaited' = awaited
      /\ dh_curr' = dh_curr /\ dh_iter' = dh_iter
  BY DEF insert, iterVars
<1>2. ~In(e, linked) /\ ~InTable(dh_bucket, e)
  BY <1>0, <1>1, Listed DEF Tables, TablesOf
<1>3. Put(dh_bucket, InsertElm(dh_bucket, hash_fn, e), at, e)
  BY <1>2, Materials, InsertFacts
<1> HIDE DEF at
<1>4. Put(dh_bucket, dh_bucket', at, e)
  BY <1>1, <1>3
<1>5. /\ dh_bucket' \in Seq(Seq(Elms)) /\ Len(dh_bucket') = Len(dh_bucket)
      /\ DOMAIN dh_bucket' = DOMAIN dh_bucket
      /\ \A b \in DOMAIN dh_bucket : \A d : In(d, dh_bucket[b]) => In(d, dh_bucket'[b])
  BY <1>4 DEF Put
<1>6. TypeOK'
  <2>1. linked' \in Seq(Elms)
    BY <1>0, <1>1 DEF TypeOK
  <2>2. inserts' \in 0..MaxInserts
    BY <1>0, <1>1 DEF TypeOK
  <2>3. dh_elm_cnt' \in Int
    BY <1>0, <1>1 DEF TypeOK
  <2>4. QED
    BY <1>0, <1>1, <1>5, <2>1, <2>2, <2>3 DEF TypeOK, dh_bk_size
<1>7. Tables'
  <2>1. TablesOf(dh_bucket', out, Append(linked, e))
    BY <1>0, <1>2, <1>4, Materials, TablesPut DEF Tables
  <2>2. QED
    BY <1>1, <2>1 DEF Tables
<1>8. Control'
  BY <1>0, <1>1 DEF Control
<1>9. Position'
  <2>1. dh_curr # 0 => dh_curr \in DOMAIN dh_bucket
    BY OnElement
  <2>2. QED
    BY <1>0, <1>1, <1>5, <2>1 DEF Position
<1>10. Visits'
  <2>1. ASSUME NEW d, Ahead(dh_bucket, dh_curr, dh_iter, d)
        PROVE  Ahead(dh_bucket', dh_curr, dh_iter, d)
    BY <1>1, <1>2, <2>1, Materials, InsertAhead
  <2>2. QED
    BY <1>0, <1>1, <2>1 DEF Visits
<1>11. Counts'
  <2>1. /\ IsFiniteSet(Attached') /\ Cardinality(Attached') = Len(linked')
        /\ Len(linked') = Len(linked) + 1
    BY <1>0, <1>1, Materials, AttachOne DEF Counts
  <2>2. QED
    BY <1>0, <1>1, <2>1 DEF Counts
<1>12. QED
  BY <1>6, <1>7, <1>8, <1>9, <1>10, <1>11 DEF IInv

LEMMA StepRemove ==
    ASSUME IInv, NEW e \in Elms, remove_obj(e)
    PROVE  IInv'
<1>0. TypeOK /\ Tables /\ Control /\ Position /\ Visits /\ Counts
  BY DEF IInv
<1>1. /\ pc \in {"idle", "iter"} /\ pc' = pc /\ e \in Attached /\ e # dh_iter
      /\ dhash_takeout_elm(e) /\ linked' = Without(linked, e)
      /\ inserts' = inserts /\ awaited' = awaited \ {e}
      /\ out' = out /\ count' = count
      /\ dh_curr' = dh_curr /\ dh_iter' = dh_iter
  BY DEF remove_obj, iterVars
<1>2. /\ dh_bucket' = TakenOut(dh_bucket, e) /\ Taken(dh_bucket, dh_bucket', e)
      /\ dh_elm_cnt' = dh_elm_cnt - 1
  BY <1>1, TakeoutIs
<1>3. /\ dh_bucket' \in Seq(Seq(Elms)) /\ Len(dh_bucket') = Len(dh_bucket)
      /\ DOMAIN dh_bucket' = DOMAIN dh_bucket
      /\ \A b \in DOMAIN dh_bucket : \A d : In(d, dh_bucket[b]) /\ d # e => In(d, dh_bucket'[b])
  BY <1>2 DEF Taken
<1>4. /\ IsFiniteSet(Attached') /\ Cardinality(Attached') = Len(linked')
      /\ linked' \in Seq(Elms) /\ Len(linked') = Len(linked) - 1
  BY <1>0, <1>1, Materials, DetachOne DEF Counts
<1>6. TypeOK'
  <2>1. dh_elm_cnt' \in Int
    BY <1>0, <1>2 DEF TypeOK
  <2>2. QED
    BY <1>0, <1>1, <1>3, <1>4, <2>1 DEF TypeOK, dh_bk_size
<1>7. Tables'
  <2>1. ~InTable(out, e)
    BY <1>1, Materials
  <2>2. TablesOf(dh_bucket', out, Without(linked, e))
    BY <1>0, <1>2, <2>1, Materials, TablesTaken DEF Tables
  <2>3. QED
    BY <1>1, <2>2 DEF Tables
<1>8. Control'
  BY <1>0, <1>1 DEF Control
<1>9. Position'
  <2>1. dh_curr # 0 => dh_curr \in DOMAIN dh_bucket
    BY OnElement
  <2>2. QED
    BY <1>0, <1>1, <1>3, <2>1 DEF Position
<1>10. Visits'
  <2>1. ASSUME NEW d, d # e, Ahead(dh_bucket, dh_curr, dh_iter, d)
        PROVE  Ahead(dh_bucket', dh_curr, dh_iter, d)
    BY <1>1, <1>2, <2>1, Materials, TakeoutAhead
  <2>2. QED
    BY <1>0, <1>1, <2>1 DEF Visits
<1>11. Counts'
  BY <1>0, <1>1, <1>2, <1>4, Materials DEF Counts
<1>12. QED
  BY <1>6, <1>7, <1>8, <1>9, <1>10, <1>11 DEF IInv

LEMMA StepFind ==
    ASSUME IInv, NEW k \in Keys, find_rehash(k)
    PROVE  IInv'
<1>0. TypeOK /\ Tables /\ Control /\ Position /\ Visits /\ Counts
  BY DEF IInv
<1>1. /\ pc = "idle" /\ BeginRehash(dh_bucket)
      /\ dh_bucket' = dh_bucket /\ linked' = linked
      /\ awaited' = awaited /\ inserts' = inserts
  BY DEF find_rehash
<1>2. Len(dh_bucket) = dh_bk_size
  BY <1>0, Sizes
<1>3. /\ pc' = "rehash" /\ dh_elm_cnt' = 0 /\ count' = 0
      /\ out' \in Seq(Seq(Elms)) /\ OneChain(out') /\ Bare(out')
      /\ Len(out') = 1 + 2 * dh_bk_size /\ Len(out') <= MaxSize
      /\ dh_curr' \in 0..dh_bk_size
      /\ dh_iter' \in Elms \cup {None}
      /\ dh_curr' = 0 <=> dh_iter' = None
      /\ dh_curr' # 0 => In(dh_iter', dh_bucket[dh_curr'])
      /\ \A e : InTable(dh_bucket, e) => Ahead(dh_bucket, dh_curr', dh_iter', e)
  BY <1>0, <1>1, <1>2, Materials, BeginFacts
<1>4. Bare(out)
  BY <1>1, Materials DEF Bare
<1>6. TypeOK'
  BY <1>0, <1>1, <1>3 DEF TypeOK, dh_bk_size
<1>7. Tables'
  <2>1. TablesOf(dh_bucket, out', linked)
    BY <1>0, <1>3, <1>4, TablesBare DEF Tables
  <2>2. QED
    BY <1>1, <2>1 DEF Tables
<1>8. Control'
  BY <1>0, <1>1, <1>3 DEF Control, dh_bk_size
<1>9. Position'
  BY <1>1, <1>3 DEF Position
<1>10. Visits'
  BY <1>1, <1>3 DEF Visits
<1>11. Counts'
  <2>1. Attached' = Attached
    BY <1>1 DEF Attached
  <2>2. Moved' = {}
    BY <1>3 DEF Moved, Bare
  <2>3. QED
    BY <1>0, <1>1, <1>3, <2>1, <2>2, FS_EmptySet DEF Counts
<1>12. QED
  BY <1>6, <1>7, <1>8, <1>9, <1>10, <1>11 DEF IInv

LEMMA StepRm ==
    ASSUME IInv, NEW k \in Keys, dhash_rm_elm(k)
    PROVE  IInv'
<1> DEFINE e == Found(k)
           rebuild == Compared(k) >= MaxChain /\ dh_elm_cnt > 1
<1>0. TypeOK /\ Tables /\ Control /\ Position /\ Visits /\ Counts
  BY DEF IInv
<1>a. pc = "idle" /\ Matches(k) # {} /\ linked' = Without(linked, e)
      /\ awaited' = awaited /\ inserts' = inserts
  BY DEF dhash_rm_elm
<1>b. rebuild => /\ dh_bucket' = TakenOut(dh_bucket, e) /\ BeginRehash(dh_bucket')
  BY DEF dhash_rm_elm, TakenOut
<1>c. ~rebuild => /\ dhash_takeout_elm(e)
                  /\ out' = out /\ count' = count /\ pc' = pc
                  /\ dh_curr' = dh_curr /\ dh_iter' = dh_iter
  BY DEF dhash_rm_elm, iterVars
<1>1. e \in Elms /\ InTable(dh_bucket, e)
  BY <1>0, <1>a, FoundIsThere
<1> HIDE DEF e, rebuild
<1>2. In(e, linked) /\ e \in Attached /\ ~InTable(out, e)
  BY <1>0, <1>1, Listed DEF Tables, TablesOf
<1>3. Taken(dh_bucket, dh_bucket', e)
  <2>1. Taken(dh_bucket, TakenOut(dh_bucket, e), e)
    BY Materials, TakenOutFacts
  <2>2. CASE rebuild
    BY <1>b, <2>1, <2>2
  <2>3. CASE ~rebuild
    BY <1>c, <2>3, TakeoutIs
  <2>4. QED
    BY <2>2, <2>3
<1>4. /\ dh_bucket' \in Seq(Seq(Elms)) /\ Len(dh_bucket') = Len(dh_bucket)
      /\ DOMAIN dh_bucket' = DOMAIN dh_bucket /\ OneChain(dh_bucket')
  BY <1>3 DEF Taken
<1>5. /\ IsFiniteSet(Attached') /\ Cardinality(Attached') = Len(linked')
      /\ linked' \in Seq(Elms) /\ Len(linked') = Len(linked) - 1
  BY <1>0, <1>2, <1>a, Materials, DetachOne DEF Counts
<1>6. TablesOf(dh_bucket', out, linked')
  <2>1. TablesOf(dh_bucket', out, Without(linked, e))
    BY <1>0, <1>2, <1>3, Materials, TablesTaken DEF Tables
  <2>2. QED
    BY <1>a, <2>1
<1>7. awaited = {} /\ dh_curr = 0 /\ Bare(out)
  BY <1>0, <1>a, Materials DEF Control, Bare
<1>8. CASE rebuild
  <2>1. Len(dh_bucket') = dh_bk_size
    BY <1>0, <1>4, Sizes
  <2> DEFINE table == dh_bucket'
  <2>2. table \in Seq(Seq(Elms)) /\ OneChain(table) /\ Len(table) = dh_bk_size
        /\ BeginRehash(table)
    BY <1>4, <1>8, <1>b, <2>1
  <2> HIDE DEF table
  <2>3. /\ pc' = "rehash" /\ dh_elm_cnt' = 0 /\ count' = 0
        /\ out' \in Seq(Seq(Elms)) /\ OneChain(out') /\ Bare(out')
        /\ Len(out') = 1 + 2 * dh_bk_size /\ Len(out') <= MaxSize
        /\ dh_curr' \in 0..dh_bk_size
        /\ dh_iter' \in Elms \cup {None}
        /\ dh_curr' = 0 <=> dh_iter' = None
        /\ dh_curr' # 0 => In(dh_iter', table[dh_curr'])
        /\ \A d : InTable(table, d) => Ahead(table, dh_curr', dh_iter', d)
    BY <1>0, <2>2, BeginFacts
  <2>4. dh_bk_size' = dh_bk_size
    BY <1>4 DEF dh_bk_size
  <2>5. TypeOK'
    BY <1>0, <1>4, <1>5, <1>a, <2>3, <2>4 DEF TypeOK
  <2>6. Tables'
    <3>1. TablesOf(table, out', linked')
      <4>1. TablesOf(table, out, linked')
        BY <1>6 DEF table
      <4> DEFINE list == linked'
                 new == out'
      <4> HIDE DEF list, new
      <4>2. TablesOf(table, out, list) /\ Bare(out) /\ Bare(new) /\ OneChain(new)
        BY <1>7, <2>3, <4>1 DEF list, new
      <4>3. TablesOf(table, new, list)
        BY <4>2, TablesBare
      <4>4. QED
        BY <4>3 DEF list, new
    <3>2. QED
      BY <3>1 DEF Tables, table
  <2>7. Control'
    BY <1>0, <1>7, <1>a, <2>3, <2>4 DEF Control
  <2>8. Position'
    BY <2>3 DEF Position, table
  <2>9. Visits'
    BY <2>3 DEF Visits, table
  <2>10. Counts'
    <3>1. Moved' = {}
      BY <2>3 DEF Moved, Bare
    <3>2. QED
      BY <1>5, <2>3, <3>1, FS_EmptySet DEF Counts
  <2>11. QED
    BY <2>5, <2>6, <2>7, <2>8, <2>9, <2>10 DEF IInv
<1>9. CASE ~rebuild
  <2>1. /\ out' = out /\ count' = count /\ pc' = pc
        /\ dh_curr' = dh_curr /\ dh_iter' = dh_iter
        /\ dh_elm_cnt' = dh_elm_cnt - 1
    BY <1>9, <1>c, TakeoutIs
  <2>2. TypeOK'
    <3>1. dh_elm_cnt' \in Int
      BY <1>0, <2>1 DEF TypeOK
    <3>2. QED
      BY <1>0, <1>4, <1>5, <1>a, <2>1, <3>1 DEF TypeOK, dh_bk_size
  <2>3. Tables'
    BY <1>6, <2>1 DEF Tables
  <2>4. Control'
    BY <1>0, <1>a, <2>1 DEF Control
  <2>5. Position'
    BY <1>7, <2>1 DEF Position
  <2>6. Visits'
    BY <1>a, <2>1 DEF Visits
  <2>7. Counts'
    BY <1>0, <1>5, <1>a, <2>1, Materials DEF Counts
  <2>8. QED
    BY <2>2, <2>3, <2>4, <2>5, <2>6, <2>7 DEF IInv
<1>10. QED
  BY <1>8, <1>9

(* The element under the iterator leaves the table, and the iterator goes   *)
(* on to the next one.                                                      *)
LEMMA TakeoutGo ==
    ASSUME IInv, dh_curr # 0, dhash_takeout_elm(dh_iter),
           LET back == IterBack(dh_bucket, dh_curr, dh_iter)
           IN  Go(IterNext(dh_bucket', back[1], back[2]))
    PROVE  /\ Taken(dh_bucket, dh_bucket', dh_iter)
           /\ dh_elm_cnt' = dh_elm_cnt - 1
           /\ dh_bucket' \in Seq(Seq(Elms)) /\ Len(dh_bucket') = Len(dh_bucket)
           /\ dh_curr' \in 0..Len(dh_bucket')
           /\ dh_iter' \in Elms \cup {None}
           /\ dh_curr' = 0 <=> dh_iter' = None
           /\ dh_curr' # 0 => In(dh_iter', dh_bucket'[dh_curr'])
           /\ \A e : Ahead(dh_bucket, dh_curr, dh_iter, e) /\ e # dh_iter
                       => Ahead(dh_bucket', dh_curr', dh_iter', e)
<1> DEFINE q == IterBack(dh_bucket, dh_curr, dh_iter)
           new == dh_bucket'
           p == IterNext(new, q[1], q[2])
<1>1. new = TakenOut(dh_bucket, dh_iter) /\ Taken(dh_bucket, new, dh_iter)
      /\ dh_elm_cnt' = dh_elm_cnt - 1
  BY TakeoutIs
<1>2. Go(p)
  OBVIOUS
<1> HIDE DEF new
<1>3. /\ Positioned(new, p)
      /\ \A e : Ahead(dh_bucket, dh_curr, dh_iter, e) /\ e # dh_iter
                  => Ahead(new, p[1], p[2], e)
  <2>1. LET np == IterNext(TakenOut(dh_bucket, dh_iter), q[1], q[2])
        IN  /\ Positioned(TakenOut(dh_bucket, dh_iter), np)
            /\ \A e : Ahead(dh_bucket, dh_curr, dh_iter, e) /\ e # dh_iter
                        => Ahead(TakenOut(dh_bucket, dh_iter), np[1], np[2], e)
    BY OnElement, Materials, TakeoutStep
  <2>2. QED
    BY <1>1, <2>1
<1> HIDE DEF p, q
<1>4. new \in Seq(Seq(Elms)) /\ Len(new) = Len(dh_bucket)
  BY <1>1 DEF Taken
<1>5. /\ dh_curr' \in 0..Len(new)
      /\ dh_iter' \in Elms \cup {None}
      /\ dh_curr' = 0 <=> dh_iter' = None
      /\ dh_curr' # 0 => In(dh_iter', new[dh_curr'])
  BY <1>2, <1>3, <1>4, Gone
<1>6. dh_curr' = p[1] /\ dh_iter' = p[2]
  BY <1>2 DEF Go
<1>7. QED
  BY <1>1, <1>3, <1>4, <1>5, <1>6 DEF new

LEMMA StepMove ==
    ASSUME IInv, rehash_move
    PROVE  IInv'
<1> DEFINE at == Index(dh_hash_fn, Key[dh_iter], Len(out))
<1>0. TypeOK /\ Tables /\ Control /\ Position /\ Visits /\ Counts
  BY DEF IInv
<1>1. /\ pc = "rehash" /\ pc' = pc /\ dh_curr # 0 /\ dhash_takeout_elm(dh_iter)
      /\ count' = count + 1 /\ out' = InsertElm(out, dh_hash_fn, dh_iter)
      /\ linked' = linked /\ awaited' = awaited /\ inserts' = inserts
  BY DEF rehash_move
<1>2. /\ dh_curr \in DOMAIN dh_bucket /\ dh_iter \in Elms
      /\ In(dh_iter, dh_bucket[dh_curr]) /\ InTable(dh_bucket, dh_iter)
      /\ ~InTable(out, dh_iter) /\ dh_iter \in Attached
  BY <1>1, OnElement
<1>3. /\ Taken(dh_bucket, dh_bucket', dh_iter)
      /\ dh_elm_cnt' = dh_elm_cnt - 1
      /\ dh_bucket' \in Seq(Seq(Elms)) /\ Len(dh_bucket') = Len(dh_bucket)
      /\ dh_curr' \in 0..Len(dh_bucket')
      /\ dh_iter' \in Elms \cup {None}
      /\ dh_curr' = 0 <=> dh_iter' = None
      /\ dh_curr' # 0 => In(dh_iter', dh_bucket'[dh_curr'])
      /\ \A e : Ahead(dh_bucket, dh_curr, dh_iter, e) /\ e # dh_iter
                  => Ahead(dh_bucket', dh_curr', dh_iter', e)
  BY <1>1, TakeoutGo DEF rehash_move
<1>4. Len(out) = 1 + 2 * dh_bk_size /\ Len(out) <= MaxSize
  BY <1>0, <1>1 DEF Control
<1>5. Len(out) >= 1
  BY <1>0, <1>4, Sizes
<1>6. Put(out, InsertElm(out, dh_hash_fn, dh_iter), at, dh_iter)
  BY <1>2, <1>5, Materials, InsertFacts
<1> HIDE DEF at
<1>7. Put(out, out', at, dh_iter)
  BY <1>1, <1>6
<1>8. out' \in Seq(Seq(Elms)) /\ Len(out') = Len(out)
      /\ \A d : InTable(out', d) <=> InTable(out, d) \/ d = dh_iter
  BY <1>7 DEF Put
<1>9. dh_bk_size' = dh_bk_size
  BY <1>3 DEF dh_bk_size
<1>10. TypeOK'
  <2>1. dh_elm_cnt' \in Int /\ count' \in Nat
    BY <1>0, <1>1, <1>3 DEF TypeOK
  <2>2. dh_curr' \in 0..dh_bk_size'
    BY <1>3 DEF dh_bk_size
  <2>3. QED
    BY <1>0, <1>1, <1>3, <1>8, <1>9, <2>1, <2>2 DEF TypeOK
<1>11. Tables'
  <2>1. TablesOf(dh_bucket', out', linked)
    BY <1>0, <1>2, <1>3, <1>7, TablesMoved DEF Tables
  <2>2. QED
    BY <1>1, <2>1 DEF Tables
<1>12. Control'
  BY <1>0, <1>1, <1>3, <1>4, <1>8, <1>9 DEF Control
<1>13. Position'
  BY <1>3 DEF Position
<1>14. Visits'
  <2>1. \A d : InTable(dh_bucket', d) <=> InTable(dh_bucket, d) /\ d # dh_iter
    BY <1>3 DEF Taken
  <2>2. QED
    BY <1>0, <1>1, <1>3, <2>1 DEF Visits
<1>15. Counts'
  <2>1. Attached' = Attached
    BY <1>1 DEF Attached
  <2>2. Moved' = Moved \cup {dh_iter}
    BY <1>2, <1>8 DEF Moved
  <2>3. dh_iter \notin Moved /\ IsFiniteSet(Moved) /\ count = Cardinality(Moved)
        /\ count + dh_elm_cnt = 0
    BY <1>0, <1>1, <1>2 DEF Moved, Counts
  <2>4. IsFiniteSet(Moved') /\ Cardinality(Moved') = count + 1
    BY <2>2, <2>3, FS_AddElement
  <2>5. count' + dh_elm_cnt' = 0
    BY <1>0, <1>1, <1>3, <2>3 DEF TypeOK
  <2>6. QED
    BY <1>0, <1>1, <2>1, <2>4, <2>5 DEF Counts
<1>16. QED
  BY <1>10, <1>11, <1>12, <1>13, <1>14, <1>15 DEF IInv

(* When the iterator is at its end, a rehash has emptied the old table.     *)
LEMMA AllMoved ==
    ASSUME IInv, pc = "rehash", dh_curr = 0
    PROVE  /\ Bare(dh_bucket) /\ Moved = Attached /\ count = Len(linked)
<1>0. TypeOK /\ Tables /\ Visits /\ Counts
  BY DEF IInv
<1>1. \A e \in Elms : InTable(dh_bucket, e) => dh_curr # 0
  BY <1>0 DEF Visits, Ahead
<1>2. Bare(dh_bucket)
  BY <1>1 DEF Bare
<1>3. \A e \in Elms : e \in Attached <=> InTable(out, e)
  BY <1>0, <1>2, Listed DEF Tables, TablesOf, Bare
<1>4. Attached \subseteq Elms
  BY Materials DEF Attached
<1>5. Moved = Attached
  BY <1>3, <1>4 DEF Moved
<1>6. QED
  BY <1>0, <1>2, <1>5 DEF Counts

LEMMA StepEnd ==
    ASSUME IInv, rehash_end
    PROVE  IInv'
<1>0. TypeOK /\ Tables /\ Control /\ Position /\ Visits /\ Counts
  BY DEF IInv
<1>1. /\ pc = "rehash" /\ dh_curr = 0 /\ pc' = "idle"
      /\ dh_bucket' = out /\ dh_elm_cnt' = count /\ out' = <<>>
      /\ count' = count /\ linked' = linked /\ awaited' = awaited /\ inserts' = inserts
      /\ dh_curr' = dh_curr /\ dh_iter' = dh_iter
  BY DEF rehash_end, iterVars
<1>2. Bare(dh_bucket) /\ count = Len(linked)
  BY <1>1, AllMoved
<1>3. Len(out) = 1 + 2 * dh_bk_size /\ Len(out) <= MaxSize
  BY <1>0, <1>1 DEF Control
<1>4. dh_bk_size' = Len(out)
  BY <1>1 DEF dh_bk_size
<1>5. TypeOK'
  <2>1. dh_bk_size' \in Size..(MaxSize + Size)
    <3>1. dh_bk_size \in Size..(MaxSize + Size)
      BY <1>0 DEF TypeOK
    <3>2. Size \in Nat /\ MaxSize \in Nat
      BY <1>0, Sizes
    <3>3. QED
      BY <1>3, <1>4, <3>1, <3>2
  <2>2. dh_bk_size' \in Nat
    BY <1>0, <2>1, Sizes
  <2>3. dh_curr' \in 0..dh_bk_size'
    BY <1>1, <2>2
  <2>4. dh_elm_cnt' \in Int /\ out' \in Seq(Seq(Elms))
    BY <1>0, <1>1 DEF TypeOK
  <2>5. QED
    BY <1>0, <1>1, <2>1, <2>3, <2>4 DEF TypeOK
<1>6. Tables'
  <2>1. TablesOf(out, <<>>, linked)
    BY <1>0, <1>2, NothingIn, TablesBare DEF Tables
  <2>2. QED
    BY <1>1, <2>1 DEF Tables
<1>7. Control'
  BY <1>0, <1>1 DEF Control
<1>8. Position'
  BY <1>1 DEF Position
<1>9. Visits'
  BY <1>1 DEF Visits
<1>10. Counts'
  <2>1. Attached' = Attached
    BY <1>1 DEF Attached
  <2>2. QED
    BY <1>0, <1>1, <1>2, <2>1 DEF Counts
<1>11. QED
  BY <1>5, <1>6, <1>7, <1>8, <1>9, <1>10 DEF IInv

LEMMA StepIterBegin ==
    ASSUME IInv, iter_begin
    PROVE  IInv'
<1> DEFINE p == IterInit(dh_bucket)
<1>0. TypeOK /\ Tables /\ Control /\ Position /\ Visits /\ Counts
  BY DEF IInv
<1>1. /\ pc = "idle" /\ pc' = "iter" /\ Go(p) /\ awaited' = Attached
      /\ dh_bucket' = dh_bucket /\ dh_elm_cnt' = dh_elm_cnt /\ out' = out
      /\ count' = count /\ linked' = linked /\ inserts' = inserts
  BY DEF iter_begin
<1>2. Positioned(dh_bucket, p) /\ \A e : InTable(dh_bucket, e) => Ahead(dh_bucket, p[1], p[2], e)
  BY Materials, IterInitFacts
<1> HIDE DEF p
<1>3. /\ dh_curr' \in 0..Len(dh_bucket)
      /\ dh_iter' \in Elms \cup {None}
      /\ dh_curr' = 0 <=> dh_iter' = None
      /\ dh_curr' # 0 => In(dh_iter', dh_bucket[dh_curr'])
  BY <1>1, <1>2, Materials, Gone
<1>4. dh_curr' = p[1] /\ dh_iter' = p[2]
  BY <1>1 DEF Go
<1>5. Attached \subseteq Elms
  BY Materials DEF Attached
<1>6. TypeOK'
  BY <1>0, <1>1, <1>3, <1>5 DEF TypeOK, dh_bk_size
<1>7. Tables'
  BY <1>0, <1>1 DEF Tables
<1>8. Control'
  BY <1>0, <1>1, <1>3 DEF Control
<1>9. Position'
  BY <1>1, <1>3 DEF Position
<1>10. Visits'
  <2>1. \A e \in Attached : InTable(dh_bucket, e)
    BY <1>0, <1>1, <1>5, Listed, Materials DEF Tables, TablesOf
  <2>2. \A e \in awaited' : Ahead(dh_bucket', dh_curr', dh_iter', e)
    BY <1>1, <1>2, <1>4, <2>1
  <2>3. QED
    BY <1>1, <2>2 DEF Visits
<1>11. Counts'
  <2>1. Attached' = Attached
    BY <1>1 DEF Attached
  <2>2. QED
    BY <1>0, <1>1, <2>1 DEF Counts
<1>12. QED
  BY <1>6, <1>7, <1>8, <1>9, <1>10, <1>11 DEF IInv

LEMMA StepIterNext ==
    ASSUME IInv, iter_next
    PROVE  IInv'
<1> DEFINE p == IterNext(dh_bucket, dh_curr, dh_iter)
<1>0. TypeOK /\ Tables /\ Control /\ Position /\ Visits /\ Counts
  BY DEF IInv
<1>1. /\ pc = "iter" /\ dh_curr # 0 /\ pc' = pc /\ Go(p) /\ awaited' = awaited \ {dh_iter}
      /\ dh_bucket' = dh_bucket /\ dh_elm_cnt' = dh_elm_cnt /\ out' = out
      /\ count' = count /\ linked' = linked /\ inserts' = inserts
  BY DEF iter_next
<1>2. /\ dh_curr \in DOMAIN dh_bucket /\ dh_iter \in Elms /\ dh_iter # None
      /\ In(dh_iter, dh_bucket[dh_curr])
  BY <1>1, OnElement
<1>3. /\ Positioned(dh_bucket, p)
      /\ \A e : After(dh_bucket, dh_curr, dh_iter, e) => Ahead(dh_bucket, p[1], p[2], e)
  BY <1>2, Materials, IterNextFacts
<1> HIDE DEF p
<1>4. /\ dh_curr' \in 0..Len(dh_bucket)
      /\ dh_iter' \in Elms \cup {None}
      /\ dh_curr' = 0 <=> dh_iter' = None
      /\ dh_curr' # 0 => In(dh_iter', dh_bucket[dh_curr'])
  BY <1>1, <1>3, Materials, Gone
<1>5. dh_curr' = p[1] /\ dh_iter' = p[2]
  BY <1>1 DEF Go
<1>6. TypeOK'
  BY <1>0, <1>1, <1>4 DEF TypeOK, dh_bk_size
<1>7. Tables'
  BY <1>0, <1>1 DEF Tables
<1>8. Control'
  BY <1>0, <1>1, <1>4 DEF Control
<1>9. Position'
  BY <1>1, <1>4 DEF Position
<1>10. Visits'
  <2>1. ASSUME NEW e, e # dh_iter, Ahead(dh_bucket, dh_curr, dh_iter, e)
        PROVE  After(dh_bucket, dh_curr, dh_iter, e)
    BY <2>1 DEF Ahead, After, Follows
  <2>2. \A e \in awaited' : Ahead(dh_bucket', dh_curr', dh_iter', e)
    BY <1>0, <1>1, <1>3, <1>5, <2>1 DEF Visits
  <2>3. QED
    BY <1>1, <2>2 DEF Visits
<1>11. Counts'
  <2>1. Attached' = Attached
    BY <1>1 DEF Attached
  <2>2. QED
    BY <1>0, <1>1, <2>1 DEF Counts
<1>12. QED
  BY <1>6, <1>7, <1>8, <1>9, <1>10, <1>11 DEF IInv

LEMMA StepIterTakeout ==
    ASSUME IInv, iter_takeout
    PROVE  IInv'
<1>0. TypeOK /\ Tables /\ Control /\ Position /\ Visits /\ Counts
  BY DEF IInv
<1>1. /\ pc = "iter" /\ pc' = pc /\ dh_curr # 0 /\ dhash_takeout_elm(dh_iter)
      /\ linked' = Without(linked, dh_iter) /\ awaited' = awaited \ {dh_iter}
      /\ out' = out /\ count' = count /\ inserts' = inserts
  BY DEF iter_takeout
<1>2. /\ dh_iter \in Elms /\ ~InTable(out, dh_iter) /\ dh_iter \in Attached
  BY <1>1, OnElement
<1>3. /\ Taken(dh_bucket, dh_bucket', dh_iter)
      /\ dh_elm_cnt' = dh_elm_cnt - 1
      /\ dh_bucket' \in Seq(Seq(Elms)) /\ Len(dh_bucket') = Len(dh_bucket)
      /\ dh_curr' \in 0..Len(dh_bucket')
      /\ dh_iter' \in Elms \cup {None}
      /\ dh_curr' = 0 <=> dh_iter' = None
      /\ dh_curr' # 0 => In(dh_iter', dh_bucket'[dh_curr'])
      /\ \A e : Ahead(dh_bucket, dh_curr, dh_iter, e) /\ e # dh_iter
                  => Ahead(dh_bucket', dh_curr', dh_iter', e)
  BY <1>1, TakeoutGo DEF iter_takeout
<1>4. /\ IsFiniteSet(Attached') /\ Cardinality(Attached') = Len(linked')
      /\ linked' \in Seq(Elms) /\ Len(linked') = Len(linked) - 1
  BY <1>0, <1>1, <1>2, Materials, DetachOne DEF Counts
<1>5. TypeOK'
  <2>1. dh_elm_cnt' \in Int
    BY <1>0, <1>3 DEF TypeOK
  <2>2. dh_curr' \in 0..dh_bk_size' /\ dh_bk_size' = dh_bk_size
    BY <1>3 DEF dh_bk_size
  <2>3. QED
    BY <1>0, <1>1, <1>3, <1>4, <2>1, <2>2 DEF TypeOK
<1>6. Tables'
  <2>1. TablesOf(dh_bucket', out, Without(linked, dh_iter))
    BY <1>0, <1>2, <1>3, Materials, TablesTaken DEF Tables
  <2>2. QED
    BY <1>1, <2>1 DEF Tables
<1>7. Control'
  BY <1>0, <1>1, <1>3 DEF Control
<1>8. Position'
  BY <1>3 DEF Position
<1>9. Visits'
  BY <1>0, <1>1, <1>3 DEF Visits
<1>10. Counts'
  BY <1>0, <1>1, <1>3, <1>4, Materials DEF Counts
<1>11. QED
  BY <1>5, <1>6, <1>7, <1>8, <1>9, <1>10 DEF IInv

LEMMA StepIterEnd ==
    ASSUME IInv, iter_end
    PROVE  IInv'
<1>0. TypeOK /\ Tables /\ Control /\ Position /\ Visits /\ Counts
  BY DEF IInv
<1>1. /\ pc = "iter" /\ dh_curr = 0 /\ pc' = "idle"
      /\ dh_bucket' = dh_bucket /\ dh_elm_cnt' = dh_elm_cnt /\ out' = out
      /\ count' = count /\ linked' = linked /\ inserts' = inserts
      /\ awaited' = awaited /\ dh_curr' = dh_curr /\ dh_iter' = dh_iter
  BY DEF iter_end, iterVars
<1>2. awaited = {}
  BY <1>0, <1>1 DEF Visits, Ahead
<1>3. TypeOK'
  BY <1>0, <1>1 DEF TypeOK, dh_bk_size
<1>4. Tables' /\ Position' /\ Visits'
  BY <1>0, <1>1 DEF Tables, Position, Visits
<1>5. Control'
  BY <1>0, <1>1, <1>2 DEF Control
<1>6. Counts'
  <2>1. Attached' = Attached
    BY <1>1 DEF Attached
  <2>2. QED
    BY <1>0, <1>1, <2>1 DEF Counts
<1>7. QED
  BY <1>3, <1>4, <1>5, <1>6 DEF IInv

LEMMA InitIInv == Init => IInv
<1> SUFFICES ASSUME Init PROVE IInv
  OBVIOUS
<1>1. /\ dh_bucket = Empty(Size) /\ dh_elm_cnt = 0 /\ out = <<>> /\ count = 0
      /\ dh_curr = 0 /\ dh_iter = None /\ pc = "idle" /\ linked = <<>>
      /\ awaited = {} /\ inserts = 0
  BY DEF Init
<1>2. Size \in Nat \ {0}
  OBVIOUS
<1>3. /\ dh_bucket \in Seq(Seq(Elms)) /\ Len(dh_bucket) = Size
      /\ OneChain(dh_bucket) /\ \A e : ~InTable(dh_bucket, e)
  BY <1>1, <1>2, EmptyFacts
<1>4. linked \in Seq(Elms) /\ out \in Seq(Seq(Elms)) /\ DOMAIN linked = {}
  BY <1>1
<1>5. TypeOK
  <2>1. dh_bk_size \in Size..(MaxSize + Size)
    BY <1>2, <1>3 DEF dh_bk_size
  <2>2. dh_curr \in 0..dh_bk_size
    BY <1>1, <1>2, <1>3 DEF dh_bk_size
  <2>3. QED
    BY <1>1, <1>3, <1>4, <2>1, <2>2 DEF TypeOK
<1>6. Tables
  BY <1>1, <1>3, <1>4, NothingIn DEF Tables, TablesOf, Distinct, In, Bare
<1>7. Control /\ Position /\ Visits
  BY <1>1 DEF Control, Position, Visits
<1>8. Counts
  <2>1. Attached = {}
    BY <1>4 DEF Attached
  <2>2. QED
    BY <1>1, <2>1, FS_EmptySet DEF Counts
<1>9. QED
  BY <1>5, <1>6, <1>7, <1>8 DEF IInv

LEMMA StepIInv == IInv /\ [Next]_vars => IInv'
<1> SUFFICES ASSUME IInv, [Next]_vars PROVE IInv'
  OBVIOUS
<1>1. CASE rehash_move
  BY <1>1, StepMove
<1>2. CASE rehash_end
  BY <1>2, StepEnd
<1>3. CASE iter_begin
  BY <1>3, StepIterBegin
<1>4. CASE iter_next
  BY <1>4, StepIterNext
<1>5. CASE iter_takeout
  BY <1>5, StepIterTakeout
<1>6. CASE iter_end
  BY <1>6, StepIterEnd
<1>7. ASSUME NEW e \in Elms, insert(e) \/ remove_obj(e) PROVE IInv'
  BY <1>7, StepInsert, StepRemove
<1>8. ASSUME NEW k \in Keys, find_rehash(k) \/ dhash_rm_elm(k) PROVE IInv'
  BY <1>8, StepFind, StepRm
<1>9. CASE UNCHANGED vars
  <2>1. /\ dh_bucket' = dh_bucket /\ dh_elm_cnt' = dh_elm_cnt /\ out' = out
        /\ count' = count /\ linked' = linked /\ inserts' = inserts /\ pc' = pc
        /\ awaited' = awaited /\ dh_curr' = dh_curr /\ dh_iter' = dh_iter
    BY <1>9 DEF vars, iterVars
  <2>2. Attached' = Attached /\ Moved' = Moved /\ dh_bk_size' = dh_bk_size
    BY <2>1 DEF Attached, Moved, dh_bk_size
  <2>3. TypeOK /\ Tables /\ Control /\ Position /\ Visits /\ Counts
    BY DEF IInv
  <2>4. TypeOK' /\ Tables' /\ Position' /\ Visits'
    BY <2>1, <2>2, <2>3 DEF TypeOK, Tables, Position, Visits
  <2>5. Control' /\ Counts'
    BY <2>1, <2>2, <2>3 DEF Control, Counts
  <2>6. QED
    BY <2>4, <2>5 DEF IInv
<1>10. QED
  BY <1>1, <1>2, <1>3, <1>4, <1>5, <1>6, <1>7, <1>8, <1>9 DEF Next

(* dhash_iter_next and dhash_iter_rm_curr (hash.c, lines 286-334) stand on   *)
(* an element or at the end, and leave none out, for any hashes.            *)
THEOREM IterationAlwaysSound == Spec => []IterationSound
<1>1. IInv => IterationSound
  <2> SUFFICES ASSUME IInv PROVE IterationSound
    OBVIOUS
  <2>1. IterSound
    BY OnElement DEF IterSound
  <2>2. pc = "iter" /\ dh_curr = 0 => awaited = {}
    BY DEF IInv, Visits, Ahead
  <2>3. pc = "rehash" /\ dh_curr = 0 => count = Len(linked)
    BY AllMoved
  <2>4. QED
    BY <2>1, <2>2, <2>3 DEF IterationSound, IterComplete
<1>2. QED
  BY InitIInv, StepIInv, <1>1, PTL DEF Spec

-----------------------------------------------------------------------------
(* The table and its count.                                                 *)

LEMMA PlacesAre ==
    ASSUME NEW table \in Seq(Seq(Elms)), OneChain(table), NEW e \in Elms
    PROVE  Cardinality(Places(table, e)) = IF InTable(table, e) THEN 1 ELSE 0
<1> DEFINE at(i) == {j \in DOMAIN table[i] : table[i][j] = e}
<1>1. Places(table, e) = UNION {{i} \X at(i) : i \in DOMAIN table}
  BY DEF Places
<1>2. \A i \in DOMAIN table : at(i) # {} => In(e, table[i])
  BY DEF In
<1>3. CASE ~InTable(table, e)
  <2>1. \A i \in DOMAIN table : at(i) = {}
    BY <1>2, <1>3 DEF InTable
  <2> HIDE DEF at
  <2>2. \A i \in DOMAIN table : {i} \X at(i) = {}
    BY <2>1
  <2>3. Places(table, e) = {}
    BY <1>1, <2>2
  <2>4. QED
    BY <1>3, <2>3, FS_EmptySet
<1>4. CASE InTable(table, e)
  <2>1. PICK b \in DOMAIN table : In(e, table[b])
    BY <1>4 DEF InTable
  <2>2. table[b] \in Seq(Elms) /\ Distinct(table[b])
    BY DEF OneChain
  <2>3. PICK w \in DOMAIN table[b] : table[b][w] = e
    BY <2>1 DEF In
  <2>4. at(b) = {w}
    BY <2>2, <2>3 DEF Distinct
  <2>5. \A i \in DOMAIN table : at(i) # {} => i = b
    BY <1>2, <2>1 DEF OneChain
  <2> HIDE DEF at
  <2>6. \A i \in DOMAIN table : {i} \X at(i) = IF i = b THEN {<<b, w>>} ELSE {}
    BY <2>4, <2>5, SMTT(60)
  <2>7. Places(table, e) = {<<b, w>>}
    BY <1>1, <2>6
  <2>8. QED
    BY <1>4, <2>7, FS_Singleton
<1>5. QED
  BY <1>3, <1>4

LEMMA CountedAndLinked ==
    ASSUME IInv
    PROVE  LinkedOnce /\ CountExact
<1>1. Tables /\ Counts
  BY DEF IInv
<1>2. ASSUME NEW e \in Elms
      PROVE  Cardinality(Places(dh_bucket, e)) + Cardinality(Places(out, e))
                 = IF e \in Attached THEN 1 ELSE 0
  <2>1. /\ Cardinality(Places(dh_bucket, e)) = IF InTable(dh_bucket, e) THEN 1 ELSE 0
        /\ Cardinality(Places(out, e)) = IF InTable(out, e) THEN 1 ELSE 0
    BY Materials, PlacesAre
  <2>2. /\ ~(InTable(dh_bucket, e) /\ InTable(out, e))
        /\ e \in Attached <=> InTable(dh_bucket, e) \/ InTable(out, e)
    BY <1>1, Listed DEF Tables, TablesOf
  <2>3. QED
    BY <2>1, <2>2
<1>3. LinkedOnce
  BY <1>2 DEF LinkedOnce
<1>4. CountExact
  BY <1>1 DEF CountExact, Counts
<1>5. QED
  BY <1>3, <1>4

-----------------------------------------------------------------------------
(* What a lookup finds.                                                     *)

LEMMA KeysPut ==
    ASSUME NEW table, NEW new, NEW list \in Seq(Elms), NEW e \in Elms, NEW to, NEW at,
           TablesOf(table, new, list), KeysOf(table, new, list), Bare(new),
           ~In(e, list), Put(table, to, at, e), at = Index(hash_fn, Key[e], Len(table))
    PROVE  KeysOf(to, new, Append(list, e))
<1> DEFINE more == Append(list, e)
<1>1. Distinct(list) /\ ~InTable(table, e)
  BY DEF TablesOf
<1>2. \A c, d : Before(more, c, d) <=> Before(list, c, d) \/ (In(c, list) /\ d = e)
  BY <1>1, AppendFacts
<1>3. \A c, d : Before(list, c, d) => c # e /\ d # e
  BY <1>1, BeforeFacts
<1> HIDE DEF more
<1>4. /\ DOMAIN to = DOMAIN table /\ Len(to) = Len(table)
      /\ \A b \in DOMAIN table :
            /\ \A d : In(d, to[b]) <=> In(d, table[b]) \/ (b = at /\ d = e)
            /\ \A c, d : Before(to[b], c, d)
                   <=> Before(table[b], c, d) \/ (b = at /\ In(c, table[b]) /\ d = e)
  BY DEF Put
<1>5. Hashed(to)
  BY <1>4 DEF KeysOf, Hashed
<1>6. InOrder(to, more)
  <2>1. ASSUME NEW b \in DOMAIN table, NEW c \in Elms, NEW d \in Elms,
               In(c, to[b]), In(d, to[b]), Key[c] = Key[d], Before(more, c, d)
        PROVE  Before(to[b], c, d)
    <3>1. CASE Before(list, c, d)
      <4>1. In(c, table[b]) /\ In(d, table[b])
        BY <1>3, <1>4, <2>1, <3>1
      <4>2. Before(table[b], c, d)
        BY <2>1, <3>1, <4>1 DEF KeysOf, InOrder
      <4>3. QED
        BY <1>4, <4>2
    <3>2. CASE In(c, list) /\ d = e
      <4>1. c # e /\ ~In(e, table[b])
        BY <1>1, <3>2 DEF InTable
      <4>2. In(c, table[b]) /\ b = at
        BY <1>4, <2>1, <3>2, <4>1
      <4>3. QED
        BY <1>4, <3>2, <4>2
    <3>3. QED
      BY <1>2, <2>1, <3>1, <3>2
  <2>2. QED
    BY <1>4, <2>1 DEF InOrder
<1>7. InOrder(new, more) /\ OldestFirst(to, new, more)
  BY DEF InOrder, OldestFirst, Bare, InTable
<1>8. QED
  BY <1>5, <1>6, <1>7 DEF KeysOf, more

LEMMA KeysTaken ==
    ASSUME NEW table, NEW new, NEW list \in Seq(Elms), NEW e, NEW to,
           TablesOf(table, new, list), KeysOf(table, new, list), Taken(table, to, e)
    PROVE  KeysOf(to, new, Without(list, e))
<1> DEFINE less == Without(list, e)
<1>1. Distinct(list)
  BY DEF TablesOf
<1>2. \A c, d : Before(less, c, d) <=> Before(list, c, d) /\ c # e /\ d # e
  BY <1>1, WithoutFacts
<1> HIDE DEF less
<1>3. /\ DOMAIN to = DOMAIN table /\ Len(to) = Len(table)
      /\ \A b \in DOMAIN table :
            /\ \A d : In(d, to[b]) <=> In(d, table[b]) /\ d # e
            /\ \A c, d : Before(to[b], c, d) <=> Before(table[b], c, d) /\ c # e /\ d # e
      /\ \A d : InTable(to, d) <=> InTable(table, d) /\ d # e
  BY DEF Taken
<1>4. Hashed(to)
  BY <1>3 DEF KeysOf, Hashed
<1>5. InOrder(to, less)
  BY <1>2, <1>3 DEF KeysOf, InOrder
<1>6. InOrder(new, less)
  BY <1>2 DEF KeysOf, InOrder
<1>7. OldestFirst(to, new, less)
  BY <1>2, <1>3 DEF KeysOf, OldestFirst
<1>8. QED
  BY <1>4, <1>5, <1>6, <1>7 DEF KeysOf, less

(* The element that a rehash moves is the oldest of its key in the old      *)
(* table, since all that is left there comes after it.                      *)
LEMMA KeysMoved ==
    ASSUME NEW table \in Seq(Seq(Elms)), NEW new, NEW list \in Seq(Elms), NEW m \in Elms,
           NEW from, NEW to, NEW at, NEW c \in DOMAIN table,
           TablesOf(table, new, list), KeysOf(table, new, list), In(m, table[c]),
           \A e \in Elms : InTable(table, e) => Ahead(table, c, m, e),
           Taken(table, from, m), Put(new, to, at, m),
           at = Index(hash_fn, Key[m], Len(new))
    PROVE  KeysOf(from, to, list)
<1>1. /\ DOMAIN from = DOMAIN table /\ Len(from) = Len(table)
      /\ \A b \in DOMAIN table :
            /\ \A d : In(d, from[b]) <=> In(d, table[b]) /\ d # m
            /\ \A d, e : Before(from[b], d, e) <=> Before(table[b], d, e) /\ d # m /\ e # m
      /\ \A d : InTable(from, d) <=> InTable(table, d) /\ d # m
  BY DEF Taken
<1>2. /\ DOMAIN to = DOMAIN new /\ Len(to) = Len(new)
      /\ \A b \in DOMAIN new :
            /\ \A d : In(d, to[b]) <=> In(d, new[b]) \/ (b = at /\ d = m)
            /\ \A d, e : Before(to[b], d, e)
                   <=> Before(new[b], d, e) \/ (b = at /\ In(d, new[b]) /\ e = m)
      /\ \A d : InTable(to, d) <=> InTable(new, d) \/ d = m
  BY DEF Put
<1>3. InTable(table, m) /\ Distinct(list) /\ OneChain(table)
  BY DEF InTable, TablesOf
<1>4. ~InTable(new, m) /\ \A d : ~Before(list, d, d)
  BY <1>3, BeforeFacts DEF TablesOf
<1>5. Hashed(from) /\ Hashed(to)
  BY <1>1, <1>2 DEF KeysOf, Hashed
<1>6. InOrder(from, list)
  <2>1. ASSUME NEW b \in DOMAIN table, NEW d \in Elms, NEW e \in Elms,
               In(d, from[b]), In(e, from[b]), Key[d] = Key[e], Before(list, d, e)
        PROVE  Before(from[b], d, e)
    <3>1. In(d, table[b]) /\ In(e, table[b]) /\ d # m /\ e # m
      BY <1>1, <2>1
    <3>2. Before(table[b], d, e)
      BY <2>1, <3>1 DEF KeysOf, InOrder
    <3>3. QED
      BY <1>1, <3>1, <3>2
  <2>2. QED
    BY <1>1, <2>1 DEF InOrder
<1>7. InOrder(to, list)
  <2>1. ASSUME NEW b \in DOMAIN new, NEW d \in Elms, NEW e \in Elms,
               In(d, to[b]), In(e, to[b]), Key[d] = Key[e], Before(list, d, e)
        PROVE  Before(to[b], d, e)
    <3>1. d # e
      BY <1>4, <2>1
    <3>2. CASE d = m
      <4>1. In(e, new[b])
        BY <1>2, <2>1, <3>1, <3>2
      <4>2. InTable(new, e)
        BY <4>1 DEF InTable
      <4>3. FALSE
        BY <1>3, <2>1, <3>2, <4>2 DEF KeysOf, OldestFirst
      <4>4. QED
        BY <4>3
    <3>3. CASE e = m
      <4>1. In(d, new[b]) /\ ~In(m, new[b])
        BY <1>2, <1>4, <2>1, <3>1, <3>3 DEF InTable
      <4>2. b = at
        BY <1>2, <2>1, <3>3, <4>1
      <4>3. QED
        BY <1>2, <3>3, <4>1, <4>2
    <3>4. CASE d # m /\ e # m
      <4>1. In(d, new[b]) /\ In(e, new[b])
        BY <1>2, <2>1, <3>4
      <4>2. Before(new[b], d, e)
        BY <2>1, <4>1 DEF KeysOf, InOrder
      <4>3. QED
        BY <1>2, <4>2
    <3>5. QED
      BY <3>2, <3>3, <3>4
  <2>2. QED
    BY <1>2, <2>1 DEF InOrder
<1>8. OldestFirst(from, to, list)
  <2>1. ASSUME NEW d \in Elms, NEW e \in Elms, Key[d] = Key[e], Before(list, d, e),
               InTable(from, d), InTable(to, e)
        PROVE  FALSE
    <3>1. InTable(table, d) /\ d # m
      BY <1>1, <2>1
    <3>2. CASE InTable(new, e)
      BY <2>1, <3>1, <3>2 DEF KeysOf, OldestFirst
    <3>3. CASE e = m
      <4>1. PICK b \in DOMAIN table :
                In(d, table[b]) /\ (b > c \/ (b = c /\ (d = m \/ Before(table[b], m, d))))
        BY <3>1 DEF Ahead
      <4>2. b = Index(hash_fn, Key[d], Len(table)) /\ c = Index(hash_fn, Key[m], Len(table))
        BY <4>1 DEF KeysOf, Hashed
      <4>3. b = c
        BY <2>1, <3>3, <4>2
      <4>4. b \in Nat
        BY SMTT(60)
      <4>5. Before(table[b], m, d)
        BY <3>1, <4>1, <4>3, <4>4
      <4>6. Before(table[b], d, m)
        BY <2>1, <3>3, <4>1, <4>3 DEF KeysOf, InOrder
      <4>7. table[b] \in Seq(Elms) /\ Distinct(table[b])
        BY <1>3 DEF OneChain
      <4>8. QED
        BY <4>5, <4>6, <4>7, BeforeFacts
    <3>4. QED
      BY <1>2, <2>1, <3>2, <3>3
  <2>2. QED
    BY <2>1 DEF OldestFirst
<1>9. QED
  BY <1>5, <1>6, <1>7, <1>8 DEF KeysOf

LEMMA KeysBare ==
    ASSUME NEW table, NEW new, NEW list, NEW to, KeysOf(table, new, list), Bare(to)
    PROVE  /\ KeysOf(table, to, list)
           /\ KeysOf(new, to, list)
<1>1. Hashed(to) /\ InOrder(to, list)
  BY DEF Hashed, InOrder, Bare, InTable
<1>2. OldestFirst(table, to, list) /\ OldestFirst(new, to, list)
  BY DEF OldestFirst, Bare
<1>3. QED
  BY <1>1, <1>2 DEF KeysOf

LEMMA StepKeys ==
    ASSUME hash_fn = dh_hash_fn, IInv, KeyInv, [Next]_vars
    PROVE  KeyInv'
<1>0. TypeOK /\ Tables /\ Control /\ Visits
  BY DEF IInv
<1>a. Len(dh_bucket) = dh_bk_size /\ dh_bk_size \in Nat
  BY <1>0, Sizes
<1>b. pc # "rehash" => Bare(out)
  BY Materials DEF Bare
<1>1. CASE rehash_move
  <2> DEFINE at == Index(hash_fn, Key[dh_iter], Len(out))
  <2>1. /\ pc = "rehash" /\ dh_curr # 0 /\ dhash_takeout_elm(dh_iter)
        /\ out' = InsertElm(out, hash_fn, dh_iter) /\ linked' = linked
    BY <1>1 DEF rehash_move
  <2>2. /\ dh_curr \in DOMAIN dh_bucket /\ dh_iter \in Elms
        /\ In(dh_iter, dh_bucket[dh_curr]) /\ ~InTable(out, dh_iter)
    BY <2>1, OnElement
  <2>3. Taken(dh_bucket, dh_bucket', dh_iter)
    BY <2>1, TakeoutIs
  <2>4. Len(out) >= 1
    BY <1>0, <1>a, <2>1 DEF Control
  <2>5. Put(out, InsertElm(out, hash_fn, dh_iter), at, dh_iter)
    BY <2>2, <2>4, Materials, InsertFacts
  <2>6. Put(out, out', at, dh_iter)
    BY <2>1, <2>5
  <2>7. \A e \in Elms : InTable(dh_bucket, e) => Ahead(dh_bucket, dh_curr, dh_iter, e)
    BY <1>0, <2>1 DEF Visits
  <2> DEFINE from == dh_bucket'
             to == out'
  <2> HIDE DEF at, from, to
  <2>8. Taken(dh_bucket, from, dh_iter) /\ Put(out, to, at, dh_iter)
    BY <2>3, <2>6 DEF from, to
  <2>9. TablesOf(dh_bucket, out, linked) /\ KeysOf(dh_bucket, out, linked)
    BY <1>0 DEF Tables, KeyInv
  <2>10. KeysOf(from, to, linked)
    <3>1. dh_bucket \in Seq(Seq(Elms)) /\ linked \in Seq(Elms)
      BY Materials
    <3> DEFINE table == dh_bucket
               list == linked
               m == dh_iter
               c == dh_curr
               new == out
    <3> HIDE DEF table, list, m, c, new
    <3>2. /\ table \in Seq(Seq(Elms)) /\ list \in Seq(Elms) /\ m \in Elms
          /\ c \in DOMAIN table /\ In(m, table[c])
      BY <2>2, <3>1 DEF table, list, m, c
    <3>3. TablesOf(table, new, list) /\ KeysOf(table, new, list)
      BY <2>9 DEF table, list, new
    <3>4. /\ \A e \in Elms : InTable(table, e) => Ahead(table, c, m, e)
          /\ Taken(table, from, m) /\ Put(new, to, at, m)
      BY <2>7, <2>8 DEF table, m, c, new
    <3>5. at = Index(hash_fn, Key[m], Len(new))
      BY DEF at, m, new
    <3>6. KeysOf(from, to, list)
      BY <3>2, <3>3, <3>4, <3>5, KeysMoved
    <3>7. QED
      BY <3>6 DEF list
  <2>11. QED
    BY <2>1, <2>10 DEF KeyInv, from, to
<1>2. CASE rehash_end
  <2>1. dh_bucket' = out /\ out' = <<>> /\ linked' = linked
    BY <1>2 DEF rehash_end
  <2>2. KeysOf(out, <<>>, linked)
    BY NothingIn, KeysBare DEF KeyInv
  <2>3. QED
    BY <2>1, <2>2 DEF KeyInv
<1>3. CASE iter_begin \/ iter_next \/ iter_end
  BY <1>3 DEF iter_begin, iter_next, iter_end, KeyInv
<1>4. ASSUME NEW e, dhash_takeout_elm(e), linked' = Without(linked, e)
      PROVE  KeysOf(dh_bucket', out, linked')
  <2>1. Taken(dh_bucket, dh_bucket', e)
    BY <1>4, TakeoutIs
  <2>2. KeysOf(dh_bucket', out, Without(linked, e))
    BY <1>0, <2>1, Materials, KeysTaken DEF Tables, KeyInv
  <2>3. QED
    BY <1>4, <2>2
<1>5. CASE iter_takeout
  BY <1>4, <1>5 DEF iter_takeout, KeyInv
<1>6. ASSUME NEW e \in Elms, insert(e) PROVE KeyInv'
  <2> DEFINE at == Index(hash_fn, Key[e], Len(dh_bucket))
  <2>1. /\ pc # "rehash" /\ e \notin Attached
        /\ dh_bucket' = InsertElm(dh_bucket, hash_fn, e)
        /\ linked' = Append(linked, e) /\ out' = out
    BY <1>6 DEF insert
  <2>2. ~In(e, linked) /\ ~InTable(dh_bucket, e)
    BY <1>0, <2>1, Listed DEF Tables, TablesOf
  <2>3. Put(dh_bucket, InsertElm(dh_bucket, hash_fn, e), at, e)
    BY <2>2, Materials, InsertFacts
  <2>4. Put(dh_bucket, dh_bucket', at, e)
    BY <2>1, <2>3
  <2> HIDE DEF at
  <2>5. KeysOf(dh_bucket', out, Append(linked, e))
    BY <1>0, <1>b, <2>1, <2>2, <2>4, Materials, KeysPut DEF Tables, KeyInv, at
  <2>6. QED
    BY <2>1, <2>5 DEF KeyInv
<1>7. ASSUME NEW e \in Elms, remove_obj(e) PROVE KeyInv'
  BY <1>4, <1>7 DEF remove_obj, KeyInv
<1>8. ASSUME NEW k \in Keys, find_rehash(k) PROVE KeyInv'
  <2>1. pc # "rehash" /\ BeginRehash(dh_bucket) /\ dh_bucket' = dh_bucket /\ linked' = linked
    BY <1>8 DEF find_rehash
  <2>2. Bare(out')
    BY <1>0, <1>a, <2>1, Materials, BeginFacts
  <2>3. KeysOf(dh_bucket, out', linked)
    BY <2>2, KeysBare DEF KeyInv
  <2>4. QED
    BY <2>1, <2>3 DEF KeyInv
<1>9. ASSUME NEW k \in Keys, dhash_rm_elm(k) PROVE KeyInv'
  <2> DEFINE e == Found(k)
             rebuild == Compared(k) >= MaxChain /\ dh_elm_cnt > 1
  <2>1. linked' = Without(linked, e)
    BY <1>9 DEF dhash_rm_elm
  <2>2. rebuild => dh_bucket' = TakenOut(dh_bucket, e) /\ BeginRehash(dh_bucket')
    BY <1>9 DEF dhash_rm_elm, TakenOut
  <2>3. ~rebuild => dhash_takeout_elm(e) /\ out' = out
    BY <1>9 DEF dhash_rm_elm
  <2> HIDE DEF e, rebuild
  <2>4. CASE rebuild
    <3>1. Taken(dh_bucket, TakenOut(dh_bucket, e), e)
      BY Materials, TakenOutFacts
    <3>2. Taken(dh_bucket, dh_bucket', e)
      BY <2>2, <2>4, <3>1
    <3>3. KeysOf(dh_bucket', out, Without(linked, e))
      BY <1>0, <3>2, Materials, KeysTaken DEF Tables, KeyInv
    <3>4. dh_bucket' \in Seq(Seq(Elms)) /\ OneChain(dh_bucket') /\ Len(dh_bucket') = dh_bk_size
      BY <1>a, <3>2 DEF Taken
    <3> DEFINE table == dh_bucket'
    <3>5. table \in Seq(Seq(Elms)) /\ OneChain(table) /\ Len(table) = dh_bk_size
          /\ BeginRehash(table)
      BY <2>2, <2>4, <3>4
    <3> HIDE DEF table
    <3>6. Bare(out')
      BY <1>0, <3>5, BeginFacts
    <3> DEFINE list == linked'
               new == out'
    <3>7. KeysOf(table, out, list) /\ Bare(new)
      BY <2>1, <3>3, <3>6 DEF table
    <3> HIDE DEF list, new
    <3>8. KeysOf(table, new, list)
      BY <3>7, KeysBare
    <3>9. QED
      BY <3>8 DEF KeyInv, table, list, new
  <2>5. CASE ~rebuild
    BY <1>4, <2>1, <2>3, <2>5 DEF KeyInv
  <2>6. QED
    BY <2>4, <2>5
<1>10. CASE UNCHANGED vars
  BY <1>10 DEF vars, KeyInv
<1>11. QED
  BY <1>1, <1>2, <1>3, <1>5, <1>6, <1>7, <1>8, <1>9, <1>10 DEF Next

LEMMA InitKeys == Init => KeyInv
<1> SUFFICES ASSUME Init PROVE KeyInv
  OBVIOUS
<1>1. dh_bucket = Empty(Size) /\ out = <<>> /\ Size \in Nat
  BY DEF Init
<1>2. \A e : ~InTable(dh_bucket, e)
  BY <1>1, EmptyFacts
<1>3. \A e : ~InTable(out, e)
  BY <1>1 DEF InTable
<1>4. QED
  BY <1>2, <1>3 DEF KeyInv, KeysOf, Hashed, InOrder, OldestFirst, InTable

(* dhash_find_elm stops at the first match of its chain, which is the       *)
(* oldest element of the key.                                               *)
LEMMA FindsTheOldest ==
    ASSUME IInv, KeyInv
    PROVE  FindsOldest
<1> SUFFICES ASSUME pc # "rehash", NEW k \in Keys
             PROVE  LET same == {i \in DOMAIN linked : Key[linked[i]] = k}
                        first == CHOOSE i \in same : \A j \in same : i <= j
                    IN  Found(k) = IF same = {} THEN None ELSE linked[first]
  BY DEF FindsOldest
<1> DEFINE same == {i \in DOMAIN linked : Key[linked[i]] = k}
           first == CHOOSE i \in same : \A j \in same : i <= j
           at == Index(hash_fn, k, dh_bk_size)
<1>0. TypeOK /\ Tables
  BY DEF IInv
<1>1. /\ linked \in Seq(Elms) /\ DOMAIN linked = 1..Len(linked) /\ Len(linked) \in Nat
      /\ Bare(out)
  BY Materials DEF Bare
<1>2. at \in DOMAIN dh_bucket /\ Chain(k) = dh_bucket[at] /\ dh_bk_size = Len(dh_bucket)
  BY <1>0, Sizes, IndexRange DEF Chain
<1>3. Chain(k) \in Seq(Elms) /\ Distinct(Chain(k))
  BY <1>2, Materials DEF OneChain
<1>4. \A e \in Elms : In(e, linked) <=> InTable(dh_bucket, e)
  BY <1>0, <1>1 DEF Tables, TablesOf, Bare
<1>5. \A e \in Elms : InTable(dh_bucket, e) /\ Key[e] = k => In(e, Chain(k))
  BY <1>2 DEF InTable, KeyInv, KeysOf, Hashed
<1> HIDE DEF at
<1>6. Matches(k) # {} =>
        /\ FirstMatch(k) \in Matches(k) /\ \A j \in Matches(k) : FirstMatch(k) <= j
        /\ Found(k) \in Elms /\ Key[Found(k)] = k
        /\ In(Found(k), Chain(k)) /\ InTable(dh_bucket, Found(k))
  BY <1>0, FoundIsThere
<1>7. CASE same = {}
  <2>1. \A e \in Elms : In(e, linked) => Key[e] # k
    BY <1>7 DEF In
  <2>2. Matches(k) = {}
    BY <1>4, <1>6, <2>1
  <2>3. QED
    BY <1>7, <2>2 DEF Found
<1>8. CASE same # {}
  <2> DEFINE x == linked[first]
             f == Found(k)
             chain == Chain(k)
             fm == FirstMatch(k)
  <2>1. same \in SUBSET Nat
    BY <1>1
  <2>2. first \in same /\ \A j \in same : first <= j
    BY <1>8, <2>1, HasSmallest
  <2>3. x \in Elms /\ Key[x] = k /\ In(x, linked) /\ first \in 1..Len(linked)
    <3> HIDE DEF first
    <3>1. first \in DOMAIN linked /\ Key[linked[first]] = k
      BY <2>2
    <3>2. first \in 1..Len(linked) /\ linked[first] \in Elms
      BY <1>1, <3>1
    <3>3. QED
      BY <3>1, <3>2 DEF In
  <2>4. In(x, chain)
    BY <1>4, <1>5, <2>3
  <2>5. PICK i \in DOMAIN chain : chain[i] = x
    BY <2>4 DEF In
  <2>6. i \in Matches(k)
    BY <2>3, <2>5 DEF Matches
  <2>7. /\ fm \in Matches(k) /\ \A j \in Matches(k) : fm <= j
        /\ f \in Elms /\ Key[f] = k /\ In(f, chain) /\ InTable(dh_bucket, f)
    BY <1>6, <2>6
  <2>8. f = chain[fm] /\ fm \in DOMAIN chain
    BY <2>6, <2>7 DEF Found, Matches
  <2>9. PICK j \in 1..Len(linked) : linked[j] = f
    BY <1>1, <1>4, <2>7 DEF In
  <2>10. first <= j
    BY <1>1, <2>2, <2>7, <2>9
  <2> HIDE DEF first, f, fm
  <2>11. CASE first = j
    BY <1>8, <2>9, <2>11 DEF f, first
  <2>12. CASE first # j
    <3>1. first < j
      BY <1>1, <2>3, <2>9, <2>10, <2>12
    <3>2. Before(linked, x, f)
      BY <1>1, <2>3, <2>9, <3>1 DEF Before
    <3>3. In(x, dh_bucket[at]) /\ In(f, dh_bucket[at]) /\ Key[x] = Key[f]
      BY <1>2, <2>3, <2>4, <2>7
    <3>4. Before(dh_bucket[at], x, f)
      BY <1>2, <2>3, <2>7, <3>2, <3>3 DEF KeyInv, KeysOf, InOrder
    <3>5. Before(chain, x, f)
      BY <1>2, <3>4
    <3>6. PICK n, m \in DOMAIN chain : n < m /\ chain[n] = x /\ chain[m] = f
      BY <3>5 DEF Before
    <3>7. n \in Matches(k)
      BY <2>3, <3>6 DEF Matches
    <3>8. fm <= n
      BY <2>7, <3>7
    <3>9. fm = m
      BY <1>3, <2>8, <3>6 DEF Distinct
    <3>10. DOMAIN chain = 1..Len(chain)
      BY <1>3
    <3>11. n \in Nat /\ m \in Nat
      BY <3>6, <3>10
    <3>12. QED
      BY <3>6, <3>8, <3>9, <3>11
  <2>13. QED
    BY <2>11, <2>12
<1>9. QED
  BY <1>7, <1>8

(* A table whose own hash (dh_hash_fn, used by dhash_rehash at line 113) is *)
(* the one its callers pass to dhash_insert, dhash_find and dhash_rm finds  *)
(* for every key its oldest element, and has every element once.            *)
THEOREM TableAlwaysSound ==
    ASSUME hash_fn = dh_hash_fn
    PROVE  Spec => []TableSound
<1>1. Init => IInv /\ KeyInv
  BY InitIInv, InitKeys
<1>2. IInv /\ KeyInv /\ [Next]_vars => (IInv /\ KeyInv)'
  <2> SUFFICES ASSUME IInv, KeyInv, [Next]_vars PROVE IInv' /\ KeyInv'
    OBVIOUS
  <2>1. IInv'
    BY StepIInv
  <2>2. KeyInv'
    BY StepKeys
  <2>3. QED
    BY <2>1, <2>2
<1>3. IInv /\ KeyInv => TableSound
  BY CountedAndLinked, FindsTheOldest DEF TableSound, IInv
<1>4. QED
  BY <1>1, <1>2, <1>3, PTL DEF Spec
=============================================================================
